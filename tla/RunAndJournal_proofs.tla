------------------------ MODULE RunAndJournal_proofs ------------------------
(***************************************************************************)
(* What stands around the sagas: the journal they leave behind, and the    *)
(* run that starts one saga after the other.  The two share no state.      *)
(***************************************************************************)
EXTENDS JournalFile, OfflineRun,
        FiniteSetTheorems, SequenceTheorems, WellFoundedInduction, TLAPS

(***************************************************************************)
(* What the journal keeps, however many processes append to it and however *)
(* many of their writes break off, and wherever in a record.               *)
(*                                                                         *)
(* All that is read comes of how one write changes it: it adds its record, *)
(* or nothing; or it falls on a line in doubt and takes that line's record *)
(* with it, whose append never returned.                                   *)
(***************************************************************************)
LastLine == lines[Len(lines)]

\* The proviso of all that follows: a write never breaks off within a character
\* of several bytes.  One that does leaves a file that raises at every read.
CutsBetweenCharacters == "within a character" \notin Cuts

\* No number is ahead of the appends, and what is in doubt was not acknowledged.
Numbered ==
  /\ Decodes
  /\ \A n \in DOMAIN lines :
       /\ lines[n] # << >>
       /\ \A i \in DOMAIN lines[n] : lines[n][i].id <= appends /\ lines[n][i].seq <= appends
  /\ \A p \in Processes : counter[p] <= appends
  /\ acked \subseteq 1 .. appends
  /\ open => lines # << >> /\ \A i \in DOMAIN LastLine : LastLine[i].id \notin acked

\* A line in doubt may cost one more.
Kept == Cardinality(acked \ ReadIds) + (IF open THEN 1 ELSE 0) <= broken

\* One process at a time is never behind what can be read.
Alone ==
  ~shared =>
    /\ \A p, q \in running : p = q
    /\ \A p \in running, i \in DOMAIN Read : Read[i].seq <= counter[p]
    /\ \A i, j \in DOMAIN Read : i < j => Read[i].seq < Read[j].seq

JournalInv == TypeOK /\ Numbered /\ Kept /\ Alone

-----------------------------------------------------------------------------
(***************************************************************************)
(* Induction over the numbers, and what it shows of the operators the      *)
(* model folds sequences with.  The induction is over a set of numbers,    *)
(* and needs no operator: a number that is not in the set would be a       *)
(* least one, since < is well-founded.                                     *)
(***************************************************************************)
\* A set with 0, and with the successor of what is in it, has every number.
LEMMA NatSetInduction ==
  ASSUME NEW S, 0 \in S, \A n \in Nat : n \in S => n + 1 \in S
  PROVE  Nat \subseteq S
<1> DEFINE R == {pair \in Nat \X Nat : pair[1] < pair[2]}
           T == Nat \ S
<1>1. IsWellFoundedOn(R, Nat)
  BY NatLessThanWellFounded DEF OpToRel
<1>2. SUFFICES ASSUME T # {} PROVE FALSE
  OBVIOUS
<1>3. PICK x \in T : \A y \in T : << y, x >> \notin R
  <2> HIDE DEF R, T
  <2>1. T \subseteq Nat
    BY DEF T
  <2> QED
    BY <1>1, <1>2, <2>1, WFMin
<1>4. x \in Nat /\ x # 0 /\ x - 1 \in Nat /\ x = (x - 1) + 1 /\ x - 1 < x
  OBVIOUS
<1>5. x - 1 \in T
  BY <1>4
<1>6. << x - 1, x >> \in R
  BY <1>4
<1> QED
  BY <1>3, <1>5, <1>6

\* The partial results of FlattenSeq, up to the n-th.
Flattens(f, seqs, n) ==
  f = [i \in 1 .. n |-> IF i = 1 THEN seqs[i] ELSE f[i - 1] \o seqs[i]]

\* Such results there are, however many sequences.
LEMMA FlattensSome ==
  ASSUME NEW seqs, NEW n \in Nat
  PROVE  \E f : Flattens(f, seqs, n)
<1> DEFINE T == {k \in Nat : \E f : Flattens(f, seqs, k)}
<1>1. 0 \in T
  <2>1. Flattens([i \in 1 .. 0 |-> seqs[i]], seqs, 0)
    BY DEF Flattens
  <2> QED
    BY <2>1
<1>2. ASSUME NEW k \in Nat, k \in T
      PROVE  k + 1 \in T
  <2>1. PICK f : Flattens(f, seqs, k)
    BY <1>2
  <2> DEFINE g == [i \in 1 .. k + 1 |-> IF i # k + 1 THEN f[i]
                                        ELSE IF i = 1 THEN seqs[i] ELSE f[i - 1] \o seqs[i]]
  <2>2. ASSUME NEW i \in 1 .. k + 1
        PROVE  g[i] = IF i = 1 THEN seqs[i] ELSE g[i - 1] \o seqs[i]
    <3>1. CASE i = k + 1
      <4>1. i # 1 => g[i - 1] = f[i - 1]
        BY <3>1
      <4> QED
        BY <3>1, <4>1
    <3>2. CASE i # k + 1
      <4>1. i \in 1 .. k /\ g[i] = f[i] /\ (i # 1 => g[i - 1] = f[i - 1])
        BY <3>2
      <4> QED
        BY <2>1, <4>1 DEF Flattens
    <3> QED
      BY <3>1, <3>2
  <2>3. Flattens(g, seqs, k + 1)
    <3>1. g = [i \in 1 .. k + 1 |-> g[i]]
      OBVIOUS
    <3> HIDE DEF g
    <3> QED
      BY <2>2, <3>1 DEF Flattens
  <2> HIDE DEF g
  <2> QED
    BY <2>3
<1> HIDE DEF T
<1>3. Nat \subseteq T
  BY <1>1, <1>2, NatSetInduction
<1> QED
  BY <1>3 DEF T

\* What is flattened is a sequence of all there is in the sequences, and no more.
LEMMA FlattenElements ==
  ASSUME NEW S, NEW seqs \in Seq(Seq(S))
  PROVE  /\ FlattenSeq(seqs) \in Seq(S)
         /\ ToSet(FlattenSeq(seqs)) = UNION {ToSet(seqs[i]) : i \in DOMAIN seqs}
<1>1. CASE seqs = << >>
  BY <1>1, EmptySeq DEF FlattenSeq, ToSet
<1>2. CASE seqs # << >>
  <2> DEFINE n == Len(seqs)
             f == CHOOSE g : Flattens(g, seqs, n)
  <2>1. n \in Nat \ {0} /\ DOMAIN seqs = 1 .. n /\ \A i \in 1 .. n : seqs[i] \in Seq(S)
    BY <1>2
  <2>2. FlattenSeq(seqs) = f[n]
    BY <2>1 DEF FlattenSeq, Flattens
  <2>3. Flattens(f, seqs, n)
    BY <2>1, FlattensSome
  <2> HIDE DEF f
  <2> DEFINE T == {k \in Nat : k + 1 \in 1 .. n =>
                     /\ f[k + 1] \in Seq(S)
                     /\ ToSet(f[k + 1]) = UNION {ToSet(seqs[i]) : i \in 1 .. k + 1}}
  <2> DEFINE Upto(k) == {ToSet(seqs[i]) : i \in 1 .. k}
  <2>4. 0 \in T
    <3>1. f[1] = seqs[1]
      BY <2>1, <2>3 DEF Flattens
    <3>2. Upto(1) = {ToSet(seqs[1])}
      <4>1. 1 .. 1 = {1}
        OBVIOUS
      <4> QED
        BY <4>1
    <3> QED
      BY <2>1, <3>1, <3>2
  <2>5. ASSUME NEW k \in Nat, k \in T
        PROVE  k + 1 \in T
    <3> DEFINE m == k + 2
    <3>1. k + 1 \in Nat /\ (k + 1) + 1 = m /\ m - 1 = k + 1 /\ m # 1
      OBVIOUS
    <3>2. ASSUME m \in 1 .. n
          PROVE  /\ f[m] \in Seq(S)
                 /\ ToSet(f[m]) = UNION Upto(m)
      <4>1. f[m] = f[k + 1] \o seqs[m]
        BY <2>3, <3>1, <3>2 DEF Flattens
      <4>2. f[k + 1] \in Seq(S) /\ ToSet(f[k + 1]) = UNION Upto(k + 1)
        BY <2>5, <3>2
      <4>3. seqs[m] \in Seq(S)
        BY <2>1, <3>2
      <4>4. ToSet(f[m]) = ToSet(f[k + 1]) \cup ToSet(seqs[m])
        <5>1. \A s : Range(s) = ToSet(s)
          BY DEF Range, ToSet
        <5> QED
          BY <4>1, <4>2, <4>3, <5>1, RangeConcatenation
      <4>5. Upto(m) = Upto(k + 1) \cup {ToSet(seqs[m])}
        <5>1. 1 .. m = (1 .. k + 1) \cup {m}
          OBVIOUS
        <5> HIDE DEF m
        <5> QED
          BY <5>1
      <4>6. UNION Upto(m) = (UNION Upto(k + 1)) \cup ToSet(seqs[m])
        <5> HIDE DEF Upto, m
        <5> QED
          BY <4>5
      <4> QED
        BY <4>1, <4>2, <4>3, <4>4, <4>6, ConcatProperties
    <3> HIDE DEF m, Upto
    <3> QED
      BY <3>1, <3>2 DEF Upto
  <2> HIDE DEF T
  <2>6. Nat \subseteq T
    BY <2>4, <2>5, NatSetInduction
  <2>7. n - 1 \in T /\ (n - 1) + 1 = n
    <3> HIDE DEF n
    <3> QED
      BY <2>1, <2>6
  <2> QED
    BY <2>1, <2>2, <2>7 DEF T
<1> QED
  BY <1>1, <1>2

\* What is flattened depends on nothing but the sequences so far.
LEMMA FlattensAgree ==
  ASSUME NEW s, NEW t, NEW f, NEW g, NEW m \in Nat \ {0},
         Flattens(f, s, m), Flattens(g, t, m + 1), \A i \in 1 .. m : s[i] = t[i]
  PROVE  f[m] = g[m]
<1> DEFINE T == {k \in Nat : k + 1 \in 1 .. m => f[k + 1] = g[k + 1]}
<1>1. 0 \in T
  BY DEF Flattens
<1>2. ASSUME NEW k \in Nat, k \in T
      PROVE  k + 1 \in T
  <2>1. ASSUME (k + 1) + 1 \in 1 .. m
        PROVE  f[(k + 1) + 1] = g[(k + 1) + 1]
    <3> DEFINE j == (k + 1) + 1
    <3>1. j # 1 /\ j - 1 = k + 1 /\ k + 1 \in 1 .. m /\ j \in 1 .. m + 1
      BY <2>1
    <3>2. f[k + 1] = g[k + 1]
      BY <1>2, <3>1
    <3>3. f[j] = f[j - 1] \o s[j] /\ g[j] = g[j - 1] \o t[j]
      BY <2>1, <3>1 DEF Flattens
    <3> QED
      BY <2>1, <3>1, <3>2, <3>3
  <2> QED
    BY <2>1
<1> HIDE DEF T
<1>3. Nat \subseteq T
  BY <1>1, <1>2, NatSetInduction
<1>4. m - 1 \in T /\ (m - 1) + 1 = m
  BY <1>3
<1> QED
  BY <1>4 DEF T

\* The last of them is what FlattenSeq returns.
LEMMA FlattenIsTheLast ==
  ASSUME NEW seqs, NEW n \in Nat \ {0}, Len(seqs) = n
  PROVE  \E f : Flattens(f, seqs, n) /\ FlattenSeq(seqs) = f[n]
<1> DEFINE f == CHOOSE h : Flattens(h, seqs, n)
<1>1. Flattens(f, seqs, n)
  BY FlattensSome
<1>2. FlattenSeq(seqs) = f[n]
  BY DEF FlattenSeq, Flattens
<1> QED
  BY <1>1, <1>2

\* One sequence more adds its elements at the end.
LEMMA FlattenOneMore ==
  ASSUME NEW seqs, NEW more, NEW n \in Nat \ {0}, Len(seqs) = n, Len(more) = n + 1,
         \A i \in 1 .. n : seqs[i] = more[i]
  PROVE  FlattenSeq(more) = FlattenSeq(seqs) \o more[n + 1]
<1>1. PICK f : Flattens(f, seqs, n) /\ FlattenSeq(seqs) = f[n]
  BY FlattenIsTheLast
<1>2. PICK g : Flattens(g, more, n + 1) /\ FlattenSeq(more) = g[n + 1]
  BY FlattenIsTheLast
<1>3. f[n] = g[n]
  BY <1>1, <1>2, FlattensAgree
<1>4. g[n + 1] = g[n] \o more[n + 1]
  <2>1. n + 1 \in 1 .. n + 1 /\ n + 1 # 1 /\ (n + 1) - 1 = n
    OBVIOUS
  <2> QED
    BY <1>2, <2>1 DEF Flattens
<1> QED
  BY <1>1, <1>2, <1>3, <1>4

\* To a sequence of sequences a last one is appended.
LEMMA FlattenAppend ==
  ASSUME NEW S, NEW seqs \in Seq(Seq(S)), NEW seq \in Seq(S)
  PROVE  FlattenSeq(Append(seqs, seq)) = FlattenSeq(seqs) \o seq
<1> DEFINE more == Append(seqs, seq)
<1>1. /\ Len(seqs) \in Nat /\ Len(more) = Len(seqs) + 1 /\ more[Len(seqs) + 1] = seq
      /\ \A i \in 1 .. Len(seqs) : seqs[i] = more[i]
  BY AppendProperties
<1>2. CASE seqs = << >>
  <2>1. FlattenSeq(seqs) = << >>
    BY <1>2 DEF FlattenSeq
  <2>2. Len(more) = 1 /\ more[1] = seq
    BY <1>1, <1>2
  <2>3. FlattenSeq(more) = seq
    <3> HIDE DEF more
    <3>1. PICK f : Flattens(f, more, Len(more)) /\ FlattenSeq(more) = f[Len(more)]
      <4>1. Len(more) \in Nat \ {0}
        BY <2>2
      <4> QED
        BY <4>1, FlattenIsTheLast
    <3>2. f[1] = more[1]
      BY <2>2, <3>1 DEF Flattens
    <3> QED
      BY <2>2, <3>1, <3>2
  <2> QED
    BY <2>1, <2>3, ConcatEmptySeq
<1>3. CASE seqs # << >>
  <2>1. Len(seqs) \in Nat \ {0}
    BY <1>3
  <2> HIDE DEF more
  <2>2. FlattenSeq(more) = FlattenSeq(seqs) \o more[Len(seqs) + 1]
    BY <1>1, <2>1, FlattenOneMore
  <2> QED
    BY <1>1, <2>2 DEF more
<1> QED
  BY <1>2, <1>3

\* Numbers that are bounded have a greatest.
LEMMA MaxOfBounded ==
  ASSUME NEW R \in SUBSET Nat, R # {}, NEW n \in Nat, \A x \in R : x <= n
  PROVE  Max(R) \in R /\ \A x \in R : x <= Max(R)
<1> DEFINE Bounded(Q, k) == Q # {} /\ \A x \in Q : x <= k
           HasMax(Q) == \E x \in Q : \A y \in Q : x >= y
           T == {k \in Nat : \A Q \in SUBSET Nat : Bounded(Q, k) => HasMax(Q)}
<1>1. 0 \in T
  <2> SUFFICES ASSUME NEW Q \in SUBSET Nat, Bounded(Q, 0)
               PROVE  HasMax(Q)
    OBVIOUS
  <2>1. \A x \in Q : x = 0
    OBVIOUS
  <2> QED
    BY <2>1
<1>2. ASSUME NEW k \in Nat, k \in T
      PROVE  k + 1 \in T
  <2> SUFFICES ASSUME NEW Q \in SUBSET Nat, Bounded(Q, k + 1)
               PROVE  HasMax(Q)
    OBVIOUS
  <2>1. CASE k + 1 \in Q
    BY <2>1
  <2>2. CASE k + 1 \notin Q
    <3>1. Bounded(Q, k)
      BY <2>2
    <3> HIDE DEF Bounded, HasMax
    <3> QED
      BY <1>2, <3>1
  <2> QED
    BY <2>1, <2>2
<1> HIDE DEF T
<1>3. Nat \subseteq T
  BY <1>1, <1>2, NatSetInduction
<1>4. HasMax(R)
  BY <1>3 DEF T
<1> QED
  BY <1>4 DEF Max

-----------------------------------------------------------------------------
(***************************************************************************)
(* What one write does to what is read.                                    *)
(***************************************************************************)
ReadOf(file) == FlattenSeq([n \in DOMAIN file |-> RecordOn(file[n])])

\* A sequence of length 1 is its element.
LEMMA OneElement ==
  ASSUME NEW S, NEW seq \in Seq(S), Len(seq) = 1
  PROVE  seq[1] \in S /\ seq = << seq[1] >> /\ DOMAIN seq = {1}
<1>1. DOMAIN seq = {1}
  OBVIOUS
<1>2. seq[1] \in S
  BY <1>1
<1>3. << seq[1] >> \in Seq(S) /\ Len(<< seq[1] >>) = 1 /\ << seq[1] >>[1] = seq[1]
  BY <1>2
<1> QED
  BY <1>1, <1>2, <1>3, SeqEqual

\* Nothing but the records on its lines is read of a file.
LEMMA ReadsRecords ==
  ASSUME NEW file \in Seq(Seq(Pieces))
  PROVE  /\ [n \in DOMAIN file |-> RecordOn(file[n])] \in Seq(Seq(Pieces))
         /\ ReadOf(file) \in Seq(Pieces)
         /\ \A piece \in ToSet(ReadOf(file)) :
              \E n \in DOMAIN file : file[n] = << piece >> /\ piece \in Pieces
<1> DEFINE records == [n \in DOMAIN file |-> RecordOn(file[n])]
<1>1. records \in Seq(Seq(Pieces))
  <2>1. \A n \in DOMAIN file : RecordOn(file[n]) \in Seq(Pieces)
    BY EmptySeq DEF RecordOn
  <2>2. DOMAIN file = 1 .. Len(file) /\ Len(file) \in Nat
    OBVIOUS
  <2> QED
    BY <2>1, <2>2, IsASeq
<1> HIDE DEF records
<1>2. ReadOf(file) \in Seq(Pieces)
      /\ ToSet(ReadOf(file)) = UNION {ToSet(records[n]) : n \in DOMAIN records}
  BY <1>1, FlattenElements DEF ReadOf, records
<1>3. ASSUME NEW piece \in ToSet(ReadOf(file))
      PROVE  \E n \in DOMAIN file : file[n] = << piece >> /\ piece \in Pieces
  <2>1. PICK n \in DOMAIN file : piece \in ToSet(RecordOn(file[n]))
    BY <1>2, <1>3 DEF records
  <2>2. file[n] \in Seq(Pieces) /\ Parses(file[n]) /\ piece \in ToSet(file[n])
    BY <2>1 DEF RecordOn, ToSet
  <2>3. Len(file[n]) = 1 /\ DOMAIN file[n] = {1} /\ piece = file[n][1]
    BY <2>2 DEF Parses, ToSet
  <2>4. file[n] = << piece >> /\ piece \in Pieces
    BY <2>2, <2>3, OneElement
  <2> QED
    BY <2>1, <2>4
<1> QED
  BY <1>1, <1>2, <1>3 DEF records

\* A line more is its record more.
LEMMA LineIsRead ==
  ASSUME NEW file \in Seq(Seq(Pieces)), NEW line \in Seq(Pieces)
  PROVE  ReadOf(Append(file, line)) = ReadOf(file) \o RecordOn(line)
<1> DEFINE records == [n \in DOMAIN file |-> RecordOn(file[n])]
           more == [n \in DOMAIN Append(file, line) |-> RecordOn(Append(file, line)[n])]
<1>1. records \in Seq(Seq(Pieces)) /\ RecordOn(line) \in Seq(Pieces)
  BY ReadsRecords, EmptySeq DEF RecordOn
<1>2. more = Append(records, RecordOn(line))
  <2>1. Len(file) \in Nat /\ DOMAIN file = 1 .. Len(file) /\ Len(records) = Len(file)
        /\ DOMAIN Append(file, line) = 1 .. Len(file) + 1
    OBVIOUS
  <2>2. DOMAIN Append(records, RecordOn(line)) = 1 .. Len(file) + 1
    <3> HIDE DEF records
    <3> QED
      BY <1>1, <2>1
  <2>3. ASSUME NEW n \in 1 .. Len(file) + 1
        PROVE  more[n] = Append(records, RecordOn(line))[n]
    <3>1. CASE n = Len(file) + 1
      <4>1. more[n] = RecordOn(line)
        BY <2>1, <3>1
      <4>2. Append(records, RecordOn(line))[n] = RecordOn(line)
        <5> HIDE DEF records
        <5> QED
          BY <1>1, <2>1, <3>1, AppendProperties
      <4> QED
        BY <4>1, <4>2
    <3>2. CASE n # Len(file) + 1
      <4>1. n \in 1 .. Len(file)
        BY <2>1, <3>2
      <4>2. more[n] = RecordOn(file[n]) /\ records[n] = RecordOn(file[n])
        BY <2>1, <4>1
      <4>3. Append(records, RecordOn(line))[n] = records[n]
        <5> HIDE DEF records
        <5> QED
          BY <1>1, <2>1, <4>1, AppendProperties
      <4> QED
        BY <4>2, <4>3
    <3> QED
      BY <3>1, <3>2
  <2>4. Append(records, RecordOn(line)) \in Seq(Seq(Pieces)) /\ more \in Seq(Seq(Pieces))
    <3>1. Append(file, line) \in Seq(Seq(Pieces))
      OBVIOUS
    <3>2. more \in Seq(Seq(Pieces))
      BY <3>1, ReadsRecords
    <3> HIDE DEF records, more
    <3> QED
      BY <1>1, <3>2
  <2>5. Len(more) = Len(file) + 1 /\ Len(Append(records, RecordOn(line))) = Len(file) + 1
    <3>1. Len(more) = Len(file) + 1
      BY <2>1
    <3> HIDE DEF records, more
    <3> QED
      BY <1>1, <2>1, <3>1
  <2> HIDE DEF records, more
  <2> QED
    BY <2>3, <2>4, <2>5, SeqEqual
<1>3. ReadOf(Append(file, line)) = FlattenSeq(more) /\ ReadOf(file) = FlattenSeq(records)
  BY DEF ReadOf
<1> HIDE DEF records, more
<1> QED
  BY <1>1, <1>2, <1>3, FlattenAppend

\* The proviso keeps the file readable, whatever is written to it.
LEMMA WholeCharacters ==
  ASSUME CutsBetweenCharacters, NEW file \in Seq(Seq(Pieces))
  PROVE  \A n \in DOMAIN file : \A i \in DOMAIN file[n] : file[n][i].end # "within a character"
<1> SUFFICES ASSUME NEW n \in DOMAIN file, NEW i \in DOMAIN file[n]
             PROVE  file[n][i].end # "within a character"
  OBVIOUS
<1>1. file[n] \in Seq(Pieces)
  BY ElementOfSeq
<1>2. file[n][i] \in Pieces
  BY <1>1, ElementOfSeq
<1>3. file[n][i].end \in Cuts \cup {"whole"}
  BY <1>2 DEF Pieces
<1> QED
  BY <1>3 DEF CutsBetweenCharacters

\* A write on a fresh line adds its record, if all of it is written.
LEMMA FreshLineReads ==
  ASSUME TypeOK, Decodes, ~open, NEW piece \in Pieces
  PROVE  /\ Written(piece) = Append(lines, << piece >>)
         /\ Written(piece) \in Seq(Seq(Pieces))
         /\ ReadOf(Written(piece)) = IF piece.end = "whole" THEN Append(Read, piece) ELSE Read
<1>1. lines \in Seq(Seq(Pieces)) /\ << piece >> \in Seq(Pieces)
  BY DEF TypeOK
<1>2. Written(piece) = Append(lines, << piece >>)
  BY DEF Written
<1>3. Append(lines, << piece >>) \in Seq(Seq(Pieces))
  BY <1>1, AppendProperties
<1>4. ReadOf(Append(lines, << piece >>)) = ReadOf(lines) \o RecordOn(<< piece >>)
  BY <1>1, LineIsRead
<1>5. Read = ReadOf(lines) /\ Read \in Seq(Pieces)
  BY <1>1, ReadsRecords DEF Read, ReadOf
<1>6. CASE piece.end = "whole"
  <2>1. RecordOn(<< piece >>) = << piece >>
    BY <1>6 DEF RecordOn, Parses
  <2> QED
    BY <1>2, <1>3, <1>4, <1>5, <1>6, <2>1, AppendIsConcat
<1>7. CASE piece.end # "whole"
  <2>1. RecordOn(<< piece >>) = << >>
    BY <1>7 DEF RecordOn, Parses
  <2> QED
    BY <1>2, <1>3, <1>4, <1>5, <1>7, <2>1, ConcatEmptySeq
<1> QED
  BY <1>6, <1>7

\* A write on a line in doubt takes back what could be read of it, and no more.
LEMMA DoubtfulLineReads ==
  ASSUME TypeOK, Decodes, open, lines # << >>, NEW piece \in Pieces,
         NEW acknowledged, \A n \in DOMAIN lines : lines[n] # << >>,
         \A i \in DOMAIN LastLine : LastLine[i].id \notin acknowledged
  PROVE  /\ Written(piece) \in Seq(Seq(Pieces))
         /\ Len(Written(piece)) = Len(lines)
         /\ Written(piece)[Len(lines)] = Append(LastLine, piece)
         /\ \A n \in 1 .. Len(lines) : n # Len(lines) => Written(piece)[n] = lines[n]
         /\ ReadOf(Written(piece)) \in Seq(Pieces)
         /\ \/ Read = ReadOf(Written(piece))
            \/ \E x \in Pieces : /\ x.id \notin acknowledged
                                 /\ Read = Append(ReadOf(Written(piece)), x)
<1>1. lines \in Seq(Seq(Pieces))
  BY DEF TypeOK
<1>2. PICK P \in Seq(Seq(Pieces)), last \in Seq(Pieces) : lines = Append(P, last)
  BY <1>1, SequenceEmptyOrAppend
<1> DEFINE written == Append(P, Append(last, piece))
<1>3. Append(last, piece) \in Seq(Pieces) /\ Len(Append(last, piece)) = Len(last) + 1
  BY AppendProperties
<1>4. Len(lines) = Len(P) + 1 /\ lines[Len(P) + 1] = last /\ \A n \in 1 .. Len(P) : lines[n] = P[n]
  BY <1>2, AppendProperties
<1>5. /\ written \in Seq(Seq(Pieces)) /\ Len(written) = Len(P) + 1
      /\ written[Len(P) + 1] = Append(last, piece) /\ \A n \in 1 .. Len(P) : written[n] = P[n]
  BY <1>3, AppendProperties
<1>6. LastLine = last
  BY <1>4 DEF LastLine
<1>7. Written(piece) = written
  <2>1. Written(piece) = [lines EXCEPT ![Len(lines)] = Append(last, piece)]
    BY <1>4 DEF Written
  <2>2. Len(lines) \in 1 .. Len(lines) /\ Len(P) \in Nat
    BY <1>4
  <2>3. [lines EXCEPT ![Len(lines)] = Append(last, piece)] \in Seq(Seq(Pieces))
        /\ Len([lines EXCEPT ![Len(lines)] = Append(last, piece)]) = Len(lines)
        /\ \A n \in 1 .. Len(lines) : [lines EXCEPT ![Len(lines)] = Append(last, piece)][n]
              = IF n = Len(lines) THEN Append(last, piece) ELSE lines[n]
    <3> HIDE DEF written
    <3> QED
      BY <1>1, <1>3, <2>2, ExceptSeq
  <2>4. \A n \in 1 .. Len(lines) : [lines EXCEPT ![Len(lines)] = Append(last, piece)][n] = written[n]
    <3> SUFFICES ASSUME NEW n \in 1 .. Len(lines)
                 PROVE  [lines EXCEPT ![Len(lines)] = Append(last, piece)][n] = written[n]
      OBVIOUS
    <3> HIDE DEF written
    <3>1. CASE n = Len(lines)
      BY <1>4, <1>5, <2>3, <3>1
    <3>2. CASE n # Len(lines)
      <4>1. n \in 1 .. Len(P)
        BY <1>4, <2>2, <3>2
      <4>2. [lines EXCEPT ![Len(lines)] = Append(last, piece)][n] = lines[n]
        BY <2>3, <3>2
      <4> QED
        BY <1>4, <1>5, <4>1, <4>2
    <3> QED
      BY <3>1, <3>2
  <2> HIDE DEF written
  <2> QED
    BY <1>4, <1>5, <2>1, <2>3, <2>4, SeqEqual
<1>8. ReadOf(written) = ReadOf(P)
  <2>1. ReadOf(written) = ReadOf(P) \o RecordOn(Append(last, piece))
    BY <1>3, LineIsRead
  <2>2. last # << >>
    <3>1. Len(P) + 1 \in DOMAIN lines
      BY <1>1, <1>4
    <3> QED
      BY <1>4, <3>1
  <2>3. RecordOn(Append(last, piece)) = << >>
    BY <1>3, <2>2 DEF RecordOn, Parses
  <2>4. ReadOf(P) \in Seq(Pieces)
    BY ReadsRecords
  <2> QED
    BY <2>1, <2>3, <2>4, ConcatEmptySeq
<1>9. Read = ReadOf(P) \o RecordOn(last) /\ ReadOf(P) \in Seq(Pieces)
  BY <1>2, LineIsRead, ReadsRecords DEF Read, ReadOf
<1>10. \/ Read = ReadOf(P)
       \/ \E x \in Pieces : x.id \notin acknowledged /\ Read = Append(ReadOf(P), x)
  <2>1. CASE Parses(last)
    <3> DEFINE x == last[1]
    <3>1. x \in Pieces /\ last = << x >> /\ 1 \in DOMAIN last
      BY <2>1, OneElement DEF Parses
    <3>2. x.id \notin acknowledged
      BY <1>6, <3>1
    <3>3. RecordOn(last) = << x >>
      BY <2>1, <3>1 DEF RecordOn
    <3>4. Read = Append(ReadOf(P), x)
      <4> HIDE DEF x
      <4> QED
        BY <1>9, <3>1, <3>3, AppendIsConcat
    <3> HIDE DEF x
    <3> QED
      BY <3>1, <3>2, <3>4
  <2>2. CASE ~Parses(last)
    <3>1. RecordOn(last) = << >>
      BY <2>2 DEF RecordOn
    <3> QED
      BY <1>9, <3>1, ConcatEmptySeq
  <2> QED
    BY <2>1, <2>2
<1> HIDE DEF written
<1>11. \A n \in 1 .. Len(lines) : n # Len(lines) => written[n] = lines[n]
  <2>1. Len(P) \in Nat
    OBVIOUS
  <2>2. \A n \in 1 .. Len(lines) : n # Len(lines) => n \in 1 .. Len(P)
    BY <1>4, <2>1
  <2> QED
    BY <1>4, <1>5, <2>2
<1> QED
  BY <1>4, <1>5, <1>6, <1>7, <1>8, <1>9, <1>10, <1>11

-----------------------------------------------------------------------------
(***************************************************************************)
(* What is read, in a state of the invariant.                              *)
(***************************************************************************)
\* No record that is read is numbered ahead of the appends.
LEMMA ReadIsNumbered ==
  ASSUME TypeOK, Numbered
  PROVE  /\ Read \in Seq(Pieces)
         /\ \A i \in DOMAIN Read : Read[i] \in Pieces /\ Read[i].id <= appends /\ Read[i].seq <= appends
<1>1. lines \in Seq(Seq(Pieces))
  BY DEF TypeOK
<1>2. /\ Read \in Seq(Pieces)
      /\ \A piece \in ToSet(Read) : \E n \in DOMAIN lines : lines[n] = << piece >> /\ piece \in Pieces
  BY <1>1, ReadsRecords DEF Read, ReadOf, Numbered
<1>3. ASSUME NEW i \in DOMAIN Read
      PROVE  Read[i] \in Pieces /\ Read[i].id <= appends /\ Read[i].seq <= appends
  <2> DEFINE piece == Read[i]
  <2>1. piece \in ToSet(Read)
    BY DEF ToSet
  <2> HIDE DEF piece
  <2>2. PICK n \in DOMAIN lines : lines[n] = << piece >> /\ piece \in Pieces
    BY <1>2, <2>1
  <2>3. lines[n][1] = piece /\ 1 \in DOMAIN lines[n]
    BY <2>2
  <2>4. piece.id <= appends /\ piece.seq <= appends
    BY <2>3 DEF Numbered
  <2> QED
    BY <2>2, <2>4 DEF piece
<1> QED
  BY <1>2, <1>3

\* A process that opens the file numbers on from the highest number in it.
LEMMA LastSeqIsHighest ==
  ASSUME TypeOK, Numbered
  PROVE  LastSeq \in 0 .. appends /\ \A i \in DOMAIN Read : Read[i].seq <= LastSeq
<1> DEFINE R == {0} \cup {Read[i].seq : i \in DOMAIN Read}
<1>1. \A i \in DOMAIN Read : Read[i].seq \in Nat /\ Read[i].seq <= appends
  <2>1. \A piece \in Pieces : piece.seq \in Nat
    BY DEF Pieces, Ids
  <2> QED
    BY <2>1, ReadIsNumbered
<1>2. R \in SUBSET Nat /\ R # {} /\ appends \in Nat /\ \A x \in R : x <= appends
  BY <1>1 DEF TypeOK
<1>3. LastSeq = Max(R)
  BY DEF LastSeq
<1>4. \A i \in DOMAIN Read : Read[i].seq \in R
  OBVIOUS
<1> HIDE DEF R
<1>5. Max(R) \in R /\ \A x \in R : x <= Max(R)
  BY <1>2, MaxOfBounded
<1> QED
  BY <1>2, <1>3, <1>4, <1>5

\* One record more is one number more.
LEMMA IdsOfAppend ==
  ASSUME NEW R \in Seq(Pieces), NEW x \in Pieces
  PROVE  {Append(R, x)[i].id : i \in DOMAIN Append(R, x)} = {R[i].id : i \in DOMAIN R} \cup {x.id}
<1>1. /\ Len(R) \in Nat /\ DOMAIN R = 1 .. Len(R) /\ DOMAIN Append(R, x) = 1 .. Len(R) + 1
      /\ Append(R, x)[Len(R) + 1] = x /\ \A i \in 1 .. Len(R) : Append(R, x)[i] = R[i]
  BY AppendProperties
<1>2. 1 .. Len(R) + 1 = (1 .. Len(R)) \cup {Len(R) + 1}
  BY <1>1
<1> QED
  BY <1>1, <1>2

\* What a write may leave, if the whole of it is written or only a part.
LEMMA WriteEffect ==
  ASSUME TypeOK, Numbered, NEW p \in running, appends < MaxAppends,
         NEW end \in Cuts \cup {"whole"}
  PROVE  LET piece == NextPiece(p, end)
             W == Written(piece)
         IN  /\ piece \in Pieces /\ piece.id = appends + 1 /\ piece.seq = counter[p] + 1
             /\ W \in Seq(Seq(Pieces)) /\ W # << >>
             /\ \A n \in DOMAIN W :
                  /\ W[n] # << >>
                  /\ \A i \in DOMAIN W[n] : W[n][i].id <= appends + 1 /\ W[n][i].seq <= appends + 1
             /\ \A i \in DOMAIN W[Len(W)] : W[Len(W)][i].id \notin acked
             /\ ReadOf(W) \in Seq(Pieces)
             /\ ~open => ReadOf(W) = IF end = "whole" THEN Append(Read, piece) ELSE Read
             /\ open => \/ Read = ReadOf(W)
                        \/ \E x \in Pieces : x.id \notin acked /\ Read = Append(ReadOf(W), x)
<1> DEFINE piece == NextPiece(p, end)
           W == Written(piece)
<1>1. counter[p] \in Nat /\ counter[p] <= appends /\ appends \in Nat /\ MaxAppends \in Nat
  BY FileBoundsAssumption DEF TypeOK, Numbered
<1>2. piece \in Pieces /\ piece.id = appends + 1 /\ piece.seq = counter[p] + 1 /\ piece.end = end
  BY <1>1 DEF NextPiece, Pieces, Ids
<1>3. piece.id \notin acked /\ piece.id <= appends + 1 /\ piece.seq <= appends + 1
  BY <1>1, <1>2 DEF Numbered
<1>4. lines \in Seq(Seq(Pieces)) /\ Len(lines) \in Nat /\ DOMAIN lines = 1 .. Len(lines)
  BY DEF TypeOK
<1>5. ASSUME NEW n \in 1 .. Len(lines)
      PROVE  /\ lines[n] \in Seq(Pieces) /\ lines[n] # << >>
             /\ \A i \in DOMAIN lines[n] : lines[n][i].id <= appends + 1 /\ lines[n][i].seq <= appends + 1
  <2>1. lines[n] \in Seq(Pieces) /\ lines[n] # << >>
    <3>1. lines[n] \in Seq(Pieces)
      BY <1>4, ElementOfSeq
    <3>2. lines[n] # << >>
      BY <1>4 DEF Numbered
    <3> QED
      BY <3>1, <3>2
  <2>2. ASSUME NEW i \in DOMAIN lines[n]
        PROVE  lines[n][i].id <= appends + 1 /\ lines[n][i].seq <= appends + 1
    <3>1. lines[n][i] \in Pieces
      BY <2>1, ElementOfSeq
    <3>2. lines[n][i].id \in Int /\ lines[n][i].seq \in Int
      BY <3>1 DEF Pieces, Ids
    <3>3. lines[n][i].id <= appends /\ lines[n][i].seq <= appends
      BY <1>4 DEF Numbered
    <3> QED
      BY <1>1, <3>2, <3>3
  <2> QED
    BY <2>1, <2>2
<1> HIDE DEF piece
<1>6. CASE ~open
  <2>1. /\ W = Append(lines, << piece >>) /\ W \in Seq(Seq(Pieces))
        /\ ReadOf(W) = IF end = "whole" THEN Append(Read, piece) ELSE Read
    BY <1>2, <1>6, FreshLineReads DEF Numbered
  <2>2. << piece >> \in Seq(Pieces)
    BY <1>2
  <2>3. /\ Len(W) = Len(lines) + 1 /\ W # << >> /\ W[Len(lines) + 1] = << piece >>
        /\ \A n \in 1 .. Len(lines) : W[n] = lines[n]
    BY <1>4, <2>1, <2>2, AppendProperties
  <2>4. DOMAIN << piece >> = {1} /\ << piece >>[1] = piece /\ << piece >> # << >>
    OBVIOUS
  <2>5. ReadOf(W) \in Seq(Pieces)
    <3>1. Read \in Seq(Pieces)
      BY ReadIsNumbered
    <3>2. Append(Read, piece) \in Seq(Pieces)
      BY <1>2, <3>1, AppendProperties
    <3> HIDE DEF W
    <3> QED
      BY <2>1, <3>1, <3>2
  <2>6. DOMAIN W = 1 .. Len(lines) + 1
    <3> HIDE DEF W
    <3> QED
      BY <2>1, <2>3
  <2> HIDE DEF W
  <2>7. ASSUME NEW n \in DOMAIN W
        PROVE  /\ W[n] # << >>
               /\ \A i \in DOMAIN W[n] : W[n][i].id <= appends + 1 /\ W[n][i].seq <= appends + 1
    <3>1. CASE n = Len(lines) + 1
      BY <1>3, <2>3, <2>4, <3>1
    <3>2. CASE n # Len(lines) + 1
      <4>1. n \in 1 .. Len(lines)
        BY <1>4, <2>6, <3>2
      <4> QED
        BY <1>5, <2>3, <4>1
    <3> QED
      BY <3>1, <3>2
  <2>8. \A i \in DOMAIN W[Len(W)] : W[Len(W)][i].id \notin acked
    BY <1>3, <2>3, <2>4
  <2> QED
    BY <1>2, <1>6, <2>1, <2>3, <2>5, <2>7, <2>8 DEF W, piece
<1>7. CASE open
  <2>1. lines # << >> /\ \A i \in DOMAIN LastLine : LastLine[i].id \notin acked
    BY <1>7 DEF Numbered
  <2>2. Len(lines) \in 1 .. Len(lines)
    BY <1>4, <2>1
  <2>3. \A n \in DOMAIN lines : lines[n] # << >>
    BY DEF Numbered
  <2>4. /\ W \in Seq(Seq(Pieces)) /\ Len(W) = Len(lines)
        /\ W[Len(lines)] = Append(LastLine, piece)
        /\ \A n \in 1 .. Len(lines) : n # Len(lines) => W[n] = lines[n]
        /\ ReadOf(W) \in Seq(Pieces)
        /\ \/ Read = ReadOf(W)
           \/ \E x \in Pieces : x.id \notin acked /\ Read = Append(ReadOf(W), x)
    <3> HIDE DEF W
    <3> QED
      BY <1>2, <1>7, <2>1, <2>3, DoubtfulLineReads DEF W, Numbered
  <2> DEFINE grown == Append(LastLine, piece)
  <2>5. LastLine \in Seq(Pieces) /\ LastLine = lines[Len(lines)]
    BY <1>5, <2>2 DEF LastLine
  <2>6. /\ Len(LastLine) \in Nat /\ DOMAIN grown = (1 .. Len(LastLine)) \cup {Len(LastLine) + 1}
        /\ DOMAIN LastLine = 1 .. Len(LastLine)
        /\ grown[Len(LastLine) + 1] = piece /\ grown # << >>
        /\ \A i \in 1 .. Len(LastLine) : grown[i] = LastLine[i]
    BY <1>2, <2>5, AppendProperties
  <2> HIDE DEF W, grown
  <2>7. \A i \in DOMAIN grown : /\ grown[i].id <= appends + 1 /\ grown[i].seq <= appends + 1
                                /\ grown[i].id \notin acked
    <3> SUFFICES ASSUME NEW i \in DOMAIN grown
                 PROVE  /\ grown[i].id <= appends + 1 /\ grown[i].seq <= appends + 1
                        /\ grown[i].id \notin acked
      OBVIOUS
    <3>1. CASE i = Len(LastLine) + 1
      BY <1>3, <2>6, <3>1
    <3>2. CASE i # Len(LastLine) + 1
      <4>1. i \in DOMAIN LastLine /\ grown[i] = LastLine[i]
        BY <2>6, <3>2
      <4>2. LastLine[i].id <= appends + 1 /\ LastLine[i].seq <= appends + 1
        BY <1>5, <2>2, <2>5, <4>1
      <4> QED
        BY <2>1, <4>1, <4>2
    <3> QED
      BY <3>1, <3>2
  <2>8. DOMAIN W = 1 .. Len(lines) /\ W # << >>
    BY <2>2, <2>4
  <2>9. W[Len(lines)] = grown
    BY <2>4 DEF grown
  <2>10. ASSUME NEW n \in DOMAIN W
        PROVE  /\ W[n] # << >>
               /\ \A i \in DOMAIN W[n] : W[n][i].id <= appends + 1 /\ W[n][i].seq <= appends + 1
    <3>1. CASE n = Len(lines)
      BY <2>6, <2>7, <2>9, <3>1
    <3>2. CASE n # Len(lines)
      <4>1. W[n] = lines[n] /\ n \in 1 .. Len(lines)
        BY <2>4, <2>8, <3>2
      <4> QED
        BY <1>5, <4>1
    <3> QED
      BY <3>1, <3>2
  <2>11. \A i \in DOMAIN W[Len(W)] : W[Len(W)][i].id \notin acked
    BY <2>4, <2>7, <2>9
  <2> QED
    BY <1>2, <1>7, <2>4, <2>8, <2>10, <2>11 DEF W, piece
<1> QED
  BY <1>6, <1>7

-----------------------------------------------------------------------------
(***************************************************************************)
(* The invariant.                                                          *)
(***************************************************************************)
\* An append that was handed a record, whether or not its write came through.
LEMMA HandedKeepsCounters ==
  ASSUME TypeOK, Numbered, NEW p \in Processes, Handed(p)
  PROVE  /\ appends' = appends + 1 /\ appends' \in 0 .. MaxAppends /\ p \in running
         /\ counter' \in [Processes -> 0 .. MaxAppends]
         /\ counter'[p] = counter[p] + 1 /\ counter[p] \in Nat
         /\ \A q \in Processes : counter'[q] <= appends'
<1>1. appends' = appends + 1 /\ appends < MaxAppends /\ p \in running
      /\ counter' = [counter EXCEPT ![p] = @ + 1]
  BY DEF Handed
<1>2. appends \in Nat /\ MaxAppends \in Nat /\ counter \in [Processes -> 0 .. MaxAppends]
  BY FileBoundsAssumption DEF TypeOK
<1>3. \A q \in Processes : counter[q] \in Nat /\ counter[q] <= appends
  BY <1>2 DEF Numbered
<1>4. \A q \in Processes : counter'[q] = IF q = p THEN counter[q] + 1 ELSE counter[q]
  BY <1>1, <1>2
<1>5. \A q \in Processes : counter'[q] \in 0 .. MaxAppends /\ counter'[q] <= appends'
  BY <1>1, <1>2, <1>3, <1>4
<1>6. counter' \in [Processes -> 0 .. MaxAppends]
  BY <1>1, <1>2, <1>5
<1> QED
  BY <1>1, <1>2, <1>3, <1>4, <1>5, <1>6

\* The write of an append, whole or cut, in what it does to what is read.
WriteEnds(p, end) ==
  /\ lines' \in Seq(Seq(Pieces)) /\ lines' # << >> /\ Decodes'
  /\ \A n \in DOMAIN lines' :
       /\ lines'[n] # << >>
       /\ \A i \in DOMAIN lines'[n] : lines'[n][i].id <= appends' /\ lines'[n][i].seq <= appends'
  /\ \A i \in DOMAIN LastLine' : (LastLine')[i].id \notin acked
  /\ Read' \in Seq(Pieces)
  /\ NextPiece(p, end) \in Pieces /\ NextPiece(p, end).id = appends'
  /\ NextPiece(p, end).seq = counter[p] + 1
  /\ ~open => Read' = IF end = "whole" THEN Append(Read, NextPiece(p, end)) ELSE Read
  /\ open => \/ Read = Read'
             \/ \E x \in Pieces : x.id \notin acked /\ Read = Append(Read', x)

LEMMA WrittenEnds ==
  ASSUME CutsBetweenCharacters, TypeOK, Numbered, NEW p \in Processes, NEW end \in Cuts \cup {"whole"}, Handed(p),
         lines' = Written(NextPiece(p, end))
  PROVE  WriteEnds(p, end)
<1>1. p \in running /\ appends < MaxAppends /\ appends' = appends + 1
  BY DEF Handed
<1>3. LastLine' = lines'[Len(lines')]
  BY DEF LastLine
<1> DEFINE piece == NextPiece(p, end)
           W == Written(piece)
<1>4. /\ piece \in Pieces /\ piece.id = appends + 1 /\ piece.seq = counter[p] + 1
      /\ W \in Seq(Seq(Pieces)) /\ W # << >>
      /\ \A n \in DOMAIN W :
           /\ W[n] # << >>
           /\ \A i \in DOMAIN W[n] : W[n][i].id <= appends + 1 /\ W[n][i].seq <= appends + 1
      /\ \A i \in DOMAIN W[Len(W)] : W[Len(W)][i].id \notin acked
      /\ ReadOf(W) \in Seq(Pieces)
      /\ ~open => ReadOf(W) = IF end = "whole" THEN Append(Read, piece) ELSE Read
      /\ open => \/ Read = ReadOf(W)
                 \/ \E x \in Pieces : x.id \notin acked /\ Read = Append(ReadOf(W), x)
  BY <1>1, WriteEffect
<1>5. lines' = W
  OBVIOUS
<1> HIDE DEF W
<1>6. Decodes'
  <2>1. \A n \in DOMAIN W : \A i \in DOMAIN W[n] : W[n][i].end # "within a character"
    BY <1>4, WholeCharacters
  <2> QED
    BY <1>5, <2>1 DEF Decodes
<1>2. Read' = ReadOf(lines')
  BY <1>6 DEF Read, ReadOf
<1> QED
  BY <1>1, <1>2, <1>3, <1>4, <1>5, <1>6 DEF WriteEnds

\* No write loses an acknowledged record but the one it was handed itself.
LEMMA WriteLosesItsOwn ==
  ASSUME TypeOK, Numbered, NEW p \in Processes, NEW end \in Cuts \cup {"whole"}, WriteEnds(p, end)
  PROVE  /\ acked \ ReadIds' \subseteq acked \ ReadIds
         /\ ~open /\ end = "whole" => appends' \in ReadIds'
<1> DEFINE Of(R) == {R[i].id : i \in DOMAIN R}
<1>1. ReadIds = Of(Read) /\ ReadIds' = Of(Read')
  BY DEF ReadIds
<1>2. Read \in Seq(Pieces) /\ Read' \in Seq(Pieces)
  BY ReadIsNumbered DEF WriteEnds
<1>3. \A R \in Seq(Pieces), x \in Pieces : Of(Append(R, x)) = Of(R) \cup {x.id}
  BY IdsOfAppend
<1> HIDE DEF Of
<1>4. CASE open
  <2>1. CASE Read = Read'
    BY <1>1, <1>4, <2>1
  <2>2. CASE Read # Read'
    <3>1. PICK x \in Pieces : x.id \notin acked /\ Read = Append(Read', x)
      BY <1>4, <2>2 DEF WriteEnds
    <3>2. Of(Read) = Of(Read') \cup {x.id}
      BY <1>2, <1>3, <3>1
    <3> QED
      BY <1>1, <1>4, <3>1, <3>2
  <2> QED
    BY <2>1, <2>2
<1>5. CASE ~open
  <2>1. CASE end = "whole"
    <3>1. Read' = Append(Read, NextPiece(p, end)) /\ NextPiece(p, end) \in Pieces
          /\ NextPiece(p, end).id = appends'
      BY <1>5, <2>1 DEF WriteEnds
    <3>2. Of(Read') = Of(Read) \cup {appends'}
      BY <1>2, <1>3, <3>1
    <3> QED
      BY <1>1, <1>5, <3>2
  <2>2. CASE end # "whole"
    <3>1. Read' = Read
      BY <1>5, <2>2 DEF WriteEnds
    <3> QED
      BY <1>1, <2>2, <3>1
  <2> QED
    BY <2>1, <2>2
<1> QED
  BY <1>4, <1>5

\* The one process that runs writes a number higher than all that are read.
LEMMA WriteGoesUp ==
  ASSUME TypeOK, Numbered, Alone, ~shared, NEW p \in Processes, NEW end \in Cuts \cup {"whole"},
         WriteEnds(p, end), Handed(p)
  PROVE  /\ \A i \in DOMAIN Read' : (Read')[i].seq <= counter'[p]
         /\ \A i, j \in DOMAIN Read' : i < j => (Read')[i].seq < (Read')[j].seq
<1>1. counter'[p] = counter[p] + 1 /\ counter[p] \in Nat /\ p \in running
  BY HandedKeepsCounters
<1>2. Read \in Seq(Pieces) /\ Read' \in Seq(Pieces)
  BY ReadIsNumbered DEF WriteEnds
<1>3. \A i \in DOMAIN Read : Read[i].seq \in Nat /\ Read[i].seq <= counter[p]
  <2>1. \A piece \in Pieces : piece.seq \in Nat
    BY DEF Pieces, Ids
  <2>2. \A i \in DOMAIN Read : Read[i] \in Pieces
    BY ReadIsNumbered
  <2> QED
    BY <1>1, <2>1, <2>2 DEF Alone
<1>4. \A i, j \in DOMAIN Read : i < j => Read[i].seq < Read[j].seq
  BY DEF Alone
<1>5. CASE Read' = Read
  BY <1>1, <1>3, <1>4, <1>5
<1>6. CASE Read' # Read
  <2> DEFINE R == Read'
  <2>1. CASE open
    <3>1. PICK x \in Pieces : Read = Append(R, x)
      BY <1>6, <2>1 DEF WriteEnds
    <3> HIDE DEF R
    <3>2. R \in Seq(Pieces)
      BY <1>2 DEF R
    <3>3. /\ Len(R) \in Nat /\ DOMAIN R = 1 .. Len(R) /\ DOMAIN Read = 1 .. Len(R) + 1
          /\ \A i \in 1 .. Len(R) : Read[i] = R[i]
      BY <1>2, <3>1, <3>2, AppendProperties
    <3>4. \A i \in DOMAIN R : i \in DOMAIN Read /\ R[i] = Read[i]
      BY <3>3
    <3>5. \A i \in DOMAIN R : R[i].seq <= counter'[p]
      BY <1>1, <1>3, <3>4
    <3>6. \A i, j \in DOMAIN R : i < j => R[i].seq < R[j].seq
      BY <1>4, <3>4
    <3> QED
      BY <3>5, <3>6 DEF R
  <2>2. CASE ~open
    <3> DEFINE piece == NextPiece(p, end)
    <3>1. R = Append(Read, piece) /\ piece \in Pieces /\ piece.seq = counter[p] + 1
      BY <1>6, <2>2 DEF WriteEnds
    <3> HIDE DEF R, piece
    <3>2. /\ Len(Read) \in Nat /\ DOMAIN Read = 1 .. Len(Read) /\ DOMAIN R = 1 .. Len(Read) + 1
          /\ R[Len(Read) + 1] = piece /\ \A i \in 1 .. Len(Read) : R[i] = Read[i]
      BY <1>2, <3>1, AppendProperties
    <3>3. \A i \in DOMAIN R : \/ i \in DOMAIN Read /\ R[i] = Read[i]
                              \/ i = Len(Read) + 1 /\ R[i] = piece
      BY <3>2
    <3>4. \A i \in DOMAIN R : R[i].seq <= counter'[p]
      BY <1>1, <1>3, <3>1, <3>3
    <3>5. ASSUME NEW i \in DOMAIN R, NEW j \in DOMAIN R, i < j
          PROVE  R[i].seq < R[j].seq
      <4>1. i \in DOMAIN Read /\ R[i] = Read[i]
        BY <3>2, <3>3, <3>5
      <4>2. CASE j \in DOMAIN Read /\ R[j] = Read[j]
        BY <1>4, <3>5, <4>1, <4>2
      <4>3. CASE R[j] = piece
        BY <1>1, <1>3, <3>1, <4>1, <4>3
      <4> QED
        BY <3>3, <4>2, <4>3
    <3> QED
      BY <3>4, <3>5 DEF R
  <2> QED
    BY <2>1, <2>2
<1> QED
  BY <1>5, <1>6

\* What can be read is unchanged with the file.
LEMMA SameFile ==
  ASSUME lines' = lines
  PROVE  Read' = Read /\ ReadIds' = ReadIds /\ LastLine' = LastLine /\ Decodes' = Decodes
BY DEF Read, Decodes, ReadIds, LastLine, RecordOn, Parses

\* The acknowledged records are finitely many, and so are those that were lost.
LEMMA LostIsFinite ==
  ASSUME Numbered, appends \in Nat
  PROVE  /\ IsFiniteSet(acked \ ReadIds) /\ Cardinality(acked \ ReadIds) \in Nat
         /\ \A R \in SUBSET (acked \ ReadIds) : Cardinality(R) <= Cardinality(acked \ ReadIds)
                                              /\ Cardinality(R) \in Nat
         /\ \A R \in SUBSET ((acked \ ReadIds) \cup {appends + 1}) :
              Cardinality(R) <= Cardinality(acked \ ReadIds) + 1 /\ Cardinality(R) \in Nat
<1> DEFINE lost == acked \ ReadIds
<1>1. IsFiniteSet(1 .. appends) /\ lost \subseteq 1 .. appends
  <2>1. IsFiniteSet(1 .. appends)
    BY FS_Interval
  <2> QED
    BY <2>1 DEF Numbered
<1> HIDE DEF lost
<1>2. IsFiniteSet(lost) /\ Cardinality(lost) \in Nat
  BY <1>1, FS_Subset, FS_CardinalityType
<1>3. /\ IsFiniteSet(lost \cup {appends + 1})
      /\ Cardinality(lost \cup {appends + 1}) <= Cardinality(lost) + 1
      /\ Cardinality(lost \cup {appends + 1}) \in Nat
  BY <1>2, FS_AddElement, FS_CardinalityType
<1>4. \A R \in SUBSET lost : Cardinality(R) <= Cardinality(lost) /\ Cardinality(R) \in Nat
  BY <1>2, FS_Subset, FS_CardinalityType
<1>5. ASSUME NEW R \in SUBSET (lost \cup {appends + 1})
      PROVE  Cardinality(R) <= Cardinality(lost) + 1 /\ Cardinality(R) \in Nat
  <2>1. Cardinality(R) <= Cardinality(lost \cup {appends + 1}) /\ Cardinality(R) \in Nat
    BY <1>3, FS_Subset, FS_CardinalityType
  <2> QED
    BY <1>2, <1>3, <2>1
<1> QED
  BY <1>2, <1>4, <1>5 DEF lost

\* An append that returned is read back, or was lost to the line in doubt.
LEMMA AppendRecordIsSafe ==
  ASSUME CutsBetweenCharacters, JournalInv, NEW p \in Processes, AppendRecord(p)
  PROVE  JournalInv'
<1> USE DEF JournalInv
<1>1. Handed(p) /\ lines' = Written(NextPiece(p, "whole")) /\ open' = FALSE
      /\ acked' = acked \cup {appends + 1} /\ running' = running /\ broken' = broken
      /\ shared' = shared
  BY DEF AppendRecord
<1>2. WriteEnds(p, "whole")
  BY <1>1, WrittenEnds
<1>3. /\ appends' = appends + 1 /\ appends' \in 0 .. MaxAppends /\ p \in running
      /\ counter' \in [Processes -> 0 .. MaxAppends]
      /\ \A q \in Processes : counter'[q] <= appends'
  BY <1>1, HandedKeepsCounters
<1>4. appends \in Nat /\ MaxAppends \in Nat /\ broken \in Nat
  BY FileBoundsAssumption DEF TypeOK
<1>5. acked' \subseteq Ids /\ acked' \subseteq 1 .. appends'
  BY <1>1, <1>3, <1>4 DEF Numbered, Ids
<1>6. TypeOK'
  BY <1>1, <1>2, <1>3, <1>5 DEF TypeOK, WriteEnds
<1>7. Numbered'
  <2>1. ~open'
    BY <1>1
  <2> QED
    BY <1>2, <1>3, <1>5, <2>1 DEF Numbered, WriteEnds
<1>8. Kept'
  <2>1. /\ acked \ ReadIds' \subseteq acked \ ReadIds
        /\ ~open => appends' \in ReadIds'
    BY <1>1, <1>2, WriteLosesItsOwn
  <2> DEFINE lost == acked \ ReadIds
             left == acked' \ ReadIds'
  <2>2. Cardinality(lost) \in Nat /\ Cardinality(lost) + (IF open THEN 1 ELSE 0) <= broken
    BY <1>4, LostIsFinite DEF Kept
  <2>3. CASE open
    <3>1. left \subseteq lost \cup {appends + 1}
      BY <1>1, <2>1
    <3>2. Cardinality(left) <= Cardinality(lost) + 1 /\ Cardinality(left) \in Nat
      <4> HIDE DEF left
      <4> QED
        BY <1>4, <3>1, LostIsFinite
    <3>3. Cardinality(left) <= broken
      <4> HIDE DEF left, lost
      <4> QED
        BY <1>4, <2>2, <2>3, <3>2
    <3> QED
      BY <1>1, <1>4, <3>2, <3>3 DEF Kept
  <2>4. CASE ~open
    <3>1. left \subseteq lost
      BY <1>1, <1>3, <2>1, <2>4
    <3>2. Cardinality(left) <= Cardinality(lost) /\ Cardinality(left) \in Nat
      <4> HIDE DEF left
      <4> QED
        BY <1>4, <3>1, LostIsFinite
    <3>3. Cardinality(left) <= broken
      <4> HIDE DEF left, lost
      <4> QED
        BY <1>4, <2>2, <2>4, <3>2
    <3> QED
      BY <1>1, <1>4, <3>2, <3>3 DEF Kept
  <2> QED
    BY <2>3, <2>4
<1>9. Alone'
  <2> SUFFICES ASSUME ~shared'
               PROVE  /\ \A q, r \in running' : q = r
                      /\ \A q \in running', i \in DOMAIN Read' : (Read')[i].seq <= counter'[q]
                      /\ \A i, j \in DOMAIN Read' : i < j => (Read')[i].seq < (Read')[j].seq
    BY DEF Alone
  <2>1. ~shared /\ \A q \in running' : q = p
    BY <1>1, <1>3 DEF Alone
  <2>2. /\ \A i \in DOMAIN Read' : (Read')[i].seq <= counter'[p]
        /\ \A i, j \in DOMAIN Read' : i < j => (Read')[i].seq < (Read')[j].seq
    BY <1>1, <1>2, <2>1, WriteGoesUp
  <2> QED
    BY <2>1, <2>2
<1> QED
  BY <1>6, <1>7, <1>8, <1>9

\* Wherever it breaks off, a write acknowledges nothing, and may cost one more.
LEMMA AppendBreaksOffIsSafe ==
  ASSUME CutsBetweenCharacters, JournalInv, NEW p \in Processes, AppendBreaksOff(p)
  PROVE  JournalInv'
<1> USE DEF JournalInv
<1>1. /\ Handed(p) /\ broken < MaxBroken /\ broken' = broken + 1 /\ acked' = acked
      /\ shared' = shared /\ running' \subseteq running
  BY DEF AppendBreaksOff
<1>2. \/ lines' = lines /\ open' = open
      \/ /\ open' \in BOOLEAN
         /\ \E end \in Cuts \cup {"whole"} : lines' = Written(NextPiece(p, end))
  BY DEF AppendBreaksOff
<1>3. open' \in BOOLEAN
  BY <1>2 DEF TypeOK
<1>4. \/ lines' = lines /\ open' = open
      \/ \E end \in Cuts \cup {"whole"} : WriteEnds(p, end)
  BY <1>1, <1>2, WrittenEnds
<1>5. /\ appends' = appends + 1 /\ appends' \in 0 .. MaxAppends /\ p \in running
      /\ counter' \in [Processes -> 0 .. MaxAppends]
      /\ counter'[p] = counter[p] + 1 /\ counter[p] \in Nat
      /\ \A q \in Processes : counter'[q] <= appends'
  BY <1>1, HandedKeepsCounters
<1>6. /\ appends \in Nat /\ MaxAppends \in Nat /\ broken \in Nat /\ MaxBroken \in Nat
      /\ running \subseteq Processes
  BY FileBoundsAssumption DEF TypeOK
<1>7. acked' \subseteq Ids /\ acked' \subseteq 1 .. appends'
  BY <1>1, <1>5, <1>6 DEF Numbered, TypeOK
<1>8. TypeOK'
  <2>1. lines' \in Seq(Seq(Pieces))
    BY <1>4 DEF TypeOK, WriteEnds
  <2>2. broken' \in 0 .. MaxBroken
    BY <1>1, <1>6
  <2>3. shared' \in BOOLEAN
    BY <1>1 DEF TypeOK
  <2>4. running' \subseteq Processes
    BY <1>1, <1>6
  <2> QED
    BY <1>3, <1>5, <1>7, <2>1, <2>2, <2>3, <2>4 DEF TypeOK
<1>9. Numbered'
  <2>1. CASE lines' = lines /\ open' = open
    <3>1. LastLine' = LastLine
      BY <2>1, SameFile
    <3>2. ASSUME NEW n \in DOMAIN lines
          PROVE  /\ lines[n] # << >>
                 /\ \A i \in DOMAIN lines[n] : lines[n][i].id <= appends' /\ lines[n][i].seq <= appends'
      <4>1. lines[n] # << >>
        BY DEF Numbered
      <4>2. ASSUME NEW i \in DOMAIN lines[n]
            PROVE  lines[n][i].id <= appends' /\ lines[n][i].seq <= appends'
        <5>1. lines[n][i] \in Pieces
          <6>1. lines[n] \in Seq(Pieces)
            BY DEF TypeOK
          <6> QED
            BY <6>1
        <5>2. lines[n][i].id \in Int /\ lines[n][i].seq \in Int
          BY <5>1 DEF Pieces, Ids
        <5>3. lines[n][i].id <= appends /\ lines[n][i].seq <= appends
          BY DEF Numbered
        <5> QED
          BY <1>5, <1>6, <5>2, <5>3
      <4> QED
        BY <4>1, <4>2
    <3>3. open => lines # << >> /\ \A i \in DOMAIN LastLine : LastLine[i].id \notin acked
      BY DEF Numbered
    <3>4. /\ \A n \in DOMAIN lines' :
               /\ lines'[n] # << >>
               /\ \A i \in DOMAIN lines'[n] : lines'[n][i].id <= appends' /\ lines'[n][i].seq <= appends'
          /\ open' => lines' # << >> /\ \A i \in DOMAIN LastLine' : (LastLine')[i].id \notin acked'
      BY <1>1, <2>1, <3>1, <3>2, <3>3
    <3> QED
      BY <1>5, <1>7, <2>1, <3>4, SameFile DEF Numbered
  <2>2. CASE \E end \in Cuts \cup {"whole"} : WriteEnds(p, end)
    BY <1>1, <1>5, <1>7, <2>2 DEF Numbered, WriteEnds
  <2> QED
    BY <1>4, <2>1, <2>2
<1>10. Kept'
  <2> DEFINE lost == acked \ ReadIds
             left == acked' \ ReadIds'
  <2>1. left \subseteq lost
    <3>1. CASE lines' = lines /\ open' = open
      BY <1>1, <3>1, SameFile
    <3>2. CASE \E end \in Cuts \cup {"whole"} : WriteEnds(p, end)
      BY <1>1, <3>2, WriteLosesItsOwn
    <3> QED
      BY <1>4, <3>1, <3>2
  <2>2. Cardinality(lost) \in Nat /\ Cardinality(lost) + (IF open THEN 1 ELSE 0) <= broken
    BY <1>6, LostIsFinite DEF Kept
  <2>3. Cardinality(left) <= Cardinality(lost) /\ Cardinality(left) \in Nat
    <3> HIDE DEF left
    <3> QED
      BY <1>6, <2>1, LostIsFinite
  <2>4. Cardinality(lost) <= broken
    <3> HIDE DEF left, lost
    <3>1. CASE open
      BY <1>6, <2>2, <3>1
    <3>2. CASE ~open
      BY <1>6, <2>2, <3>2
    <3> QED
      BY <3>1, <3>2
  <2>5. Cardinality(left) <= broken /\ Cardinality(left) + 1 <= broken'
    <3> HIDE DEF left, lost
    <3> QED
      BY <1>1, <1>6, <2>2, <2>3, <2>4
  <2>6. Cardinality(left) <= broken'
    <3> HIDE DEF left, lost
    <3> QED
      BY <1>1, <1>6, <2>3, <2>5
  <2>7. CASE open'
    BY <2>5, <2>7 DEF Kept
  <2>8. CASE ~open'
    BY <2>3, <2>6, <2>8 DEF Kept
  <2> QED
    BY <2>7, <2>8
<1>11. Alone'
  <2> SUFFICES ASSUME ~shared'
               PROVE  /\ \A q, r \in running' : q = r
                      /\ \A q \in running', i \in DOMAIN Read' : (Read')[i].seq <= counter'[q]
                      /\ \A i, j \in DOMAIN Read' : i < j => (Read')[i].seq < (Read')[j].seq
    BY DEF Alone
  <2>1. ~shared /\ \A q \in running' : q = p
    BY <1>1, <1>5 DEF Alone
  <2>2. /\ \A i \in DOMAIN Read' : (Read')[i].seq <= counter'[p]
        /\ \A i, j \in DOMAIN Read' : i < j => (Read')[i].seq < (Read')[j].seq
    <3>1. CASE lines' = lines /\ open' = open
      <4>1. Read' = Read
        BY <3>1, SameFile
      <4>2. /\ \A i \in DOMAIN Read : Read[i].seq <= counter[p]
            /\ \A i, j \in DOMAIN Read : i < j => Read[i].seq < Read[j].seq
        BY <1>5, <2>1 DEF Alone
      <4>3. \A i \in DOMAIN Read : Read[i].seq \in Nat
        <5>1. \A piece \in Pieces : piece.seq \in Nat
          BY DEF Pieces, Ids
        <5> QED
          BY <5>1, ReadIsNumbered
      <4>4. \A i \in DOMAIN Read : Read[i].seq <= counter'[p]
        BY <1>5, <4>2, <4>3
      <4> QED
        BY <4>1, <4>2, <4>4
    <3>2. CASE \E end \in Cuts \cup {"whole"} : WriteEnds(p, end)
      BY <1>1, <2>1, <3>2, WriteGoesUp
    <3> QED
      BY <1>4, <3>1, <3>2
  <2> QED
    BY <2>1, <2>2
<1> QED
  BY <1>8, <1>9, <1>10, <1>11

\* A process that comes numbers on from all there is; one that goes changes nothing.
LEMMA OpenAndCloseAreSafe ==
  ASSUME JournalInv, NEW p \in Processes, Open(p) \/ Close(p)
  PROVE  JournalInv'
<1> USE DEF JournalInv
<1>1. lines' = lines /\ open' = open /\ appends' = appends /\ acked' = acked /\ broken' = broken
  BY DEF Open, Close
<1>2. Read' = Read /\ ReadIds' = ReadIds /\ LastLine' = LastLine /\ Decodes' = Decodes
  BY <1>1, SameFile
<1>3. LastSeq \in 0 .. appends /\ \A i \in DOMAIN Read : Read[i].seq <= LastSeq
  BY LastSeqIsHighest
<1>4. appends \in Nat /\ appends <= MaxAppends /\ MaxAppends \in Nat
      /\ counter \in [Processes -> 0 .. MaxAppends] /\ running \subseteq Processes
  BY FileBoundsAssumption DEF TypeOK
<1>5. \A q \in Processes : counter[q] <= appends
  BY DEF Numbered
<1>6. counter' = counter \/ counter' = [counter EXCEPT ![p] = LastSeq]
  BY DEF Open, Close
<1>7. \A q \in Processes : counter'[q] = counter[q] \/ counter'[q] = LastSeq
  BY <1>4, <1>6
<1>8. counter' \in [Processes -> 0 .. MaxAppends] /\ \A q \in Processes : counter'[q] <= appends
  BY <1>3, <1>4, <1>5, <1>6, <1>7
<1>9. running' \subseteq Processes /\ shared' \in BOOLEAN
  BY <1>4 DEF Open, Close, TypeOK
<1>10. TypeOK'
  BY <1>1, <1>8, <1>9 DEF TypeOK
<1>11. Numbered'
  BY <1>1, <1>2, <1>8 DEF Numbered
<1>12. Kept'
  BY <1>1, <1>2 DEF Kept
<1>13. Alone'
  <2> SUFFICES ASSUME ~shared'
               PROVE  /\ \A q, r \in running' : q = r
                      /\ \A q \in running', i \in DOMAIN Read' : (Read')[i].seq <= counter'[q]
                      /\ \A i, j \in DOMAIN Read' : i < j => (Read')[i].seq < (Read')[j].seq
    BY DEF Alone
  <2>1. CASE Open(p)
    <3>1. ~shared /\ running' = {p} /\ counter'[p] = LastSeq
      BY <1>4, <2>1 DEF Open
    <3> QED
      BY <1>2, <1>3, <3>1 DEF Alone
  <2>2. CASE Close(p)
    <3>1. ~shared /\ running' \subseteq running /\ counter' = counter
      BY <2>2 DEF Close
    <3> QED
      BY <1>2, <3>1 DEF Alone
  <2> QED
    BY <2>1, <2>2
<1> QED
  BY <1>10, <1>11, <1>12, <1>13

\* An empty file has nothing to lose.
LEMMA JournalInvInit == Init => JournalInv
<1> SUFFICES ASSUME Init PROVE JournalInv
  OBVIOUS
<1>1. lines = << >> /\ open = FALSE /\ running = {} /\ counter = [p \in Processes |-> 0]
      /\ appends = 0 /\ acked = {} /\ broken = 0 /\ shared = FALSE
  BY DEF Init
<1>2. TypeOK
  <2>1. lines \in Seq(Seq(Pieces))
    BY <1>1, EmptySeq
  <2>2. appends \in 0 .. MaxAppends /\ broken \in 0 .. MaxBroken
    BY <1>1, FileBoundsAssumption
  <2>3. counter \in [Processes -> 0 .. MaxAppends]
    BY <1>1, FileBoundsAssumption
  <2>4. open \in BOOLEAN /\ shared \in BOOLEAN /\ running \subseteq Processes /\ acked \subseteq Ids
    BY <1>1
  <2> QED
    BY <2>1, <2>2, <2>3, <2>4 DEF TypeOK
<1>3. Numbered
  BY <1>1 DEF Numbered, Decodes
<1>4. Kept
  <2>1. acked \ ReadIds = {}
    BY <1>1
  <2>2. Cardinality({}) = 0
    BY FS_EmptySet
  <2> QED
    BY <1>1, <2>1, <2>2 DEF Kept
<1>5. Alone
  <2>1. DOMAIN Read = {}
    <3>1. Read = << >>
      <4>1. [n \in DOMAIN lines |-> RecordOn(lines[n])] = << >>
        BY <1>1
      <4> QED
        BY <4>1 DEF Read, FlattenSeq
    <3> QED
      BY <3>1
  <2> QED
    BY <1>1, <2>1 DEF Alone
<1> QED
  BY <1>2, <1>3, <1>4, <1>5 DEF JournalInv

\* The invariant keeps every step, and what the file promises follows from it.
LEMMA JournalInvHolds ==
  ASSUME CutsBetweenCharacters
  PROVE  Spec => []JournalInv
<1>1. Init => JournalInv
  BY JournalInvInit
<1>2. JournalInv /\ [Next]_vars => JournalInv'
  <2> SUFFICES ASSUME JournalInv, [Next]_vars
               PROVE  JournalInv'
    OBVIOUS
  <2>1. CASE Next
    <3>1. PICK p \in Processes : Open(p) \/ Close(p) \/ AppendRecord(p) \/ AppendBreaksOff(p)
      BY <2>1 DEF Next
    <3>2. CASE Open(p) \/ Close(p)
      BY <3>2, OpenAndCloseAreSafe
    <3>3. CASE AppendRecord(p)
      BY <3>3, AppendRecordIsSafe
    <3>4. CASE AppendBreaksOff(p)
      BY <3>4, AppendBreaksOffIsSafe
    <3> QED
      BY <3>1, <3>2, <3>3, <3>4
  <2>2. CASE UNCHANGED vars
    <3>1. lines' = lines
      BY <2>2 DEF vars
    <3>2. Read' = Read /\ ReadIds' = ReadIds /\ LastLine' = LastLine /\ Decodes' = Decodes
      BY <3>1, SameFile
    <3> QED
      BY <2>2, <3>2 DEF JournalInv, vars, TypeOK, Numbered, Kept, Alone
  <2> QED
    BY <2>1, <2>2
<1> QED
  BY <1>1, <1>2, PTL DEF Spec

\* However many processes append to the file, and however many of their writes
\* break off between two characters, each such write costs at most one
\* acknowledged record; and while no two have it open at once the numbers that
\* are read only grow.
THEOREM EveryAppendIsSafe ==
  ASSUME CutsBetweenCharacters
  PROVE  Spec => []AppendsAreSafe
<1>1. JournalInv => AppendsAreSafe
  <2> SUFFICES ASSUME JournalInv PROVE AppendsAreSafe
    OBVIOUS
  <2>1. TypeOK /\ Numbered /\ Kept /\ Alone
    BY DEF JournalInv
  <2>2. SeqGrows
    BY <2>1 DEF Alone, SeqGrows
  <2>3. LossIsBounded
    <3>1. appends \in Nat /\ broken \in Nat
      BY <2>1, FileBoundsAssumption DEF TypeOK
    <3> DEFINE lost == Cardinality(acked \ ReadIds)
    <3>2. lost \in Nat
      BY <2>1, <3>1, LostIsFinite
    <3>3. lost + (IF open THEN 1 ELSE 0) <= broken
      BY <2>1 DEF Kept
    <3>4. lost <= broken
      <4> HIDE DEF lost
      <4>1. CASE open
        BY <3>1, <3>2, <3>3, <4>1
      <4>2. CASE ~open
        BY <3>1, <3>2, <3>3, <4>2
      <4> QED
        BY <4>1, <4>2
    <3> QED
      BY <3>4 DEF LossIsBounded
  <2> QED
    BY <2>1, <2>2, <2>3 DEF AppendsAreSafe
<1> QED
  BY <1>1, JournalInvHolds, PTL

-----------------------------------------------------------------------------
(***************************************************************************)
(* The file is the log of RecordLog.                                       *)
(***************************************************************************)
\* What is left without its last element.
LEMMA FrontOfAppend ==
  ASSUME NEW S, NEW seq \in Seq(S), NEW x \in S
  PROVE  Append(seq, x) # << >> /\ Front(Append(seq, x)) = seq
<1> DEFINE more == Append(seq, x)
<1>1. /\ more \in Seq(S) /\ more # << >> /\ Len(more) = Len(seq) + 1 /\ Len(seq) \in Nat
      /\ \A i \in 1 .. Len(seq) : more[i] = seq[i]
  BY AppendProperties
<1> HIDE DEF more
<1>2. Front(more) = SubSeq(more, 1, Len(seq))
  BY <1>1 DEF Front
<1>3. SubSeq(more, 1, Len(seq)) = seq
  BY <1>1, SeqEqual
<1> QED
  BY <1>1, <1>2, <1>3 DEF more

\* One write is one step of the log, or none.
LEMMA WriteIsLogged ==
  ASSUME JournalInv, NEW p \in Processes, NEW end \in Cuts \cup {"whole"}, WriteEnds(p, end),
         open' \in BOOLEAN, end = "whole" \/ open'
  PROVE  Log!BreakOff \/ Log!WriteOverDoubt
<1>1. CASE open
  <2>1. CASE Read' = Read
    BY <1>1, <2>1 DEF Log!WriteOverDoubt
  <2>2. CASE Read' # Read
    <3>1. PICK x \in Pieces : Read = Append(Read', x)
      BY <1>1, <2>2 DEF WriteEnds
    <3>2. Read' \in Seq(Pieces)
      BY DEF WriteEnds
    <3> DEFINE R == Read'
    <3>3. Read # << >> /\ R = Front(Read)
      <4> HIDE DEF R
      <4> QED
        BY <3>1, <3>2, FrontOfAppend DEF R
    <3>4. Front(Read) = Log!Front(Read)
      BY DEF Front, Log!Front
    <3> QED
      BY <1>1, <3>3, <3>4 DEF Log!WriteOverDoubt
  <2> QED
    BY <2>1, <2>2
<1>2. CASE ~open
  BY <1>2 DEF Log!BreakOff, WriteEnds
<1> QED
  BY <1>1, <1>2

\* While no write breaks off within a character: the file starts as an empty log,
\* and each step of a process is a step of the
\* log or leaves it alone: a record is added, nothing is, or the record in
\* doubt goes with the one that falls on its line.
THEOREM FileIsALog ==
  ASSUME CutsBetweenCharacters
  PROVE  Spec => IsARecordLog
<1>1. Init => Log!LogInit
  <2> SUFFICES ASSUME Init PROVE Log!LogInit
    OBVIOUS
  <2>1. lines = << >> /\ open = FALSE
    BY DEF Init
  <2>2. [n \in DOMAIN lines |-> RecordOn(lines[n])] = << >>
    BY <2>1
  <2>3. Read = << >>
    BY <2>2 DEF Read, FlattenSeq
  <2> QED
    BY <2>1, <2>3 DEF Log!LogInit
<1>2. JournalInv /\ [Next]_vars => [Log!LogNext]_Log!logVars
  <2> SUFFICES ASSUME JournalInv, [Next]_vars
               PROVE  [Log!LogNext]_Log!logVars
    OBVIOUS
  <2>1. TypeOK /\ Numbered
    BY DEF JournalInv
  <2>2. CASE lines' = lines /\ open' = open
    BY <2>2, SameFile DEF Log!logVars
  <2>3. CASE ~(lines' = lines /\ open' = open)
    <3>1. PICK p \in Processes : AppendRecord(p) \/ AppendBreaksOff(p)
      BY <2>3 DEF Next, Open, Close, vars
    <3>2. CASE AppendRecord(p)
      <4>1. WriteEnds(p, "whole") /\ open' = FALSE
        BY <2>1, <3>2, WrittenEnds DEF AppendRecord
      <4> QED
        BY <4>1, WriteIsLogged DEF Log!LogNext
    <3>3. CASE AppendBreaksOff(p)
      <4>1. PICK end \in Cuts \cup {"whole"} :
              /\ lines' = Written(NextPiece(p, end)) /\ open' \in BOOLEAN
              /\ end = "whole" \/ open'
        BY <2>3, <3>3 DEF AppendBreaksOff
      <4>2. Handed(p)
        BY <3>3 DEF AppendBreaksOff
      <4>3. WriteEnds(p, end)
        BY <2>1, <4>1, <4>2, WrittenEnds
      <4> QED
        BY <4>1, <4>3, WriteIsLogged DEF Log!LogNext
    <3> QED
      BY <3>1, <3>2, <3>3
  <2> QED
    BY <2>2, <2>3
<1> QED
  BY <1>1, <1>2, JournalInvHolds, PTL DEF Spec, IsARecordLog, Log!LogSpec

-----------------------------------------------------------------------------
(***************************************************************************)
(* That a stack with a copy never runs beside it, for any number of stacks *)
(* and environments.                                                       *)
(*                                                                         *)
(* Only a queued restart brings a stack up.  A restart is asked for when   *)
(* the sagas are over, by the one that failed - which has no copy any      *)
(* more - or by the process for a stack it still calls its own.  So the    *)
(* invariant says which stacks those can be.                               *)
(***************************************************************************)
AtWork == {"early", "quiesce", "marked", "stopping", "held", "live"}

\* Between the sagas' places in the code and how far each of them came.
Places ==
  /\ pc \in {"offer", "stop", "await", "confirm", "host_key"} =>
       saga = [e \in Envs |-> "none"]
  /\ pc \in {"confirm", "host_key"} => env = 1
  /\ pc \notin {"restart", "ended"} => exit = "none"
  /\ pc = "saga" => /\ saga[env] \in AtWork
                    /\ \A e \in Envs : e < env => saga[e] = "moved"
                    /\ \A e \in Envs : e > env => saga[e] = "none"

\* A restart is a matter of the end of the run.
RestartsComeLast ==
  \A job \in queue : job[1] = "restart" => pc \in {"restart", "ended"}

NotOurs(e) == stopped \cap StacksOf(e) = {}

\* What the sagas before this one moved is no longer the process's to start.
MovedIsDropped ==
  pc = "saga" => \A e \in Envs : e < env => NotOurs(e)

\* Nothing that could start a stack is left of one with a copy.
CopyIsAlone ==
  \A s \in Stacks :
    HasCopy(EnvOf[s]) /\ ~(exit = "raised" /\ env = EnvOf[s]) =>
      /\ ~up[s]
      /\ \A job \in queue : job[2] = s => job[1] # "restart"
      /\ pc \in {"restart", "ended"} => s \notin stopped

SafeInv ==
  RunTypeOK /\ Places /\ RestartsComeLast /\ MovedIsDropped /\ CopyIsAlone

-----------------------------------------------------------------------------
(***************************************************************************)
(* Environments are numbered from 1.                                       *)
(***************************************************************************)
LEMMA EnvFacts ==
  /\ LastEnv \in Nat \ {0} /\ Envs = 1 .. LastEnv
  /\ \A s \in Stacks : EnvOf[s] \in Envs
<1>1. EnvOf \in Surjection(Stacks, Envs) /\ IsFiniteSet(Stacks)
  BY EnvAssumption DEF Envs, Surjection
<1>2. LastEnv \in Nat
  BY <1>1, FS_Surjection, FS_CardinalityType DEF LastEnv
<1>3. Envs = 1 .. LastEnv /\ Envs # {}
  BY EnvAssumption DEF LastEnv, Envs
<1> QED
  BY <1>2, <1>3 DEF Envs

(***************************************************************************)
(* Every step keeps the types.                                             *)
(***************************************************************************)
LEMMA TypeStep ==
  ASSUME RunTypeOK, Places, RunNext
  PROVE  RunTypeOK'
<1> USE EnvFacts DEF RunTypeOK, Places, sourceVars, processVars, historyVars
<1>1. CASE JobRuns
  BY <1>1 DEF JobRuns, Jobs
<1>2. CASE PassOffer \/ AcceptOffer \/ Abort \/ Confirm \/ HostKeyRefused
  BY <1>2 DEF PassOffer, AcceptOffer, Abort, Confirm, HostKeyRefused, NextOffer,
     OfflineOnly, StacksOf
<1>3. CASE StopUpFront \/ StopRaises
  BY <1>3 DEF StopUpFront, StopRaises, Jobs
<1>4. CASE Replan \/ ReplanRaises
  <2>1. \A s \in Stacks : PlanOf(s) \in {"clear", "offline", "blocked"}
    BY DEF PlanOf
  <2> QED
    BY <1>4, <2>1 DEF Replan, ReplanRaises, NextOffer
<1>5. CASE HostKeyAccepted \/ EnterQuiesce \/ MarkStop \/ SeeItDown \/ Deploy \/ SagaRaises
  BY <1>5 DEF HostKeyAccepted, EnterQuiesce, MarkStop, SeeItDown, Deploy, SagaRaises,
       Proceed, Stages
<1>6. CASE RequestStop
  BY <1>6 DEF RequestStop, Proceed, Jobs, StacksOf, Stages
<1>7. ASSUME NEW stage \in {"undone", "unmarked", "rolled_back", "blocked", "moved"}, Return(stage)
      PROVE  /\ pc' \in {"saga", "restart"} /\ env' \in Envs /\ stopped' \subseteq stopped
             /\ saga' \in [Envs -> Stages] /\ exit' \in {"none", "returned"} \cup {exit}
             /\ UNCHANGED << view, todo >>
  BY <1>7 DEF Return, StillOurs, Stages
<1>8. CASE FailsUnmarked \/ BlockedAtDns \/ Succeed
  BY <1>7, <1>8 DEF FailsUnmarked, BlockedAtDns, Succeed
<1>9. CASE FailsMarked
  <2>1. /\ queue' \subseteq Jobs
        /\ told' \subseteq Stacks /\ raced' \subseteq Stacks
        /\ UNCHANGED << kind, up, ours >>
    BY <1>9 DEF FailsMarked, AskRestarts, Jobs, StacksOf
  <2> QED
    BY <1>7, <1>9, <2>1 DEF FailsMarked
<1>10. CASE RestartStopped \/ End
  BY <1>10 DEF RestartStopped, End, AskRestarts, Jobs
<1> QED
  BY <1>1, <1>2, <1>3, <1>4, <1>5, <1>6, <1>8, <1>9, <1>10 DEF RunNext, Process

(***************************************************************************)
(* A saga is begun when all before it have moved, and the first that does  *)
(* not move is the last.                                                   *)
(***************************************************************************)
LEMMA PlacesStep ==
  ASSUME RunTypeOK, Places, RunNext
  PROVE  Places'
<1> USE EnvFacts DEF RunTypeOK, Places, AtWork, sourceVars, processVars, historyVars
<1>1. CASE JobRuns
  BY <1>1 DEF JobRuns
<1>2. CASE PassOffer \/ AcceptOffer \/ StopUpFront \/ StopRaises \/ Replan \/ ReplanRaises
           \/ Abort \/ Confirm \/ HostKeyRefused
  BY <1>2 DEF PassOffer, AcceptOffer, StopUpFront, StopRaises, Replan, ReplanRaises, Abort,
     Confirm, HostKeyRefused, NextOffer
<1>3. CASE HostKeyAccepted
  BY <1>3 DEF HostKeyAccepted
<1>4. CASE EnterQuiesce \/ MarkStop \/ RequestStop \/ SeeItDown \/ Deploy
  BY <1>4 DEF EnterQuiesce, MarkStop, RequestStop, SeeItDown, Deploy, Proceed
<1>5. ASSUME NEW stage, Return(stage)
      PROVE  Places'
  BY <1>5 DEF Return
<1>6. CASE FailsUnmarked \/ FailsMarked \/ BlockedAtDns \/ Succeed
  BY <1>5, <1>6 DEF FailsUnmarked, FailsMarked, BlockedAtDns, Succeed
<1>7. CASE SagaRaises \/ RestartStopped \/ End
  BY <1>7 DEF SagaRaises, RestartStopped, End
<1> QED
  BY <1>1, <1>2, <1>3, <1>4, <1>6, <1>7 DEF RunNext, Process

(***************************************************************************)
(* Restarts are asked for by the failing saga and after it, and a saga     *)
(* that returns leaves the process nothing of its environment.             *)
(***************************************************************************)
LEMMA RestartsStep ==
  ASSUME RunTypeOK, Places, RestartsComeLast, RunNext
  PROVE  RestartsComeLast'
<1> USE DEF RestartsComeLast, sourceVars, processVars, historyVars
<1>1. CASE JobRuns
  BY <1>1 DEF JobRuns
<1>2. CASE PassOffer \/ AcceptOffer \/ StopUpFront \/ StopRaises \/ Replan \/ ReplanRaises
           \/ Abort \/ Confirm \/ HostKeyAccepted \/ HostKeyRefused
  BY <1>2 DEF PassOffer, AcceptOffer, StopUpFront, StopRaises, Replan, ReplanRaises, Abort,
     Confirm, HostKeyAccepted, HostKeyRefused, NextOffer
<1>3. CASE EnterQuiesce \/ MarkStop \/ RequestStop \/ SeeItDown \/ Deploy
  BY <1>3 DEF EnterQuiesce, MarkStop, RequestStop, SeeItDown, Deploy, Proceed
<1>4. CASE FailsUnmarked \/ BlockedAtDns \/ Succeed
  BY <1>4 DEF FailsUnmarked, BlockedAtDns, Succeed, Return
<1>5. CASE FailsMarked
  BY <1>5 DEF FailsMarked, AskRestarts, Return
<1>6. CASE SagaRaises \/ RestartStopped \/ End
  BY <1>6 DEF SagaRaises, RestartStopped, End, AskRestarts
<1> QED
  BY <1>1, <1>2, <1>3, <1>4, <1>5, <1>6 DEF RunNext, Process

\* Every step keeps: what is moved is dropped from the restarts.
LEMMA DroppedStep ==
  ASSUME RunTypeOK, Places, MovedIsDropped, RunNext
  PROVE  MovedIsDropped'
<1> USE EnvFacts DEF RunTypeOK, MovedIsDropped, NotOurs, sourceVars, processVars, historyVars
<1>1. CASE pc' # "saga"
  BY <1>1
<1>2. CASE HostKeyAccepted
  BY <1>2 DEF HostKeyAccepted, Places
<1>3. CASE JobRuns \/ EnterQuiesce \/ MarkStop \/ RequestStop \/ SeeItDown \/ Deploy
  BY <1>3 DEF JobRuns, EnterQuiesce, MarkStop, RequestStop, SeeItDown, Deploy, Proceed
<1>4. ASSUME NEW stage \in Stages, Return(stage), pc' = "saga"
      PROVE  MovedIsDropped'
  BY <1>4 DEF Return, StillOurs, ReachedQuiesce, Places
<1>5. CASE FailsUnmarked \/ FailsMarked \/ BlockedAtDns \/ Succeed
  BY <1>1, <1>4, <1>5 DEF FailsUnmarked, FailsMarked, BlockedAtDns, Succeed, Stages
<1>6. CASE PassOffer \/ AcceptOffer \/ StopUpFront \/ StopRaises \/ Replan \/ ReplanRaises
           \/ Abort \/ Confirm \/ HostKeyRefused \/ SagaRaises \/ RestartStopped \/ End
  BY <1>1, <1>6 DEF PassOffer, AcceptOffer, StopUpFront, StopRaises, Replan, ReplanRaises,
     Abort, Confirm, HostKeyRefused, NextOffer, SagaRaises, RestartStopped, End
<1> QED
  BY <1>2, <1>3, <1>5, <1>6 DEF RunNext, Process

(***************************************************************************)
(* A copy is made of stacks that are down while nothing can start them,    *)
(* and from there on nothing comes to be that could.                       *)
(***************************************************************************)
LEMMA AloneStep ==
  ASSUME SafeInv, RunNext
  PROVE  CopyIsAlone'
<1> USE EnvFacts DEF SafeInv, RunTypeOK, CopyIsAlone, HasCopy, sourceVars, processVars,
     historyVars
<1>1. CASE JobRuns
  BY <1>1 DEF JobRuns
<1>2. CASE saga' = [e \in Envs |-> "none"]
  BY <1>2
<1>3. CASE PassOffer \/ AcceptOffer \/ StopUpFront \/ StopRaises \/ Replan \/ ReplanRaises
           \/ Abort \/ Confirm \/ HostKeyRefused
  BY <1>2, <1>3 DEF Places, PassOffer, AcceptOffer, StopUpFront, StopRaises, Replan,
     ReplanRaises, Abort, Confirm, HostKeyRefused
<1>4. CASE HostKeyAccepted
  BY <1>4 DEF HostKeyAccepted, Places
<1>5. CASE EnterQuiesce \/ MarkStop \/ RequestStop
  BY <1>5 DEF EnterQuiesce, MarkStop, RequestStop, Proceed
<1>6. CASE SeeItDown
  BY <1>6 DEF SeeItDown, Proceed, StacksOf, RestartsComeLast
<1>7. CASE Deploy
  BY <1>7 DEF Deploy, Proceed
<1>8. CASE SagaRaises
  BY <1>8 DEF SagaRaises, MovedIsDropped, NotOurs, StacksOf, Places
<1>9. CASE FailsUnmarked
  BY <1>9 DEF FailsUnmarked, Return, StillOurs, ReachedQuiesce, MovedIsDropped, NotOurs,
     StacksOf, Places
<1>12. ASSUME NEW stage \in {"blocked", "moved"}, Return(stage), UNCHANGED sourceVars,
              HasCopy(env), NEW s \in Stacks, HasCopy(EnvOf[s])'
       PROVE  /\ ~up'[s]
              /\ \A job \in queue' : job[2] = s => job[1] # "restart"
              /\ pc' \in {"restart", "ended"} => s \notin stopped'
  <2>1. pc = "saga" /\ stopped' = stopped \ StacksOf(env) /\ env \in Envs
    BY <1>12 DEF Return, StillOurs, ReachedQuiesce
  <2>2. CASE EnvOf[s] = env
    BY <1>12, <2>1, <2>2 DEF StacksOf, Places, RestartsComeLast
  <2>3. CASE EnvOf[s] < env
    <3>1. HasCopy(EnvOf[s]) /\ s \notin stopped
      BY <2>1, <2>3 DEF Places, MovedIsDropped, NotOurs, StacksOf
    <3> QED
      BY <1>12, <2>1, <2>3, <3>1
  <2>4. CASE EnvOf[s] > env
    BY <1>12, <2>1, <2>4 DEF Return, Places
  <2> QED
    BY <2>1, <2>2, <2>3, <2>4
<1>13. CASE BlockedAtDns
  BY <1>12, <1>13 DEF BlockedAtDns
<1>14. CASE Succeed
  BY <1>12, <1>14 DEF Succeed
<1>10. CASE FailsMarked
  BY <1>10 DEF FailsMarked, AskRestarts, Return, StillOurs, ReachedQuiesce,
     MovedIsDropped, NotOurs, StacksOf, Places
<1>11. CASE RestartStopped \/ End
  BY <1>11 DEF RestartStopped, End, AskRestarts
<1> QED
  BY <1>1, <1>3, <1>4, <1>5, <1>6, <1>7, <1>8, <1>9, <1>10, <1>11, <1>13, <1>14 DEF RunNext,
       Process

\* The invariant holds before the run.
LEMMA InitIsSafe == RunInit => SafeInv
<1> SUFFICES ASSUME RunInit
             PROVE  SafeInv
  OBVIOUS
<1>1. RunTypeOK
  BY EnvFacts DEF RunInit, RunTypeOK, PlanOf, Stages
<1>2. Places /\ RestartsComeLast /\ MovedIsDropped
  BY DEF RunInit, Places, RestartsComeLast, MovedIsDropped
<1>3. CopyIsAlone
  BY EnvFacts DEF RunInit, CopyIsAlone, HasCopy
<1> QED
  BY <1>1, <1>2, <1>3 DEF SafeInv

\* Every step keeps the invariant.
LEMMA SafeStep == SafeInv /\ [RunNext]_runVars => SafeInv'
<1> SUFFICES ASSUME SafeInv, [RunNext]_runVars
             PROVE  SafeInv'
  OBVIOUS
<1>1. CASE RunNext
  BY <1>1, TypeStep, PlacesStep, RestartsStep, DroppedStep, AloneStep DEF SafeInv
<1>2. CASE UNCHANGED runVars
  BY <1>2 DEF runVars, sourceVars, processVars, historyVars, SafeInv, RunTypeOK, Places,
     RestartsComeLast, MovedIsDropped, NotOurs, CopyIsAlone, HasCopy
<1> QED
  BY <1>1, <1>2

(***************************************************************************)
(* For any stacks in any environments, in whatever order Coolify works off *)
(* its queue: a source whose data was copied never runs beside its copy,   *)
(* except that of a saga that raised (cli.py, _run and _execute_plans).    *)
(***************************************************************************)
THEOREM CopyHasNoRival == RunSpec => []NoRivalToTheCopy
<1>1. SafeInv => NoRivalToTheCopy
  BY DEF SafeInv, CopyIsAlone, NoRivalToTheCopy
<1> QED
  BY <1>1, InitIsSafe, SafeStep, PTL DEF RunSpec

=============================================================================
