------------------------ MODULE LockedValues_proofs ------------------------
(***************************************************************************)
(* The locked values of a resource, of any length and in a file of any     *)
(* rows: what Coolify writes of a value is read back as that value or not  *)
(* at all.                                                                 *)
(***************************************************************************)
EXTENDS Decisions, FiniteSetTheorems, SequenceTheorems, WellFoundedInduction, TLAPS

\* Some number of a set of them is the least.
LEMMA LeastOf ==
  ASSUME NEW I \in SUBSET Nat, I # {}
  PROVE  \E x \in I : \A y \in I : x <= y
<1> DEFINE R == {pair \in Nat \X Nat : pair[1] < pair[2]}
<1>1. IsWellFoundedOn(R, Nat)
  BY NatLessThanWellFounded DEF OpToRel
<1>2. PICK x \in I : \A y \in I : << y, x >> \notin R
  <2> HIDE DEF R
  <2> QED
    BY <1>1, WFMin
<1>3. ASSUME NEW y \in I
      PROVE  x <= y
  <2>1. x \in Nat /\ y \in Nat
    OBVIOUS
  <2>2. y < x => << y, x >> \in R
    BY <2>1
  <2> QED
    BY <1>2, <2>1, <2>2
<1> QED
  BY <1>3

\* A set with 0, and with the successor of what is in it, has every number.
LEMMA NatSetInduction ==
  ASSUME NEW S, 0 \in S, \A n \in Nat : n \in S => n + 1 \in S
  PROVE  Nat \subseteq S
<1> DEFINE T == Nat \ S
<1> SUFFICES ASSUME T # {}
             PROVE  FALSE
  OBVIOUS
<1>1. PICK x \in T : \A y \in T : x <= y
  <2>1. T \in SUBSET Nat
    OBVIOUS
  <2> HIDE DEF T
  <2> QED
    BY <2>1, LeastOf
<1>2. x \in Nat /\ x # 0 /\ x - 1 \in Nat /\ x = (x - 1) + 1 /\ x - 1 < x
  OBVIOUS
<1>3. x - 1 \in T
  BY <1>2
<1> QED
  BY <1>1, <1>2, <1>3

-----------------------------------------------------------------------------
(***************************************************************************)
(* The locked values: what Coolify writes of a value, the decoder reads    *)
(* back, whatever the value holds and however long it is.                  *)
(***************************************************************************)
\* The partial results of FlattenSeq, up to the n-th.
Flattens(f, seqs, n) ==
  f = [i \in 1 .. n |-> IF i = 1 THEN seqs[i] ELSE f[i - 1] \o seqs[i]]

LEMMA FlattensSome ==
  ASSUME NEW seqs, NEW n \in Nat
  PROVE  \E f : Flattens(f, seqs, n)
<1> DEFINE T == {k \in Nat : \E f : Flattens(f, seqs, k)}
<1>1. 0 \in T
  <2>1. Flattens([i \in 1 .. 0 |-> seqs[i]], seqs, 0)
    BY DEF Flattens
  <2> QED
    BY <2>1
<1>2. ASSUME NEW k \in Nat, k \in T
      PROVE  k + 1 \in T
  <2>1. PICK f : Flattens(f, seqs, k)
    BY <1>2
  <2> DEFINE g == [i \in 1 .. k + 1 |-> IF i # k + 1 THEN f[i]
                                        ELSE IF i = 1 THEN seqs[i] ELSE f[i - 1] \o seqs[i]]
  <2>2. ASSUME NEW i \in 1 .. k + 1
        PROVE  g[i] = IF i = 1 THEN seqs[i] ELSE g[i - 1] \o seqs[i]
    <3>1. CASE i = k + 1
      <4>1. i # 1 => g[i - 1] = f[i - 1]
        BY <3>1
      <4> QED
        BY <3>1, <4>1
    <3>2. CASE i # k + 1
      <4>1. i \in 1 .. k /\ g[i] = f[i] /\ (i # 1 => g[i - 1] = f[i - 1])
        BY <3>2
      <4> QED
        BY <2>1, <4>1 DEF Flattens
    <3> QED
      BY <3>1, <3>2
  <2>3. Flattens(g, seqs, k + 1)
    <3>1. g = [i \in 1 .. k + 1 |-> g[i]]
      OBVIOUS
    <3> HIDE DEF g
    <3> QED
      BY <2>2, <3>1 DEF Flattens
  <2> HIDE DEF g
  <2> QED
    BY <2>3
<1> HIDE DEF T
<1>3. Nat \subseteq T
  BY <1>1, <1>2, NatSetInduction
<1> QED
  BY <1>3 DEF T

(***************************************************************************)
(* start[k + 1] is where the (k+1)-th piece begins, less one: the raw text *)
(* is the pieces, one after the other.                                     *)
(***************************************************************************)
Spread(raw, pieces, n, start) ==
  /\ start \in [1 .. n + 1 -> Nat] /\ start[1] = 0 /\ start[n + 1] = Len(raw)
  /\ \A k \in 1 .. n :
       /\ start[k + 1] = start[k] + Len(pieces[k])
       /\ start[k + 1] <= Len(raw)
       /\ \A i \in 1 .. Len(pieces[k]) : raw[start[k] + i] = pieces[k][i]

LEMMA FlatIsSpread ==
  ASSUME NEW Tokens, NEW n \in Nat \ {0}, NEW pieces, \A i \in 1 .. n : pieces[i] \in Seq(Tokens),
         NEW f, Flattens(f, pieces, n)
  PROVE  f[n] \in Seq(Tokens) /\ \E start : Spread(f[n], pieces, n, start)
<1>1. n \in Nat \ {0}
  OBVIOUS
<1>2. \A i \in 1 .. n : pieces[i] \in Seq(Tokens)
  OBVIOUS
<1>5. /\ f[1] = pieces[1]
      /\ \A k \in 1 .. n : k # 1 => f[k] = f[k - 1] \o pieces[k]
  <2>1. \A k \in 1 .. n : f[k] = IF k = 1 THEN pieces[k] ELSE f[k - 1] \o pieces[k]
    BY DEF Flattens
  <2>2. 1 \in 1 .. n
    BY <1>1
  <2> QED
    BY <2>1, <2>2
\* The pieces up to the m-th, and where they begin.
<1> DEFINE start == [k \in 1 .. n + 1 |-> IF k = 1 THEN 0 ELSE Len(f[k - 1])]
           Laid(m) == /\ f[m] \in Seq(Tokens)
                      /\ \A k \in 1 .. m :
                           /\ start[k] \in Nat /\ start[k + 1] = start[k] + Len(pieces[k])
                           /\ start[k + 1] <= Len(f[m])
                           /\ \A i \in 1 .. Len(pieces[k]) : f[m][start[k] + i] = pieces[k][i]
           M == {m \in Nat : m + 1 \in 1 .. n => Laid(m + 1)}
<1>6. start[1] = 0 /\ \A k \in 1 .. n : start[k + 1] = Len(f[k])
  BY <1>1
<1> HIDE DEF start
<1>7. 0 \in M
  <2>1. f[1] = pieces[1] /\ pieces[1] \in Seq(Tokens) /\ start[1] = 0 /\ start[2] = Len(f[1])
    BY <1>1, <1>2, <1>5, <1>6
  <2>2. Laid(1)
    BY <2>1
  <2> HIDE DEF Laid
  <2> QED
    BY <2>2
<1>8. ASSUME NEW m \in Nat, m \in M
      PROVE  m + 1 \in M
  <2> SUFFICES ASSUME (m + 1) + 1 \in 1 .. n
               PROVE  Laid((m + 1) + 1)
    OBVIOUS
  <2> DEFINE l == m + 1
             j == l + 1
  <2>1. l \in 1 .. n /\ j \in 1 .. n /\ j # 1 /\ j - 1 = l /\ l \in Nat
    BY <1>1
  <2>2. Laid(l)
    BY <1>8, <2>1
  <2> HIDE DEF l, j
  <2>3. f[j] = f[l] \o pieces[j] /\ f[l] \in Seq(Tokens) /\ pieces[j] \in Seq(Tokens)
    BY <1>2, <1>5, <2>1, <2>2
  <2>4. /\ f[j] \in Seq(Tokens)
        /\ Len(f[j]) = Len(f[l]) + Len(pieces[j])
        /\ \A i \in 1 .. Len(f[l]) : f[j][i] = f[l][i]
        /\ \A i \in 1 .. Len(pieces[j]) : f[j][Len(f[l]) + i] = pieces[j][i]
        /\ Len(f[l]) \in Nat /\ Len(pieces[j]) \in Nat
    <3> DEFINE s == f[l]
               t == pieces[j]
    <3>1. s \in Seq(Tokens) /\ t \in Seq(Tokens) /\ f[j] = s \o t
      BY <2>3
    <3>2. Len(s) \in Nat /\ Len(t) \in Nat
      BY <3>1
    <3> HIDE DEF s, t
    <3>3. /\ s \o t \in Seq(Tokens)
          /\ Len(s \o t) = Len(s) + Len(t)
          /\ \A i \in 1 .. Len(s) + Len(t) :
               (s \o t)[i] = IF i <= Len(s) THEN s[i] ELSE t[i - Len(s)]
      BY <3>1, ConcatProperties
    <3>4. \A i \in 1 .. Len(s) : i \in 1 .. Len(s) + Len(t) /\ i <= Len(s)
      BY <3>2
    <3>5. \A i \in 1 .. Len(t) : /\ Len(s) + i \in 1 .. Len(s) + Len(t)
                                 /\ ~(Len(s) + i <= Len(s)) /\ (Len(s) + i) - Len(s) = i
      BY <3>2
    <3>6. /\ \A i \in 1 .. Len(s) : (s \o t)[i] = s[i]
          /\ \A i \in 1 .. Len(t) : (s \o t)[Len(s) + i] = t[i]
      BY <3>3, <3>4, <3>5
    <3> QED
      BY <3>1, <3>2, <3>3, <3>6 DEF s, t
  <2>5. start[j] = Len(f[l]) /\ start[j + 1] = Len(f[j])
    <3>1. j = l + 1
      BY DEF j
    <3> QED
      BY <1>6, <2>1, <3>1
  <2>6. ASSUME NEW k \in 1 .. j
        PROVE  /\ start[k] \in Nat /\ start[k + 1] = start[k] + Len(pieces[k])
               /\ start[k + 1] <= Len(f[j])
               /\ \A i \in 1 .. Len(pieces[k]) : f[j][start[k] + i] = pieces[k][i]
    <3>1. CASE k = j
      <4>1. start[k + 1] = Len(f[j]) /\ start[k] = Len(f[l]) /\ pieces[k] = pieces[j]
        BY <2>5, <3>1
      <4> QED
        BY <2>4, <4>1
    <3>2. CASE k # j
      <4>1. k \in 1 .. l
        BY <2>1, <3>2 DEF j
      <4>2. /\ start[k] \in Nat /\ start[k + 1] = start[k] + Len(pieces[k])
            /\ start[k + 1] <= Len(f[l])
            /\ \A i \in 1 .. Len(pieces[k]) : f[l][start[k] + i] = pieces[k][i]
        BY <2>2, <4>1
      <4>3. Len(pieces[k]) \in Nat
        BY <1>2, <2>1, <4>1
      <4>4. \A i \in 1 .. Len(pieces[k]) : start[k] + i \in 1 .. Len(f[l])
        BY <2>4, <4>2, <4>3
      <4>5. \A i \in 1 .. Len(pieces[k]) : f[j][start[k] + i] = pieces[k][i]
        BY <2>4, <4>2, <4>4
      <4>6. start[k + 1] <= Len(f[j])
        <5> DEFINE x == start[k + 1]
                   y == Len(f[l])
                   z == Len(pieces[j])
        <5>1. x \in Nat /\ x <= y
          BY <4>2, <4>3
        <5>2. y \in Nat /\ z \in Nat /\ Len(f[j]) = y + z
          BY <2>4
        <5> HIDE DEF x, y, z
        <5>3. x <= y + z
          BY <5>1, <5>2
        <5> QED
          BY <5>2, <5>3 DEF x
      <4> QED
        BY <4>2, <4>5, <4>6
    <3> QED
      BY <3>1, <3>2
  <2>7. Laid(j)
    BY <2>4, <2>6
  <2> QED
    BY <2>7 DEF j, l
<1> HIDE DEF M
<1>9. Nat \subseteq M
  BY <1>7, <1>8, NatSetInduction
<1>10. Laid(n)
  <2>1. n - 1 \in M /\ (n - 1) + 1 = n
    BY <1>1, <1>9
  <2>2. n \in 1 .. n
    BY <1>1
  <2> HIDE DEF Laid
  <2>3. Laid((n - 1) + 1)
    BY <2>1, <2>2 DEF M
  <2> QED
    BY <2>1, <2>3
<1>11. Spread(f[n], pieces, n, start)
  <2>1. start = [k \in 1 .. n + 1 |-> start[k]] /\ \A k \in 1 .. n + 1 : start[k] \in Nat
    <3>1. start = [k \in 1 .. n + 1 |-> start[k]]
      BY DEF start
    <3>2. \A k \in 1 .. n + 1 : k \in 1 .. n \/ k = n + 1
      BY <1>1
    <3>3. start[n + 1] \in Nat
      BY <1>1, <1>6, <1>10
    <3> QED
      BY <1>10, <3>1, <3>2, <3>3
  <2>2. start \in [1 .. n + 1 -> Nat] /\ start[1] = 0 /\ start[n + 1] = Len(f[n])
    <3>1. start \in [1 .. n + 1 -> Nat]
      BY <2>1
    <3>2. n \in 1 .. n
      BY <1>1
    <3>3. start[1] = 0 /\ start[n + 1] = Len(f[n])
      BY <1>6, <3>2
    <3> QED
      BY <3>1, <3>3
  <2>3. \A k \in 1 .. n :
          /\ start[k + 1] = start[k] + Len(pieces[k])
          /\ start[k + 1] <= Len(f[n])
          /\ \A i \in 1 .. Len(pieces[k]) : f[n][start[k] + i] = pieces[k][i]
    BY <1>10
  <2> QED
    BY <2>2, <2>3 DEF Spread
<1> QED
  BY <1>10, <1>11

\* What one token of a text becomes.
Piece(token, escaped) == IF token \in escaped THEN <<"bs", token>> ELSE <<token>>

(***************************************************************************)
(* start[k + 1] is where the piece of the (k+1)-th token begins, less one: *)
(* the raw text is the pieces, one after the other.                        *)
(***************************************************************************)
LaidOut(raw, text, escaped, start) ==
  /\ start \in [1 .. Len(text) + 1 -> Nat]
  /\ start[1] = 0
  /\ start[Len(text) + 1] = Len(raw)
  /\ \A k \in 1 .. Len(text) :
       /\ start[k + 1] = start[k] + Len(Piece(text[k], escaped))
       /\ start[k + 1] <= Len(raw)
       /\ \A i \in 1 .. Len(Piece(text[k], escaped)) : raw[start[k] + i] = Piece(text[k], escaped)[i]

LEMMA PieceIsShort ==
  ASSUME NEW Tokens, "bs" \in Tokens, NEW token \in Tokens, NEW escaped
  PROVE  /\ Piece(token, escaped) \in Seq(Tokens)
         /\ Len(Piece(token, escaped)) = IF token \in escaped THEN 2 ELSE 1
         /\ token \in escaped => Piece(token, escaped)[1] = "bs" /\ Piece(token, escaped)[2] = token
         /\ token \notin escaped => Piece(token, escaped)[1] = token
BY DEF Piece

\* What is escaped is a text, laid out so.
LEMMA EscapedIsLaidOut ==
  ASSUME NEW Tokens, "bs" \in Tokens, NEW text \in Seq(Tokens), text # << >>, NEW escaped
  PROVE  /\ Env!Escaped(text, escaped) \in Seq(Tokens)
         /\ \E start : LaidOut(Env!Escaped(text, escaped), text, escaped, start)
<1> DEFINE n == Len(text)
           pieces == [i \in DOMAIN text |-> Piece(text[i], escaped)]
           f == CHOOSE g : Flattens(g, pieces, n)
<1>1. n \in Nat \ {0} /\ DOMAIN text = 1 .. n /\ \A i \in 1 .. n : text[i] \in Tokens
  OBVIOUS
<1>2. /\ pieces \in Seq(Seq(Tokens)) /\ Len(pieces) = n
      /\ \A i \in 1 .. n : pieces[i] = Piece(text[i], escaped) /\ pieces[i] \in Seq(Tokens)
  <2>1. \A i \in 1 .. n : Piece(text[i], escaped) \in Seq(Tokens)
    BY <1>1, PieceIsShort
  <2> HIDE DEF n
  <2> QED
    BY <1>1, <2>1
<1>3. Env!Escaped(text, escaped) = f[n]
  <2>1. Env!Escaped(text, escaped) = Env!FlattenSeq(pieces)
    BY DEF Env!Escaped, Piece
  <2> HIDE DEF pieces, n
  <2>2. Env!FlattenSeq(pieces) = f[n]
    BY <1>1, <1>2 DEF Env!FlattenSeq, Flattens
  <2> QED
    BY <2>1, <2>2
<1>4. Flattens(f, pieces, n)
  <2> HIDE DEF pieces, n
  <2> QED
    BY <1>1, FlattensSome
<1> HIDE DEF f, pieces
<1>5. f[n] \in Seq(Tokens) /\ \E start : Spread(f[n], pieces, n, start)
  <2> HIDE DEF n
  <2>1. \A i \in 1 .. n : pieces[i] \in Seq(Tokens)
    BY <1>2
  <2> QED
    BY <1>1, <1>4, <2>1, FlatIsSpread
<1>6. PICK start : Spread(f[n], pieces, n, start)
  BY <1>5
<1>7. LaidOut(f[n], text, escaped, start)
  <2>1. \A k \in 1 .. n : pieces[k] = Piece(text[k], escaped)
    BY <1>2
  <2> QED
    BY <1>6, <2>1 DEF LaidOut, Spread
<1> QED
  BY <1>3, <1>5, <1>7

(***************************************************************************)
(* The decoder reads from the back: what it makes of the rest of the text  *)
(* follows what it makes of a token.                                       *)
(***************************************************************************)
Prefixed(token, rest) == IF rest = Env!Bad THEN Env!Bad ELSE <<token>> \o rest

Reads(f, raw, escapable, forbidden, lo) ==
  f = [i \in lo .. Len(raw) + 1 |->
         IF i > Len(raw) THEN << >>
         ELSE IF raw[i] \in forbidden THEN Env!Bad
         ELSE IF raw[i] # "bs" THEN Prefixed(raw[i], f[i + 1])
         ELSE IF i = Len(raw) \/ raw[i + 1] \notin escapable THEN Env!Bad
         ELSE Prefixed(raw[i + 1], f[i + 2])]

\* Such a reading there is, from every place on.
LEMMA ReadsSome ==
  ASSUME NEW raw, Len(raw) \in Nat, NEW escapable, NEW forbidden
  PROVE  \E f : Reads(f, raw, escapable, forbidden, 1)
<1> DEFINE n == Len(raw)
           Step(i, one, two) ==
             IF i > n THEN << >>
             ELSE IF raw[i] \in forbidden THEN Env!Bad
             ELSE IF raw[i] # "bs" THEN Prefixed(raw[i], one)
             ELSE IF i = n \/ raw[i + 1] \notin escapable THEN Env!Bad
             ELSE Prefixed(raw[i + 1], two)
           ReadsFrom(f, lo) == f = [i \in lo .. n + 1 |-> Step(i, f[i + 1], f[i + 2])]
           D == {d \in Nat : d <= n => \E f : ReadsFrom(f, n + 1 - d)}
<1>1. \A f, lo : Reads(f, raw, escapable, forbidden, lo) <=> ReadsFrom(f, lo)
  BY DEF Reads
<1>2. \A i, one, two, one2, two2 :
        /\ i > n => Step(i, one, two) = Step(i, one2, two2)
        /\ i = n => Step(i, one, two) = Step(i, one, two2)
  OBVIOUS
<1>3. n \in Nat
  OBVIOUS
<1> HIDE DEF Step, n
<1>4. 0 \in D
  <2> DEFINE f == [i \in n + 1 .. n + 1 |-> Step(i, 0, 0)]
  <2>1. \A i \in n + 1 .. n + 1 : i > n
    BY <1>3
  <2>2. f = [i \in n + 1 .. n + 1 |-> Step(i, f[i + 1], f[i + 2])]
    BY <1>2, <2>1
  <2>3. ReadsFrom(f, n + 1)
    BY <2>2
  <2>4. n + 1 - 0 = n + 1
    BY <1>3
  <2> HIDE DEF f, ReadsFrom
  <2> QED
    BY <2>3, <2>4
<1>5. ASSUME NEW d \in Nat, d \in D
      PROVE  d + 1 \in D
  <2> SUFFICES ASSUME d + 1 <= n
               PROVE  \E f : ReadsFrom(f, n + 1 - (d + 1))
    OBVIOUS
  <2> DEFINE lo == n + 1 - (d + 1)
  <2>1. lo \in 1 .. n /\ n + 1 - d = lo + 1 /\ lo \in Nat /\ d <= n
    BY <1>3
  <2>2. PICK f : ReadsFrom(f, lo + 1)
    BY <1>5, <2>1
  <2> HIDE DEF lo
  <2> DEFINE g == [i \in lo .. n + 1 |-> IF i = lo THEN Step(lo, f[lo + 1], f[lo + 2]) ELSE f[i]]
  <2>3. ASSUME NEW i \in lo .. n + 1
        PROVE  g[i] = Step(i, g[i + 1], g[i + 2])
    <3>1. CASE i = lo
      <4>1. g[lo + 1] = f[lo + 1]
        BY <1>3, <2>1
      <4>2. CASE lo = n
        <5>1. g[i] = Step(lo, f[lo + 1], f[lo + 2])
          BY <3>1
        <5> HIDE DEF g
        <5> QED
          BY <1>2, <3>1, <4>1, <4>2, <5>1
      <4>3. CASE lo # n
        <5>1. g[lo + 2] = f[lo + 2]
          BY <1>3, <2>1, <4>3
        <5>2. g[i] = Step(lo, f[lo + 1], f[lo + 2])
          BY <3>1
        <5> HIDE DEF g
        <5> QED
          BY <3>1, <4>1, <5>1, <5>2
      <4> QED
        BY <4>2, <4>3
    <3>2. CASE i # lo
      <4>1. i \in lo + 1 .. n + 1 /\ g[i] = f[i] /\ i + 1 # lo /\ i + 2 # lo
        BY <1>3, <2>1, <3>2
      <4>2. f[i] = Step(i, f[i + 1], f[i + 2])
        BY <2>2, <4>1
      <4>3. CASE i > n
        <5> HIDE DEF g
        <5> QED
          BY <1>2, <4>1, <4>2, <4>3
      <4>4. CASE i = n
        <5>1. g[i + 1] = f[i + 1]
          BY <1>3, <2>1, <4>1, <4>4
        <5> HIDE DEF g
        <5> QED
          BY <1>2, <4>1, <4>2, <4>4, <5>1
      <4>5. CASE i < n
        <5>1. g[i + 1] = f[i + 1] /\ g[i + 2] = f[i + 2]
          BY <1>3, <2>1, <4>1, <4>5
        <5> HIDE DEF g
        <5> QED
          BY <4>1, <4>2, <5>1
      <4> QED
        BY <1>3, <2>1, <4>1, <4>3, <4>4, <4>5
    <3> QED
      BY <3>1, <3>2
  <2>4. g = [i \in lo .. n + 1 |-> g[i]]
    OBVIOUS
  <2> HIDE DEF g
  <2>5. ReadsFrom(g, lo)
    BY <2>3, <2>4
  <2> HIDE DEF ReadsFrom
  <2> QED
    BY <2>5 DEF lo
<1> HIDE DEF D
<1>6. Nat \subseteq D
  BY <1>4, <1>5, NatSetInduction
<1>7. n \in D /\ n + 1 - n = 1 /\ n <= n
  BY <1>3, <1>6
<1> HIDE DEF ReadsFrom
<1>8. PICK f : ReadsFrom(f, 1)
  BY <1>7 DEF D
<1> QED
  BY <1>1, <1>8

\* Read back from its pieces, a text is itself.
LEMMA UnescapedIsTheText ==
  ASSUME NEW Tokens, "bs" \in Tokens, "bad" \notin Tokens, NEW text \in Seq(Tokens), text # << >>,
         NEW escaped, NEW escapable, NEW forbidden, "bs" \in escaped, "bs" \notin forbidden,
         escaped \subseteq escapable, forbidden \subseteq escaped
  PROVE  Env!Unescaped(Env!Escaped(text, escaped), escapable, forbidden) = text
<1> DEFINE n == Len(text)
           raw == Env!Escaped(text, escaped)
           f == CHOOSE g : Reads(g, raw, escapable, forbidden, 1)
           Onwards(k) == [i \in 1 .. n - k |-> text[k + i]]
<1>1. n \in Nat \ {0} /\ \A i \in 1 .. n : text[i] \in Tokens
  OBVIOUS
<1>2. raw \in Seq(Tokens) /\ \E start : LaidOut(raw, text, escaped, start)
  BY EscapedIsLaidOut
<1>3. Env!Unescaped(raw, escapable, forbidden) = f[1]
  BY DEF Env!Unescaped, Reads, Prefixed
<1> HIDE DEF raw
<1>4. PICK start : LaidOut(raw, text, escaped, start)
  BY <1>2
<1>5. Len(raw) \in Nat
  BY <1>2
<1>6. Reads(f, raw, escapable, forbidden, 1)
  BY <1>5, ReadsSome
<1> HIDE DEF f
<1>7. \A i \in 1 .. Len(raw) + 1 :
        f[i] = IF i > Len(raw) THEN << >>
               ELSE IF raw[i] \in forbidden THEN Env!Bad
               ELSE IF raw[i] # "bs" THEN Prefixed(raw[i], f[i + 1])
               ELSE IF i = Len(raw) \/ raw[i + 1] \notin escapable THEN Env!Bad
               ELSE Prefixed(raw[i + 1], f[i + 2])
  BY <1>6 DEF Reads
<1>8. /\ start[1] = 0 /\ start[n + 1] = Len(raw)
      /\ \A k \in 1 .. n + 1 : start[k] \in Nat
      /\ \A k \in 1 .. n :
           /\ start[k + 1] = start[k] + Len(Piece(text[k], escaped))
           /\ start[k + 1] <= Len(raw)
           /\ \A i \in 1 .. Len(Piece(text[k], escaped)) :
                raw[start[k] + i] = Piece(text[k], escaped)[i]
  BY <1>4 DEF LaidOut
\* What a token comes to, in front of what is read after it.
<1>9. ASSUME NEW m \in 1 .. n, f[start[m + 1] + 1] # Env!Bad
      PROVE  f[start[m] + 1] = <<text[m]>> \o f[start[m + 1] + 1]
  <2> DEFINE token == text[m]
             s == start[m]
  <2>1. token \in Tokens /\ s \in Nat
    BY <1>1, <1>8
  <2>2. CASE token \in escaped
    <3>1. /\ Len(Piece(token, escaped)) = 2
          /\ Piece(token, escaped)[1] = "bs" /\ Piece(token, escaped)[2] = token
      BY <2>1, <2>2, PieceIsShort
    <3>2. start[m + 1] = s + 2 /\ s + 2 <= Len(raw) /\ raw[s + 1] = "bs" /\ raw[s + 2] = token
      <4>1. start[m + 1] = s + 2
        BY <1>8, <3>1
      <4>2. start[m + 1] <= Len(raw)
        BY <1>8
      <4>3. 1 \in 1 .. Len(Piece(token, escaped)) /\ 2 \in 1 .. Len(Piece(token, escaped))
        BY <3>1
      <4>4. raw[s + 1] = Piece(token, escaped)[1] /\ raw[s + 2] = Piece(token, escaped)[2]
        BY <1>8, <4>3
      <4> QED
        BY <3>1, <4>1, <4>2, <4>4
    <3> HIDE DEF s, token
    <3>3. /\ s + 1 \in 1 .. Len(raw) + 1 /\ ~(s + 1 > Len(raw)) /\ s + 1 # Len(raw)
          /\ (s + 1) + 1 = s + 2 /\ (s + 1) + 2 = (s + 2) + 1
      BY <1>5, <2>1, <3>2
    <3>4. token \in escapable
      BY <2>2
    <3>5. f[s + 1] = Prefixed(token, f[(s + 2) + 1])
      BY <1>7, <3>2, <3>3, <3>4
    <3>6. f[s + 1] = <<token>> \o f[start[m + 1] + 1]
      BY <1>9, <3>2, <3>5 DEF Prefixed
    <3> QED
      BY <3>6 DEF s, token
  <2>3. CASE token \notin escaped
    <3>1. Len(Piece(token, escaped)) = 1 /\ Piece(token, escaped)[1] = token
      BY <2>1, <2>3, PieceIsShort
    <3>2. start[m + 1] = s + 1 /\ s + 1 <= Len(raw) /\ raw[s + 1] = token
      <4>1. start[m + 1] = s + 1
        BY <1>8, <3>1
      <4>2. start[m + 1] <= Len(raw)
        BY <1>8
      <4>3. 1 \in 1 .. Len(Piece(token, escaped))
        BY <3>1
      <4>4. raw[s + 1] = Piece(token, escaped)[1]
        BY <1>8, <4>3
      <4> QED
        BY <3>1, <4>1, <4>2, <4>4
    <3> HIDE DEF s, token
    <3>3. s + 1 \in 1 .. Len(raw) + 1 /\ ~(s + 1 > Len(raw))
      BY <1>5, <2>1, <3>2
    <3>4. token # "bs" /\ token \notin forbidden
      BY <2>3
    <3>5. f[s + 1] = Prefixed(token, f[(s + 1) + 1])
      BY <1>7, <3>2, <3>3, <3>4
    <3>6. f[s + 1] = <<token>> \o f[start[m + 1] + 1]
      BY <1>9, <3>2, <3>5 DEF Prefixed
    <3> QED
      BY <3>6 DEF s, token
  <2> QED
    BY <2>2, <2>3
<1>10. ASSUME NEW k \in 0 .. n
       PROVE  Onwards(k) \in Seq(Tokens) /\ Onwards(k) # Env!Bad
  <2>1. n - k \in Nat /\ \A i \in 1 .. n - k : text[k + i] \in Tokens
    BY <1>1
  <2>2. Onwards(k) \in Seq(Tokens)
    BY <2>1
  <2>3. Onwards(k) # <<"bad">>
    <3>1. \A i \in DOMAIN Onwards(k) : Onwards(k)[i] \in Tokens
      BY <2>1
    <3> HIDE DEF Onwards
    <3> QED
      BY <3>1
  <2> QED
    BY <2>2, <2>3 DEF Env!Bad
<1>11. ASSUME NEW m \in 1 .. n
       PROVE  <<text[m]>> \o Onwards(m) = Onwards(m - 1)
  <2> DEFINE one == <<text[m]>>
             rest == Onwards(m)
  <2>1. /\ n - m \in Nat /\ n - (m - 1) = (n - m) + 1
        /\ \A i \in 1 .. (n - m) + 1 : (m - 1) + i = m + (i - 1)
    BY <1>1
  <2>2. one \in Seq(Tokens) /\ Len(one) = 1 /\ one[1] = text[m]
    BY <1>1
  <2>3. rest \in Seq(Tokens) /\ Len(rest) = n - m /\ \A i \in 1 .. n - m : rest[i] = text[m + i]
    <3>1. rest \in Seq(Tokens)
      BY <1>1, <1>10
    <3>2. DOMAIN rest = 1 .. n - m
      OBVIOUS
    <3>3. Len(rest) = n - m
      BY <2>1, <3>1, <3>2
    <3> QED
      BY <3>1, <3>3
  <2> HIDE DEF one, rest
  <2>4. /\ one \o rest \in Seq(Tokens)
        /\ Len(one \o rest) = Len(one) + Len(rest)
        /\ \A i \in 1 .. Len(one) + Len(rest) :
             (one \o rest)[i] = IF i <= Len(one) THEN one[i] ELSE rest[i - Len(one)]
    BY <2>2, <2>3, ConcatProperties
  <2>5. Len(one) + Len(rest) = (n - m) + 1
    BY <2>1, <2>2, <2>3
  <2>6. ASSUME NEW i \in 1 .. (n - m) + 1
        PROVE  (one \o rest)[i] = text[(m - 1) + i]
    <3>1. CASE i = 1
      <4>1. i <= Len(one) /\ (m - 1) + i = m
        BY <2>2, <3>1
      <4> QED
        BY <2>2, <2>4, <2>5, <3>1, <4>1
    <3>2. CASE i # 1
      <4>1. ~(i <= Len(one)) /\ i - Len(one) = i - 1 /\ i - 1 \in 1 .. n - m /\ m + (i - 1) = (m - 1) + i
        BY <2>1, <2>2, <3>2
      <4> QED
        BY <2>3, <2>4, <2>5, <4>1
    <3> QED
      BY <3>1, <3>2
  <2>7. one \o rest = [i \in 1 .. (n - m) + 1 |-> text[(m - 1) + i]]
    <3> DEFINE both == one \o rest
    <3>1. both \in Seq(Tokens) /\ Len(both) = (n - m) + 1
      BY <2>4, <2>5
    <3>2. \A i \in 1 .. (n - m) + 1 : both[i] = text[(m - 1) + i]
      BY <2>6
    <3> HIDE DEF both
    <3>3. both = [i \in 1 .. (n - m) + 1 |-> both[i]]
      BY <3>1
    <3>4. both = [i \in 1 .. (n - m) + 1 |-> text[(m - 1) + i]]
      BY <3>2, <3>3
    <3> QED
      BY <3>4 DEF both
  <2>8. Onwards(m - 1) = [i \in 1 .. (n - m) + 1 |-> text[(m - 1) + i]]
    BY <2>1
  <2> QED
    BY <2>7, <2>8 DEF one, rest
<1> HIDE DEF Onwards
<1> DEFINE D == {d \in Nat : d <= n => f[start[n - d + 1] + 1] = Onwards(n - d)}
<1>12. 0 \in D
  <2>1. f[Len(raw) + 1] = << >>
    <3>1. Len(raw) + 1 \in 1 .. Len(raw) + 1 /\ Len(raw) + 1 > Len(raw)
      BY <1>5
    <3> QED
      BY <1>7, <3>1
  <2>2. n - 0 = n /\ n - 0 + 1 = n + 1
    BY <1>1
  <2>3. Onwards(n) = << >>
    <3>1. n - n = 0 /\ 1 .. 0 = {}
      BY <1>1
    <3>2. DOMAIN Onwards(n) = {}
      BY <3>1 DEF Onwards
    <3>3. Onwards(n) \in Seq(Tokens)
      BY <1>1, <1>10
    <3> QED
      BY <3>2, <3>3
  <2> QED
    BY <1>8, <2>1, <2>2, <2>3
<1>13. ASSUME NEW d \in Nat, d \in D
       PROVE  d + 1 \in D
  <2> SUFFICES ASSUME d + 1 <= n
               PROVE  f[start[n - (d + 1) + 1] + 1] = Onwards(n - (d + 1))
    OBVIOUS
  <2> DEFINE m == n - d
  <2>1. m \in 1 .. n /\ n - (d + 1) + 1 = m /\ n - (d + 1) = m - 1 /\ n - d + 1 = m + 1 /\ d <= n
    BY <1>1
  <2>2. f[start[m + 1] + 1] = Onwards(m)
    BY <1>13, <2>1
  <2> HIDE DEF m
  <2>3. Onwards(m) # Env!Bad
    BY <1>10, <2>1
  <2>4. f[start[m] + 1] = <<text[m]>> \o Onwards(m)
    BY <1>9, <2>1, <2>2, <2>3
  <2> QED
    BY <1>11, <2>1, <2>4
<1> HIDE DEF D
<1>14. Nat \subseteq D
  BY <1>12, <1>13, NatSetInduction
<1>15. f[1] = Onwards(0)
  <2>1. n \in D /\ n <= n /\ n - n = 0 /\ n - n + 1 = 1
    BY <1>1, <1>14
  <2>2. f[start[1] + 1] = Onwards(0)
    BY <2>1 DEF D
  <2>3. start[1] + 1 = 1
    BY <1>8
  <2> QED
    BY <2>2, <2>3
<1>16. Onwards(0) = text
  <2>1. n - 0 = n /\ \A i \in 1 .. n : 0 + i = i
    BY <1>1
  <2>2. Onwards(0) = [i \in 1 .. n |-> text[i]]
    BY <2>1 DEF Onwards
  <2> QED
    BY <2>2
<1> QED
  BY <1>3, <1>15, <1>16 DEF raw

\* A text in quotes is in quotes, and inside them it is itself.
LEMMA WrappedIsWrapped ==
  ASSUME NEW Tokens, NEW text \in Seq(Tokens), NEW quote \in Tokens
  PROVE  LET wrapped == Env!Wrapped(quote, text)
         IN  Env!IsWrapped(wrapped, quote) /\ Env!Inner(wrapped) = text
<1> DEFINE wrapped == Env!Wrapped(quote, text)
           n == Len(text)
<1>1. wrapped = (<<quote>> \o text) \o <<quote>>
  BY DEF Env!Wrapped
<1>2. n \in Nat
  OBVIOUS
<1>3. /\ <<quote>> \o text \in Seq(Tokens) /\ Len(<<quote>> \o text) = n + 1
      /\ (<<quote>> \o text)[1] = quote
      /\ \A i \in 1 .. n : (<<quote>> \o text)[i + 1] = text[i]
  OBVIOUS
<1> DEFINE s == <<quote>> \o text
<1> HIDE DEF s, n
<1>4. /\ s \o <<quote>> \in Seq(Tokens) /\ Len(s \o <<quote>>) = n + 2
      /\ (s \o <<quote>>)[1] = quote /\ (s \o <<quote>>)[n + 2] = quote
      /\ \A i \in 1 .. n : (s \o <<quote>>)[i + 1] = text[i]
  BY <1>2, <1>3 DEF s
<1>5. /\ wrapped \in Seq(Tokens) /\ Len(wrapped) = n + 2
      /\ wrapped[1] = quote /\ wrapped[n + 2] = quote
      /\ \A i \in 1 .. n : wrapped[i + 1] = text[i]
  BY <1>1, <1>4 DEF s
<1> HIDE DEF wrapped
<1>6. Env!IsWrapped(wrapped, quote)
  BY <1>2, <1>5 DEF Env!IsWrapped, Env!Last
<1>7. Env!Inner(wrapped) = text
  <2>1. (n + 2) - 1 = n + 1 /\ n + 1 - 2 + 1 = n
    BY <1>2
  <2>2. Env!Inner(wrapped) = SubSeq(wrapped, 2, n + 1)
    BY <1>5, <2>1 DEF Env!Inner
  <2>3. SubSeq(wrapped, 2, n + 1) = [i \in 1 .. n |-> wrapped[i + 1]]
    BY <1>2, <1>5, <2>1
  <2>4. text = [i \in 1 .. n |-> text[i]]
    BY DEF n
  <2> QED
    BY <1>5, <2>2, <2>3, <2>4
<1> QED
  BY <1>6, <1>7 DEF wrapped

(***************************************************************************)
(* What Coolify writes of a locked value, in either form, the decoder      *)
(* takes for that value or for none, and in the exact form for that value, *)
(* whatever tokens it holds: quotes, escapes, dollars, lines that read     *)
(* like records (domain/locked_envs.py, encode and decode).                *)
(***************************************************************************)
THEOREM WhatIsWrittenIsReadBack ==
  ASSUME NEW Tokens, {"bs", "dq", "sq", "$"} \subseteq Tokens, "bad" \notin Tokens,
         NEW value \in Seq(Tokens), value # << >>,
         NEW row, row.exact \in BOOLEAN, row.literal \in BOOLEAN
  PROVE  LET read == Env!Decode(Env!Encode(row, value), row)
         IN  read \in {Env!NoValue, value} /\ (row.exact => read = value)
<1> DEFINE raw == Env!Encode(row, value)
           candidates == IF row.exact THEN Env!ExactCandidates(raw) ELSE Env!LegacyCandidates(raw)
           exact == {v \in candidates : v \notin {Env!Bad, << >>} /\ Env!Encode(row, v) = raw}
           read == Env!Decode(raw, row)
<1>1. read = IF Cardinality(exact) = 1 THEN CHOOSE v \in exact : TRUE ELSE Env!NoValue
  BY DEF Env!Decode, Env!Cardinality, Cardinality
<1>2. value # Env!Bad
  <2>1. \A i \in DOMAIN value : value[i] \in Tokens
    OBVIOUS
  <2>2. ASSUME value = <<"bad">>
        PROVE  FALSE
    BY <2>1, <2>2
  <2> QED
    BY <2>2 DEF Env!Bad
\* Between the quotes of the exact form the escapes are undone, the dollar's or not.
<1>3. row.exact => candidates = {value}
  <2> SUFFICES ASSUME row.exact
               PROVE  Env!ExactCandidates(raw) = {value}
    OBVIOUS
  <2> DEFINE escaped == {"bs", "dq"} \cup (IF Env!AllowsInterpolation(row, value) THEN {} ELSE {"$"})
             text == Env!Escaped(value, escaped)
  <2>1. raw = Env!Wrapped("dq", text)
    BY DEF Env!Encode, Env!ExactFormat, Env!EscapeComposeEnvFileValue
  <2>2. text \in Seq(Tokens)
    <3> HIDE DEF escaped
    <3> QED
      BY EscapedIsLaidOut
  <2>3. Env!IsWrapped(raw, "dq") /\ Env!Inner(raw) = text
    <3> HIDE DEF text
    <3> QED
      BY <2>1, <2>2, WrappedIsWrapped
  <2>4. Env!Unescaped(text, {"bs", "dq", "$"}, {"dq"}) = value
    <3> DEFINE escapable == {"bs", "dq", "$"}
               forbidden == {"dq"}
    <3>1. /\ "bs" \in escaped /\ "bs" \notin forbidden
          /\ escaped \subseteq escapable /\ forbidden \subseteq escaped
      OBVIOUS
    <3> HIDE DEF escaped, escapable, forbidden
    <3>2. Env!Unescaped(Env!Escaped(value, escaped), escapable, forbidden) = value
      BY <3>1, UnescapedIsTheText
    <3> QED
      BY <3>2 DEF escapable, forbidden
  <2> HIDE DEF raw, text
  <2> QED
    BY <2>3, <2>4 DEF Env!ExactCandidates
\* The legacy form is the value as it is, in single quotes or escaped.
<1>4. ~row.exact => value \in candidates
  <2> SUFFICES ASSUME ~row.exact
               PROVE  value \in Env!LegacyCandidates(raw)
    OBVIOUS
  <2>1. raw = Env!LegacyFormat(row, value)
    BY DEF Env!Encode
  <2> HIDE DEF raw
  <2>2. CASE value # << >> /\ Head(value) = "{" /\ Env!IsJson(value)
    <3>1. raw = value
      BY <2>1, <2>2 DEF Env!LegacyFormat
    <3> QED
      BY <2>2, <3>1 DEF Env!LegacyCandidates
  <2>3. CASE ~(value # << >> /\ Head(value) = "{" /\ Env!IsJson(value)) /\ row.literal
    <3>1. raw = Env!Wrapped("sq", value)
      BY <2>1, <2>3 DEF Env!LegacyFormat
    <3>2. Env!IsWrapped(raw, "sq") /\ Env!Inner(raw) = value
      BY <3>1, WrappedIsWrapped
    <3> QED
      BY <3>2 DEF Env!LegacyCandidates
  <2>4. CASE ~(value # << >> /\ Head(value) = "{" /\ Env!IsJson(value)) /\ ~row.literal
    <3> DEFINE escaped == {"bs", "dq", "sq"}
    <3>1. raw = Env!Escaped(value, escaped)
      BY <2>1, <2>4 DEF Env!LegacyFormat
    <3>2. "bs" \in escaped /\ "bs" \notin {} /\ escaped \subseteq escaped /\ {} \subseteq escaped
      OBVIOUS
    <3>3. Env!Unescaped(raw, escaped, {}) = value
      <4> HIDE DEF escaped
      <4> QED
        BY <3>1, <3>2, UnescapedIsTheText
    <3> QED
      BY <3>3 DEF Env!LegacyCandidates
  <2> QED
    BY <2>2, <2>3, <2>4
<1>5. value \in exact
  <2> HIDE DEF candidates, raw
  <2>1. value \in candidates
    BY <1>3, <1>4
  <2> QED
    BY <1>2, <2>1 DEF raw
<1>6. ASSUME Cardinality(exact) = 1
      PROVE  read = value
  <2> DEFINE a == Env!Unescaped(raw, {"bs", "dq", "sq"}, {})
             b == Env!Unescaped(Env!Inner(raw), {"bs", "dq", "$"}, {"dq"})
             few == {a, b, Env!Inner(raw), raw}
  <2>1. exact \subseteq few
    <3>1. candidates \subseteq few
      <4> HIDE DEF raw
      <4> QED
        BY DEF Env!ExactCandidates, Env!LegacyCandidates
    <3> QED
      BY <3>1
  <2>2. IsFiniteSet(few)
    <3>1. few = (({a} \cup {b}) \cup {Env!Inner(raw)}) \cup {raw}
      OBVIOUS
    <3> HIDE DEF a, b, few, raw
    <3> QED
      BY <3>1, FS_Singleton, FS_AddElement
  <2> HIDE DEF exact, read, few
  <2>3. IsFiniteSet(exact)
    BY <2>1, <2>2, FS_Subset
  <2>4. PICK x : exact = {x}
    BY <1>6, <2>3, FS_Singleton
  <2> QED
    BY <1>1, <1>5, <1>6, <2>4
<1>7. row.exact => Cardinality(exact) = 1
  <2> SUFFICES ASSUME row.exact
               PROVE  Cardinality(exact) = 1
    OBVIOUS
  <2>1. exact = {value}
    <3> HIDE DEF candidates, raw
    <3>1. exact \subseteq candidates
      OBVIOUS
    <3> HIDE DEF exact
    <3> QED
      BY <1>3, <1>5, <3>1
  <2> HIDE DEF exact
  <2> QED
    BY <2>1, FS_Singleton
<1> HIDE DEF exact
<1> QED
  BY <1>1, <1>6, <1>7

-----------------------------------------------------------------------------
(***************************************************************************)
(* The file of a resource: the parser walks it line by line, and a locked  *)
(* value is read back from its own line or not at all.                     *)
(***************************************************************************)
-----------------------------------------------------------------------------
(***************************************************************************)
(* Where the parser of the .env file finds the records' ends.              *)
(***************************************************************************)
LEMMA EnvMin ==
  ASSUME NEW S \in SUBSET Nat, S # {}
  PROVE  Env!Min(S) \in S /\ \A y \in S : Env!Min(S) <= y
BY LeastOf DEF Env!Min

LEMMA LineEndIs ==
  ASSUME NEW text, Len(text) \in Nat, NEW pos \in 1 .. Len(text) + 1
  PROVE  /\ Env!LineEnd(text, pos) \in pos .. Len(text) + 1
         /\ Env!LineEnd(text, pos) # Len(text) + 1 => text[Env!LineEnd(text, pos)] = "nl"
         /\ \A i \in pos .. Len(text) : text[i] = "nl" => Env!LineEnd(text, pos) <= i
<1> DEFINE S == {i \in pos .. Len(text) : text[i] = "nl"}
<1>1. Env!LineEnd(text, pos) = IF S = {} THEN Len(text) + 1 ELSE Env!Min(S)
  BY DEF Env!LineEnd, Env!FirstOr
<1>2. S # {} => Env!Min(S) \in S /\ \A y \in S : Env!Min(S) <= y
  <2>1. S \in SUBSET Nat
    OBVIOUS
  <2> HIDE DEF S
  <2> QED
    BY <2>1, EnvMin
<1> QED
  BY <1>1, <1>2

LEMMA SingleQuoteIs ==
  ASSUME NEW text, Len(text) \in Nat, NEW pos \in 1 .. Len(text) + 1,
         NEW close, close = Env!ClosingSingleQuote(text, pos)
  PROVE  /\ close # 0 => /\ close \in pos .. Len(text) /\ text[close] = "sq"
                         /\ (close = Len(text) \/ text[close + 1] = "nl")
         /\ \A i \in pos .. Len(text) :
              text[i] = "sq" /\ (i = Len(text) \/ text[i + 1] = "nl") => close # 0 /\ close <= i
<1> DEFINE S == {i \in pos .. Len(text) : text[i] = "sq" /\ (i = Len(text) \/ text[i + 1] = "nl")}
<1>1. close = IF S = {} THEN 0 ELSE Env!Min(S)
  BY DEF Env!ClosingSingleQuote, Env!FirstOr
<1>2. S # {} => Env!Min(S) \in S /\ \A y \in S : Env!Min(S) <= y
  <2>1. S \in SUBSET Nat
    OBVIOUS
  <2> HIDE DEF S
  <2> QED
    BY <2>1, EnvMin
<1>3. CASE S = {}
  BY <1>1, <1>3
<1>4. CASE S # {}
  <2>1. close \in S /\ \A y \in S : close <= y
    <3>1. close = Env!Min(S)
      BY <1>1, <1>4
    <3> HIDE DEF S
    <3> QED
      BY <1>2, <1>4, <3>1
  <2>2. /\ close \in pos .. Len(text) /\ text[close] = "sq" /\ close # 0
        /\ (close = Len(text) \/ text[close + 1] = "nl")
    BY <2>1
  <2>3. ASSUME NEW i \in pos .. Len(text), text[i] = "sq", i = Len(text) \/ text[i + 1] = "nl"
        PROVE  close <= i
    BY <2>1, <2>3
  <2> HIDE DEF S
  <2> QED
    BY <2>2, <2>3
<1> QED
  BY <1>3, <1>4

\* What holds of a place when it holds of all after it, holds of each.
LEMMA BackInduction ==
  ASSUME NEW last \in Nat, NEW lo \in Nat, NEW S,
         \A i \in lo .. last : (\A j \in i + 1 .. last : j \in S) => i \in S
  PROVE  lo .. last \subseteq S
<1> DEFINE T == {d \in Nat : d <= last - lo /\ last - d \notin S}
<1> SUFFICES ASSUME NEW i \in lo .. last, i \notin S
             PROVE  FALSE
  OBVIOUS
<1>1. last - i \in T
  <2>1. last - i \in Nat /\ last - i <= last - lo /\ last - (last - i) = i
    OBVIOUS
  <2> QED
    BY <2>1
<1>2. PICK d \in T : \A e \in T : d <= e
  <2>1. T \in SUBSET Nat /\ T # {}
    BY <1>1
  <2> HIDE DEF T
  <2> QED
    BY <2>1, LeastOf
<1>3. d \in Nat /\ d <= last - lo /\ last - d \in lo .. last /\ last - d \notin S
  BY <1>2
<1>4. ASSUME NEW j \in (last - d) + 1 .. last
      PROVE  j \in S
  <2>1. last - j \in Nat /\ last - j < d /\ last - j <= last - lo /\ last - (last - j) = j
    BY <1>3
  <2>2. last - j \notin T
    BY <1>2, <1>3, <2>1
  <2> QED
    BY <2>1, <2>2
<1> QED
  BY <1>3, <1>4

(***************************************************************************)
(* A function defined from the back: its value at a place follows from the *)
(* one at a later place.  There is one.                                    *)
(***************************************************************************)
FromBack(f, lo, n, base, next, step) ==
  \A i \in lo .. n + 2 : f[i] = IF i > n THEN base ELSE step[<<i, f[next[i]]>>]

LEMMA FromTheBack ==
  ASSUME NEW n \in Nat, NEW lo \in 1 .. n + 2, NEW V, NEW base \in V,
         NEW next \in [lo .. n -> Nat], \A i \in lo .. n : next[i] \in i + 1 .. n + 2,
         NEW step \in [(lo .. n) \X V -> V]
  PROVE  \E f \in [lo .. n + 2 -> V] : FromBack(f, lo, n, base, next, step)
<1> DEFINE D == {d \in Nat : d <= n + 2 - lo =>
                   \E f \in [n + 2 - d .. n + 2 -> V] : FromBack(f, n + 2 - d, n, base, next, step)}
<1>1. 0 \in D
  <2> DEFINE f == [i \in n + 2 - 0 .. n + 2 |-> base]
  <2>1. FromBack(f, n + 2 - 0, n, base, next, step)
    BY DEF FromBack
  <2>2. f \in [n + 2 - 0 .. n + 2 -> V]
    OBVIOUS
  <2> HIDE DEF f
  <2> QED
    BY <2>1, <2>2
<1>2. ASSUME NEW d \in Nat, d \in D
      PROVE  d + 1 \in D
  <2> SUFFICES ASSUME d + 1 <= n + 2 - lo
               PROVE  \E g \in [n + 2 - (d + 1) .. n + 2 -> V] :
                        FromBack(g, n + 2 - (d + 1), n, base, next, step)
    OBVIOUS
  <2> DEFINE at == n + 2 - (d + 1)
  <2>1. at \in lo .. n + 1 /\ at \in Nat /\ n + 2 - d = at + 1 /\ d <= n + 2 - lo
    OBVIOUS
  <2>2. PICK f \in [at + 1 .. n + 2 -> V] : FromBack(f, at + 1, n, base, next, step)
    BY <1>2, <2>1
  <2> HIDE DEF at
  <2> DEFINE here == IF at > n THEN base ELSE step[<<at, f[next[at]]>>]
             g == [i \in at .. n + 2 |-> IF i = at THEN here ELSE f[i]]
  <2>3. here \in V
    <3>1. CASE at > n
      BY <3>1
    <3>2. CASE at <= n
      <4>1. next[at] \in at + 1 .. n + 2 /\ at \in lo .. n
        BY <2>1, <3>2
      <4>2. f[next[at]] \in V
        BY <2>2, <4>1
      <4> QED
        BY <2>1, <3>2, <4>1, <4>2
    <3> QED
      BY <2>1, <3>1, <3>2
  <2> HIDE DEF here
  <2>4. g \in [at .. n + 2 -> V]
    <3>1. \A i \in at .. n + 2 : i # at => i \in at + 1 .. n + 2
      BY <2>1
    <3> QED
      BY <2>2, <2>3, <3>1
  <2>5. \A i \in at + 1 .. n + 2 : g[i] = f[i] /\ g[at] = here
    BY <2>1
  <2>6. g[at] = here
    BY <2>1
  <2> HIDE DEF g
  <2>7. ASSUME NEW i \in at .. n + 2
        PROVE  g[i] = IF i > n THEN base ELSE step[<<i, g[next[i]]>>]
    <3>1. CASE i > n
      <4>1. CASE i = at
        BY <2>6, <3>1, <4>1 DEF here
      <4>2. CASE i # at
        <5>1. i \in at + 1 .. n + 2
          BY <2>1, <4>2
        <5> QED
          BY <2>2, <2>5, <3>1, <5>1 DEF FromBack
      <4> QED
        BY <4>1, <4>2
    <3>2. CASE i <= n
      <4>1. i \in lo .. n /\ next[i] \in at + 1 .. n + 2 /\ ~(i > n)
        <5>1. i \in lo .. n /\ ~(i > n)
          BY <2>1, <3>2
        <5>2. next[i] \in i + 1 .. n + 2
          BY <5>1
        <5> QED
          BY <2>1, <5>1, <5>2
      <4>2. g[next[i]] = f[next[i]]
        BY <2>5, <4>1
      <4>3. CASE i = at
        BY <2>6, <4>1, <4>2, <4>3 DEF here
      <4>4. CASE i # at
        <5>1. i \in at + 1 .. n + 2
          BY <2>1, <4>4
        <5>2. f[i] = step[<<i, f[next[i]]>>]
          BY <2>2, <4>1, <5>1 DEF FromBack
        <5> QED
          BY <2>5, <4>1, <4>2, <5>1, <5>2
      <4> QED
        BY <4>3, <4>4
    <3> QED
      BY <2>1, <3>1, <3>2
  <2>8. FromBack(g, at, n, base, next, step)
    BY <2>7 DEF FromBack
  <2> QED
    BY <2>4, <2>8 DEF at
<1> HIDE DEF D
<1>3. Nat \subseteq D
  BY <1>1, <1>2, NatSetInduction
<1>4. n + 2 - lo \in D /\ (n + 2) - (n + 2 - lo) = lo /\ n + 2 - lo <= n + 2 - lo
  BY <1>3
<1> QED
  BY <1>4 DEF D

(***************************************************************************)
(* The closing double quote, by where it is looked for from.               *)
(***************************************************************************)
ClosesAt(f, text, lo) ==
  \A i \in lo .. Len(text) + 2 :
    f[i] = IF i > Len(text) THEN 0
           ELSE IF text[i] = "dq" THEN i
           ELSE f[i + IF text[i] = "bs" THEN 2 ELSE 1]

LEMMA DoubleQuoteIs ==
  ASSUME NEW text, Len(text) \in Nat, NEW lo \in 1 .. Len(text) + 1
  PROVE  \E f : ClosesAt(f, text, lo) /\ Env!ClosingDoubleQuote(text, lo) = f[lo]
<1> DEFINE n == Len(text)
           V == 0 .. n
           next == [i \in lo .. n |-> i + IF text[i] = "bs" THEN 2 ELSE 1]
           step == [p \in (lo .. n) \X V |-> IF text[p[1]] = "dq" THEN p[1] ELSE p[2]]
           At(f, i) == IF i > n THEN 0
                       ELSE IF text[i] = "dq" THEN i
                       ELSE f[i + IF text[i] = "bs" THEN 2 ELSE 1]
           from == CHOOSE f : f = [i \in lo .. n + 2 |-> At(f, i)]
<1>1. n \in Nat /\ lo \in 1 .. n + 2 /\ 0 \in V
  OBVIOUS
<1>2. next \in [lo .. n -> Nat] /\ \A i \in lo .. n : next[i] \in i + 1 .. n + 2
  BY <1>1
<1>3. step \in [(lo .. n) \X V -> V]
  BY <1>1
<1>4. PICK f \in [lo .. n + 2 -> V] : FromBack(f, lo, n, 0, next, step)
  <2> HIDE DEF n, V, next, step
  <2> QED
    BY <1>1, <1>2, <1>3, FromTheBack
<1>5. ASSUME NEW i \in lo .. n + 2
      PROVE  f[i] = At(f, i)
  <2>1. f[i] = IF i > n THEN 0 ELSE step[<<i, f[next[i]]>>]
    BY <1>4 DEF FromBack
  <2>2. ASSUME ~(i > n)
        PROVE  f[i] = At(f, i)
    <3>1. i \in lo .. n /\ next[i] \in i + 1 .. n + 2
      BY <1>1, <1>2, <2>2
    <3>2. f[next[i]] \in V
      <4> HIDE DEF V, next, n
      <4> QED
        BY <1>1, <1>4, <3>1
    <3>3. step[<<i, f[next[i]]>>] = IF text[i] = "dq" THEN i ELSE f[next[i]]
      <4>1. <<i, f[next[i]]>> \in (lo .. n) \X V
        BY <3>1, <3>2
      <4> HIDE DEF next
      <4> QED
        BY <4>1
    <3> QED
      BY <2>1, <2>2, <3>1, <3>3
  <2> QED
    BY <2>1, <2>2
<1>6. from = [i \in lo .. n + 2 |-> At(from, i)]
  <2>1. f = [i \in lo .. n + 2 |-> f[i]]
    BY <1>4
  <2> HIDE DEF At
  <2>2. f = [i \in lo .. n + 2 |-> At(f, i)]
    BY <1>5, <2>1
  <2> QED
    BY <2>2
<1>7. Env!ClosingDoubleQuote(text, lo) = from[lo]
  BY DEF Env!ClosingDoubleQuote
<1>8. ClosesAt(from, text, lo)
  <2> HIDE DEF from, At
  <2>1. \A i \in lo .. n + 2 : from[i] = At(from, i)
    BY <1>6
  <2> QED
    BY <2>1 DEF ClosesAt, At
<1> QED
  BY <1>7, <1>8

\* It is a double quote, and the first that no backslash can escape is not behind it.
LEMMA ClosingFacts ==
  ASSUME NEW text, Len(text) \in Nat, NEW lo \in 1 .. Len(text) + 1,
         NEW close, close = Env!ClosingDoubleQuote(text, lo)
  PROVE  /\ close # 0 => close \in lo .. Len(text) /\ text[close] = "dq"
         /\ \A k \in lo .. Len(text) :
              text[k] = "dq" /\ (k = lo \/ text[k - 1] # "bs") => close # 0 /\ close <= k
<1> DEFINE n == Len(text)
           Plain(k, i) == text[k] = "dq" /\ (k = i \/ text[k - 1] # "bs")
           Fine(c, i) == /\ c # 0 => c \in i .. n /\ text[c] = "dq"
                         /\ \A k \in i .. n : Plain(k, i) => c # 0 /\ c <= k
           S(f) == {i \in lo .. n + 2 : Fine(f[i], i)}
<1>1. PICK f : ClosesAt(f, text, lo) /\ close = f[lo]
  BY DoubleQuoteIs
<1>2. n \in Nat /\ n + 2 \in Nat /\ lo \in Nat /\ lo \in lo .. n + 2
  OBVIOUS
<1>3. ASSUME NEW i \in lo .. n + 2, \A j \in i + 1 .. n + 2 : j \in S(f)
      PROVE  Fine(f[i], i)
  <2>1. f[i] = IF i > n THEN 0 ELSE IF text[i] = "dq" THEN i
               ELSE f[i + IF text[i] = "bs" THEN 2 ELSE 1]
    BY <1>1 DEF ClosesAt
  <2>2. CASE i > n
    BY <1>2, <2>1, <2>2
  <2>3. CASE i <= n /\ text[i] = "dq"
    BY <1>2, <2>1, <2>3
  <2>4. CASE i <= n /\ text[i] # "dq" /\ text[i] = "bs"
    <3>1. f[i] = f[i + 2] /\ Fine(f[i + 2], i + 2)
      BY <1>2, <1>3, <2>1, <2>4
    <3>2. \A k \in i .. n : Plain(k, i) => k \in i + 2 .. n /\ Plain(k, i + 2)
      BY <1>2, <2>4
    <3> HIDE DEF Plain
    <3> QED
      BY <1>2, <3>1, <3>2
  <2>5. CASE i <= n /\ text[i] # "dq" /\ text[i] # "bs"
    <3>1. f[i] = f[i + 1] /\ Fine(f[i + 1], i + 1)
      BY <1>2, <1>3, <2>1, <2>5
    <3>2. \A k \in i .. n : Plain(k, i) => k \in i + 1 .. n /\ Plain(k, i + 1)
      BY <1>2, <2>5
    <3> HIDE DEF Plain
    <3> QED
      BY <1>2, <3>1, <3>2
  <2> QED
    BY <1>2, <2>2, <2>3, <2>4, <2>5
<1>4. lo .. n + 2 \subseteq S(f)
  <2> DEFINE T == S(f)
             last == n + 2
  <2>1. \A i \in lo .. last : (\A j \in i + 1 .. last : j \in T) => i \in T
    BY <1>3
  <2>2. last \in Nat /\ lo \in Nat
    BY <1>2
  <2> HIDE DEF T, last, S
  <2>3. lo .. last \subseteq T
    BY <2>1, <2>2, BackInduction
  <2> QED
    BY <2>3 DEF T, last
<1>5. Fine(f[lo], lo)
  <2> HIDE DEF Fine
  <2> QED
    BY <1>2, <1>4
<1> QED
  BY <1>1, <1>5

\* The quote after an escaped text closes it, whatever the text holds.
LEMMA EscapedCloses ==
  ASSUME NEW Tokens, "bs" \in Tokens, NEW value \in Seq(Tokens), value # << >>,
         NEW escaped, "bs" \in escaped, "dq" \in escaped,
         NEW body, body = Env!Escaped(value, escaped),
         NEW text, Len(text) \in Nat, NEW lo \in 1 .. Len(text),
         lo + Len(body) <= Len(text), text[lo + Len(body)] = "dq",
         \A i \in 1 .. Len(body) : text[lo + i - 1] = body[i]
  PROVE  Env!ClosingDoubleQuote(text, lo) = lo + Len(body)
<1> DEFINE n == Len(value)
<1>1. n \in Nat \ {0} /\ \A k \in 1 .. n : value[k] \in Tokens
  OBVIOUS
<1>2. PICK start : LaidOut(body, value, escaped, start)
  BY EscapedIsLaidOut
<1>3. Len(body) \in Nat
  <2>1. body \in Seq(Tokens)
    BY EscapedIsLaidOut
  <2> QED
    BY <2>1
<1>4. PICK f : ClosesAt(f, text, lo) /\ Env!ClosingDoubleQuote(text, lo) = f[lo]
  BY DoubleQuoteIs
<1>5. start \in [1 .. n + 1 -> Nat] /\ start[1] = 0 /\ start[n + 1] = Len(body)
  BY <1>2 DEF LaidOut
<1>6. ASSUME NEW k \in 1 .. n
      PROVE  f[lo + start[k]] = f[lo + start[k + 1]]
  <2> DEFINE token == value[k]
             p == Piece(token, escaped)
             at == lo + start[k]
  <2>1. token \in Tokens
    BY <1>1
  <2>2. start[k] \in Nat /\ start[k + 1] \in Nat
    <3> HIDE DEF n
    <3>1. k \in 1 .. n + 1 /\ k + 1 \in 1 .. n + 1
      BY <1>1
    <3> QED
      BY <1>5, <3>1
  <2>3. /\ start[k + 1] = start[k] + Len(p) /\ start[k + 1] <= Len(body)
        /\ \A i \in 1 .. Len(p) : body[start[k] + i] = p[i]
    BY <1>2 DEF LaidOut
  <2> HIDE DEF token
  <2>0. /\ Len(p) = IF token \in escaped THEN 2 ELSE 1
        /\ token \in escaped => p[1] = "bs" /\ p[2] = token
        /\ token \notin escaped => p[1] = token
    BY <2>1, PieceIsShort
  <2> HIDE DEF p
  <2>4. body[start[k] + 1] = p[1] /\ start[k] + 1 \in 1 .. Len(body)
    BY <1>3, <2>0, <2>2, <2>3
  <2>5. text[at] = p[1]
    <3>1. lo + (start[k] + 1) - 1 = at
      BY <2>2
    <3> QED
      BY <2>4, <3>1
  <2>6. at \in lo .. Len(text) + 2 /\ ~(at > Len(text))
    BY <1>3, <2>2, <2>4
  <2>7. f[at] = IF text[at] = "dq" THEN at ELSE f[at + IF text[at] = "bs" THEN 2 ELSE 1]
    BY <1>4, <2>6 DEF ClosesAt
  <2>8. text[at] # "dq" /\ (text[at] = "bs" <=> token \in escaped)
    BY <2>0, <2>5
  <2>9. at + (IF text[at] = "bs" THEN 2 ELSE 1) = lo + start[k + 1]
    BY <2>0, <2>2, <2>3, <2>8
  <2> HIDE DEF at
  <2>10. f[at] = f[lo + start[k + 1]]
    BY <2>7, <2>8, <2>9
  <2> QED
    BY <2>10 DEF at
<1> DEFINE T == {k \in Nat : k <= n => f[lo] = f[lo + start[k + 1]]}
<1>7. 0 \in T
  <2>1. lo + start[0 + 1] = lo
    BY <1>5
  <2> QED
    BY <2>1
<1>8. ASSUME NEW k \in Nat, k \in T
      PROVE  k + 1 \in T
  <2> SUFFICES ASSUME k + 1 <= n
               PROVE  f[lo] = f[lo + start[k + 1 + 1]]
    OBVIOUS
  <2>1. k + 1 \in 1 .. n /\ k <= n
    BY <1>1
  <2>2. f[lo + start[k + 1]] = f[lo + start[k + 1 + 1]]
    BY <1>6, <2>1
  <2> QED
    BY <1>8, <2>1, <2>2
<1>9. n \in T
  <2> HIDE DEF T
  <2>1. Nat \subseteq T
    BY <1>7, <1>8, NatSetInduction
  <2> QED
    BY <1>1, <2>1
<1>10. f[lo] = f[lo + Len(body)]
  <2>1. f[lo] = f[lo + start[n + 1]]
    BY <1>1, <1>9
  <2> HIDE DEF n, T
  <2> QED
    BY <1>5, <2>1
<1>11. f[lo + Len(body)] = lo + Len(body)
  <2>1. lo + Len(body) \in lo .. Len(text) + 2 /\ ~(lo + Len(body) > Len(text))
    BY <1>3
  <2> QED
    BY <1>4, <2>1 DEF ClosesAt
<1> QED
  BY <1>4, <1>10, <1>11

(***************************************************************************)
(* The record whose value begins at vstart, by the quote it begins with.   *)
(***************************************************************************)
LEMMA DoubleQuoted ==
  ASSUME NEW text, Len(text) \in Nat, NEW vstart \in 1 .. Len(text), text[vstart] = "dq", NEW key,
         NEW close, close = Env!ClosingDoubleQuote(text, vstart + 1),
         NEW v, v = Env!ValueRecord(text, key, vstart)
  PROVE  /\ v.record.key = key
         /\ close = 0 => v.record.anomaly /\ ~v.record.closed /\ v.next = Len(text) + 1
         /\ close # 0 =>
              LET tail == Env!LineEnd(text, close + 1)
              IN  /\ v.next = tail + 1
                  /\ tail # close + 1 => v.record.anomaly /\ ~v.record.closed
                  /\ tail = close + 1 =>
                       /\ v.record.closed /\ ~v.record.anomaly
                       /\ v.record.raw = SubSeq(text, vstart, close)
<1> DEFINE tail == Env!LineEnd(text, close + 1)
           one == [record |-> Env!Record(key, SubSeq(text, vstart, Len(text)), FALSE, TRUE),
                   next |-> Len(text) + 1]
           two == [record |-> Env!Record(key, SubSeq(text, vstart, tail - 1),
                                         tail = close + 1, tail # close + 1),
                   next |-> tail + 1]
<1>1. vstart <= Len(text)
  OBVIOUS
<1>2. CASE close = 0
  <2>1. v = one
    BY <1>1, <1>2 DEF Env!ValueRecord
  <2> QED
    BY <1>2, <2>1 DEF Env!Record
<1>3. CASE close # 0
  <2>1. v = two
    BY <1>1, <1>3 DEF Env!ValueRecord
  <2>2. v.record = Env!Record(key, SubSeq(text, vstart, tail - 1), tail = close + 1, tail # close + 1)
        /\ v.next = tail + 1
    <3> HIDE DEF tail
    <3> QED
      BY <2>1
  <2>3. CASE tail = close + 1
    <3>1. close \in Nat
      BY <1>1, ClosingFacts, <1>3
    <3>2. tail - 1 = close
      <4> HIDE DEF tail
      <4> QED
        BY <2>3, <3>1
    <3> DEFINE raw == SubSeq(text, vstart, tail - 1)
    <3>3. v.record = [key |-> key, raw |-> raw, closed |-> TRUE, anomaly |-> FALSE]
      <4> HIDE DEF tail, raw
      <4> QED
        BY <2>2, <2>3 DEF Env!Record, raw
    <3>4. /\ v.record.key = key /\ v.record.raw = raw /\ v.record.closed /\ ~v.record.anomaly
      <4> HIDE DEF raw
      <4> QED
        BY <3>3
    <3> HIDE DEF tail
    <3> QED
      BY <1>3, <2>2, <2>3, <3>2, <3>4 DEF tail
  <2>4. CASE tail # close + 1
    <3> DEFINE raw == SubSeq(text, vstart, tail - 1)
    <3>1. v.record = [key |-> key, raw |-> raw, closed |-> FALSE, anomaly |-> TRUE]
      <4> HIDE DEF tail, raw
      <4> QED
        BY <2>2, <2>4 DEF Env!Record, raw
    <3>2. v.record.key = key /\ ~v.record.closed /\ v.record.anomaly
      <4> HIDE DEF raw
      <4> QED
        BY <3>1
    <3> QED
      BY <1>3, <2>2, <2>4, <3>2
  <2> QED
    BY <2>3, <2>4
<1> QED
  BY <1>2, <1>3

LEMMA SingleQuoted ==
  ASSUME NEW text, Len(text) \in Nat, NEW vstart \in 1 .. Len(text), text[vstart] = "sq", NEW key,
         NEW close, close = Env!ClosingSingleQuote(text, vstart + 1), close # 0,
         NEW v, v = Env!ValueRecord(text, key, vstart)
  PROVE  /\ v.record.key = key /\ ~v.record.closed /\ ~v.record.anomaly
         /\ v.record.raw = SubSeq(text, vstart, close)
         /\ v.next = close + 2
<1>1. v = [record |-> Env!Record(key, SubSeq(text, vstart, close), FALSE, FALSE), next |-> close + 2]
  BY DEF Env!ValueRecord
<1> DEFINE raw == SubSeq(text, vstart, close)
<1>2. v = [record |-> [key |-> key, raw |-> raw, closed |-> FALSE, anomaly |-> FALSE],
           next |-> close + 2]
  BY <1>1 DEF Env!Record
<1> HIDE DEF raw
<1>3. /\ v.record.key = key /\ ~v.record.closed /\ ~v.record.anomaly
      /\ v.record.raw = raw /\ v.next = close + 2
  BY <1>2
<1> QED
  BY <1>3 DEF raw

\* One without an opening quote, or without a closing single one, ends with its line.
LEMMA Unquoted ==
  ASSUME NEW text, Len(text) \in Nat, NEW vstart \in 1 .. Len(text) + 1, NEW key,
         vstart <= Len(text) =>
           /\ text[vstart] # "dq"
           /\ text[vstart] = "sq" => Env!ClosingSingleQuote(text, vstart + 1) = 0,
         NEW v, v = Env!ValueRecord(text, key, vstart)
  PROVE  /\ v.record.key = key /\ ~v.record.closed
         /\ v.record.raw = SubSeq(text, vstart, Env!LineEnd(text, vstart) - 1)
         /\ v.next = Env!LineEnd(text, vstart) + 1
<1> DEFINE lineEnd == Env!LineEnd(text, vstart)
           raw == SubSeq(text, vstart, lineEnd - 1)
           quote == IF vstart <= Len(text) THEN text[vstart] ELSE "nl"
<1>1. v = [record |-> Env!Record(key, raw, FALSE, quote = "sq"), next |-> lineEnd + 1]
  <2>1. CASE vstart <= Len(text) /\ text[vstart] = "sq"
    BY <2>1 DEF Env!ValueRecord
  <2>2. CASE vstart <= Len(text) /\ text[vstart] # "sq"
    BY <2>2 DEF Env!ValueRecord
  <2>3. CASE ~(vstart <= Len(text))
    BY <2>3 DEF Env!ValueRecord
  <2> QED
    BY <2>1, <2>2, <2>3
<1> HIDE DEF lineEnd, raw, quote
<1>2. /\ v.record = Env!Record(key, raw, FALSE, quote = "sq")
      /\ v.next = lineEnd + 1
  BY <1>1
<1>3. v.record.key = key /\ ~v.record.closed /\ v.record.raw = raw
  BY <1>2 DEF Env!Record
<1> QED
  BY <1>2, <1>3 DEF lineEnd, raw

\* Wherever it ends, the next line begins behind it, after a newline.
LEMMA ValueEnds ==
  ASSUME NEW text, Len(text) \in Nat, NEW vstart \in 1 .. Len(text) + 1, NEW key,
         NEW v, v = Env!ValueRecord(text, key, vstart)
  PROVE  /\ v.record.key = key
         /\ v.next \in vstart + 1 .. Len(text) + 2
         /\ v.next <= Len(text) => text[v.next - 1] = "nl"
<1>1. CASE vstart <= Len(text) /\ text[vstart] = "dq"
  <2> DEFINE close == Env!ClosingDoubleQuote(text, vstart + 1)
             tail == Env!LineEnd(text, close + 1)
  <2>1. /\ v.record.key = key
        /\ close = 0 => v.next = Len(text) + 1
        /\ close # 0 => v.next = tail + 1
    BY <1>1, DoubleQuoted
  <2>2. vstart + 1 \in 1 .. Len(text) + 1
    BY <1>1
  <2>3. close # 0 => close \in vstart + 1 .. Len(text)
    BY <2>2, ClosingFacts
  <2>4. close # 0 => /\ tail \in close + 1 .. Len(text) + 1
                     /\ tail # Len(text) + 1 => text[tail] = "nl"
    <3> HIDE DEF close
    <3>1. close # 0 => close + 1 \in 1 .. Len(text) + 1
      BY <2>3
    <3> QED
      BY <3>1, LineEndIs
  <2> HIDE DEF close, tail
  <2> QED
    BY <1>1, <2>1, <2>3, <2>4
<1>2. CASE vstart <= Len(text) /\ text[vstart] = "sq" /\ Env!ClosingSingleQuote(text, vstart + 1) # 0
  <2> DEFINE close == Env!ClosingSingleQuote(text, vstart + 1)
  <2>1. v.record.key = key /\ v.next = close + 2
    BY <1>2, SingleQuoted
  <2>2. vstart + 1 \in 1 .. Len(text) + 1
    BY <1>2
  <2>3. /\ close \in vstart + 1 .. Len(text)
        /\ close = Len(text) \/ text[close + 1] = "nl"
    BY <1>2, <2>2, SingleQuoteIs
  <2> HIDE DEF close
  <2> QED
    BY <2>1, <2>3
<1>3. CASE vstart <= Len(text) => /\ text[vstart] # "dq"
                                  /\ text[vstart] = "sq" => Env!ClosingSingleQuote(text, vstart + 1) = 0
  <2> DEFINE lineEnd == Env!LineEnd(text, vstart)
  <2>1. v.record.key = key /\ v.next = lineEnd + 1
    BY <1>3, Unquoted
  <2>2. /\ lineEnd \in vstart .. Len(text) + 1
        /\ lineEnd # Len(text) + 1 => text[lineEnd] = "nl"
    BY LineEndIs
  <2> HIDE DEF lineEnd
  <2> QED
    BY <2>1, <2>2
<1> QED
  BY <1>1, <1>2, <1>3

\* The line at pos: its record is of the key it begins with, or a leftover.
LEMMA LineIs ==
  ASSUME NEW text, Len(text) \in Nat, NEW pos \in 1 .. Len(text),
         NEW line, line = Env!LineAt(text, pos)
  PROVE  /\ line.next \in pos + 1 .. Len(text) + 2
         /\ line.next <= Len(text) => text[line.next - 1] = "nl"
         /\ text[pos] \in Env!Keys /\ text[pos] # "nl" =>
              line = Env!ValueRecord(text, text[pos], pos + 1)
         /\ text[pos] \notin Env!Keys => line.record.key \notin Env!Keys
         /\ text[pos] \notin Env!Keys =>
              \/ line.next = Env!LineEnd(text, pos) + 1
              \/ \E equals \in pos + 1 .. Env!LineEnd(text, pos) - 1 :
                   text[equals] \in Env!Keys /\ line = Env!ValueRecord(text, "unknown", equals + 1)
<1> DEFINE lineEnd == Env!LineEnd(text, pos)
           S == {i \in pos .. (lineEnd - 1) : text[i] \in Env!Keys}
           equals == Env!FirstOr(S, 0)
           key == IF equals = pos THEN text[pos] ELSE "unknown"
           none == [record |-> Env!Record("none", << >>, FALSE, TRUE), next |-> lineEnd + 1]
<1>1. line = IF equals = 0 THEN none ELSE Env!ValueRecord(text, key, equals + 1)
  BY DEF Env!LineAt
<1>2. /\ lineEnd \in pos .. Len(text) + 1
      /\ lineEnd # Len(text) + 1 => text[lineEnd] = "nl"
      /\ \A i \in pos .. Len(text) : text[i] = "nl" => lineEnd <= i
  BY LineEndIs
<1>3. /\ S = {} => equals = 0
      /\ S # {} => equals \in S /\ \A y \in S : equals <= y
  <2>1. S \in SUBSET Nat
    <3> HIDE DEF lineEnd
    <3> QED
      BY <1>2
  <2> HIDE DEF S
  <2> QED
    BY <2>1, EnvMin DEF Env!FirstOr
<1>4. "none" \notin Env!Keys /\ "unknown" \notin Env!Keys
  BY DEF Env!Keys
<1> HIDE DEF equals, lineEnd
<1>5. CASE S = {}
  <2>1. line = none
    BY <1>1, <1>3, <1>5
  <2>2. line.next = lineEnd + 1 /\ line.record.key = "none" /\ line.record.anomaly
    BY <2>1 DEF Env!Record
  <2>3. ~(text[pos] \in Env!Keys /\ text[pos] # "nl")
    <3>1. pos \notin S
      BY <1>5
    <3>2. text[pos] # "nl" => pos <= lineEnd - 1
      BY <1>2
    <3> QED
      BY <3>1, <3>2
  <2> QED
    BY <1>2, <1>4, <2>2, <2>3 DEF lineEnd
<1>6. CASE S # {}
  <2>1. /\ equals \in pos .. Len(text) /\ equals <= lineEnd - 1 /\ text[equals] \in Env!Keys
        /\ \A y \in S : equals <= y
    BY <1>2, <1>3, <1>6
  <2>2. line = Env!ValueRecord(text, key, equals + 1)
    BY <1>1, <2>1
  <2>3. /\ line.record.key = key
        /\ line.next \in equals + 2 .. Len(text) + 2
        /\ line.next <= Len(text) => text[line.next - 1] = "nl"
    <3> HIDE DEF key
    <3>1. equals + 1 \in 1 .. Len(text) + 1
      BY <2>1
    <3>2. /\ line.record.key = key
          /\ line.next \in (equals + 1) + 1 .. Len(text) + 2
          /\ line.next <= Len(text) => text[line.next - 1] = "nl"
      BY <2>2, <3>1, ValueEnds
    <3> QED
      BY <2>1, <3>2
  <2>4. CASE text[pos] \in Env!Keys
    <3>1. text[pos] # "nl" => pos \in S
      BY <1>2, <2>4
    <3>2. text[pos] # "nl" => equals = pos
      BY <2>1, <3>1
    <3>3. text[pos] # "nl" => line = Env!ValueRecord(text, text[pos], pos + 1)
      BY <2>2, <3>2
    <3> QED
      BY <2>1, <2>3, <2>4, <3>3
  <2>5. CASE text[pos] \notin Env!Keys
    <3>1. equals \in pos + 1 .. Len(text) /\ equals \in pos + 1 .. lineEnd - 1 /\ key = "unknown"
      BY <1>2, <2>1, <2>5
    <3>2. \E e \in pos + 1 .. lineEnd - 1 :
            text[e] \in Env!Keys /\ line = Env!ValueRecord(text, "unknown", e + 1)
      BY <2>1, <2>2, <3>1
    <3> QED
      BY <1>4, <2>1, <2>3, <2>5, <3>1, <3>2 DEF lineEnd
  <2> QED
    BY <2>4, <2>5
<1> QED
  BY <1>5, <1>6

(***************************************************************************)
(* The parse is a walk: s lists where its lines begin.                     *)
(***************************************************************************)
Walk(text, s, pos) ==
  /\ s \in Seq(1 .. Len(text))
  /\ pos <= Len(text) => s # << >> /\ s[1] = pos
  /\ \A k \in 1 .. Len(s) :
       /\ pos <= s[k]
       /\ k < Len(s) => s[k + 1] = Env!LineAt(text, s[k]).next
       /\ k = Len(s) => Env!LineAt(text, s[k]).next > Len(text)

RecordsAt(text, s) == [k \in 1 .. Len(s) |-> Env!LineAt(text, s[k]).record]

LEMMA OneLineMore ==
  ASSUME NEW text, Len(text) \in Nat, NEW pos \in 1 .. Len(text), NEW s,
         Walk(text, s, Env!LineAt(text, pos).next)
  PROVE  /\ Walk(text, <<pos>> \o s, pos)
         /\ RecordsAt(text, <<pos>> \o s) = <<Env!LineAt(text, pos).record>> \o RecordsAt(text, s)
<1> DEFINE n == Len(text)
           next == Env!LineAt(text, pos).next
           t == <<pos>> \o s
           m == Len(s)
<1>1. n \in Nat /\ pos \in 1 .. n /\ next \in pos + 1 .. n + 2
  BY LineIs
<1>2. /\ s \in Seq(1 .. n)
      /\ next <= n => s # << >> /\ s[1] = next
      /\ \A k \in 1 .. m : /\ next <= s[k]
                           /\ k < m => s[k + 1] = Env!LineAt(text, s[k]).next
                           /\ k = m => Env!LineAt(text, s[k]).next > n
  BY DEF Walk
<1>3. m \in Nat /\ \A k \in 1 .. m : s[k] \in 1 .. n
  BY <1>2
<1>4. /\ t \in Seq(1 .. n) /\ Len(t) = m + 1 /\ t[1] = pos
      /\ \A k \in 1 .. m : t[k + 1] = s[k]
  BY <1>1, <1>2
<1>5. m = 0 => s = << >>
  BY <1>2
<1> HIDE DEF n, next, t, m
<1>6. ASSUME NEW k \in 1 .. m + 1
      PROVE  /\ pos <= t[k]
             /\ k < m + 1 => t[k + 1] = Env!LineAt(text, t[k]).next
             /\ k = m + 1 => Env!LineAt(text, t[k]).next > n
  <2>1. CASE k = 1
    <3>1. m # 0 => s[1] = next
      <4>1. m # 0 => next <= s[1] /\ s[1] \in 1 .. n
        BY <1>2, <1>3
      <4> QED
        BY <1>1, <1>2, <4>1
    <3>2. m = 0 => next > n
      BY <1>1, <1>2, <1>5
    <3>3. m # 0 => t[2] = s[1]
      <4>1. m # 0 => 1 \in 1 .. m
        BY <1>3
      <4> QED
        BY <1>4, <4>1
    <3> QED
      BY <1>1, <1>3, <1>4, <2>1, <3>1, <3>2, <3>3 DEF next
  <2>2. CASE k # 1
    <3> DEFINE j == k - 1
    <3>1. j \in 1 .. m /\ k = j + 1
      BY <1>3, <2>2
    <3> HIDE DEF j
    <3>2. t[k] = s[j] /\ next <= s[j] /\ s[j] \in 1 .. n
      BY <1>2, <1>3, <1>4, <3>1
    <3>3. k < m + 1 => t[k + 1] = s[j + 1]
      <4>1. k < m + 1 => j + 1 \in 1 .. m
        BY <1>3, <3>1
      <4> QED
        BY <1>4, <3>1, <4>1
    <3>4. /\ k < m + 1 => s[j + 1] = Env!LineAt(text, s[j]).next
          /\ k = m + 1 => Env!LineAt(text, s[j]).next > n
      BY <1>2, <1>3, <3>1
    <3> QED
      BY <1>1, <3>2, <3>3, <3>4
  <2> QED
    BY <2>1, <2>2
<1>7. t # << >>
  BY <1>3, <1>4
<1>8. Walk(text, t, pos)
  BY <1>3, <1>4, <1>6, <1>7 DEF Walk, n
<1>9. RecordsAt(text, t) = <<Env!LineAt(text, pos).record>> \o RecordsAt(text, s)
  <2> DEFINE rest == RecordsAt(text, s)
             first == Env!LineAt(text, pos).record
             R == {first} \cup {Env!LineAt(text, s[k]).record : k \in 1 .. m}
             all == RecordsAt(text, t)
  <2>1. rest = [k \in 1 .. m |-> Env!LineAt(text, s[k]).record]
    BY DEF RecordsAt, m
  <2>2. rest \in Seq(R) /\ Len(rest) = m /\ \A k \in 1 .. m : rest[k] = Env!LineAt(text, s[k]).record
    <3> HIDE DEF rest
    <3>1. rest \in [1 .. m -> R]
      BY <2>1
    <3> HIDE DEF R
    <3> QED
      BY <1>3, <2>1, <3>1
  <2>3. first \in R
    OBVIOUS
  <2> HIDE DEF rest, R, first
  <2>4. /\ <<first>> \o rest \in Seq(R) /\ Len(<<first>> \o rest) = m + 1
        /\ (<<first>> \o rest)[1] = first
        /\ \A k \in 1 .. m : (<<first>> \o rest)[k + 1] = rest[k]
    BY <1>3, <2>2, <2>3
  <2>5. all = [k \in 1 .. m + 1 |-> Env!LineAt(text, t[k]).record]
    BY <1>4 DEF RecordsAt
  <2>6. ASSUME NEW k \in 1 .. m + 1
        PROVE  Env!LineAt(text, t[k]).record = (<<first>> \o rest)[k]
    <3>1. CASE k = 1
      BY <1>4, <2>4, <3>1 DEF first
    <3>2. CASE k # 1
      <4> DEFINE j == k - 1
      <4>1. j \in 1 .. m /\ k = j + 1
        BY <1>3, <3>2
      <4> HIDE DEF j
      <4> QED
        BY <1>4, <2>2, <2>4, <4>1
    <3> QED
      BY <3>1, <3>2
  <2>7. <<first>> \o rest = [k \in 1 .. m + 1 |-> (<<first>> \o rest)[k]]
    BY <2>4
  <2> HIDE DEF all
  <2>8. all = <<first>> \o rest
    BY <2>5, <2>6, <2>7
  <2> QED
    BY <2>8 DEF all, first, rest
<1> QED
  BY <1>8, <1>9 DEF t

LEMMA ParseWalks ==
  ASSUME NEW text, Len(text) \in Nat
  PROVE  \E s : Walk(text, s, 1) /\ Env!ParseDotenv(text) = RecordsAt(text, s)
<1> DEFINE n == Len(text)
           R == {Env!LineAt(text, p).record : p \in 1 .. n}
           V == Seq(R)
           next == [p \in 1 .. n |-> Env!LineAt(text, p).next]
           step == [p \in (1 .. n) \X V |-> <<Env!LineAt(text, p[1]).record>> \o p[2]]
           At(f, p) == IF p > n THEN << >>
                       ELSE LET line == Env!LineAt(text, p) IN <<line.record>> \o f[line.next]
           from == CHOOSE f : f = [p \in 1 .. n + 2 |-> At(f, p)]
<1>1. n \in Nat /\ 1 \in 1 .. n + 2 /\ 1 \in Nat /\ n + 2 \in Nat /\ << >> \in V
  OBVIOUS
<1>2. \A p \in 1 .. n : Env!LineAt(text, p).next \in p + 1 .. n + 2
  BY LineIs
<1>3. next \in [1 .. n -> Nat] /\ \A i \in 1 .. n : next[i] \in i + 1 .. n + 2
  BY <1>1, <1>2
<1>4. step \in [(1 .. n) \X V -> V]
  <2>1. ASSUME NEW p \in (1 .. n) \X V
        PROVE  <<Env!LineAt(text, p[1]).record>> \o p[2] \in V
    <3>1. p[1] \in 1 .. n /\ p[2] \in V
      OBVIOUS
    <3> DEFINE first == Env!LineAt(text, p[1]).record
    <3>2. first \in R
      BY <3>1
    <3> HIDE DEF first, R
    <3> QED
      BY <3>1, <3>2 DEF first
  <2> HIDE DEF V, n
  <2> QED
    BY <2>1
<1>5. PICK f \in [1 .. n + 2 -> V] : FromBack(f, 1, n, << >>, next, step)
  <2> HIDE DEF n, V, next, step
  <2> QED
    BY <1>1, <1>3, <1>4, FromTheBack
<1>6. ASSUME NEW p \in 1 .. n + 2
      PROVE  f[p] = At(f, p)
  <2>1. f[p] = IF p > n THEN << >> ELSE step[<<p, f[next[p]]>>]
    BY <1>5 DEF FromBack
  <2>2. ASSUME ~(p > n)
        PROVE  f[p] = At(f, p)
    <3>1. p \in 1 .. n /\ next[p] \in 1 .. n + 2 /\ next[p] = Env!LineAt(text, p).next
      <4>1. p \in 1 .. n
        BY <1>1, <2>2
      <4>2. next[p] \in p + 1 .. n + 2
        BY <1>3, <4>1
      <4> QED
        BY <4>1, <4>2
    <3>2. f[next[p]] \in V
      <4> HIDE DEF V, next, n
      <4> QED
        BY <1>5, <3>1
    <3>3. <<p, f[next[p]]>> \in (1 .. n) \X V
      BY <3>1, <3>2
    <3>4. step[<<p, f[next[p]]>>] = <<Env!LineAt(text, p).record>> \o f[next[p]]
      <4> HIDE DEF V, n, next
      <4> QED
        BY <3>3
    <3> HIDE DEF step, next
    <3> QED
      BY <2>1, <2>2, <3>1, <3>4
  <2> QED
    BY <2>1, <2>2
<1>7. from = [p \in 1 .. n + 2 |-> At(from, p)]
  <2>1. f = [p \in 1 .. n + 2 |-> f[p]]
    BY <1>5
  <2> HIDE DEF At
  <2>2. f = [p \in 1 .. n + 2 |-> At(f, p)]
    BY <1>6, <2>1
  <2> QED
    BY <2>2
<1>8. Env!ParseDotenv(text) = from[1]
  BY DEF Env!ParseDotenv
<1> HIDE DEF from, At
<1>9. \A p \in 1 .. n + 2 : from[p] = At(from, p)
  BY <1>7
<1> DEFINE S == {p \in 1 .. n + 2 : \E s : Walk(text, s, p) /\ from[p] = RecordsAt(text, s)}
           last == n + 2
<1>10. ASSUME NEW p \in 1 .. last, \A j \in p + 1 .. last : j \in S
       PROVE  p \in S
  <2>1. CASE p > n
    <3>1. Walk(text, << >>, p)
      BY <1>1, <2>1 DEF Walk
    <3>2. RecordsAt(text, << >>) = << >>
      BY DEF RecordsAt
    <3>3. from[p] = << >>
      BY <1>9, <2>1 DEF At
    <3> QED
      BY <3>1, <3>2, <3>3
  <2>2. CASE p <= n
    <3> DEFINE line == Env!LineAt(text, p)
    <3>1. p \in 1 .. n /\ line.next \in p + 1 .. n + 2 /\ ~(p > n)
      BY <1>1, <1>2, <2>2
    <3>2. PICK s : Walk(text, s, line.next) /\ from[line.next] = RecordsAt(text, s)
      BY <1>10, <3>1
    <3>3. from[p] = <<line.record>> \o from[line.next]
      BY <1>9, <3>1 DEF At
    <3>4. Walk(text, <<p>> \o s, p) /\ RecordsAt(text, <<p>> \o s) = <<line.record>> \o RecordsAt(text, s)
      BY <3>1, <3>2, OneLineMore
    <3> HIDE DEF line
    <3> QED
      BY <3>2, <3>3, <3>4
  <2> QED
    BY <1>1, <2>1, <2>2
<1>11. 1 .. last \subseteq S
  <2> HIDE DEF S
  <2>1. last \in Nat /\ 1 \in Nat
    BY <1>1
  <2> HIDE DEF last
  <2> QED
    BY <1>10, <2>1, BackInduction
<1>12. 1 \in S
  BY <1>1, <1>11
<1> QED
  BY <1>8, <1>12

\* It goes forward.
LEMMA WalkAscends ==
  ASSUME NEW text, Len(text) \in Nat, NEW s, Walk(text, s, 1), NEW j \in 1 .. Len(s)
  PROVE  \A k \in 1 .. Len(s) : j < k => s[j] < s[k]
<1> DEFINE m == Len(s)
           T == {d \in Nat : j + 1 + d <= m => s[j] < s[j + 1 + d]}
<1>1. m \in Nat /\ \A k \in 1 .. m : s[k] \in 1 .. Len(text)
  BY DEF Walk
<1>2. \A k \in 1 .. m : k < m => s[k] < s[k + 1] /\ s[k] \in Nat /\ s[k + 1] \in Nat
  <2> SUFFICES ASSUME NEW k \in 1 .. m, k < m
               PROVE  s[k] < s[k + 1] /\ s[k] \in Nat /\ s[k + 1] \in Nat
    OBVIOUS
  <2>1. s[k + 1] = Env!LineAt(text, s[k]).next
    BY DEF Walk
  <2>2. s[k] \in 1 .. Len(text) /\ k + 1 \in 1 .. m
    BY <1>1
  <2>3. Env!LineAt(text, s[k]).next \in s[k] + 1 .. Len(text) + 2
    BY <2>2, LineIs
  <2> QED
    BY <1>1, <2>1, <2>2, <2>3
<1> HIDE DEF m
<1>3. 0 \in T
  BY <1>1, <1>2
<1>4. ASSUME NEW d \in Nat, d \in T
      PROVE  d + 1 \in T
  <2> SUFFICES ASSUME j + 1 + (d + 1) <= m
               PROVE  s[j] < s[j + 1 + (d + 1)]
    OBVIOUS
  <2> DEFINE k == j + 1 + d
  <2>1. k \in 1 .. m /\ k < m /\ k + 1 = j + 1 + (d + 1) /\ j \in 1 .. m
    BY <1>1 DEF m
  <2>2. s[j] < s[k] /\ s[j] \in Nat
    BY <1>1, <1>4, <2>1
  <2>3. s[k] < s[k + 1] /\ s[k] \in Nat /\ s[k + 1] \in Nat
    BY <1>2, <2>1
  <2> HIDE DEF k
  <2>4. s[j] < s[k + 1]
    BY <2>2, <2>3
  <2> QED
    BY <2>1, <2>4
<1>5. Nat \subseteq T
  <2> HIDE DEF T
  <2> QED
    BY <1>3, <1>4, NatSetInduction
<1>6. ASSUME NEW k \in 1 .. m, j < k
      PROVE  s[j] < s[k]
  <2>1. k - j - 1 \in Nat /\ j + 1 + (k - j - 1) = k /\ k <= m
    BY <1>1, <1>6 DEF m
  <2>2. k - j - 1 \in T
    BY <1>5, <2>1
  <2> QED
    BY <2>1, <2>2
<1> QED
  BY <1>6 DEF m

(***************************************************************************)
(* A line of the file stands at at, and ends before end: the newline, or   *)
(* the end of the text.                                                    *)
(***************************************************************************)
Stands(text, at, end) ==
  /\ Len(text) \in Nat /\ at \in 1 .. Len(text) /\ end \in at + 1 .. Len(text) + 1
  /\ text[at] \in Env!Keys
  /\ end = Len(text) + 1 \/ text[end] = "nl"

Loose(text, at, end) ==
  \A i \in at .. end - 2 : text[i] \in Env!Keys => text[i + 1] \notin {"dq", "sq"}

\* A line none of whose values opens a quote is left at its end, if not before.
LEMMA LooseSteps ==
  ASSUME NEW text, NEW at, NEW end, Stands(text, at, end), Loose(text, at, end),
         NEW q \in at .. end, q <= Len(text)
  PROVE  Env!LineAt(text, q).next <= end + 1
<1> DEFINE n == Len(text)
<1>1. /\ n \in Nat /\ at \in 1 .. n /\ end \in at + 1 .. n + 1 /\ q \in 1 .. n
      /\ end = n + 1 \/ text[end] = "nl"
  BY DEF Stands
<1>2. "nl" \notin Env!Keys
  BY DEF Env!Keys
<1>3. ASSUME NEW i \in q .. end
      PROVE  Env!LineEnd(text, i) <= end
  <2>1. i \in 1 .. n + 1
    BY <1>1
  <2>2. /\ Env!LineEnd(text, i) \in i .. n + 1
        /\ \A k \in i .. n : text[k] = "nl" => Env!LineEnd(text, i) <= k
    BY <1>1, <2>1, LineEndIs
  <2>3. end = n + 1 \/ end \in i .. n
    BY <1>1
  <2> QED
    BY <1>1, <2>1, <2>2, <2>3
<1>4. ASSUME NEW e \in q .. end - 1, NEW key, text[e] \in Env!Keys
      PROVE  Env!ValueRecord(text, key, e + 1).next <= end + 1
  <2>1. e + 1 \in q .. end /\ e + 1 \in 1 .. n + 1 /\ e \in at .. end - 1
    BY <1>1
  <2>2. e + 1 <= n => text[e + 1] \notin {"dq", "sq"}
    <3>1. CASE e = end - 1
      BY <1>1, <2>1, <3>1
    <3>2. CASE e # end - 1
      <4>1. e \in at .. end - 2
        BY <1>1, <2>1, <3>2
      <4> QED
        BY <1>4, <4>1 DEF Loose
    <3> QED
      BY <3>1, <3>2
  <2> DEFINE v == Env!ValueRecord(text, key, e + 1)
  <2>3. v.next = Env!LineEnd(text, e + 1) + 1
    BY <1>1, <2>1, <2>2, Unquoted
  <2>4. Env!LineEnd(text, e + 1) <= end /\ Env!LineEnd(text, e + 1) \in Nat
    BY <1>1, <1>3, <2>1, LineEndIs
  <2> HIDE DEF v
  <2>5. v.next <= end + 1
    BY <1>1, <2>3, <2>4
  <2> QED
    BY <2>5 DEF v
<1> DEFINE line == Env!LineAt(text, q)
<1>5. /\ text[q] \in Env!Keys /\ text[q] # "nl" => line = Env!ValueRecord(text, text[q], q + 1)
      /\ text[q] \notin Env!Keys =>
           \/ line.next = Env!LineEnd(text, q) + 1
           \/ \E e \in q + 1 .. Env!LineEnd(text, q) - 1 :
                text[e] \in Env!Keys /\ line = Env!ValueRecord(text, "unknown", e + 1)
  BY <1>1, LineIs
<1> HIDE DEF line, n
<1>6. CASE text[q] \in Env!Keys
  <2>1. q \in q .. end - 1
    BY <1>1, <1>2, <1>6
  <2> QED
    BY <1>2, <1>4, <1>5, <1>6, <2>1 DEF line
<1>7. CASE text[q] \notin Env!Keys
  <2>1. Env!LineEnd(text, q) <= end /\ Env!LineEnd(text, q) \in Nat
    BY <1>1, <1>3, LineEndIs DEF n
  <2>2. CASE line.next = Env!LineEnd(text, q) + 1
    BY <1>1, <2>1, <2>2 DEF line
  <2>3. CASE \E e \in q + 1 .. Env!LineEnd(text, q) - 1 :
               text[e] \in Env!Keys /\ line = Env!ValueRecord(text, "unknown", e + 1)
    <3>1. PICK e \in q + 1 .. Env!LineEnd(text, q) - 1 :
               text[e] \in Env!Keys /\ line = Env!ValueRecord(text, "unknown", e + 1)
      BY <2>3
    <3>2. e \in q .. end - 1
      BY <1>1, <2>1
    <3> QED
      BY <1>4, <3>1, <3>2 DEF line
  <2> QED
    BY <1>5, <1>7, <2>2, <2>3
<1> QED
  BY <1>6, <1>7

\* Its own record ends with the first line of its value, or is the whole.
LEMMA LooseRecord ==
  ASSUME NEW text, NEW at, NEW end, Stands(text, at, end), Loose(text, at, end),
         NEW line, line = Env!LineAt(text, at)
  PROVE  /\ line.record.key = text[at] /\ ~line.record.closed
         /\ line.next = end + 1 => line.record.raw = SubSeq(text, at + 1, end - 1)
         /\ (\A i \in at + 1 .. end - 1 : text[i] # "nl") => line.next = end + 1
         /\ line.next <= end /\ text[end - 1] # "nl" => line.next <= Len(text)
<1> DEFINE n == Len(text)
           lineEnd == Env!LineEnd(text, at + 1)
<1>1. /\ n \in Nat /\ at \in 1 .. n /\ end \in at + 1 .. n + 1 /\ text[at] \in Env!Keys
      /\ end = n + 1 \/ text[end] = "nl"
  BY DEF Stands
<1>2. "nl" \notin Env!Keys
  BY DEF Env!Keys
<1>3. line = Env!ValueRecord(text, text[at], at + 1)
  BY <1>1, <1>2, LineIs
<1>4. at + 1 <= n => text[at + 1] \notin {"dq", "sq"}
  <2>1. CASE at = end - 1
    BY <1>1, <2>1
  <2>2. CASE at # end - 1
    <3>1. at \in at .. end - 2
      BY <1>1, <2>2
    <3> QED
      BY <1>1, <3>1 DEF Loose
  <2> QED
    BY <2>1, <2>2
<1>5. at + 1 \in 1 .. n + 1
  BY <1>1
<1>6. /\ line.record.key = text[at] /\ ~line.record.closed
      /\ line.record.raw = SubSeq(text, at + 1, lineEnd - 1)
      /\ line.next = lineEnd + 1
  BY <1>1, <1>3, <1>4, <1>5, Unquoted
<1>7. /\ lineEnd \in at + 1 .. n + 1
      /\ lineEnd # n + 1 => text[lineEnd] = "nl"
      /\ \A i \in at + 1 .. n : text[i] = "nl" => lineEnd <= i
  BY <1>1, <1>5, LineEndIs
<1> HIDE DEF lineEnd, n
<1>8. line.next = end + 1 => line.record.raw = SubSeq(text, at + 1, end - 1)
  <2>1. line.next = end + 1 => lineEnd = end
    BY <1>1, <1>6, <1>7
  <2> QED
    BY <1>6, <2>1
<1>9. ASSUME \A i \in at + 1 .. end - 1 : text[i] # "nl"
      PROVE  line.next = end + 1
  <2>1. lineEnd <= end
    <3>1. end = n + 1 \/ end \in at + 1 .. n
      BY <1>1
    <3> QED
      BY <1>1, <1>7, <3>1
  <2>2. lineEnd >= end
    <3> SUFFICES ASSUME lineEnd < end
                 PROVE  FALSE
      BY <1>1, <1>7
    <3>1. lineEnd \in at + 1 .. end - 1 /\ lineEnd # n + 1
      BY <1>1, <1>7
    <3> QED
      BY <1>7, <1>9, <3>1
  <2> QED
    BY <1>1, <1>6, <1>7, <2>1, <2>2
<1>10. ASSUME line.next <= end, text[end - 1] # "nl"
       PROVE  line.next <= n
  <2>1. lineEnd + 1 <= end
    BY <1>6, <1>10
  <2>2. text[lineEnd] = "nl"
    BY <1>1, <1>7, <2>1
  <2>3. lineEnd # end - 1
    BY <1>10, <2>2
  <2> QED
    BY <1>1, <1>6, <1>7, <2>1, <2>3
<1> QED
  BY <1>6, <1>8, <1>9, <1>10 DEF n

\* A line whose value is in double quotes that close at its end is one record.
LEMMA DoubleRecord ==
  ASSUME NEW text, NEW at, NEW end, Stands(text, at, end), at + 2 <= end, text[at + 1] = "dq",
         Env!ClosingDoubleQuote(text, at + 2) = end - 1,
         NEW line, line = Env!LineAt(text, at)
  PROVE  /\ line.record.key = text[at] /\ line.record.closed /\ ~line.record.anomaly
         /\ line.record.raw = SubSeq(text, at + 1, end - 1)
         /\ line.next = end + 1
<1> DEFINE n == Len(text)
           close == Env!ClosingDoubleQuote(text, at + 2)
           tail == Env!LineEnd(text, close + 1)
<1>1. /\ n \in Nat /\ at \in 1 .. n /\ end \in at + 1 .. n + 1 /\ text[at] \in Env!Keys
      /\ end = n + 1 \/ text[end] = "nl"
  BY DEF Stands
<1>2. "nl" \notin Env!Keys
  BY DEF Env!Keys
<1>3. line = Env!ValueRecord(text, text[at], at + 1)
  BY <1>1, <1>2, LineIs
<1>4. at + 1 \in 1 .. n /\ (at + 1) + 1 = at + 2
  BY <1>1
<1>5. close # 0
  BY <1>1
<1>6. /\ line.record.key = text[at]
      /\ line.next = tail + 1
      /\ tail = close + 1 =>
           /\ line.record.closed /\ ~line.record.anomaly
           /\ line.record.raw = SubSeq(text, at + 1, close)
  <2> DEFINE vstart == at + 1
  <2>1. close = Env!ClosingDoubleQuote(text, vstart + 1)
    BY <1>4
  <2>2. vstart \in 1 .. Len(text) /\ text[vstart] = "dq" /\ line = Env!ValueRecord(text, text[at], vstart)
    BY <1>3, <1>4
  <2>3. Len(text) \in Nat
    BY <1>1
  <2> HIDE DEF vstart, close, n
  <2> QED
    BY <1>5, <2>1, <2>2, <2>3, DoubleQuoted DEF vstart
<1>7. close = end - 1 /\ close + 1 = end
  BY <1>1
<1>8. tail = end
  <2> HIDE DEF close
  <2>1. /\ Env!LineEnd(text, end) \in end .. n + 1
        /\ \A i \in end .. n : text[i] = "nl" => Env!LineEnd(text, end) <= i
    <3>1. end \in 1 .. n + 1
      BY <1>1
    <3> QED
      BY <1>1, <3>1, LineEndIs
  <2>2. Env!LineEnd(text, end) = end
    BY <1>1, <2>1
  <2> QED
    BY <1>7, <2>2
<1> HIDE DEF tail, close
<1> QED
  BY <1>6, <1>7, <1>8

\* The same of single quotes: the first that ends a line.
LEMMA SingleRecord ==
  ASSUME NEW text, NEW at, NEW end, Stands(text, at, end), at + 3 <= end, text[at + 1] = "sq",
         text[end - 1] = "sq",
         NEW line, line = Env!LineAt(text, at)
  PROVE  /\ line.record.key = text[at] /\ ~line.record.closed
         /\ line.next <= end + 1
         /\ line.next = end + 1 => line.record.raw = SubSeq(text, at + 1, end - 1)
         /\ (\A i \in at + 2 .. end - 2 : text[i] # "sq") => line.next = end + 1
         /\ line.next <= end => line.next <= Len(text)
<1> DEFINE n == Len(text)
           close == Env!ClosingSingleQuote(text, at + 2)
<1>1. /\ n \in Nat /\ at \in 1 .. n /\ end \in at + 1 .. n + 1 /\ text[at] \in Env!Keys
      /\ end = n + 1 \/ text[end] = "nl"
  BY DEF Stands
<1>2. "nl" \notin Env!Keys
  BY DEF Env!Keys
<1>3. line = Env!ValueRecord(text, text[at], at + 1)
  BY <1>1, <1>2, LineIs
<1>4. at + 1 \in 1 .. n /\ (at + 1) + 1 = at + 2 /\ at + 2 \in 1 .. n + 1 /\ end - 1 \in at + 2 .. n
      /\ (end - 1 = n \/ text[(end - 1) + 1] = "nl")
  BY <1>1
<1>5. /\ close # 0 => /\ close \in at + 2 .. n /\ text[close] = "sq"
                      /\ (close = n \/ text[close + 1] = "nl")
      /\ \A i \in at + 2 .. n : text[i] = "sq" /\ (i = n \/ text[i + 1] = "nl") => close # 0 /\ close <= i
  BY <1>1, <1>4, SingleQuoteIs
<1>6. close # 0 /\ close <= end - 1
  <2> HIDE DEF close
  <2> QED
    BY <1>4, <1>5
<1>7. /\ line.record.key = text[at] /\ ~line.record.closed
      /\ line.record.raw = SubSeq(text, at + 1, close)
      /\ line.next = close + 2
  <2>1. /\ Len(text) \in Nat /\ at + 1 \in 1 .. Len(text) /\ text[at + 1] = "sq"
        /\ close = Env!ClosingSingleQuote(text, (at + 1) + 1) /\ close # 0
        /\ line = Env!ValueRecord(text, text[at], at + 1)
    BY <1>1, <1>3, <1>4, <1>6
  <2> HIDE DEF close
  <2> QED
    BY <2>1, SingleQuoted
<1> HIDE DEF close, n
<1>0. close \in at + 2 .. end - 1 /\ close \in Nat /\ end \in Nat
  BY <1>1, <1>5, <1>6
<1>8. line.next = end + 1 => line.record.raw = SubSeq(text, at + 1, end - 1)
  <2>1. line.next = end + 1 => close = end - 1
    BY <1>0, <1>7
  <2> QED
    BY <1>7, <2>1
<1>9. ASSUME \A i \in at + 2 .. end - 2 : text[i] # "sq"
      PROVE  line.next = end + 1
  <2>1. close \in at + 2 .. end - 1 /\ text[close] = "sq"
    BY <1>1, <1>5, <1>6
  <2>2. close \notin at + 2 .. end - 2
    BY <1>9, <2>1
  <2>3. close = end - 1
    BY <1>0, <1>1, <2>2
  <2> QED
    BY <1>0, <1>7, <2>3
<1>10. ASSUME line.next <= end
       PROVE  line.next <= n
  <2>1. close \in at + 2 .. end - 2 /\ close # n
    BY <1>1, <1>5, <1>6, <1>7, <1>10
  <2>2. text[close + 1] = "nl"
    BY <1>5, <1>6, <2>1
  <2>3. close + 1 # end - 1
    BY <1>1, <2>1, <2>2
  <2> QED
    BY <1>1, <1>7, <2>1, <2>3
<1>11. line.next <= end + 1
  BY <1>0, <1>7
<1> QED
  BY <1>11, <1>7, <1>8, <1>9, <1>10 DEF n

(***************************************************************************)
(* The lines of a file: st lists where they begin, each with a key.        *)
(***************************************************************************)
Lined(text, st, m) ==
  /\ Len(text) \in Nat /\ m \in Nat \ {0}
  /\ st \in [1 .. m + 1 -> Nat] /\ st[1] = 1 /\ st[m + 1] = Len(text) + 2
  /\ \A j \in 1 .. m : /\ st[j] + 2 <= st[j + 1]
                       /\ text[st[j]] \in Env!Keys
                       /\ j < m => text[st[j + 1] - 1] = "nl"

LEMMA LinesAscend ==
  ASSUME NEW text, NEW st, NEW m, Lined(text, st, m), NEW j \in 1 .. m + 1, NEW k \in 1 .. m + 1, j < k
  PROVE  st[j] + 2 <= st[k]
<1> DEFINE T == {d \in Nat : j + 1 + d <= m + 1 => st[j] + 2 <= st[j + 1 + d]}
<1>1. /\ m \in Nat /\ \A i \in 1 .. m + 1 : st[i] \in Nat
      /\ \A i \in 1 .. m : st[i] + 2 <= st[i + 1]
  BY DEF Lined
<1>2. 0 \in T
  BY <1>1
<1>3. ASSUME NEW d \in Nat, d \in T
      PROVE  d + 1 \in T
  <2> SUFFICES ASSUME j + 1 + (d + 1) <= m + 1
               PROVE  st[j] + 2 <= st[j + 1 + (d + 1)]
    OBVIOUS
  <2> DEFINE i == j + 1 + d
  <2>1. i \in 1 .. m /\ i + 1 = j + 1 + (d + 1) /\ i + 1 \in 1 .. m + 1 /\ i \in 1 .. m + 1
    BY <1>1
  <2>2. st[j] + 2 <= st[i]
    BY <1>1, <1>3, <2>1
  <2> HIDE DEF i
  <2>3. st[i] + 2 <= st[i + 1] /\ st[i] \in Nat /\ st[i + 1] \in Nat /\ st[j] \in Nat
    BY <1>1, <2>1
  <2>4. st[j] + 2 <= st[i + 1]
    BY <2>2, <2>3
  <2> QED
    BY <2>1, <2>4
<1>4. Nat \subseteq T
  <2> HIDE DEF T
  <2> QED
    BY <1>2, <1>3, NatSetInduction
<1>5. k - j - 1 \in Nat /\ j + 1 + (k - j - 1) = k /\ k <= m + 1
  BY <1>1
<1>6. k - j - 1 \in T
  BY <1>4, <1>5
<1> QED
  BY <1>5, <1>6

LEMMA LinesStand ==
  ASSUME NEW text, NEW st, NEW m, Lined(text, st, m), NEW j \in 1 .. m
  PROVE  /\ Stands(text, st[j], st[j + 1] - 1)
         /\ (st[j + 1] - 1) + 1 = st[j + 1] /\ st[j] \in Nat /\ st[j + 1] \in Nat
         /\ j < m => st[j + 1] <= Len(text)
<1>0. /\ Len(text) \in Nat /\ m \in Nat \ {0}
      /\ st \in [1 .. m + 1 -> Nat] /\ st[1] = 1 /\ st[m + 1] = Len(text) + 2
      /\ st[j] + 2 <= st[j + 1] /\ text[st[j]] \in Env!Keys
      /\ j < m => text[st[j + 1] - 1] = "nl"
  BY DEF Lined
<1>1. /\ j \in 1 .. m + 1 /\ j + 1 \in 1 .. m + 1
      /\ 1 \in 1 .. m + 1 /\ m + 1 \in 1 .. m + 1
      /\ st[j] \in Nat /\ st[j + 1] \in Nat
  BY <1>0
<1>2. 1 <= st[j]
  <2>1. ASSUME j # 1
        PROVE  st[1] + 2 <= st[j]
    <3>1. 1 < j
      BY <1>0, <2>1
    <3> QED
      BY <1>1, <3>1, LinesAscend
  <2> QED
    BY <1>0, <1>1, <2>1
<1>3. j < m => st[j + 1] + 2 <= Len(text) + 2
  <2>1. ASSUME j < m
        PROVE  st[j + 1] + 2 <= st[m + 1]
    <3>1. j + 1 < m + 1
      BY <1>0, <2>1
    <3> QED
      BY <1>1, <3>1, LinesAscend
  <2> QED
    BY <1>0, <1>1, <2>1
<1>4. j = m => st[j + 1] = Len(text) + 2
  BY <1>0
<1> DEFINE at == st[j]
           next == st[j + 1]
<1>5. at \in 1 .. Len(text) /\ next - 1 \in at + 1 .. Len(text) + 1 /\ (next - 1) + 1 = next
      /\ (j < m => next <= Len(text))
      /\ (next - 1 = Len(text) + 1 \/ text[next - 1] = "nl")
  <2>1. at \in Nat /\ next \in Nat /\ 1 <= at /\ at + 2 <= next /\ Len(text) \in Nat
        /\ (j < m => next + 2 <= Len(text) + 2) /\ (j = m => next = Len(text) + 2)
        /\ (j < m => text[next - 1] = "nl")
    BY <1>0, <1>1, <1>2, <1>3, <1>4
  <2>2. j < m \/ j = m
    BY <1>0
  <2> HIDE DEF at, next
  <2> QED
    BY <2>1, <2>2
<1> QED
  BY <1>0, <1>1, <1>5 DEF Stands

\* Every place of the text is in a line, or ends one.
LEMMA InALine ==
  ASSUME NEW text, NEW st, NEW m, Lined(text, st, m), NEW c \in 1 .. Len(text)
  PROVE  \E j \in 1 .. m : c \in st[j] .. st[j + 1] - 1
<1> DEFINE T == {j \in 2 .. m + 1 : c < st[j]}
<1>1. /\ Len(text) \in Nat /\ m \in Nat \ {0} /\ st[1] = 1 /\ st[m + 1] = Len(text) + 2
      /\ \A j \in 1 .. m + 1 : st[j] \in Nat
  BY DEF Lined
<1>2. T \in SUBSET Nat /\ m + 1 \in T
  BY <1>1
<1>3. PICK k \in T : \A i \in T : k <= i
  <2> HIDE DEF T
  <2> QED
    BY <1>2, LeastOf
<1>4. k \in 2 .. m + 1 /\ c < st[k]
  BY <1>3
<1> DEFINE j == k - 1
<1>5. j \in 1 .. m /\ j + 1 = k /\ j \in 1 .. m + 1 /\ (j # 1 => j \in 2 .. m + 1)
  BY <1>1, <1>4
<1>6. j \notin T
  <2>1. ~(k <= j)
    BY <1>1, <1>4
  <2> HIDE DEF j, T
  <2> QED
    BY <1>3, <2>1
<1> HIDE DEF j
<1>7. st[j] <= c
  <2>1. st[j] \in Nat /\ c \in Nat
    BY <1>1, <1>5
  <2>2. CASE j = 1
    BY <1>1, <2>2
  <2>3. CASE j # 1
    BY <1>5, <1>6, <2>1, <2>3
  <2> QED
    BY <2>2, <2>3
<1>8. c \in st[j] .. st[j + 1] - 1
  <2>1. st[j] \in Nat /\ st[j + 1] \in Nat /\ c \in Nat
    BY <1>1, <1>4, <1>5
  <2>2. c < st[j + 1]
    BY <1>4, <1>5
  <2> QED
    BY <1>7, <2>1, <2>2
<1> QED
  BY <1>5, <1>8

(***************************************************************************)
(* A walk keeps to a line that it leaves nowhere but at its end.           *)
(***************************************************************************)
RecordsWithin(text, s, at, end) ==
  \A k \in 1 .. Len(s) : s[k] \in at .. end => Env!LineAt(text, s[k]).next <= end + 1

LEMMA AtOnce ==
  ASSUME NEW text, NEW s, Walk(text, s, 1), NEW at, NEW end, Stands(text, at, end),
         NEW k \in 1 .. Len(s), s[k] = at, Env!LineAt(text, at).next = end + 1
  PROVE  /\ RecordsWithin(text, s, at, end)
         /\ \A i \in 1 .. Len(s) : s[i] \in at .. end => i = k
<1>1. /\ Len(text) \in Nat /\ at \in 1 .. Len(text) /\ end \in at + 1 .. Len(text) + 1
  BY DEF Stands
<1>2. Len(s) \in Nat /\ \A i \in 1 .. Len(s) : s[i] \in 1 .. Len(text)
  BY DEF Walk
<1>3. k < Len(s) => s[k + 1] = end + 1
  BY DEF Walk
<1>4. ASSUME NEW i \in 1 .. Len(s), s[i] \in at .. end
      PROVE  i = k
  <2>1. CASE i < k
    <3>1. s[i] < s[k]
      BY <1>1, <2>1, WalkAscends
    <3> QED
      BY <1>1, <1>2, <1>4, <3>1
  <2>2. CASE i > k
    <3>1. k + 1 \in 1 .. Len(s) /\ k < Len(s) /\ (i = k + 1 \/ k + 1 < i)
      BY <1>2, <2>2
    <3>2. k + 1 < i => s[k + 1] < s[i]
      BY <1>1, <3>1, WalkAscends
    <3> QED
      BY <1>1, <1>2, <1>3, <1>4, <3>1, <3>2
  <2> QED
    BY <1>2, <2>1, <2>2
<1> QED
  BY <1>1, <1>4 DEF RecordsWithin

LEMMA Reaches ==
  ASSUME NEW text, NEW s, Walk(text, s, 1), NEW at, NEW end, Stands(text, at, end),
         NEW k \in 1 .. Len(s), s[k] = at, RecordsWithin(text, s, at, end), end + 1 <= Len(text)
  PROVE  \E i \in 1 .. Len(s) : s[i] = end + 1
<1> DEFINE T == {i \in 1 .. Len(s) : end < s[i]}
<1>1. /\ Len(text) \in Nat /\ at \in 1 .. Len(text) /\ end \in at + 1 .. Len(text) + 1
      /\ at \in Nat /\ end \in Nat
  BY DEF Stands
<1>2. Len(s) \in Nat /\ \A i \in 1 .. Len(s) : s[i] \in 1 .. Len(text)
  BY DEF Walk
<1>3. \A i \in 1 .. Len(s) : k <= i => at <= s[i]
  <2> SUFFICES ASSUME NEW i \in 1 .. Len(s), k <= i
               PROVE  at <= s[i]
    OBVIOUS
  <2>1. k < i => s[k] < s[i]
    BY <1>1, WalkAscends
  <2> QED
    BY <1>1, <1>2, <2>1
<1>4. CASE T = {}
  <2>1. Len(s) \in 1 .. Len(s) /\ k <= Len(s)
    BY <1>2
  <2>2. s[Len(s)] \in at .. end
    <3>1. ~(end < s[Len(s)])
      BY <1>4, <2>1
    <3> QED
      BY <1>1, <1>2, <1>3, <2>1, <3>1
  <2> DEFINE next == Env!LineAt(text, s[Len(s)]).next
  <2>3. next <= end + 1 /\ next > Len(text)
    BY <2>1, <2>2 DEF RecordsWithin, Walk
  <2>4. next \in Nat
    <3>1. s[Len(s)] \in 1 .. Len(text)
      BY <1>2, <2>1
    <3>2. next \in s[Len(s)] + 1 .. Len(text) + 2
      BY <1>1, <3>1, LineIs
    <3> HIDE DEF next
    <3> QED
      BY <1>1, <3>1, <3>2
  <2> HIDE DEF next
  <2> QED
    BY <1>1, <2>3, <2>4
<1>5. CASE T # {}
  <2>1. T \in SUBSET Nat
    BY <1>2
  <2>2. PICK i \in T : \A h \in T : i <= h
    <3> HIDE DEF T
    <3> QED
      BY <1>5, <2>1, LeastOf
  <2>3. i \in 1 .. Len(s) /\ end < s[i]
    BY <2>2
  <2>4. k < i
    <3>1. i # k
      BY <1>1, <2>3
    <3>2. ~(i < k)
      <4> SUFFICES ASSUME i < k
                   PROVE  FALSE
        OBVIOUS
      <4>1. s[i] < s[k]
        BY <1>1, <2>3, WalkAscends
      <4> QED
        BY <1>1, <1>2, <2>3, <4>1
    <3> QED
      BY <1>2, <2>3, <3>1, <3>2
  <2> DEFINE h == i - 1
  <2>5. h \in 1 .. Len(s) /\ h < Len(s) /\ h + 1 = i /\ k <= h /\ ~(i <= h)
    BY <1>2, <2>3, <2>4
  <2>6. h \notin T
    <3> HIDE DEF h, T
    <3> QED
      BY <2>2, <2>5
  <2> HIDE DEF h
  <2>7. s[h] \in at .. end
    <3>1. ~(end < s[h])
      BY <2>5, <2>6
    <3> QED
      BY <1>1, <1>2, <1>3, <2>5, <3>1
  <2>8. s[i] = Env!LineAt(text, s[h]).next /\ Env!LineAt(text, s[h]).next <= end + 1
    BY <2>5, <2>7 DEF RecordsWithin, Walk
  <2>9. s[i] = end + 1
    <3> DEFINE after == s[i]
    <3>1. after \in Nat /\ end \in Nat
      BY <1>1, <1>2, <2>3
    <3>2. end < after /\ after <= end + 1
      BY <2>3, <2>8
    <3> HIDE DEF after
    <3>3. after = end + 1
      BY <3>1, <3>2
    <3> QED
      BY <3>3 DEF after
  <2> QED
    BY <2>3, <2>9
<1> QED
  BY <1>4, <1>5

\* Where it keeps to the lines before one, it comes by that one.
LEMMA ComesBy ==
  ASSUME NEW text, NEW st, NEW m, Lined(text, st, m), NEW s, Walk(text, s, 1), NEW last \in 1 .. m,
         \A j \in 1 .. m : j < last =>
           \A k \in 1 .. Len(s) : s[k] = st[j] => RecordsWithin(text, s, st[j], st[j + 1] - 1)
  PROVE  \A j \in 1 .. last : \E k \in 1 .. Len(s) : s[k] = st[j]
<1> DEFINE T == {d \in Nat : d + 1 <= last => \E k \in 1 .. Len(s) : s[k] = st[d + 1]}
<1>1. Len(text) \in Nat /\ m \in Nat \ {0} /\ st[1] = 1
  BY DEF Lined
<1>2. 0 \in T
  <2>1. 1 \in 1 .. m
    BY <1>1
  <2>2. Stands(text, st[1], st[1 + 1] - 1)
    BY <2>1, LinesStand
  <2>3. 1 <= Len(text)
    BY <1>1, <2>2 DEF Stands
  <2>4. Len(s) \in Nat /\ s # << >> /\ s[1] = 1 /\ s \in Seq(1 .. Len(text))
    BY <2>3 DEF Walk
  <2>5. 1 \in 1 .. Len(s)
    BY <2>4
  <2>6. s[1] = st[0 + 1]
    BY <1>1, <2>4
  <2> QED
    BY <2>5, <2>6
<1>3. ASSUME NEW d \in Nat, d \in T
      PROVE  d + 1 \in T
  <2> SUFFICES ASSUME d + 1 + 1 <= last
               PROVE  \E k \in 1 .. Len(s) : s[k] = st[d + 1 + 1]
    OBVIOUS
  <2> DEFINE j == d + 1
  <2>1. j \in 1 .. m /\ j < last /\ j < m /\ j + 1 = d + 1 + 1
    BY <1>1
  <2>2. PICK k \in 1 .. Len(s) : s[k] = st[j]
    BY <1>3, <2>1
  <2> HIDE DEF j
  <2>3. RecordsWithin(text, s, st[j], st[j + 1] - 1)
    BY <2>1, <2>2
  <2>4. /\ Stands(text, st[j], st[j + 1] - 1)
        /\ (st[j + 1] - 1) + 1 = st[j + 1] /\ st[j + 1] <= Len(text)
    BY <2>1, LinesStand
  <2>5. \E i \in 1 .. Len(s) : s[i] = (st[j + 1] - 1) + 1
    BY <2>2, <2>3, <2>4, Reaches
  <2> QED
    BY <2>1, <2>4, <2>5
<1>4. Nat \subseteq T
  <2> HIDE DEF T
  <2> QED
    BY <1>2, <1>3, NatSetInduction
<1>5. ASSUME NEW j \in 1 .. last
      PROVE  \E k \in 1 .. Len(s) : s[k] = st[j]
  <2>1. j - 1 \in Nat /\ (j - 1) + 1 = j /\ j <= last
    BY <1>1
  <2>2. j - 1 \in T
    BY <1>4, <2>1
  <2> QED
    BY <2>1, <2>2
<1> QED
  BY <1>5

(***************************************************************************)
(* The line of another row, or of a variable Coolify adds: nothing, a text *)
(* without quotes, or one in quotes of a kind it has none of inside.       *)
(***************************************************************************)
Tame(text, at, end) ==
  \/ \A i \in at + 1 .. end - 1 : text[i] \notin {"dq", "sq"}
  \/ /\ at + 4 <= end /\ text[at + 1] = "dq" /\ text[end - 1] = "dq" /\ text[at + 2] # "nl"
     /\ \A i \in at + 2 .. end - 2 : text[i] \notin {"dq", "bs"}
  \/ /\ at + 3 <= end /\ text[at + 1] = "sq" /\ text[end - 1] = "sq"
     /\ \A i \in at + 2 .. end - 2 : text[i] \notin {"dq", "sq"}

LEMMA QuotedCloses ==
  ASSUME NEW text, NEW at, NEW end, Stands(text, at, end),
         at + 3 <= end, text[end - 1] = "dq",
         \A i \in at + 2 .. end - 2 : text[i] \notin {"dq", "bs"}
  PROVE  Env!ClosingDoubleQuote(text, at + 2) = end - 1
<1> DEFINE close == Env!ClosingDoubleQuote(text, at + 2)
           lo == at + 2
<1>1. /\ Len(text) \in Nat /\ at \in 1 .. Len(text) /\ end \in at + 1 .. Len(text) + 1
  BY DEF Stands
<1>2. lo \in 1 .. Len(text) + 1 /\ lo \in Nat /\ end - 1 \in lo .. Len(text)
  BY <1>1
<1>3. /\ close # 0 => close \in lo .. Len(text) /\ text[close] = "dq"
      /\ \A k \in lo .. Len(text) :
           text[k] = "dq" /\ (k = lo \/ text[k - 1] # "bs") => close # 0 /\ close <= k
  <2> HIDE DEF lo
  <2>1. Env!ClosingDoubleQuote(text, lo) = close
    BY DEF lo
  <2> HIDE DEF close
  <2> QED
    BY <1>1, <1>2, <2>1, ClosingFacts
<1>4. end - 1 = lo \/ text[(end - 1) - 1] # "bs"
  <2>1. end - 1 # lo => (end - 1) - 1 \in at + 2 .. end - 2
    BY <1>1, <1>2
  <2> QED
    BY <2>1
<1> HIDE DEF close
<1>5. close # 0 /\ close <= end - 1
  BY <1>2, <1>3, <1>4
<1>6. close \in lo .. end - 1 /\ text[close] = "dq"
  BY <1>2, <1>3, <1>5
<1>7. close \notin at + 2 .. end - 2
  BY <1>6
<1>8. close = end - 1
  BY <1>1, <1>6, <1>7
<1> QED
  BY <1>8 DEF close

LEMMA TameKept ==
  ASSUME NEW text, NEW at, NEW end, Stands(text, at, end), Tame(text, at, end),
         NEW s, Walk(text, s, 1), NEW k \in 1 .. Len(s), s[k] = at
  PROVE  RecordsWithin(text, s, at, end)
<1>1. /\ Len(text) \in Nat /\ at \in 1 .. Len(text) /\ end \in at + 1 .. Len(text) + 1
      /\ at \in Nat /\ end \in Nat
  BY DEF Stands
<1>2. CASE \A i \in at + 1 .. end - 1 : text[i] \notin {"dq", "sq"}
  <2>1. Loose(text, at, end)
    <3> SUFFICES ASSUME NEW i \in at .. end - 2
                 PROVE  text[i + 1] \notin {"dq", "sq"}
      BY DEF Loose
    <3>1. i + 1 \in at + 1 .. end - 1
      BY <1>1
    <3> QED
      BY <1>2, <3>1
  <2>2. ASSUME NEW j \in 1 .. Len(s), s[j] \in at .. end
        PROVE  Env!LineAt(text, s[j]).next <= end + 1
    <3>1. s[j] <= Len(text)
      BY DEF Walk
    <3> QED
      BY <2>1, <2>2, <3>1, LooseSteps
  <2> QED
    BY <2>2 DEF RecordsWithin
<1>3. CASE /\ at + 4 <= end /\ text[at + 1] = "dq" /\ text[end - 1] = "dq"
           /\ \A i \in at + 2 .. end - 2 : text[i] \notin {"dq", "bs"}
  <2>1. at + 3 <= end /\ at + 2 <= end
    BY <1>1, <1>3
  <2>2. Env!ClosingDoubleQuote(text, at + 2) = end - 1
    BY <1>3, <2>1, QuotedCloses
  <2>3. Env!LineAt(text, at).next = end + 1
    BY <1>3, <2>1, <2>2, DoubleRecord
  <2> QED
    BY <2>3, AtOnce
<1>4. CASE /\ at + 3 <= end /\ text[at + 1] = "sq" /\ text[end - 1] = "sq"
           /\ \A i \in at + 2 .. end - 2 : text[i] \notin {"dq", "sq"}
  <2>1. \A i \in at + 2 .. end - 2 : text[i] # "sq"
    BY <1>4
  <2>2. Env!LineAt(text, at).next = end + 1
    BY <1>4, <2>1, SingleRecord
  <2> QED
    BY <2>2, AtOnce
<1> QED
  BY <1>2, <1>3, <1>4 DEF Tame

\* The first double quote of a line opens its value.
LEMMA TameOpens ==
  ASSUME NEW text, NEW at, NEW end, Stands(text, at, end), Tame(text, at, end),
         NEW c \in at .. end, c <= Len(text), text[c] = "dq"
  PROVE  /\ at + 1 <= c /\ at + 1 < Len(text) /\ text[at + 1] = "dq" /\ text[at] \in Env!Keys
         /\ text[at + 2] # "nl"
<1>1. /\ Len(text) \in Nat /\ at \in 1 .. Len(text) /\ end \in at + 1 .. Len(text) + 1
      /\ text[at] \in Env!Keys /\ (end = Len(text) + 1 \/ text[end] = "nl")
  BY DEF Stands
<1>2. "dq" \notin Env!Keys
  BY DEF Env!Keys
<1>3. c \in at + 1 .. end - 1
  <2>1. c # at /\ c # end
    BY <1>1, <1>2
  <2> QED
    BY <1>1, <2>1
<1>4. CASE \A i \in at + 1 .. end - 1 : text[i] \notin {"dq", "sq"}
  BY <1>3, <1>4
<1>5. CASE at + 4 <= end /\ text[at + 1] = "dq" /\ text[at + 2] # "nl"
  BY <1>1, <1>3, <1>5
<1>6. CASE /\ at + 3 <= end /\ text[at + 1] = "sq" /\ text[end - 1] = "sq"
           /\ \A i \in at + 2 .. end - 2 : text[i] \notin {"dq", "sq"}
  <2>1. c = at + 1 \/ c = end - 1 \/ c \in at + 2 .. end - 2
    BY <1>1, <1>3
  <2> QED
    BY <1>6, <2>1
<1> QED
  BY <1>4, <1>5, <1>6 DEF Tame

\* A line with an opening quote that is no anomaly: it ends with the closing one.
LEMMA DoubleLine ==
  ASSUME NEW text, Len(text) \in Nat, NEW q \in 1 .. Len(text), text[q] \in Env!Keys,
         NEW vstart, vstart = q + 1, vstart <= Len(text), text[vstart] = "dq",
         NEW line, line = Env!LineAt(text, q), ~line.record.anomaly,
         NEW close, close = Env!ClosingDoubleQuote(text, vstart + 1)
  PROVE  /\ close \in vstart + 1 .. Len(text) /\ text[close] = "dq" /\ line.next = close + 2
         /\ close = Len(text) \/ text[close + 1] = "nl"
         /\ \A j \in vstart + 1 .. Len(text) :
              text[j] = "dq" /\ (j = vstart + 1 \/ text[j - 1] # "bs") => close <= j
<1>1. vstart \in 1 .. Len(text) /\ vstart + 1 \in 1 .. Len(text) + 1 /\ vstart \in Nat
  OBVIOUS
<1>2. line = Env!ValueRecord(text, text[q], vstart)
  <2>1. text[q] # "nl"
    BY DEF Env!Keys
  <2> QED
    BY <2>1, LineIs
<1> DEFINE key == text[q]
           tail == Env!LineEnd(text, close + 1)
<1>3. line = Env!ValueRecord(text, key, vstart)
  BY <1>2
<1> HIDE DEF key
<1>4. /\ close = 0 => line.record.anomaly
      /\ close # 0 => line.next = tail + 1 /\ (tail # close + 1 => line.record.anomaly)
  BY <1>1, <1>3, DoubleQuoted
<1>5. close # 0 /\ tail = close + 1 /\ line.next = tail + 1
  BY <1>4
<1>6. /\ close \in vstart + 1 .. Len(text) /\ text[close] = "dq"
      /\ \A j \in vstart + 1 .. Len(text) :
           text[j] = "dq" /\ (j = vstart + 1 \/ text[j - 1] # "bs") => close <= j
  BY <1>1, <1>5, ClosingFacts
<1>7. tail \in close + 1 .. Len(text) + 1 /\ (tail # Len(text) + 1 => text[tail] = "nl")
  <2>1. close + 1 \in 1 .. Len(text) + 1
    BY <1>1, <1>6
  <2> QED
    BY <2>1, LineEndIs
<1> HIDE DEF tail
<1>8. close \in Nat
  BY <1>1, <1>6
<1> QED
  BY <1>5, <1>6, <1>7, <1>8

LEMMA SingleLine ==
  ASSUME NEW text, Len(text) \in Nat, NEW q \in 1 .. Len(text), text[q] \in Env!Keys,
         NEW vstart, vstart = q + 1, vstart <= Len(text), text[vstart] = "sq",
         NEW line, line = Env!LineAt(text, q),
         NEW last \in vstart + 1 .. Len(text), text[last] = "sq",
         last = Len(text) \/ text[last + 1] = "nl"
  PROVE  \E close \in vstart + 1 .. last : line.next = close + 2
<1>1. vstart \in 1 .. Len(text) /\ vstart + 1 \in 1 .. Len(text) + 1 /\ vstart \in Nat
  OBVIOUS
<1>2. line = Env!ValueRecord(text, text[q], vstart)
  <2>1. text[q] # "nl"
    BY DEF Env!Keys
  <2> QED
    BY <2>1, LineIs
<1> DEFINE key == text[q]
           close == Env!ClosingSingleQuote(text, vstart + 1)
<1>3. line = Env!ValueRecord(text, key, vstart)
  BY <1>2
<1> HIDE DEF key
<1>4. /\ close # 0 => close \in vstart + 1 .. Len(text)
      /\ close # 0 /\ close <= last
  BY <1>1, SingleQuoteIs
<1>5. line.next = close + 2
  BY <1>1, <1>3, <1>4, SingleQuoted
<1> HIDE DEF close
<1>6. close \in vstart + 1 .. last
  BY <1>1, <1>4
<1> QED
  BY <1>5, <1>6

(***************************************************************************)
(* A literal in single quotes, whatever its value is: where no record is   *)
(* odd, none that begins inside it goes on beyond it, be it that the last  *)
(* line of the value is no key alone.                                      *)
(***************************************************************************)
FirstQuotes(text, end) ==
  \A c \in end + 1 .. Len(text) : text[c] = "dq" =>
    \E k \in end + 2 .. c :
      /\ k < Len(text) /\ text[k] = "dq" /\ text[k - 1] \in Env!Keys /\ text[k + 1] # "nl"

Quiet(text, s) ==
  \A k \in 1 .. Len(s) : /\ ~Env!LineAt(text, s[k]).record.anomaly
                         /\ Env!LineAt(text, s[k]).record.key \in Env!Keys

LEMMA InnerEnds ==
  ASSUME NEW text, Len(text) \in Nat, NEW q \in 1 .. Len(text), text[q] \in Env!Keys,
         NEW end \in 1 .. Len(text) + 1, q + 3 <= end, text[end - 1] = "sq",
         end = Len(text) + 1 \/ text[end] = "nl",
         FirstQuotes(text, end), NEW line, line = Env!LineAt(text, q), ~line.record.anomaly
  PROVE  line.next <= end + 1
<1> DEFINE vstart == q + 1
<1>1. vstart = q + 1 /\ vstart \in 1 .. Len(text) /\ vstart <= Len(text) /\ vstart \in Nat
      /\ end \in Nat /\ vstart + 2 <= end
  OBVIOUS
<1>2. "dq" \notin Env!Keys /\ "bs" \notin Env!Keys /\ text[q] # "nl"
  BY DEF Env!Keys
<1> HIDE DEF vstart
<1>3. CASE text[vstart] = "dq"
  <2> DEFINE close == Env!ClosingDoubleQuote(text, vstart + 1)
  <2>1. /\ close \in vstart + 1 .. Len(text) /\ text[close] = "dq" /\ line.next = close + 2
        /\ close = Len(text) \/ text[close + 1] = "nl"
        /\ \A j \in vstart + 1 .. Len(text) :
             text[j] = "dq" /\ (j = vstart + 1 \/ text[j - 1] # "bs") => close <= j
    BY <1>1, <1>3, DoubleLine
  <2> HIDE DEF close
  <2>2. close \in Nat
    BY <1>1, <2>1
  <2>3. close <= end
    <3> SUFFICES ASSUME ~(close <= end)
                 PROVE  FALSE
      OBVIOUS
    <3>1. close \in end + 1 .. Len(text)
      BY <1>1, <2>1, <2>2
    <3>2. PICK j \in end + 2 .. close :
            /\ j < Len(text) /\ text[j] = "dq" /\ text[j - 1] \in Env!Keys /\ text[j + 1] # "nl"
      BY <2>1, <3>1 DEF FirstQuotes
    <3>3. j \in vstart + 1 .. Len(text) /\ text[j - 1] # "bs"
      BY <1>1, <1>2, <3>1, <3>2
    <3>4. close <= j
      BY <2>1, <3>2, <3>3
    <3>5. close = j
      BY <3>1, <3>2, <3>4
    <3> QED
      BY <2>1, <3>2, <3>5
  <2>4. close # end
    BY <1>1, <2>1
  <2>5. close # end => close + 2 <= end + 1
    BY <1>1, <2>2, <2>3
  <2> QED
    BY <2>1, <2>4, <2>5
<1>4. CASE text[vstart] = "sq"
  <2> DEFINE last == end - 1
  <2>1. last \in vstart + 1 .. Len(text) /\ text[last] = "sq"
        /\ (last = Len(text) \/ text[last + 1] = "nl")
    BY <1>1
  <2> HIDE DEF last
  <2>2. PICK close \in vstart + 1 .. last : line.next = close + 2
    BY <1>1, <1>4, <2>1, SingleLine, SMTT(60)
  <2>3. close \in Nat /\ close <= end - 1
    BY <1>1, <2>1 DEF last
  <2> QED
    BY <1>1, <2>2, <2>3
<1>5. CASE text[vstart] \notin {"dq", "sq"}
  <2> DEFINE key == text[q]
             lineEnd == Env!LineEnd(text, vstart)
  <2>1. line = Env!ValueRecord(text, key, vstart)
    BY <1>1, <1>2, LineIs
  <2> HIDE DEF key
  <2>2. line.next = lineEnd + 1
    BY <1>1, <1>5, <2>1, Unquoted
  <2>3. /\ lineEnd \in vstart .. Len(text) + 1
        /\ \A i \in vstart .. Len(text) : text[i] = "nl" => lineEnd <= i
    BY <1>1, LineEndIs
  <2> HIDE DEF lineEnd
  <2>4. lineEnd <= end
    <3>1. end = Len(text) + 1 \/ end \in vstart .. Len(text)
      BY <1>1
    <3> QED
      BY <1>1, <2>3, <3>1
  <2> QED
    BY <1>1, <2>2, <2>3, <2>4
<1> QED
  BY <1>3, <1>4, <1>5

LEMMA LiteralKept ==
  ASSUME NEW text, NEW at, NEW end, Stands(text, at, end), at + 3 <= end,
         text[at + 1] = "sq", text[end - 1] = "sq", text[end - 2] # "nl",
         ~(at + 3 <= end - 2 /\ text[end - 2] \in Env!Keys /\ text[end - 3] = "nl"),
         FirstQuotes(text, end), NEW s, Walk(text, s, 1), Quiet(text, s)
  PROVE  RecordsWithin(text, s, at, end)
<1>1. /\ Len(text) \in Nat /\ at \in 1 .. Len(text) /\ end \in at + 1 .. Len(text) + 1
      /\ text[at] \in Env!Keys /\ (end = Len(text) + 1 \/ text[end] = "nl")
      /\ at \in Nat /\ end \in Nat
  BY DEF Stands
<1>0. Len(text) \in Nat
  BY <1>1
<1>2. "nl" \notin Env!Keys /\ "dq" \notin Env!Keys /\ "sq" \notin Env!Keys /\ "bs" \notin Env!Keys
  BY DEF Env!Keys
<1>3. /\ s \in Seq(1 .. Len(text)) /\ s[1] = 1 /\ Len(s) \in Nat
      /\ \A k \in 1 .. Len(s) : k < Len(s) => s[k + 1] = Env!LineAt(text, s[k]).next
      /\ \A k \in 1 .. Len(s) : s[k] \in 1 .. Len(text)
  <2>1. /\ s \in Seq(1 .. Len(text)) /\ (1 <= Len(text) => s[1] = 1)
        /\ \A k \in 1 .. Len(s) : k < Len(s) => s[k + 1] = Env!LineAt(text, s[k]).next
    BY DEF Walk
  <2>2. s[1] = 1
    BY <1>1, <2>1 DEF Walk
  <2> QED
    BY <2>1, <2>2
<1> SUFFICES ASSUME NEW k \in 1 .. Len(s), s[k] \in at .. end
             PROVE  Env!LineAt(text, s[k]).next <= end + 1
  BY DEF RecordsWithin
<1> DEFINE q == s[k]
           line == Env!LineAt(text, q)
<1>4. q \in 1 .. Len(text) /\ q \in at .. end
  BY <1>3
<1>5. ~line.record.anomaly /\ line.record.key \in Env!Keys
  BY DEF Quiet
<1>6. CASE q = at
  <2> HIDE DEF line
  <2> QED
    BY <1>6, SingleRecord DEF line
<1>7. CASE q # at
  <2>1. text[q - 1] = "nl"
    <3> DEFINE j == k - 1
    <3>1. k # 1
      BY <1>1, <1>3, <1>4, <1>7
    <3>2. j \in 1 .. Len(s) /\ j < Len(s) /\ j + 1 = k
      BY <1>3, <3>1
    <3> HIDE DEF j
    <3>3. q = Env!LineAt(text, s[j]).next /\ s[j] \in 1 .. Len(text)
      BY <1>3, <3>2
    <3>4. Env!LineAt(text, s[j]).next <= Len(text) => text[Env!LineAt(text, s[j]).next - 1] = "nl"
      BY <1>1, <3>3, LineIs
    <3> HIDE DEF q
    <3> QED
      BY <1>4, <3>3, <3>4
  <2> HIDE DEF q
  <2>2. q \in Nat /\ at < q /\ q <= end
    BY <1>1, <1>4, <1>7
  <2>3. text[q] \in Env!Keys
    <3>1. text[q] \notin Env!Keys => line.record.key \notin Env!Keys
      BY <1>1, <1>4, LineIs
    <3> QED
      BY <1>5, <3>1
  <2>4. line = Env!ValueRecord(text, text[q], q + 1)
    BY <1>1, <1>2, <1>4, <2>3, LineIs
  <2>0. q \in 1 .. Len(text)
    BY <1>4
  <2> HIDE DEF line
  <2>5. q # at + 1 /\ q # at + 2 /\ q # end /\ q # end - 1
    <3>1. q # at + 1
      <4>1. (at + 1) - 1 = at
        BY <1>1
      <4> QED
        BY <1>1, <1>2, <2>1, <4>1
    <3>2. q # at + 2
      <4>1. (at + 2) - 1 = at + 1
        BY <1>1
      <4> QED
        BY <2>1, <4>1
    <3>3. q # end /\ q # end - 1
      <4>1. end = Len(text) + 1 \/ text[end] \notin Env!Keys
        BY <1>1, <1>2
      <4> QED
        BY <1>1, <1>2, <1>4, <2>3, <4>1
    <3> QED
      BY <3>1, <3>2, <3>3
  <2>6. q # end - 2
    <3> SUFFICES ASSUME q = end - 2
                 PROVE  FALSE
      OBVIOUS
    <3>1. q - 1 = end - 3 /\ at + 3 <= end - 2
      BY <1>1, <2>2, <2>5
    <3> QED
      BY <2>1, <2>3, <3>1
  <2>7. q + 1 \in at + 4 .. end - 2 /\ q + 1 \in 1 .. Len(text) /\ q + 2 \in 1 .. Len(text) + 1
        /\ end - 1 \in q + 2 .. Len(text) /\ (q + 1) + 1 = q + 2
    BY <1>1, <2>2, <2>5, <2>6
  <2>8. line.next <= end + 1
    <3>1. line = Env!LineAt(text, q)
      BY DEF line
    <3>2. q + 3 <= end
      BY <1>1, <2>7, <2>2
    <3> HIDE DEF line
    <3>3. /\ Len(text) \in Nat /\ q \in 1 .. Len(text) /\ text[q] \in Env!Keys
          /\ end \in 1 .. Len(text) + 1 /\ q + 3 <= end /\ text[end - 1] = "sq"
          /\ end = Len(text) + 1 \/ text[end] = "nl"
      BY <1>1, <2>0, <2>3, <3>2
    <3>4. FirstQuotes(text, end) /\ line = Env!LineAt(text, q) /\ ~line.record.anomaly
      BY <1>5, <3>1
    <3> QED
      BY ZenonT(60), <3>3, <3>4, InnerEnds
  <2> QED
    BY <2>8 DEF q, line
<1> QED
  BY <1>6, <1>7

(***************************************************************************)
(* What the file gives of a row, by the record of its key.                 *)
(***************************************************************************)
Gives(record, records, row, file) ==
  /\ ~Env!Stale(records, file.rows, file.collection)
  /\ ~Env!Repeated(records, row.key)
  /\ row.key \notin Env!OpenEnded(records, file.rows, file.collection)
  /\ ~Env!Vague(record, records, file.rows, file.collection)

LEMMA OneRecord ==
  ASSUME NEW file, NEW row, NEW records, records = Env!ParseDotenv(file.text),
         NEW k \in DOMAIN records, records[k].key = row.key
  PROVE  Env!FromFile(row, file) =
           IF Gives(records[k], records, row, file) THEN Env!Decode(records[k].raw, row)
                                                    ELSE Env!NoValue
<1> DEFINE own == Env!RecordsOf(records, row.key)
           trusted == {r \in own : ~Env!Vague(r, records, file.rows, file.collection)}
           refused == \/ Env!Stale(records, file.rows, file.collection)
                      \/ Env!Repeated(records, row.key)
                      \/ row.key \in Env!OpenEnded(records, file.rows, file.collection)
                      \/ trusted = {}
           record == records[k]
<1>1. Env!FromFile(row, file) = IF refused THEN Env!NoValue
                                ELSE Env!Decode((CHOOSE r \in trusted : TRUE).raw, row)
  BY DEF Env!FromFile
<1>2. record \in own /\ (~Env!Repeated(records, row.key) => own = {record})
  BY DEF Env!RecordsOf, Env!ToSet, Env!Repeated
<1>3. ASSUME ~Env!Repeated(records, row.key)
      PROVE  trusted = IF Env!Vague(record, records, file.rows, file.collection) THEN {} ELSE {record}
  <2>1. own = {record}
    BY <1>2, <1>3
  <2> HIDE DEF own, record
  <2> QED
    BY <2>1
<1>4. CASE Gives(record, records, row, file)
  <2>1. trusted = {record} /\ ~refused
    <3>1. trusted = {record}
      BY <1>3, <1>4 DEF Gives
    <3> HIDE DEF trusted
    <3> QED
      BY <1>4, <3>1 DEF Gives
  <2>2. (CHOOSE r \in trusted : TRUE) = record
    <3> HIDE DEF trusted, record
    <3> QED
      BY <2>1
  <2> HIDE DEF trusted, refused
  <2>3. Env!FromFile(row, file) = Env!Decode(record.raw, row)
    BY <1>1, <2>1, <2>2
  <2> QED
    BY <1>4, <2>3
<1>5. CASE ~Gives(record, records, row, file)
  <2>1. refused
    BY <1>3, <1>5 DEF Gives
  <2> HIDE DEF refused
  <2> QED
    BY <1>1, <1>5, <2>1
<1> QED
  BY <1>4, <1>5

\* The record of a line has the key the line begins with.
LEMMA LineKey ==
  ASSUME NEW text, Len(text) \in Nat, NEW pos \in 1 .. Len(text), text[pos] \in Env!Keys
  PROVE  Env!LineAt(text, pos).record.key = text[pos]
<1> DEFINE line == Env!LineAt(text, pos)
           key == text[pos]
           vstart == pos + 1
<1>1. key # "nl" /\ vstart \in 1 .. Len(text) + 1
  BY DEF Env!Keys
<1>2. line = Env!ValueRecord(text, key, vstart)
  BY <1>1, LineIs
<1> HIDE DEF line, key, vstart
<1>3. line.record.key = key
  BY <1>1, <1>2, ValueEnds
<1> QED
  BY <1>3 DEF line, key

(***************************************************************************)
(* The keys that a file has a line of for sure.                            *)
(***************************************************************************)
Sure(file) ==
  Env!WrittenForSure(file.rows, file.collection)
    \cup IF file.collection = "applications" THEN {"HOST="} ELSE {}

KnownKeys(file) == \A row \in file.rows : row.key \in Env!Keys

LEMMA QuietWhenFine ==
  ASSUME NEW text, NEW s, Walk(text, s, 1), NEW file, KnownKeys(file),
         ~Env!Anomaly(RecordsAt(text, s), file.rows, file.collection)
  PROVE  Quiet(text, s)
<1> DEFINE records == RecordsAt(text, s)
<1> SUFFICES ASSUME NEW k \in 1 .. Len(s)
             PROVE  /\ ~Env!LineAt(text, s[k]).record.anomaly
                    /\ Env!LineAt(text, s[k]).record.key \in Env!Keys
  BY DEF Quiet
<1>1. records[k] = Env!LineAt(text, s[k]).record /\ k \in DOMAIN records
  BY DEF RecordsAt
<1> HIDE DEF records
<1>2. records[k] \in Env!ToSet(records)
  BY <1>1 DEF Env!ToSet
<1>3. ~records[k].anomaly /\ records[k].key \in Env!KeysOfRows(file.rows) \cup Env!Generated(file.collection)
  BY <1>2 DEF Env!Anomaly, records
<1>4. Env!KeysOfRows(file.rows) \cup Env!Generated(file.collection) \subseteq Env!Keys
  BY DEF Env!KeysOfRows, Env!Generated, Env!Keys, KnownKeys
<1> QED
  BY <1>1, <1>3, <1>4

\* The record of a line is unquoted, and another one follows it where it ends early.
Leaves(text, line, stop) ==
  /\ ~line.record.closed
  /\ line.next <= stop
  /\ line.next < stop => line.next <= Len(text)

\* The lines other than the own one of a row end where they are laid, if the parser
\* comes to them.
OthersKept(text, s, st, m, own) ==
  \A j \in 1 .. m : j # own =>
    \A k \in 1 .. Len(s) : s[k] = st[j] => RecordsWithin(text, s, st[j], st[j + 1] - 1)

\* The parser comes to every line, where all of them are kept.
LEMMA ComesToAll ==
  ASSUME NEW text, NEW st, NEW m, Lined(text, st, m), NEW s, Walk(text, s, 1),
         OthersKept(text, s, st, m, 0)
  PROVE  \A j \in 1 .. m : \E i \in 1 .. Len(s) : s[i] = st[j]
<1> DEFINE last == m
<1>1. last \in 1 .. m
  BY DEF Lined
<1>2. \A j \in 1 .. m : j < last =>
        \A k \in 1 .. Len(s) : s[k] = st[j] => RecordsWithin(text, s, st[j], st[j + 1] - 1)
  BY DEF OthersKept
<1> HIDE DEF last
<1>3. \A j \in 1 .. last : \E k \in 1 .. Len(s) : s[k] = st[j]
  BY <1>1, <1>2, ComesBy
<1> QED
  BY <1>3 DEF last

(***************************************************************************)
(* A row whose line the parser may leave early: where it does, what comes  *)
(* next starts no record, or one that is there twice, and the row has no   *)
(* value.                                                                  *)
(***************************************************************************)
SureLines(file, text, st, m) == \A key \in Sure(file) : \E j \in 1 .. m : text[st[j]] = key

QuietKeeps(text, s, at, next) == Quiet(text, s) => RecordsWithin(text, s, at, next - 1)

ValueOrNone(row, file, line, next) ==
  \/ Env!FromFile(row, file) = Env!NoValue
  \/ line.next = next /\ Env!FromFile(row, file) = Env!Decode(line.record.raw, row)

LEMMA WholeOrNone ==
  ASSUME NEW file, NEW text, text = file.text, NEW st, NEW m, Lined(text, st, m),
         KnownKeys(file), SureLines(file, text, st, m),
         NEW s, Walk(text, s, 1), Env!ParseDotenv(text) = RecordsAt(text, s),
         NEW own \in 1 .. m, NEW row, row.key = text[st[own]],
         OthersKept(text, s, st, m, own), QuietKeeps(text, s, st[own], st[own + 1]),
         NEW line, line = Env!LineAt(text, st[own]), Leaves(text, line, st[own + 1])
  PROVE  ValueOrNone(row, file, line, st[own + 1])
<1> USE DEF SureLines, QuietKeeps, ValueOrNone
<1> DEFINE records == RecordsAt(text, s)
<1>1. /\ Len(text) \in Nat /\ m \in Nat /\ own \in 1 .. m + 1 /\ own + 1 \in 1 .. m + 1
      /\ st[own] \in 1 .. Len(text) /\ st[own + 1] \in Nat /\ text[st[own]] \in Env!Keys
  <2>1. Stands(text, st[own], st[own + 1] - 1) /\ st[own + 1] \in Nat
    BY LinesStand
  <2> QED
    BY <2>1 DEF Lined, Stands
<1>2. /\ Len(s) \in Nat /\ DOMAIN records = 1 .. Len(s) /\ Len(records) = Len(s)
      /\ \A k \in 1 .. Len(s) : s[k] \in 1 .. Len(text) /\ records[k] = Env!LineAt(text, s[k]).record
  BY DEF Walk, RecordsAt
<1>3. PICK k \in 1 .. Len(s) : s[k] = st[own]
  <2>1. \A j \in 1 .. m : j < own =>
          \A i \in 1 .. Len(s) : s[i] = st[j] => RecordsWithin(text, s, st[j], st[j + 1] - 1)
    BY <1>1 DEF OthersKept
  <2>2. \A j \in 1 .. own : \E i \in 1 .. Len(s) : s[i] = st[j]
    BY <2>1, ComesBy
  <2>3. own \in 1 .. own
    BY <1>1
  <2> QED
    BY <2>2, <2>3
<1>4. records[k] = line.record /\ records[k].key = row.key /\ k \in DOMAIN records
  <2>1. records[k] = line.record
    BY <1>2, <1>3
  <2>2. line.record.key = text[st[own]]
    BY <1>1, LineKey
  <2> QED
    BY <1>2, <2>1, <2>2
<1>5. records = Env!ParseDotenv(file.text)
  OBVIOUS
<1> HIDE DEF records
<1>6. Env!FromFile(row, file) = IF Gives(records[k], records, row, file)
                                THEN Env!Decode(records[k].raw, row) ELSE Env!NoValue
  BY <1>4, <1>5, OneRecord
<1> SUFFICES ASSUME Gives(records[k], records, row, file), line.next # st[own + 1]
             PROVE  FALSE
  BY <1>4, <1>6
<1>7. ~Env!Anomaly(records, file.rows, file.collection)
  BY <1>4 DEF Gives, Env!Vague, Leaves
<1>8. \A j \in 1 .. m : \E i \in 1 .. Len(s) : s[i] = st[j]
  <2>1. Quiet(text, s)
    BY <1>7, QuietWhenFine DEF records
  <2>2. OthersKept(text, s, st, m, 0)
    BY <2>1 DEF OthersKept
  <2> QED
    BY <2>2, ComesToAll
<1> DEFINE p == line.next
<1>9. p \in st[own] + 1 .. Len(text) /\ p < st[own + 1]
  <2>1. p \in st[own] + 1 .. Len(text) + 2
    BY <1>1, LineIs
  <2> HIDE DEF p
  <2>2. p <= st[own + 1] /\ p # st[own + 1] /\ (p < st[own + 1] => p <= Len(text))
    BY DEF p, Leaves
  <2> QED
    BY <1>1, <2>1, <2>2
<1>10. k < Len(s) /\ s[k + 1] = p
  <2>1. /\ k < Len(s) => s[k + 1] = Env!LineAt(text, s[k]).next
        /\ k = Len(s) => Env!LineAt(text, s[k]).next > Len(text)
    BY DEF Walk
  <2>2. Env!LineAt(text, s[k]).next = p
    BY <1>3
  <2> HIDE DEF p
  <2>3. p <= Len(text) /\ p \in Nat /\ ~(p > Len(text))
    BY <1>1, <1>9
  <2>4. k = Len(s) \/ k < Len(s)
    <3>1. Len(s) \in Nat
      BY <1>2
    <3> QED
      BY <3>1
  <2>5. k # Len(s)
    BY <2>1, <2>2, <2>3
  <2> QED
    BY <2>1, <2>2, <2>4, <2>5
<1> HIDE DEF p
<1> DEFINE next == records[k + 1]
<1>11. k + 1 \in 1 .. Len(s) /\ k \in 1 .. Len(records) - 1
  BY <1>2, <1>10
<1>12. Env!StartsARecord(next, file.rows, file.collection)
  <2>1. row.key \notin Env!OpenEnded(records, file.rows, file.collection) /\ ~records[k].closed
    BY <1>4 DEF Gives, Leaves
  <2> QED
    BY <1>4, <1>11, <2>1 DEF Env!OpenEnded
<1>13. next.key \in Sure(file)
  BY <1>12 DEF Env!StartsARecord, Sure
<1>14. PICK j \in 1 .. m : text[st[j]] = next.key
  BY <1>13
<1>15. PICK i \in 1 .. Len(s) : s[i] = st[j]
  BY <1>8
<1>16. records[i].key = next.key
  <2>1. st[j] \in 1 .. Len(text) /\ text[st[j]] \in Env!Keys
    BY <1>2, <1>15 DEF Lined
  <2>2. Env!LineAt(text, st[j]).record.key = text[st[j]]
    BY <1>1, <2>1, LineKey
  <2> QED
    BY <1>2, <1>14, <1>15, <2>2
<1>17. st[j] # p
  <2>1. j \in 1 .. m + 1 /\ st[j] \in Nat
    BY <1>1, <1>2, <1>15
  <2>2. CASE j < own
    <3>1. st[j] + 2 <= st[own]
      BY <1>1, <2>1, <2>2, LinesAscend
    <3> QED
      BY <1>1, <1>9, <2>1, <3>1
  <2>3. CASE j = own
    BY <1>1, <1>9, <2>3
  <2>4. CASE own + 1 = j
    BY <1>1, <1>9, <2>4
  <2>5. CASE own + 1 < j
    <3>1. st[own + 1] + 2 <= st[j]
      BY <1>1, <2>1, <2>5, LinesAscend
    <3> QED
      BY <1>1, <1>9, <2>1, <3>1
  <2> QED
    BY <1>1, <2>1, <2>2, <2>3, <2>4, <2>5
<1>18. i # k + 1
  BY <1>10, <1>15, <1>17
<1>19. Env!Repeated(records, next.key)
  BY <1>2, <1>11, <1>16, <1>18 DEF Env!Repeated
<1>20. Env!Anomaly(records, file.rows, file.collection)
  <2>1. next \in Env!ToSet(records)
    BY <1>2, <1>11 DEF Env!ToSet
  <2> HIDE DEF next
  <2> QED
    BY <1>19, <2>1 DEF Env!Anomaly
<1> QED
  BY <1>7, <1>20

\* A row whose line is one record has that record's value, or none.
LEMMA RecordOrNone ==
  ASSUME NEW file, NEW text, text = file.text, NEW st, NEW m, Lined(text, st, m),
         NEW s, Walk(text, s, 1), Env!ParseDotenv(text) = RecordsAt(text, s),
         NEW own \in 1 .. m, NEW row, row.key = text[st[own]],
         OthersKept(text, s, st, m, own),
         NEW line, line = Env!LineAt(text, st[own])
  PROVE  Env!FromFile(row, file) \in {Env!NoValue, Env!Decode(line.record.raw, row)}
<1> DEFINE records == RecordsAt(text, s)
<1>1. /\ Len(text) \in Nat /\ m \in Nat
      /\ st[own] \in 1 .. Len(text) /\ text[st[own]] \in Env!Keys
  <2>1. Stands(text, st[own], st[own + 1] - 1)
    BY LinesStand
  <2> QED
    BY <2>1 DEF Lined, Stands
<1>2. /\ DOMAIN records = 1 .. Len(s)
      /\ \A k \in 1 .. Len(s) : records[k] = Env!LineAt(text, s[k]).record
  BY DEF RecordsAt
<1>3. PICK k \in 1 .. Len(s) : s[k] = st[own]
  <2>1. \A j \in 1 .. m : j < own =>
          \A i \in 1 .. Len(s) : s[i] = st[j] => RecordsWithin(text, s, st[j], st[j + 1] - 1)
    BY <1>1 DEF OthersKept
  <2>2. \A j \in 1 .. own : \E i \in 1 .. Len(s) : s[i] = st[j]
    BY <2>1, ComesBy
  <2>3. own \in 1 .. own
    BY <1>1
  <2> QED
    BY <2>2, <2>3
<1>4. records[k] = line.record /\ records[k].key = row.key /\ k \in DOMAIN records
  <2>1. records[k] = line.record
    BY <1>2, <1>3
  <2>2. line.record.key = text[st[own]]
    BY <1>1, LineKey
  <2> QED
    BY <1>2, <2>1, <2>2
<1>5. records = Env!ParseDotenv(file.text)
  OBVIOUS
<1> HIDE DEF records
<1> QED
  BY <1>4, <1>5, OneRecord

(***************************************************************************)
(* What the forms of a value look like, wherever they are written.         *)
(***************************************************************************)
LEMMA PartIs ==
  ASSUME NEW T, NEW text \in Seq(T), NEW body \in Seq(T), NEW at \in Nat,
         at + Len(body) <= Len(text), \A i \in 1 .. Len(body) : text[at + i] = body[i]
  PROVE  SubSeq(text, at + 1, at + Len(body)) = body
<1>1. Len(body) \in Nat /\ Len(text) \in Nat /\ body = [i \in 1 .. Len(body) |-> body[i]]
  OBVIOUS
<1> DEFINE n == Len(body)
<1>2. n \in Nat /\ at + n <= Len(text) /\ (at + n) - (at + 1) + 1 = n
      /\ \A i \in 1 .. n : i + (at + 1) - 1 = at + i
  BY <1>1
<1> HIDE DEF n
<1>3. SubSeq(text, at + 1, at + n) = [i \in 1 .. n |-> text[i + (at + 1) - 1]]
  BY <1>2
<1>4. [i \in 1 .. n |-> text[i + (at + 1) - 1]] = [i \in 1 .. n |-> body[i]]
  BY <1>2 DEF n
<1> QED
  BY <1>1, <1>3, <1>4 DEF n

\* What is escaped stands behind a backslash.
LEMMA EscapedQuotes ==
  ASSUME NEW Tokens, "bs" \in Tokens, NEW value \in Seq(Tokens), value # << >>, NEW escaped,
         NEW body, body = Env!Escaped(value, escaped)
  PROVE  /\ body \in Seq(Tokens) /\ Len(body) \in Nat \ {0}
         /\ body[Len(body)] = value[Len(value)]
         /\ body[1] = IF value[1] \in escaped THEN "bs" ELSE value[1]
         /\ \A i \in 1 .. Len(body) :
              body[i] \in escaped /\ body[i] # "bs" => i - 1 \in 1 .. Len(body) /\ body[i - 1] = "bs"
<1> DEFINE n == Len(value)
<1>1. n \in Nat \ {0} /\ \A k \in 1 .. n : value[k] \in Tokens
  OBVIOUS
<1>2. body \in Seq(Tokens) /\ \E start : LaidOut(body, value, escaped, start)
  BY EscapedIsLaidOut
<1>3. PICK start : LaidOut(body, value, escaped, start)
  BY <1>2
<1>4. Len(body) \in Nat
  BY <1>2
<1>5. /\ start \in [1 .. n + 1 -> Nat] /\ start[1] = 0 /\ start[n + 1] = Len(body)
      /\ \A k \in 1 .. n :
           /\ start[k + 1] = start[k] + Len(Piece(value[k], escaped))
           /\ start[k + 1] <= Len(body)
           /\ \A i \in 1 .. Len(Piece(value[k], escaped)) :
                body[start[k] + i] = Piece(value[k], escaped)[i]
  BY <1>3 DEF LaidOut
<1> HIDE DEF n
<1>6. ASSUME NEW k \in 1 .. n
      PROVE  /\ start[k] \in Nat /\ start[k + 1] <= Len(body)
             /\ value[k] \in escaped =>
                  /\ start[k + 1] = start[k] + 2
                  /\ body[start[k] + 1] = "bs" /\ body[start[k] + 2] = value[k]
             /\ value[k] \notin escaped =>
                  start[k + 1] = start[k] + 1 /\ body[start[k] + 1] = value[k]
  <2> DEFINE token == value[k]
             p == Piece(token, escaped)
  <2>1. token \in Tokens /\ start[k] \in Nat
    <3>1. k \in 1 .. n + 1
      BY <1>1
    <3> QED
      BY <1>1, <1>5, <3>1
  <2>2. /\ start[k + 1] = start[k] + Len(p) /\ start[k + 1] <= Len(body)
        /\ \A i \in 1 .. Len(p) : body[start[k] + i] = p[i]
    BY <1>5
  <2> HIDE DEF token
  <2>3. /\ Len(p) = IF token \in escaped THEN 2 ELSE 1
        /\ token \in escaped => p[1] = "bs" /\ p[2] = token
        /\ token \notin escaped => p[1] = token
    BY <2>1, PieceIsShort
  <2> HIDE DEF p
  <2>4. CASE token \in escaped
    <3>1. Len(p) = 2 /\ 1 \in 1 .. Len(p) /\ 2 \in 1 .. Len(p)
      BY <2>3, <2>4
    <3> QED
      BY <2>1, <2>2, <2>3, <2>4, <3>1 DEF token
  <2>5. CASE token \notin escaped
    <3>1. Len(p) = 1 /\ 1 \in 1 .. Len(p)
      BY <2>3, <2>5
    <3> QED
      BY <2>1, <2>2, <2>3, <2>5, <3>1 DEF token
  <2> QED
    BY <2>4, <2>5
<1>7. Len(body) \in Nat \ {0} /\ body[Len(body)] = value[n]
  <2>1. n \in 1 .. n
    BY <1>1
  <2>2. start[n] \in Nat /\ start[n + 1] = Len(body)
    BY <1>5, <1>6, <2>1
  <2>3. CASE value[n] \in escaped
    <3>1. Len(body) = start[n] + 2 /\ body[start[n] + 2] = value[n]
      BY <1>6, <2>1, <2>2, <2>3
    <3> QED
      BY <2>2, <3>1
  <2>4. CASE value[n] \notin escaped
    <3>1. Len(body) = start[n] + 1 /\ body[start[n] + 1] = value[n]
      BY <1>6, <2>1, <2>2, <2>4
    <3> QED
      BY <2>2, <3>1
  <2> QED
    BY <2>3, <2>4
<1>8. body[1] = IF value[1] \in escaped THEN "bs" ELSE value[1]
  <2>1. 1 \in 1 .. n /\ start[1] + 1 = 1
    BY <1>1, <1>5
  <2> QED
    BY <1>6, <2>1
<1>9. ASSUME NEW i \in 1 .. Len(body), body[i] \in escaped, body[i] # "bs"
      PROVE  i - 1 \in 1 .. Len(body) /\ body[i - 1] = "bs"
  <2> DEFINE T == {k \in 1 .. n : i <= start[k + 1]}
  <2>1. T \in SUBSET Nat /\ n \in T
    BY <1>1, <1>4, <1>5
  <2>2. PICK k \in T : \A h \in T : k <= h
    <3> HIDE DEF T
    <3> QED
      BY <2>1, LeastOf
  <2>3. k \in 1 .. n /\ i <= start[k + 1]
    BY <2>2
  <2>4. start[k] < i
    <3>1. CASE k = 1
      BY <1>4, <1>5, <3>1
    <3>2. CASE k # 1
      <4> DEFINE h == k - 1
      <4>1. h \in 1 .. n /\ h + 1 = k /\ ~(k <= h)
        BY <1>1, <2>3, <3>2
      <4>2. h \notin T
        <5> HIDE DEF h, T
        <5> QED
          BY <2>2, <4>1
      <4> HIDE DEF h
      <4>3. ~(i <= start[k]) /\ start[k] \in Nat
        BY <1>6, <2>3, <4>1, <4>2
      <4> QED
        BY <1>4, <4>3
    <3> QED
      BY <3>1, <3>2
  <2> HIDE DEF T
  <2>5. start[k] \in Nat /\ i \in Nat
    BY <1>4, <1>6, <2>3
  <2>6. CASE value[k] \in escaped
    <3>1. start[k + 1] = start[k] + 2 /\ body[start[k] + 1] = "bs" /\ start[k + 1] <= Len(body)
      BY <1>6, <2>3, <2>6
    <3>2. i = start[k] + 1 \/ i = start[k] + 2
      BY <2>3, <2>4, <2>5, <3>1
    <3>3. i = start[k] + 2
      BY <1>9, <3>1, <3>2
    <3> QED
      BY <1>4, <2>5, <3>1, <3>3
  <2>7. CASE value[k] \notin escaped
    <3>1. start[k + 1] = start[k] + 1 /\ body[start[k] + 1] = value[k]
      BY <1>6, <2>3, <2>7
    <3>2. i = start[k] + 1
      BY <2>3, <2>4, <2>5, <3>1
    <3> QED
      BY <1>9, <2>7, <3>1, <3>2
  <2> QED
    BY <2>6, <2>7
<1> QED
  BY <1>2, <1>7, <1>8, <1>9 DEF n

\* What the decoder makes of a text is none, or a text, with its first token.
LEMMA UnescapedIsText ==
  ASSUME NEW Tokens, NEW raw \in Seq(Tokens), NEW escapable, NEW forbidden,
         NEW v, v = Env!Unescaped(raw, escapable, forbidden)
  PROVE  /\ v \in Seq(Tokens) \cup {Env!Bad}
         /\ raw # << >> /\ raw[1] \notin forbidden /\ raw[1] # "bs" /\ v # Env!Bad =>
              v # << >> /\ v[1] = raw[1]
<1> DEFINE n == Len(raw)
           f == CHOOSE g : Reads(g, raw, escapable, forbidden, 1)
           S == {i \in 1 .. n + 1 : f[i] \in Seq(Tokens) \cup {Env!Bad}}
<1>1. n \in Nat /\ \A i \in 1 .. n : raw[i] \in Tokens
  OBVIOUS
<1>2. v = f[1]
  BY DEF Env!Unescaped, Reads, Prefixed
<1>3. Reads(f, raw, escapable, forbidden, 1)
  BY <1>1, ReadsSome
<1> HIDE DEF f
<1>4. \A i \in 1 .. n + 1 :
        f[i] = IF i > n THEN << >>
               ELSE IF raw[i] \in forbidden THEN Env!Bad
               ELSE IF raw[i] # "bs" THEN Prefixed(raw[i], f[i + 1])
               ELSE IF i = n \/ raw[i + 1] \notin escapable THEN Env!Bad
               ELSE Prefixed(raw[i + 1], f[i + 2])
  BY <1>3 DEF Reads
<1>5. ASSUME NEW token \in Tokens, NEW rest, rest \in Seq(Tokens) \cup {Env!Bad}
      PROVE  /\ Prefixed(token, rest) \in Seq(Tokens) \cup {Env!Bad}
             /\ Prefixed(token, rest) # Env!Bad =>
                  Prefixed(token, rest) # << >> /\ Prefixed(token, rest)[1] = token
  <2>1. CASE rest = Env!Bad
    BY <2>1 DEF Prefixed
  <2>2. CASE rest # Env!Bad
    <3>1. rest \in Seq(Tokens) /\ Prefixed(token, rest) = <<token>> \o rest
      BY <1>5, <2>2 DEF Prefixed
    <3>2. <<token>> \o rest \in Seq(Tokens) /\ (<<token>> \o rest)[1] = token
          /\ <<token>> \o rest # << >>
      BY <3>1
    <3> QED
      BY <3>1, <3>2
  <2> QED
    BY <2>1, <2>2
<1> HIDE DEF n
<1>6. ASSUME NEW i \in 1 .. n + 1, \A j \in i + 1 .. n + 1 : j \in S
      PROVE  i \in S
  <2> SUFFICES f[i] \in Seq(Tokens) \cup {Env!Bad}
    OBVIOUS
  <2>1. CASE i > n
    <3>1. f[i] = << >>
      BY <1>4, <2>1
    <3>2. << >> \in Seq(Tokens)
      OBVIOUS
    <3> QED
      BY <3>1, <3>2
  <2>2. CASE ~(i > n) /\ raw[i] \in forbidden
    BY <1>4, <2>2
  <2>3. CASE ~(i > n) /\ raw[i] \notin forbidden /\ raw[i] # "bs"
    <3>1. f[i + 1] \in Seq(Tokens) \cup {Env!Bad} /\ raw[i] \in Tokens
      BY <1>1, <1>6, <2>3
    <3>2. f[i] = Prefixed(raw[i], f[i + 1])
      BY <1>4, <2>3
    <3> QED
      BY <1>5, <3>1, <3>2
  <2>4. CASE ~(i > n) /\ raw[i] \notin forbidden /\ raw[i] = "bs" /\ (i = n \/ raw[i + 1] \notin escapable)
    BY <1>4, <2>4
  <2>5. CASE ~(i > n) /\ raw[i] \notin forbidden /\ raw[i] = "bs" /\ ~(i = n \/ raw[i + 1] \notin escapable)
    <3>1. i + 2 \in i + 1 .. n + 1 /\ i + 1 \in 1 .. n
      BY <1>1, <2>5
    <3>2. f[i + 2] \in Seq(Tokens) \cup {Env!Bad} /\ raw[i + 1] \in Tokens
      BY <1>1, <1>6, <3>1
    <3>3. f[i] = Prefixed(raw[i + 1], f[i + 2])
      BY <1>4, <2>5
    <3> QED
      BY <1>5, <3>2, <3>3
  <2> QED
    BY <2>1, <2>2, <2>3, <2>4, <2>5
<1>7. 1 .. n + 1 \subseteq S
  <2> DEFINE last == n + 1
  <2>1. last \in Nat /\ 1 \in Nat
    BY <1>1
  <2>2. \A i \in 1 .. last : (\A j \in i + 1 .. last : j \in S) => i \in S
    BY <1>6
  <2> HIDE DEF S, last
  <2>3. 1 .. last \subseteq S
    BY <2>1, <2>2, BackInduction
  <2> QED
    BY <2>3 DEF last
<1>8. v \in Seq(Tokens) \cup {Env!Bad}
  <2>1. 1 \in 1 .. n + 1
    BY <1>1
  <2> QED
    BY <1>2, <1>7, <2>1
<1>9. ASSUME raw # << >>, raw[1] \notin forbidden, raw[1] # "bs", v # Env!Bad
      PROVE  v # << >> /\ v[1] = raw[1]
  <2>1. n # 0
    BY <1>1, <1>9 DEF n
  <2>2. 1 \in 1 .. n + 1 /\ ~(1 > n) /\ 1 + 1 \in 1 .. n + 1 /\ 1 \in 1 .. n
    BY <1>1, <2>1
  <2>3. v = Prefixed(raw[1], f[1 + 1])
    BY <1>2, <1>4, <1>9, <2>2
  <2>4. f[1 + 1] \in Seq(Tokens) \cup {Env!Bad} /\ raw[1] \in Tokens
    BY <1>1, <1>7, <2>2
  <2> QED
    BY <1>5, <1>9, <2>3, <2>4
<1> QED
  BY <1>8, <1>9

(***************************************************************************)
(* A text in double quotes is no legacy form of anything: a legacy row     *)
(* written in the exact form has no value.                                 *)
(***************************************************************************)
LEMMA LegacyRefusesExact ==
  ASSUME NEW Tokens, {"bs", "dq", "sq"} \subseteq Tokens, NEW raw \in Seq(Tokens), raw # << >>,
         raw[1] = "dq", NEW row, ~row.exact
  PROVE  Env!Decode(raw, row) = Env!NoValue
<1> DEFINE first == Env!Unescaped(raw, {"bs", "dq", "sq"}, {})
           exact == {v \in Env!LegacyCandidates(raw) : v \notin {Env!Bad, << >>} /\ Env!Encode(row, v) = raw}
<1>1. Env!Decode(raw, row) = IF Cardinality(exact) = 1 THEN CHOOSE v \in exact : TRUE ELSE Env!NoValue
  BY DEF Env!Decode, Env!Cardinality, Cardinality
<1>2. Head(raw) = "dq"
  OBVIOUS
<1>3. Env!LegacyCandidates(raw) = {first}
  BY <1>2 DEF Env!LegacyCandidates, Env!IsWrapped
<1>4. first \in Seq(Tokens) \cup {Env!Bad} /\ (first # Env!Bad => first # << >> /\ first[1] = "dq")
  <2> DEFINE escapable == {"bs", "dq", "sq"}
             forbidden == {}
  <2>1. raw[1] \notin forbidden /\ raw[1] # "bs"
    OBVIOUS
  <2> HIDE DEF escapable, forbidden
  <2>2. LET v == Env!Unescaped(raw, escapable, forbidden)
        IN  v \in Seq(Tokens) \cup {Env!Bad} /\ (v # Env!Bad => v # << >> /\ v[1] = "dq")
    BY <2>1, UnescapedIsText
  <2> QED
    BY <2>2 DEF escapable, forbidden
<1> HIDE DEF first
<1>5. ASSUME first # Env!Bad, Env!Encode(row, first) = raw
      PROVE  FALSE
  <2>1. first \in Seq(Tokens) /\ first # << >> /\ first[1] = "dq" /\ Head(first) = "dq"
    BY <1>4, <1>5
  <2>2. raw = IF row.literal THEN Env!Wrapped("sq", first)
              ELSE Env!Escaped(first, {"bs", "dq", "sq"})
    BY <1>5, <2>1 DEF Env!Encode, Env!LegacyFormat
  <2>3. CASE row.literal
    <3>1. raw = <<"sq">> \o first \o <<"sq">>
      BY <2>2, <2>3 DEF Env!Wrapped
    <3>2. <<"sq">> \o first \in Seq(Tokens) /\ (<<"sq">> \o first)[1] = "sq" /\ Len(<<"sq">> \o first) >= 1
      BY <2>1
    <3>3. raw[1] = "sq"
      <4> DEFINE front == <<"sq">> \o first
      <4>1. front \in Seq(Tokens) /\ front[1] = "sq" /\ Len(front) >= 1 /\ raw = front \o <<"sq">>
        BY <3>1, <3>2
      <4> HIDE DEF front
      <4> QED
        BY <4>1
    <3> QED
      BY <3>3
  <2>4. CASE ~row.literal
    <3> DEFINE escaped == {"bs", "dq", "sq"}
    <3>1. raw = Env!Escaped(first, escaped) /\ "dq" \in escaped
      BY <2>2, <2>4
    <3> HIDE DEF escaped
    <3>2. raw[1] = "bs"
      BY <2>1, <3>1, EscapedQuotes
    <3> QED
      BY <3>2
  <2> QED
    BY <2>3, <2>4
<1>6. exact = {}
  BY <1>3, <1>5
<1>7. Cardinality(exact) = 0
  BY <1>6, FS_EmptySet
<1> HIDE DEF exact
<1> QED
  BY <1>1, <1>7

LEMMA EnvMax ==
  ASSUME NEW n \in Nat, NEW S \in SUBSET (1 .. n), S # {}
  PROVE  Env!Max(S) \in S /\ \A y \in S : y <= Env!Max(S)
<1> DEFINE D == {d \in Nat : n - d \in S}
<1>1. \A x \in S : n - x \in D
  <2> SUFFICES ASSUME NEW x \in S
               PROVE  n - x \in D
    OBVIOUS
  <2>1. x \in 1 .. n
    OBVIOUS
  <2>2. n - x \in Nat /\ n - (n - x) = x
    BY <2>1
  <2> QED
    BY <2>2
<1>2. PICK d \in D : \A e \in D : d <= e
  <2>1. D \in SUBSET Nat /\ D # {}
    BY <1>1
  <2> HIDE DEF D
  <2> QED
    BY <2>1, LeastOf
<1>3. n - d \in S
  BY <1>2
<1>4. \A y \in S : y <= n - d
  <2> SUFFICES ASSUME NEW y \in S
               PROVE  y <= n - d
    OBVIOUS
  <2>1. d <= n - y
    BY <1>1, <1>2
  <2>2. y \in 1 .. n /\ d \in Nat
    BY <1>2
  <2> QED
    BY <2>1, <2>2
<1>5. \E x \in S : \A y \in S : x >= y
  <2>1. n - d \in Int /\ \A y \in S : y \in Int
    BY <1>2
  <2> QED
    BY <1>3, <1>4, <2>1
<1> HIDE DEF D
<1>6. Env!Max(S) \in S /\ \A y \in S : Env!Max(S) >= y
  BY <1>5 DEF Env!Max
<1>7. \A y \in S : y \in Int
  OBVIOUS
<1> QED
  BY <1>6, <1>7

\* The JSON of this alphabet.
LEMMA JsonIsPlain ==
  ASSUME NEW Tokens, NEW value \in Seq(Tokens), Env!IsJson(value), NEW i \in 1 .. Len(value)
  PROVE  value[i] \in {"{", "}", "nl"}
<1> DEFINE n == Len(value)
           kept == {j \in DOMAIN value : value[j] # "nl"}
           a == Env!Min(kept)
           b == Env!Max(kept)
           text == Env!Stripped(value)
<1>1. n \in Nat /\ DOMAIN value = 1 .. n
  OBVIOUS
<1>2. /\ Len(text) >= 2 /\ Head(text) = "{" /\ Env!Last(text) = "}"
      /\ \A j \in 2 .. (Len(text) - 1) : text[j] = "nl"
  BY DEF Env!IsJson
<1>3. CASE kept = {}
  BY <1>1, <1>3
<1>4. CASE kept # {}
  <2>1. text = SubSeq(value, a, b)
    BY <1>4 DEF Env!Stripped
  <2>2. a \in kept /\ b \in kept /\ \A y \in kept : a <= y /\ y <= b
    <3>1. kept \in SUBSET Nat /\ kept \in SUBSET (1 .. n)
      BY <1>1
    <3> HIDE DEF kept, n
    <3>2. a \in kept /\ \A y \in kept : a <= y
      BY <1>4, <3>1, EnvMin
    <3>3. b \in kept /\ \A y \in kept : y <= b
      BY <1>1, <1>4, <3>1, EnvMax
    <3> QED
      BY <3>2, <3>3
  <2>3. a \in 1 .. n /\ b \in 1 .. n /\ a <= b
    BY <1>1, <2>2
  <2> HIDE DEF a, b, n, text
  <2>4. /\ Len(text) = b - a + 1 /\ text \in Seq(Tokens)
        /\ \A j \in 1 .. b - a + 1 : text[j] = value[a + j - 1]
    <3>1. text = [j \in 1 .. b - a + 1 |-> value[a + j - 1]]
      BY <1>1, <2>1, <2>3 DEF n
    <3>2. b - a + 1 \in Nat
      BY <1>1, <2>3
    <3>3. \A j \in 1 .. b - a + 1 : value[a + j - 1] \in Tokens
      BY <1>1, <2>3 DEF n
    <3> QED
      BY <3>1, <3>2, <3>3
  <2>5. text[1] = "{" /\ text[b - a + 1] = "}"
    <3>1. Head(text) = text[1] /\ Env!Last(text) = text[Len(text)]
      BY <2>4 DEF Env!Last
    <3> QED
      BY <1>2, <2>4, <3>1
  <2>6. CASE i \notin kept
    BY <1>1, <2>6 DEF n
  <2>7. CASE i \in kept
    <3> DEFINE j == i - a + 1
    <3>1. a <= i /\ i <= b /\ i \in Nat
      BY <1>1, <2>2, <2>7 DEF n
    <3>2. j \in 1 .. b - a + 1 /\ a + j - 1 = i
      BY <1>1, <2>3, <3>1
    <3> HIDE DEF j
    <3>3. value[i] = text[j]
      BY <2>4, <3>2
    <3>4. j = 1 \/ j = b - a + 1 \/ j \in 2 .. (b - a + 1) - 1
      BY <1>1, <2>3, <3>2
    <3> QED
      BY <1>2, <2>4, <2>5, <3>3, <3>4
  <2> QED
    BY <2>6, <2>7
<1> QED
  BY <1>3, <1>4

(***************************************************************************)
(* A value where the line at at says it is.                                *)
(***************************************************************************)
Written(text, at, end, body) ==
  /\ end = at + Len(body) + 1
  /\ \A i \in 1 .. Len(body) : text[at + i] = body[i]

\* The quotes of a value are escaped.
QuotesEscaped(body) ==
  \A i \in 1 .. Len(body) :
    body[i] \in {"dq", "sq"} => i - 1 \in 1 .. Len(body) /\ body[i - 1] = "bs"

\* What the parser may make of the line: it may leave it early, not late.
Careful(text, s, at, end, body, line) ==
  /\ ~line.record.closed
  /\ line.next <= end + 1
  /\ line.next < end + 1 => line.next <= Len(text)
  /\ line.next = end + 1 => line.record.raw = body
  /\ Quiet(text, s) => RecordsWithin(text, s, at, end)

LEMMA RawIsBody ==
  ASSUME NEW T, NEW text \in Seq(T), NEW at, NEW end, Stands(text, at, end),
         NEW body \in Seq(T), Written(text, at, end, body)
  PROVE  SubSeq(text, at + 1, end - 1) = body
<1>1. /\ Len(text) \in Nat /\ at \in Nat /\ end \in at + 1 .. Len(text) + 1 /\ Len(body) \in Nat
      /\ end = at + Len(body) + 1
      /\ \A i \in 1 .. Len(body) : text[at + i] = body[i]
  BY DEF Stands, Written
<1>2. end - 1 = at + Len(body) /\ at + Len(body) <= Len(text)
  BY <1>1
<1> QED
  BY <1>1, <1>2, PartIs

LEMMA LooseLine ==
  ASSUME NEW T, NEW text \in Seq(T), NEW at, NEW end, Stands(text, at, end),
         NEW body \in Seq(T), Written(text, at, end, body), body # << >>,
         QuotesEscaped(body), body[Len(body)] # "nl", NEW s, Walk(text, s, 1),
         NEW line, line = Env!LineAt(text, at)
  PROVE  Careful(text, s, at, end, body, line)
<1>1. /\ Len(text) \in Nat /\ at \in 1 .. Len(text) /\ end \in at + 1 .. Len(text) + 1
      /\ at \in Nat /\ end \in Nat /\ Len(body) \in Nat \ {0}
  BY DEF Stands
<1>2. end = at + Len(body) + 1 /\ \A i \in 1 .. Len(body) : text[at + i] = body[i]
  BY DEF Written
<1>3. Loose(text, at, end)
  <2> SUFFICES ASSUME NEW i \in at .. end - 2, text[i] \in Env!Keys, text[i + 1] \in {"dq", "sq"}
               PROVE  FALSE
    BY DEF Loose
  <2> DEFINE j == i + 1 - at
  <2>1. j \in 1 .. Len(body) /\ at + j = i + 1 /\ at + (j - 1) = i
    BY <1>1, <1>2
  <2> HIDE DEF j
  <2>2. body[j] \in {"dq", "sq"}
    BY <1>2, <2>1
  <2>3. j - 1 \in 1 .. Len(body) /\ body[j - 1] = "bs"
    BY <2>1, <2>2 DEF QuotesEscaped
  <2>4. text[i] = "bs"
    BY <1>2, <2>1, <2>3
  <2> QED
    BY <2>4 DEF Env!Keys
<1>4. text[end - 1] # "nl"
  <2>1. end - 1 = at + Len(body) /\ Len(body) \in 1 .. Len(body)
    BY <1>1, <1>2
  <2> QED
    BY <1>2, <2>1
<1>5. /\ ~line.record.closed
      /\ line.next = end + 1 => line.record.raw = SubSeq(text, at + 1, end - 1)
      /\ line.next <= end /\ text[end - 1] # "nl" => line.next <= Len(text)
  BY <1>3, LooseRecord
<1>6. SubSeq(text, at + 1, end - 1) = body
  BY RawIsBody
<1>7. ASSUME NEW q \in at .. end, q <= Len(text)
      PROVE  Env!LineAt(text, q).next <= end + 1
  BY <1>3, <1>7, LooseSteps
<1>8. line.next <= end + 1
  <2>1. at \in at .. end /\ at <= Len(text)
    BY <1>1
  <2> QED
    BY <1>7, <2>1
<1>9. line.next < end + 1 => line.next <= Len(text)
  <2>1. line.next \in Nat
    <3> DEFINE next == line.next
    <3>1. next \in at + 1 .. Len(text) + 2
      BY <1>1, LineIs DEF Stands
    <3> HIDE DEF next
    <3>2. next \in Nat
      BY <1>1, <3>1
    <3> QED
      BY <3>2 DEF next
  <2>2. line.next < end + 1 => line.next <= end
    BY <1>1, <2>1
  <2> QED
    BY <1>4, <1>5, <2>2
<1>10. RecordsWithin(text, s, at, end)
  <2>1. \A k \in 1 .. Len(s) : s[k] <= Len(text)
    BY <1>1 DEF Walk
  <2> QED
    BY <1>7, <2>1 DEF RecordsWithin
<1> QED
  BY <1>5, <1>6, <1>8, <1>9, <1>10 DEF Careful

LEMMA LiteralLine ==
  ASSUME NEW T, "sq" \in T, NEW text \in Seq(T), NEW at, NEW end, Stands(text, at, end),
         NEW value \in Seq(T), value # << >>, value[Len(value)] # "nl", ~EndsInKey(value),
         NEW body, body = Env!Wrapped("sq", value), Written(text, at, end, body),
         FirstQuotes(text, end), NEW s, Walk(text, s, 1),
         NEW line, line = Env!LineAt(text, at)
  PROVE  Careful(text, s, at, end, body, line)
<1> DEFINE n == Len(value)
<1>1. /\ Len(text) \in Nat /\ at \in 1 .. Len(text) /\ end \in at + 1 .. Len(text) + 1
      /\ at \in Nat /\ end \in Nat /\ n \in Nat \ {0}
  BY DEF Stands
<1>2. /\ body \in Seq(T) /\ Len(body) = n + 2 /\ body[1] = "sq" /\ body[n + 2] = "sq"
      /\ \A i \in 1 .. n : body[i + 1] = value[i]
  <2>1. body = (<<"sq">> \o value) \o <<"sq">>
    BY DEF Env!Wrapped
  <2> DEFINE front == <<"sq">> \o value
  <2>2. /\ front \in Seq(T) /\ Len(front) = n + 1 /\ front[1] = "sq"
        /\ \A i \in 1 .. n : front[i + 1] = value[i]
    OBVIOUS
  <2> HIDE DEF front, n
  <2>3. /\ front \o <<"sq">> \in Seq(T) /\ Len(front \o <<"sq">>) = n + 2
        /\ (front \o <<"sq">>)[1] = "sq" /\ (front \o <<"sq">>)[n + 2] = "sq"
        /\ \A i \in 1 .. n : (front \o <<"sq">>)[i + 1] = value[i]
    BY <1>1, <2>2
  <2> QED
    BY <2>1, <2>3 DEF front
<1>3. end = at + (n + 2) + 1 /\ \A i \in 1 .. n + 2 : text[at + i] = body[i]
  BY <1>2 DEF Written
<1> HIDE DEF n
<1>4. /\ text[at + 1] = "sq" /\ text[end - 1] = "sq" /\ at + 3 <= end
      /\ \A i \in 1 .. n : text[at + (i + 1)] = value[i]
  <2>1. 1 \in 1 .. n + 2 /\ n + 2 \in 1 .. n + 2 /\ end - 1 = at + (n + 2) /\ at + 3 <= end
    BY <1>1, <1>3
  <2>2. \A i \in 1 .. n : i + 1 \in 1 .. n + 2
    BY <1>1
  <2>3. text[at + 1] = body[1] /\ text[at + (n + 2)] = body[n + 2]
    BY <1>3, <2>1
  <2> QED
    BY <1>2, <1>3, <2>1, <2>2, <2>3
<1>5. text[end - 2] = value[n] /\ text[end - 2] # "nl"
  <2>1. end - 2 = at + (n + 1) /\ n \in 1 .. n
    BY <1>1, <1>3
  <2> QED
    BY <1>4, <2>1 DEF n
<1>6. ~(at + 3 <= end - 2 /\ text[end - 2] \in Env!Keys /\ text[end - 3] = "nl")
  <2> SUFFICES ASSUME at + 3 <= end - 2, text[end - 2] \in Env!Keys, text[end - 3] = "nl"
               PROVE  FALSE
    OBVIOUS
  <2>1. n > 1 /\ n - 1 \in 1 .. n /\ at + ((n - 1) + 1) = end - 3
    BY <1>1, <1>3
  <2>2. value[n - 1] = "nl" /\ value[n] \in Env!Keys
    BY <1>4, <1>5, <2>1
  <2> QED
    BY <2>1, <2>2 DEF EndsInKey, n
<1>7. /\ ~line.record.closed /\ line.next <= end + 1
      /\ line.next = end + 1 => line.record.raw = SubSeq(text, at + 1, end - 1)
      /\ line.next <= end => line.next <= Len(text)
  BY <1>4, SingleRecord
<1>8. SubSeq(text, at + 1, end - 1) = body
  BY <1>2, RawIsBody
<1>9. Quiet(text, s) => RecordsWithin(text, s, at, end)
  BY <1>4, <1>5, <1>6, LiteralKept
<1>10. line.next < end + 1 => line.next <= Len(text)
  <2> DEFINE next == line.next
  <2>1. next \in at + 1 .. Len(text) + 2
    BY <1>1, LineIs
  <2> HIDE DEF next
  <2>2. next < end + 1 => next <= end
    BY <1>1, <2>1
  <2> QED
    BY <1>7, <2>2 DEF next
<1> QED
  BY <1>7, <1>8, <1>9, <1>10 DEF Careful

\* The exact form is one closed record.
LEMMA ExactLine ==
  ASSUME NEW T, {"bs", "dq"} \subseteq T, NEW text \in Seq(T), NEW at, NEW end, Stands(text, at, end),
         NEW value \in Seq(T), value # << >>, NEW escaped, "bs" \in escaped, "dq" \in escaped,
         NEW body, body = Env!Wrapped("dq", Env!Escaped(value, escaped)),
         Written(text, at, end, body), NEW line, line = Env!LineAt(text, at)
  PROVE  /\ body \in Seq(T) /\ body # << >> /\ body[1] = "dq"
         /\ line.record.key = text[at] /\ line.record.closed /\ ~line.record.anomaly
         /\ line.record.raw = body /\ line.next = end + 1
<1> DEFINE e == Env!Escaped(value, escaped)
           n == Len(e)
<1>0. e \in Seq(T) /\ n \in Nat \ {0}
  BY EscapedQuotes
<1>1. /\ Len(text) \in Nat /\ at \in 1 .. Len(text) /\ end \in at + 1 .. Len(text) + 1
      /\ at \in Nat /\ end \in Nat
  BY DEF Stands
<1>b. body = Env!Wrapped("dq", e)
  OBVIOUS
<1> HIDE DEF e
<1>2. /\ body \in Seq(T) /\ Len(body) = n + 2 /\ body[1] = "dq" /\ body[n + 2] = "dq"
      /\ \A i \in 1 .. n : body[i + 1] = e[i]
  <2>1. body = (<<"dq">> \o e) \o <<"dq">>
    BY <1>b DEF Env!Wrapped
  <2> DEFINE front == <<"dq">> \o e
  <2>2. /\ front \in Seq(T) /\ Len(front) = n + 1 /\ front[1] = "dq"
        /\ \A i \in 1 .. n : front[i + 1] = e[i]
    BY <1>0
  <2> HIDE DEF front, n
  <2>3. /\ front \o <<"dq">> \in Seq(T) /\ Len(front \o <<"dq">>) = n + 2
        /\ (front \o <<"dq">>)[1] = "dq" /\ (front \o <<"dq">>)[n + 2] = "dq"
        /\ \A i \in 1 .. n : (front \o <<"dq">>)[i + 1] = e[i]
    BY <1>0, <2>2
  <2> QED
    BY <2>1, <2>3 DEF front
<1>3. end = at + (n + 2) + 1 /\ \A i \in 1 .. n + 2 : text[at + i] = body[i]
  BY <1>2 DEF Written
<1> DEFINE lo == at + 2
<1>4. /\ text[at + 1] = "dq" /\ text[lo + n] = "dq" /\ at + 2 <= end /\ lo + n = end - 1
      /\ lo \in 1 .. Len(text) /\ lo + n <= Len(text)
      /\ \A i \in 1 .. n : text[lo + i - 1] = e[i]
  <2> HIDE DEF n
  <2>1. 1 \in 1 .. n + 2 /\ n + 2 \in 1 .. n + 2 /\ lo + n = at + (n + 2) /\ at + 2 <= end
        /\ lo + n = end - 1 /\ lo \in 1 .. Len(text) /\ lo + n <= Len(text)
    BY <1>0, <1>1, <1>3
  <2>2. \A i \in 1 .. n : i + 1 \in 1 .. n + 2 /\ lo + i - 1 = at + (i + 1)
    BY <1>0, <1>1
  <2>3. text[at + 1] = body[1] /\ text[at + (n + 2)] = body[n + 2]
    BY <1>3, <2>1
  <2>4. \A i \in 1 .. n : text[lo + i - 1] = e[i]
    BY <1>2, <1>3, <2>2
  <2> HIDE DEF lo
  <2> QED
    BY <1>2, <2>1, <2>3, <2>4
<1>5. Env!ClosingDoubleQuote(text, lo) = lo + n
  <2> HIDE DEF lo
  <2> QED
    BY <1>1, <1>4, EscapedCloses DEF e
<1>6. Env!ClosingDoubleQuote(text, at + 2) = end - 1
  BY <1>4, <1>5
<1>t. at + 2 <= end /\ text[at + 1] = "dq"
  BY <1>4
<1> HIDE DEF lo, n
<1>7. /\ line.record.key = text[at] /\ line.record.closed /\ ~line.record.anomaly
      /\ line.record.raw = SubSeq(text, at + 1, end - 1)
      /\ line.next = end + 1
  BY <1>t, <1>6, DoubleRecord
<1>8. SubSeq(text, at + 1, end - 1) = body
  BY <1>2, RawIsBody
<1>9. body # << >>
  BY <1>0, <1>2
<1> QED
  BY <1>2, <1>7, <1>8, <1>9

(***************************************************************************)
(* The legacy form is a literal in single quotes, or has its quotes        *)
(* escaped, if any.                                                        *)
(***************************************************************************)
LEMMA LegacyForms ==
  ASSUME NEW T, {"bs", "dq", "sq"} \subseteq T, NEW value \in Seq(T), Trimmed(value), NEW row,
         NEW body, body = Env!LegacyFormat(row, value)
  PROVE  /\ body \in Seq(T) /\ body # << >>
         /\ \/ row.literal /\ body = Env!Wrapped("sq", value)
            \/ body[Len(body)] # "nl" /\ QuotesEscaped(body)
<1>1. value # << >> /\ value[Len(value)] # "nl" /\ Len(value) \in Nat
  BY DEF Trimmed
<1>2. CASE value # << >> /\ Head(value) = "{" /\ Env!IsJson(value)
  <2>1. body = value
    BY <1>2 DEF Env!LegacyFormat
  <2>2. \A i \in 1 .. Len(body) : body[i] \notin {"dq", "sq"}
    <3>1. \A i \in 1 .. Len(value) : value[i] \in {"{", "}", "nl"}
      BY <1>2, JsonIsPlain
    <3> QED
      BY <2>1, <3>1
  <2>3. QuotesEscaped(body) /\ body[Len(body)] # "nl"
    BY <1>1, <2>1, <2>2 DEF QuotesEscaped
  <2> QED
    BY <1>1, <2>1, <2>3
<1>3. CASE ~(value # << >> /\ Head(value) = "{" /\ Env!IsJson(value)) /\ row.literal
  <2>1. body = Env!Wrapped("sq", value)
    BY <1>3 DEF Env!LegacyFormat
  <2>2. body = (<<"sq">> \o value) \o <<"sq">>
    BY <2>1 DEF Env!Wrapped
  <2> DEFINE front == <<"sq">> \o value
  <2>3. front \in Seq(T)
    OBVIOUS
  <2> HIDE DEF front
  <2>4. front \o <<"sq">> \in Seq(T) /\ front \o <<"sq">> # << >>
    BY <2>3
  <2> QED
    BY <1>3, <2>1, <2>2, <2>4 DEF front
<1>4. CASE ~(value # << >> /\ Head(value) = "{" /\ Env!IsJson(value)) /\ ~row.literal
  <2> DEFINE escaped == {"bs", "dq", "sq"}
  <2>1. body = Env!Escaped(value, escaped)
    BY <1>4 DEF Env!LegacyFormat
  <2>2. "dq" \in escaped /\ "sq" \in escaped
    OBVIOUS
  <2> HIDE DEF escaped
  <2>3. /\ body \in Seq(T) /\ Len(body) \in Nat \ {0}
        /\ body[Len(body)] = value[Len(value)]
        /\ \A i \in 1 .. Len(body) :
             body[i] \in escaped /\ body[i] # "bs" => i - 1 \in 1 .. Len(body) /\ body[i - 1] = "bs"
    BY <1>1, <2>1, EscapedQuotes
  <2>4. body # << >>
    BY <2>3
  <2>5. QuotesEscaped(body)
    BY <2>2, <2>3 DEF QuotesEscaped
  <2> QED
    BY <1>1, <2>3, <2>4, <2>5
<1> QED
  BY <1>2, <1>3, <1>4

(***************************************************************************)
(* A file in which the row has a line, with its value in a form it may     *)
(* have been written in, and the other lines are tame.                     *)
(***************************************************************************)
LaidFile(T, file, row, value, st, m, own) ==
  /\ {"bs", "dq", "sq", "$"} \subseteq T /\ "bad" \notin T
  /\ file.text \in Seq(T) /\ Lined(file.text, st, m)
  /\ KnownKeys(file) /\ \A key \in Sure(file) : \E j \in 1 .. m : file.text[st[j]] = key
  /\ own \in 1 .. m /\ row.key = file.text[st[own]]
  /\ \A j \in 1 .. m : j # own => Tame(file.text, st[j], st[j + 1] - 1)
  /\ row.exact \in BOOLEAN /\ row.literal \in BOOLEAN /\ value \in Seq(T) /\ value # << >>
  /\ \/ Written(file.text, st[own], st[own + 1] - 1, Env!ExactFormat(row, value))
     \/ /\ ~row.exact /\ Trimmed(value) /\ ~(row.literal /\ EndsInKey(value))
        /\ Written(file.text, st[own], st[own + 1] - 1, Env!LegacyFormat(row, value))

\* The double quotes behind a line of its open the values they are in.
LEMMA QuotesOpen ==
  ASSUME NEW text, NEW st, NEW m, Lined(text, st, m), NEW own \in 1 .. m,
         \A j \in 1 .. m : j # own => Tame(text, st[j], st[j + 1] - 1)
  PROVE  FirstQuotes(text, st[own + 1] - 1)
<1> DEFINE end == st[own + 1] - 1
<1>1. Len(text) \in Nat /\ m \in Nat /\ \A j \in 1 .. m + 1 : st[j] \in Nat
  BY DEF Lined
<1>2. st[own + 1] \in Nat /\ end + 1 = st[own + 1] /\ own + 1 \in 1 .. m + 1
  BY <1>1
<1> SUFFICES ASSUME NEW c \in end + 1 .. Len(text), text[c] = "dq"
             PROVE  \E k \in end + 2 .. c :
                      k < Len(text) /\ text[k] = "dq" /\ text[k - 1] \in Env!Keys /\ text[k + 1] # "nl"
  BY DEF FirstQuotes
<1> HIDE DEF end
<1>3. c \in 1 .. Len(text) /\ c \in Nat /\ end \in Int /\ st[own + 1] <= c
  <2>1. 1 <= st[own + 1]
    <3>1. Stands(text, st[own], st[own + 1] - 1) /\ st[own] \in Nat
      BY LinesStand
    <3> QED
      BY <1>1, <1>2, <3>1 DEF Stands
  <2>2. end \in Int
    BY <1>2 DEF end
  <2> QED
    BY <1>1, <1>2, <2>1, <2>2
<1>4. PICK j \in 1 .. m : c \in st[j] .. st[j + 1] - 1
  BY <1>3, InALine
<1>5. j \in 1 .. m + 1 /\ j + 1 \in 1 .. m + 1 /\ st[j] \in Nat /\ st[j + 1] \in Nat
  BY <1>1
<1>6. ~(j <= own)
  <2> SUFFICES ASSUME j <= own
               PROVE  FALSE
    OBVIOUS
  <2>1. st[j + 1] <= st[own + 1]
    <3>1. CASE j = own
      BY <1>2, <3>1
    <3>2. CASE j # own
      <4>1. j + 1 < own + 1
        BY <1>1, <3>2
      <4>2. st[j + 1] + 2 <= st[own + 1]
        BY <1>2, <1>5, <4>1, LinesAscend
      <4> QED
        BY <1>2, <1>5, <4>2
    <3> QED
      BY <3>1, <3>2
  <2> QED
    BY <1>2, <1>3, <1>4, <1>5, <2>1
<1>7. st[own + 1] <= st[j]
  <2>1. CASE j = own + 1
    BY <1>2, <2>1
  <2>2. CASE j # own + 1
    <3>1. own + 1 < j
      BY <1>1, <1>6, <2>2
    <3>2. st[own + 1] + 2 <= st[j]
      BY <1>2, <1>5, <3>1, LinesAscend
    <3> QED
      BY <1>2, <1>5, <3>2
  <2> QED
    BY <2>1, <2>2
<1> DEFINE at == st[j]
           last == st[j + 1] - 1
<1>8. /\ at + 1 <= c /\ at + 1 < Len(text) /\ text[at + 1] = "dq" /\ text[at] \in Env!Keys
      /\ text[at + 2] # "nl"
  <2>1. Stands(text, at, last)
    BY LinesStand
  <2>2. Tame(text, at, last) /\ c \in at .. last /\ c <= Len(text)
    BY <1>1, <1>3, <1>4, <1>6
  <2> HIDE DEF at, last
  <2> QED
    BY <2>1, <2>2, TameOpens
<1>9. at \in Nat /\ end + 1 <= at
  BY <1>2, <1>5, <1>7
<1> HIDE DEF at, last
<1>10. at + 1 \in end + 2 .. c /\ (at + 1) - 1 = at /\ (at + 1) + 1 = at + 2
  BY <1>3, <1>8, <1>9
<1> QED
  BY <1>8, <1>10

\* The lines other than its own end where they are laid, wherever the parser is in them.
LEMMA OthersEnd ==
  ASSUME NEW text, NEW st, NEW m, Lined(text, st, m), NEW own,
         \A j \in 1 .. m : j # own => Tame(text, st[j], st[j + 1] - 1),
         NEW s, Walk(text, s, 1)
  PROVE  OthersKept(text, s, st, m, own)
<1> SUFFICES ASSUME NEW j \in 1 .. m, j # own, NEW k \in 1 .. Len(s), s[k] = st[j]
             PROVE  RecordsWithin(text, s, st[j], st[j + 1] - 1)
  BY DEF OthersKept
<1> DEFINE a == st[j]
           e == st[j + 1] - 1
<1>1. Stands(text, a, e) /\ Tame(text, a, e) /\ s[k] = a
  BY LinesStand
<1> HIDE DEF a, e
<1>2. RecordsWithin(text, s, a, e)
  BY <1>1, TameKept
<1> QED
  BY <1>2 DEF a, e

\* In the exact form.
LEMMA ExactGiven ==
  ASSUME NEW T, {"bs", "dq", "sq", "$"} \subseteq T, "bad" \notin T,
         NEW row, row.exact \in BOOLEAN, row.literal \in BOOLEAN,
         NEW value \in Seq(T), value # << >>,
         NEW text \in Seq(T), NEW at, NEW end, Stands(text, at, end),
         Written(text, at, end, Env!ExactFormat(row, value)),
         NEW line, line = Env!LineAt(text, at)
  PROVE  Env!Decode(line.record.raw, row) \in {Env!NoValue, value}
<1> DEFINE escaped == {"bs", "dq"} \cup (IF Env!AllowsInterpolation(row, value) THEN {} ELSE {"$"})
           body == Env!ExactFormat(row, value)
<1>1. body = Env!Wrapped("dq", Env!Escaped(value, escaped)) /\ "bs" \in escaped /\ "dq" \in escaped
  BY DEF Env!ExactFormat, Env!EscapeComposeEnvFileValue
<1>2. Written(text, at, end, body)
  OBVIOUS
<1> HIDE DEF escaped, body
<1>3. {"bs", "dq"} \subseteq T
  OBVIOUS
<1>4. body \in Seq(T) /\ body # << >> /\ body[1] = "dq" /\ line.record.raw = body
  BY <1>1, <1>2, <1>3, ExactLine
<1>5. Env!Decode(body, row) \in {Env!NoValue, value}
  <2>1. CASE row.exact
    <3>1. body = Env!Encode(row, value)
      BY <2>1 DEF body, Env!Encode
    <3> QED
      BY <3>1, WhatIsWrittenIsReadBack
  <2>2. CASE ~row.exact
    BY <1>4, <2>2, LegacyRefusesExact
  <2> QED
    BY <2>1, <2>2
<1> QED
  BY <1>4, <1>5

\* In the legacy form.
LEMMA LegacyLine ==
  ASSUME NEW T, "sq" \in T, NEW text \in Seq(T), NEW at, NEW end, Stands(text, at, end),
         NEW value \in Seq(T), value # << >>, value[Len(value)] # "nl",
         NEW body \in Seq(T), body # << >>,
         \/ ~EndsInKey(value) /\ body = Env!Wrapped("sq", value)
         \/ body[Len(body)] # "nl" /\ QuotesEscaped(body),
         Written(text, at, end, body), FirstQuotes(text, end), NEW s, Walk(text, s, 1),
         NEW line, line = Env!LineAt(text, at)
  PROVE  Careful(text, s, at, end, body, line)
<1>1. CASE ~EndsInKey(value) /\ body = Env!Wrapped("sq", value)
  BY <1>1, LiteralLine
<1>2. CASE body[Len(body)] # "nl" /\ QuotesEscaped(body)
  BY <1>2, LooseLine
<1> QED
  BY <1>1, <1>2

LEMMA LegacyGiven ==
  ASSUME NEW T, {"bs", "dq", "sq", "$"} \subseteq T, "bad" \notin T,
         NEW row, row.exact = FALSE, row.literal \in BOOLEAN,
         NEW value \in Seq(T), value # << >>, Trimmed(value), ~(row.literal /\ EndsInKey(value)),
         NEW text \in Seq(T), NEW at, NEW end, Stands(text, at, end), FirstQuotes(text, end),
         NEW body, body = Env!LegacyFormat(row, value), Written(text, at, end, body),
         NEW s, Walk(text, s, 1), NEW line, line = Env!LineAt(text, at)
  PROVE  /\ Careful(text, s, at, end, body, line)
         /\ Env!Decode(body, row) \in {Env!NoValue, value}
<1>1. {"bs", "dq", "sq"} \subseteq T
  OBVIOUS
<1>2. /\ body \in Seq(T) /\ body # << >>
      /\ \/ row.literal /\ body = Env!Wrapped("sq", value)
         \/ body[Len(body)] # "nl" /\ QuotesEscaped(body)
  BY <1>1, LegacyForms
<1>3. value[Len(value)] # "nl" /\ "sq" \in T
  BY DEF Trimmed
<1>4. \/ ~EndsInKey(value) /\ body = Env!Wrapped("sq", value)
      \/ body[Len(body)] # "nl" /\ QuotesEscaped(body)
  BY <1>2
<1>5. Careful(text, s, at, end, body, line)
  <2>1. body \in Seq(T) /\ body # << >>
    BY <1>2
  <2> QED
    BY <1>3, <1>4, <2>1, LegacyLine
<1>6. Env!Decode(body, row) \in {Env!NoValue, value}
  <2>1. body = Env!Encode(row, value)
    BY DEF Env!Encode
  <2>2. row.exact \in BOOLEAN
    OBVIOUS
  <2> QED
    BY <2>1, <2>2, WhatIsWrittenIsReadBack
<1> QED
  BY <1>5, <1>6

(***************************************************************************)
(* What the file gives of the row is its value, or nothing: whatever the   *)
(* value holds (domain/locked_envs.py, recover).                           *)
(***************************************************************************)
LEMMA GivenIsExact ==
  ASSUME NEW T, NEW file, NEW row, NEW value, NEW st, NEW m, NEW own,
         LaidFile(T, file, row, value, st, m, own)
  PROVE  Env!FromFile(row, file) \in {Env!NoValue, value}
<1> DEFINE text == file.text
           at == st[own]
           end == st[own + 1] - 1
           line == Env!LineAt(text, at)
<1>1. text \in Seq(T) /\ Lined(text, st, m) /\ own \in 1 .. m /\ row.key = text[st[own]]
  BY DEF LaidFile
<1>2. KnownKeys(file) /\ SureLines(file, text, st, m)
  BY DEF LaidFile, SureLines
<1>3. \A j \in 1 .. m : j # own => Tame(text, st[j], st[j + 1] - 1)
  BY DEF LaidFile
<1>4. /\ {"bs", "dq", "sq", "$"} \subseteq T /\ "bad" \notin T
      /\ row.exact \in BOOLEAN /\ row.literal \in BOOLEAN /\ value \in Seq(T) /\ value # << >>
  BY DEF LaidFile
<1>5. \/ Written(text, at, end, Env!ExactFormat(row, value))
      \/ /\ ~row.exact /\ Trimmed(value) /\ ~(row.literal /\ EndsInKey(value))
         /\ Written(text, at, end, Env!LegacyFormat(row, value))
  BY DEF LaidFile
<1>6. text = file.text /\ line = Env!LineAt(text, at) /\ at = st[own] /\ end = st[own + 1] - 1
      /\ line = Env!LineAt(text, st[own])
  OBVIOUS
<1> HIDE DEF text, line
<1>7. Stands(text, at, end) /\ end + 1 = st[own + 1]
  BY <1>1, LinesStand
<1> HIDE DEF at, end
<1>8. PICK s : Walk(text, s, 1) /\ Env!ParseDotenv(text) = RecordsAt(text, s)
  <2>1. Len(text) \in Nat
    BY <1>1 DEF Lined
  <2> QED
    BY <2>1, ParseWalks
<1>9. OthersKept(text, s, st, m, own)
  BY <1>1, <1>3, <1>8, OthersEnd
<1>10. CASE Written(text, at, end, Env!ExactFormat(row, value))
  <2>1. Env!FromFile(row, file) \in {Env!NoValue, Env!Decode(line.record.raw, row)}
    <3>1. /\ text = file.text /\ Lined(text, st, m) /\ own \in 1 .. m /\ row.key = text[st[own]]
          /\ line = Env!LineAt(text, st[own])
      BY <1>1, <1>6
    <3> QED
      BY ZenonT(60), <1>8, <1>9, <3>1, RecordOrNone
  <2>2. Env!Decode(line.record.raw, row) \in {Env!NoValue, value}
    BY <1>1, <1>4, <1>6, <1>7, <1>10, ExactGiven
  <2> QED
    BY <2>1, <2>2
<1>11. CASE /\ ~row.exact /\ Trimmed(value) /\ ~(row.literal /\ EndsInKey(value))
            /\ Written(text, at, end, Env!LegacyFormat(row, value))
  <2> DEFINE body == Env!LegacyFormat(row, value)
  <2>1. /\ body = Env!LegacyFormat(row, value) /\ Written(text, at, end, body)
        /\ row.exact = FALSE /\ Trimmed(value) /\ ~(row.literal /\ EndsInKey(value))
    BY <1>4, <1>11
  <2> HIDE DEF body
  <2>2. FirstQuotes(text, end)
    BY <1>1, <1>3, <1>6, QuotesOpen
  <2>3. Careful(text, s, at, end, body, line) /\ Env!Decode(body, row) \in {Env!NoValue, value}
    <3>1. /\ {"bs", "dq", "sq", "$"} \subseteq T /\ "bad" \notin T
          /\ row.exact = FALSE /\ row.literal \in BOOLEAN
          /\ value \in Seq(T) /\ value # << >> /\ Trimmed(value)
          /\ ~(row.literal /\ EndsInKey(value))
      BY <1>4, <2>1
    <3>2. /\ text \in Seq(T) /\ Stands(text, at, end) /\ FirstQuotes(text, end)
          /\ body = Env!LegacyFormat(row, value) /\ Written(text, at, end, body)
          /\ Walk(text, s, 1) /\ line = Env!LineAt(text, at)
      BY <1>1, <1>6, <1>7, <1>8, <2>1, <2>2
    <3> QED
      BY ZenonT(60), <3>1, <3>2, LegacyGiven
  <2>4. Leaves(text, line, st[own + 1])
    BY <1>7, <2>3 DEF Careful, Leaves
  <2>5. QuietKeeps(text, s, st[own], st[own + 1])
    BY <1>6, <2>3 DEF Careful, QuietKeeps
  <2>6. ValueOrNone(row, file, line, st[own + 1])
    <3>1. /\ text = file.text /\ Lined(text, st, m) /\ own \in 1 .. m /\ row.key = text[st[own]]
          /\ line = Env!LineAt(text, st[own])
      BY <1>1, <1>6
    <3> QED
      BY <1>2, <1>8, <1>9, <2>4, <2>5, <3>1, WholeOrNone
  <2>7. line.next = st[own + 1] => line.record.raw = body
    BY <1>7, <2>3 DEF Careful
  <2> QED
    BY <2>3, <2>6, <2>7 DEF ValueOrNone
<1> QED
  BY <1>5, <1>10, <1>11

(***************************************************************************)
(* The lines of a file, joined, are where st says.                         *)
(***************************************************************************)
PlacedAt(text, lines, st, m) ==
  \A j \in 1 .. m : /\ st[j + 1] = st[j] + Len(lines[j]) + 1
                    /\ \A i \in 1 .. Len(lines[j]) : text[st[j] + i - 1] = lines[j][i]

LEMMA JoinedIsLined ==
  ASSUME NEW T, "nl" \in T, NEW m \in Nat \ {0}, NEW lines \in Seq(Seq(T)), Len(lines) = m,
         \A j \in 1 .. m : lines[j] # << >> /\ lines[j][1] \in Env!Keys,
         NEW text, text = Joined(lines)
  PROVE  text \in Seq(T) /\ \E st : Lined(text, st, m) /\ PlacedAt(text, lines, st, m)
<1> DEFINE pieces == [i \in DOMAIN lines |-> IF i = Len(lines) THEN lines[i]
                                             ELSE Append(lines[i], "nl")]
           f == CHOOSE g : Flattens(g, pieces, m)
<1>1. /\ DOMAIN lines = 1 .. m
      /\ \A j \in 1 .. m : lines[j] \in Seq(T) /\ Len(lines[j]) \in Nat \ {0}
  BY EmptySeq
<1>2. ASSUME NEW j \in 1 .. m
      PROVE  /\ pieces[j] \in Seq(T)
             /\ Len(pieces[j]) = IF j = m THEN Len(lines[j]) ELSE Len(lines[j]) + 1
             /\ \A i \in 1 .. Len(lines[j]) : pieces[j][i] = lines[j][i]
             /\ j # m => pieces[j][Len(lines[j]) + 1] = "nl"
  <2> DEFINE line == lines[j]
             longer == Append(line, "nl")
  <2>1. line \in Seq(T)
    BY <1>1
  <2> HIDE DEF line
  <2>2. /\ longer \in Seq(T) /\ Len(longer) = Len(line) + 1
        /\ \A i \in 1 .. Len(line) : longer[i] = line[i]
        /\ longer[Len(line) + 1] = "nl"
    BY <2>1
  <2> HIDE DEF longer
  <2>3. pieces[j] = IF j = m THEN line ELSE longer
    BY <1>1 DEF line, longer
  <2> HIDE DEF pieces
  <2>4. CASE j = m
    <3>1. pieces[j] = line
      BY <2>3, <2>4
    <3> QED
      BY <2>1, <2>4, <3>1 DEF line
  <2>5. CASE j # m
    <3>1. pieces[j] = longer
      BY <2>3, <2>5
    <3> QED
      BY <2>2, <2>5, <3>1 DEF line
  <2> QED
    BY <2>4, <2>5
<1>3. text = f[m]
  <2>1. text = FlattenSeq(pieces)
    BY DEF Joined
  <2>2. DOMAIN pieces = 1 .. m
    BY <1>1
  <2> HIDE DEF pieces
  <2>3. pieces \in Seq(Seq(T)) /\ Len(pieces) = m
    <3>1. pieces = [i \in 1 .. m |-> pieces[i]]
      BY <2>2, <1>1 DEF pieces
    <3>2. pieces \in [1 .. m -> Seq(T)]
      BY <1>2, <3>1
    <3> DEFINE S == Seq(T)
    <3> HIDE DEF S
    <3>3. m \in Nat /\ pieces \in [1 .. m -> S]
      BY <3>2 DEF S
    <3>4. pieces \in Seq(S) /\ Len(pieces) = m
      BY <3>3
    <3> QED
      BY <3>4 DEF S
  <2>4. FlattenSeq(pieces) = f[m]
    BY <2>3 DEF FlattenSeq, Flattens
  <2> QED
    BY <2>1, <2>4
<1>4. Flattens(f, pieces, m)
  <2> HIDE DEF pieces
  <2> QED
    BY FlattensSome
<1> HIDE DEF pieces, f
<1>5. f[m] \in Seq(T) /\ \E start : Spread(f[m], pieces, m, start)
  <2>1. \A j \in 1 .. m : pieces[j] \in Seq(T)
    BY <1>2
  <2> QED
    BY <1>4, <2>1, FlatIsSpread
<1>6. PICK start : Spread(text, pieces, m, start)
  BY <1>3, <1>5
<1>7. text \in Seq(T) /\ Len(text) \in Nat
  BY <1>3, <1>5
<1>8. /\ \A j \in 1 .. m + 1 : start[j] \in Nat
      /\ start[1] = 0 /\ start[m + 1] = Len(text)
      /\ \A j \in 1 .. m : /\ start[j + 1] = start[j] + Len(pieces[j])
                           /\ \A i \in 1 .. Len(pieces[j]) : text[start[j] + i] = pieces[j][i]
  BY <1>6 DEF Spread
<1> DEFINE st == [j \in 1 .. m + 1 |-> IF j = m + 1 THEN Len(text) + 2 ELSE start[j] + 1]
<1>9. ASSUME NEW j \in 1 .. m
      PROVE  /\ st[j] = start[j] + 1 /\ start[j] \in Nat
             /\ st[j + 1] = st[j] + Len(lines[j]) + 1
             /\ \A i \in 1 .. Len(lines[j]) : text[start[j] + i] = lines[j][i]
             /\ j < m => text[st[j + 1] - 1] = "nl"
  <2> DEFINE n == Len(lines[j])
  <2>1. j \in 1 .. m + 1 /\ j + 1 \in 1 .. m + 1 /\ j # m + 1 /\ n \in Nat \ {0}
    BY <1>1
  <2>2. st[j] = start[j] + 1 /\ start[j] \in Nat /\ start[j + 1] \in Nat
    BY <1>8, <2>1
  <2>3. st[j + 1] = IF j = m THEN Len(text) + 2 ELSE start[j + 1] + 1
    BY <2>1
  <2> HIDE DEF st
  <2>4. /\ start[j + 1] = start[j] + Len(pieces[j])
        /\ \A i \in 1 .. Len(pieces[j]) : text[start[j] + i] = pieces[j][i]
    BY <1>8
  <2>5. Len(pieces[j]) = IF j = m THEN n ELSE n + 1
    BY <1>2
  <2> HIDE DEF n
  <2> DEFINE a == start[j]
             b == start[j + 1]
             p == Len(pieces[j])
             l == Len(text)
             c == st[j]
             d == st[j + 1]
  <2>6. d = c + n + 1 /\ (j # m => n + 1 \in 1 .. p /\ d - 1 = a + (n + 1))
    <3>1. /\ a \in Nat /\ l \in Nat /\ n \in Nat \ {0} /\ c = a + 1 /\ b = a + p
          /\ p = (IF j = m THEN n ELSE n + 1) /\ d = (IF j = m THEN l + 2 ELSE b + 1)
          /\ (j = m => b = l)
      BY <1>7, <1>8, <2>1, <2>2, <2>3, <2>4, <2>5
    <3> HIDE DEF a, b, p, l, c, d
    <3>2. CASE j = m
      BY <3>1, <3>2
    <3>3. CASE j # m
      BY <3>1, <3>3
    <3> QED
      BY <3>2, <3>3
  <2>7. ASSUME NEW i \in 1 .. n
        PROVE  text[start[j] + i] = lines[j][i]
    <3>1. i \in 1 .. Len(pieces[j])
      BY <2>1, <2>5
    <3>2. pieces[j][i] = lines[j][i]
      BY <1>2 DEF n
    <3> QED
      BY <2>4, <3>1, <3>2
  <2>8. j < m => text[st[j + 1] - 1] = "nl"
    <3> SUFFICES ASSUME j < m
                 PROVE  text[st[j + 1] - 1] = "nl"
      OBVIOUS
    <3>1. j # m
      BY <2>1
    <3>2. n + 1 \in 1 .. Len(pieces[j]) /\ st[j + 1] - 1 = start[j] + (n + 1)
      BY <2>6, <3>1
    <3>3. pieces[j][n + 1] = "nl"
      BY <1>2, <3>1 DEF n
    <3> QED
      BY <2>4, <3>2, <3>3
  <2> QED
    BY <2>2, <2>6, <2>7, <2>8 DEF n
<1>10. st \in [1 .. m + 1 -> Nat] /\ st[m + 1] = Len(text) + 2
  <2>1. \A j \in 1 .. m + 1 : (IF j = m + 1 THEN Len(text) + 2 ELSE start[j] + 1) \in Nat
    BY <1>7, <1>8
  <2>2. m + 1 \in 1 .. m + 1
    OBVIOUS
  <2> QED
    BY <2>1, <2>2
<1> HIDE DEF st
<1>11. Lined(text, st, m)
  <2>1. st[1] = 1
    <3>1. 1 \in 1 .. m
      OBVIOUS
    <3> QED
      BY <1>8, <1>9, <3>1
  <2>2. ASSUME NEW j \in 1 .. m
        PROVE  /\ st[j] + 2 <= st[j + 1] /\ text[st[j]] \in Env!Keys
               /\ j < m => text[st[j + 1] - 1] = "nl"
    <3> DEFINE n == Len(lines[j])
    <3>1. n \in Nat \ {0} /\ st[j + 1] = st[j] + n + 1 /\ st[j] = start[j] + 1 /\ start[j] \in Nat
      BY <1>1, <1>9
    <3>2. 1 \in 1 .. n /\ text[start[j] + 1] = lines[j][1]
      BY <1>9, <3>1
    <3>3. lines[j][1] \in Env!Keys
      OBVIOUS
    <3> HIDE DEF n
    <3>4. st[j] + 2 <= st[j + 1]
      BY <3>1
    <3> QED
      BY <1>9, <3>1, <3>2, <3>3, <3>4
  <2> QED
    BY <1>7, <1>10, <2>1, <2>2 DEF Lined
<1>12. PlacedAt(text, lines, st, m)
  <2> SUFFICES ASSUME NEW j \in 1 .. m
               PROVE  /\ st[j + 1] = st[j] + Len(lines[j]) + 1
                      /\ \A i \in 1 .. Len(lines[j]) : text[st[j] + i - 1] = lines[j][i]
    BY DEF PlacedAt
  <2>1. /\ st[j] = start[j] + 1 /\ start[j] \in Nat
        /\ st[j + 1] = st[j] + Len(lines[j]) + 1
    BY <1>9
  <2>2. ASSUME NEW i \in 1 .. Len(lines[j])
        PROVE  text[st[j] + i - 1] = lines[j][i]
    <3>1. i \in Nat
      BY <1>1
    <3>2. st[j] + i - 1 = start[j] + i
      BY <2>1, <3>1
    <3>3. text[start[j] + i] = lines[j][i]
      BY <1>9
    <3> QED
      BY <3>2, <3>3
  <2> QED
    BY <2>1, <2>2
<1> QED
  BY <1>7, <1>11, <1>12

(***************************************************************************)
(* Lines that are one record each: a text of one line without quotes, or   *)
(* one in double quotes.                                                   *)
(***************************************************************************)
Firm(text, at, end) ==
  \/ \A i \in at + 1 .. end - 1 : text[i] \notin {"dq", "sq", "nl"}
  \/ /\ at + 4 <= end /\ text[at + 1] = "dq" /\ text[end - 1] = "dq" /\ text[at + 2] # "nl"
     /\ \A i \in at + 2 .. end - 2 : text[i] \notin {"dq", "bs"}

\* The line is one record.
OneRecordAt(text, at, end) ==
  LET line == Env!LineAt(text, at)
  IN  line.next = end + 1 /\ line.record.key = text[at]

LEMMA FirmLine ==
  ASSUME NEW text, NEW at, NEW end, Stands(text, at, end), Firm(text, at, end),
         NEW line, line = Env!LineAt(text, at)
  PROVE  /\ line.next = end + 1 /\ line.record.key = text[at]
         /\ line.record.raw = SubSeq(text, at + 1, end - 1)
<1>1. at \in Nat /\ end \in Nat /\ at + 1 <= end
  BY DEF Stands
<1>2. CASE \A i \in at + 1 .. end - 1 : text[i] \notin {"dq", "sq", "nl"}
  <2>1. Loose(text, at, end)
    <3> SUFFICES ASSUME NEW i \in at .. end - 2
                 PROVE  text[i + 1] \notin {"dq", "sq"}
      BY DEF Loose
    <3>1. i + 1 \in at + 1 .. end - 1
      BY <1>1
    <3> QED
      BY <1>2, <3>1
  <2>2. \A i \in at + 1 .. end - 1 : text[i] # "nl"
    BY <1>2
  <2>3. /\ line.record.key = text[at]
        /\ line.next = end + 1 => line.record.raw = SubSeq(text, at + 1, end - 1)
        /\ (\A i \in at + 1 .. end - 1 : text[i] # "nl") => line.next = end + 1
    BY <2>1, LooseRecord
  <2> QED
    BY <2>2, <2>3
<1>3. CASE /\ at + 4 <= end /\ text[at + 1] = "dq" /\ text[end - 1] = "dq" /\ text[at + 2] # "nl"
           /\ \A i \in at + 2 .. end - 2 : text[i] \notin {"dq", "bs"}
  <2>1. at + 3 <= end /\ at + 2 <= end
    BY <1>1, <1>3
  <2>2. text[at + 1] = "dq" /\ text[end - 1] = "dq"
    BY <1>3
  <2>3. \A i \in at + 2 .. end - 2 : text[i] \notin {"dq", "bs"}
    BY <1>3
  <2>4. Env!ClosingDoubleQuote(text, at + 2) = end - 1
    BY <2>1, <2>2, <2>3, QuotedCloses
  <2> QED
    BY <2>1, <2>2, <2>4, DoubleRecord
<1> QED
  BY <1>2, <1>3 DEF Firm

\* No two lines have the same key.
KeysDiffer(text, st, m) == \A i, j \in 1 .. m : text[st[i]] = text[st[j]] => i = j

\* Where every line is one record, the records are the lines.
LEMMA RecordsAreLines ==
  ASSUME NEW text, NEW st, NEW m, Lined(text, st, m), NEW s, Walk(text, s, 1),
         \A j \in 1 .. m : OneRecordAt(text, st[j], st[j + 1] - 1),
         KeysDiffer(text, st, m)
  PROVE  /\ \A j \in 1 .. m : \E k \in 1 .. Len(s) : s[k] = st[j]
         /\ \A k \in 1 .. Len(s) : \E j \in 1 .. m : s[k] = st[j]
         /\ \A i, k \in 1 .. Len(s) :
              Env!LineAt(text, s[i]).record.key = Env!LineAt(text, s[k]).record.key => i = k
<1>1. ASSUME NEW j \in 1 .. m
      PROVE  /\ Stands(text, st[j], st[j + 1] - 1)
             /\ Env!LineAt(text, st[j]).next = (st[j + 1] - 1) + 1
             /\ Env!LineAt(text, st[j]).record.key = text[st[j]]
  BY LinesStand DEF OneRecordAt
<1>2. ASSUME NEW j \in 1 .. m, NEW k \in 1 .. Len(s), s[k] = st[j]
      PROVE  /\ RecordsWithin(text, s, st[j], st[j + 1] - 1)
             /\ \A i \in 1 .. Len(s) : s[i] \in st[j] .. st[j + 1] - 1 => i = k
  <2> DEFINE at == st[j]
             end == st[j + 1] - 1
  <2>1. Stands(text, at, end) /\ Env!LineAt(text, at).next = end + 1 /\ s[k] = at
    BY <1>1, <1>2
  <2> HIDE DEF at, end
  <2>2. RecordsWithin(text, s, at, end) /\ \A i \in 1 .. Len(s) : s[i] \in at .. end => i = k
    BY <2>1, AtOnce
  <2> QED
    BY <2>2 DEF at, end
<1>3. \A j \in 1 .. m : \E k \in 1 .. Len(s) : s[k] = st[j]
  <2>1. OthersKept(text, s, st, m, 0)
    BY <1>2 DEF OthersKept
  <2> QED
    BY <2>1, ComesToAll
<1>4. ASSUME NEW k \in 1 .. Len(s)
      PROVE  \E j \in 1 .. m : s[k] = st[j]
  <2>1. s[k] \in 1 .. Len(text)
    BY DEF Walk
  <2>2. PICK j \in 1 .. m : s[k] \in st[j] .. st[j + 1] - 1
    BY <2>1, InALine
  <2>3. PICK i \in 1 .. Len(s) : s[i] = st[j]
    BY <1>3
  <2>4. k = i
    BY <1>2, <2>2, <2>3
  <2> QED
    BY <2>3, <2>4
<1>5. ASSUME NEW i \in 1 .. Len(s), NEW k \in 1 .. Len(s),
             Env!LineAt(text, s[i]).record.key = Env!LineAt(text, s[k]).record.key
      PROVE  i = k
  <2>1. PICK a \in 1 .. m : s[i] = st[a]
    BY <1>4
  <2>2. PICK b \in 1 .. m : s[k] = st[b]
    BY <1>4
  <2>3. text[st[a]] = text[st[b]]
    BY <1>1, <1>5, <2>1, <2>2
  <2>4. a = b
    BY <2>3 DEF KeysDiffer
  <2>5. s[k] \in st[a] .. st[a + 1] - 1
    <3>1. Stands(text, st[a], st[a + 1] - 1) /\ st[a] \in Nat /\ st[a + 1] \in Nat
      BY LinesStand
    <3>2. st[a] <= st[a + 1] - 1
      BY <3>1 DEF Stands
    <3> QED
      BY <2>2, <2>4, <3>1, <3>2
  <2> QED
    BY <1>2, <2>1, <2>5
<1> QED
  BY <1>3, <1>4, <1>5

\* An unlocked row is in the file as the exact form of what the API returns of it.
RowShown(text, st, m, row) ==
  /\ ~row.null => \E j \in 1 .. m : text[st[j]] = row.key
  /\ \A j \in 1 .. m :
       text[st[j]] = row.key =>
         SubSeq(text, st[j] + 1, (st[j + 1] - 1) - 1)
           = IF row.null THEN << >> ELSE Env!ExactFormat(row, row.real)

\* The records are the lines; and those of the key have the values laid there.
Mirrors(text, st, m, s, records, key) ==
  /\ \A j \in 1 .. m : \E k \in DOMAIN records : s[k] = st[j]
  /\ \A k \in DOMAIN records : \E j \in 1 .. m : s[k] = st[j]
  /\ \A j \in 1 .. m, k \in DOMAIN records :
       s[k] = st[j] => /\ records[k].key = text[st[j]]
                       /\ text[st[j]] = key =>
                            records[k].raw = SubSeq(text, st[j] + 1, (st[j + 1] - 1) - 1)

\* Such a row does not make the file stale.
LEMMA ShownIsCurrent ==
  ASSUME NEW text, NEW st, NEW m, NEW s, NEW records, NEW rows, NEW collection, NEW row,
         RowShown(text, st, m, row), row.null \in BOOLEAN, Mirrors(text, st, m, s, records, row.key)
  PROVE  ~Env!Outdated(row, records, rows, collection)
<1> DEFINE own == Env!RecordsOf(records, row.key)
<1>1. own = {r \in {records[k] : k \in DOMAIN records} : r.key = row.key}
  BY DEF Env!RecordsOf, Env!ToSet
<1>2. ASSUME NEW r \in own
      PROVE  r.raw = IF row.null THEN << >> ELSE Env!ExactFormat(row, row.real)
  <2>1. PICK k \in DOMAIN records : r = records[k] /\ records[k].key = row.key
    BY <1>1
  <2>2. PICK j \in 1 .. m : s[k] = st[j]
    BY DEF Mirrors
  <2>3. records[k].key = text[st[j]] /\ records[k].raw = SubSeq(text, st[j] + 1, (st[j + 1] - 1) - 1)
    BY <2>1, <2>2 DEF Mirrors
  <2> QED
    BY <2>1, <2>3 DEF RowShown
<1>3. ~row.null => own # {}
  <2> SUFFICES ASSUME ~row.null
               PROVE  own # {}
    OBVIOUS
  <2>1. PICK j \in 1 .. m : text[st[j]] = row.key
    BY DEF RowShown
  <2>2. PICK k \in DOMAIN records : s[k] = st[j]
    BY DEF Mirrors
  <2>3. records[k].key = row.key
    BY <2>1, <2>2 DEF Mirrors
  <2> QED
    BY <1>1, <2>3
<1> HIDE DEF own
<1>4. CASE row.null
  <2>1. \A r \in own : r.raw = << >>
    BY <1>2, <1>4
  <2> QED
    BY <1>4, <2>1 DEF Env!Outdated, own
<1>5. CASE ~row.null
  <2>1. \A r \in own : r.raw \in Env!ExpectedRaws(row)
    BY <1>2, <1>5 DEF Env!ExpectedRaws
  <2> QED
    BY <1>3, <1>5, <2>1 DEF Env!Outdated, own
<1> QED
  BY <1>4, <1>5

\* What is written of the value is read back as it, or not at all, and always where exact.
ReadBack(row, value, body) ==
  /\ Env!Decode(body, row) \in {Env!NoValue, value}
  /\ row.exact => Env!Decode(body, row) = value

LEMMA ItIsReadBack ==
  ASSUME NEW T, {"bs", "dq", "sq", "$"} \subseteq T, "bad" \notin T,
         NEW value \in Seq(T), value # << >>,
         NEW row, row.exact \in BOOLEAN, row.literal \in BOOLEAN,
         NEW body, body = Env!Encode(row, value)
  PROVE  ReadBack(row, value, body)
<1> DEFINE read == Env!Decode(Env!Encode(row, value), row)
<1>1. read \in {Env!NoValue, value} /\ (row.exact => read = value)
  BY WhatIsWrittenIsReadBack
<1> HIDE DEF read
<1>2. Env!Decode(body, row) = read
  BY DEF read
<1> QED
  BY <1>1, <1>2 DEF ReadBack

(***************************************************************************)
(* Where every line is one record, and the unlocked rows are as shown, the *)
(* file gives the exact row's value.                                       *)
(***************************************************************************)
LEMMA ShownIsGiven ==
  ASSUME NEW T, NEW file, NEW row, NEW value, NEW st, NEW m, NEW own,
         LaidFile(T, file, row, value, st, m, own),
         NEW body, body = Env!ExactFormat(row, value), Env!Decode(body, row) = value,
         Written(file.text, st[own], st[own + 1] - 1, body),
         \A j \in 1 .. m : j # own => Firm(file.text, st[j], st[j + 1] - 1),
         KeysDiffer(file.text, st, m),
         \A other \in file.rows :
           ~other.locked => other.null \in BOOLEAN /\ other.key # row.key
                            /\ RowShown(file.text, st, m, other)
  PROVE  Env!FromFile(row, file) = value
<1> DEFINE text == file.text
           at == st[own]
           end == st[own + 1] - 1
           escaped == {"bs", "dq"} \cup (IF Env!AllowsInterpolation(row, value) THEN {} ELSE {"$"})
           line == Env!LineAt(text, at)
<1>1. text \in Seq(T) /\ Lined(text, st, m) /\ own \in 1 .. m /\ row.key = text[st[own]]
  BY DEF LaidFile
<1>2. /\ {"bs", "dq", "sq", "$"} \subseteq T /\ "bad" \notin T
      /\ row.exact \in BOOLEAN /\ row.literal \in BOOLEAN /\ value \in Seq(T) /\ value # << >>
  BY DEF LaidFile
<1>3. Written(text, at, end, body)
  OBVIOUS
<1>4. \A j \in 1 .. m : j # own => Firm(text, st[j], st[j + 1] - 1)
  OBVIOUS
<1>5. KeysDiffer(text, st, m)
  OBVIOUS
<1>6. \A other \in file.rows :
        ~other.locked => other.null \in BOOLEAN /\ other.key # row.key /\ RowShown(text, st, m, other)
  OBVIOUS
<1>7. body = Env!Wrapped("dq", Env!Escaped(value, escaped)) /\ "bs" \in escaped /\ "dq" \in escaped
  BY DEF Env!ExactFormat, Env!EscapeComposeEnvFileValue
<1>8. text = file.text
  OBVIOUS
<1> HIDE DEF text, escaped
<1>9. /\ line.record.closed /\ line.record.raw = body
      /\ OneRecordAt(text, at, end)
  <2>1. Stands(text, at, end)
    BY <1>1, LinesStand
  <2>2. {"bs", "dq"} \subseteq T /\ line = Env!LineAt(text, at)
    BY <1>2
  <2> HIDE DEF at, end, line
  <2>3. line.record.closed /\ line.record.raw = body /\ line.next = end + 1 /\ line.record.key = text[at]
    BY <1>1, <1>2, <1>3, <1>7, <2>1, <2>2, ExactLine
  <2> QED
    BY <2>2, <2>3 DEF OneRecordAt
<1>10. ASSUME NEW j \in 1 .. m
       PROVE  /\ OneRecordAt(text, st[j], st[j + 1] - 1)
              /\ j # own => Env!LineAt(text, st[j]).record.raw = SubSeq(text, st[j] + 1, (st[j + 1] - 1) - 1)
  <2>1. CASE j = own
    BY <1>9, <2>1
  <2>2. CASE j # own
    <3> DEFINE a == st[j]
               e == st[j + 1] - 1
               l == Env!LineAt(text, a)
    <3>1. Stands(text, a, e) /\ Firm(text, a, e) /\ l = Env!LineAt(text, a)
      BY <1>1, <1>4, <2>2, LinesStand
    <3> HIDE DEF a, e, l
    <3>2. l.next = e + 1 /\ l.record.key = text[a] /\ l.record.raw = SubSeq(text, a + 1, e - 1)
      BY <3>1, FirmLine
    <3>3. OneRecordAt(text, a, e)
      BY <3>1, <3>2 DEF OneRecordAt
    <3> QED
      BY <3>1, <3>2, <3>3 DEF a, e
  <2> QED
    BY <2>1, <2>2
<1>11. PICK s : Walk(text, s, 1) /\ Env!ParseDotenv(text) = RecordsAt(text, s)
  <2>1. Len(text) \in Nat
    BY <1>1 DEF Lined
  <2> QED
    BY <2>1, ParseWalks
<1> DEFINE records == RecordsAt(text, s)
<1>12. /\ \A j \in 1 .. m : \E k \in 1 .. Len(s) : s[k] = st[j]
       /\ \A k \in 1 .. Len(s) : \E j \in 1 .. m : s[k] = st[j]
       /\ \A i, k \in 1 .. Len(s) :
            Env!LineAt(text, s[i]).record.key = Env!LineAt(text, s[k]).record.key => i = k
  <2>1. \A j \in 1 .. m : OneRecordAt(text, st[j], st[j + 1] - 1)
    BY <1>10
  <2> HIDE DEF at, end, line
  <2> QED
    BY <1>1, <1>5, <1>11, <2>1, RecordsAreLines
<1>13. DOMAIN records = 1 .. Len(s) /\ \A k \in 1 .. Len(s) : records[k] = Env!LineAt(text, s[k]).record
  BY DEF RecordsAt
<1>14. PICK k \in 1 .. Len(s) : s[k] = at
  BY <1>1, <1>12
<1>15. /\ k \in DOMAIN records /\ records[k] = line.record /\ records[k].key = row.key
       /\ records = Env!ParseDotenv(file.text)
  <2>1. records[k] = line.record
    BY <1>13, <1>14
  <2>2. line.record.key = text[at]
    BY <1>9 DEF OneRecordAt
  <2> QED
    BY <1>1, <1>8, <1>11, <1>13, <2>1, <2>2
<1> HIDE DEF records
<1>16. ASSUME NEW i \in DOMAIN records, NEW j \in DOMAIN records, records[i].key = records[j].key
       PROVE  i = j
  <2>1. i \in 1 .. Len(s) /\ j \in 1 .. Len(s)
    BY <1>13
  <2>2. Env!LineAt(text, s[i]).record.key = Env!LineAt(text, s[j]).record.key
    BY <1>13, <1>16, <2>1
  <2> QED
    BY <1>12, <2>1, <2>2
<1>17. ~Env!Repeated(records, row.key)
  BY <1>16 DEF Env!Repeated
<1>18. row.key \notin Env!OpenEnded(records, file.rows, file.collection)
  <2> SUFFICES ASSUME row.key \in Env!OpenEnded(records, file.rows, file.collection)
               PROVE  FALSE
    OBVIOUS
  <2>1. PICK j \in 1 .. Len(records) - 1 : row.key = records[j].key /\ ~records[j].closed
    BY DEF Env!OpenEnded
  <2>2. j \in DOMAIN records
    <3>1. Len(records) = Len(s) /\ Len(s) \in Nat
      <4>1. Len(records) = Len(s)
        BY DEF records, RecordsAt
      <4> QED
        BY <1>11, <4>1 DEF Walk
    <3> QED
      BY <1>13, <3>1
  <2>3. j = k
    BY <1>15, <1>16, <2>1, <2>2
  <2> QED
    BY <1>9, <1>15, <2>1, <2>3
<1>19. ~Env!Vague(records[k], records, file.rows, file.collection)
  BY <1>9, <1>15 DEF Env!Vague
<1>20. ASSUME NEW other \in file.rows, ~other.locked
       PROVE  ~Env!Outdated(other, records, file.rows, file.collection)
  <2>1. other.null \in BOOLEAN /\ other.key # row.key /\ RowShown(text, st, m, other)
    BY <1>6, <1>20
  <2>2. \A j \in 1 .. m : \E i \in DOMAIN records : s[i] = st[j]
    BY <1>12, <1>13
  <2>3. \A i \in DOMAIN records : \E j \in 1 .. m : s[i] = st[j]
    BY <1>12, <1>13
  <2>4. ASSUME NEW j \in 1 .. m, NEW i \in DOMAIN records, s[i] = st[j]
        PROVE  /\ records[i].key = text[st[j]]
               /\ text[st[j]] = other.key =>
                    records[i].raw = SubSeq(text, st[j] + 1, (st[j + 1] - 1) - 1)
    <3>1. records[i] = Env!LineAt(text, st[j]).record
      BY <1>13, <2>4
    <3>2. records[i].key = text[st[j]]
      BY <1>10, <3>1 DEF OneRecordAt
    <3>3. CASE j = own
      BY <1>1, <2>1, <3>2, <3>3
    <3>4. CASE j # own
      BY <1>10, <3>1, <3>2, <3>4
    <3> QED
      BY <3>3, <3>4
  <2>5. Mirrors(text, st, m, s, records, other.key)
    BY <2>2, <2>3, <2>4 DEF Mirrors
  <2> QED
    BY <2>1, <2>5, ShownIsCurrent
<1>21. ~Env!Stale(records, file.rows, file.collection)
  BY <1>20 DEF Env!Stale
<1>22. Env!FromFile(row, file) = Env!Decode(records[k].raw, row)
  <2>1. Gives(records[k], records, row, file)
    BY <1>17, <1>18, <1>19, <1>21 DEF Gives
  <2>2. Env!FromFile(row, file) =
          IF Gives(records[k], records, row, file) THEN Env!Decode(records[k].raw, row) ELSE Env!NoValue
    BY <1>15, OneRecord
  <2> QED
    BY <2>1, <2>2
<1> QED
  BY <1>9, <1>15, <1>22

\* Where every row is exact, what the file gives of the row is its value.
LEMMA ExactIsRecovered ==
  ASSUME NEW T, NEW file, NEW row, NEW value, NEW st, NEW m, NEW own,
         LaidFile(T, file, row, value, st, m, own),
         \A j \in 1 .. m : j # own => Firm(file.text, st[j], st[j + 1] - 1),
         KeysDiffer(file.text, st, m),
         \A other \in file.rows :
           ~other.locked => other.null \in BOOLEAN /\ other.key # row.key
                            /\ RowShown(file.text, st, m, other)
  PROVE  row.exact = TRUE => Env!FromFile(row, file) = value
<1> DEFINE body == Env!ExactFormat(row, value)
<1>1. /\ {"bs", "dq", "sq", "$"} \subseteq T /\ "bad" \notin T
      /\ row.exact \in BOOLEAN /\ row.literal \in BOOLEAN /\ value \in Seq(T) /\ value # << >>
  BY DEF LaidFile
<1>2. row.exact = TRUE => Written(file.text, st[own], st[own + 1] - 1, body)
  BY DEF LaidFile
<1>3. row.exact = TRUE => Env!Decode(body, row) = value
  <2> DEFINE raw == Env!Encode(row, value)
  <2>1. raw = Env!Encode(row, value)
    OBVIOUS
  <2> HIDE DEF raw
  <2>2. ReadBack(row, value, raw)
    BY <1>1, <2>1, ItIsReadBack
  <2>3. row.exact = TRUE => raw = body
    BY DEF raw, Env!Encode
  <2> HIDE DEF body
  <2> QED
    BY <2>2, <2>3 DEF ReadBack
<1>4. body = Env!ExactFormat(row, value)
  OBVIOUS
<1> HIDE DEF body
<1>5. Env!Decode(body, row) = value /\ Written(file.text, st[own], st[own + 1] - 1, body)
        => Env!FromFile(row, file) = value
  BY <1>4, ShownIsGiven
<1> QED
  BY <1>2, <1>3, <1>5

(***************************************************************************)
(* What a file may be made of: the lines of the rows, each with a key of   *)
(* its own.                                                                *)
(***************************************************************************)
LinesOf(lines) == {lines[i] : i \in DOMAIN lines}

OnePerKey(lines) == \A i, j \in DOMAIN lines : lines[i][1] = lines[j][1] => i = j

LEMMA JoinedLines ==
  ASSUME NEW S, NEW s \in Seq(S), NEW t \in Seq(S), OnePerKey(s), OnePerKey(t),
         \A a \in LinesOf(s), b \in LinesOf(t) : a[1] # b[1]
  PROVE  /\ s \o t \in Seq(S)
         /\ OnePerKey(s \o t)
         /\ LinesOf(s \o t) = LinesOf(s) \cup LinesOf(t)
<1> DEFINE u == s \o t
<1>1. /\ u \in Seq(S) /\ Len(s) \in Nat /\ Len(t) \in Nat
      /\ DOMAIN u = 1 .. Len(s) + Len(t) /\ DOMAIN s = 1 .. Len(s) /\ DOMAIN t = 1 .. Len(t)
      /\ \A i \in 1 .. Len(s) + Len(t) : u[i] = IF i <= Len(s) THEN s[i] ELSE t[i - Len(s)]
  BY ConcatProperties
<1> HIDE DEF u
<1>2. ASSUME NEW i \in DOMAIN u
      PROVE  \/ i \in DOMAIN s /\ u[i] = s[i]
             \/ i > Len(s) /\ i - Len(s) \in DOMAIN t /\ u[i] = t[i - Len(s)]
  BY <1>1
<1>3. OnePerKey(u)
  <2> SUFFICES ASSUME NEW i \in DOMAIN u, NEW j \in DOMAIN u, u[i][1] = u[j][1]
               PROVE  i = j
    BY DEF OnePerKey
  <2>0. i \in Nat /\ j \in Nat
    BY <1>1
  <2>1. CASE i \in DOMAIN s /\ u[i] = s[i] /\ j \in DOMAIN s /\ u[j] = s[j]
    BY <2>1 DEF OnePerKey
  <2>2. CASE /\ i > Len(s) /\ i - Len(s) \in DOMAIN t /\ u[i] = t[i - Len(s)]
             /\ j > Len(s) /\ j - Len(s) \in DOMAIN t /\ u[j] = t[j - Len(s)]
    <3>1. i - Len(s) = j - Len(s)
      BY <2>2 DEF OnePerKey
    <3> QED
      BY <2>0, <3>1, <1>1
  <2>3. CASE /\ i \in DOMAIN s /\ u[i] = s[i]
             /\ j - Len(s) \in DOMAIN t /\ u[j] = t[j - Len(s)]
    BY <2>3 DEF LinesOf
  <2>4. CASE /\ j \in DOMAIN s /\ u[j] = s[j]
             /\ i - Len(s) \in DOMAIN t /\ u[i] = t[i - Len(s)]
    BY <2>4 DEF LinesOf
  <2> QED
    BY <1>2, <2>1, <2>2, <2>3, <2>4
<1>4. \A i \in DOMAIN s : i \in DOMAIN u /\ u[i] = s[i]
  BY <1>1
<1>5. \A i \in DOMAIN t : i + Len(s) \in DOMAIN u /\ u[i + Len(s)] = t[i]
  BY <1>1
<1>6. LinesOf(u) = LinesOf(s) \cup LinesOf(t)
  <2>1. LinesOf(u) \subseteq LinesOf(s) \cup LinesOf(t)
    BY <1>2 DEF LinesOf
  <2>2. LinesOf(s) \subseteq LinesOf(u)
    BY <1>4 DEF LinesOf
  <2>3. LinesOf(t) \subseteq LinesOf(u)
    BY <1>5 DEF LinesOf
  <2> QED
    BY <2>1, <2>2, <2>3
<1> QED
  BY <1>1, <1>3, <1>6 DEF u

\* No line, or the one.
AtMostOne(lines, line) == lines = << >> \/ lines = << line >>

LEMMA ShortLines ==
  ASSUME NEW S, NEW line \in S, NEW lines, AtMostOne(lines, line)
  PROVE  /\ lines \in Seq(S) /\ OnePerKey(lines)
         /\ LinesOf(lines) = IF lines = << >> THEN {} ELSE {line}
<1>1. CASE lines = << >>
  BY <1>1 DEF OnePerKey, LinesOf
<1>2. CASE lines = << line >>
  <2>1. LinesOf(<< line >>) = {line}
    BY DEF LinesOf
  <2>2. OnePerKey(<< line >>)
    BY DEF OnePerKey
  <2>3. << line >> \in Seq(S) /\ << line >> # << >>
    OBVIOUS
  <2> QED
    BY <1>2, <2>1, <2>2, <2>3
<1> QED
  BY <1>1, <1>2 DEF AtMostOne

\* Four of them one after the other.
Apart(a, b, c, d) ==
  a[1] # b[1] /\ a[1] # c[1] /\ a[1] # d[1] /\ b[1] # c[1] /\ b[1] # d[1] /\ c[1] # d[1]

LinesFrom(S, lines, r, s, t, u) ==
  /\ lines \in Seq(S) /\ OnePerKey(lines)
  /\ LinesOf(lines) = (LinesOf(r) \cup LinesOf(s)) \cup (LinesOf(t) \cup LinesOf(u))

LEMMA FourLines ==
  ASSUME NEW S, NEW a \in S, NEW b \in S, NEW c \in S, NEW d \in S,
         Apart(a, b, c, d),
         NEW r, NEW s, NEW t, NEW u, AtMostOne(r, a), AtMostOne(s, b), AtMostOne(t, c), AtMostOne(u, d),
         NEW lines, lines = r \o s \o t \o u
  PROVE  LinesFrom(S, lines, r, s, t, u)
<1>1. /\ r \in Seq(S) /\ OnePerKey(r) /\ LinesOf(r) \subseteq {a}
      /\ s \in Seq(S) /\ OnePerKey(s) /\ LinesOf(s) \subseteq {b}
  BY ShortLines
<1>2. /\ t \in Seq(S) /\ OnePerKey(t) /\ LinesOf(t) \subseteq {c}
      /\ u \in Seq(S) /\ OnePerKey(u) /\ LinesOf(u) \subseteq {d}
  BY ShortLines
<1> DEFINE two == r \o s
           three == two \o t
<1>3. two \in Seq(S) /\ OnePerKey(two) /\ LinesOf(two) = LinesOf(r) \cup LinesOf(s)
  <2>1. \A x \in LinesOf(r), y \in LinesOf(s) : x[1] # y[1]
    BY <1>1 DEF Apart
  <2> QED
    BY <1>1, <2>1, JoinedLines
<1> HIDE DEF two
<1>4. three \in Seq(S) /\ OnePerKey(three) /\ LinesOf(three) = LinesOf(two) \cup LinesOf(t)
  <2>1. \A x \in LinesOf(two), y \in LinesOf(t) : x[1] # y[1]
    BY <1>1, <1>2, <1>3 DEF Apart
  <2> QED
    BY <1>2, <1>3, <2>1, JoinedLines
<1>5. lines = three \o u
  BY DEF two
<1> HIDE DEF three
<1>6. lines \in Seq(S) /\ OnePerKey(lines) /\ LinesOf(lines) = LinesOf(three) \cup LinesOf(u)
  <2>1. \A x \in LinesOf(three), y \in LinesOf(u) : x[1] # y[1]
    BY <1>1, <1>2, <1>3, <1>4 DEF Apart
  <2> QED
    BY <1>2, <1>4, <1>5, <2>1, JoinedLines
<1> QED
  BY <1>3, <1>4, <1>6 DEF LinesFrom

(***************************************************************************)
(* A text without what is escaped is escaped as itself.                    *)
(***************************************************************************)
LEMMA PlainEscaped ==
  ASSUME NEW T, "bs" \in T, NEW text \in Seq(T), text # << >>, NEW escaped,
         \A i \in 1 .. Len(text) : text[i] \notin escaped
  PROVE  Env!Escaped(text, escaped) = text
<1> DEFINE n == Len(text)
           raw == Env!Escaped(text, escaped)
<1>1. n \in Nat \ {0} /\ \A i \in 1 .. n : text[i] \in T
  OBVIOUS
<1>2. raw \in Seq(T) /\ \E start : LaidOut(raw, text, escaped, start)
  BY EscapedIsLaidOut
<1>3. PICK start : LaidOut(raw, text, escaped, start)
  BY <1>2
<1> HIDE DEF raw
<1>4. /\ start[1] = 0 /\ start[n + 1] = Len(raw)
      /\ \A k \in 1 .. n : start[k + 1] = start[k] + 1 /\ raw[start[k] + 1] = text[k]
  <2>1. /\ start[1] = 0 /\ start[n + 1] = Len(raw)
        /\ \A k \in 1 .. n :
             /\ start[k + 1] = start[k] + Len(Piece(text[k], escaped))
             /\ \A i \in 1 .. Len(Piece(text[k], escaped)) :
                  raw[start[k] + i] = Piece(text[k], escaped)[i]
    BY <1>3 DEF LaidOut
  <2>2. \A k \in 1 .. n : Len(Piece(text[k], escaped)) = 1 /\ Piece(text[k], escaped)[1] = text[k]
    BY DEF Piece
  <2>3. 1 \in 1 .. 1
    OBVIOUS
  <2> HIDE DEF n
  <2> QED
    BY <2>1, <2>2, <2>3
<1> HIDE DEF n
<1> DEFINE M == {k \in Nat : k + 1 \in 1 .. n + 1 => start[k + 1] = k}
<1>5. 0 \in M
  BY <1>4
<1>6. ASSUME NEW k \in Nat, k \in M
      PROVE  k + 1 \in M
  <2> SUFFICES ASSUME (k + 1) + 1 \in 1 .. n + 1
               PROVE  start[(k + 1) + 1] = k + 1
    OBVIOUS
  <2>1. k + 1 \in 1 .. n /\ k + 1 \in 1 .. n + 1
    BY <1>1
  <2> QED
    BY <1>4, <1>6, <2>1
<1> HIDE DEF M
<1>7. \A k \in 1 .. n + 1 : start[k] = k - 1
  <2> SUFFICES ASSUME NEW k \in 1 .. n + 1
               PROVE  start[k] = k - 1
    OBVIOUS
  <2>1. k - 1 \in M /\ (k - 1) + 1 = k
    <3>1. Nat \subseteq M
      BY <1>5, <1>6, NatSetInduction
    <3>2. k - 1 \in Nat /\ (k - 1) + 1 = k
      BY <1>1
    <3> QED
      BY <3>1, <3>2
  <2> QED
    BY <2>1 DEF M
<1>8. Len(raw) = n
  <2>1. n + 1 \in 1 .. n + 1
    BY <1>1
  <2> QED
    BY <1>1, <1>4, <1>7, <2>1
<1>9. \A k \in 1 .. n : raw[k] = text[k]
  <2> SUFFICES ASSUME NEW k \in 1 .. n
               PROVE  raw[k] = text[k]
    OBVIOUS
  <2>1. k \in 1 .. n + 1 /\ (k - 1) + 1 = k
    BY <1>1
  <2> QED
    BY <1>4, <1>7, <2>1
<1>10. raw = text
  BY <1>2, <1>8, <1>9, SeqEqual DEF n
<1> QED
  BY <1>10 DEF raw

LiesAt(text, at, line) == \A i \in 1 .. Len(line) : text[at + i - 1] = line[i]

LineKept(text, at, end, line) ==
  /\ text[at] = line[1]
  /\ Tame(line, 1, Len(line) + 1) => Tame(text, at, end)
  /\ Firm(line, 1, Len(line) + 1) => Firm(text, at, end)

\* A line of a file, by what it is of itself.
LEMMA PlacedLine ==
  ASSUME NEW T, NEW text, NEW at \in Nat, NEW line \in Seq(T), line # << >>,
         NEW end, end = at + Len(line),
         LiesAt(text, at, line)
  PROVE  LineKept(text, at, end, line)
<1> DEFINE n == Len(line)
<1>1. n \in Nat \ {0} /\ end = at + n
  BY EmptySeq
<1>2. \A i \in 1 .. n : text[at + i - 1] = line[i]
  BY DEF LiesAt
<1> HIDE DEF n
<1>3. \A i \in at .. end - 1 : i - at + 1 \in 1 .. n /\ at + (i - at + 1) - 1 = i
  BY <1>1
<1>4. \A i \in at .. end - 1 : text[i] = line[i - at + 1]
  BY <1>2, <1>3
<1>5. text[at] = line[1]
  <2>1. 1 \in 1 .. n /\ at + 1 - 1 = at
    BY <1>1
  <2> QED
    BY <1>2, <2>1
<1>6. /\ n >= 2 => text[at + 1] = line[2] /\ text[end - 1] = line[n]
      /\ n >= 3 => text[at + 2] = line[3]
  <2>1. n >= 2 => /\ at + 1 \in at .. end - 1 /\ (at + 1) - at + 1 = 2
                  /\ end - 1 \in at .. end - 1 /\ (end - 1) - at + 1 = n
    BY <1>1
  <2>2. n >= 3 => at + 2 \in at .. end - 1 /\ (at + 2) - at + 1 = 3
    BY <1>1
  <2> QED
    BY <1>4, <2>1, <2>2
<1>7. /\ \A i \in at + 1 .. end - 1 : i - at + 1 \in 1 + 1 .. (n + 1) - 1 /\ text[i] = line[i - at + 1]
      /\ \A i \in at + 2 .. end - 2 : i - at + 1 \in 1 + 2 .. (n + 1) - 2 /\ text[i] = line[i - at + 1]
  BY <1>1, <1>4
<1>8. (n + 1) - 1 = n /\ 1 + 1 = 2 /\ 1 + 2 = 3
      /\ (1 + 4 <= n + 1 => n >= 3 /\ n >= 2 /\ at + 4 <= end)
      /\ (1 + 3 <= n + 1 => n >= 2 /\ at + 3 <= end)
  BY <1>1
<1>9. ASSUME NEW quote, NEW others, 1 + 4 <= n + 1 \/ 1 + 3 <= n + 1,
             line[1 + 1] = quote, line[(n + 1) - 1] = quote,
             \A i \in 1 + 2 .. (n + 1) - 2 : line[i] \notin others
      PROVE  /\ text[at + 1] = quote /\ text[end - 1] = quote
             /\ \A i \in at + 2 .. end - 2 : text[i] \notin others
  BY <1>6, <1>7, <1>8, <1>9
<1>10. ASSUME NEW others, \A i \in 1 + 1 .. (n + 1) - 1 : line[i] \notin others
       PROVE  \A i \in at + 1 .. end - 1 : text[i] \notin others
  BY <1>7, <1>10
<1>11. Tame(line, 1, n + 1) => Tame(text, at, end)
  <2>1. CASE \A i \in 1 + 1 .. (n + 1) - 1 : line[i] \notin {"dq", "sq"}
    BY <1>10, <2>1 DEF Tame
  <2>2. CASE /\ 1 + 4 <= n + 1 /\ line[1 + 1] = "dq" /\ line[(n + 1) - 1] = "dq" /\ line[1 + 2] # "nl"
             /\ \A i \in 1 + 2 .. (n + 1) - 2 : line[i] \notin {"dq", "bs"}
    BY <1>6, <1>8, <1>9, <2>2 DEF Tame
  <2>3. CASE /\ 1 + 3 <= n + 1 /\ line[1 + 1] = "sq" /\ line[(n + 1) - 1] = "sq"
             /\ \A i \in 1 + 2 .. (n + 1) - 2 : line[i] \notin {"dq", "sq"}
    BY <1>8, <1>9, <2>3 DEF Tame
  <2> QED
    BY <2>1, <2>2, <2>3 DEF Tame
<1>12. Firm(line, 1, n + 1) => Firm(text, at, end)
  <2>1. CASE \A i \in 1 + 1 .. (n + 1) - 1 : line[i] \notin {"dq", "sq", "nl"}
    BY <1>10, <2>1 DEF Firm
  <2>2. CASE /\ 1 + 4 <= n + 1 /\ line[1 + 1] = "dq" /\ line[(n + 1) - 1] = "dq" /\ line[1 + 2] # "nl"
             /\ \A i \in 1 + 2 .. (n + 1) - 2 : line[i] \notin {"dq", "bs"}
    BY <1>6, <1>8, <1>9, <2>2 DEF Firm
  <2> QED
    BY <2>1, <2>2 DEF Firm
<1> QED
  BY <1>5, <1>11, <1>12 DEF n, LineKept

\* A line of a key and a value, laid out.
LEMMA PlacedBody ==
  ASSUME NEW T, NEW text, NEW at \in Nat, NEW key \in T, NEW body \in Seq(T),
         NEW line, line = <<key>> \o body, NEW end, end = at + Len(line),
         LiesAt(text, at, line)
  PROVE  Written(text, at, end, body)
<1>1. /\ Len(line) = Len(body) + 1 /\ Len(body) \in Nat
      /\ \A i \in 1 .. Len(body) : line[i + 1] = body[i]
  <2>1. <<key>> \in Seq(T) /\ Len(<<key>>) = 1 /\ Len(body) \in Nat
    OBVIOUS
  <2>2. /\ Len(line) = 1 + Len(body)
        /\ \A i \in 1 .. 1 + Len(body) : line[i] = IF i <= 1 THEN <<key>>[i] ELSE body[i - 1]
    BY <2>1, ConcatProperties
  <2>3. \A i \in 1 .. Len(body) : i + 1 \in 1 .. 1 + Len(body) /\ ~(i + 1 <= 1) /\ (i + 1) - 1 = i
    BY <2>1
  <2> QED
    BY <2>1, <2>2, <2>3
<1>2. end = at + Len(body) + 1
  BY <1>1
<1>3. ASSUME NEW i \in 1 .. Len(body)
      PROVE  text[at + i] = body[i]
  <2>1. i + 1 \in 1 .. Len(line) /\ at + (i + 1) - 1 = at + i
    BY <1>1
  <2> QED
    BY <1>1, <2>1 DEF LiesAt
<1> QED
  BY <1>2, <1>3 DEF Written

(***************************************************************************)
(* A question about a locked row of a file: the file is the lines of its   *)
(* rows, each with a key of its own, in some order.                        *)
(***************************************************************************)
HasRow(T, lines, row, value) ==
  \E body \in Seq(T) :
    /\ <<row.key>> \o body \in LinesOf(lines)
    /\ \/ body = Env!ExactFormat(row, value)
       \/ /\ ~row.exact /\ Trimmed(value) /\ ~(row.literal /\ EndsInKey(value))
          /\ body = Env!LegacyFormat(row, value)

\* An unlocked row has the line the API lets expect, if one.
RowIn(T, lines, row) ==
  /\ ~row.null => \E line \in LinesOf(lines) : line[1] = row.key
  /\ \A line \in LinesOf(lines) :
       line[1] = row.key =>
         \E body \in Seq(T) : /\ line = <<row.key>> \o body
                              /\ body = IF row.null THEN << >> ELSE Env!ExactFormat(row, row.real)

ExactFile(T, file, own, lines) ==
  /\ \A line \in LinesOf(lines) : line[1] # own.key => Firm(line, 1, Len(line) + 1)
  /\ \A row \in file.rows :
       ~row.locked => row.null \in BOOLEAN /\ row.key # own.key /\ RowIn(T, lines, row)

LinesOfFile(T, file, own, value, lines) ==
  /\ lines \in Seq(Seq(T)) /\ file.text = Joined(lines) /\ OnePerKey(lines)
  /\ \A line \in LinesOf(lines) : line # << >> /\ line[1] \in Env!Keys
  /\ \A key \in Sure(file) : \E line \in LinesOf(lines) : line[1] = key
  /\ HasRow(T, lines, own, value)
  /\ \A line \in LinesOf(lines) : line[1] # own.key => Tame(line, 1, Len(line) + 1)
  /\ (\A row \in file.rows : row.exact) => ExactFile(T, file, own, lines)

EnvQuestion(q, T) ==
  /\ q.kind = "env_asked"
  /\ {"bs", "dq", "sq", "$", "nl"} \subseteq T /\ "bad" \notin T /\ Env!Keys \subseteq T
  /\ q.row \in q.file.rows /\ q.row.locked = TRUE /\ KnownKeys(q.file)
  /\ q.row.exact \in BOOLEAN /\ q.row.literal \in BOOLEAN
  /\ q.value \in Seq(T) /\ q.value # << >>
  /\ \E lines : LinesOfFile(T, q.file, q.row, q.value, lines)

\* Where the lines are, the rows are as the file shows them.
LEMMA RowIsShown ==
  ASSUME NEW T, Env!Keys \subseteq T, NEW lines \in Seq(Seq(T)), NEW text \in Seq(T), NEW st, NEW m,
         Len(lines) = m, Lined(text, st, m), PlacedAt(text, lines, st, m),
         NEW row, row.key \in Env!Keys, row.null \in BOOLEAN, RowIn(T, lines, row),
         \A j \in 1 .. m : lines[j] \in Seq(T) /\ lines[j] # << >> /\ text[st[j]] = lines[j][1]
  PROVE  RowShown(text, st, m, row)
<1>1. DOMAIN lines = 1 .. m /\ LinesOf(lines) = {lines[j] : j \in 1 .. m}
  <2>1. DOMAIN lines = 1 .. Len(lines)
    BY LenProperties
  <2>2. DOMAIN lines = 1 .. m
    BY <2>1
  <2> QED
    BY <2>2 DEF LinesOf
<1>2. ~row.null => \E j \in 1 .. m : text[st[j]] = row.key
  BY <1>1 DEF RowIn
<1>3. ASSUME NEW j \in 1 .. m, text[st[j]] = row.key
      PROVE  SubSeq(text, st[j] + 1, (st[j + 1] - 1) - 1)
               = IF row.null THEN << >> ELSE Env!ExactFormat(row, row.real)
  <2> DEFINE line == lines[j]
             at == st[j]
             end == st[j + 1] - 1
             body == IF row.null THEN << >> ELSE Env!ExactFormat(row, row.real)
  <2>1. line \in LinesOf(lines) /\ line[1] = row.key /\ line \in Seq(T)
    BY <1>1, <1>3
  <2>2. body \in Seq(T) /\ line = <<row.key>> \o body
    BY <2>1 DEF RowIn
  <2>3. Stands(text, at, end) /\ at \in Nat /\ st[j + 1] \in Nat
    BY LinesStand
  <2>4. end = at + Len(line) /\ LiesAt(text, at, line)
    <3>1. st[j + 1] = at + Len(line) + 1 /\ Len(line) \in Nat
      BY <2>1 DEF PlacedAt
    <3>2. LiesAt(text, at, line)
      BY DEF PlacedAt, LiesAt
    <3> QED
      BY <2>3, <3>1, <3>2
  <2> DEFINE key == row.key
  <2>5. key \in T /\ line = <<key>> \o body
    BY <2>2
  <2> HIDE DEF line, at, end, body, key
  <2>6. Written(text, at, end, body)
    <3>1. at \in Nat /\ body \in Seq(T) /\ line \in Seq(T)
      BY <2>1, <2>2, <2>3
    <3> QED
      BY <2>4, <2>5, <3>1, PlacedBody
  <2>7. SubSeq(text, at + 1, end - 1) = body
    <3>1. body \in Seq(T) /\ Stands(text, at, end)
      BY <2>2, <2>3 DEF at, end
    <3> QED
      BY <2>6, <3>1, RawIsBody
  <2> QED
    BY <2>7 DEF at, end, body
<1> QED
  BY <1>2, <1>3 DEF RowShown

\* The file of such a question is laid out.
LEMMA FileIsLaid ==
  ASSUME NEW q, NEW T, EnvQuestion(q, T)
  PROVE  \E st, m, own :
           /\ LaidFile(T, q.file, q.row, q.value, st, m, own)
           /\ KeysDiffer(q.file.text, st, m)
           /\ (\A row \in q.file.rows : row.exact) =>
                /\ \A j \in 1 .. m : j # own => Firm(q.file.text, st[j], st[j + 1] - 1)
                /\ \A row \in q.file.rows :
                     ~row.locked => row.null \in BOOLEAN /\ row.key # q.row.key
                                    /\ RowShown(q.file.text, st, m, row)
<1> DEFINE file == q.file
           row == q.row
           value == q.value
           text == file.text
<1>1. /\ {"bs", "dq", "sq", "$", "nl"} \subseteq T /\ "bad" \notin T /\ Env!Keys \subseteq T
      /\ row \in file.rows /\ KnownKeys(file)
      /\ row.exact \in BOOLEAN /\ row.literal \in BOOLEAN
      /\ value \in Seq(T) /\ value # << >>
  BY DEF EnvQuestion
<1>2. PICK lines : LinesOfFile(T, file, row, value, lines)
  BY DEF EnvQuestion
<1> HIDE DEF row, value
<1>3. /\ lines \in Seq(Seq(T)) /\ text = Joined(lines) /\ OnePerKey(lines)
      /\ \A line \in LinesOf(lines) : line # << >> /\ line[1] \in Env!Keys
      /\ \A key \in Sure(file) : \E line \in LinesOf(lines) : line[1] = key
      /\ HasRow(T, lines, row, value)
      /\ \A line \in LinesOf(lines) : line[1] # row.key => Tame(line, 1, Len(line) + 1)
  BY <1>2 DEF LinesOfFile
<1>4. (\A r \in file.rows : r.exact) => ExactFile(T, file, row, lines)
  BY <1>2 DEF LinesOfFile
<1> HIDE DEF text, file
<1> DEFINE m == Len(lines)
<1>5. /\ m \in Nat /\ DOMAIN lines = 1 .. m /\ LinesOf(lines) = {lines[j] : j \in 1 .. m}
      /\ \A j \in 1 .. m : lines[j] \in Seq(T)
  BY <1>3 DEF LinesOf
<1>6. PICK body \in Seq(T) :
        /\ <<row.key>> \o body \in LinesOf(lines)
        /\ \/ body = Env!ExactFormat(row, value)
           \/ /\ ~row.exact /\ Trimmed(value) /\ ~(row.literal /\ EndsInKey(value))
              /\ body = Env!LegacyFormat(row, value)
  BY <1>3 DEF HasRow
<1>7. PICK own \in 1 .. m : lines[own] = <<row.key>> \o body
  BY <1>5, <1>6
<1>8. m \in Nat \ {0}
  BY <1>5, <1>7
<1>9. m = Len(lines) /\ \A j \in 1 .. m : lines[j] # << >> /\ lines[j][1] \in Env!Keys
  BY <1>3, <1>5
<1> HIDE DEF m
<1>10. text \in Seq(T) /\ \E st : Lined(text, st, m) /\ PlacedAt(text, lines, st, m)
  BY <1>1, <1>3, <1>8, <1>9, JoinedIsLined
<1>11. PICK st : Lined(text, st, m) /\ PlacedAt(text, lines, st, m)
  BY <1>10
<1>12. ASSUME NEW j \in 1 .. m
       PROVE  LineKept(text, st[j], st[j + 1] - 1, lines[j])
  <2> DEFINE line == lines[j]
             at == st[j]
             end == st[j + 1] - 1
  <2>1. line \in Seq(T) /\ line # << >>
    BY <1>5, <1>9
  <2>2. at \in Nat /\ end = at + Len(line) /\ LiesAt(text, at, line)
    <3>1. at \in Nat /\ st[j + 1] \in Nat
      BY <1>11, LinesStand
    <3>2. st[j + 1] = at + Len(line) + 1 /\ Len(line) \in Nat
      BY <1>11, <2>1 DEF PlacedAt
    <3>3. LiesAt(text, at, line)
      BY <1>11 DEF PlacedAt, LiesAt
    <3> QED
      BY <3>1, <3>2, <3>3
  <2> HIDE DEF line, at, end
  <2>3. LineKept(text, at, end, line)
    BY <2>1, <2>2, PlacedLine
  <2> QED
    BY <2>3 DEF line, at, end
<1>23. \A j \in 1 .. m : text[st[j]] = lines[j][1]
  BY <1>12 DEF LineKept
<1>13. row.key \in Env!Keys /\ row.key \in T
  BY <1>1 DEF KnownKeys
<1>14. Written(text, st[own], st[own + 1] - 1, body) /\ lines[own][1] = row.key
  <2> DEFINE line == lines[own]
             at == st[own]
             end == st[own + 1] - 1
             key == row.key
  <2>1. line \in Seq(T) /\ line = <<key>> \o body /\ key \in T
    BY <1>5, <1>7, <1>13
  <2>2. at \in Nat /\ end = at + Len(line) /\ LiesAt(text, at, line)
    <3>1. at \in Nat /\ st[own + 1] \in Nat
      BY <1>11, LinesStand
    <3>2. st[own + 1] = at + Len(line) + 1 /\ Len(line) \in Nat
      BY <1>11, <2>1 DEF PlacedAt
    <3>3. LiesAt(text, at, line)
      BY <1>11 DEF PlacedAt, LiesAt
    <3> QED
      BY <3>1, <3>2, <3>3
  <2> HIDE DEF line, at, end, key
  <2>3. Written(text, at, end, body)
    BY <2>1, <2>2, PlacedBody
  <2>4. line[1] = key
    BY <2>1
  <2> QED
    BY <2>3, <2>4 DEF line, at, end, key
<1>15. \A i, j \in 1 .. m : lines[i][1] = lines[j][1] => i = j
  BY <1>3, <1>5, <1>9 DEF OnePerKey
<1>16. KeysDiffer(text, st, m)
  BY <1>15, <1>23 DEF KeysDiffer
<1>17. \A j \in 1 .. m : j # own => lines[j][1] # row.key
  BY <1>14, <1>15
<1>18. \A j \in 1 .. m : j # own => Tame(text, st[j], st[j + 1] - 1)
  <2>1. SUFFICES ASSUME NEW j \in 1 .. m, j # own
                 PROVE  Tame(text, st[j], st[j + 1] - 1)
    OBVIOUS
  <2>2. lines[j] \in LinesOf(lines) /\ lines[j][1] # row.key
    BY <1>5, <1>17, <2>1
  <2>3. Tame(lines[j], 1, Len(lines[j]) + 1)
    BY <1>3, <2>2
  <2> QED
    BY <1>12, <2>3 DEF LineKept
<1>19. \A key \in Sure(file) : \E j \in 1 .. m : text[st[j]] = key
  <2>1. SUFFICES ASSUME NEW key \in Sure(file)
                 PROVE  \E j \in 1 .. m : text[st[j]] = key
    OBVIOUS
  <2>2. PICK line \in LinesOf(lines) : line[1] = key
    BY <1>3, <2>1
  <2>3. PICK j \in 1 .. m : line = lines[j]
    BY <1>5, <2>2
  <2> QED
    BY <1>23, <2>2, <2>3
<1>20. text = file.text
  BY DEF text
<1>21. LaidFile(T, file, row, value, st, m, own)
  <2>1. \/ Written(text, st[own], st[own + 1] - 1, Env!ExactFormat(row, value))
        \/ /\ ~row.exact /\ Trimmed(value) /\ ~(row.literal /\ EndsInKey(value))
           /\ Written(text, st[own], st[own + 1] - 1, Env!LegacyFormat(row, value))
    BY <1>6, <1>14
  <2>2. row.key = text[st[own]]
    BY <1>14, <1>23
  <2>3. {"bs", "dq", "sq", "$"} \subseteq T
    BY <1>1
  <2> QED
    BY <1>1, <1>10, <1>11, <1>18, <1>19, <1>20, <2>1, <2>2, <2>3 DEF LaidFile
<1>22. ASSUME \A r \in file.rows : r.exact
       PROVE  /\ \A j \in 1 .. m : j # own => Firm(text, st[j], st[j + 1] - 1)
              /\ \A r \in file.rows :
                   ~r.locked => r.null \in BOOLEAN /\ r.key # row.key /\ RowShown(text, st, m, r)
  <2>1. ExactFile(T, file, row, lines)
    BY <1>4, <1>22
  <2>2. \A j \in 1 .. m : j # own => Firm(text, st[j], st[j + 1] - 1)
    <3>1. SUFFICES ASSUME NEW j \in 1 .. m, j # own
                   PROVE  Firm(text, st[j], st[j + 1] - 1)
      OBVIOUS
    <3>2. lines[j] \in LinesOf(lines) /\ lines[j][1] # row.key
      BY <1>5, <1>17, <3>1
    <3>3. Firm(lines[j], 1, Len(lines[j]) + 1)
      BY <2>1, <3>2 DEF ExactFile
    <3> QED
      BY <1>12, <3>3 DEF LineKept
  <2>3. ASSUME NEW r \in file.rows, ~r.locked
        PROVE  r.null \in BOOLEAN /\ r.key # row.key /\ RowShown(text, st, m, r)
    <3>1. r.null \in BOOLEAN /\ r.key # row.key /\ RowIn(T, lines, r)
      BY <2>1, <2>3 DEF ExactFile
    <3>2. r.key \in Env!Keys /\ Env!Keys \subseteq T
      BY <1>1 DEF KnownKeys
    <3>3. \A j \in 1 .. m : lines[j] \in Seq(T) /\ lines[j] # << >> /\ text[st[j]] = lines[j][1]
      BY <1>5, <1>9, <1>23
    <3>4. RowShown(text, st, m, r)
      BY <1>3, <1>9, <1>10, <1>11, <3>1, <3>2, <3>3, RowIsShown
    <3> QED
      BY <3>1, <3>4
  <2> QED
    BY <2>2, <2>3
<1> QED
  BY <1>16, <1>21, <1>22 DEF text, file, row, value

(***************************************************************************)
(* A locked variable is recovered exactly or not at all, whatever its      *)
(* value holds and whatever the lines around it are; and exactly where     *)
(* Coolify 4.5 or later saved every row (domain/locked_envs.py, recover).  *)
(***************************************************************************)
THEOREM LockedValuesArrive ==
  ASSUME NEW T, EnvQuestion(question, T)
  PROVE  LockedValuesAreExact
<1> DEFINE file == question.file
           row == question.row
           value == question.value
           exact == \A r \in file.rows : r.exact
<1>1. row \in file.rows /\ row.locked = TRUE /\ row.exact \in BOOLEAN
  BY DEF EnvQuestion
<1>2. PICK st, m, own :
        /\ LaidFile(T, file, row, value, st, m, own)
        /\ KeysDiffer(file.text, st, m)
        /\ exact => /\ \A j \in 1 .. m : j # own => Firm(file.text, st[j], st[j + 1] - 1)
                    /\ \A r \in file.rows :
                         ~r.locked => r.null \in BOOLEAN /\ r.key # row.key
                                      /\ RowShown(file.text, st, m, r)
  BY FileIsLaid
<1>3. Env!Recovered(file)[row] = Env!FromFile(row, file)
  BY <1>1 DEF Env!Recovered
<1> HIDE DEF file, row, value
<1>4. Env!FromFile(row, file) \in {Env!NoValue, value}
  BY <1>2, GivenIsExact
<1>5. exact => Env!FromFile(row, file) = value
  <2> SUFFICES ASSUME exact
               PROVE  Env!FromFile(row, file) = value
    OBVIOUS
  <2>1. row.exact = TRUE
    BY <1>1
  <2> HIDE DEF exact
  <2>2. /\ LaidFile(T, file, row, value, st, m, own) /\ KeysDiffer(file.text, st, m)
        /\ \A j \in 1 .. m : j # own => Firm(file.text, st[j], st[j + 1] - 1)
    BY <1>2
  <2>3. \A other \in file.rows :
          ~other.locked => other.null \in BOOLEAN /\ other.key # row.key
                           /\ RowShown(file.text, st, m, other)
    BY <1>2
  <2> QED
    BY ZenonT(60), <2>1, <2>2, <2>3, ExactIsRecovered
<1> QED
  BY <1>3, <1>4, <1>5 DEF LockedValuesAreExact, RecoveredIsExact, ExactRowsAreRecovered, file, row, value

(***************************************************************************)
(* What AskEnv asks is a question about a locked row: the lines of the     *)
(* other row, and of the variables Coolify adds, are plain.                *)
(***************************************************************************)
EnvTokens ==
  ((UNION {ToSet(text) : text \in Texts})
     \cup (Env!Keys \cup {"bs", "dq", "sq", "$", "nl", "x", Env!HostAddress})) \ {"bad"}

\* The value of another row starts with an x, and has no quote.
PlainTokens == {"x", "nl", "A="}

IsOther(row) ==
  /\ row.key = "B="
  /\ row.exact \in BOOLEAN /\ row.literal \in BOOLEAN /\ row.locked \in BOOLEAN /\ row.null \in BOOLEAN
  /\ row.value \in Seq(PlainTokens) /\ (row.null = TRUE <=> row.value = << >>)
  /\ row.value # << >> => row.value[1] = "x"
  /\ row.null = TRUE => row.locked = FALSE
  /\ row.exact = TRUE /\ row.locked = FALSE => row.real = row.value

LEMMA OthersArePlain ==
  ASSUME NEW row \in Others
  PROVE  IsOther(row)
<1>1. /\ << >> \in Seq(PlainTokens)
      /\ << "x" >> \in Seq(PlainTokens) /\ << "x" >> # << >> /\ << "x" >>[1] = "x"
      /\ <<"x", "nl", "A=", "x">> \in Seq(PlainTokens) /\ <<"x", "nl", "A=", "x">> # << >>
      /\ <<"x", "nl", "A=", "x">>[1] = "x"
  BY DEF PlainTokens
<1>2. ASSUME NEW exact \in BOOLEAN, NEW literal \in BOOLEAN, NEW locked \in BOOLEAN,
             NEW value \in Seq(PlainTokens), NEW real,
             value # << >> => value[1] = "x", value = << >> => locked = FALSE,
             exact = TRUE /\ locked = FALSE => real = value,
             row = Row("B=", exact, literal, locked, value, real)
      PROVE  IsOther(row)
  <2>1. /\ row.key = "B=" /\ row.exact = exact /\ row.literal = literal /\ row.locked = locked
        /\ row.value = value /\ row.real = real
        /\ row.null \in BOOLEAN /\ (row.null = TRUE <=> value = << >>)
    <3>1. row = Row("B=", exact, literal, locked, value, real)
      BY <1>2
    <3> QED
      BY <3>1 DEF Row
  <2>2. /\ row.exact \in BOOLEAN /\ row.literal \in BOOLEAN /\ row.locked \in BOOLEAN
        /\ row.value \in Seq(PlainTokens)
    BY <2>1
  <2>3. /\ row.value # << >> => row.value[1] = "x"
        /\ row.null = TRUE <=> row.value = << >>
    BY <1>2, <2>1
  <2>4. /\ row.null = TRUE => row.locked = FALSE
        /\ row.exact = TRUE /\ row.locked = FALSE => row.real = row.value
    BY <1>2, <2>1
  <2> QED
    BY <2>1, <2>2, <2>3, <2>4 DEF IsOther
<1>3. \/ row = Row("B=", TRUE, FALSE, FALSE, <<"x">>, <<"x">>)
      \/ row = Row("B=", TRUE, FALSE, TRUE, <<"x">>, <<>>)
      \/ row = Row("B=", FALSE, TRUE, FALSE, <<"x">>, <<"sq", "x", "sq">>)
      \/ row = Row("B=", FALSE, TRUE, TRUE, <<"x">>, <<>>)
      \/ row = Row("B=", TRUE, FALSE, FALSE, <<>>, <<>>)
      \/ row = Row("B=", FALSE, TRUE, FALSE, <<"x">>, <<"x">>)
      \/ row = Row("B=", FALSE, FALSE, TRUE, <<"x", "nl", "A=", "x">>, <<>>)
  BY DEF Others
<1>4. CASE row = Row("B=", TRUE, FALSE, FALSE, <<"x">>, <<"x">>)
  BY <1>1, <1>2, <1>4
<1>5. CASE row = Row("B=", TRUE, FALSE, TRUE, <<"x">>, <<>>)
  BY <1>1, <1>2, <1>5
<1>6. CASE row = Row("B=", FALSE, TRUE, FALSE, <<"x">>, <<"sq", "x", "sq">>)
  BY <1>1, <1>2, <1>6
<1>7. CASE row = Row("B=", FALSE, TRUE, TRUE, <<"x">>, <<>>)
  BY <1>1, <1>2, <1>7
<1>8. CASE row = Row("B=", TRUE, FALSE, FALSE, <<>>, <<>>)
  BY <1>1, <1>2, <1>8
<1>9. CASE row = Row("B=", FALSE, TRUE, FALSE, <<"x">>, <<"x">>)
  BY <1>1, <1>2, <1>9
<1>10. CASE row = Row("B=", FALSE, FALSE, TRUE, <<"x", "nl", "A=", "x">>, <<>>)
  BY <1>1, <1>2, <1>10
<1> QED
  BY <1>3, <1>4, <1>5, <1>6, <1>7, <1>8, <1>9, <1>10

\* At most one of them.
LEMMA OneOther ==
  ASSUME NEW others \in UpTo(Others, 1)
  PROVE  others = {} \/ \E o \in Others : others = {o}
<1>1. others \subseteq Others /\ Cardinality(others) <= 1
  BY DEF UpTo
<1>2. IsFiniteSet(Others)
  <2> DEFINE r1 == Row("B=", TRUE, FALSE, FALSE, <<"x">>, <<"x">>)
             r2 == Row("B=", TRUE, FALSE, TRUE, <<"x">>, <<>>)
             r3 == Row("B=", FALSE, TRUE, FALSE, <<"x">>, <<"sq", "x", "sq">>)
             r4 == Row("B=", FALSE, TRUE, TRUE, <<"x">>, <<>>)
             r5 == Row("B=", TRUE, FALSE, FALSE, <<>>, <<>>)
             r6 == Row("B=", FALSE, TRUE, FALSE, <<"x">>, <<"x">>)
             r7 == Row("B=", FALSE, FALSE, TRUE, <<"x", "nl", "A=", "x">>, <<>>)
  <2>1. Others = {r1, r2, r3, r4, r5, r6, r7}
    BY DEF Others
  <2> HIDE DEF r1, r2, r3, r4, r5, r6, r7
  <2>2. Others = (((((({} \cup {r1}) \cup {r2}) \cup {r3}) \cup {r4}) \cup {r5}) \cup {r6}) \cup {r7}
    BY <2>1
  <2>3. IsFiniteSet({} \cup {r1})
    BY FS_EmptySet, FS_AddElement
  <2>4. IsFiniteSet(({} \cup {r1}) \cup {r2})
    BY <2>3, FS_AddElement
  <2>5. IsFiniteSet((({} \cup {r1}) \cup {r2}) \cup {r3})
    BY <2>4, FS_AddElement
  <2>6. IsFiniteSet(((({} \cup {r1}) \cup {r2}) \cup {r3}) \cup {r4})
    BY <2>5, FS_AddElement
  <2>7. IsFiniteSet((((({} \cup {r1}) \cup {r2}) \cup {r3}) \cup {r4}) \cup {r5})
    BY <2>6, FS_AddElement
  <2>8. IsFiniteSet(((((({} \cup {r1}) \cup {r2}) \cup {r3}) \cup {r4}) \cup {r5}) \cup {r6})
    BY <2>7, FS_AddElement
  <2>9. IsFiniteSet((((((({} \cup {r1}) \cup {r2}) \cup {r3}) \cup {r4}) \cup {r5}) \cup {r6}) \cup {r7})
    BY <2>8, FS_AddElement
  <2> QED
    BY <2>2, <2>9
<1>3. IsFiniteSet(others) /\ Cardinality(others) \in Nat
  BY <1>1, <1>2, FS_Subset, FS_CardinalityType
<1>4. CASE Cardinality(others) = 0
  BY <1>3, <1>4, FS_EmptySet
<1>5. CASE Cardinality(others) = 1
  <2>1. PICK o : others = {o}
    BY <1>3, <1>5, FS_Singleton
  <2> QED
    BY <1>1, <2>1
<1> QED
  BY <1>1, <1>3, <1>4, <1>5

(***************************************************************************)
(* A line of a key and a text, bare or in quotes.                          *)
(***************************************************************************)
IsBare(line, key, text) ==
  /\ Len(line) = Len(text) + 1 /\ line[1] = key
  /\ \A i \in 1 .. Len(text) : line[i + 1] = text[i]

IsQuoted(line, key, quote, text) ==
  /\ Len(line) = Len(text) + 3 /\ line[1] = key
  /\ line[2] = quote /\ line[Len(text) + 3] = quote
  /\ \A i \in 1 .. Len(text) : line[i + 2] = text[i]

LEMMA BareLine ==
  ASSUME NEW T, NEW key \in T, NEW text \in Seq(T), NEW line, line = <<key>> \o text
  PROVE  line \in Seq(T) /\ IsBare(line, key, text)
<1>1. <<key>> \in Seq(T) /\ Len(<<key>>) = 1 /\ <<key>>[1] = key /\ Len(text) \in Nat
  OBVIOUS
<1>2. /\ line \in Seq(T) /\ Len(line) = 1 + Len(text)
      /\ \A i \in 1 .. 1 + Len(text) : line[i] = IF i <= 1 THEN <<key>>[i] ELSE text[i - 1]
  BY <1>1, ConcatProperties
<1>3. line[1] = key
  BY <1>1, <1>2
<1>4. ASSUME NEW i \in 1 .. Len(text)
      PROVE  line[i + 1] = text[i]
  <2>1. i + 1 \in 1 .. 1 + Len(text) /\ ~(i + 1 <= 1) /\ (i + 1) - 1 = i
    BY <1>1
  <2> QED
    BY <1>2, <2>1
<1> QED
  BY <1>1, <1>2, <1>3, <1>4 DEF IsBare

LEMMA QuotedLine ==
  ASSUME NEW T, NEW key \in T, NEW quote \in T, NEW text \in Seq(T),
         NEW line, line = <<key>> \o Env!Wrapped(quote, text)
  PROVE  line \in Seq(T) /\ IsQuoted(line, key, quote, text)
<1> DEFINE open == <<quote>> \o text
           body == open \o <<quote>>
           n == Len(text)
<1>1. n \in Nat /\ <<quote>> \in Seq(T) /\ Len(<<quote>>) = 1 /\ <<quote>>[1] = quote
  OBVIOUS
<1>2. open \in Seq(T) /\ IsBare(open, quote, text)
  BY BareLine
<1>3. /\ Len(open) = n + 1 /\ open[1] = quote /\ \A i \in 1 .. n : open[i + 1] = text[i]
  BY <1>2 DEF IsBare
<1> HIDE DEF open
<1>4. /\ body \in Seq(T) /\ Len(body) = Len(open) + 1
      /\ \A i \in 1 .. Len(open) + 1 :
           body[i] = IF i <= Len(open) THEN open[i] ELSE <<quote>>[i - Len(open)]
  BY <1>1, <1>2, ConcatProperties
<1>5. line = <<key>> \o body
  BY DEF Env!Wrapped, open
<1> HIDE DEF body, n
<1>6. /\ Len(body) = n + 2 /\ body[1] = quote /\ body[n + 2] = quote
      /\ \A i \in 1 .. n : body[i + 1] = text[i]
  <2>1. Len(body) = n + 2
    BY <1>1, <1>3, <1>4
  <2>2. 1 \in 1 .. Len(open) + 1 /\ 1 <= Len(open)
    BY <1>1, <1>3
  <2>3. n + 2 \in 1 .. Len(open) + 1 /\ ~(n + 2 <= Len(open)) /\ (n + 2) - Len(open) = 1
    BY <1>1, <1>3
  <2>4. \A i \in 1 .. n : i + 1 \in 1 .. Len(open) + 1 /\ i + 1 <= Len(open)
    BY <1>1, <1>3
  <2> QED
    BY <1>1, <1>3, <1>4, <2>1, <2>2, <2>3, <2>4
<1>7. line \in Seq(T) /\ IsBare(line, key, body)
  BY <1>4, <1>5, BareLine
<1>8. /\ Len(line) = n + 3 /\ line[1] = key /\ \A i \in 1 .. n + 2 : line[i + 1] = body[i]
  BY <1>1, <1>6, <1>7 DEF IsBare
<1>9. line[2] = quote /\ line[n + 3] = quote
  <2>1. 1 \in 1 .. n + 2 /\ 1 + 1 = 2 /\ n + 2 \in 1 .. n + 2 /\ (n + 2) + 1 = n + 3
    BY <1>1
  <2> QED
    BY <1>6, <1>8, <2>1
<1>10. ASSUME NEW i \in 1 .. n
       PROVE  line[i + 2] = text[i]
  <2>1. i + 1 \in 1 .. n + 2 /\ (i + 1) + 1 = i + 2
    BY <1>1
  <2> QED
    BY <1>6, <1>8, <2>1
<1> QED
  BY <1>7, <1>8, <1>9, <1>10 DEF IsQuoted, n

\* Of a bare line without quotes, and of one in quotes it has none of.
LEMMA BareIsTame ==
  ASSUME NEW T, NEW text \in Seq(T), NEW line, NEW key, IsBare(line, key, text),
         \A i \in 1 .. Len(text) : text[i] \notin {"dq", "sq"}
  PROVE  /\ Tame(line, 1, Len(line) + 1)
         /\ (\A i \in 1 .. Len(text) : text[i] # "nl") => Firm(line, 1, Len(line) + 1)
<1> DEFINE n == Len(text)
<1>1. n \in Nat /\ Len(line) = n + 1 /\ \A i \in 1 .. n : line[i + 1] = text[i]
  BY DEF IsBare
<1>2. \A i \in 1 .. n : text[i] \notin {"dq", "sq"}
  OBVIOUS
<1> HIDE DEF n
<1>3. ASSUME NEW i \in 1 + 1 .. (Len(line) + 1) - 1
      PROVE  i - 1 \in 1 .. n /\ line[i] = text[i - 1]
  <2>1. i - 1 \in 1 .. n /\ (i - 1) + 1 = i
    BY <1>1
  <2> QED
    BY <1>1, <2>1
<1>4. Tame(line, 1, Len(line) + 1)
  BY <1>2, <1>3 DEF Tame
<1>5. ASSUME \A i \in 1 .. n : text[i] # "nl"
      PROVE  Firm(line, 1, Len(line) + 1)
  BY <1>2, <1>3, <1>5 DEF Firm
<1> QED
  BY <1>4, <1>5 DEF n

LEMMA QuotedIsTame ==
  ASSUME NEW T, NEW text \in Seq(T), text # << >>, NEW line, NEW key, NEW quote \in {"dq", "sq"},
         IsQuoted(line, key, quote, text), text[1] # "nl",
         \A i \in 1 .. Len(text) : text[i] \notin {"dq", "sq", "bs"}
  PROVE  /\ Tame(line, 1, Len(line) + 1)
         /\ quote = "dq" => Firm(line, 1, Len(line) + 1)
<1> DEFINE n == Len(text)
           end == Len(line) + 1
<1>1. /\ n \in Nat \ {0} /\ end = n + 4 /\ \A i \in 1 .. n : line[i + 2] = text[i]
      /\ line[2] = quote /\ line[n + 3] = quote
  <2>1. n \in Nat \ {0}
    BY EmptySeq
  <2> QED
    BY <2>1 DEF IsQuoted
<1>2. \A i \in 1 .. n : text[i] \notin {"dq", "sq", "bs"}
  OBVIOUS
<1> HIDE DEF n, end
<1>3. ASSUME NEW i \in 1 + 2 .. end - 2
      PROVE  line[i] \notin {"dq", "sq", "bs"}
  <2>1. i - 2 \in 1 .. n /\ (i - 2) + 2 = i
    BY <1>1
  <2> QED
    BY <1>1, <1>2, <2>1
<1>4. /\ 1 + 4 <= end /\ 1 + 3 <= end /\ 1 + 1 = 2 /\ end - 1 = n + 3 /\ 1 + 2 = 3 /\ 1 \in 1 .. n
  BY <1>1
<1>5. line[1 + 1] = quote /\ line[end - 1] = quote /\ line[1 + 2] # "nl"
  BY <1>1, <1>4
<1>6. CASE quote = "dq"
  BY <1>3, <1>4, <1>5, <1>6 DEF Tame, Firm, end
<1>7. CASE quote = "sq"
  BY <1>3, <1>4, <1>5, <1>7 DEF Tame, end
<1> QED
  BY <1>6, <1>7

(***************************************************************************)
(* The line of another row.                                                *)
(***************************************************************************)
IsLineOf(T, row, line) ==
  /\ line \in Seq(T) /\ line # << >> /\ line[1] = row.key
  /\ Tame(line, 1, Len(line) + 1)
  /\ row.exact = TRUE => Firm(line, 1, Len(line) + 1)
  /\ row.exact = TRUE /\ row.locked = FALSE =>
       \E body \in Seq(T) : /\ line = <<row.key>> \o body
                            /\ body = IF row.null THEN << >> ELSE Env!ExactFormat(row, row.real)

LEMMA OtherLine ==
  ASSUME NEW T, {"bs", "dq", "sq", "$"} \subseteq T, "B=" \in T, PlainTokens \subseteq T,
         NEW row, IsOther(row), NEW asExact \in BOOLEAN, row.exact = TRUE => asExact = TRUE,
         NEW line, line = Line(row, asExact)
  PROVE  IsLineOf(T, row, line)
<1> DEFINE value == row.value
           key == row.key
<1>1. /\ row.exact \in BOOLEAN /\ row.literal \in BOOLEAN /\ row.locked \in BOOLEAN /\ row.null \in BOOLEAN
      /\ (row.null = TRUE <=> value = << >>) /\ (value # << >> => value[1] = "x")
      /\ row.exact = TRUE /\ row.locked = FALSE => row.real = value
  BY DEF IsOther
<1>2. value \in Seq(PlainTokens) /\ key = "B="
  BY DEF IsOther
<1>3. value \in Seq(T)
  BY <1>2, SeqMonotonic
<1>4. \A i \in 1 .. Len(value) : value[i] \in PlainTokens
  BY <1>2, ElementOfSeq
<1>5. \A i \in 1 .. Len(value) : value[i] \notin {"dq", "sq", "bs", "$", "{"}
  BY <1>4 DEF PlainTokens
<1>6. key \in T
  BY <1>2
<1> HIDE DEF value, key
<1>7. CASE row.null = TRUE
  <2>1. value = << >>
    BY <1>1, <1>7
  <2>2. line = <<key>> \o << >>
    BY <1>7 DEF Line, key
  <2>3. line \in Seq(T) /\ IsBare(line, key, << >>)
    <3>1. << >> \in Seq(T)
      OBVIOUS
    <3> QED
      BY <1>6, <2>2, <3>1, BareLine
  <2>4. line # << >> /\ line[1] = key
    <3>1. Len(line) = Len(<< >>) + 1 /\ line[1] = key
      BY <2>3 DEF IsBare
    <3>2. Len(<< >>) = 0
      OBVIOUS
    <3>3. Len(line) # Len(<< >>)
      BY <3>1, <3>2
    <3> QED
      BY <3>1, <3>3
  <2>5. Tame(line, 1, Len(line) + 1) /\ Firm(line, 1, Len(line) + 1)
    <3>1. /\ << >> \in Seq(T)
          /\ \A i \in 1 .. Len(<< >>) : << >>[i] \notin {"dq", "sq"}
          /\ \A i \in 1 .. Len(<< >>) : << >>[i] # "nl"
      OBVIOUS
    <3> QED
      BY <2>3, <3>1, BareIsTame
  <2>6. \E body \in Seq(T) : /\ line = <<row.key>> \o body
                             /\ body = IF row.null THEN << >> ELSE Env!ExactFormat(row, row.real)
    <3>1. << >> \in Seq(T) /\ line = <<row.key>> \o << >>
      BY <2>2 DEF key
    <3> QED
      BY <1>7, <3>1
  <2> QED
    BY <2>3, <2>4, <2>5, <2>6 DEF IsLineOf, key
<1>8. CASE row.null = FALSE /\ asExact = TRUE
  <2>1. value # << >> /\ value[1] = "x"
    BY <1>1, <1>8
  <2> DEFINE escaped == {"bs", "dq"} \cup IF Env!AllowsInterpolation(row, value) THEN {} ELSE {"$"}
             body == Env!ExactFormat(row, value)
  <2>2. body = Env!Wrapped("dq", Env!Escaped(value, escaped))
    BY DEF Env!ExactFormat, Env!EscapeComposeEnvFileValue
  <2>3. escaped \subseteq {"bs", "dq", "$"}
    OBVIOUS
  <2> HIDE DEF escaped
  <2>4. \A i \in 1 .. Len(value) : value[i] \notin escaped
    BY <1>5, <2>3
  <2>5. Env!Escaped(value, escaped) = value
    BY <1>3, <2>1, <2>4, PlainEscaped
  <2>6. line = <<key>> \o body
    BY <1>8 DEF Line, key, value
  <2>7. line = <<key>> \o Env!Wrapped("dq", value)
    BY <2>2, <2>5, <2>6
  <2>8. line \in Seq(T) /\ IsQuoted(line, key, "dq", value)
    BY <1>3, <1>6, <2>7, QuotedLine
  <2>9. line # << >> /\ line[1] = key
    BY <1>3, <2>8 DEF IsQuoted
  <2>10. Tame(line, 1, Len(line) + 1) /\ Firm(line, 1, Len(line) + 1)
    BY <1>3, <1>5, <2>1, <2>8, QuotedIsTame
  <2>11. body \in Seq(T)
    <3>1. body = (<<"dq">> \o value) \o <<"dq">>
      BY <2>2, <2>5 DEF Env!Wrapped
    <3> QED
      BY <1>3, <3>1
  <2>12. row.exact = TRUE /\ row.locked = FALSE =>
           \E b \in Seq(T) : /\ line = <<row.key>> \o b
                             /\ b = IF row.null THEN << >> ELSE Env!ExactFormat(row, row.real)
    <3>1. SUFFICES ASSUME row.exact = TRUE, row.locked = FALSE
                   PROVE  \E b \in Seq(T) : /\ line = <<row.key>> \o b
                                            /\ b = IF row.null THEN << >> ELSE Env!ExactFormat(row, row.real)
      OBVIOUS
    <3>2. row.real = value
      BY <1>1, <3>1
    <3>3. line = <<row.key>> \o body
      BY <2>6 DEF key
    <3>4. body = IF row.null THEN << >> ELSE Env!ExactFormat(row, row.real)
      BY <1>8, <3>2
    <3> QED
      BY <2>11, <3>3, <3>4
  <2> QED
    BY <2>8, <2>9, <2>10, <2>12 DEF IsLineOf, key
<1>9. CASE row.null = FALSE /\ asExact = FALSE
  <2>1. value # << >> /\ value[1] = "x" /\ row.exact = FALSE
    BY <1>1, <1>9
  <2>2. line = <<key>> \o Env!LegacyFormat(row, value)
    BY <1>9, <2>1 DEF Line, Env!Encode, key, value
  <2>3. Head(value) # "{"
    <3>1. Head(value) = value[1]
      BY <1>3, <2>1
    <3> QED
      BY <2>1, <3>1
  <2>4. /\ line \in Seq(T) /\ line # << >> /\ line[1] = key
        /\ Tame(line, 1, Len(line) + 1)
    <3>1. CASE row.literal = TRUE
      <4>1. line = <<key>> \o Env!Wrapped("sq", value)
        BY <2>2, <2>3, <3>1 DEF Env!LegacyFormat
      <4>2. line \in Seq(T) /\ IsQuoted(line, key, "sq", value)
        BY <1>3, <1>6, <4>1, QuotedLine
      <4>3. line # << >> /\ line[1] = key
        BY <1>3, <4>2 DEF IsQuoted
      <4>4. Tame(line, 1, Len(line) + 1)
        BY <1>3, <1>5, <2>1, <4>2, QuotedIsTame
      <4> QED
        BY <4>2, <4>3, <4>4
    <3>2. CASE row.literal = FALSE
      <4>1. Env!LegacyFormat(row, value) = Env!Escaped(value, {"bs", "dq", "sq"})
        BY <2>3, <3>2 DEF Env!LegacyFormat
      <4>2. Env!Escaped(value, {"bs", "dq", "sq"}) = value
        <5>1. \A i \in 1 .. Len(value) : value[i] \notin {"bs", "dq", "sq"}
          BY <1>5
        <5> QED
          BY <1>3, <2>1, <5>1, PlainEscaped
      <4>3. line = <<key>> \o value
        BY <2>2, <4>1, <4>2
      <4>4. line \in Seq(T) /\ IsBare(line, key, value)
        BY <1>3, <1>6, <4>3, BareLine
      <4>5. line # << >> /\ line[1] = key
        BY <1>3, <4>4 DEF IsBare
      <4>6. Tame(line, 1, Len(line) + 1)
        <5>1. \A i \in 1 .. Len(value) : value[i] \notin {"dq", "sq"}
          BY <1>5
        <5> QED
          BY <1>3, <4>4, <5>1, BareIsTame
      <4> QED
        BY <4>4, <4>5, <4>6
    <3> QED
      BY <1>1, <3>1, <3>2
  <2> QED
    BY <2>1, <2>4 DEF IsLineOf, key
<1> QED
  BY <1>1, <1>7, <1>8, <1>9

(***************************************************************************)
(* The line of the locked row.                                             *)
(***************************************************************************)
IsOwnLine(T, row, value, line) ==
  /\ line \in Seq(T) /\ line # << >> /\ line[1] = row.key
  /\ \E body \in Seq(T) :
       /\ line = <<row.key>> \o body
       /\ \/ body = Env!ExactFormat(row, value)
          \/ /\ ~row.exact /\ Trimmed(value) /\ ~(row.literal /\ EndsInKey(value))
             /\ body = Env!LegacyFormat(row, value)

LEMMA OwnLine ==
  ASSUME NEW T, {"bs", "dq", "sq", "$"} \subseteq T, NEW row, row.key \in T,
         row.exact \in BOOLEAN, row.null = FALSE, NEW value, row.value = value,
         value \in Seq(T), value # << >>,
         row.exact = FALSE => Trimmed(value) /\ ~(row.literal /\ EndsInKey(value)),
         NEW asExact \in BOOLEAN, row.exact = TRUE => asExact = TRUE,
         NEW line, line = Line(row, asExact)
  PROVE  IsOwnLine(T, row, value, line)
<1> DEFINE key == row.key
<1>1. ASSUME NEW body \in Seq(T), line = <<key>> \o body
      PROVE  line \in Seq(T) /\ line # << >> /\ line[1] = key
  <2>1. key \in T
    OBVIOUS
  <2> HIDE DEF key
  <2>2. line \in Seq(T) /\ IsBare(line, key, body)
    BY <1>1, <2>1, BareLine
  <2>3. Len(line) = Len(body) + 1 /\ line[1] = key /\ Len(body) \in Nat
    BY <2>2 DEF IsBare
  <2>4. Len(line) # 0
    BY <2>3
  <2> QED
    BY <2>2, <2>3, <2>4
<1>2. CASE asExact = TRUE
  <2> DEFINE escaped == {"bs", "dq"} \cup IF Env!AllowsInterpolation(row, value) THEN {} ELSE {"$"}
             inner == Env!Escaped(value, escaped)
             body == Env!ExactFormat(row, value)
  <2>1. body = Env!Wrapped("dq", inner)
    BY DEF Env!ExactFormat, Env!EscapeComposeEnvFileValue
  <2> HIDE DEF escaped
  <2>2. inner \in Seq(T)
    BY EscapedIsLaidOut
  <2> HIDE DEF inner
  <2>3. body \in Seq(T)
    <3>1. body = (<<"dq">> \o inner) \o <<"dq">>
      BY <2>1 DEF Env!Wrapped
    <3> QED
      BY <2>2, <3>1
  <2>4. line = <<key>> \o body
    BY <1>2 DEF Line
  <2>5. line \in Seq(T) /\ line # << >> /\ line[1] = key
    BY <1>1, <2>3, <2>4
  <2> QED
    BY <2>3, <2>4, <2>5 DEF IsOwnLine
<1>3. CASE asExact = FALSE
  <2> DEFINE body == Env!LegacyFormat(row, value)
  <2>1. row.exact = FALSE /\ Trimmed(value) /\ ~(row.literal /\ EndsInKey(value))
    BY <1>3
  <2>2. line = <<key>> \o body
    BY <1>3, <2>1 DEF Line, Env!Encode
  <2>3. body \in Seq(T)
    BY <2>1, LegacyForms
  <2>4. line \in Seq(T) /\ line # << >> /\ line[1] = key
    BY <1>1, <2>2, <2>3
  <2> QED
    BY <2>1, <2>2, <2>3, <2>4 DEF IsOwnLine
<1> QED
  BY <1>2, <1>3

\* The lines Coolify adds.
CommitLine == << "SOURCE_COMMIT=", "x" >>
HostLine == << "HOST=", Env!HostAddress >>

LEMMA AddedLines ==
  ASSUME NEW T, {"SOURCE_COMMIT=", "HOST=", "x", Env!HostAddress} \subseteq T,
         NEW line \in {CommitLine, HostLine}
  PROVE  /\ line \in Seq(T) /\ line # << >>
         /\ line[1] = IF line = CommitLine THEN "SOURCE_COMMIT=" ELSE "HOST="
         /\ Tame(line, 1, Len(line) + 1) /\ Firm(line, 1, Len(line) + 1)
<1>1. Env!HostAddress = "0.0.0.0"
  BY DEF Env!HostAddress
<1>2. ASSUME NEW key \in T, NEW token \in T, token \notin {"dq", "sq", "nl"}, line = << key, token >>
      PROVE  /\ line \in Seq(T) /\ line # << >> /\ line[1] = key
             /\ Tame(line, 1, Len(line) + 1) /\ Firm(line, 1, Len(line) + 1)
  <2>1. << token >> \in Seq(T) /\ Len(<< token >>) = 1 /\ \A i \in 1 .. 1 : << token >>[i] = token
    OBVIOUS
  <2>2. line \in Seq(T) /\ line # << >> /\ line[1] = key /\ line[2] = token /\ Len(line) = 2
    BY <1>2
  <2>3. IsBare(line, key, << token >>)
    BY <2>1, <2>2 DEF IsBare
  <2>4. /\ \A i \in 1 .. Len(<< token >>) : << token >>[i] \notin {"dq", "sq"}
        /\ \A i \in 1 .. Len(<< token >>) : << token >>[i] # "nl"
    BY <1>2, <2>1
  <2> DEFINE text == << token >>
  <2>5. text \in Seq(T) /\ IsBare(line, key, text)
    BY <2>1, <2>3
  <2>6. /\ \A i \in 1 .. Len(text) : text[i] \notin {"dq", "sq"}
        /\ \A i \in 1 .. Len(text) : text[i] # "nl"
    BY <2>4
  <2> HIDE DEF text
  <2>7. Tame(line, 1, Len(line) + 1) /\ Firm(line, 1, Len(line) + 1)
    BY <2>5, <2>6, BareIsTame
  <2> QED
    BY <2>2, <2>7
<1>3. CASE line = CommitLine
  BY <1>2, <1>3 DEF CommitLine
<1>4. CASE line = HostLine
  <2>1. line # CommitLine
    BY <1>4 DEF HostLine, CommitLine
  <2>2. line = << "HOST=", Env!HostAddress >>
    BY <1>4 DEF HostLine
  <2> QED
    BY <1>1, <1>2, <2>1, <2>2
<1> QED
  BY <1>3, <1>4

(***************************************************************************)
(* The files of AskEnv.                                                    *)
(***************************************************************************)
RowLines(row, collection) ==
  {<<Line(row, asExact)>> : asExact \in IF row.exact THEN {TRUE} ELSE BOOLEAN}
    \cup IF row.null /\ collection = "services" THEN {<<>>} ELSE {}

LEMMA FilesAre ==
  ASSUME NEW a, NEW others, NEW collection, NEW text \in Files(a, others, collection)
  PROVE  \E commit, first, second, host :
           /\ AtMostOne(commit, CommitLine)
           /\ first \in RowLines(a, collection)
           /\ IF others = {} THEN second = << >> ELSE \E row \in others : second \in RowLines(row, collection)
           /\ AtMostOne(host, HostLine) /\ (collection = "applications" => host = << HostLine >>)
           /\ \/ text = Joined(commit \o first \o second \o host)
              \/ text = Joined(second \o first \o commit \o host)
              \/ text = Joined(host \o second \o first \o commit)
<1> DEFINE Host == IF collection = "applications" THEN {<< HostLine >>} ELSE {<< >>}
           Commit == IF collection = "applications" THEN {<< >>, << CommitLine >>} ELSE {<< >>}
           Second == IF others = {} THEN {<< >>} ELSE UNION {RowLines(row, collection) : row \in others}
<1>1. Files(a, others, collection)
        = UNION {{Joined(commit \o first \o second \o host),
                  Joined(second \o first \o commit \o host),
                  Joined(host \o second \o first \o commit)} :
                   commit \in Commit, first \in RowLines(a, collection),
                   second \in Second, host \in Host}
  BY DEF Files, RowLines, CommitLine, HostLine
<1> HIDE DEF Host, Commit, Second
<1>2. PICK commit \in Commit, first \in RowLines(a, collection), second \in Second, host \in Host :
        text \in {Joined(commit \o first \o second \o host),
                  Joined(second \o first \o commit \o host),
                  Joined(host \o second \o first \o commit)}
  BY <1>1
<1>3. AtMostOne(commit, CommitLine) /\ AtMostOne(host, HostLine)
  BY DEF AtMostOne, Commit, Host
<1>4. collection = "applications" => host = << HostLine >>
  BY DEF Host
<1>5. IF others = {} THEN second = << >> ELSE \E row \in others : second \in RowLines(row, collection)
  BY DEF Second
<1> QED
  BY <1>2, <1>3, <1>4, <1>5

LEMMA FileOfLines ==
  ASSUME NEW T, {"bs", "dq", "sq", "$", "nl", "x", Env!HostAddress} \subseteq T, Env!Keys \subseteq T,
         NEW a, a.key = "A=", a.exact \in BOOLEAN, a.null = FALSE, a.locked = TRUE,
         NEW value \in Seq(T), value # << >>, a.value = value,
         a.exact = FALSE => Trimmed(value) /\ ~(a.literal /\ EndsInKey(value)),
         NEW others, others = {} \/ \E o : IsOther(o) /\ others = {o},
         NEW collection, NEW text \in Files(a, others, collection),
         NEW file, file.rows = {a} \cup others, file.collection = collection, file.text = text
  PROVE  \E lines : LinesOfFile(T, file, a, value, lines)
<1> DEFINE S == Seq(T)
<1>1. PICK commit, first, second, host :
         /\ AtMostOne(commit, CommitLine)
         /\ first \in RowLines(a, collection)
         /\ IF others = {} THEN second = << >> ELSE \E row \in others : second \in RowLines(row, collection)
         /\ AtMostOne(host, HostLine) /\ (collection = "applications" => host = << HostLine >>)
         /\ \/ text = Joined(commit \o first \o second \o host)
            \/ text = Joined(second \o first \o commit \o host)
            \/ text = Joined(host \o second \o first \o commit)
  BY FilesAre
<1>2. Env!Keys = {"A=", "B=", "HOST=", "SOURCE_COMMIT="}
  BY DEF Env!Keys
<1>3. PICK la : first = << la >> /\ IsOwnLine(T, a, value, la)
  <2>1. PICK asExact \in IF a.exact THEN {TRUE} ELSE BOOLEAN : first = <<Line(a, asExact)>>
    BY <1>1 DEF RowLines
  <2>2. asExact \in BOOLEAN /\ (a.exact = TRUE => asExact = TRUE)
    OBVIOUS
  <2>3. a.key \in T
    BY <1>2
  <2>4. \A l : l = Line(a, asExact) => IsOwnLine(T, a, value, l)
    BY <2>2, <2>3, OwnLine
  <2> QED
    BY <2>1, <2>4
<1>4. la \in S /\ la # << >> /\ la[1] = "A="
  BY <1>3 DEF IsOwnLine
<1>5. ASSUME NEW o, IsOther(o), others = {o}
      PROVE  \E lb : /\ IsLineOf(T, o, lb) /\ AtMostOne(second, lb)
                     /\ second = << >> => o.null = TRUE /\ collection = "services"
  <2>1. second \in RowLines(o, collection)
    BY <1>1, <1>5
  <2>2. o.exact \in BOOLEAN /\ o.null \in BOOLEAN
    BY <1>5 DEF IsOther
  <2>3. PlainTokens \subseteq T /\ "B=" \in T
    BY <1>2 DEF PlainTokens
  <2>4. ASSUME NEW asExact \in BOOLEAN, o.exact = TRUE => asExact = TRUE
        PROVE  \E lb : lb = Line(o, asExact) /\ IsLineOf(T, o, lb)
    <3> DEFINE lb == Line(o, asExact)
    <3>1. lb = Line(o, asExact)
      OBVIOUS
    <3> HIDE DEF lb
    <3>2. IsLineOf(T, o, lb)
      BY <1>5, <2>3, <2>4, <3>1, OtherLine
    <3> QED
      BY <3>1, <3>2
  <2>5. CASE \E asExact \in IF o.exact THEN {TRUE} ELSE BOOLEAN : second = <<Line(o, asExact)>>
    <3>1. PICK asExact \in IF o.exact THEN {TRUE} ELSE BOOLEAN : second = <<Line(o, asExact)>>
      BY <2>5
    <3>2. asExact \in BOOLEAN /\ (o.exact = TRUE => asExact = TRUE)
      BY <2>2
    <3>3. PICK lb : lb = Line(o, asExact) /\ IsLineOf(T, o, lb)
      BY <2>4, <3>2
    <3>4. second = << lb >> /\ second # << >>
      BY <3>1, <3>3
    <3> QED
      BY <3>3, <3>4 DEF AtMostOne
  <2>6. CASE second = << >> /\ o.null = TRUE /\ collection = "services"
    <3>1. PICK lb : lb = Line(o, TRUE) /\ IsLineOf(T, o, lb)
      BY <2>4
    <3> QED
      BY <2>6, <3>1 DEF AtMostOne
  <2> QED
    BY <2>1, <2>2, <2>5, <2>6 DEF RowLines
<1>6. PICK lb : /\ lb \in S /\ lb # << >> /\ lb[1] = "B=" /\ AtMostOne(second, lb)
                /\ others = {} => second = << >>
                /\ \A o \in others : /\ IsOther(o) /\ IsLineOf(T, o, lb)
                                     /\ second = << >> => o.null = TRUE /\ collection = "services"
  <2>1. CASE others = {}
    <3>1. second = << >>
      BY <1>1, <2>1
    <3>2. << "B=" >> \in S /\ << "B=" >> # << >> /\ << "B=" >>[1] = "B="
      BY <1>2
    <3> QED
      BY <2>1, <3>1, <3>2 DEF AtMostOne
  <2>2. CASE \E o : IsOther(o) /\ others = {o}
    <3>1. PICK o : IsOther(o) /\ others = {o}
      BY <2>2
    <3>2. PICK lb : /\ IsLineOf(T, o, lb) /\ AtMostOne(second, lb)
                    /\ second = << >> => o.null = TRUE /\ collection = "services"
      BY <1>5, <3>1
    <3>3. lb \in S /\ lb # << >> /\ lb[1] = "B="
      BY <3>1, <3>2 DEF IsLineOf, IsOther
    <3> QED
      BY <3>1, <3>2, <3>3
  <2> QED
    BY <2>1, <2>2
<1>7. /\ CommitLine \in S /\ CommitLine # << >> /\ CommitLine[1] = "SOURCE_COMMIT="
      /\ Tame(CommitLine, 1, Len(CommitLine) + 1) /\ Firm(CommitLine, 1, Len(CommitLine) + 1)
  <2>1. {"SOURCE_COMMIT=", "HOST=", "x", Env!HostAddress} \subseteq T
    BY <1>2
  <2> QED
    BY <2>1, AddedLines
<1>8. /\ HostLine \in S /\ HostLine # << >> /\ HostLine[1] = "HOST="
      /\ Tame(HostLine, 1, Len(HostLine) + 1) /\ Firm(HostLine, 1, Len(HostLine) + 1)
  <2>1. {"SOURCE_COMMIT=", "HOST=", "x", Env!HostAddress} \subseteq T
    BY <1>2
  <2>2. HostLine # CommitLine
    BY DEF HostLine, CommitLine
  <2> QED
    BY <2>1, <2>2, AddedLines
<1> HIDE DEF S
<1>9. AtMostOne(first, la)
  BY <1>3 DEF AtMostOne
<1> DEFINE union == (LinesOf(commit) \cup LinesOf(first)) \cup (LinesOf(second) \cup LinesOf(host))
<1>21. /\ la \in S /\ lb \in S /\ CommitLine \in S /\ HostLine \in S
       /\ Apart(CommitLine, la, lb, HostLine) /\ Apart(lb, la, CommitLine, HostLine)
       /\ Apart(HostLine, lb, la, CommitLine)
  BY <1>4, <1>6, <1>7, <1>8 DEF Apart
<1>22. /\ AtMostOne(first, la) /\ AtMostOne(second, lb)
       /\ AtMostOne(commit, CommitLine) /\ AtMostOne(host, HostLine)
  BY <1>1, <1>6, <1>9
<1>10. \E lines : lines \in Seq(S) /\ OnePerKey(lines) /\ LinesOf(lines) = union /\ text = Joined(lines)
  <2>1. CASE text = Joined(commit \o first \o second \o host)
    <3> DEFINE lines == commit \o first \o second \o host
    <3>1. LinesFrom(S, lines, commit, first, second, host)
      <4>1. lines = commit \o first \o second \o host
        OBVIOUS
      <4> HIDE DEF lines
      <4> QED
        BY <1>21, <1>22, <4>1, FourLines
    <3>2. LinesOf(lines) = union
      BY <3>1 DEF LinesFrom
    <3> QED
      BY <2>1, <3>1, <3>2 DEF LinesFrom
  <2>2. CASE text = Joined(second \o first \o commit \o host)
    <3> DEFINE lines == second \o first \o commit \o host
    <3>1. LinesFrom(S, lines, second, first, commit, host)
      <4>1. lines = second \o first \o commit \o host
        OBVIOUS
      <4> HIDE DEF lines
      <4> QED
        BY <1>21, <1>22, <4>1, FourLines
    <3>2. LinesOf(lines) = union
      BY <3>1 DEF LinesFrom
    <3> QED
      BY <2>2, <3>1, <3>2 DEF LinesFrom
  <2>3. CASE text = Joined(host \o second \o first \o commit)
    <3> DEFINE lines == host \o second \o first \o commit
    <3>1. LinesFrom(S, lines, host, second, first, commit)
      <4>1. lines = host \o second \o first \o commit
        OBVIOUS
      <4> HIDE DEF lines
      <4> QED
        BY <1>21, <1>22, <4>1, FourLines
    <3>2. LinesOf(lines) = union
      BY <3>1 DEF LinesFrom
    <3> QED
      BY <2>3, <3>1, <3>2 DEF LinesFrom
  <2> QED
    BY <1>1, <2>1, <2>2, <2>3
<1>11. PICK lines : lines \in Seq(S) /\ OnePerKey(lines) /\ LinesOf(lines) = union /\ text = Joined(lines)
  BY <1>10
<1>12. /\ LinesOf(first) = {la} /\ LinesOf(commit) \subseteq {CommitLine}
       /\ LinesOf(host) \subseteq {HostLine} /\ (host = << HostLine >> => HostLine \in LinesOf(host))
       /\ LinesOf(second) = IF second = << >> THEN {} ELSE {lb}
  <2>1. LinesOf(first) = IF first = << >> THEN {} ELSE {la}
    BY <1>4, <1>9, ShortLines
  <2>2. LinesOf(commit) = IF commit = << >> THEN {} ELSE {CommitLine}
    BY <1>1, <1>7, ShortLines
  <2>3. LinesOf(host) = IF host = << >> THEN {} ELSE {HostLine}
    BY <1>1, <1>8, ShortLines
  <2>4. LinesOf(second) = IF second = << >> THEN {} ELSE {lb}
    BY <1>6, ShortLines
  <2>5. first # << >> /\ << HostLine >> # << >>
    BY <1>3
  <2> QED
    BY <2>1, <2>2, <2>3, <2>4, <2>5
<1>13. /\ LinesOf(lines) \subseteq {la, lb, CommitLine, HostLine} /\ la \in LinesOf(lines)
       /\ lb \in LinesOf(lines) => second # << >>
       /\ second # << >> => lb \in LinesOf(lines)
       /\ collection = "applications" => HostLine \in LinesOf(lines)
  <2>1. lb # la /\ lb # CommitLine /\ lb # HostLine
    BY <1>4, <1>6, <1>7, <1>8
  <2> QED
    BY <1>1, <1>11, <1>12, <2>1
<1> HIDE DEF union
<1>14. \A line \in LinesOf(lines) : line # << >> /\ line[1] \in Env!Keys
  BY <1>2, <1>4, <1>6, <1>7, <1>8, <1>13
<1>15. HasRow(T, lines, a, value)
  BY <1>3, <1>13 DEF HasRow, IsOwnLine
<1>16. lb \in LinesOf(lines) => \E o \in others : IsOther(o) /\ IsLineOf(T, o, lb)
  BY <1>6, <1>13
<1>17. \A line \in LinesOf(lines) : line[1] # a.key => Tame(line, 1, Len(line) + 1)
  <2>1. lb \in LinesOf(lines) => Tame(lb, 1, Len(lb) + 1)
    BY <1>16 DEF IsLineOf
  <2> QED
    BY <1>4, <1>7, <1>8, <1>13, <2>1
<1>18. \A key \in Sure(file) : \E line \in LinesOf(lines) : line[1] = key
  <2>1. SUFFICES ASSUME NEW key \in Sure(file)
                 PROVE  \E line \in LinesOf(lines) : line[1] = key
    OBVIOUS
  <2>2. \/ \E r \in {a} \cup others : r.key = key /\ ~(collection = "services" /\ r.null /\ ~r.locked)
        \/ collection = "applications" /\ key = "HOST="
    BY <2>1 DEF Sure, Env!WrittenForSure
  <2>3. CASE collection = "applications" /\ key = "HOST="
    BY <1>8, <1>13, <2>3
  <2>4. CASE a.key = key
    BY <1>4, <1>13, <2>4
  <2>5. ASSUME NEW r \in others, r.key = key, ~(collection = "services" /\ r.null /\ ~r.locked)
        PROVE  \E line \in LinesOf(lines) : line[1] = key
    <3>1. /\ r.key = "B=" /\ r.null \in BOOLEAN /\ r.locked \in BOOLEAN
          /\ (r.null = TRUE => r.locked = FALSE)
      BY <1>6 DEF IsOther
    <3>2. second # << >>
      BY <1>6, <2>5, <3>1
    <3> QED
      BY <1>6, <1>13, <2>5, <3>1, <3>2
  <2> QED
    BY <2>2, <2>3, <2>4, <2>5
<1>19. ASSUME \A row \in file.rows : row.exact
       PROVE  ExactFile(T, file, a, lines)
  <2>1. \A o \in others : o.exact = TRUE
    BY <1>6, <1>19 DEF IsOther
  <2>2. \A line \in LinesOf(lines) : line[1] # a.key => Firm(line, 1, Len(line) + 1)
    <3>1. lb \in LinesOf(lines) => Firm(lb, 1, Len(lb) + 1)
      BY <1>16, <2>1 DEF IsLineOf
    <3> QED
      BY <1>4, <1>7, <1>8, <1>13, <3>1
  <2>3. ASSUME NEW row \in file.rows, ~row.locked
        PROVE  row.null \in BOOLEAN /\ row.key # a.key /\ RowIn(T, lines, row)
    <3>1. row \in others
      BY <2>3
    <3>2. IsOther(row) /\ IsLineOf(T, row, lb) /\ (second = << >> => row.null = TRUE)
      BY <1>6, <3>1
    <3>3. row.key = "B=" /\ row.null \in BOOLEAN /\ row.locked = FALSE /\ row.exact = TRUE
      BY <2>1, <2>3, <3>1, <3>2 DEF IsOther
    <3>4. \E body \in Seq(T) : /\ lb = <<row.key>> \o body
                               /\ body = IF row.null THEN << >> ELSE Env!ExactFormat(row, row.real)
      BY <3>2, <3>3 DEF IsLineOf
    <3>5. ~row.null => lb \in LinesOf(lines) /\ lb[1] = row.key
      BY <1>6, <1>13, <3>2, <3>3
    <3>6. \A line \in LinesOf(lines) : line[1] = row.key => line = lb
      BY <1>4, <1>7, <1>8, <1>13, <3>3
    <3>7. RowIn(T, lines, row)
      BY <3>4, <3>5, <3>6 DEF RowIn
    <3> QED
      BY <3>3, <3>7
  <2> QED
    BY <2>2, <2>3 DEF ExactFile
<1>20. LinesOfFile(T, file, a, value, lines)
  BY <1>11, <1>14, <1>15, <1>17, <1>18, <1>19 DEF LinesOfFile, S
<1> QED
  BY <1>20

\* What AskEnv asks is such a question.
LEMMA EnvIsShaped ==
  ASSUME AskEnv, "literal_ends_in_key" \notin Hazards
  PROVE  EnvQuestion(question', EnvTokens)
<1> DEFINE T == EnvTokens
<1>1. PICK value \in Texts, exact \in BOOLEAN, literal \in BOOLEAN,
           collection \in {"applications", "services"}, others \in UpTo(Others, 1) :
        \E text \in Files(Row("A=", exact, literal, TRUE, value, <<>>), others, collection) :
          /\ ~exact => Trimmed(value)
          /\ ~exact /\ literal /\ EndsInKey(value) => "literal_ends_in_key" \in Hazards
          /\ question' = [kind |-> "env_asked", value |-> value,
                          row |-> Row("A=", exact, literal, TRUE, value, <<>>),
                          file |-> [rows |-> {Row("A=", exact, literal, TRUE, value, <<>>)} \cup others,
                                    collection |-> collection, text |-> text]]
  BY DEF AskEnv
<1> DEFINE a == Row("A=", exact, literal, TRUE, value, <<>>)
<1>2. /\ a.key = "A=" /\ a.exact = exact /\ a.literal = literal /\ a.locked = TRUE
      /\ a.value = value /\ a.null \in BOOLEAN /\ (a.null = TRUE <=> value = << >>)
  BY DEF Row
<1> HIDE DEF a
<1>3. PICK text \in Files(a, others, collection) :
        /\ ~exact => Trimmed(value)
        /\ ~exact /\ literal /\ EndsInKey(value) => "literal_ends_in_key" \in Hazards
        /\ question' = [kind |-> "env_asked", value |-> value, row |-> a,
                        file |-> [rows |-> {a} \cup others, collection |-> collection, text |-> text]]
  BY <1>1 DEF a
<1>4. /\ {"bs", "dq", "sq", "$", "nl", "x", Env!HostAddress} \subseteq T /\ Env!Keys \subseteq T
      /\ "bad" \notin T
  <2> DEFINE written == Env!Keys \cup {"bs", "dq", "sq", "$", "nl", "x", Env!HostAddress}
             tokens == UNION {ToSet(t) : t \in Texts}
  <2>1. "bad" \notin written
    BY DEF Env!Keys, Env!HostAddress
  <2>2. T = (tokens \cup written) \ {"bad"}
    BY DEF EnvTokens
  <2>3. {"bs", "dq", "sq", "$", "nl", "x", Env!HostAddress} \subseteq written /\ Env!Keys \subseteq written
    OBVIOUS
  <2> HIDE DEF written, tokens, T
  <2> QED
    BY <2>1, <2>2, <2>3
<1>5. value \in Seq(T) /\ value # << >>
  <2> DEFINE S == ToSet(value) \ {"bad"}
  <2>1. value # << >> /\ value \in Seq(S)
    BY TextsAssumption
  <2>2. S \subseteq T
    BY DEF EnvTokens
  <2> HIDE DEF S
  <2> QED
    BY <2>1, <2>2, SeqMonotonic
<1>6. others = {} \/ \E o : IsOther(o) /\ others = {o}
  BY OneOther, OthersArePlain
<1> DEFINE file == [rows |-> {a} \cup others, collection |-> collection, text |-> text]
<1>7. file.rows = {a} \cup others /\ file.collection = collection /\ file.text = text
  OBVIOUS
<1>8. /\ question'.kind = "env_asked" /\ question'.value = value /\ question'.row = a
      /\ question'.file = file
  BY <1>3
<1> HIDE DEF file, T
<1>9. a.null = FALSE
  BY <1>2, <1>5
<1>10. a.exact = FALSE => Trimmed(value) /\ ~(a.literal /\ EndsInKey(value))
  BY <1>2, <1>3
<1>11. a.exact \in BOOLEAN /\ a.literal \in BOOLEAN
  BY <1>2
<1>12. \E lines : LinesOfFile(T, file, a, value, lines)
  BY <1>2, <1>4, <1>5, <1>6, <1>7, <1>9, <1>10, <1>11, FileOfLines
<1>13. KnownKeys(file)
  <2>1. \A r \in file.rows : r.key \in {"A=", "B="}
    BY <1>2, <1>6, <1>7 DEF IsOther
  <2> QED
    BY <2>1 DEF KnownKeys, Env!Keys
<1>14. a \in file.rows
  BY <1>7
<1> QED
  BY <1>2, <1>4, <1>5, <1>8, <1>11, <1>12, <1>13, <1>14 DEF EnvQuestion, T

=============================================================================
