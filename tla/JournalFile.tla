---------------------------- MODULE JournalFile ----------------------------
(***************************************************************************)
(* The journal as the file it is (journal/store.py): a record is one JSON  *)
(* line, appended and fsynced, numbered by the process that writes it.  A  *)
(* write may break off - the machine dies, the disk is full - and what it  *)
(* leaves has no end of line, so the next record lands on the same line.   *)
(* A line is a record only if one whole record is all there is on it; a    *)
(* cut within a character that takes several bytes is no text at all, and  *)
(* the file cannot be read any more.                                       *)
(*                                                                         *)
(* All a record says here is the number of its append.  No lock keeps two  *)
(* processes from one file.                                                *)
(***************************************************************************)
EXTENDS Integers, FiniteSets, SequencesExt

CONSTANTS Processes,
          Cuts,         \* where within a record a write can break off
          MaxAppends,   \* bound: records handed to append
          MaxBroken     \* bound: writes that break off

ASSUME ProcessesAssumption == Processes # {}
ASSUME CutsAssumption == Cuts \subseteq {"between characters", "within a character"}
ASSUME FileBoundsAssumption == MaxAppends \in Nat /\ MaxBroken \in Nat

VARIABLES lines,     \* the file, each line the pieces that were written on it
          open,      \* the last line has no end
          running,   \* processes that have the journal open
          counter,   \* per process: its _seq
          appends,   \* how many records append was handed so far
          acked,     \* those whose append returned
          broken,    \* writes that broke off
          shared     \* two processes have had it open at once

vars == << lines, open, running, counter, appends, acked, broken, shared >>

Ids == 1 .. MaxAppends

Pieces == [id : Ids, seq : Ids, end : Cuts \cup {"whole"}]

TypeOK ==
  /\ lines \in Seq(Seq(Pieces))
  /\ open \in BOOLEAN
  /\ running \subseteq Processes
  /\ counter \in [Processes -> 0 .. MaxAppends]
  /\ appends \in 0 .. MaxAppends
  /\ acked \subseteq Ids
  /\ broken \in 0 .. MaxBroken
  /\ shared \in BOOLEAN

Init ==
  /\ lines = << >>
  /\ open = FALSE
  /\ running = {}
  /\ counter = [p \in Processes |-> 0]
  /\ appends = 0
  /\ acked = {}
  /\ broken = 0
  /\ shared = FALSE

(***************************************************************************)
(* read: a line that is not one JSON document is skipped.  Bytes that are  *)
(* not UTF-8 raise a UnicodeDecodeError, which nobody catches.             *)
(***************************************************************************)
Decodes ==
  \A n \in DOMAIN lines : \A i \in DOMAIN lines[n] :
    lines[n][i].end # "within a character"

Parses(line) == Len(line) = 1 /\ line[1].end = "whole"

RecordOn(line) == IF Parses(line) THEN line ELSE << >>

\* No record at all is read of a file that raises.
Read == IF Decodes THEN FlattenSeq([n \in DOMAIN lines |-> RecordOn(lines[n])]) ELSE << >>

\* _last_seq: the highest number there is, not the last.
LastSeq == Max({0} \cup {Read[i].seq : i \in DOMAIN Read})

Written(piece) ==
  IF open THEN [lines EXCEPT ![Len(lines)] = Append(@, piece)]
          ELSE Append(lines, << piece >>)

NextPiece(p, end) == [id |-> appends + 1, seq |-> counter[p] + 1, end |-> end]

-----------------------------------------------------------------------------
\* Mutant: the numbering goes on from how many records can be read.
Open_Counts(p) ==
  /\ p \notin running
  /\ Decodes
  /\ running' = running \cup {p}
  /\ shared' = (shared \/ running # {})
  /\ counter' = [counter EXCEPT ![p] = Len(Read)]
  /\ UNCHANGED << lines, open, appends, acked, broken >>

\* Journal.__init__.
Open(p) ==
  /\ p \notin running
  /\ Decodes
  /\ running' = running \cup {p}
  /\ shared' = (shared \/ running # {})
  /\ counter' = [counter EXCEPT ![p] = LastSeq]
  /\ UNCHANGED << lines, open, appends, acked, broken >>

\* The command ends, or the process dies between two appends.
Close(p) ==
  /\ p \in running
  /\ running' = running \ {p}
  /\ UNCHANGED << lines, open, counter, appends, acked, broken, shared >>

Handed(p) ==
  /\ p \in running
  /\ appends < MaxAppends
  /\ appends' = appends + 1
  /\ counter' = [counter EXCEPT ![p] = @ + 1]

\* Mutant: the file is opened to be written, not appended to.
AppendRecord_Truncates(p) ==
  /\ Handed(p)
  /\ lines' = << << NextPiece(p, "whole") >> >>
  /\ open' = FALSE
  /\ acked' = acked \cup {appends + 1}
  /\ UNCHANGED << running, broken, shared >>

\* append: one write, record and end of line, then fsync.
AppendRecord(p) ==
  /\ Handed(p)
  /\ lines' = Written(NextPiece(p, "whole"))
  /\ open' = FALSE
  /\ acked' = acked \cup {appends + 1}
  /\ UNCHANGED << running, broken, shared >>

\* It breaks off before the first byte, within the record, before the end of
\* line, or before fsync has answered; the process dies of it, or goes on with
\* the exception (Saga.run journals step_failed next).
AppendBreaksOff(p) ==
  /\ Handed(p)
  /\ broken < MaxBroken
  /\ broken' = broken + 1
  /\ \/ UNCHANGED << lines, open >>
     \/ \E cut \in Cuts : lines' = Written(NextPiece(p, cut)) /\ open' = TRUE
     \/ lines' = Written(NextPiece(p, "whole")) /\ open' \in BOOLEAN
  /\ running' \in {running, running \ {p}}
  /\ UNCHANGED << acked, shared >>

Next ==
  \E p \in Processes : Open(p) \/ Close(p) \/ AppendRecord(p) \/ AppendBreaksOff(p)

Spec == Init /\ [][Next]_vars

-----------------------------------------------------------------------------
(***************************************************************************)
(* Properties.                                                             *)
(***************************************************************************)
ReadIds == {Read[i].id : i \in DOMAIN Read}

\* A write that breaks off, between two characters, costs no more than one
\* acknowledged record: the one that lands on its line.  The marker or uuid of every other append that
\* returned is there for the rollback, whatever else was torn and whoever else
\* writes.
LossIsBounded == Cardinality(acked \ ReadIds) <= broken

\* One process after another numbers upwards, across restarts and torn lines;
\* only two at once can repeat a number.
SeqGrows ==
  ~shared => \A i, j \in DOMAIN Read : i < j => Read[i].seq < Read[j].seq

\* While no write breaks off within a character, writes that break off and
\* commands that come back, or run at once, cost one record each at most, and
\* never the order of the others.
AppendsAreSafe == TypeOK /\ LossIsBounded /\ SeqGrows

\* The file is such a log, while no write breaks off within a character.
Log == INSTANCE RecordLog WITH Records <- Pieces, log <- Read, inDoubt <- open

IsARecordLog == Log!LogSpec

\* Every record whose append returned is read back: "a record that is not on
\* disk when the process dies is a compensating action that will never run".
AckedIsRead == acked \subseteq ReadIds

\* Whatever a crash leaves behind, the journal can be read: "skipped with a
\* warning rather than aborting the read ... refusing to read them would strand
\* a recoverable migration" (Journal.read).
StaysReadable == Decodes

=============================================================================
