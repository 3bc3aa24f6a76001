----------------------------- MODULE RecordLog -----------------------------
(***************************************************************************)
(* What a journal promises its readers: a log that only grows, but for a   *)
(* write that broke off.  The log may then end in doubt, and the next      *)
(* write, which lands on the same line, is lost - with the record in doubt *)
(* if that one could be read.                                              *)
(***************************************************************************)
EXTENDS Sequences, SequencesExt

CONSTANT Records

VARIABLES log,      \* the records a reader gets
          inDoubt   \* the last write has no end of line

logVars == << log, inDoubt >>

LogInit == log = << >> /\ inDoubt = FALSE

WriteRecord ==
  /\ ~inDoubt
  /\ inDoubt' = FALSE
  /\ \E r \in Records : log' = Append(log, r)

\* A write that breaks off leaves the log as it was or with its record.
BreakOff ==
  /\ ~inDoubt
  /\ inDoubt' \in BOOLEAN
  /\ log' = log \/ \E r \in Records : log' = Append(log, r)

WriteOverDoubt ==
  /\ inDoubt
  /\ inDoubt' \in BOOLEAN
  /\ log' = log \/ (log # << >> /\ log' = Front(log))

LogNext == WriteRecord \/ BreakOff \/ WriteOverDoubt

LogSpec == LogInit /\ [][LogNext]_logVars

=============================================================================
