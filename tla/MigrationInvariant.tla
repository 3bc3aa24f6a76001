------------------------- MODULE MigrationInvariant -------------------------
(***************************************************************************)
(* The inductive invariant behind TypeOK, SourceSurvives and               *)
(* PinnedWhileDown: what the process knows by where it is, and why the     *)
(* pins are where they are needed.  Nothing here asks how a run ends after *)
(* FINALIZE has begun.                                                     *)
(***************************************************************************)
EXTENDS MigrationProperties

(***************************************************************************)
(* The place in the code fixes the state the saga is at ...                *)
(***************************************************************************)
CreateLabels == {"create_undo", "create", "create_journal", "create_undo_partial"}
QuiesceLabels == {"quiesce_pin", "quiesce_mark", "quiesce_stop", "quiesce_wait"}
CopyLabels == {"copy_volumes", "copy_pin", "copy", "copy_check"}
FinalizeLabels ==
  {"finalize_policy", "finalize_unpin_target", "finalize_refuse", "finalize_delete",
   "finalize_deleted", "finalize_rename", "finalize_unpin_source"}

LabelFitsState ==
  /\ pc = "work" => idx \in {1, 2, 3, 6, 8, 9, 11}
  /\ pc \in CreateLabels => idx = 4
  /\ pc \in QuiesceLabels => idx = 5
  /\ pc \in CopyLabels => idx = 7
  /\ pc = "start" => idx = 10
  /\ pc \in FinalizeLabels => idx = 12
  /\ pc = "complete" => idx < 13

\* ... and whether the loop is at a resource or behind the last one.
LoopFits == pc \in {"create_journal", "finalize_deleted", "rb_restarted"} => at <= N

\* FINALIZE's policy is on disk before FINALIZE does anything else, so it is
\* when FINALIZE is complete and when the run has succeeded.
PolicyFirst ==
  /\ pc \in FinalizeLabels \ {"finalize_policy"} => journal.policy # NoState
  /\ pc = "complete" /\ idx = 12 => journal.policy # NoState
  /\ "finalize" \in journal.completed => journal.policy # NoState
  /\ idx = 13 => "finalize" \in journal.completed
  /\ outcome = "succeeded" => journal.policy # NoState

\* No stop is on its way that the journal does not speak of.
StopsAreMarked ==
  /\ pc = "quiesce_stop" => journal.stopRequested
  /\ ~journal.stopRequested => \A r \in Resources : ~stopQueued[r]

\* The restart a rollback relies on is the one of this rollback.
RestartIsOurs ==
  pc \in {"rb_step", "rb_restart", "rb_restarted"} /\ journal.restartOk
    => journal.restarted = Resources

\* A process works on a journal there is; after unpin the journal is closed.
UnpinnedIsOver ==
  /\ pc # "idle" \/ journal.finished => journal.started
  /\ unpinned => pc = "idle" /\ journal.finished

(***************************************************************************)
(* While FINALIZE has not begun: the source is whole, what is down or about*)
(* to go down is pinned, and so is everything a stop may yet be asked for  *)
(* or a restart may yet take down.                                         *)
(***************************************************************************)
Guarded ==
  /\ \A r \in Resources : srcVol[r] = "data" /\ src[r] # "deleted"
  /\ \A r \in Resources : src[r] # "running" \/ stopQueued[r] => r \in srcPins
  /\ pc \in {"quiesce_mark", "quiesce_stop"} => srcPins = Resources
  /\ journal.stopRequested /\ ~unpinned =>
       \A r \in Resources : r \in journal.restarted \/ r \in srcPins

SourceIsGuarded == journal.policy = NoState => Guarded

\* A completed QUIESCE marked its stop.
QuiesceIsMarked ==
  /\ pc = "quiesce_wait" => journal.stopRequested
  /\ pc = "complete" /\ idx = 5 => journal.stopRequested
  /\ "quiesce" \in journal.completed => journal.stopRequested

\* A restart is planned, and run, only after a stop.
Payable == {c \in Compensations : c = "restart_source" => journal.stopRequested}

RestartsAreOwed ==
  /\ plan \in Seq(Payable)
  /\ pc \in {"rb_restart", "rb_restarted"} => journal.stopRequested /\ plan # << >>

\* What the program keeps up whatever the operator does ...
Shape ==
  /\ TypeOK
  /\ LabelFitsState
  /\ LoopFits
  /\ PolicyFirst
  /\ StopsAreMarked
  /\ QuiesceIsMarked
  /\ RestartsAreOwed
  /\ RestartIsOurs

\* ... and, for an operator who does not roll back after unpin, the inductive
\* invariant.
IInv ==
  /\ Shape
  /\ UnpinnedIsOver
  /\ SourceIsGuarded

=============================================================================
