------------------------- MODULE MigrationProperties -------------------------
(***************************************************************************)
(* What a migration promises, whatever fails, dies or is pruned on the way.*)
(***************************************************************************)
EXTENDS Migration

\* Until FINALIZE has begun the source is the rollback: no stop, no crash,
\* no failed or repeated rollback and no Docker cleanup costs it its data
\* (steps.py _pin_source, compensations.py undo_release_source_pins).
SourceSurvives ==
  journal.policy = NoState => \A r \in Resources : srcVol[r] = "data"

\* The pin is what keeps that promise: from before the stop is asked for until
\* the source is seen serving, through late stops, failed deploys, crashes and
\* every rollback, a resource that is down or about to go down is pinned.
PinnedWhileDown ==
  journal.policy = NoState =>
    \A r \in Resources : src[r] # "running" \/ stopQueued[r] => r \in srcPins

\* At every moment one side holds the data of each resource whole: the
\* source, or a target volume that is the verified copy or grew out of it.
IntactCopy ==
  \A r \in Resources : srcVol[r] = "data" \/ tgtVol[r] \in {"copy", "live"}

\* FINALIZE begins only over targets that run on the verified copy - also
\* when the states before it were skipped by a resume.
FinalizeOverLiveCopy ==
  [][journal'.policy # journal.policy =>
       \A r \in Resources : tgt[r] = "running" /\ tgtVol[r] = "live"]_vars

\* Once FINALIZE(delete) has begun the target holds the only copy, and no
\* step of any later command, nor the cleanup, costs it one volume
\* (statemachine.py rollback_refusal, steps.py _unpin_target).
TargetIsSafeOnceDeleting ==
  [][journal.policy = "delete" =>
       \A r \in Resources : tgtVol[r] = "live" => tgtVol'[r] = "live"]_vars

\* A source is deleted only by FINALIZE(delete) after a verification, and the
\* record of it is never ahead of the deletion: what a resume skips is gone.
DeletedIsDeleted ==
  \A r \in Resources :
    r \in journal.deleted => src[r] = "deleted" /\ "verify" \in journal.completed

UndeletedIsPinned ==
  \A r \in Resources : src[r] = "deleted" \/ srcVol[r] = "gone" \/ r \in srcPins

\* A FINALIZE(delete) that is refused, or whose delete of a source fails, leaves
\* every source it has not deleted under a pin, unless it says it could not or
\* the cleanup was faster (steps.py _refuse_other_references, _repin_undeleted).
\* A release that breaks off is not among these failures.  Which volumes to pin
\* again the attempt alone knows that released the pins: the next one finds
\* none, so this is about the first.
FailedDeleteLeavesPinned ==
  commands = 1 /\ pc = "failed" /\ error = "step" /\ journal.policy = "delete"
    => UndeletedIsPinned

\* Whatever fails part-way in the first FINALIZE(delete): "If a delete fails
\* part-way, the sources not yet deleted are pinned again until a resume
\* finishes the step" (docs/safety.md).  An error that names the volumes left
\* unpinned is excepted.
EveryFailedDeleteLeavesPinned ==
  commands = 1 /\ pc = "failed" /\ error # "exposed" /\ journal.policy = "delete"
    => UndeletedIsPinned

\* ROLLED_BACK over a source this run stopped means every resource of it
\* either serves or keeps its pin, so a restart that never came up, or was
\* undone by a late stop, leaves the data where the operator can start it.
RolledBackServesOrKeepsPin ==
  outcome = "rolled_back" /\ journal.stopRequested
    => \A r \in Resources : src[r] = "running" \/ r \in srcPins

=============================================================================
