---------------------------- MODULE StateMachine ----------------------------
(***************************************************************************)
(* The states of a project migration, what each owes a rollback, and the   *)
(* pure rules that decide what a rollback may and must do                  *)
(* (domain/statemachine.py).  No variables: the executor's modules         *)
(* (Migration) and the planner's (RollbackPlanning) use these.             *)
(***************************************************************************)
EXTENDS Integers, Sequences

Order == << "init", "preflight", "plan", "create_target", "quiesce", "discover",
            "copy", "verify", "dns_gate", "start_target", "healthcheck",
            "finalize", "done" >>

States == {Order[i] : i \in 1..13}

NoState == "none"

Policies == {"keep", "rename", "delete"}

Compensations ==
  {"delete_target_resource", "drop_target_volumes", "stop_target", "restart_source",
   "revoke_ephemeral_key", "restore_source_name", "restore_source_fqdn",
   "release_source_pins"}

(***************************************************************************)
(* What completing a state owes.  A state outside the domain only reads.   *)
(***************************************************************************)
SideEffects == {"create_target", "quiesce", "copy", "start_target", "finalize"}

Owes(s) ==
  CASE s = "create_target" -> << "delete_target_resource", "restore_source_fqdn",
                                 "release_source_pins" >>
    [] s = "quiesce"       -> << "restart_source" >>
    [] s = "copy"          -> << "drop_target_volumes", "revoke_ephemeral_key" >>
    [] s = "start_target"  -> << "stop_target" >>
    [] s = "finalize"      -> << "restore_source_name" >>

\* <<first, then>>: first runs immediately before then when both are planned.
Precedence == << << "restore_source_fqdn", "restart_source" >> >>

(***************************************************************************)
(* The rules a rollback asks before it plans.  stopRequested is QUIESCE's  *)
(* journalled marker, policyMark the policy FINALIZE journalled before it  *)
(* touched anything (NoState while it has not begun).                      *)
(***************************************************************************)
SourceWasStopped(completed, stopRequested) == "quiesce" \in completed \/ stopRequested

OwedStates(completed, inFlight, undoIncomplete, stopRequested) ==
  LET listed == completed \cup (({inFlight} \cup undoIncomplete) \ {NoState, "quiesce"})
  IN IF SourceWasStopped(listed, stopRequested) THEN listed \cup {"quiesce"} ELSE listed

\* Mutant: a rollback never asks what FINALIZE began.
RollbackRefusal_Never(policyMark) == FALSE

RollbackRefusal(policyMark) == policyMark = "delete"

SourceCopyUnproven(policyMark) == policyMark \in {"keep", "rename"}

(***************************************************************************)
(* The plan for a set of owed states, last state first.  The one           *)
(* precedence of this machine lifts the domain restore out of              *)
(* CREATE_TARGET's tuple to just before the restart.  RollbackPlanner has  *)
(* the general planner; Decisions checks that this is its value.           *)
(***************************************************************************)
OwedBy(s, owed) == IF s \in owed THEN Owes(s) ELSE << >>

RollbackPlan(owed) ==
  OwedBy("finalize", owed) \o OwedBy("start_target", owed) \o OwedBy("copy", owed) \o
  IF {"quiesce", "create_target"} \subseteq owed
  THEN << "restore_source_fqdn", "restart_source",
          "delete_target_resource", "release_source_pins" >>
  ELSE OwedBy("quiesce", owed) \o OwedBy("create_target", owed)

=============================================================================
