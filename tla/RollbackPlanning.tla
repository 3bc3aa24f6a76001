-------------------------- MODULE RollbackPlanning --------------------------
(***************************************************************************)
(* What the explicit rollback command plans for a journal, a record of     *)
(*   completed       the step_completed records, in journal order          *)
(*   inFlight        in_flight_state()                                     *)
(*   undoIncomplete  undo_incomplete_states()                              *)
(*   stopRequested   QUIESCE's merged detail holds stop_requested          *)
(* and what any such plan keeps to.                                        *)
(***************************************************************************)
EXTENDS StateMachine, RollbackPlanner, FiniteSets

CompensationMap == [s \in SideEffects |-> Owes(s)]

Owed(journal) ==
  OwedStates(ToSet(journal.completed), journal.inFlight, journal.undoIncomplete,
             journal.stopRequested)

Plan(journal) ==
  LET owed == Owed(journal)
  IN  PlanFor(journal.completed \o SetToSeq(owed \ ToSet(journal.completed)),
              Order, CompensationMap, Precedence)

Names(plan) == [i \in DOMAIN plan |-> plan[i].compensation]

-----------------------------------------------------------------------------
\* Whether compensation c is planned before d, or one of them is not planned.
InOrder(plan, c, d) ==
  PositionOf(c, plan) > 0 /\ PositionOf(d, plan) > 0 => PositionOf(c, plan) < PositionOf(d, plan)

\* Moving a step forward loses none and repeats none, and every step still
\* carries the state that owes it, whose journalled undo info it receives.
EveryDebtPlannedOnce(journal, plan) ==
  LET owed == Owed(journal) \cap SideEffects
  IN  /\ \A i \in DOMAIN plan : /\ plan[i].because_of \in owed
                                /\ Contains(Owes(plan[i].because_of), plan[i].compensation)
      /\ \A s \in owed : ToSet(Owes(s)) \subseteq ToSet(Names(plan))
      /\ IsInjective(Names(plan))

\* A volume in use cannot be dropped and a deleted resource leaks the volumes
\* it still references: stop, then drop, then delete.
TargetTornDownInOrder(plan) ==
  /\ InOrder(plan, "stop_target", "drop_target_volumes")
  /\ InOrder(plan, "drop_target_volumes", "delete_target_resource")

\* The deploy that restarts the source bakes its stored labels into the
\* container, so the domains are given back immediately before it.
DomainsBackBeforeRestart(plan) ==
  LET restore == PositionOf("restore_source_fqdn", plan)
      restart == PositionOf("restart_source", plan)
  IN  restore > 0 /\ restart > 0 => restart = restore + 1

\* Nothing runs after the release of the pins on the source's volumes, so
\* neither the restart nor the delete of the target finds them unprotected.
UnpinIsLast(plan) ==
  LET unpin == PositionOf("release_source_pins", plan) IN unpin > 0 => unpin = Len(plan)

\* A source is restarted exactly when this run may have stopped it: a QUIESCE
\* that merely was in flight, or had failed before its stop request, leaves a
\* running source alone.
RestartIffStopped(journal, plan) ==
  PositionOf("restart_source", plan) > 0
    <=> "quiesce" \in ToSet(journal.completed) \/ journal.stopRequested

=============================================================================
