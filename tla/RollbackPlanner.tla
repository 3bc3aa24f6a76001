--------------------------- MODULE RollbackPlanner ---------------------------
(***************************************************************************)
(* rollback_plan_for: the compensations of a sequence of completed states, *)
(* in reverse execution order, with single steps moved forward.  Written   *)
(* over any order, compensation map and precedence, because the project    *)
(* migration and the instance migration share it (domain/statemachine.py). *)
(***************************************************************************)
EXTENDS Integers, SequencesExt

Step(compensation, state) == [compensation |-> compensation, because_of |-> state]

StepsOf(state, compensations) ==
  [i \in DOMAIN compensations[state] |-> Step(compensations[state][i], state)]

PositionOf(compensation, steps) ==
  SelectInSeq(steps, LAMBDA step : step.compensation = compensation)

(***************************************************************************)
(* Puts the step of pair[1] immediately before the step of pair[2] when    *)
(* both are planned and it would otherwise come later.                     *)
(***************************************************************************)
\* Mutant: the step is inserted without being taken out where it was.
MoveForward_Copies(steps, pair) ==
  LET i == PositionOf(pair[1], steps)
      j == PositionOf(pair[2], steps)
  IN IF i > 0 /\ j > 0 /\ i > j THEN InsertAt(steps, j, steps[i]) ELSE steps

MoveForward(steps, pair) ==
  LET i == PositionOf(pair[1], steps)
      j == PositionOf(pair[2], steps)
  IN IF i > 0 /\ j > 0 /\ i > j
     THEN InsertAt(RemoveAt(steps, i), j, steps[i])
     ELSE steps

OwedSteps(state, seen, compensations) ==
  IF state \in seen THEN StepsOf(state, compensations) ELSE << >>

PlanFor(completed, order, compensations, precedence) ==
  LET seen    == ToSet(completed) \cap DOMAIN compensations
      last    == Reverse(order)
      inOrder == FlattenSeq([i \in DOMAIN last |-> OwedSteps(last[i], seen, compensations)])
  IN FoldLeft(MoveForward, inOrder, precedence)

=============================================================================
