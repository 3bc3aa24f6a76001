-------------------------- MODULE Migration_proofs --------------------------
(***************************************************************************)
(* What holds of a migration for any number of resources, crashes and      *)
(* commands.  First the source: until FINALIZE its volumes are pinned      *)
(* whenever they hang on no container (IInv).  Then the copy: someone      *)
(* always has the data, for the target's volume is pinned from COPY on,    *)
(* equal to the source once VERIFY is complete and in use once HEALTHCHECK *)
(* is; FINALIZE comes after that, and a rollback of FINALIZE runs over a   *)
(* guarded source again.  Last the first command, whose FINALIZE knows     *)
(* what it has to pin again when a delete fails (FirstInv).                *)
(***************************************************************************)
EXTENDS MigrationInvariant, SequenceTheorems, TLAPS

-----------------------------------------------------------------------------
(***************************************************************************)
(* The order of states: which index is which state, and where the saga     *)
(* enters it.                                                              *)
(***************************************************************************)
LEMMA OrderFacts ==
  ASSUME NEW i \in 1 .. 13
  PROVE  /\ Order[i] \in States
         /\ Order[i] = "finalize" => i = 12
         /\ Order[i] = "quiesce" => i = 5
<1>1. Order[i] \in States
  BY DEF States
<1>2. \/ i = 1 \/ i = 2 \/ i = 3 \/ i = 4 \/ i = 5 \/ i = 6 \/ i = 7
      \/ i = 8 \/ i = 9 \/ i = 10 \/ i = 11 \/ i = 12 \/ i = 13
  OBVIOUS
<1>3. Order[i] = "finalize" => i = 12
  BY <1>2 DEF Order
<1>4. Order[i] = "quiesce" => i = 5
  BY <1>2 DEF Order
<1> QED
  BY <1>1, <1>3, <1>4

\* How each state of the machine is entered.
LEMMA EntryFacts ==
  ASSUME NEW i \in 1 .. 12
  PROVE  /\ FirstLabel(Order[i]) \in {"create_undo", "quiesce_pin", "copy_volumes", "start",
                                     "finalize_policy", "work"}
         /\ FirstLabel(Order[i]) = "work" => i \in {1, 2, 3, 6, 8, 9, 11}
         /\ FirstLabel(Order[i]) = "create_undo" => i = 4
         /\ FirstLabel(Order[i]) = "quiesce_pin" => i = 5
         /\ FirstLabel(Order[i]) = "copy_volumes" => i = 7
         /\ FirstLabel(Order[i]) = "start" => i = 10
         /\ FirstLabel(Order[i]) = "finalize_policy" => i = 12
<1>1. \/ i = 1 \/ i = 2 \/ i = 3 \/ i = 4 \/ i = 5 \/ i = 6 \/ i = 7
      \/ i = 8 \/ i = 9 \/ i = 10 \/ i = 11 \/ i = 12
  OBVIOUS
<1> QED
  BY <1>1 DEF Order, FirstLabel

(***************************************************************************)
(* The plan of a rollback is made of compensations, and it restarts the    *)
(* source only if QUIESCE is owed.                                         *)
(***************************************************************************)
LEMMA PlanFacts ==
  ASSUME NEW owed, NEW S,
         Compensations \ {"restart_source"} \subseteq S,
         "quiesce" \in owed => "restart_source" \in S
  PROVE  RollbackPlan(owed) \in Seq(S)
<1>1. \A s \in {"finalize", "start_target", "copy", "create_target", "quiesce"} :
        OwedBy(s, owed) \in Seq(S)
  BY DEF OwedBy, Owes, Compensations
<1>2. {"quiesce", "create_target"} \subseteq owed =>
        << "restore_source_fqdn", "restart_source",
           "delete_target_resource", "release_source_pins" >> \in Seq(S)
  BY DEF Compensations
<1> QED
  BY <1>1, <1>2, ConcatProperties DEF RollbackPlan

(***************************************************************************)
(* Every step keeps the types.                                             *)
(***************************************************************************)
LEMMA EndTypes ==
  ASSUME NEW result \in Outcomes, End(result)
  PROVE  ProcessTypeOK'
<1>1. plan' \in Seq(Compensations)
  BY EmptySeq DEF End
<1>2. 1 \in 1 .. 13 /\ 1 \in 1 .. N + 1
  BY NAssumption
<1>3. pc' \in Labels
  BY DEF End, Labels
<1> QED
  BY <1>1, <1>2, <1>3 DEF End, ProcessTypeOK, ErrorKinds, Resources

\* The ways a step leaves the process: at a label, raised, in the next state,
\* past a compensation.
LEMMA MoveTypes ==
  ASSUME ProcessTypeOK, NEW label \in Labels, NEW i \in 1 .. N + 1, GotoAt(label, i)
  PROVE  ProcessTypeOK'
BY DEF ProcessTypeOK, GotoAt

LEMMA RaiseTypes ==
  ASSUME ProcessTypeOK, NEW kind \in ErrorKinds, Raise(kind)
  PROVE  ProcessTypeOK'
<1>1. pc' \in Labels
  BY DEF Raise, Labels
<1> QED
  BY <1>1 DEF ProcessTypeOK, Raise

LEMMA AdvanceTypes ==
  ASSUME ProcessTypeOK, idx < 13, NEW label \in Labels, Advance(label)
  PROVE  ProcessTypeOK'
<1>1. idx' \in 1 .. 13
  BY DEF ProcessTypeOK, Advance
<1> QED
  BY <1>1 DEF ProcessTypeOK, Advance

LEMMA RanTypes ==
  ASSUME ProcessTypeOK, plan # << >>, Ran \/ RanAndFailed
  PROVE  ProcessTypeOK'
<1>1. Tail(plan) \in Seq(Compensations)
  BY HeadTailProperties DEF ProcessTypeOK
<1>2. CASE Ran
  BY <1>1, <1>2 DEF ProcessTypeOK, Ran
<1>3. CASE RanAndFailed
  BY <1>1, <1>3 DEF ProcessTypeOK, RanAndFailed
<1> QED
  BY <1>2, <1>3

LEMMA SagaTypes ==
  ASSUME ProcessTypeOK, Saga
  PROVE  ProcessTypeOK'
<1>1. /\ 1 \in 1 .. N + 1 /\ at \in 1 .. N + 1
      /\ {"enter", "complete", "rb_refuse"} \subseteq Labels
  BY NAssumption DEF ProcessTypeOK, Labels
<1>2. CASE SkipState \/ CompleteState
  BY <1>1, <1>2, AdvanceTypes DEF SkipState, CompleteState
<1>3. CASE EnterState
  <2>1. idx \in 1 .. 12
    BY <1>3 DEF ProcessTypeOK, EnterState
  <2>2. FirstLabel(State) \in Labels
    BY <2>1, EntryFacts DEF State, Labels
  <2> QED
    BY <1>1, <1>3, <2>2, MoveTypes DEF EnterState
<1>4. CASE Finish \/ Block
  BY <1>4, EndTypes DEF Finish, Block, Outcomes
<1>5. CASE StepRaises
  <2>1. "step" \in ErrorKinds
    BY DEF ErrorKinds
  <2> QED
    BY <1>5, <2>1, RaiseTypes DEF StepRaises
<1>6. CASE StepFailed \/ ReadOnlyStep
  BY <1>1, <1>6, MoveTypes DEF StepFailed, ReadOnlyStep, Goto
<1> QED
  BY <1>2, <1>3, <1>4, <1>5, <1>6 DEF Saga

LEMMA StartTypes ==
  ASSUME ProcessTypeOK, StartTargetStep
  PROVE  ProcessTypeOK'
<1>1. /\ 1 \in 1 .. N + 1
      /\ at <= N => at + 1 \in 1 .. N + 1
      /\ {"start", "complete"} \subseteq Labels
  BY NAssumption DEF ProcessTypeOK, Labels
<1>2. CASE StartTarget
  BY <1>1, <1>2, MoveTypes DEF StartTarget
<1>3. CASE AllStarted
  BY <1>1, <1>3, MoveTypes DEF AllStarted
<1> QED
  BY <1>2, <1>3 DEF StartTargetStep

LEMMA CompensationTypes ==
  ASSUME Shape, Compensation
  PROVE  ProcessTypeOK'
<1>1. ProcessTypeOK
  BY DEF Shape, TypeOK
<1>2. /\ 1 \in 1 .. N + 1
      /\ at \in Nat /\ at <= N + 1 /\ (at <= N => at + 1 \in 1 .. N + 1)
      /\ at \in 1 .. N + 1
      /\ {"rb_restart", "rb_restarted"} \subseteq Labels
  BY <1>1, NAssumption DEF ProcessTypeOK, Labels
<1>3. CASE UndoElsewhere \/ CompensationFails
  BY <1>1, <1>3, RanTypes DEF UndoElsewhere, CompensationFails, Due
<1>4. CASE UndoStartTarget
  BY <1>1, <1>4, RanTypes, Zenon DEF UndoStartTarget, Due
<1>5. CASE UndoCopy \/ UndoReleaseSourcePins
  BY <1>1, <1>5, RanTypes, Zenon DEF UndoCopy, UndoReleaseSourcePins, Due
<1>6. CASE UndoCreateTarget
  BY <1>1, <1>6, RanTypes, Zenon DEF UndoCreateTarget, Due
<1>7. CASE UndoQuiesce
  BY <1>1, <1>2, <1>7, MoveTypes DEF UndoQuiesce
<1>8. CASE RestartSource
  BY <1>1, <1>2, <1>8, MoveTypes DEF RestartSource, Goto
<1>9. CASE RestartFails
  BY <1>1, <1>2, <1>9, MoveTypes DEF RestartFails
<1>10. CASE AlreadyRestarted
  <2>1. at <= N
    BY <1>10 DEF AlreadyRestarted, Shape, TypeOK, Journals, Resources
  <2> QED
    BY <1>1, <1>2, <1>10, <2>1, MoveTypes DEF AlreadyRestarted
<1>11. CASE JournalRestart
  <2>1. at <= N
    BY <1>11 DEF JournalRestart, Shape, LoopFits
  <2> QED
    BY <1>1, <1>2, <1>11, <2>1, MoveTypes DEF JournalRestart
<1>12. CASE RestartsDone
  <2>1. pc' = "rb_step" /\ at' = 1 /\ plan' = Tail(plan)
        /\ UNCHANGED << idx, error, held, outcome >>
    BY <1>12 DEF RestartsDone
  <2>2. failed' \in BOOLEAN
    BY <1>12 DEF RestartsDone
  <2>3. plan # << >>
    BY <1>12 DEF RestartsDone, Shape, RestartsAreOwed
  <2>4. Tail(plan) \in Seq(Compensations)
    BY <1>1, <2>3, HeadTailProperties DEF ProcessTypeOK
  <2>5. "rb_step" \in Labels
    BY DEF Labels
  <2> QED
    BY <1>1, <1>2, <2>1, <2>2, <2>4, <2>5 DEF ProcessTypeOK
<1> QED
  BY <1>3, <1>4, <1>5, <1>6, <1>7, <1>8, <1>9, <1>10, <1>11, <1>12 DEF Compensation

\* The process stays where it can be.
LEMMA ProcessTypes ==
  ASSUME Shape, Next
  PROVE  ProcessTypeOK'
<1> USE NAssumption, BoundsAssumption DEF Shape, TypeOK, worldVars, sourceVars,
         targetVars, boundVars, processVars, Goto, GotoAt, Raise,
         ProcessTypeOK, ErrorKinds, Labels, Outcomes, Resources, LoopFits
<1>1. CASE Command
  BY <1>1 DEF Command, RunMigration, ResumeMigration, RollbackMigration,
         UnpinMigration, Begin
<1>2. CASE Crash
  BY <1>2, EndTypes DEF Crash, Outcomes
<1>3. CASE Saga
  BY <1>3, SagaTypes, Zenon
<1>4. CASE CreateTargetStep
  BY <1>4 DEF CreateTargetStep, NothingToUndo, UndoInterruptedAttempt,
         CreateResource, JournalTarget, CreateDone, CreateFails, UndoPartialCreate,
         RemoveTargets
<1>5. CASE QuiesceStep
  BY <1>5 DEF QuiesceStep, PinSource, MarkStop, RequestStop, StopsRequested,
         Quiesced, Pinned
<1>6. CASE CopyStep
  <2>1. CASE CopyOne
    <3>1. at \in Resources
      BY <2>1 DEF CopyOne, Journals
    <3>2. /\ UNCHANGED << idx, plan, failed, held, outcome >>
          /\ \/ pc' = "copy" /\ at' = at + 1 /\ error' = error
             \/ pc' = "failed" /\ at' = at /\ error' = "step"
      BY <2>1 DEF CopyOne
    <3> QED
      BY <3>1, <3>2
  <2>2. CASE Discover \/ CreateVolumes \/ PinTarget \/ AllCopied \/ StillStopped
    BY <2>2 DEF Discover, CreateVolumes, PinTarget, AllCopied, StillStopped
  <2> QED
    BY <1>6, <2>1, <2>2 DEF CopyStep
<1>7. CASE StartTargetStep
  BY <1>7, StartTypes, Zenon
<1>8. CASE FinalizeStep
  <2>1. CASE JournalPolicy \/ UnpinTarget \/ ReleaseForDelete \/ RenameSources \/ UnpinSource
    BY <2>1 DEF JournalPolicy, UnpinTarget, ReleaseForDelete, RenameSources, UnpinSource,
                WorldTypeOK
  <2>2. CASE SkipDeleted \/ JournalDeleted \/ AllDeleted
    BY <2>2 DEF SkipDeleted, JournalDeleted, AllDeleted, Journals
  <2>3. CASE DeleteSource \/ DeleteFails
    BY <2>3 DEF DeleteSource, DeleteFails
  <2> QED
    BY <1>8, <2>1, <2>2, <2>3 DEF FinalizeStep
<1>9. CASE Rollback
  <2>1. CASE RefuseIfIrreversible \/ RefuseIfUnsafe
    BY <2>1, EndTypes DEF RefuseIfIrreversible, RefuseIfUnsafe, Refuse, Outcomes
  <2>2. CASE NothingOwed \/ EndRollback
    BY <2>2, EndTypes DEF NothingOwed, EndRollback, Outcomes
  <2>3. CASE StartRollback
    BY <2>3, PlanFacts DEF StartRollback, Compensations
  <2>4. CASE Irrefusable \/ GuardPasses \/ GuardPins
    BY <2>4, ZenonT(60) DEF Irrefusable, GuardPasses, GuardPins
  <2> QED
    BY <1>9, <2>1, <2>2, <2>3, <2>4 DEF Rollback
<1>10. CASE Compensation
  BY <1>10, CompensationTypes, Zenon
<1>11. CASE Environment
  BY <1>11 DEF Environment, StopLands, SourceUp, SourceDeployFails, TargetUp,
         TargetDown, PruneSource, PruneTarget, DeleteKeptSource, RestartKeptSource,
         StartSourceByHand
<1> QED
  BY <1>1, <1>2, <1>3, <1>4, <1>5, <1>6, <1>7, <1>8, <1>9, <1>10, <1>11 DEF Next, Process

\* What the journal's fields grow by.
LEMMA StateUpdates ==
  ASSUME NEW j \in Journals, NEW s \in States
  PROVE  /\ [j EXCEPT !.completed = @ \cup {s}, !.inFlight = NoState] \in Journals
         /\ [j EXCEPT !.inFlight = s] \in Journals
<1>1. j.completed \cup {s} \in SUBSET States
  BY DEF Journals
<1> QED
  BY <1>1 DEF Journals

\* What the journal's entries per resource grow by.
LEMMA ResourceUpdates ==
  ASSUME NEW j \in Journals, NEW r \in Resources
  PROVE  /\ [j EXCEPT !.restarted = @ \cup {r}] \in Journals
         /\ [j EXCEPT !.deleted = @ \cup {r}] \in Journals
         /\ [j EXCEPT !.targets = 1 .. r] \in Journals
<1>1. /\ j.restarted \cup {r} \in SUBSET Resources
      /\ j.deleted \cup {r} \in SUBSET Resources
      /\ 1 .. r \in SUBSET Resources
  BY NAssumption DEF Journals, Resources
<1> QED
  BY <1>1 DEF Journals

\* What the journal's flags change to.
LEMMA FlagUpdates ==
  ASSUME NEW j \in Journals, NEW b \in BOOLEAN
  PROVE  /\ [j EXCEPT !.finished = b] \in Journals
         /\ [j EXCEPT !.undo = "ended", !.finished = b] \in Journals
         /\ [j EXCEPT !.undo = "begun", !.restartOk = FALSE, !.finished = FALSE] \in Journals
BY DEF Journals

\* Where a loop's body runs the loop is at a resource.
LEMMA AtResource ==
  ASSUME Shape, pc \in {"create_journal", "finalize_deleted", "rb_restarted"}
  PROVE  at \in Resources
BY NAssumption DEF Shape, TypeOK, ProcessTypeOK, LoopFits, Resources

\* The journal keeps its form.
LEMMA JournalTypes ==
  ASSUME Shape, Next
  PROVE  journal' \in Journals
<1> USE NAssumption, BoundsAssumption DEF Shape, TypeOK, worldVars, sourceVars,
         targetVars, boundVars, processVars, Goto, GotoAt, Raise, End,
         ProcessTypeOK, Journals, Resources, LoopFits
<1>1. CASE Command
  BY <1>1 DEF Command, RunMigration, ResumeMigration, RollbackMigration,
         UnpinMigration, Begin
<1>2. CASE Crash
  BY <1>2 DEF Crash
<1>3. CASE Saga
  <2>1. State \in States
    BY OrderFacts DEF State
  <2>2. CASE EnterState \/ CompleteState
    <3> HIDE DEF Journals
    <3>1. CASE EnterState
      BY <2>1, <3>1, StateUpdates DEF EnterState
    <3>2. CASE CompleteState
      BY <2>1, <3>2, StateUpdates DEF CompleteState
    <3> QED
      BY <2>2, <3>1, <3>2
  <2>3. CASE Finish \/ Block \/ StepFailed
    BY <2>3, ZenonT(60) DEF Finish, Block, StepFailed
  <2>4. CASE SkipState \/ StepRaises \/ ReadOnlyStep
    BY <2>4 DEF SkipState, StepRaises, ReadOnlyStep
  <2> QED
    BY <1>3, <2>2, <2>3, <2>4 DEF Saga
<1>4. CASE CreateTargetStep
  <2>1. CASE UndoInterruptedAttempt
    BY <2>1, ZenonT(60) DEF UndoInterruptedAttempt
  <2>2. CASE JournalTarget
    <3> HIDE DEF Journals
    <3> QED
      BY <2>2, AtResource, ResourceUpdates DEF JournalTarget
  <2>3. CASE UndoPartialCreate
    BY <2>3, ZenonT(60) DEF UndoPartialCreate
  <2>4. CASE NothingToUndo \/ CreateResource \/ CreateDone \/ CreateFails
    BY <2>4 DEF NothingToUndo, CreateResource, CreateDone, CreateFails
  <2> QED
    BY <1>4, <2>1, <2>2, <2>3, <2>4 DEF CreateTargetStep
<1>5. CASE QuiesceStep
  <2>1. CASE MarkStop
    BY <2>1 DEF MarkStop
  <2>2. CASE PinSource \/ RequestStop \/ StopsRequested \/ Quiesced
    BY <2>2 DEF PinSource, RequestStop, StopsRequested, Quiesced
  <2> QED
    BY <1>5, <2>1, <2>2 DEF QuiesceStep
<1>6. CASE CopyStep
  BY <1>6 DEF CopyStep, Discover, CreateVolumes, PinTarget, CopyOne,
         AllCopied, StillStopped, Pinned
<1>7. CASE StartTargetStep
  BY <1>7 DEF StartTargetStep, StartTarget, AllStarted
<1>8. CASE FinalizeStep
  <2>1. CASE JournalPolicy
    BY <2>1 DEF JournalPolicy, WorldTypeOK
  <2>2. CASE JournalDeleted
    BY <2>2, AtResource, ResourceUpdates DEF JournalDeleted
  <2>3. CASE UnpinTarget \/ ReleaseForDelete \/ RenameSources \/ UnpinSource
    BY <2>3 DEF UnpinTarget, ReleaseForDelete, RenameSources, UnpinSource
  <2>4. CASE SkipDeleted \/ DeleteSource \/ DeleteFails \/ AllDeleted
    BY <2>4 DEF SkipDeleted, DeleteSource, DeleteFails, AllDeleted
  <2> QED
    BY <1>8, <2>1, <2>2, <2>3, <2>4 DEF FinalizeStep
<1>9. CASE Rollback
  <2> HIDE DEF Journals
  <2>1. CASE Irrefusable \/ GuardPasses \/ GuardPins
    BY <2>1 DEF Irrefusable, GuardPasses, GuardPins, Pinned
  <2>2. CASE RefuseIfIrreversible \/ RefuseIfUnsafe
    BY <2>2, FlagUpdates DEF RefuseIfIrreversible, RefuseIfUnsafe, Refuse
  <2>3. CASE NothingOwed
    BY <2>3, FlagUpdates DEF NothingOwed
  <2>4. CASE StartRollback
    BY <2>4, FlagUpdates DEF StartRollback
  <2>5. CASE EndRollback
    BY <2>5, FlagUpdates DEF EndRollback
  <2> QED
    BY <1>9, <2>1, <2>2, <2>3, <2>4, <2>5 DEF Rollback
<1>10. CASE Compensation
  <2>1. CASE JournalRestart
    BY <2>1, AtResource, ResourceUpdates DEF JournalRestart
  <2>2. CASE RestartsDone
    BY <2>2 DEF RestartsDone
  <2>3. CASE \/ UndoElsewhere \/ CompensationFails \/ UndoStartTarget \/ UndoCopy
            \/ UndoCreateTarget \/ UndoReleaseSourcePins
    BY <2>3 DEF UndoElsewhere, CompensationFails, UndoStartTarget, UndoCopy,
                UndoCreateTarget, UndoReleaseSourcePins
  <2>4. CASE UndoQuiesce \/ AlreadyRestarted \/ RestartSource \/ RestartFails
    BY <2>4 DEF UndoQuiesce, AlreadyRestarted, RestartSource, RestartFails
  <2> QED
    BY <1>10, <2>1, <2>2, <2>3, <2>4 DEF Compensation
<1>11. CASE Environment
  BY <1>11 DEF Environment, StopLands, SourceUp, SourceDeployFails, TargetUp,
         TargetDown, PruneSource, PruneTarget, DeleteKeptSource, RestartKeptSource,
         StartSourceByHand
<1> QED
  BY <1>1, <1>2, <1>3, <1>4, <1>5, <1>6, <1>7, <1>8, <1>9, <1>10, <1>11 DEF Next, Process

\* So does the world.
LEMMA WorldTypes ==
  ASSUME Shape, Next
  PROVE  WorldTypeOK'
<1> USE NAssumption, BoundsAssumption DEF Shape, TypeOK, worldVars, sourceVars,
         targetVars, boundVars, processVars, Goto, GotoAt, Raise, End,
         ProcessTypeOK, WorldTypeOK, SourceStates, TargetStates, SourceVolumes,
         TargetVolumes, BrokenOff, Resources, LoopFits
<1>1. CASE Command
  BY <1>1 DEF Command, RunMigration, ResumeMigration, RollbackMigration,
         UnpinMigration, Begin
<1>2. CASE Crash
  BY <1>2 DEF Crash
<1>3. CASE Saga
  BY <1>3 DEF Saga, SkipState, EnterState, CompleteState, Finish, Block, StepRaises,
         StepFailed, ReadOnlyStep, Discover, Advance, MayRaise
<1>4. CASE CreateTargetStep
  <2>1. CASE UndoInterruptedAttempt
    BY <2>1 DEF UndoInterruptedAttempt, RemoveTargets
  <2>2. CASE UndoPartialCreate
    BY <2>2 DEF UndoPartialCreate, RemoveTargets
  <2>3. CASE NothingToUndo \/ JournalTarget \/ CreateDone
    BY <2>3 DEF NothingToUndo, JournalTarget, CreateDone
  <2>4. CASE CreateResource
    BY <2>4 DEF CreateResource
  <2>5. CASE CreateFails
    BY <2>5 DEF CreateFails
  <2> QED
    BY <1>4, <2>1, <2>2, <2>3, <2>4, <2>5 DEF CreateTargetStep
<1>5. CASE QuiesceStep
  BY <1>5 DEF QuiesceStep, PinSource, MarkStop, RequestStop, StopsRequested,
         Quiesced, Pinned
<1>6. CASE CopyStep
  <2>1. CASE Discover
    BY <2>1 DEF Discover, Pinned
  <2>2. CASE CreateVolumes
    BY <2>2 DEF CreateVolumes
  <2>3. CASE PinTarget
    BY <2>3 DEF PinTarget, Journals
  <2>4. CASE CopyOne
    BY <2>4 DEF CopyOne
  <2>5. CASE AllCopied \/ StillStopped
    BY <2>5 DEF AllCopied, StillStopped
  <2> QED
    BY <1>6, <2>1, <2>2, <2>3, <2>4, <2>5 DEF CopyStep
<1>7. CASE StartTargetStep
  BY <1>7 DEF StartTargetStep, StartTarget, AllStarted
<1>8. CASE FinalizeStep
  <2>1. CASE JournalPolicy \/ SkipDeleted \/ JournalDeleted
    BY <2>1 DEF JournalPolicy, SkipDeleted, JournalDeleted
  <2>2. CASE UnpinTarget
    BY <2>2 DEF UnpinTarget
  <2>3. CASE ReleaseForDelete
    BY <2>3 DEF ReleaseForDelete
  <2>4. CASE DeleteFails
    BY <2>4 DEF DeleteFails, Pinned
  <2>5. CASE DeleteSource
    BY <2>5 DEF DeleteSource
  <2>6. CASE AllDeleted \/ RenameSources \/ UnpinSource
    BY <2>6 DEF AllDeleted, RenameSources, UnpinSource
  <2> QED
    BY <1>8, <2>1, <2>2, <2>3, <2>4, <2>5, <2>6 DEF FinalizeStep
<1>9. CASE Rollback
  <2>1. CASE GuardPins
    BY <2>1 DEF GuardPins, Pinned, Journals
  <2>2. CASE RefuseIfIrreversible \/ Irrefusable \/ RefuseIfUnsafe \/ GuardPasses
    BY <2>2 DEF RefuseIfIrreversible, Irrefusable, RefuseIfUnsafe, GuardPasses, Refuse
  <2>3. CASE NothingOwed \/ StartRollback \/ EndRollback
    BY <2>3 DEF NothingOwed, StartRollback, EndRollback
  <2> QED
    BY <1>9, <2>1, <2>2, <2>3 DEF Rollback
<1>10. CASE Compensation
  BY <1>10, ZenonT(60) DEF Compensation, UndoElsewhere, CompensationFails, UndoStartTarget,
         UndoCopy, UndoCreateTarget, UndoQuiesce, AlreadyRestarted, RestartSource,
         JournalRestart, RestartFails, RestartsDone, UndoReleaseSourcePins, Due,
         Ran, RanAndFailed, RemoveTargets
<1>11. CASE Environment
  <2>1. PICK r \in Resources :
           \/ StopLands(r) \/ SourceUp(r) \/ SourceDeployFails(r) \/ TargetUp(r)
           \/ TargetDown(r) \/ PruneSource(r) \/ PruneTarget(r)
           \/ DeleteKeptSource(r) \/ RestartKeptSource(r) \/ StartSourceByHand(r)
    BY <1>11 DEF Environment
  <2>2. CASE StopLands(r)
    BY <2>2 DEF StopLands
  <2>3. CASE SourceUp(r)
    BY <2>3 DEF SourceUp
  <2>4. CASE SourceDeployFails(r)
    BY <2>4 DEF SourceDeployFails
  <2>5. CASE TargetUp(r)
    BY <2>5 DEF TargetUp
  <2>6. CASE TargetDown(r)
    BY <2>6 DEF TargetDown
  <2>7. CASE PruneSource(r) \/ PruneTarget(r)
    BY <2>7 DEF PruneSource, PruneTarget
  <2>8. CASE DeleteKeptSource(r)
    BY <2>8 DEF DeleteKeptSource
  <2>9. CASE RestartKeptSource(r)
    BY <2>9 DEF RestartKeptSource
  <2>10. CASE StartSourceByHand(r)
    BY <2>10 DEF StartSourceByHand
  <2> QED
    BY <2>1, <2>2, <2>3, <2>4, <2>5, <2>6, <2>7, <2>8, <2>9, <2>10
<1> QED
  BY <1>1, <1>2, <1>3, <1>4, <1>5, <1>6, <1>7, <1>8, <1>9, <1>10, <1>11 DEF Next, Process

\* So do the counters.
LEMMA BoundsTypes ==
  ASSUME Shape, Next
  PROVE  BoundsTypeOK'
<1> USE NAssumption, BoundsAssumption DEF Shape, TypeOK, worldVars, sourceVars,
         targetVars, boundVars, processVars, Goto, GotoAt, Raise, End, BoundsTypeOK
<1>1. CASE Command
  BY <1>1 DEF Command, RunMigration, ResumeMigration, RollbackMigration,
         UnpinMigration, Begin
<1>2. CASE Crash
  BY <1>2 DEF Crash
<1>3. CASE Saga
  BY <1>3 DEF Saga, SkipState, EnterState, CompleteState, Finish, Block, StepRaises,
         StepFailed, ReadOnlyStep, Discover, Advance, MayRaise
<1>4. CASE CreateTargetStep
  BY <1>4 DEF CreateTargetStep, NothingToUndo, UndoInterruptedAttempt,
         CreateResource, JournalTarget, CreateDone, CreateFails, UndoPartialCreate,
         RemoveTargets
<1>5. CASE QuiesceStep
  BY <1>5 DEF QuiesceStep, PinSource, MarkStop, RequestStop, StopsRequested,
         Quiesced, Pinned
<1>6. CASE CopyStep
  BY <1>6 DEF CopyStep, Discover, CreateVolumes, PinTarget, CopyOne,
         AllCopied, StillStopped, Pinned
<1>7. CASE StartTargetStep
  BY <1>7 DEF StartTargetStep, StartTarget, AllStarted
<1>8. CASE FinalizeStep
  BY <1>8 DEF FinalizeStep, JournalPolicy, UnpinTarget, ReleaseForDelete,
         SkipDeleted, DeleteSource, JournalDeleted, DeleteFails, AllDeleted,
         RenameSources, UnpinSource, Pinned
<1>9. CASE Rollback
  BY <1>9 DEF Rollback, RefuseIfIrreversible, Irrefusable, RefuseIfUnsafe,
         GuardPasses, GuardPins, NothingOwed, StartRollback, EndRollback, Refuse,
         Pinned
<1>10. CASE Compensation
  BY <1>10 DEF Compensation, UndoElsewhere, CompensationFails, UndoStartTarget,
         UndoCopy, UndoCreateTarget, UndoQuiesce, AlreadyRestarted, RestartSource,
         JournalRestart, RestartFails, RestartsDone, UndoReleaseSourcePins, Due,
         Ran, RanAndFailed, RemoveTargets
<1>11. CASE Environment
  BY <1>11 DEF Environment, StopLands, SourceUp, SourceDeployFails, TargetUp,
         TargetDown, PruneSource, PruneTarget, DeleteKeptSource, RestartKeptSource,
         StartSourceByHand
<1> QED
  BY <1>1, <1>2, <1>3, <1>4, <1>5, <1>6, <1>7, <1>8, <1>9, <1>10, <1>11 DEF Next, Process

\* Which place in the code writes which of the journal's fields.
LEMMA JournalWriters ==
  ASSUME Shape, Next
  PROVE  /\ journal'.policy # journal.policy =>
              pc = "finalize_policy" /\ journal'.policy = policy
         /\ journal'.completed # journal.completed => pc = "complete"
         /\ journal'.stopRequested # journal.stopRequested => pc = "quiesce_mark"
         /\ journal.stopRequested => journal'.stopRequested
         /\ journal.started => journal'.started
         /\ journal'.restarted # journal.restarted =>
              pc \in {"quiesce_mark", "rb_restarted"}
         /\ journal'.restartOk # journal.restartOk => pc \in {"rb_plan", "rb_restart"}
<1> USE DEF Shape, TypeOK, Journals, worldVars, processVars
<1>1. CASE Command
  BY <1>1 DEF Command, RunMigration, ResumeMigration, RollbackMigration,
         UnpinMigration, Begin
<1>2. CASE Crash
  BY <1>2 DEF Crash
<1>3. CASE Saga
  BY <1>3 DEF Saga, SkipState, EnterState, CompleteState, Finish, Block, StepRaises,
         StepFailed, ReadOnlyStep, Advance, MayRaise
<1>4. CASE CreateTargetStep
  BY <1>4 DEF CreateTargetStep, NothingToUndo, UndoInterruptedAttempt, CreateResource,
         JournalTarget, CreateDone, CreateFails, UndoPartialCreate
<1>5. CASE QuiesceStep
  BY <1>5 DEF QuiesceStep, PinSource, MarkStop, RequestStop, StopsRequested, Quiesced
<1>6. CASE CopyStep
  BY <1>6 DEF CopyStep, Discover, CreateVolumes, PinTarget, CopyOne,
         AllCopied, StillStopped
<1>7. CASE StartTargetStep
  BY <1>7 DEF StartTargetStep, StartTarget, AllStarted
<1>8. CASE FinalizeStep
  BY <1>8 DEF FinalizeStep, JournalPolicy, UnpinTarget, ReleaseForDelete, SkipDeleted,
         DeleteSource, JournalDeleted, DeleteFails, AllDeleted, RenameSources,
         UnpinSource
<1>9. CASE Rollback
  BY <1>9 DEF Rollback, RefuseIfIrreversible, Irrefusable, RefuseIfUnsafe,
         GuardPasses, GuardPins, NothingOwed, StartRollback, EndRollback, Refuse
<1>10. CASE Compensation
  BY <1>10 DEF Compensation, UndoElsewhere, CompensationFails, UndoStartTarget,
         UndoCopy, UndoCreateTarget, UndoQuiesce, AlreadyRestarted, RestartSource,
         JournalRestart, RestartFails, RestartsDone, UndoReleaseSourcePins, Due, Ran,
         RanAndFailed
<1>11. CASE Environment
  BY <1>11 DEF Environment, StopLands, SourceUp, SourceDeployFails, TargetUp,
         TargetDown, PruneSource, PruneTarget, DeleteKeptSource, RestartKeptSource,
         StartSourceByHand
<1> QED
  BY <1>1, <1>2, <1>3, <1>4, <1>5, <1>6, <1>7, <1>8, <1>9, <1>10, <1>11 DEF Next,
         Process

\* The place in the code keeps fitting the state.
LEMMA Places ==
  ASSUME Shape, Next
  PROVE  LabelFitsState' /\ LoopFits'
<1> USE NAssumption DEF Shape, worldVars, sourceVars, targetVars, boundVars,
           processVars, Goto, GotoAt, Raise, End, TypeOK, ProcessTypeOK,
           LabelFitsState, LoopFits, CreateLabels, QuiesceLabels, CopyLabels,
           FinalizeLabels
<1>1. CASE Command
  BY <1>1 DEF Command, RunMigration, ResumeMigration, RollbackMigration,
         UnpinMigration, Begin
<1>2. CASE Crash
  BY <1>2 DEF Crash
<1>3. CASE Saga
  <2>1. CASE EnterState
    <3>1. idx \in 1 .. 12
      BY <2>1 DEF EnterState
    <3> QED
      BY <2>1, <3>1, EntryFacts DEF EnterState, State
  <2>2. CASE SkipState \/ CompleteState \/ Finish \/ Block
    BY <2>2 DEF SkipState, CompleteState, Finish, Block, Advance
  <2>3. CASE StepRaises \/ StepFailed \/ ReadOnlyStep
    BY <2>3, OrderFacts DEF StepRaises, StepFailed, ReadOnlyStep
  <2> QED
    BY <1>3, <2>1, <2>2, <2>3 DEF Saga
<1>4. CASE CreateTargetStep
  BY <1>4 DEF CreateTargetStep, NothingToUndo, UndoInterruptedAttempt, CreateResource,
         JournalTarget, CreateDone, CreateFails, UndoPartialCreate
<1>5. CASE QuiesceStep
  BY <1>5 DEF QuiesceStep, PinSource, MarkStop, RequestStop, StopsRequested, Quiesced
<1>6. CASE CopyStep
  BY <1>6 DEF CopyStep, Discover, CreateVolumes, PinTarget, CopyOne,
         AllCopied, StillStopped
<1>7. CASE StartTargetStep
  BY <1>7 DEF StartTargetStep, StartTarget, AllStarted
<1>8. CASE FinalizeStep
  BY <1>8 DEF FinalizeStep, JournalPolicy, UnpinTarget, ReleaseForDelete, SkipDeleted,
         DeleteSource, JournalDeleted, DeleteFails, AllDeleted, RenameSources,
         UnpinSource
<1>9. CASE Rollback
  BY <1>9 DEF Rollback, RefuseIfIrreversible, Irrefusable, RefuseIfUnsafe,
         GuardPasses, GuardPins, NothingOwed, StartRollback, EndRollback, Refuse
<1>10. CASE Compensation
  BY <1>10 DEF Compensation, UndoElsewhere, CompensationFails, UndoStartTarget,
         UndoCopy, UndoCreateTarget, UndoQuiesce, AlreadyRestarted, RestartSource,
         JournalRestart, RestartFails, RestartsDone, UndoReleaseSourcePins, Due, Ran,
         RanAndFailed
<1>11. CASE Environment
  BY <1>11 DEF Environment, StopLands, SourceUp, SourceDeployFails, TargetUp,
         TargetDown, PruneSource, PruneTarget, DeleteKeptSource, RestartKeptSource,
         StartSourceByHand
<1> QED
  BY <1>1, <1>2, <1>3, <1>4, <1>5, <1>6, <1>7, <1>8, <1>9, <1>10, <1>11 DEF Next,
         Process

\* FINALIZE does nothing before its policy is on disk.
LEMMA PolicyIsFirst ==
  ASSUME Shape, Next
  PROVE  PolicyFirst'
<1> USE DEF Shape, worldVars, sourceVars, boundVars, processVars, Goto, GotoAt, Raise,
           End, TypeOK, ProcessTypeOK, LabelFitsState, PolicyFirst, CreateLabels,
           QuiesceLabels, CopyLabels, FinalizeLabels
<1>0. /\ journal'.policy # journal.policy => pc = "finalize_policy"
      /\ journal'.completed # journal.completed => pc = "complete"
  BY JournalWriters
<1>1. CASE Command
  BY <1>1, <1>0 DEF Command, RunMigration, ResumeMigration, RollbackMigration,
         UnpinMigration, Begin
<1>2. CASE Crash
  BY <1>2, <1>0 DEF Crash
<1>3. CASE Saga
  <2>1. CASE CompleteState
    <3>1. /\ pc = "complete" /\ idx < 13 /\ pc' = "enter" /\ idx' = idx + 1
          /\ journal'.policy = journal.policy
          /\ journal'.completed = journal.completed \cup {State}
          /\ outcome' = outcome
      BY <2>1, <1>0 DEF CompleteState, Advance, Journals
    <3>2. State = "finalize" => idx = 12
      BY OrderFacts DEF State
    <3>3. idx' = 13 => State = "finalize"
      BY <3>1 DEF State, Order
    <3> QED
      BY <3>1, <3>2, <3>3
  <2>2. CASE SkipState
    <3>1. idx + 1 = 13 => State = "finalize"
      BY DEF State, Order
    <3> QED
      BY <2>2, <3>1, <1>0 DEF SkipState, Advance
  <2>3. CASE EnterState
    <3>1. FirstLabel(State) \in {"create_undo", "quiesce_pin", "copy_volumes", "start",
                                "finalize_policy", "work"}
      BY <2>3, EntryFacts DEF EnterState, State
    <3>2. pc' = FirstLabel(State) /\ idx' = idx /\ outcome' = outcome /\ pc = "enter"
      BY <2>3 DEF EnterState
    <3> QED
      BY <3>1, <3>2, <1>0
  <2>4. CASE Finish
    BY <2>4, <1>0 DEF Finish
  <2>5. CASE Block \/ StepRaises \/ StepFailed \/ ReadOnlyStep
    BY <2>5, <1>0 DEF Block, StepRaises, StepFailed, ReadOnlyStep
  <2> QED
    BY <1>3, <2>1, <2>2, <2>3, <2>4, <2>5 DEF Saga
<1>4. CASE CreateTargetStep
  BY <1>4, <1>0 DEF CreateTargetStep, NothingToUndo, UndoInterruptedAttempt,
         CreateResource, JournalTarget, CreateDone, CreateFails, UndoPartialCreate
<1>5. CASE QuiesceStep
  BY <1>5, <1>0 DEF QuiesceStep, PinSource, MarkStop, RequestStop, StopsRequested,
         Quiesced
<1>6. CASE CopyStep
  BY <1>6, <1>0 DEF CopyStep, Discover, CreateVolumes, PinTarget,
         CopyOne, AllCopied, StillStopped
<1>7. CASE StartTargetStep
  BY <1>7, <1>0 DEF StartTargetStep, StartTarget, AllStarted
<1>8. CASE FinalizeStep
  <2>1. CASE JournalPolicy
    <3>1. journal'.policy = policy /\ policy # NoState
      BY <2>1 DEF JournalPolicy, Journals, WorldTypeOK, Policies, NoState
    <3> QED
      BY <2>1, <3>1, <1>0 DEF JournalPolicy
  <2>2. CASE UnpinTarget \/ ReleaseForDelete \/ RenameSources \/ UnpinSource
    BY <2>2, <1>0 DEF UnpinTarget, ReleaseForDelete, RenameSources, UnpinSource
  <2>3. CASE SkipDeleted \/ DeleteSource \/ DeleteFails \/ AllDeleted \/ JournalDeleted
    BY <2>3, <1>0 DEF SkipDeleted, DeleteSource, DeleteFails, AllDeleted, JournalDeleted
  <2> QED
    BY <1>8, <2>1, <2>2, <2>3 DEF FinalizeStep
<1>9. CASE Rollback
  BY <1>9, <1>0 DEF Rollback, RefuseIfIrreversible, Irrefusable, RefuseIfUnsafe,
         GuardPasses, GuardPins, NothingOwed, StartRollback, EndRollback, Refuse
<1>10. CASE Compensation
  BY <1>10, <1>0 DEF Compensation, UndoElsewhere, CompensationFails, UndoStartTarget,
         UndoCopy, UndoCreateTarget, UndoQuiesce, AlreadyRestarted, RestartSource,
         JournalRestart, RestartFails, RestartsDone, UndoReleaseSourcePins, Due, Ran,
         RanAndFailed
<1>11. CASE Environment
  BY <1>11, <1>0 DEF Environment, StopLands, SourceUp, SourceDeployFails, TargetUp,
         TargetDown, PruneSource, PruneTarget, DeleteKeptSource, RestartKeptSource,
         StartSourceByHand
<1> QED
  BY <1>1, <1>2, <1>3, <1>4, <1>5, <1>6, <1>7, <1>8, <1>9, <1>10, <1>11 DEF Next,
         Process

\* A stop is marked before it is asked for, and the marker stays.
LEMMA StopsMarked ==
  ASSUME Shape, Next
  PROVE  StopsAreMarked' /\ QuiesceIsMarked'
<1> USE DEF Shape, worldVars, sourceVars, boundVars, processVars, Goto, GotoAt, Raise,
           End, TypeOK, ProcessTypeOK, LabelFitsState, StopsAreMarked,
           QuiesceIsMarked, WorldTypeOK, CreateLabels, QuiesceLabels, CopyLabels,
           FinalizeLabels
<1>0. /\ journal'.stopRequested # journal.stopRequested => pc = "quiesce_mark"
      /\ journal'.completed # journal.completed => pc = "complete"
  BY JournalWriters
<1>1. CASE Command
  BY <1>1, <1>0 DEF Command, RunMigration, ResumeMigration, RollbackMigration,
         UnpinMigration, Begin
<1>2. CASE Crash
  BY <1>2, <1>0 DEF Crash
<1>3. CASE Saga
  <2>1. CASE CompleteState
    <3>1. /\ pc = "complete" /\ idx < 13 /\ pc' = "enter"
          /\ journal'.stopRequested = journal.stopRequested
          /\ journal'.completed = journal.completed \cup {State}
          /\ stopQueued' = stopQueued
      BY <2>1, <1>0 DEF CompleteState, Advance, Journals
    <3>2. State = "quiesce" => idx = 5
      BY OrderFacts DEF State
    <3> QED
      BY <3>1, <3>2
  <2>2. CASE EnterState
    <3>1. FirstLabel(State) \in {"create_undo", "quiesce_pin", "copy_volumes", "start",
                                "finalize_policy", "work"}
      BY <2>2, EntryFacts DEF EnterState, State
    <3>2. /\ pc' = FirstLabel(State) /\ idx' = idx /\ pc = "enter"
          /\ stopQueued' = stopQueued
      BY <2>2 DEF EnterState
    <3> QED
      BY <3>1, <3>2, <1>0
  <2>3. CASE SkipState \/ Finish \/ Block \/ StepRaises \/ StepFailed \/ ReadOnlyStep
    BY <2>3, <1>0 DEF SkipState, Finish, Block, StepRaises, StepFailed, ReadOnlyStep,
         Advance, MayRaise
  <2> QED
    BY <1>3, <2>1, <2>2, <2>3 DEF Saga
<1>4. CASE CreateTargetStep
  BY <1>4, <1>0 DEF CreateTargetStep, NothingToUndo, UndoInterruptedAttempt,
         CreateResource, JournalTarget, CreateDone, CreateFails, UndoPartialCreate
<1>5. CASE QuiesceStep
  <2>1. CASE MarkStop
    <3>1. journal'.stopRequested
      BY <2>1 DEF MarkStop, Journals
    <3> QED
      BY <2>1, <3>1, <1>0 DEF MarkStop
  <2>2. CASE PinSource \/ RequestStop \/ StopsRequested \/ Quiesced
    BY <2>2, <1>0 DEF PinSource, RequestStop, StopsRequested, Quiesced
  <2> QED
    BY <1>5, <2>1, <2>2 DEF QuiesceStep
<1>6. CASE CopyStep
  BY <1>6, <1>0 DEF CopyStep, Discover, CreateVolumes, PinTarget,
         CopyOne, AllCopied, StillStopped
<1>7. CASE StartTargetStep
  BY <1>7, <1>0 DEF StartTargetStep, StartTarget, AllStarted
<1>8. CASE FinalizeStep
  BY <1>8, <1>0 DEF FinalizeStep, JournalPolicy, UnpinTarget, ReleaseForDelete,
         SkipDeleted, DeleteSource, JournalDeleted, DeleteFails, AllDeleted,
         RenameSources, UnpinSource
<1>9. CASE Rollback
  BY <1>9, <1>0 DEF Rollback, RefuseIfIrreversible, Irrefusable, RefuseIfUnsafe,
         GuardPasses, GuardPins, NothingOwed, StartRollback, EndRollback, Refuse
<1>10. CASE Compensation
  BY <1>10, <1>0 DEF Compensation, UndoElsewhere, CompensationFails, UndoStartTarget,
         UndoCopy, UndoCreateTarget, UndoQuiesce, AlreadyRestarted, RestartSource,
         JournalRestart, RestartFails, RestartsDone, UndoReleaseSourcePins, Due, Ran,
         RanAndFailed
<1>11. CASE Environment
  BY <1>11, <1>0 DEF Environment, StopLands, SourceUp, SourceDeployFails, TargetUp,
         TargetDown, PruneSource, PruneTarget, DeleteKeptSource, RestartKeptSource,
         StartSourceByHand
<1> QED
  BY <1>1, <1>2, <1>3, <1>4, <1>5, <1>6, <1>7, <1>8, <1>9, <1>10, <1>11 DEF Next,
         Process

(***************************************************************************)
(* A restart stays one that a stop owes: the marker is never taken back,   *)
(* and a new plan has a restart only if QUIESCE is owed.                   *)
(***************************************************************************)
LEMMA RestartsOwed ==
  ASSUME Shape, Next
  PROVE  RestartsAreOwed'
<1> USE DEF Shape, worldVars, sourceVars, boundVars, processVars, Goto, GotoAt, Raise,
           RestartsAreOwed
<1>0. /\ journal.stopRequested => journal'.stopRequested
      /\ \A s \in Seq(Payable) : s \in Seq(Payable')
      /\ << >> \in Seq(Payable')
  <2>1. journal.stopRequested => journal'.stopRequested
    BY JournalWriters
  <2>2. Payable \subseteq Payable'
    BY <2>1 DEF Payable
  <2> QED
    BY <2>1, <2>2, SeqMonotonic, EmptySeq
<1>1. CASE Command
  BY <1>1, <1>0 DEF Command, RunMigration, ResumeMigration, RollbackMigration,
         UnpinMigration, Begin
<1>2. CASE Crash
  BY <1>2, <1>0 DEF Crash, End
<1>3. CASE Saga
  <2>1. CASE EnterState
    <3>1. FirstLabel(State) \in {"create_undo", "quiesce_pin", "copy_volumes", "start",
                                "finalize_policy", "work"}
      BY <2>1, EntryFacts DEF EnterState, State, TypeOK, ProcessTypeOK
    <3>2. pc' = FirstLabel(State) /\ plan' = plan
      BY <2>1 DEF EnterState
    <3> QED
      BY <3>1, <3>2, <1>0
  <2>2. CASE SkipState \/ CompleteState \/ Finish \/ Block
    BY <2>2, <1>0 DEF SkipState, CompleteState, Finish, Block, Advance, End
  <2>3. CASE StepRaises \/ StepFailed \/ ReadOnlyStep
    BY <2>3, <1>0 DEF StepRaises, StepFailed, ReadOnlyStep
  <2> QED
    BY <1>3, <2>1, <2>2, <2>3 DEF Saga
<1>4. CASE CreateTargetStep
  BY <1>4, <1>0 DEF CreateTargetStep, NothingToUndo, UndoInterruptedAttempt,
         CreateResource, JournalTarget, CreateDone, CreateFails, UndoPartialCreate
<1>5. CASE QuiesceStep
  BY <1>5, <1>0 DEF QuiesceStep, PinSource, MarkStop, RequestStop, StopsRequested,
         Quiesced
<1>6. CASE CopyStep
  BY <1>6, <1>0 DEF CopyStep, Discover, CreateVolumes, PinTarget,
         CopyOne, AllCopied, StillStopped
<1>7. CASE StartTargetStep
  BY <1>7, <1>0 DEF StartTargetStep, StartTarget, AllStarted
<1>8. CASE FinalizeStep
  BY <1>8, <1>0 DEF FinalizeStep, JournalPolicy, UnpinTarget, ReleaseForDelete,
         SkipDeleted, DeleteSource, JournalDeleted, DeleteFails, AllDeleted,
         RenameSources, UnpinSource
<1>9. CASE Rollback
  <2>1. CASE StartRollback
    <3>1. "quiesce" \in Owed => journal.stopRequested
      BY DEF Owed, OwedStates, SourceWasStopped, QuiesceIsMarked
    <3>2. RollbackPlan(Owed) \in Seq(Payable')
      BY <1>0, <3>1, PlanFacts DEF Payable, Compensations
    <3> QED
      BY <2>1, <3>2 DEF StartRollback
  <2>2. CASE \/ RefuseIfIrreversible \/ Irrefusable \/ RefuseIfUnsafe \/ GuardPasses
            \/ GuardPins \/ NothingOwed \/ EndRollback
    BY <2>2, <1>0 DEF RefuseIfIrreversible, Irrefusable, RefuseIfUnsafe, GuardPasses,
         GuardPins, NothingOwed, EndRollback, Refuse, End
  <2> QED
    BY <1>9, <2>1, <2>2 DEF Rollback
<1>10. CASE Compensation
  <2>1. plan # << >> => Tail(plan) \in Seq(Payable) /\ Head(plan) \in Payable
    BY HeadTailProperties
  <2>2. CASE UndoElsewhere \/ CompensationFails \/ UndoCopy \/ UndoReleaseSourcePins
    BY <1>0, <2>1, <2>2 DEF UndoElsewhere, CompensationFails, UndoCopy,
         UndoReleaseSourcePins, Due, Ran, RanAndFailed
  <2>3. CASE UndoStartTarget \/ UndoCreateTarget
    BY <1>0, <2>1, <2>3 DEF UndoStartTarget, UndoCreateTarget, Due, Ran, RanAndFailed
  <2>4. CASE UndoQuiesce
    BY <1>0, <2>1, <2>4 DEF UndoQuiesce, Due, Payable
  <2>5. CASE AlreadyRestarted \/ RestartSource \/ JournalRestart \/ RestartFails
    BY <1>0, <2>5 DEF AlreadyRestarted, RestartSource, JournalRestart, RestartFails
  <2>6. CASE RestartsDone
    BY <1>0, <2>1, <2>6 DEF RestartsDone
  <2> QED
    BY <1>10, <2>2, <2>3, <2>4, <2>5, <2>6 DEF Compensation
<1>11. CASE Environment
  BY <1>11, <1>0 DEF Environment, StopLands, SourceUp, SourceDeployFails, TargetUp,
         TargetDown, PruneSource, PruneTarget, DeleteKeptSource, RestartKeptSource,
         StartSourceByHand
<1> QED
  BY <1>1, <1>2, <1>3, <1>4, <1>5, <1>6, <1>7, <1>8, <1>9, <1>10, <1>11 DEF Next,
         Process

\* What the release of the pins calls restarted, this rollback restarted.
LEMMA RestartOurs ==
  ASSUME Shape, Next
  PROVE  RestartIsOurs'
<1> USE DEF Shape, worldVars, sourceVars, boundVars, processVars, Goto, GotoAt, Raise,
           RestartIsOurs, End
<1>0. /\ journal'.restarted # journal.restarted => pc \in {"quiesce_mark", "rb_restarted"}
      /\ journal'.restartOk # journal.restartOk => pc \in {"rb_plan", "rb_restart"}
  BY JournalWriters
<1>1. CASE Command
  BY <1>1, <1>0 DEF Command, RunMigration, ResumeMigration, RollbackMigration,
         UnpinMigration, Begin
<1>2. CASE Crash
  BY <1>2, <1>0 DEF Crash
<1>3. CASE Saga
  <2>1. CASE EnterState
    <3>1. FirstLabel(State) \in {"create_undo", "quiesce_pin", "copy_volumes", "start",
                                "finalize_policy", "work"}
      BY <2>1, EntryFacts DEF EnterState, State, TypeOK, ProcessTypeOK
    <3>2. pc' = FirstLabel(State)
      BY <2>1 DEF EnterState
    <3> QED
      BY <3>1, <3>2
  <2>2. CASE SkipState \/ CompleteState \/ Finish \/ Block
    BY <2>2, <1>0 DEF SkipState, CompleteState, Finish, Block, Advance
  <2>3. CASE StepRaises \/ StepFailed \/ ReadOnlyStep
    BY <2>3, <1>0 DEF StepRaises, StepFailed, ReadOnlyStep
  <2> QED
    BY <1>3, <2>1, <2>2, <2>3 DEF Saga
<1>4. CASE CreateTargetStep
  BY <1>4, <1>0 DEF CreateTargetStep, NothingToUndo, UndoInterruptedAttempt,
         CreateResource, JournalTarget, CreateDone, CreateFails, UndoPartialCreate
<1>5. CASE QuiesceStep
  BY <1>5, <1>0 DEF QuiesceStep, PinSource, MarkStop, RequestStop, StopsRequested,
         Quiesced
<1>6. CASE CopyStep
  BY <1>6, <1>0 DEF CopyStep, Discover, CreateVolumes, PinTarget,
         CopyOne, AllCopied, StillStopped
<1>7. CASE StartTargetStep
  BY <1>7, <1>0 DEF StartTargetStep, StartTarget, AllStarted
<1>8. CASE FinalizeStep
  BY <1>8, <1>0 DEF FinalizeStep, JournalPolicy, UnpinTarget, ReleaseForDelete,
         SkipDeleted, DeleteSource, JournalDeleted, DeleteFails, AllDeleted,
         RenameSources, UnpinSource
<1>9. CASE Rollback
  <2>1. CASE StartRollback
    <3>1. ~journal'.restartOk
      BY <2>1 DEF StartRollback, TypeOK, Journals
    <3> QED
      BY <3>1
  <2>2. CASE \/ RefuseIfIrreversible \/ Irrefusable \/ RefuseIfUnsafe \/ GuardPasses
            \/ GuardPins \/ NothingOwed \/ EndRollback
    BY <2>2 DEF RefuseIfIrreversible, Irrefusable, RefuseIfUnsafe, GuardPasses,
         GuardPins, NothingOwed, EndRollback, Refuse
  <2> QED
    BY <1>9, <2>1, <2>2 DEF Rollback
<1>10. CASE Compensation
  <2>1. CASE UndoElsewhere \/ CompensationFails \/ UndoCopy \/ UndoReleaseSourcePins
    BY <1>0, <2>1 DEF UndoElsewhere, CompensationFails, UndoCopy,
         UndoReleaseSourcePins, Due, Ran, RanAndFailed
  <2>2. CASE UndoStartTarget \/ UndoCreateTarget
    BY <1>0, <2>2 DEF UndoStartTarget, UndoCreateTarget, Due, Ran, RanAndFailed
  <2>3. CASE UndoQuiesce
    BY <1>0, <2>3 DEF UndoQuiesce, Due
  <2>4. CASE AlreadyRestarted \/ RestartSource \/ RestartFails
    BY <1>0, <2>4 DEF AlreadyRestarted, RestartSource, RestartFails
  <2>5. CASE JournalRestart
    <3>1. /\ journal'.restarted = journal.restarted \cup {at}
          /\ journal'.restartOk = journal.restartOk
          /\ pc = "rb_restarted"
      BY <2>5 DEF JournalRestart, TypeOK, Journals
    <3>2. at \in Resources
      BY <3>1, AtResource
    <3> QED
      BY <3>1, <3>2
  <2>6. CASE RestartsDone
    <3>1. /\ journal'.restarted = journal.restarted
          /\ journal'.restartOk = (journal.restarted = Resources)
      BY <2>6 DEF RestartsDone, TypeOK, Journals
    <3> QED
      BY <3>1
  <2> QED
    BY <1>10, <2>1, <2>2, <2>3, <2>4, <2>5, <2>6 DEF Compensation
<1>11. CASE Environment
  BY <1>11, <1>0 DEF Environment, StopLands, SourceUp, SourceDeployFails, TargetUp,
         TargetDown, PruneSource, PruneTarget, DeleteKeptSource, RestartKeptSource,
         StartSourceByHand
<1> QED
  BY <1>1, <1>2, <1>3, <1>4, <1>5, <1>6, <1>7, <1>8, <1>9, <1>10, <1>11 DEF Next,
         Process

\* Only an operator who rolls back after unpin reopens what unpin closed.
LEMMA UnpinnedOver ==
  ASSUME IInv, Next, "rollback_after_unpin" \notin Hazards
  PROVE  UnpinnedIsOver'
<1> USE DEF IInv, Shape, worldVars, sourceVars, boundVars, processVars, Goto, GotoAt, Raise,
           UnpinnedIsOver
<1>0. journal.started => journal'.started
  BY JournalWriters DEF IInv
<1>1. CASE Command
  <2>1. CASE RunMigration
    BY <1>0, <2>1 DEF RunMigration, Begin, TypeOK, Journals
  <2>2. CASE ResumeMigration
    BY <1>0, <2>2 DEF ResumeMigration, Begin
  <2>3. CASE RollbackMigration
    BY <1>0, <2>3 DEF RollbackMigration, Begin
  <2>4. CASE UnpinMigration
    BY <1>0, <2>4 DEF UnpinMigration
  <2> QED
    BY <1>1, <2>1, <2>2, <2>3, <2>4 DEF Command
<1>2. CASE Crash
  BY <1>2, <1>0 DEF Crash
<1>3. CASE Saga
  BY <1>3, <1>0 DEF Saga, SkipState, EnterState, CompleteState, Finish, Block,
         StepRaises, StepFailed, ReadOnlyStep, Advance, MayRaise
<1>4. CASE CreateTargetStep
  BY <1>4, <1>0 DEF CreateTargetStep, NothingToUndo, UndoInterruptedAttempt,
         CreateResource, JournalTarget, CreateDone, CreateFails, UndoPartialCreate
<1>5. CASE QuiesceStep
  BY <1>5, <1>0 DEF QuiesceStep, PinSource, MarkStop, RequestStop, StopsRequested,
         Quiesced
<1>6. CASE CopyStep
  BY <1>6, <1>0 DEF CopyStep, Discover, CreateVolumes, PinTarget,
         CopyOne, AllCopied, StillStopped
<1>7. CASE StartTargetStep
  BY <1>7, <1>0 DEF StartTargetStep, StartTarget, AllStarted
<1>8. CASE FinalizeStep
  BY <1>8, <1>0 DEF FinalizeStep, JournalPolicy, UnpinTarget, ReleaseForDelete,
         SkipDeleted, DeleteSource, JournalDeleted, DeleteFails, AllDeleted,
         RenameSources, UnpinSource
<1>9. CASE Rollback
  BY <1>9, <1>0 DEF Rollback, RefuseIfIrreversible, Irrefusable, RefuseIfUnsafe,
         GuardPasses, GuardPins, NothingOwed, StartRollback, EndRollback, Refuse
<1>10. CASE Compensation
  BY <1>10, <1>0 DEF Compensation, UndoElsewhere, CompensationFails, UndoStartTarget,
         UndoCopy, UndoCreateTarget, UndoQuiesce, AlreadyRestarted, RestartSource,
         JournalRestart, RestartFails, RestartsDone, UndoReleaseSourcePins, Due, Ran,
         RanAndFailed
<1>11. CASE Environment
  BY <1>11, <1>0 DEF Environment, StopLands, SourceUp, SourceDeployFails, TargetUp,
         TargetDown, PruneSource, PruneTarget, DeleteKeptSource, RestartKeptSource,
         StartSourceByHand
<1> QED
  BY <1>1, <1>2, <1>3, <1>4, <1>5, <1>6, <1>7, <1>8, <1>9, <1>10, <1>11 DEF Next,
         Process

(***************************************************************************)
(* The heart of the proof.  Outside FINALIZE pins are added freely and     *)
(* given up at two places only: by unpin, where Settled says that every    *)
(* pinned source runs and no stop is queued, and at the end of a rollback, *)
(* where either that holds or no stop was ever asked for.                  *)
(***************************************************************************)
LEMMA GuardedStep ==
  ASSUME IInv, Next, "rollback_after_unpin" \notin Hazards, Guarded,
         pc \notin FinalizeLabels \ {"finalize_policy"},
         pc = "idle" => outcome # "succeeded"
  PROVE  Guarded'
<1> USE DEF worldVars, sourceVars, processVars, Goto, GotoAt, Raise, End, Guarded
<1>0. /\ Guarded
      /\ pc \notin FinalizeLabels \ {"finalize_policy"}
      /\ pc = "idle" => outcome # "succeeded"
      /\ journal'.stopRequested # journal.stopRequested => pc = "quiesce_mark"
      /\ journal'.restarted # journal.restarted => pc \in {"quiesce_mark", "rb_restarted"}
      /\ unpinned => pc = "idle"
      /\ WorldTypeOK
  BY JournalWriters DEF IInv, Shape, TypeOK, UnpinnedIsOver
<1>1. CASE Command
  <2>1. CASE RunMigration \/ ResumeMigration \/ RollbackMigration
    BY <1>0, <2>1 DEF RunMigration, ResumeMigration, RollbackMigration, Begin
  <2>2. CASE UnpinMigration
    BY <1>0, <2>2 DEF UnpinMigration, Settled, Mounted, WorldTypeOK
  <2> QED
    BY <1>1, <2>1, <2>2 DEF Command
<1>2. CASE Crash
  BY <1>2, <1>0 DEF Crash
<1>3. CASE Saga
  <2>1. CASE EnterState
    <3>1. FirstLabel(State) \in {"create_undo", "quiesce_pin", "copy_volumes", "start",
                                "finalize_policy", "work"}
      BY <2>1, EntryFacts DEF EnterState, State, IInv, Shape, TypeOK, ProcessTypeOK
    <3>2. pc' = FirstLabel(State) /\ UNCHANGED worldVars /\ pc = "enter"
      BY <2>1 DEF EnterState
    <3> QED
      BY <1>0, <3>1, <3>2
  <2>2. CASE SkipState \/ CompleteState \/ Finish \/ Block
    BY <1>0, <2>2 DEF SkipState, CompleteState, Finish, Block, Advance
  <2>3. CASE StepRaises \/ StepFailed \/ ReadOnlyStep
    BY <1>0, <2>3 DEF StepRaises, StepFailed, ReadOnlyStep
  <2> QED
    BY <1>3, <2>1, <2>2, <2>3 DEF Saga
<1>4. CASE CreateTargetStep
  BY <1>4, <1>0 DEF CreateTargetStep, NothingToUndo, UndoInterruptedAttempt,
         CreateResource, JournalTarget, CreateDone, CreateFails, UndoPartialCreate
<1>5. CASE QuiesceStep
  <2>1. CASE PinSource
    BY <1>0, <2>1 DEF PinSource, Pinned, WorldTypeOK
  <2>2. CASE MarkStop
    BY <1>0, <2>2 DEF MarkStop
  <2>3. CASE RequestStop
    BY <1>0, <2>3 DEF RequestStop
  <2>4. CASE StopsRequested \/ Quiesced
    BY <1>0, <2>4 DEF StopsRequested, Quiesced
  <2> QED
    BY <1>5, <2>1, <2>2, <2>3, <2>4 DEF QuiesceStep
<1>6. CASE CopyStep
  <2>1. CASE Discover
    BY <1>0, <2>1 DEF Discover, Pinned
  <2>2. CASE CreateVolumes \/ PinTarget \/ CopyOne
    BY <1>0, <2>2 DEF CreateVolumes, PinTarget, CopyOne
  <2>3. CASE AllCopied \/ StillStopped
    BY <1>0, <2>3 DEF AllCopied, StillStopped
  <2> QED
    BY <1>6, <2>1, <2>2, <2>3 DEF CopyStep
<1>7. CASE StartTargetStep
  BY <1>7, <1>0 DEF StartTargetStep, StartTarget, AllStarted
<1>8. CASE FinalizeStep
  <2>1. CASE JournalPolicy
    BY <1>0, <2>1 DEF JournalPolicy
  <2>2. CASE UnpinTarget \/ ReleaseForDelete \/ RenameSources \/ UnpinSource
    BY <1>0, <2>2 DEF UnpinTarget, ReleaseForDelete, RenameSources, UnpinSource,
         FinalizeLabels
  <2>3. CASE SkipDeleted \/ DeleteSource \/ DeleteFails \/ AllDeleted \/ JournalDeleted
    BY <1>0, <2>3 DEF SkipDeleted, DeleteSource, DeleteFails, AllDeleted, JournalDeleted,
         FinalizeLabels
  <2> QED
    BY <1>8, <2>1, <2>2, <2>3 DEF FinalizeStep
<1>9. CASE Rollback
  <2>1. CASE GuardPins
    BY <1>0, <2>1 DEF GuardPins, Pinned
  <2>2. CASE \/ RefuseIfIrreversible \/ Irrefusable \/ RefuseIfUnsafe \/ GuardPasses
    BY <1>0, <2>2 DEF RefuseIfIrreversible, Irrefusable, RefuseIfUnsafe, GuardPasses,
         Refuse
  <2>3. CASE NothingOwed \/ StartRollback \/ EndRollback
    BY <1>0, <2>3 DEF NothingOwed, StartRollback, EndRollback
  <2> QED
    BY <1>9, <2>1, <2>2, <2>3 DEF Rollback
<1>10. CASE Compensation
  <2>1. CASE UndoElsewhere \/ CompensationFails \/ UndoStartTarget \/ UndoCopy
    BY <1>0, <2>1 DEF UndoElsewhere, CompensationFails, UndoStartTarget, UndoCopy, Due,
         Ran, RanAndFailed
  <2>2. CASE UndoCreateTarget \/ UndoQuiesce \/ AlreadyRestarted \/ RestartsDone
    BY <1>0, <2>2 DEF UndoCreateTarget, UndoQuiesce, AlreadyRestarted, RestartsDone, Due,
         Ran, RanAndFailed
  <2>3. CASE JournalRestart
    <3>1. journal'.restarted = journal.restarted \cup {at}
      BY <2>3 DEF JournalRestart, IInv, Shape, TypeOK, Journals
    <3> QED
      BY <1>0, <2>3, <3>1 DEF JournalRestart
  <2>4. CASE RestartSource \/ RestartFails
    <3>1. /\ pc = "rb_restart" /\ at \notin journal.restarted
          /\ pc' \in {"rb_restart", "rb_restarted"}
          /\ src' = src \/ src' = [src EXCEPT ![at] = "starting"]
          /\ UNCHANGED << journal, stopQueued, srcVol, srcPins, unpinned >>
      BY <2>4 DEF RestartSource, RestartFails
    <3>2. journal.stopRequested
      BY <3>1 DEF IInv, Shape, RestartsAreOwed
    <3> QED
      BY <1>0, <3>1, <3>2 DEF WorldTypeOK
  <2>5. CASE UndoReleaseSourcePins
    <3>1. /\ pc = "rb_step" /\ pc' = pc
          /\ UNCHANGED << journal, src, stopQueued, srcVol, unpinned >>
          /\ srcPins' = srcPins \/ MayRelease
      BY <2>5 DEF UndoReleaseSourcePins, Due, Ran, RanAndFailed
    <3>2. CASE srcPins' = srcPins
      BY <1>0, <3>1, <3>2
    <3>3. CASE MayRelease /\ journal.stopRequested
      <4>1. journal.restartOk /\ Settled(srcPins)
        BY <3>3 DEF MayRelease, StoppedByUs, SourceWasStopped
      <4>2. journal.restarted = Resources
        BY <3>1, <4>1 DEF IInv, Shape, RestartIsOurs
      <4> QED
        BY <1>0, <3>1, <4>1, <4>2 DEF Settled, Mounted
    <3>4. CASE MayRelease /\ ~journal.stopRequested
      <4>1. Mounted(srcPins, src)
        BY <3>4 DEF MayRelease, Settled
      <4>2. \A r \in Resources : ~stopQueued[r]
        BY <3>4 DEF IInv, Shape, StopsAreMarked
      <4> QED
        BY <1>0, <3>1, <3>4, <4>1, <4>2 DEF Mounted
    <3> QED
      BY <3>1, <3>2, <3>3, <3>4
  <2> QED
    BY <1>10, <2>1, <2>2, <2>3, <2>4, <2>5 DEF Compensation
<1>11. CASE Environment
  <2>1. PICK r \in Resources :
           \/ StopLands(r) \/ SourceUp(r) \/ SourceDeployFails(r) \/ TargetUp(r)
           \/ TargetDown(r) \/ PruneSource(r) \/ PruneTarget(r)
           \/ DeleteKeptSource(r) \/ RestartKeptSource(r) \/ StartSourceByHand(r)
    BY <1>11 DEF Environment
  <2>2. CASE StopLands(r)
    BY <1>0, <2>2 DEF StopLands, WorldTypeOK
  <2>3. CASE SourceUp(r)
    BY <1>0, <2>3 DEF SourceUp, WorldTypeOK
  <2>4. CASE SourceDeployFails(r)
    BY <1>0, <2>4 DEF SourceDeployFails, WorldTypeOK
  <2>5. CASE TargetUp(r) \/ TargetDown(r) \/ PruneTarget(r)
    BY <1>0, <2>5 DEF TargetUp, TargetDown, PruneTarget
  <2>6. CASE PruneSource(r)
    BY <1>0, <2>6 DEF PruneSource, WorldTypeOK
  <2>7. CASE DeleteKeptSource(r) \/ RestartKeptSource(r)
    BY <1>0, <2>7 DEF DeleteKeptSource, RestartKeptSource
  <2>8. CASE StartSourceByHand(r)
    BY <1>0, <2>8 DEF StartSourceByHand, WorldTypeOK
  <2> QED
    BY <2>1, <2>2, <2>3, <2>4, <2>5, <2>6, <2>7, <2>8
<1> QED
  BY <1>1, <1>2, <1>3, <1>4, <1>5, <1>6, <1>7, <1>8, <1>9, <1>10, <1>11 DEF Next,
         Process

\* Before FINALIZE's policy is on disk nothing else gives the source up.
LEMMA SourceGuarded ==
  ASSUME IInv, Next, "rollback_after_unpin" \notin Hazards,
         journal'.policy = NoState
  PROVE  Guarded'
<1>1. journal.policy = NoState
  BY JournalWriters DEF IInv, Shape, TypeOK, WorldTypeOK, Policies, NoState
<1>2. pc \notin FinalizeLabels \ {"finalize_policy"} /\ outcome # "succeeded" /\ Guarded
  BY <1>1 DEF IInv, Shape, SourceIsGuarded, PolicyFirst
<1> QED
  BY <1>2, GuardedStep

-----------------------------------------------------------------------------
(***************************************************************************)
(* The theorems.                                                           *)
(***************************************************************************)
LEMMA InitIsFine == Init => IInv
<1> SUFFICES ASSUME Init
             PROVE  IInv
  OBVIOUS
<1> USE NAssumption, BoundsAssumption DEF Init, EmptyJournal
<1>1. ProcessTypeOK
  <2>1. << >> \in Seq(Compensations)
    BY EmptySeq
  <2>2. idx \in 1 .. 13 /\ at \in 1 .. N + 1
    OBVIOUS
  <2>3. pc \in Labels /\ outcome \in Outcomes /\ plan \in Seq(Compensations)
    BY <2>1 DEF Labels, Outcomes
  <2>4. /\ failed \in BOOLEAN /\ held \subseteq Resources
        /\ error \in ErrorKinds
    BY DEF ErrorKinds
  <2> HIDE DEF Init
  <2> QED
    BY <2>2, <2>3, <2>4 DEF ProcessTypeOK
<1>2. journal \in Journals
  BY DEF Journals
<1>3. WorldTypeOK
  BY DEF WorldTypeOK, SourceStates, SourceVolumes, TargetStates, TargetVolumes
<1>4. BoundsTypeOK
  BY DEF BoundsTypeOK
<1>5. LabelFitsState /\ LoopFits
  BY DEF LabelFitsState, LoopFits, CreateLabels, QuiesceLabels, CopyLabels, FinalizeLabels
<1>6. PolicyFirst /\ StopsAreMarked /\ QuiesceIsMarked
  BY DEF PolicyFirst, StopsAreMarked, QuiesceIsMarked, FinalizeLabels
<1>7. RestartsAreOwed /\ RestartIsOurs
  BY EmptySeq DEF RestartsAreOwed, RestartIsOurs
<1>8. UnpinnedIsOver /\ SourceIsGuarded
  BY DEF UnpinnedIsOver, SourceIsGuarded, Guarded
<1> QED
  BY <1>1, <1>2, <1>3, <1>4, <1>5, <1>6, <1>7, <1>8 DEF IInv, Shape, TypeOK

\* Every step keeps the part of the invariant about the run.
LEMMA ShapeIsInductive == Shape /\ [Next]_vars => Shape'
<1> SUFFICES ASSUME Shape, [Next]_vars
             PROVE  Shape'
  OBVIOUS
<1>1. CASE Next
  BY <1>1, ProcessTypes, JournalTypes, WorldTypes, BoundsTypes, Places, PolicyIsFirst,
     StopsMarked, RestartsOwed, RestartOurs DEF Shape, TypeOK
<1>2. CASE UNCHANGED vars
  <2>1. TypeOK'
    BY <1>2 DEF vars, processVars, worldVars, sourceVars, targetVars, boundVars, Shape,
       TypeOK, ProcessTypeOK, WorldTypeOK, BoundsTypeOK
  <2>2. LabelFitsState' /\ LoopFits' /\ PolicyFirst'
    BY <1>2 DEF vars, processVars, Shape, LabelFitsState, LoopFits, PolicyFirst
  <2>3. StopsAreMarked' /\ QuiesceIsMarked'
    BY <1>2 DEF vars, processVars, worldVars, sourceVars, Shape, StopsAreMarked,
       QuiesceIsMarked
  <2>4. RestartsAreOwed' /\ RestartIsOurs'
    BY <1>2 DEF vars, processVars, Shape, RestartsAreOwed, RestartIsOurs, Payable
  <2> QED
    BY <2>1, <2>2, <2>3, <2>4 DEF Shape
<1> QED
  BY <1>1, <1>2

\* Every step keeps the invariant, unless a rollback may follow the unpin.
LEMMA IInvIsInductive ==
  ASSUME "rollback_after_unpin" \notin Hazards
  PROVE  IInv /\ [Next]_vars => IInv'
<1> SUFFICES ASSUME IInv, [Next]_vars
             PROVE  IInv'
  OBVIOUS
<1>1. Shape'
  BY ShapeIsInductive DEF IInv
<1>2. CASE Next
  BY <1>1, <1>2, UnpinnedOver, SourceGuarded DEF IInv, SourceIsGuarded
<1>3. CASE UNCHANGED vars
  BY <1>1, <1>3 DEF vars, processVars, worldVars, sourceVars, IInv, UnpinnedIsOver,
     SourceIsGuarded, Guarded
<1> QED
  BY <1>2, <1>3

(***************************************************************************)
(* Type correctness, for any number of resources, any bounds and whatever  *)
(* the operator and Docker do (the variables of every step, engine/).      *)
(***************************************************************************)
THEOREM TypeCorrect == Spec => []TypeOK
<1>1. Shape => TypeOK
  BY DEF Shape
<1>2. Init => Shape
  BY InitIsFine DEF IInv
<1> QED
  BY <1>1, <1>2, ShapeIsInductive, PTL DEF Spec

(***************************************************************************)
(* For any number of resources, crashes and commands, and under every      *)
(* hazard but a rollback after unpin: whatever is down or about to go down *)
(* before FINALIZE is pinned (steps.py _pin_source, compensations.py       *)
(* undo_quiesce and undo_release_source_pins).                             *)
(***************************************************************************)
THEOREM PinsOutlastTheStop ==
  ASSUME "rollback_after_unpin" \notin Hazards
  PROVE  Spec => []PinnedWhileDown
<1>1. IInv => PinnedWhileDown
  BY DEF IInv, SourceIsGuarded, Guarded, PinnedWhileDown
<1> QED
  BY <1>1, InitIsFine, IInvIsInductive, PTL DEF Spec

(***************************************************************************)
(* ... so Docker's cleanup never takes a volume of the source before       *)
(* FINALIZE has begun: the source stays the rollback.                      *)
(***************************************************************************)
THEOREM SourceOutlastsTheRun ==
  ASSUME "rollback_after_unpin" \notin Hazards
  PROVE  Spec => []SourceSurvives
<1>1. IInv => SourceSurvives
  BY DEF IInv, SourceIsGuarded, Guarded, SourceSurvives
<1> QED
  BY <1>1, InitIsFine, IInvIsInductive, PTL DEF Spec

-----------------------------------------------------------------------------
(***************************************************************************)
(* The way of the data, from the source to the copy.                       *)
(***************************************************************************)

SagaLabels ==
  {"enter", "work", "complete", "failed", "start"}
    \cup CreateLabels \cup QuiesceLabels \cup CopyLabels \cup FinalizeLabels
UndoLabels == {"rb_step", "rb_restart", "rb_restarted"}

\* No rollback of this journal has begun to undo anything.
Forward == journal.undo = "none"

Done(s) == s \in journal.completed

\* The saga goes forward only where nothing was undone, and a run that undid
\* something has not succeeded.
History ==
  /\ pc \in SagaLabels => Forward
  /\ pc \in UndoLabels => ~Forward
  /\ ~Forward => journal.started /\ (pc = "idle" => outcome # "succeeded")

\* States are completed in order.
Ordered ==
  /\ \A i, j \in 1 .. 13 : i < j /\ Done(Order[j]) => Done(Order[i])
  /\ pc \in SagaLabels => \A i \in 1 .. 13 : i < idx => Done(Order[i])
  /\ pc \in SagaLabels \ {"enter", "failed"} => ~Done(Order[idx])
  /\ pc = "idle" => idx = 1

\* DISCOVER paired every resource, as all of them still had their volume.
PairsKnown == Done("discover") \/ (pc = "complete" /\ idx = 6) => journal.pairs = Resources

\* FINALIZE comes after HEALTHCHECK, and its delete is not rolled back.
FinalizeIsLate ==
  /\ journal.policy # NoState => Done("healthcheck")
  /\ pc \in {"rb_guard", "rb_pin"} => journal.policy # NoState
  /\ journal.policy = "delete" => Forward /\ pc \notin {"rb_guard", "rb_pin", "rb_plan"}

\* A rollback that found nothing to undo found no target.
NothingDone ==
  /\ Forward /\ outcome \in {"rolled_back", "rollback_failed"} =>
       journal.finished /\ journal.policy = NoState
  /\ Forward /\ journal.finished /\ journal.policy = NoState =>
       ~Done("create_target") /\ pc \notin SagaLabels

\* The source before CREATE_TARGET is complete, and as long as nothing is undone.
SourceBefore ==
  Forward =>
    /\ ~Done("create_target") => \A r \in Resources : src[r] = "running" /\ ~stopQueued[r]
    /\ \A r \in Resources : src[r] # "starting" /\ srcVol[r] # "empty"

\* The target: down until VERIFY is complete, and pinned from COPY on; then it
\* holds the copy under its pin; and once HEALTHCHECK is complete it runs on it.
TargetsDown ==
  Forward /\ ~Done("verify") => \A r \in Resources : tgt[r] \in {"absent", "stopped"}

CopyPinned ==
  /\ Forward /\ ~Done("verify")
  /\ pc \in {"copy", "copy_check"} \/ (pc = "complete" /\ idx = 7) \/ Done("copy")
  => \A r \in Resources : tgtVol[r] # "none" => r \in tgtPins

Verified ==
  /\ Forward /\ ~Done("healthcheck")
  /\ Done("verify") \/ (pc = "complete" /\ idx = 8)
  => \A r \in Resources : /\ tgtVol[r] \in {"copy", "live"} /\ r \in tgtPins
                          /\ tgt[r] = "running" => tgtVol[r] = "live"

Served ==
  /\ Forward
  /\ Done("healthcheck") \/ (pc = "complete" /\ idx = 11)
  => \A r \in Resources : tgt[r] = "running" /\ tgtVol[r] = "live"

\* A rollback of a FINALIZE that kept the source runs over a source that is there.
SourceKept ==
  journal.policy \in {"keep", "rename"} =>
    /\ pc \in {"rb_pin", "rb_plan"} =>
         \A r \in Resources : src[r] # "deleted" /\ srcVol[r] # "gone"
    /\ pc = "rb_plan" => srcPins = Resources
    /\ ~Forward => Guarded

\* What is journalled as deleted, or about to be, is.
DeletedOnes ==
  /\ \A r \in journal.deleted : src[r] = "deleted" /\ Done("verify")
  /\ pc = "finalize_deleted" => src[at] = "deleted"

CopyInv ==
  /\ IInv
  /\ History /\ Ordered /\ PairsKnown /\ FinalizeIsLate /\ NothingDone /\ SourceBefore
  /\ TargetsDown /\ CopyPinned /\ Verified /\ Served /\ SourceKept /\ DeletedOnes

-----------------------------------------------------------------------------
(***************************************************************************)
(* What the order of states means for the few that matter here.            *)
(***************************************************************************)
Inside == SagaLabels \ {"enter", "failed"}

Stages ==
  /\ Done("discover") => Done("create_target")
  /\ Done("copy") => Done("discover") /\ Done("create_target")
  /\ Done("verify") => Done("copy")
  /\ Done("healthcheck") => Done("verify")
  /\ pc \in SagaLabels =>
       /\ idx > 4 => Done("create_target")
       /\ idx > 6 => Done("discover")
       /\ idx > 7 => Done("copy")
       /\ idx > 8 => Done("verify")
       /\ idx > 11 => Done("healthcheck")
  /\ pc \in Inside =>
       /\ idx <= 4 => ~Done("create_target")
       /\ idx <= 6 => ~Done("discover")
       /\ idx <= 7 => ~Done("copy")
       /\ idx <= 8 => ~Done("verify")
       /\ idx <= 11 => ~Done("healthcheck")

\* The states that matter, by their number.
LEMMA Numbers ==
  /\ Order[4] = "create_target" /\ Order[6] = "discover" /\ Order[7] = "copy"
  /\ Order[8] = "verify" /\ Order[11] = "healthcheck"
BY DEF Order

\* No state comes twice.
LEMMA OrderOnce ==
  ASSUME NEW i \in 1 .. 13, NEW j \in 1 .. 13, Order[i] = Order[j]
  PROVE  i = j
<1>1. \/ i = 1 \/ i = 2 \/ i = 3 \/ i = 4 \/ i = 5 \/ i = 6 \/ i = 7
      \/ i = 8 \/ i = 9 \/ i = 10 \/ i = 11 \/ i = 12 \/ i = 13
  OBVIOUS
<1>2. \/ j = 1 \/ j = 2 \/ j = 3 \/ j = 4 \/ j = 5 \/ j = 6 \/ j = 7
      \/ j = 8 \/ j = 9 \/ j = 10 \/ j = 11 \/ j = 12 \/ j = 13
  OBVIOUS
<1> QED
  BY <1>1, <1>2 DEF Order

\* What is done, by the number of the state the saga is at.
LEMMA OrderedStages ==
  ASSUME Ordered, idx \in 1 .. 13
  PROVE  Stages
<1>1. Done("discover") => Done("create_target")
  BY Numbers DEF Ordered
<1>2. Done("copy") => Done("discover") /\ Done("create_target")
  BY Numbers DEF Ordered
<1>3. (Done("verify") => Done("copy")) /\ (Done("healthcheck") => Done("verify"))
  BY Numbers DEF Ordered
<1>4. ASSUME pc \in SagaLabels
      PROVE  /\ idx > 4 => Done("create_target")
             /\ idx > 6 => Done("discover")
             /\ idx > 7 => Done("copy")
             /\ idx > 8 => Done("verify")
             /\ idx > 11 => Done("healthcheck")
  BY <1>4, Numbers DEF Ordered
<1>5. ASSUME pc \in Inside
      PROVE  /\ idx <= 4 => ~Done("create_target")
             /\ idx <= 6 => ~Done("discover")
             /\ idx <= 7 => ~Done("copy")
             /\ idx <= 8 => ~Done("verify")
             /\ idx <= 11 => ~Done("healthcheck")
  <2>1. ~Done(Order[idx]) /\ \A i, j \in 1 .. 13 : i < j /\ Done(Order[j]) => Done(Order[i])
    BY <1>5 DEF Ordered, Inside
  <2>2. \A j \in 1 .. 13 : idx <= j => ~Done(Order[j])
    BY <2>1
  <2> QED
    BY <2>2, Numbers
<1> QED
  BY <1>1, <1>2, <1>3, <1>4, <1>5 DEF Stages

-----------------------------------------------------------------------------
(***************************************************************************)
(* Who writes which record.                                                *)
(***************************************************************************)
LEMMA Records ==
  ASSUME Shape, Next
  PROVE  /\ journal'.undo # journal.undo =>
              pc \in {"rb_plan", "rb_step"} /\ journal'.undo # "none"
         /\ journal'.completed # journal.completed => CompleteState
         /\ journal'.pairs # journal.pairs => Discover
         /\ journal'.deleted # journal.deleted => JournalDeleted
         /\ journal'.finished # journal.finished =>
              \/ Finish \/ NothingOwed \/ pc \in {"rb_refuse", "rb_guard", "rb_pin", "rb_step"}
              \/ StartRollback
         /\ journal.started => journal'.started
         /\ journal' \in Journals
<1> USE DEF Shape, TypeOK, Journals, worldVars, processVars
<1>0. journal' \in Journals
  BY JournalTypes
<1>1. CASE Command
  BY <1>1, <1>0 DEF Command, RunMigration, ResumeMigration, RollbackMigration,
     UnpinMigration, Begin
<1>2. CASE Crash
  BY <1>2, <1>0 DEF Crash
<1>3. CASE Saga
  BY <1>3, <1>0 DEF Saga, SkipState, EnterState, CompleteState, Finish, Block, StepRaises,
     StepFailed, ReadOnlyStep, Advance
<1>4. CASE CreateTargetStep
  BY <1>4, <1>0 DEF CreateTargetStep, NothingToUndo, UndoInterruptedAttempt, CreateResource,
     JournalTarget, CreateDone, CreateFails, UndoPartialCreate
<1>5. CASE QuiesceStep
  BY <1>5, <1>0 DEF QuiesceStep, PinSource, MarkStop, RequestStop, StopsRequested, Quiesced
<1>6. CASE CopyStep
  BY <1>6, <1>0 DEF CopyStep, Discover, CreateVolumes, PinTarget, CopyOne, AllCopied,
     StillStopped
<1>7. CASE StartTargetStep
  BY <1>7, <1>0 DEF StartTargetStep, StartTarget, AllStarted
<1>8. CASE FinalizeStep
  BY <1>8, <1>0 DEF FinalizeStep, JournalPolicy, UnpinTarget, ReleaseForDelete, SkipDeleted,
     DeleteSource, JournalDeleted, DeleteFails, AllDeleted, RenameSources, UnpinSource
<1>9. CASE Rollback
  <2>1. CASE RefuseIfIrreversible \/ RefuseIfUnsafe
    BY <2>1, <1>0 DEF RefuseIfIrreversible, RefuseIfUnsafe, Refuse
  <2>2. CASE Irrefusable \/ GuardPasses \/ GuardPins
    BY <2>2, <1>0 DEF Irrefusable, GuardPasses, GuardPins
  <2>3. CASE NothingOwed \/ StartRollback
    BY <2>3, <1>0 DEF NothingOwed, StartRollback
  <2>4. CASE EndRollback
    BY <2>4, <1>0 DEF EndRollback
  <2> QED
    BY <1>9, <2>1, <2>2, <2>3, <2>4 DEF Rollback
<1>10. CASE Compensation
  BY <1>10, <1>0 DEF Compensation, UndoElsewhere, CompensationFails, UndoStartTarget,
     UndoCopy, UndoCreateTarget, UndoQuiesce, AlreadyRestarted, RestartSource,
     JournalRestart, RestartFails, RestartsDone, UndoReleaseSourcePins, Due, Ran,
     RanAndFailed
<1>11. CASE Environment
  BY <1>11, <1>0 DEF Environment, StopLands, SourceUp, SourceDeployFails, TargetUp,
     TargetDown, PruneSource, PruneTarget, DeleteKeptSource, RestartKeptSource,
     StartSourceByHand
<1> QED
  BY <1>1, <1>2, <1>3, <1>4, <1>5, <1>6, <1>7, <1>8, <1>9, <1>10, <1>11 DEF Next, Process

\* A state becomes done when the saga is behind it, and stays done.
LEMMA DoneStep ==
  ASSUME Shape, Next
  PROVE  /\ Done("create_target")' <=> Done("create_target") \/ (CompleteState /\ idx = 4)
         /\ Done("discover")' <=> Done("discover") \/ (CompleteState /\ idx = 6)
         /\ Done("copy")' <=> Done("copy") \/ (CompleteState /\ idx = 7)
         /\ Done("verify")' <=> Done("verify") \/ (CompleteState /\ idx = 8)
         /\ Done("healthcheck")' <=> Done("healthcheck") \/ (CompleteState /\ idx = 11)
<1>1. CASE CompleteState
  <2>1. journal'.completed = journal.completed \cup {Order[idx]} /\ idx \in 1 .. 13
    BY <1>1 DEF CompleteState, State, Shape, TypeOK, ProcessTypeOK, Journals
  <2>2. \A i \in 1 .. 13 : Done(Order[i])' <=> Done(Order[i]) \/ idx = i
    <3>1. ASSUME NEW i \in 1 .. 13, Order[i] = Order[idx]
          PROVE  idx = i
      BY <2>1, <3>1, OrderOnce
    <3> QED
      BY <2>1, <3>1 DEF Done
  <2> QED
    BY <1>1, <2>2, Numbers
<1>2. CASE ~CompleteState
  BY <1>2, Records DEF Done
<1> QED
  BY <1>1, <1>2

\* The saga goes in order.
LEMMA OrderedStep ==
  ASSUME Shape, Ordered, Next
  PROVE  Ordered'
<1> USE DEF Goto, GotoAt, Raise, End, SagaLabels, CreateLabels, QuiesceLabels, CopyLabels,
           FinalizeLabels
<1>0. /\ \A i, j \in 1 .. 13 : i < j /\ Done(Order[j]) => Done(Order[i])
      /\ pc \in SagaLabels => \A i \in 1 .. 13 : i < idx => Done(Order[i])
      /\ pc \in SagaLabels \ {"enter", "failed"} => ~Done(Order[idx])
      /\ idx \in 1 .. 13 /\ (pc = "idle" => idx = 1)
  BY DEF Ordered, Shape, TypeOK, ProcessTypeOK
<1> DEFINE Same == journal'.completed = journal.completed
           Stays == pc' \in SagaLabels => pc \in SagaLabels /\ idx' = idx
           Idles == pc' = "idle" => idx' = 1 \/ (pc = "idle" /\ idx' = idx)
           StaysIn == pc' \in SagaLabels \ {"enter", "failed"} =>
                        pc \in SagaLabels \ {"enter", "failed"}
<1>a. ASSUME Same, Stays, StaysIn, Idles
      PROVE  Ordered'
  BY <1>0, <1>a DEF Ordered, Done
<1>b. journal'.completed # journal.completed => CompleteState
  BY Records
<1>1. CASE Command
  <2>1. Same
    BY <1>1, <1>b DEF Command, RunMigration, ResumeMigration, RollbackMigration,
       UnpinMigration, Begin, CompleteState
  <2>2. CASE RunMigration \/ ResumeMigration
    <3>1. pc' = "enter" /\ pc = "idle" /\ idx' = idx
      BY <2>2 DEF RunMigration, ResumeMigration, Begin
    <3>2. idx = 1
      BY <1>0, <3>1
    <3> QED
      BY <1>0, <2>1, <3>1, <3>2 DEF Ordered, Done
  <2>3. CASE RollbackMigration \/ UnpinMigration
    BY <2>1, <2>3, <1>a DEF RollbackMigration, UnpinMigration, Begin, processVars
  <2> QED
    BY <1>1, <2>2, <2>3 DEF Command
<1>2. CASE Crash
  BY <1>2, <1>a, <1>b DEF Crash, CompleteState, processVars
<1>3. CASE Saga
  <2>1. CASE SkipState
    <3>1. Same /\ pc = "enter" /\ pc' = "enter" /\ idx' = idx + 1 /\ Done(Order[idx])
      BY <2>1 DEF SkipState, Advance, State, Done
    <3>2. \A i \in 1 .. 13 : Done(Order[i])' <=> Done(Order[i])
      BY <3>1 DEF Done
    <3>3. \A i \in 1 .. 13 : i < idx' => Done(Order[i])
      <4>1. ASSUME NEW i \in 1 .. 13, i < idx + 1
            PROVE  i < idx \/ i = idx
        BY <1>0, <4>1
      <4> QED
        BY <1>0, <3>1, <4>1
    <3> QED
      BY <1>0, <3>1, <3>2, <3>3 DEF Ordered
  <2>2. CASE EnterState
    <3>1. Same /\ pc = "enter" /\ idx' = idx /\ ~Done(Order[idx])
      BY <2>2, <1>b DEF EnterState, State, Done, CompleteState
    <3>2. \A i \in 1 .. 13 : Done(Order[i])' <=> Done(Order[i])
      BY <3>1 DEF Done
    <3>3. pc' # "idle"
      BY <1>0, <2>2, EntryFacts DEF EnterState, State
    <3> QED
      BY <1>0, <3>1, <3>2, <3>3 DEF Ordered
  <2>3. CASE CompleteState
    <3>1. /\ journal'.completed = journal.completed \cup {Order[idx]}
          /\ pc = "complete" /\ pc' = "enter" /\ idx' = idx + 1
      BY <2>3 DEF CompleteState, Advance, State, Shape, TypeOK, Journals
    <3>2. \A i \in 1 .. 13 : i <= idx => Order[i] \in journal'.completed
      BY <1>0, <3>1 DEF Done
    <3>3. \A j \in 1 .. 13 : Order[j] \in journal'.completed => Done(Order[j]) \/ j = idx
      BY <1>0, <3>1, OrderOnce DEF Done
    <3>4. \A i, j \in 1 .. 13 :
            i < j /\ Order[j] \in journal'.completed => Order[i] \in journal'.completed
      BY <1>0, <3>1, <3>2, <3>3 DEF Done
    <3>5. \A i \in 1 .. 13 : i < idx' => Order[i] \in journal'.completed
      BY <1>0, <3>1, <3>2
    <3> QED
      BY <3>1, <3>4, <3>5 DEF Ordered, Done
  <2>4. CASE Finish \/ Block
    BY <2>4, <1>a, <1>b DEF Finish, Block, CompleteState
  <2>5. CASE StepRaises \/ StepFailed \/ ReadOnlyStep
    <3>1. Same
      BY <2>5, <1>b DEF StepRaises, StepFailed, ReadOnlyStep, CompleteState, MayRaise
    <3> QED
      BY <2>5, <1>a, <3>1 DEF StepRaises, StepFailed, ReadOnlyStep, MayRaise
  <2> QED
    BY <1>3, <2>1, <2>2, <2>3, <2>4, <2>5 DEF Saga
<1>4. CASE CreateTargetStep
  BY <1>4, <1>a, <1>b DEF CreateTargetStep, NothingToUndo, UndoInterruptedAttempt,
     CreateResource, JournalTarget, CreateDone, CreateFails, UndoPartialCreate,
     CompleteState, processVars
<1>5. CASE QuiesceStep
  BY <1>5, <1>a, <1>b DEF QuiesceStep, PinSource, MarkStop, RequestStop, StopsRequested,
     Quiesced, CompleteState, processVars
<1>6. CASE CopyStep
  BY <1>6, <1>a, <1>b DEF CopyStep, Discover, CreateVolumes, PinTarget, CopyOne, AllCopied,
     StillStopped, CompleteState, processVars
<1>7. CASE StartTargetStep
  BY <1>7, <1>a, <1>b DEF StartTargetStep, StartTarget, AllStarted, CompleteState,
     processVars
<1>8. CASE FinalizeStep
  BY <1>8, <1>a, <1>b DEF FinalizeStep, JournalPolicy, UnpinTarget, ReleaseForDelete,
     SkipDeleted, DeleteSource, JournalDeleted, DeleteFails, AllDeleted, RenameSources,
     UnpinSource, CompleteState, processVars
<1>9. CASE Rollback
  BY <1>9, <1>a, <1>b DEF Rollback, RefuseIfIrreversible, Irrefusable, RefuseIfUnsafe,
     GuardPasses, GuardPins, NothingOwed, StartRollback, EndRollback, Refuse, CompleteState,
     processVars
<1>10. CASE Compensation
  BY <1>10, <1>a, <1>b DEF Compensation, UndoElsewhere, CompensationFails, UndoStartTarget,
     UndoCopy, UndoCreateTarget, UndoQuiesce, AlreadyRestarted, RestartSource,
     JournalRestart, RestartFails, RestartsDone, UndoReleaseSourcePins, Due, Ran,
     RanAndFailed, CompleteState, processVars
<1>11. CASE Environment
  BY <1>11, <1>a, <1>b DEF Environment, StopLands, SourceUp, SourceDeployFails, TargetUp,
     TargetDown, PruneSource, PruneTarget, DeleteKeptSource, RestartKeptSource,
     StartSourceByHand, CompleteState, processVars
<1> QED
  BY <1>1, <1>2, <1>3, <1>4, <1>5, <1>6, <1>7, <1>8, <1>9, <1>10, <1>11 DEF Next, Process

-----------------------------------------------------------------------------
(***************************************************************************)
(* The parts of the invariant, one after the other.                        *)
(***************************************************************************)
\* Nothing goes on once it is being undone.
LEMMA HistoryStep ==
  ASSUME IInv, History, Next, Hazards = {}
  PROVE  History'
<1> USE DEF Goto, GotoAt, Raise, End, SagaLabels, UndoLabels, CreateLabels, QuiesceLabels,
           CopyLabels, FinalizeLabels, History, Forward, worldVars, processVars
<1>0. /\ journal'.undo # journal.undo => pc \in {"rb_plan", "rb_step"} /\ journal'.undo # "none"
      /\ journal.started => journal'.started
      /\ pc # "idle" \/ journal.finished => journal.started
      /\ journal \in Journals /\ idx \in 1 .. 13
  BY Records DEF IInv, Shape, TypeOK, ProcessTypeOK, UnpinnedIsOver
<1>1. CASE Command
  <2>1. CASE ResumeMigration
    <3>1. journal.undo \in {"none", "begun", "ended"}
      BY <1>0 DEF Journals
    <3> QED
      BY <2>1, <3>1, <1>0 DEF ResumeMigration, Begin
  <2>2. CASE RunMigration
    BY <2>2, <1>0 DEF RunMigration, Begin, Journals
  <2>3. CASE RollbackMigration \/ UnpinMigration
    BY <2>3, <1>0 DEF RollbackMigration, UnpinMigration, Begin
  <2> QED
    BY <1>1, <2>1, <2>2, <2>3 DEF Command
<1>2. CASE Crash
  BY <1>2, <1>0 DEF Crash
<1>3. CASE Saga
  <2>1. CASE EnterState
    <3>1. pc' = FirstLabel(Order[idx]) /\ idx \in 1 .. 12 /\ pc = "enter"
      BY <2>1, <1>0 DEF EnterState, State
    <3>2. pc' \in SagaLabels
      BY <3>1, EntryFacts
    <3> QED
      BY <1>0, <3>1, <3>2
  <2>2. CASE SkipState \/ CompleteState \/ Finish \/ Block
    BY <2>2, <1>0 DEF SkipState, CompleteState, Finish, Block, Advance
  <2>3. CASE StepRaises \/ StepFailed \/ ReadOnlyStep
    BY <2>3, <1>0 DEF StepRaises, StepFailed, ReadOnlyStep, MayRaise
  <2> QED
    BY <1>3, <2>1, <2>2, <2>3 DEF Saga
<1>4. CASE CreateTargetStep
  BY <1>4, <1>0 DEF CreateTargetStep, NothingToUndo, UndoInterruptedAttempt, CreateResource,
     JournalTarget, CreateDone, CreateFails, UndoPartialCreate
<1>5. CASE QuiesceStep
  BY <1>5, <1>0 DEF QuiesceStep, PinSource, MarkStop, RequestStop, StopsRequested, Quiesced
<1>6. CASE CopyStep
  BY <1>6, <1>0 DEF CopyStep, Discover, CreateVolumes, PinTarget, CopyOne, AllCopied,
     StillStopped
<1>7. CASE StartTargetStep
  BY <1>7, <1>0 DEF StartTargetStep, StartTarget, AllStarted
<1>8. CASE FinalizeStep
  BY <1>8, <1>0 DEF FinalizeStep, JournalPolicy, UnpinTarget, ReleaseForDelete, SkipDeleted,
     DeleteSource, JournalDeleted, DeleteFails, AllDeleted, RenameSources, UnpinSource
<1>9. CASE Rollback
  <2>1. CASE RefuseIfIrreversible
    BY <2>1, <1>0 DEF RefuseIfIrreversible, Refuse, Journals
  <2>2. CASE Irrefusable
    BY <2>2, <1>0 DEF Irrefusable, Refuse, Journals
  <2>3. CASE RefuseIfUnsafe
    BY <2>3, <1>0 DEF RefuseIfUnsafe, Refuse, Journals
  <2>4. CASE GuardPasses
    BY <2>4, <1>0 DEF GuardPasses, Refuse, Journals
  <2>5. CASE GuardPins
    BY <2>5, <1>0 DEF GuardPins, Refuse, Journals
  <2>6. CASE NothingOwed
    BY <2>6, <1>0 DEF NothingOwed, Refuse, Journals
  <2>7. CASE StartRollback
    BY <2>7, <1>0 DEF StartRollback, Refuse, Journals
  <2>8. CASE EndRollback
    BY <2>8, <1>0 DEF EndRollback, Refuse, Journals
  <2> QED
    BY <1>9, <2>1, <2>2, <2>3, <2>4, <2>5, <2>6, <2>7, <2>8 DEF Rollback
<1>10. CASE Compensation
  BY <1>10, <1>0 DEF Compensation, UndoElsewhere, CompensationFails, UndoStartTarget,
     UndoCopy, UndoCreateTarget, UndoQuiesce, AlreadyRestarted, RestartSource,
     JournalRestart, RestartFails, RestartsDone, UndoReleaseSourcePins, Due, Ran,
     RanAndFailed, MayRelease
<1>11. CASE Environment
  BY <1>11, <1>0 DEF Environment, StopLands, SourceUp, SourceDeployFails, TargetUp,
     TargetDown, PruneSource, PruneTarget, DeleteKeptSource, RestartKeptSource,
     StartSourceByHand
<1> QED
  BY <1>1, <1>2, <1>3, <1>4, <1>5, <1>6, <1>7, <1>8, <1>9, <1>10, <1>11 DEF Next, Process

\* A step is complete by what its state asks for.
LEMMA ToComplete ==
  ASSUME Shape, Next, pc' = "complete"
  PROVE  /\ idx' = idx
         /\ \/ pc = "complete"
            \/ Discover /\ idx = 6
            \/ ReadOnlyStep /\ idx \in {1, 2, 3, 8, 9, 11}
            \/ pc = "create" /\ idx = 4
            \/ pc = "quiesce_wait" /\ idx = 5
            \/ pc = "copy_check" /\ idx = 7
            \/ pc = "start" /\ idx = 10
            \/ pc \in FinalizeLabels /\ idx = 12
<1> USE DEF Goto, GotoAt, Raise, End, worldVars, processVars
<1>0. /\ LabelFitsState /\ idx \in 1 .. 13 /\ State = Order[idx]
      /\ Order[idx] = "discover" => idx = 6
      /\ idx = 6 => Order[idx] = "discover"
  <2>1. idx \in 1 .. 13
    BY DEF Shape, TypeOK, ProcessTypeOK
  <2>2. 6 \in 1 .. 13
    OBVIOUS
  <2> QED
    BY <2>1, <2>2, OrderOnce, Numbers DEF Shape, State
<1> USE DEF LabelFitsState, CreateLabels, QuiesceLabels, CopyLabels, FinalizeLabels
<1>1. CASE Command
  BY <1>1, <1>0 DEF Command, RunMigration, ResumeMigration, RollbackMigration,
     UnpinMigration, Begin
<1>2. CASE Crash
  BY <1>2, <1>0 DEF Crash
<1>3. CASE Saga
  <2>1. CASE EnterState
    BY <2>1, <1>0, EntryFacts DEF EnterState
  <2>2. CASE SkipState \/ CompleteState \/ Finish \/ Block
    BY <2>2, <1>0 DEF SkipState, CompleteState, Finish, Block, Advance
  <2>3. CASE StepRaises \/ StepFailed \/ ReadOnlyStep
    BY <2>3, <1>0 DEF StepRaises, StepFailed, ReadOnlyStep
  <2> QED
    BY <1>3, <2>1, <2>2, <2>3 DEF Saga
<1>4. CASE CreateTargetStep
  BY <1>4, <1>0 DEF CreateTargetStep, NothingToUndo, UndoInterruptedAttempt, CreateResource,
     JournalTarget, CreateDone, CreateFails, UndoPartialCreate
<1>5. CASE QuiesceStep
  BY <1>5, <1>0 DEF QuiesceStep, PinSource, MarkStop, RequestStop, StopsRequested, Quiesced
<1>6. CASE CopyStep
  BY <1>6, <1>0 DEF CopyStep, Discover, CreateVolumes, PinTarget, CopyOne, AllCopied,
     StillStopped
<1>7. CASE StartTargetStep
  BY <1>7, <1>0 DEF StartTargetStep, StartTarget, AllStarted
<1>8. CASE FinalizeStep
  BY <1>8, <1>0 DEF FinalizeStep, JournalPolicy, UnpinTarget, ReleaseForDelete, SkipDeleted,
     DeleteSource, JournalDeleted, DeleteFails, AllDeleted, RenameSources, UnpinSource
<1>9. CASE Rollback
  BY <1>9, <1>0 DEF Rollback, RefuseIfIrreversible, Irrefusable, RefuseIfUnsafe,
     GuardPasses, GuardPins, NothingOwed, StartRollback, EndRollback, Refuse
<1>10. CASE Compensation
  BY <1>10, <1>0 DEF Compensation, UndoElsewhere, CompensationFails, UndoStartTarget,
     UndoCopy, UndoCreateTarget, UndoQuiesce, AlreadyRestarted, RestartSource,
     JournalRestart, RestartFails, RestartsDone, UndoReleaseSourcePins, Due, Ran,
     RanAndFailed
<1>11. CASE Environment
  BY <1>11, <1>0 DEF Environment, StopLands, SourceUp, SourceDeployFails, TargetUp,
     TargetDown, PruneSource, PruneTarget, DeleteKeptSource, RestartKeptSource,
     StartSourceByHand
<1> QED
  BY <1>1, <1>2, <1>3, <1>4, <1>5, <1>6, <1>7, <1>8, <1>9, <1>10, <1>11 DEF Next, Process

\* DISCOVER looks while the source is whole.
LEMMA PairsStep ==
  ASSUME IInv, Ordered, FinalizeIsLate, PairsKnown, Next
  PROVE  PairsKnown'
<1> USE DEF Goto, GotoAt, Raise, End, PairsKnown, worldVars, processVars
<1>0. /\ Done("discover")' <=> Done("discover") \/ (CompleteState /\ idx = 6)
      /\ journal'.pairs # journal.pairs => Discover
      /\ idx \in 1 .. 13 /\ journal \in Journals
      /\ Stages /\ LabelFitsState /\ Shape
  BY DoneStep, Records, OrderedStages DEF IInv, Shape, TypeOK, ProcessTypeOK
<1>1. CASE Discover
  <2>1. pc = "work" /\ idx = 6
    BY <1>1, <1>0 DEF Discover, LabelFitsState, State, Order
  <2>2. journal.policy = NoState
    BY <2>1, <1>0 DEF Stages, FinalizeIsLate, Inside, SagaLabels
  <2>3. \A r \in Resources : srcVol[r] # "gone"
    BY <2>2 DEF IInv, SourceIsGuarded, Guarded
  <2> QED
    BY <1>0, <1>1, <2>3 DEF Discover, Journals
<1>2. CASE ~Discover
  <2>1. journal'.pairs = journal.pairs
    BY <1>0, <1>2
  <2>2. ASSUME pc' = "complete" /\ idx' = 6
        PROVE  pc = "complete" /\ idx = 6
    BY <1>0, <1>2, <2>2, ToComplete
  <2> QED
    BY <1>0, <2>1, <2>2 DEF CompleteState
<1> QED
  BY <1>1, <1>2

\* FINALIZE begins behind HEALTHCHECK; no rollback passes a delete.
LEMMA LateStep ==
  ASSUME IInv, History, Ordered, FinalizeIsLate, Next
  PROVE  FinalizeIsLate'
<1> USE DEF Goto, GotoAt, Raise, End, FinalizeIsLate, Forward, worldVars, processVars
<1>0. /\ Done("healthcheck") => Done("healthcheck")'
      /\ journal'.policy # journal.policy => pc = "finalize_policy"
      /\ journal'.undo # journal.undo => pc \in {"rb_plan", "rb_step"}
      /\ idx \in 1 .. 13
      /\ pc = "finalize_policy" => Done("healthcheck") /\ Forward
      /\ pc = "rb_step" => ~Forward
  BY DoneStep, Records, JournalWriters, OrderedStages DEF IInv, Shape, TypeOK,
     ProcessTypeOK, LabelFitsState, Stages, History, SagaLabels, UndoLabels, FinalizeLabels
<1>a. ASSUME pc' \notin {"rb_guard", "rb_pin", "rb_plan"}
      PROVE  FinalizeIsLate'
  BY <1>0, <1>a
<1>b. ASSUME pc' = pc, journal' = journal
      PROVE  FinalizeIsLate'
  BY <1>0, <1>b
<1>1. CASE Command
  <2>1. CASE RunMigration \/ ResumeMigration \/ RollbackMigration
    BY <2>1, <1>a DEF RunMigration, ResumeMigration, RollbackMigration, Begin
  <2>2. CASE UnpinMigration
    BY <2>2, <1>b DEF UnpinMigration
  <2> QED
    BY <1>1, <2>1, <2>2 DEF Command
<1>2. CASE Crash
  BY <1>2, <1>a, <1>b DEF Crash
<1>3. CASE Saga
  <2>1. CASE EnterState
    BY <2>1, <1>0, <1>a, EntryFacts DEF EnterState, State
  <2>2. CASE SkipState \/ CompleteState \/ Finish \/ Block \/ StepRaises \/ StepFailed
        \/ ReadOnlyStep
    BY <2>2, <1>a DEF SkipState, CompleteState, Finish, Block, StepRaises, StepFailed,
       ReadOnlyStep, Advance
  <2> QED
    BY <1>3, <2>1, <2>2 DEF Saga
<1>4. CASE CreateTargetStep
  BY <1>4, <1>a, <1>b DEF CreateTargetStep, NothingToUndo, UndoInterruptedAttempt,
     CreateResource, JournalTarget, CreateDone, CreateFails, UndoPartialCreate
<1>5. CASE QuiesceStep
  BY <1>5, <1>a, <1>b DEF QuiesceStep, PinSource, MarkStop, RequestStop, StopsRequested,
     Quiesced
<1>6. CASE CopyStep
  BY <1>6, <1>a, <1>b DEF CopyStep, Discover, CreateVolumes, PinTarget, CopyOne, AllCopied,
     StillStopped
<1>7. CASE StartTargetStep
  BY <1>7, <1>a, <1>b DEF StartTargetStep, StartTarget, AllStarted
<1>8. CASE FinalizeStep
  BY <1>8, <1>a, <1>b DEF FinalizeStep, JournalPolicy, UnpinTarget, ReleaseForDelete,
     SkipDeleted, DeleteSource, JournalDeleted, DeleteFails, AllDeleted, RenameSources,
     UnpinSource
<1>9. CASE Rollback
  <2>1. CASE Irrefusable \/ GuardPasses \/ GuardPins
    BY <2>1, <1>0 DEF Irrefusable, GuardPasses, GuardPins, RollbackRefusal,
       SourceCopyUnproven, NoState
  <2>2. CASE RefuseIfIrreversible \/ RefuseIfUnsafe \/ NothingOwed \/ StartRollback
        \/ EndRollback
    BY <2>2, <1>a DEF RefuseIfIrreversible, RefuseIfUnsafe, NothingOwed, StartRollback,
       EndRollback, Refuse
  <2> QED
    BY <1>9, <2>1, <2>2 DEF Rollback
<1>10. CASE Compensation
  BY <1>10, <1>a, <1>b DEF Compensation, UndoElsewhere, CompensationFails, UndoStartTarget,
     UndoCopy, UndoCreateTarget, UndoQuiesce, AlreadyRestarted, RestartSource,
     JournalRestart, RestartFails, RestartsDone, UndoReleaseSourcePins, Due, Ran,
     RanAndFailed
<1>11. CASE Environment
  BY <1>11, <1>a, <1>b DEF Environment, StopLands, SourceUp, SourceDeployFails, TargetUp,
     TargetDown, PruneSource, PruneTarget, DeleteKeptSource, RestartKeptSource,
     StartSourceByHand
<1> QED
  BY <1>1, <1>2, <1>3, <1>4, <1>5, <1>6, <1>7, <1>8, <1>9, <1>10, <1>11 DEF Next, Process

\* A plan for a state of each kind is a sequence of compensations.
LEMMA OwedSeq ==
  ASSUME NEW owed, NEW s \in {"finalize", "start_target", "copy", "create_target", "quiesce"}
  PROVE  OwedBy(s, owed) \in Seq(Compensations)
<1>1. CASE s \notin owed
  BY <1>1, EmptySeq DEF OwedBy
<1>2. CASE s \in owed
  <2>1. CASE s = "finalize"
    BY <1>2, <2>1 DEF OwedBy, Owes, Compensations
  <2>2. CASE s = "start_target"
    BY <1>2, <2>2 DEF OwedBy, Owes, Compensations
  <2>3. CASE s = "copy"
    BY <1>2, <2>3 DEF OwedBy, Owes, Compensations
  <2>4. CASE s = "create_target"
    BY <1>2, <2>4 DEF OwedBy, Owes, Compensations
  <2>5. CASE s = "quiesce"
    BY <1>2, <2>5 DEF OwedBy, Owes, Compensations
  <2> QED
    BY <2>1, <2>2, <2>3, <2>4, <2>5
<1> QED
  BY <1>1, <1>2

\* A target that exists is owed.
LEMMA TargetIsOwed ==
  ASSUME Done("create_target")
  PROVE  RollbackPlan(Owed) # << >>
<1>1. "create_target" \in Owed
  BY DEF Owed, OwedStates, Done
<1> HIDE DEF Owed
<1> DEFINE early == OwedBy("finalize", Owed) \o OwedBy("start_target", Owed)
                      \o OwedBy("copy", Owed)
           both == << "restore_source_fqdn", "restart_source",
                      "delete_target_resource", "release_source_pins" >>
           target == << "delete_target_resource", "restore_source_fqdn", "release_source_pins" >>
<1>2. early \in Seq(Compensations)
  BY OwedSeq, ConcatProperties
<1>3. /\ both \in Seq(Compensations) /\ target \in Seq(Compensations)
      /\ Len(both) = 4 /\ Len(target) = 3
  BY DEF Compensations
<1>4. OwedBy("create_target", Owed) = target
  BY <1>1 DEF OwedBy, Owes
<1>5. \/ RollbackPlan(Owed) = early \o both
      \/ RollbackPlan(Owed) = early \o (OwedBy("quiesce", Owed) \o target)
  BY <1>4 DEF RollbackPlan
<1> HIDE DEF early, both, target
<1>6. CASE RollbackPlan(Owed) = early \o both
  BY <1>2, <1>3, <1>6, ConcatProperties
<1>7. CASE RollbackPlan(Owed) = early \o (OwedBy("quiesce", Owed) \o target)
  <2>1. PICK q \in Seq(Compensations) : RollbackPlan(Owed) = early \o (q \o target)
    BY <1>7, OwedSeq
  <2>2. q \o target \in Seq(Compensations) /\ Len(q \o target) = Len(q) + 3 /\ Len(q) \in Nat
    <3>1. target \in Seq(Compensations) /\ Len(target) = 3
      BY <1>3
    <3>2. q \o target \in Seq(Compensations) /\ Len(q \o target) = Len(q) + Len(target)
      BY <3>1, ConcatProperties
    <3> QED
      BY <3>1, <3>2, LenProperties
  <2>3. Len(early \o (q \o target)) = Len(early) + Len(q \o target) /\ Len(early) \in Nat
    BY <1>2, <2>2, ConcatProperties, LenProperties
  <2>4. Len(RollbackPlan(Owed)) # 0
    BY <2>1, <2>2, <2>3
  <2> QED
    BY <2>4
<1> QED
  BY <1>5, <1>6, <1>7

\* A rollback with nothing to undo ends a run that had made nothing.
LEMMA NothingDoneStep ==
  ASSUME IInv, History, Ordered, FinalizeIsLate, NothingDone, Next
  PROVE  NothingDone'
<1> USE DEF Goto, GotoAt, Raise, End, NothingDone, worldVars, processVars
<1>0. /\ Forward' => Forward
      /\ Forward' /\ journal'.policy = NoState => journal.policy = NoState
      /\ Done("create_target")' => Done("create_target") \/ CompleteState
      /\ journal'.policy # journal.policy => pc = "finalize_policy"
      /\ journal \in Journals
      /\ pc \in SagaLabels => Forward
      /\ pc \in UndoLabels => ~Forward
  BY DoneStep, Records, JournalWriters DEF IInv, Shape, TypeOK, History, Forward,
     WorldTypeOK, Policies, NoState
<1>b. ASSUME UNCHANGED outcome, journal'.finished = journal.finished,
             pc' \notin SagaLabels, pc # "finalize_policy", pc # "complete"
      PROVE  NothingDone'
  BY <1>0, <1>b DEF CompleteState
<1>c. ASSUME pc \in SagaLabels, journal'.finished = journal.finished,
             outcome' = outcome \/ outcome' \notin {"rolled_back", "rollback_failed"}
      PROVE  NothingDone'
  BY <1>0, <1>c
<1>1. CASE Command
  <2>1. CASE RunMigration
    BY <2>1, <1>0 DEF RunMigration, Begin, Journals, Done, Forward, IInv, UnpinnedIsOver
  <2>2. CASE ResumeMigration
    BY <2>2, <1>0 DEF ResumeMigration, Begin, Done, Forward
  <2>3. CASE RollbackMigration \/ UnpinMigration
    BY <2>3, <1>b DEF RollbackMigration, UnpinMigration, Begin, SagaLabels, CreateLabels,
       QuiesceLabels, CopyLabels, FinalizeLabels
  <2> QED
    BY <1>1, <2>1, <2>2, <2>3 DEF Command
<1>2. CASE Crash
  <2>1. pc' = "idle" /\ outcome' = "interrupted" /\ journal' = journal
    BY <1>2 DEF Crash
  <2> QED
    BY <2>1, <1>0 DEF SagaLabels, CreateLabels, QuiesceLabels, CopyLabels, FinalizeLabels,
       Forward, Done
<1>3. CASE Saga
  <2>1. CASE Finish
    <3>1. /\ journal.policy # NoState /\ journal'.policy = journal.policy
          /\ outcome' = "succeeded"
      BY <2>1, <1>0 DEF Finish, IInv, Shape, PolicyFirst, Journals
    <3> QED
      BY <3>1
  <2>2. CASE ~Finish
    <3>1. /\ pc \in SagaLabels /\ journal'.finished = journal.finished
          /\ outcome' = outcome \/ outcome' = "blocked"
      BY <1>3, <2>2, <1>0 DEF Saga, SkipState, EnterState, CompleteState, Block, StepRaises,
         StepFailed, ReadOnlyStep, MayRaise, Advance, SagaLabels, CreateLabels,
         QuiesceLabels, CopyLabels, FinalizeLabels, Journals
    <3> QED
      BY <3>1, <1>c
  <2> QED
    BY <2>1, <2>2
<1>4. CASE CreateTargetStep
  <2>1. pc \in SagaLabels /\ journal'.finished = journal.finished /\ outcome' = outcome
    BY <1>4, <1>0 DEF CreateTargetStep, NothingToUndo, UndoInterruptedAttempt,
       CreateResource, JournalTarget, CreateDone, CreateFails, UndoPartialCreate,
       SagaLabels, CreateLabels, QuiesceLabels, CopyLabels, FinalizeLabels, Journals
  <2> QED
    BY <2>1, <1>c
<1>5. CASE QuiesceStep
  <2>1. pc \in SagaLabels /\ journal'.finished = journal.finished /\ outcome' = outcome
    BY <1>5, <1>0 DEF QuiesceStep, PinSource, MarkStop, RequestStop, StopsRequested,
       Quiesced, SagaLabels, CreateLabels, QuiesceLabels, CopyLabels, FinalizeLabels,
       Journals
  <2> QED
    BY <2>1, <1>c
<1>6. CASE CopyStep
  <2>1. pc \in SagaLabels /\ journal'.finished = journal.finished /\ outcome' = outcome
    BY <1>6, <1>0 DEF CopyStep, Discover, CreateVolumes, PinTarget, CopyOne, AllCopied,
       StillStopped, SagaLabels, CreateLabels, QuiesceLabels, CopyLabels, FinalizeLabels,
       Journals
  <2> QED
    BY <2>1, <1>c
<1>7. CASE StartTargetStep
  <2>1. pc \in SagaLabels /\ journal'.finished = journal.finished /\ outcome' = outcome
    BY <1>7, <1>0 DEF StartTargetStep, StartTarget, AllStarted, SagaLabels, CreateLabels,
       QuiesceLabels, CopyLabels, FinalizeLabels, Journals
  <2> QED
    BY <2>1, <1>c
<1>8. CASE FinalizeStep
  <2>1. pc \in SagaLabels /\ journal'.finished = journal.finished /\ outcome' = outcome
    BY <1>8, <1>0 DEF FinalizeStep, JournalPolicy, UnpinTarget, ReleaseForDelete,
       SkipDeleted, DeleteSource, JournalDeleted, DeleteFails, AllDeleted, RenameSources,
       UnpinSource, SagaLabels, CreateLabels, QuiesceLabels, CopyLabels, FinalizeLabels,
       Journals
  <2> QED
    BY <2>1, <1>c
<1>9. CASE Rollback
  <2> USE DEF SagaLabels, UndoLabels, CreateLabels, QuiesceLabels, CopyLabels, FinalizeLabels
  <2>1. CASE RefuseIfIrreversible \/ RefuseIfUnsafe
    <3>1. journal'.finished = FALSE /\ outcome' = "refused"
      BY <2>1, <1>0 DEF RefuseIfIrreversible, RefuseIfUnsafe, Refuse, Journals
    <3> QED
      BY <3>1
  <2>2. CASE Irrefusable \/ GuardPasses \/ GuardPins
    BY <2>2, <1>b DEF Irrefusable, GuardPasses, GuardPins
  <2>3. CASE NothingOwed
    <3>1. ~Done("create_target")
      BY <2>3, TargetIsOwed DEF NothingOwed
    <3>2. journal.policy = NoState
      BY <3>1, OrderedStages DEF FinalizeIsLate, Stages, IInv, Shape, TypeOK, ProcessTypeOK
    <3>3. /\ journal'.finished = TRUE /\ journal'.policy = journal.policy
          /\ pc' = "idle" /\ pc = "rb_plan"
      BY <2>3, <1>0 DEF NothingOwed, Journals
    <3> QED
      BY <3>1, <3>2, <3>3, <1>0 DEF CompleteState
  <2>4. CASE StartRollback \/ EndRollback
    <3>1. ~Forward'
      BY <2>4, <1>0 DEF StartRollback, EndRollback, Journals, Forward
    <3> QED
      BY <3>1
  <2> QED
    BY <1>9, <2>1, <2>2, <2>3, <2>4 DEF Rollback
<1>10. CASE Compensation
  <2>1. pc \in UndoLabels
    BY <1>10 DEF Compensation, UndoElsewhere, CompensationFails, UndoStartTarget, UndoCopy,
       UndoCreateTarget, UndoQuiesce, AlreadyRestarted, RestartSource, JournalRestart,
       RestartFails, RestartsDone, UndoReleaseSourcePins, Due, UndoLabels
  <2> QED
    BY <2>1, <1>0
<1>11. CASE Environment
  <2>1. pc' = pc /\ outcome' = outcome /\ journal' = journal
    BY <1>11 DEF Environment, StopLands, SourceUp, SourceDeployFails, TargetUp, TargetDown,
       PruneSource, PruneTarget, DeleteKeptSource, RestartKeptSource, StartSourceByHand
  <2> QED
    BY <2>1, <1>0 DEF Forward, Done
<1> QED
  BY <1>1, <1>2, <1>3, <1>4, <1>5, <1>6, <1>7, <1>8, <1>9, <1>10, <1>11 DEF Next, Process

\* Nothing stops the source before CREATE_TARGET is complete, and nothing but a
\* rollback starts it again.
LEMMA SourceBeforeStep ==
  ASSUME IInv, History, Ordered, FinalizeIsLate, NothingDone, SourceBefore, Next, Hazards = {}
  PROVE  SourceBefore'
<1> USE DEF Goto, GotoAt, Raise, End, worldVars, sourceVars, processVars
<1> DEFINE Whole == \A r \in Resources : src[r] = "running" /\ ~stopQueued[r]
           Steady == \A r \in Resources : src[r] # "starting" /\ srcVol[r] # "empty"
<1>0. /\ Forward' => Forward
      /\ ~Done("create_target")' => ~Done("create_target")
      /\ WorldTypeOK
      /\ pc \in UndoLabels => ~Forward
      /\ Forward => Steady
      /\ Forward /\ ~Done("create_target") => Whole
  BY DoneStep, Records DEF IInv, Shape, TypeOK, History, Forward, SourceBefore
<1>d. Stages /\ LabelFitsState
  BY OrderedStages DEF IInv, Shape, TypeOK, ProcessTypeOK
<1>a. ASSUME UNCHANGED << src, stopQueued, srcVol >>
      PROVE  SourceBefore'
  BY <1>0, <1>a DEF SourceBefore
<1>b. ASSUME Done("create_target"), Forward => Steady'
      PROVE  SourceBefore'
  BY <1>0, <1>b DEF SourceBefore
<1>c. outcome = "succeeded" => Done("create_target")
  BY <1>d DEF IInv, Shape, PolicyFirst, FinalizeIsLate, Stages
<1>1. CASE Command
  BY <1>1, <1>a DEF Command, RunMigration, ResumeMigration, RollbackMigration,
     UnpinMigration, Begin
<1>2. CASE Crash
  BY <1>2, <1>a DEF Crash
<1>3. CASE Saga
  BY <1>3, <1>a DEF Saga, SkipState, EnterState, CompleteState, Finish, Block, StepRaises,
     StepFailed, ReadOnlyStep, Advance
<1>4. CASE CreateTargetStep
  BY <1>4, <1>a DEF CreateTargetStep, NothingToUndo, UndoInterruptedAttempt, CreateResource,
     JournalTarget, CreateDone, CreateFails, UndoPartialCreate
<1>5. CASE QuiesceStep
  <2>1. CASE RequestStop
    <3>1. Done("create_target") /\ UNCHANGED << src, srcVol >>
      BY <2>1, <1>d DEF RequestStop, LabelFitsState, Stages, QuiesceLabels, SagaLabels
    <3> QED
      BY <1>0, <1>b, <3>1
  <2>2. CASE PinSource \/ MarkStop \/ StopsRequested \/ Quiesced
    BY <2>2, <1>a DEF PinSource, MarkStop, StopsRequested, Quiesced
  <2> QED
    BY <1>5, <2>1, <2>2 DEF QuiesceStep
<1>6. CASE CopyStep
  BY <1>6, <1>a DEF CopyStep, Discover, CreateVolumes, PinTarget, CopyOne, AllCopied,
     StillStopped
<1>7. CASE StartTargetStep
  BY <1>7, <1>a DEF StartTargetStep, StartTarget, AllStarted
<1>8. CASE FinalizeStep
  <2>1. CASE DeleteSource
    <3>1. pc = "finalize_delete" /\ idx = 12
      BY <2>1, <1>d DEF DeleteSource, LabelFitsState, FinalizeLabels
    <3>2. Done("create_target")
      BY <1>d, <3>1 DEF Stages, FinalizeLabels, SagaLabels
    <3>3. Steady => Steady'
      BY <1>0, <2>1 DEF DeleteSource, WorldTypeOK
    <3> QED
      BY <1>0, <1>b, <3>2, <3>3
  <2>2. CASE JournalPolicy \/ UnpinTarget \/ ReleaseForDelete \/ SkipDeleted
        \/ JournalDeleted \/ DeleteFails \/ AllDeleted \/ RenameSources \/ UnpinSource
    BY <2>2, <1>a DEF JournalPolicy, UnpinTarget, ReleaseForDelete, SkipDeleted,
       JournalDeleted, DeleteFails, AllDeleted, RenameSources, UnpinSource
  <2> QED
    BY <1>8, <2>1, <2>2 DEF FinalizeStep
<1>9. CASE Rollback
  BY <1>9, <1>a DEF Rollback, RefuseIfIrreversible, Irrefusable, RefuseIfUnsafe,
     GuardPasses, GuardPins, NothingOwed, StartRollback, EndRollback, Refuse
<1>10. CASE Compensation
  <2>1. pc \in UndoLabels
    BY <1>10 DEF Compensation, UndoElsewhere, CompensationFails, UndoStartTarget, UndoCopy,
       UndoCreateTarget, UndoQuiesce, AlreadyRestarted, RestartSource, JournalRestart,
       RestartFails, RestartsDone, UndoReleaseSourcePins, Due, UndoLabels
  <2> QED
    BY <2>1, <1>0 DEF SourceBefore
<1>11. CASE Environment
  <2>1. PICK r \in Resources :
           \/ StopLands(r) \/ SourceUp(r) \/ SourceDeployFails(r) \/ TargetUp(r)
           \/ TargetDown(r) \/ PruneSource(r) \/ PruneTarget(r)
           \/ DeleteKeptSource(r) \/ RestartKeptSource(r) \/ StartSourceByHand(r)
    BY <1>11 DEF Environment
  <2>2. CASE TargetUp(r) \/ TargetDown(r) \/ PruneTarget(r)
    BY <2>2, <1>a DEF TargetUp, TargetDown, PruneTarget
  <2>3. CASE SourceUp(r) \/ SourceDeployFails(r)
    <3>1. src[r] = "starting"
      BY <2>3 DEF SourceUp, SourceDeployFails
    <3> QED
      BY <1>0, <3>1 DEF SourceBefore
  <2>4. CASE StopLands(r)
    <3>1. Steady => Steady'
      BY <1>0, <2>4 DEF StopLands, WorldTypeOK
    <3>2. Whole => Done("create_target")
      BY <2>4 DEF StopLands
    <3> QED
      BY <1>0, <1>b, <3>1, <3>2 DEF SourceBefore
  <2>5. CASE PruneSource(r)
    <3>1. Steady => Steady'
      BY <1>0, <2>5 DEF PruneSource, WorldTypeOK
    <3>2. Whole => Whole'
      BY <2>5 DEF PruneSource
    <3> QED
      BY <1>0, <3>1, <3>2 DEF SourceBefore
  <2>6. CASE DeleteKeptSource(r) \/ RestartKeptSource(r)
    <3>1. Steady => Steady'
      BY <1>0, <2>6 DEF DeleteKeptSource, RestartKeptSource, WorldTypeOK
    <3>2. outcome = "succeeded"
      BY <2>6 DEF DeleteKeptSource, RestartKeptSource
    <3> QED
      BY <1>0, <1>b, <1>c, <3>1, <3>2
  <2>7. CASE StartSourceByHand(r)
    <3>1. src[r] # "running" /\ outcome \in {"rolled_back", "rollback_failed"}
      BY <2>7 DEF StartSourceByHand
    <3>2. ~Forward
      BY <1>0, <3>1 DEF NothingDone
    <3> QED
      BY <1>0, <3>2 DEF SourceBefore
  <2> QED
    BY <2>1, <2>2, <2>3, <2>4, <2>5, <2>6, <2>7
<1> QED
  BY <1>1, <1>2, <1>3, <1>4, <1>5, <1>6, <1>7, <1>8, <1>9, <1>10, <1>11 DEF Next, Process

\* What is deleted stays deleted, and is journalled only then.
LEMMA DeletedStep ==
  ASSUME IInv, Ordered, DeletedOnes, Next
  PROVE  DeletedOnes'
<1> USE DEF Goto, GotoAt, Raise, End, worldVars, sourceVars, processVars
<1>d. /\ \A r \in journal.deleted : src[r] = "deleted" /\ Done("verify") /\ r \in Resources
      /\ pc = "finalize_deleted" => src[at] = "deleted"
      /\ Done("verify") => Done("verify")'
      /\ journal'.deleted # journal.deleted => JournalDeleted
      /\ WorldTypeOK /\ journal \in Journals /\ Stages /\ LabelFitsState
  BY DoneStep, Records, OrderedStages DEF DeletedOnes, IInv, Shape, TypeOK, ProcessTypeOK,
     Journals
<1>e. at <= N /\ at \in 1 .. N + 1 => at \in Resources
  BY NAssumption DEF Resources
<1>f. pc = "finalize_deleted" => at \in Resources
  BY <1>e DEF IInv, Shape, TypeOK, ProcessTypeOK, LoopFits
<1>a. ASSUME \A r \in Resources : src[r] = "deleted" => src'[r] = "deleted",
             ~JournalDeleted, pc' # "finalize_deleted" \/ (pc' = pc /\ at' = at)
      PROVE  DeletedOnes'
  <2>1. journal'.deleted = journal.deleted
    BY <1>a, <1>d
  <2> QED
    BY <1>a, <1>d, <1>f, <2>1 DEF DeletedOnes
<1>1. CASE Command
  BY <1>1, <1>a, <1>d DEF Command, RunMigration, ResumeMigration, RollbackMigration,
     UnpinMigration, Begin, JournalDeleted, WorldTypeOK
<1>2. CASE Crash
  BY <1>2, <1>a, <1>d DEF Crash, JournalDeleted, WorldTypeOK
<1>3. CASE Saga
  <2>1. CASE EnterState
    BY <2>1, <1>a, <1>d, EntryFacts DEF EnterState, State, JournalDeleted, IInv, Shape,
       TypeOK, ProcessTypeOK
  <2>2. CASE SkipState \/ CompleteState \/ Finish \/ Block \/ StepRaises \/ StepFailed
        \/ ReadOnlyStep
    BY <2>2, <1>a DEF SkipState, CompleteState, Finish, Block, StepRaises, StepFailed,
       ReadOnlyStep, Advance, JournalDeleted, MayRaise
  <2> QED
    BY <1>3, <2>1, <2>2 DEF Saga
<1>4. CASE CreateTargetStep
  BY <1>4, <1>a, <1>d DEF CreateTargetStep, NothingToUndo, UndoInterruptedAttempt,
     CreateResource, JournalTarget, CreateDone, CreateFails, UndoPartialCreate,
     JournalDeleted, WorldTypeOK
<1>5. CASE QuiesceStep
  BY <1>5, <1>a, <1>d DEF QuiesceStep, PinSource, MarkStop, RequestStop, StopsRequested,
     Quiesced, JournalDeleted, WorldTypeOK
<1>6. CASE CopyStep
  BY <1>6, <1>a, <1>d DEF CopyStep, Discover, CreateVolumes, PinTarget, CopyOne, AllCopied,
     StillStopped, JournalDeleted, WorldTypeOK
<1>7. CASE StartTargetStep
  BY <1>7, <1>a, <1>d DEF StartTargetStep, StartTarget, AllStarted, JournalDeleted,
     WorldTypeOK
<1>8. CASE FinalizeStep
  <2>1. CASE JournalDeleted
    <3>1. /\ journal'.deleted = journal.deleted \cup {at} /\ pc = "finalize_deleted"
          /\ pc' = "finalize_delete" /\ src' = src
      BY <1>d, <2>1 DEF JournalDeleted, Journals
    <3>2. Done("verify")
      BY <1>d, <3>1 DEF Stages, LabelFitsState, FinalizeLabels, SagaLabels
    <3> QED
      BY <1>d, <3>1, <3>2 DEF DeletedOnes
  <2>2. CASE DeleteSource
    <3>1. /\ journal' = journal /\ src' = [src EXCEPT ![at] = "deleted"]
          /\ at' = at /\ at \in Resources
      BY <2>2, <1>e DEF DeleteSource, IInv, Shape, TypeOK, ProcessTypeOK
    <3> QED
      BY <1>d, <3>1 DEF DeletedOnes, WorldTypeOK
  <2>3. CASE JournalPolicy \/ UnpinTarget \/ ReleaseForDelete \/ SkipDeleted \/ DeleteFails
        \/ AllDeleted \/ RenameSources \/ UnpinSource
    BY <2>3, <1>a DEF JournalPolicy, UnpinTarget, ReleaseForDelete, SkipDeleted,
       DeleteFails, AllDeleted, RenameSources, UnpinSource, JournalDeleted
  <2> QED
    BY <1>8, <2>1, <2>2, <2>3 DEF FinalizeStep
<1>9. CASE Rollback
  BY <1>9, <1>a, <1>d DEF Rollback, RefuseIfIrreversible, Irrefusable, RefuseIfUnsafe,
     GuardPasses, GuardPins, NothingOwed, StartRollback, EndRollback, Refuse,
     JournalDeleted, WorldTypeOK
<1>10. CASE Compensation
  BY <1>10, <1>a, <1>d DEF Compensation, UndoElsewhere, CompensationFails, UndoStartTarget,
     UndoCopy, UndoCreateTarget, UndoQuiesce, AlreadyRestarted, RestartSource,
     JournalRestart, RestartFails, RestartsDone, UndoReleaseSourcePins, Due, Ran,
     RanAndFailed, JournalDeleted, WorldTypeOK
<1>11. CASE Environment
  <2>1. PICK r \in Resources :
           \/ StopLands(r) \/ SourceUp(r) \/ SourceDeployFails(r) \/ TargetUp(r)
           \/ TargetDown(r) \/ PruneSource(r) \/ PruneTarget(r)
           \/ DeleteKeptSource(r) \/ RestartKeptSource(r) \/ StartSourceByHand(r)
    BY <1>11 DEF Environment
  <2>3. pc' = pc /\ at' = at /\ journal' = journal
    BY <2>1 DEF StopLands, SourceUp, SourceDeployFails, TargetUp, TargetDown, PruneSource,
       PruneTarget, DeleteKeptSource, RestartKeptSource, StartSourceByHand
  <2>4. \A q \in Resources : src[q] = "deleted" => src'[q] = "deleted"
    BY <1>d, <2>1 DEF StopLands, SourceUp, SourceDeployFails, TargetUp, TargetDown,
       PruneSource, PruneTarget, DeleteKeptSource, RestartKeptSource, StartSourceByHand,
       WorldTypeOK
  <2> QED
    BY <1>d, <1>f, <2>3, <2>4 DEF DeletedOnes
<1> QED
  BY <1>1, <1>2, <1>3, <1>4, <1>5, <1>6, <1>7, <1>8, <1>9, <1>10, <1>11 DEF Next, Process

\* No step of a rollback's undoing is taken while nothing is undone.
LEMMA NotUndoing ==
  ASSUME IInv, History, Next, Forward'
  PROVE  Forward /\ ~Compensation /\ pc \notin UndoLabels
<1>1. Forward
  BY Records DEF IInv, Forward
<1>2. Compensation => pc \in UndoLabels
  BY DEF Compensation, UndoElsewhere, CompensationFails, UndoStartTarget, UndoCopy,
     UndoCreateTarget, UndoQuiesce, AlreadyRestarted, RestartSource, JournalRestart,
     RestartFails, RestartsDone, UndoReleaseSourcePins, Due, UndoLabels
<1> QED
  BY <1>1, <1>2 DEF History

\* No target is started before VERIFY is complete.
LEMMA TargetsDownStep ==
  ASSUME IInv, History, Ordered, TargetsDown, Next
  PROVE  TargetsDown'
<1> USE DEF Goto, GotoAt, Raise, End, worldVars, targetVars, processVars
<1> SUFFICES ASSUME Forward', ~Done("verify")'
             PROVE  \A r \in Resources : tgt'[r] \in {"absent", "stopped"}
  BY DEF TargetsDown
<1>d. /\ \A r \in Resources : tgt[r] \in {"absent", "stopped"}
      /\ Stages /\ LabelFitsState /\ WorldTypeOK /\ ~Done("verify") /\ ~Compensation
  BY DoneStep, NotUndoing, OrderedStages DEF TargetsDown, IInv, Shape, TypeOK, ProcessTypeOK
<1>a. ASSUME UNCHANGED tgt
      PROVE  \A r \in Resources : tgt'[r] \in {"absent", "stopped"}
  BY <1>a, <1>d
<1>1. CASE Command
  BY <1>1, <1>a DEF Command, RunMigration, ResumeMigration, RollbackMigration,
     UnpinMigration, Begin
<1>2. CASE Crash
  BY <1>2, <1>a DEF Crash
<1>3. CASE Saga
  BY <1>3, <1>a DEF Saga, SkipState, EnterState, CompleteState, Finish, Block, StepRaises,
     StepFailed, ReadOnlyStep, Advance
<1>4. CASE CreateTargetStep
  BY <1>4, <1>d DEF CreateTargetStep, NothingToUndo, UndoInterruptedAttempt, CreateResource,
     JournalTarget, CreateDone, CreateFails, UndoPartialCreate, RemoveTargets, WorldTypeOK
<1>5. CASE QuiesceStep
  BY <1>5, <1>a DEF QuiesceStep, PinSource, MarkStop, RequestStop, StopsRequested, Quiesced
<1>6. CASE CopyStep
  BY <1>6, <1>a DEF CopyStep, Discover, CreateVolumes, PinTarget, CopyOne, AllCopied,
     StillStopped
<1>7. CASE StartTargetStep
  <2>1. CASE StartTarget
    BY <2>1, <1>d DEF StartTarget, Stages, LabelFitsState, SagaLabels
  <2>2. CASE AllStarted
    BY <2>2, <1>a DEF AllStarted
  <2> QED
    BY <1>7, <2>1, <2>2 DEF StartTargetStep
<1>8. CASE FinalizeStep
  BY <1>8, <1>a DEF FinalizeStep, JournalPolicy, UnpinTarget, ReleaseForDelete, SkipDeleted,
     DeleteSource, JournalDeleted, DeleteFails, AllDeleted, RenameSources, UnpinSource
<1>9. CASE Rollback
  BY <1>9, <1>a DEF Rollback, RefuseIfIrreversible, Irrefusable, RefuseIfUnsafe,
     GuardPasses, GuardPins, NothingOwed, StartRollback, EndRollback, Refuse
<1>10. CASE Compensation
  BY <1>10, <1>d
<1>11. CASE Environment
  <2>1. PICK r \in Resources :
           \/ StopLands(r) \/ SourceUp(r) \/ SourceDeployFails(r) \/ TargetUp(r)
           \/ TargetDown(r) \/ PruneSource(r) \/ PruneTarget(r)
           \/ DeleteKeptSource(r) \/ RestartKeptSource(r) \/ StartSourceByHand(r)
    BY <1>11 DEF Environment
  <2>2. CASE TargetUp(r) \/ TargetDown(r)
    BY <2>2, <1>d DEF TargetUp, TargetDown
  <2>3. CASE \/ StopLands(r) \/ SourceUp(r) \/ SourceDeployFails(r)
             \/ PruneSource(r) \/ PruneTarget(r)
             \/ DeleteKeptSource(r) \/ RestartKeptSource(r) \/ StartSourceByHand(r)
    BY <2>3, <1>a DEF StopLands, SourceUp, SourceDeployFails, PruneSource, PruneTarget,
       DeleteKeptSource, RestartKeptSource, StartSourceByHand
  <2> QED
    BY <2>1, <2>2, <2>3
<1> QED
  BY <1>1, <1>2, <1>3, <1>4, <1>5, <1>6, <1>7, <1>8, <1>9, <1>10, <1>11 DEF Next, Process

\* Where the process is at COPY or behind it ...
AtCopy == pc \in {"copy", "copy_check"} \/ (pc = "complete" /\ idx = 7) \/ Done("copy")

\* ... it came there by the step that pins the target's volumes.
LEMMA ToCopy ==
  ASSUME IInv, Next, AtCopy'
  PROVE  AtCopy \/ PinTarget
<1> USE DEF Goto, GotoAt, Raise, End, worldVars, processVars
<1>d. Done("copy")' <=> Done("copy") \/ (CompleteState /\ idx = 7)
  BY DoneStep DEF IInv
<1>1. CASE Done("copy")'
  BY <1>1, <1>d DEF AtCopy, CompleteState
<1>2. CASE pc' = "complete" /\ idx' = 7
  BY <1>2, ToComplete DEF AtCopy, IInv, FinalizeLabels
<1>3. CASE pc' \in {"copy", "copy_check"}
  <2> SUFFICES ASSUME pc \notin {"copy", "copy_check"}
               PROVE  PinTarget
    BY DEF AtCopy
  <2>1. CASE Command
    BY <1>3, <2>1 DEF Command, RunMigration, ResumeMigration, RollbackMigration,
       UnpinMigration, Begin
  <2>2. CASE Crash
    BY <1>3, <2>2 DEF Crash
  <2>3. CASE Saga
    <3>1. CASE EnterState
      BY <1>3, <3>1, EntryFacts DEF EnterState, State, IInv, Shape, TypeOK, ProcessTypeOK
    <3>2. CASE \/ SkipState \/ CompleteState \/ Finish \/ Block \/ StepRaises \/ StepFailed
               \/ ReadOnlyStep
      BY <1>3, <3>2 DEF SkipState, CompleteState, Finish, Block, StepRaises, StepFailed,
         ReadOnlyStep, Advance
    <3> QED
      BY <2>3, <3>1, <3>2 DEF Saga
  <2>4. CASE CreateTargetStep
    BY <1>3, <2>4 DEF CreateTargetStep, NothingToUndo, UndoInterruptedAttempt,
       CreateResource, JournalTarget, CreateDone, CreateFails, UndoPartialCreate
  <2>5. CASE QuiesceStep
    BY <1>3, <2>5 DEF QuiesceStep, PinSource, MarkStop, RequestStop, StopsRequested,
       Quiesced
  <2>6. CASE CopyStep
    BY <1>3, <2>6 DEF CopyStep, Discover, CreateVolumes, PinTarget, CopyOne, AllCopied,
       StillStopped
  <2>7. CASE StartTargetStep
    BY <1>3, <2>7 DEF StartTargetStep, StartTarget, AllStarted
  <2>8. CASE FinalizeStep
    BY <1>3, <2>8 DEF FinalizeStep, JournalPolicy, UnpinTarget, ReleaseForDelete,
       SkipDeleted, DeleteSource, JournalDeleted, DeleteFails, AllDeleted, RenameSources,
       UnpinSource
  <2>9. CASE Rollback
    BY <1>3, <2>9 DEF Rollback, RefuseIfIrreversible, Irrefusable, RefuseIfUnsafe,
       GuardPasses, GuardPins, NothingOwed, StartRollback, EndRollback, Refuse
  <2>10. CASE Compensation
    BY <1>3, <2>10 DEF Compensation, UndoElsewhere, CompensationFails, UndoStartTarget,
       UndoCopy, UndoCreateTarget, UndoQuiesce, AlreadyRestarted, RestartSource,
       JournalRestart, RestartFails, RestartsDone, UndoReleaseSourcePins, Due, Ran,
       RanAndFailed
  <2>11. CASE Environment
    BY <1>3, <2>11 DEF Environment, StopLands, SourceUp, SourceDeployFails, TargetUp,
       TargetDown, PruneSource, PruneTarget, DeleteKeptSource, RestartKeptSource,
       StartSourceByHand
  <2> QED
    BY <2>1, <2>2, <2>3, <2>4, <2>5, <2>6, <2>7, <2>8, <2>9, <2>10, <2>11 DEF Next, Process
<1> QED
  BY <1>1, <1>2, <1>3 DEF AtCopy

\* From COPY's pins to the end of VERIFY no volume of the target is without one.
LEMMA CopyPinnedStep ==
  ASSUME IInv, History, Ordered, PairsKnown, FinalizeIsLate, NothingDone, TargetsDown,
         CopyPinned, Next
  PROVE  CopyPinned'
<1> USE DEF Goto, GotoAt, Raise, End, worldVars, targetVars, processVars
<1> SUFFICES ASSUME Forward', ~Done("verify")', AtCopy'
             PROVE  \A r \in Resources : tgtVol'[r] # "none" => r \in tgtPins'
  BY DEF CopyPinned, AtCopy
<1>d. /\ Stages /\ LabelFitsState /\ WorldTypeOK /\ ~Done("verify") /\ ~Compensation /\ Forward
      /\ \A r \in Resources : tgt[r] \in {"absent", "stopped"}
      /\ AtCopy => \A r \in Resources : tgtVol[r] # "none" => r \in tgtPins
      /\ AtCopy \/ PinTarget
  BY DoneStep, NotUndoing, ToCopy, OrderedStages DEF TargetsDown, CopyPinned, AtCopy, IInv,
     Shape, TypeOK, ProcessTypeOK
<1>e. CASE PinTarget
  <2>1. journal.pairs = Resources
    BY <1>d, <1>e DEF PinTarget, PairsKnown, Stages, LabelFitsState, CopyLabels, SagaLabels
  <2> QED
    BY <1>e, <2>1 DEF PinTarget
<1>f. CASE AtCopy /\ ~PinTarget
  <2>0. pc \in {"copy", "copy_check", "complete"} \/ Done("copy")
    BY <1>f DEF AtCopy
  <2>a. ASSUME UNCHANGED << tgtVol, tgtPins >>
        PROVE  \A r \in Resources : tgtVol'[r] # "none" => r \in tgtPins'
    BY <1>d, <1>f, <2>a
  <2>1. CASE Command
    <3>1. CASE UnpinMigration
      <4>1. journal.policy = NoState
        BY <1>d DEF FinalizeIsLate, Stages
      <4>2. ~Done("create_target") /\ pc = "idle"
        BY <1>d, <3>1, <4>1 DEF UnpinMigration, NothingDone
      <4> QED
        BY <1>d, <2>0, <4>2 DEF Stages
    <3>2. CASE RunMigration \/ ResumeMigration \/ RollbackMigration
      BY <3>2, <2>a DEF RunMigration, ResumeMigration, RollbackMigration, Begin
    <3> QED
      BY <2>1, <3>1, <3>2 DEF Command
  <2>2. CASE Crash
    BY <2>2, <2>a DEF Crash
  <2>3. CASE Saga
    BY <2>3, <2>a DEF Saga, SkipState, EnterState, CompleteState, Finish, Block, StepRaises,
       StepFailed, ReadOnlyStep, Advance
  <2>4. CASE CreateTargetStep
    <3>1. pc \in CreateLabels
      BY <2>4 DEF CreateTargetStep, NothingToUndo, UndoInterruptedAttempt, CreateResource,
         JournalTarget, CreateDone, CreateFails, UndoPartialCreate, CreateLabels
    <3> QED
      BY <1>d, <2>0, <3>1 DEF LabelFitsState, Stages, Inside, SagaLabels, CreateLabels
  <2>5. CASE QuiesceStep
    BY <2>5, <2>a DEF QuiesceStep, PinSource, MarkStop, RequestStop, StopsRequested,
       Quiesced
  <2>6. CASE CopyStep
    <3>1. CASE CreateVolumes
      BY <1>d, <2>0, <3>1 DEF CreateVolumes, LabelFitsState, Stages, Inside, SagaLabels,
         CopyLabels
    <3>2. CASE PinTarget
      BY <1>f, <3>2
    <3>3. CASE CopyOne
      BY <1>d, <1>f, <3>3 DEF CopyOne, WorldTypeOK
    <3>4. CASE Discover \/ AllCopied \/ StillStopped
      BY <3>4, <2>a DEF Discover, AllCopied, StillStopped
    <3> QED
      BY <2>6, <3>1, <3>2, <3>3, <3>4 DEF CopyStep
  <2>7. CASE StartTargetStep
    BY <2>7, <2>a DEF StartTargetStep, StartTarget, AllStarted
  <2>8. CASE FinalizeStep
    <3>1. CASE UnpinTarget
      BY <1>d, <3>1 DEF UnpinTarget, LabelFitsState, Stages, SagaLabels, FinalizeLabels
    <3>2. CASE JournalPolicy \/ ReleaseForDelete \/ SkipDeleted \/ DeleteSource
            \/ JournalDeleted \/ DeleteFails \/ AllDeleted \/ RenameSources \/ UnpinSource
      BY <3>2, <2>a DEF JournalPolicy, ReleaseForDelete, SkipDeleted, DeleteSource,
         JournalDeleted, DeleteFails, AllDeleted, RenameSources, UnpinSource
    <3> QED
      BY <2>8, <3>1, <3>2 DEF FinalizeStep
  <2>9. CASE Rollback
    BY <2>9, <2>a DEF Rollback, RefuseIfIrreversible, Irrefusable, RefuseIfUnsafe,
       GuardPasses, GuardPins, NothingOwed, StartRollback, EndRollback, Refuse
  <2>10. CASE Compensation
    BY <2>10, <1>d
  <2>11. CASE Environment
    <3>1. PICK r \in Resources :
             \/ StopLands(r) \/ SourceUp(r) \/ SourceDeployFails(r) \/ TargetUp(r)
             \/ TargetDown(r) \/ PruneSource(r) \/ PruneTarget(r)
             \/ DeleteKeptSource(r) \/ RestartKeptSource(r) \/ StartSourceByHand(r)
      BY <2>11 DEF Environment
    <3>2. CASE TargetUp(r) \/ TargetDown(r)
      BY <1>d, <3>2 DEF TargetUp, TargetDown
    <3>3. CASE PruneTarget(r)
      BY <1>d, <1>f, <3>3 DEF PruneTarget, WorldTypeOK
    <3>9. CASE \/ StopLands(r) \/ SourceUp(r) \/ SourceDeployFails(r) \/ PruneSource(r)
               \/ DeleteKeptSource(r) \/ RestartKeptSource(r) \/ StartSourceByHand(r)
      BY <3>9, <2>a DEF StopLands, SourceUp, SourceDeployFails, PruneSource,
         DeleteKeptSource, RestartKeptSource, StartSourceByHand
    <3> QED
      BY <3>1, <3>2, <3>3, <3>9
  <2> QED
    BY <2>1, <2>2, <2>3, <2>4, <2>5, <2>6, <2>7, <2>8, <2>9, <2>10, <2>11 DEF Next, Process
<1> QED
  BY <1>d, <1>e, <1>f

\* Where the target is known to hold the copy, and where it is known to run on it.
AtVerified == Done("verify") \/ (pc = "complete" /\ idx = 8)
AtServed == Done("healthcheck") \/ (pc = "complete" /\ idx = 11)

\* It is known there once the step has looked.
LEMMA ToKnown ==
  ASSUME IInv, Next
  PROVE  /\ AtVerified' => AtVerified \/ (ReadOnlyStep /\ idx = 8 /\ LooksRight("verify"))
         /\ AtServed' => AtServed \/ (ReadOnlyStep /\ idx = 11 /\ LooksRight("healthcheck"))
<1>1. ASSUME AtVerified', ~AtVerified
      PROVE  ReadOnlyStep /\ idx = 8 /\ LooksRight("verify")
  <2>1. pc' = "complete" /\ idx' = 8
    BY <1>1, DoneStep DEF AtVerified, IInv, CompleteState
  <2>2. ReadOnlyStep /\ idx = 8
    BY <1>1, <2>1, ToComplete DEF AtVerified, IInv
  <2> QED
    BY <2>2, Numbers DEF ReadOnlyStep, State
<1>2. ASSUME AtServed', ~AtServed
      PROVE  ReadOnlyStep /\ idx = 11 /\ LooksRight("healthcheck")
  <2>1. pc' = "complete" /\ idx' = 11
    BY <1>2, DoneStep DEF AtServed, IInv, CompleteState
  <2>2. ReadOnlyStep /\ idx = 11
    BY <1>2, <2>1, ToComplete DEF AtServed, IInv
  <2> QED
    BY <2>2, Numbers DEF ReadOnlyStep, State
<1> QED
  BY <1>1, <1>2

\* From VERIFY to HEALTHCHECK nothing writes to the copy but the target itself,
\* and nothing drops it.
LEMMA VerifiedStep ==
  ASSUME IInv, History, Ordered, PairsKnown, FinalizeIsLate, NothingDone, TargetsDown,
         CopyPinned, Verified, Next
  PROVE  Verified'
<1> USE DEF Goto, GotoAt, Raise, End, worldVars, targetVars, processVars
<1> DEFINE Good == \A r \in Resources : /\ tgtVol[r] \in {"copy", "live"} /\ r \in tgtPins
                                        /\ tgt[r] = "running" => tgtVol[r] = "live"
<1> SUFFICES ASSUME Forward', ~Done("healthcheck")', AtVerified'
             PROVE  Good'
  BY DEF Verified, AtVerified
<1>d. /\ Stages /\ LabelFitsState /\ WorldTypeOK
      /\ ~Done("healthcheck") /\ ~Compensation /\ Forward
      /\ AtVerified => Good
      /\ AtVerified \/ (ReadOnlyStep /\ idx = 8 /\ LooksRight("verify"))
  BY DoneStep, NotUndoing, ToKnown, OrderedStages DEF Verified, AtVerified, IInv, Shape,
     TypeOK, ProcessTypeOK
<1>e. CASE ReadOnlyStep /\ idx = 8 /\ LooksRight("verify")
  <2>1. pc = "work" /\ Done("discover") /\ Done("copy") /\ ~Done("verify")
    BY <1>d, <1>e DEF ReadOnlyStep, Stages, Inside, SagaLabels
  <2>2. journal.pairs = Resources /\ \A r \in Resources : tgt[r] \in {"absent", "stopped"}
    BY <1>d, <2>1 DEF PairsKnown, TargetsDown
  <2>3. \A r \in Resources : tgtVol[r] = "copy"
    BY <1>e, <2>2 DEF LooksRight
  <2>4. \A r \in Resources : r \in tgtPins
    BY <1>d, <2>1, <2>3 DEF CopyPinned
  <2> QED
    BY <1>e, <2>2, <2>3, <2>4 DEF ReadOnlyStep
<1>f. CASE AtVerified
  <2>0. pc = "complete" \/ Done("verify")
    BY <1>f DEF AtVerified
  <2>a. ASSUME UNCHANGED << tgt, tgtVol, tgtPins >>
        PROVE  Good'
    BY <1>d, <1>f, <2>a
  <2>1. CASE Command
    <3>1. CASE UnpinMigration
      <4>1. journal.policy = NoState
        BY <1>d DEF FinalizeIsLate
      <4>2. ~Done("create_target") /\ pc = "idle"
        BY <1>d, <3>1, <4>1 DEF UnpinMigration, NothingDone
      <4> QED
        BY <1>d, <2>0, <4>2 DEF Stages
    <3>2. CASE RunMigration \/ ResumeMigration \/ RollbackMigration
      BY <3>2, <2>a DEF RunMigration, ResumeMigration, RollbackMigration, Begin
    <3> QED
      BY <2>1, <3>1, <3>2 DEF Command
  <2>2. CASE Crash
    BY <2>2, <2>a DEF Crash
  <2>3. CASE Saga
    BY <2>3, <2>a DEF Saga, SkipState, EnterState, CompleteState, Finish, Block, StepRaises,
       StepFailed, ReadOnlyStep, Advance
  <2>4. CASE CreateTargetStep
    <3>1. pc \in CreateLabels
      BY <2>4 DEF CreateTargetStep, NothingToUndo, UndoInterruptedAttempt, CreateResource,
         JournalTarget, CreateDone, CreateFails, UndoPartialCreate, CreateLabels
    <3> QED
      BY <1>d, <2>0, <3>1 DEF LabelFitsState, Stages, Inside, SagaLabels, CreateLabels
  <2>5. CASE QuiesceStep
    BY <2>5, <2>a DEF QuiesceStep, PinSource, MarkStop, RequestStop, StopsRequested,
       Quiesced
  <2>6. CASE CopyStep
    <3>1. pc \in CopyLabels \/ Discover
      BY <2>6 DEF CopyStep, CreateVolumes, PinTarget, CopyOne, AllCopied, StillStopped,
         CopyLabels
    <3>2. CASE pc \in CopyLabels
      BY <1>d, <2>0, <3>2 DEF LabelFitsState, Stages, Inside, SagaLabels, CopyLabels
    <3>3. CASE Discover
      BY <2>a, <3>3 DEF Discover
    <3> QED
      BY <3>1, <3>2, <3>3
  <2>7. CASE StartTargetStep
    <3>1. CASE StartTarget
      <4>1. /\ tgtVol' = tgtVol /\ tgtPins' = tgtPins
            /\ \A r \in Resources : tgt'[r] = "running" => tgt[r] = "running"
        BY <1>d, <3>1 DEF StartTarget, WorldTypeOK
      <4> QED
        BY <1>d, <1>f, <4>1
    <3>2. CASE AllStarted
      BY <3>2, <2>a DEF AllStarted
    <3> QED
      BY <2>7, <3>1, <3>2 DEF StartTargetStep
  <2>8. CASE FinalizeStep
    <3>1. CASE UnpinTarget
      BY <1>d, <3>1 DEF UnpinTarget, LabelFitsState, Stages, SagaLabels, FinalizeLabels
    <3>2. CASE JournalPolicy \/ ReleaseForDelete \/ SkipDeleted \/ DeleteSource
            \/ JournalDeleted \/ DeleteFails \/ AllDeleted \/ RenameSources \/ UnpinSource
      BY <3>2, <2>a DEF JournalPolicy, ReleaseForDelete, SkipDeleted, DeleteSource,
         JournalDeleted, DeleteFails, AllDeleted, RenameSources, UnpinSource
    <3> QED
      BY <2>8, <3>1, <3>2 DEF FinalizeStep
  <2>9. CASE Rollback
    BY <2>9, <2>a DEF Rollback, RefuseIfIrreversible, Irrefusable, RefuseIfUnsafe,
       GuardPasses, GuardPins, NothingOwed, StartRollback, EndRollback, Refuse
  <2>10. CASE Compensation
    BY <2>10, <1>d
  <2>11. CASE Environment
    <3>1. PICK r \in Resources :
             \/ StopLands(r) \/ SourceUp(r) \/ SourceDeployFails(r) \/ TargetUp(r)
             \/ TargetDown(r) \/ PruneSource(r) \/ PruneTarget(r)
             \/ DeleteKeptSource(r) \/ RestartKeptSource(r) \/ StartSourceByHand(r)
      BY <2>11 DEF Environment
    <3>2. CASE TargetUp(r)
      <4>1. /\ tgtPins' = tgtPins
            /\ \A q \in Resources \ {r} : tgt'[q] = tgt[q] /\ tgtVol'[q] = tgtVol[q]
            /\ tgtVol[r] \in {"copy", "live"} => tgtVol'[r] = "live"
        BY <1>d, <3>2 DEF TargetUp, WorldTypeOK
      <4> QED
        BY <1>d, <1>f, <4>1
    <3>3. CASE TargetDown(r)
      BY <1>d, <1>f, <3>3 DEF TargetDown, WorldTypeOK
    <3>4. CASE PruneTarget(r)
      BY <1>d, <1>f, <3>4 DEF PruneTarget
    <3>9. CASE \/ StopLands(r) \/ SourceUp(r) \/ SourceDeployFails(r) \/ PruneSource(r)
               \/ DeleteKeptSource(r) \/ RestartKeptSource(r) \/ StartSourceByHand(r)
      BY <3>9, <2>a DEF StopLands, SourceUp, SourceDeployFails, PruneSource,
         DeleteKeptSource, RestartKeptSource, StartSourceByHand
    <3> QED
      BY <3>1, <3>2, <3>3, <3>4, <3>9
  <2> QED
    BY <2>1, <2>2, <2>3, <2>4, <2>5, <2>6, <2>7, <2>8, <2>9, <2>10, <2>11 DEF Next, Process
<1> QED
  BY <1>d, <1>e, <1>f

\* From HEALTHCHECK on the target runs on the copy, until something is undone.
LEMMA ServedStep ==
  ASSUME IInv, History, Ordered, FinalizeIsLate, Verified, Served, Next
  PROVE  Served'
<1> USE DEF Goto, GotoAt, Raise, End, worldVars, targetVars, processVars
<1> DEFINE Good == \A r \in Resources : tgt[r] = "running" /\ tgtVol[r] = "live"
<1> SUFFICES ASSUME Forward', AtServed'
             PROVE  Good'
  BY DEF Served, AtServed
<1>d. /\ Stages /\ LabelFitsState /\ WorldTypeOK /\ ~Compensation /\ Forward
      /\ AtServed => Good
      /\ AtServed \/ (ReadOnlyStep /\ idx = 11 /\ LooksRight("healthcheck"))
  BY NotUndoing, ToKnown, OrderedStages DEF Served, AtServed, IInv, Shape, TypeOK,
     ProcessTypeOK
<1>e. CASE ReadOnlyStep /\ idx = 11 /\ LooksRight("healthcheck")
  <2>1. pc = "work" /\ Done("verify") /\ ~Done("healthcheck")
    BY <1>d, <1>e DEF ReadOnlyStep, Stages, Inside, SagaLabels
  <2>2. \A r \in Resources : tgt[r] = "running" => tgtVol[r] = "live"
    BY <1>d, <2>1 DEF Verified
  <2>3. \A r \in Resources : tgt[r] = "running"
    BY <1>e DEF LooksRight
  <2> QED
    BY <1>e, <2>2, <2>3 DEF ReadOnlyStep
<1>f. CASE AtServed
  <2>0. pc = "complete" \/ Done("healthcheck")
    BY <1>f DEF AtServed
  <2>a. ASSUME UNCHANGED << tgt, tgtVol >>
        PROVE  Good'
    BY <1>d, <1>f, <2>a
  <2>1. CASE Command
    BY <2>1, <2>a DEF Command, RunMigration, ResumeMigration, RollbackMigration,
       UnpinMigration, Begin
  <2>2. CASE Crash
    BY <2>2, <2>a DEF Crash
  <2>3. CASE Saga
    BY <2>3, <2>a DEF Saga, SkipState, EnterState, CompleteState, Finish, Block, StepRaises,
       StepFailed, ReadOnlyStep, Advance
  <2>4. CASE CreateTargetStep
    <3>1. pc \in CreateLabels
      BY <2>4 DEF CreateTargetStep, NothingToUndo, UndoInterruptedAttempt, CreateResource,
         JournalTarget, CreateDone, CreateFails, UndoPartialCreate, CreateLabels
    <3> QED
      BY <1>d, <2>0, <3>1 DEF LabelFitsState, Stages, Inside, SagaLabels, CreateLabels
  <2>5. CASE QuiesceStep
    BY <2>5, <2>a DEF QuiesceStep, PinSource, MarkStop, RequestStop, StopsRequested,
       Quiesced
  <2>6. CASE CopyStep
    <3>1. pc \in CopyLabels \/ Discover
      BY <2>6 DEF CopyStep, CreateVolumes, PinTarget, CopyOne, AllCopied, StillStopped,
         CopyLabels
    <3>2. CASE pc \in CopyLabels
      BY <1>d, <2>0, <3>2 DEF LabelFitsState, Stages, Inside, SagaLabels, CopyLabels
    <3>3. CASE Discover
      BY <2>a, <3>3 DEF Discover
    <3> QED
      BY <3>1, <3>2, <3>3
  <2>7. CASE StartTargetStep
    <3>1. CASE StartTarget
      <4>1. tgtVol' = tgtVol /\ \A r \in Resources : tgt[r] = "running" => tgt'[r] = "running"
        BY <1>d, <3>1 DEF StartTarget, WorldTypeOK
      <4> QED
        BY <1>d, <1>f, <4>1
    <3>2. CASE AllStarted
      BY <3>2, <2>a DEF AllStarted
    <3> QED
      BY <2>7, <3>1, <3>2 DEF StartTargetStep
  <2>8. CASE FinalizeStep
    BY <2>8, <2>a DEF FinalizeStep, JournalPolicy, UnpinTarget, ReleaseForDelete,
       SkipDeleted, DeleteSource, JournalDeleted, DeleteFails, AllDeleted, RenameSources,
       UnpinSource
  <2>9. CASE Rollback
    BY <2>9, <2>a DEF Rollback, RefuseIfIrreversible, Irrefusable, RefuseIfUnsafe,
       GuardPasses, GuardPins, NothingOwed, StartRollback, EndRollback, Refuse
  <2>10. CASE Compensation
    BY <2>10, <1>d
  <2>11. CASE Environment
    <3>1. PICK r \in Resources :
             \/ StopLands(r) \/ SourceUp(r) \/ SourceDeployFails(r) \/ TargetUp(r)
             \/ TargetDown(r) \/ PruneSource(r) \/ PruneTarget(r)
             \/ DeleteKeptSource(r) \/ RestartKeptSource(r) \/ StartSourceByHand(r)
      BY <2>11 DEF Environment
    <3>2. CASE TargetUp(r) \/ TargetDown(r)
      BY <1>d, <1>f, <3>2 DEF TargetUp, TargetDown
    <3>3. CASE PruneTarget(r)
      BY <1>d, <1>f, <3>3 DEF PruneTarget
    <3>9. CASE \/ StopLands(r) \/ SourceUp(r) \/ SourceDeployFails(r) \/ PruneSource(r)
               \/ DeleteKeptSource(r) \/ RestartKeptSource(r) \/ StartSourceByHand(r)
      BY <3>9, <2>a DEF StopLands, SourceUp, SourceDeployFails, PruneSource,
         DeleteKeptSource, RestartKeptSource, StartSourceByHand
    <3> QED
      BY <3>1, <3>2, <3>3, <3>9
  <2> QED
    BY <2>1, <2>2, <2>3, <2>4, <2>5, <2>6, <2>7, <2>8, <2>9, <2>10, <2>11 DEF Next, Process
<1> QED
  BY <1>d, <1>e, <1>f

\* The first thing a rollback journals is that it has begun.
LEMMA FirstUndo ==
  ASSUME IInv, History, Next, Forward, ~Forward'
  PROVE  StartRollback
<1> USE DEF Goto, GotoAt, Raise, End, worldVars, processVars
<1>0. journal'.undo # journal.undo /\ pc = "rb_plan"
  BY Records DEF Forward, History, IInv, UndoLabels
<1>1. CASE Command
  BY <1>1, <1>0 DEF Command, RunMigration, ResumeMigration, RollbackMigration,
     UnpinMigration, Begin
<1>2. CASE Crash
  BY <1>2, <1>0 DEF Crash
<1>3. CASE Saga
  BY <1>3, <1>0 DEF Saga, SkipState, EnterState, CompleteState, Finish, Block, StepRaises,
     StepFailed, ReadOnlyStep, MayRaise
<1>4. CASE CreateTargetStep
  BY <1>4, <1>0 DEF CreateTargetStep, NothingToUndo, UndoInterruptedAttempt, CreateResource,
     JournalTarget, CreateDone, CreateFails, UndoPartialCreate
<1>5. CASE QuiesceStep
  BY <1>5, <1>0 DEF QuiesceStep, PinSource, MarkStop, RequestStop, StopsRequested, Quiesced
<1>6. CASE CopyStep
  BY <1>6, <1>0 DEF CopyStep, Discover, CreateVolumes, PinTarget, CopyOne, AllCopied,
     StillStopped
<1>7. CASE StartTargetStep
  BY <1>7, <1>0 DEF StartTargetStep, StartTarget, AllStarted
<1>8. CASE FinalizeStep
  BY <1>8, <1>0 DEF FinalizeStep, JournalPolicy, UnpinTarget, ReleaseForDelete, SkipDeleted,
     DeleteSource, JournalDeleted, DeleteFails, AllDeleted, RenameSources, UnpinSource
<1>9. CASE Rollback
  <2>1. CASE NothingOwed
    <3>1. journal'.undo = journal.undo
      BY <2>1 DEF NothingOwed, IInv, Shape, TypeOK, Journals
    <3> QED
      BY <1>0, <3>1
  <2>2. CASE RefuseIfIrreversible \/ Irrefusable \/ RefuseIfUnsafe \/ GuardPasses
        \/ GuardPins \/ EndRollback
    BY <2>2, <1>0 DEF RefuseIfIrreversible, Irrefusable, RefuseIfUnsafe, GuardPasses,
       GuardPins, EndRollback, Refuse
  <2> QED
    BY <1>9, <2>1, <2>2 DEF Rollback
<1>10. CASE Compensation
  BY <1>10, <1>0 DEF Compensation, UndoElsewhere, CompensationFails, UndoStartTarget,
     UndoCopy, UndoCreateTarget, UndoQuiesce, AlreadyRestarted, RestartSource,
     JournalRestart, RestartFails, RestartsDone, UndoReleaseSourcePins, Due, Ran,
     RanAndFailed
<1>11. CASE Environment
  BY <1>11, <1>0 DEF Environment, StopLands, SourceUp, SourceDeployFails, TargetUp,
     TargetDown, PruneSource, PruneTarget, DeleteKeptSource, RestartKeptSource,
     StartSourceByHand
<1> QED
  BY <1>1, <1>2, <1>3, <1>4, <1>5, <1>6, <1>7, <1>8, <1>9, <1>10, <1>11 DEF Next, Process

\* A rollback of a FINALIZE that kept the source has seen every volume of it,
\* and pinned it, before it undoes anything.
LEMMA SeenStep ==
  ASSUME IInv, Ordered, PairsKnown, FinalizeIsLate, SourceKept, Next, Hazards = {},
         journal.policy \in {"keep", "rename"}
  PROVE  /\ pc' \in {"rb_pin", "rb_plan"} =>
              \A r \in Resources : src'[r] # "deleted" /\ srcVol'[r] # "gone"
         /\ pc' = "rb_plan" => srcPins' = Resources
<1> USE DEF Goto, GotoAt, Raise, End, worldVars, sourceVars, processVars
<1> DEFINE There == \A r \in Resources : src[r] # "deleted" /\ srcVol[r] # "gone"
           Goal == /\ pc' \in {"rb_pin", "rb_plan"} => There'
                   /\ pc' = "rb_plan" => srcPins' = Resources
<1> SUFFICES Goal
  OBVIOUS
<1>0. /\ pc \in {"rb_pin", "rb_plan"} => There
      /\ pc = "rb_plan" => srcPins = Resources
      /\ WorldTypeOK /\ Stages /\ journal.pairs = Resources
  BY OrderedStages DEF SourceKept, FinalizeIsLate, Stages, PairsKnown, NoState, IInv, Shape,
     TypeOK, ProcessTypeOK
<1>a. ASSUME pc' \notin {"rb_pin", "rb_plan"}
      PROVE  Goal
  BY <1>a
<1>1. CASE Command
  <2>1. CASE RunMigration \/ ResumeMigration \/ RollbackMigration
    BY <2>1, <1>a DEF RunMigration, ResumeMigration, RollbackMigration, Begin
  <2>2. CASE UnpinMigration
    BY <2>2, <1>a DEF UnpinMigration
  <2> QED
    BY <1>1, <2>1, <2>2 DEF Command
<1>2. CASE Crash
  BY <1>2, <1>a DEF Crash
<1>3. CASE Saga
  <2>1. CASE EnterState
    BY <2>1, <1>a, EntryFacts DEF EnterState, State, IInv, Shape, TypeOK, ProcessTypeOK
  <2>2. CASE SkipState \/ CompleteState \/ Finish \/ Block \/ StepRaises \/ StepFailed
        \/ ReadOnlyStep
    BY <2>2, <1>a DEF SkipState, CompleteState, Finish, Block, StepRaises, StepFailed,
       ReadOnlyStep, Advance
  <2> QED
    BY <1>3, <2>1, <2>2 DEF Saga
<1>4. CASE CreateTargetStep
  BY <1>4, <1>a DEF CreateTargetStep, NothingToUndo, UndoInterruptedAttempt, CreateResource,
     JournalTarget, CreateDone, CreateFails, UndoPartialCreate
<1>5. CASE QuiesceStep
  BY <1>5, <1>a DEF QuiesceStep, PinSource, MarkStop, RequestStop, StopsRequested, Quiesced
<1>6. CASE CopyStep
  BY <1>6, <1>a DEF CopyStep, Discover, CreateVolumes, PinTarget, CopyOne, AllCopied,
     StillStopped
<1>7. CASE StartTargetStep
  BY <1>7, <1>a DEF StartTargetStep, StartTarget, AllStarted
<1>8. CASE FinalizeStep
  BY <1>8, <1>a DEF FinalizeStep, JournalPolicy, UnpinTarget, ReleaseForDelete, SkipDeleted,
     DeleteSource, JournalDeleted, DeleteFails, AllDeleted, RenameSources, UnpinSource
<1>9. CASE Rollback
  <2>1. CASE Irrefusable
    BY <2>1, <1>a DEF Irrefusable, SourceCopyUnproven
  <2>2. CASE GuardPasses
    BY <2>2, <1>0 DEF GuardPasses, SourceStillThere
  <2>3. CASE GuardPins
    <3>1. There /\ There'
      BY <2>3, <1>0 DEF GuardPins
    <3>2. srcPins' = Resources
      BY <2>3, <1>0, <3>1 DEF GuardPins, Pinned, WorldTypeOK
    <3> QED
      BY <3>1, <3>2
  <2>4. CASE RefuseIfIrreversible \/ RefuseIfUnsafe \/ NothingOwed \/ StartRollback
        \/ EndRollback
    BY <2>4, <1>a DEF RefuseIfIrreversible, RefuseIfUnsafe, NothingOwed, StartRollback,
       EndRollback, Refuse
  <2> QED
    BY <1>9, <2>1, <2>2, <2>3, <2>4 DEF Rollback
<1>10. CASE Compensation
  BY <1>10, <1>a DEF Compensation, UndoElsewhere, CompensationFails, UndoStartTarget,
     UndoCopy, UndoCreateTarget, UndoQuiesce, AlreadyRestarted, RestartSource,
     JournalRestart, RestartFails, RestartsDone, UndoReleaseSourcePins, Due, Ran,
     RanAndFailed
<1>11. CASE Environment
  <2>1. PICK r \in Resources :
           \/ StopLands(r) \/ SourceUp(r) \/ SourceDeployFails(r) \/ TargetUp(r)
           \/ TargetDown(r) \/ PruneSource(r) \/ PruneTarget(r)
           \/ DeleteKeptSource(r) \/ RestartKeptSource(r) \/ StartSourceByHand(r)
    BY <1>11 DEF Environment
  <2>2. CASE PruneSource(r)
    <3>1. pc' = pc /\ srcPins' = srcPins /\ src' = src
      BY <2>2 DEF PruneSource
    <3>2. pc # "rb_pin" /\ r \notin srcPins
      BY <2>2 DEF PruneSource
    <3> QED
      BY <1>0, <1>a, <3>1, <3>2
  <2>3. CASE StopLands(r) \/ SourceUp(r) \/ SourceDeployFails(r)
    <3>1. /\ pc' = pc /\ srcPins' = srcPins
          /\ \A q \in Resources : src[q] # "deleted" => src'[q] # "deleted"
          /\ \A q \in Resources : srcVol[q] # "gone" => srcVol'[q] # "gone"
      BY <1>0, <2>3 DEF StopLands, SourceUp, SourceDeployFails, WorldTypeOK
    <3> QED
      BY <1>0, <3>1
  <2>4. CASE TargetUp(r) \/ TargetDown(r) \/ PruneTarget(r)
    BY <1>0, <2>4 DEF TargetUp, TargetDown, PruneTarget
  <2>5. CASE DeleteKeptSource(r) \/ RestartKeptSource(r) \/ StartSourceByHand(r)
    BY <2>5, <1>a DEF DeleteKeptSource, RestartKeptSource, StartSourceByHand
  <2> QED
    BY <2>1, <2>2, <2>3, <2>4, <2>5
<1> QED
  BY <1>1, <1>2, <1>3, <1>4, <1>5, <1>6, <1>7, <1>8, <1>9, <1>10, <1>11 DEF Next, Process

\* FINALIZE's policy is written by JournalPolicy.
LEMMA FinalizeOnly ==
  ASSUME Next, pc = "finalize_policy", journal'.policy # journal.policy
  PROVE  JournalPolicy
<1> USE DEF Goto, GotoAt, Raise, End, worldVars, processVars
<1>1. CASE Command
  BY <1>1 DEF Command, RunMigration, ResumeMigration, RollbackMigration, UnpinMigration,
     Begin
<1>2. CASE Crash
  BY <1>2 DEF Crash
<1>3. CASE Saga
  BY <1>3 DEF Saga, SkipState, EnterState, CompleteState, Finish, Block, StepRaises,
     StepFailed, ReadOnlyStep, MayRaise
<1>4. CASE CreateTargetStep
  BY <1>4 DEF CreateTargetStep, NothingToUndo, UndoInterruptedAttempt, CreateResource,
     JournalTarget, CreateDone, CreateFails, UndoPartialCreate
<1>5. CASE QuiesceStep
  BY <1>5 DEF QuiesceStep, PinSource, MarkStop, RequestStop, StopsRequested, Quiesced
<1>6. CASE CopyStep
  BY <1>6 DEF CopyStep, Discover, CreateVolumes, PinTarget, CopyOne, AllCopied, StillStopped
<1>7. CASE StartTargetStep
  BY <1>7 DEF StartTargetStep, StartTarget, AllStarted
<1>8. CASE FinalizeStep
  BY <1>8 DEF FinalizeStep, JournalPolicy, UnpinTarget, ReleaseForDelete, SkipDeleted,
     DeleteSource, JournalDeleted, DeleteFails, AllDeleted, RenameSources, UnpinSource
<1>9. CASE Rollback
  BY <1>9 DEF Rollback, RefuseIfIrreversible, Irrefusable, RefuseIfUnsafe, GuardPasses,
     GuardPins, NothingOwed, StartRollback, EndRollback, Refuse
<1>10. CASE Compensation
  BY <1>10 DEF Compensation, UndoElsewhere, CompensationFails, UndoStartTarget, UndoCopy,
     UndoCreateTarget, UndoQuiesce, AlreadyRestarted, RestartSource, JournalRestart,
     RestartFails, RestartsDone, UndoReleaseSourcePins, Due, Ran, RanAndFailed
<1>11. CASE Environment
  BY <1>11 DEF Environment, StopLands, SourceUp, SourceDeployFails, TargetUp, TargetDown,
     PruneSource, PruneTarget, DeleteKeptSource, RestartKeptSource, StartSourceByHand
<1> QED
  BY <1>1, <1>2, <1>3, <1>4, <1>5, <1>6, <1>7, <1>8, <1>9, <1>10, <1>11 DEF Next, Process

\* So it is guarded as before FINALIZE while it is rolled back, and after.
LEMMA SourceKeptStep ==
  ASSUME IInv, History, Ordered, PairsKnown, FinalizeIsLate, SourceBefore, SourceKept,
         Next, Hazards = {}
  PROVE  SourceKept'
<1> SUFFICES ASSUME journal'.policy \in {"keep", "rename"}
             PROVE  /\ pc' \in {"rb_pin", "rb_plan"} =>
                         \A r \in Resources : src'[r] # "deleted" /\ srcVol'[r] # "gone"
                    /\ pc' = "rb_plan" => srcPins' = Resources
                    /\ ~Forward' => Guarded'
  BY DEF SourceKept
<1>0. /\ journal'.policy # journal.policy => pc = "finalize_policy"
      /\ Shape /\ WorldTypeOK
  BY JournalWriters DEF IInv, Shape, TypeOK
<1>1. CASE journal'.policy # journal.policy
  <2>1. pc = "finalize_policy" /\ Forward
    BY <1>0, <1>1 DEF History, SagaLabels, FinalizeLabels
  <2>2. Forward'
    BY <2>1, FirstUndo DEF StartRollback
  <2>3. pc' \notin {"rb_pin", "rb_plan"}
    BY <1>1, <2>1, FinalizeOnly DEF JournalPolicy, Goto, GotoAt
  <2> QED
    BY <2>2, <2>3
<1>2. CASE journal'.policy = journal.policy
  <2>1. CASE ~Forward
    <3>1. Guarded /\ pc \notin FinalizeLabels /\ (pc = "idle" => outcome # "succeeded")
      BY <1>2, <2>1 DEF SourceKept, History, SagaLabels
    <3>2. Guarded'
      BY <3>1, GuardedStep
    <3> QED
      BY <1>2, <3>2, SeenStep
  <2>2. CASE Forward
    <3>1. CASE Forward'
      BY <1>2, <3>1, SeenStep
    <3>2. CASE ~Forward'
      <4>1. StartRollback
        BY <2>2, <3>2, FirstUndo
      <4>2. /\ srcPins = Resources
            /\ \A r \in Resources : src[r] # "deleted" /\ srcVol[r] = "data"
        BY <1>0, <1>2, <2>2, <4>1 DEF StartRollback, SourceKept, SourceBefore, WorldTypeOK,
           SourceVolumes
      <4>3. Guarded'
        BY <4>1, <4>2 DEF StartRollback, Guarded, worldVars, sourceVars
      <4> QED
        BY <1>2, <4>3, SeenStep
    <3> QED
      BY <3>1, <3>2
  <2> QED
    BY <2>1, <2>2
<1> QED
  BY <1>1, <1>2

-----------------------------------------------------------------------------
(***************************************************************************)
(* The invariant holds to begin with and in every step.                    *)
(***************************************************************************)
LEMMA InitIsIntact == Init => CopyInv
<1> SUFFICES ASSUME Init
             PROVE  CopyInv
  OBVIOUS
<1> USE DEF Init, EmptyJournal
<1>1. IInv
  BY InitIsFine
<1>2. History
  BY DEF History, Forward, SagaLabels, UndoLabels, CreateLabels, QuiesceLabels, CopyLabels,
     FinalizeLabels
<1>3. Ordered
  BY DEF Ordered, Done, SagaLabels, CreateLabels, QuiesceLabels, CopyLabels, FinalizeLabels
<1>4. PairsKnown /\ FinalizeIsLate /\ NothingDone
  BY DEF PairsKnown, FinalizeIsLate, NothingDone, Done, NoState, Policies
<1>5. SourceBefore /\ TargetsDown
  BY DEF SourceBefore, TargetsDown
<1>6. CopyPinned /\ Verified /\ Served
  BY DEF CopyPinned, Verified, Served, Done
<1>7. SourceKept /\ DeletedOnes
  BY DEF SourceKept, DeletedOnes, NoState
<1> QED
  BY <1>1, <1>2, <1>3, <1>4, <1>5, <1>6, <1>7 DEF CopyInv

\* A step that leaves everything alone leaves the invariant alone.
LEMMA StutterIsIntact ==
  ASSUME CopyInv, UNCHANGED vars
  PROVE  /\ History' /\ Ordered' /\ PairsKnown' /\ FinalizeIsLate' /\ NothingDone'
         /\ SourceBefore' /\ TargetsDown' /\ CopyPinned' /\ Verified' /\ Served'
         /\ SourceKept' /\ DeletedOnes'
<1> USE DEF vars, processVars, worldVars, sourceVars, targetVars, CopyInv, Done, Forward
<1>1. History' /\ Ordered'
  BY DEF History, Ordered
<1>2. PairsKnown' /\ FinalizeIsLate' /\ NothingDone'
  BY DEF PairsKnown, FinalizeIsLate, NothingDone
<1>3. SourceBefore' /\ TargetsDown' /\ CopyPinned'
  BY DEF SourceBefore, TargetsDown, CopyPinned
<1>4. Verified' /\ Served'
  BY DEF Verified, Served
<1>5. SourceKept' /\ DeletedOnes'
  BY DEF SourceKept, DeletedOnes, Guarded
<1> QED
  BY <1>1, <1>2, <1>3, <1>4, <1>5

\* Its parts hold together.
LEMMA CopyInvIsInductive ==
  ASSUME Hazards = {}
  PROVE  CopyInv /\ [Next]_vars => CopyInv'
<1> SUFFICES ASSUME CopyInv, [Next]_vars
             PROVE  CopyInv'
  OBVIOUS
<1>0. /\ IInv /\ History /\ Ordered /\ PairsKnown /\ FinalizeIsLate /\ NothingDone
      /\ SourceBefore /\ TargetsDown /\ CopyPinned /\ Verified /\ Served
      /\ SourceKept /\ DeletedOnes
  BY DEF CopyInv
<1>1. IInv'
  BY <1>0, IInvIsInductive
<1>2. CASE Next
  <2>1. History' /\ Ordered' /\ PairsKnown' /\ FinalizeIsLate' /\ NothingDone'
    BY <1>0, <1>2, HistoryStep, OrderedStep, PairsStep, LateStep, NothingDoneStep DEF IInv
  <2>2. SourceBefore' /\ TargetsDown' /\ CopyPinned'
    BY <1>0, <1>2, SourceBeforeStep, TargetsDownStep, CopyPinnedStep
  <2>3. Verified' /\ Served'
    BY <1>0, <1>2, VerifiedStep, ServedStep
  <2>4. SourceKept' /\ DeletedOnes'
    BY <1>0, <1>2, SourceKeptStep, DeletedStep
  <2> QED
    BY <1>1, <2>1, <2>2, <2>3, <2>4 DEF CopyInv
<1>3. CASE UNCHANGED vars
  BY <1>1, <1>3, StutterIsIntact DEF CopyInv
<1> QED
  BY <1>2, <1>3

-----------------------------------------------------------------------------
(***************************************************************************)
(* At every moment one side holds the data of each resource whole: before  *)
(* FINALIZE the guarded source; from FINALIZE on the target that serves;   *)
(* and while a FINALIZE that kept the source is rolled back, the source    *)
(* again (saga.py run and _rollback, steps.py step_copy to step_finalize,  *)
(* compensations.py).  For any number of resources, crashes and commands,  *)
(* when none of the hazards is met.                                        *)
(***************************************************************************)
THEOREM SomeoneHasTheData ==
  ASSUME Hazards = {}
  PROVE  Spec => []IntactCopy
<1>1. CopyInv => IntactCopy
  <2> SUFFICES ASSUME CopyInv
               PROVE  IntactCopy
    OBVIOUS
  <2>1. CASE journal.policy = NoState
    BY <2>1 DEF CopyInv, IInv, SourceIsGuarded, Guarded, IntactCopy
  <2>2. CASE journal.policy # NoState /\ Forward
    BY <2>2 DEF CopyInv, FinalizeIsLate, Served, IntactCopy
  <2>3. CASE journal.policy # NoState /\ ~Forward
    <3>1. journal.policy \in {"keep", "rename"}
      BY <2>3 DEF CopyInv, FinalizeIsLate, IInv, Shape, TypeOK, Journals, Policies
    <3> QED
      BY <2>3, <3>1 DEF CopyInv, SourceKept, Guarded, IntactCopy
  <2> QED
    BY <2>1, <2>2, <2>3
<1> QED
  BY <1>1, InitIsIntact, CopyInvIsInductive, PTL DEF Spec

(***************************************************************************)
(* FINALIZE journals its policy, its first act, only over targets that run *)
(* on the verified copy, whatever states a resume skipped on the way       *)
(* (saga.py run, steps.py step_finalize).  When none of the hazards is met.*)
(***************************************************************************)
THEOREM FinalizeFindsALiveCopy ==
  ASSUME Hazards = {}
  PROVE  Spec => FinalizeOverLiveCopy
<1>1. ASSUME CopyInv, [Next]_vars, journal'.policy # journal.policy
      PROVE  \A r \in Resources : tgt[r] = "running" /\ tgtVol[r] = "live"
  <2>1. pc = "finalize_policy"
    BY <1>1, JournalWriters DEF vars, CopyInv, IInv
  <2>2. idx = 12 /\ Forward
    BY <1>1, <2>1 DEF CopyInv, IInv, Shape, LabelFitsState, History, SagaLabels,
       FinalizeLabels
  <2>3. Done("healthcheck")
    BY <1>1, <2>1, <2>2, OrderedStages DEF CopyInv, Stages, SagaLabels, FinalizeLabels
  <2> QED
    BY <1>1, <2>2, <2>3 DEF CopyInv, Served
<1>2. CopyInv /\ [Next]_vars =>
        [journal'.policy # journal.policy =>
           \A r \in Resources : tgt[r] = "running" /\ tgtVol[r] = "live"]_vars
  BY <1>1
<1> QED
  BY <1>2, InitIsIntact, CopyInvIsInductive, PTL DEF Spec, FinalizeOverLiveCopy

(***************************************************************************)
(* Once FINALIZE(delete) has begun, no step costs the target a volume it   *)
(* lives on: nothing of such a run is rolled back (statemachine.py         *)
(* rollback_refusal) and its containers hold what was pinned (steps.py     *)
(* _unpin_target).  When none of the hazards is met.                       *)
(***************************************************************************)
THEOREM TheOnlyCopyStays ==
  ASSUME Hazards = {}
  PROVE  Spec => TargetIsSafeOnceDeleting
<1>1. ASSUME CopyInv, CopyInv', [Next]_vars, journal.policy = "delete"
      PROVE  \A r \in Resources : tgtVol[r] = "live" => tgtVol'[r] = "live"
  <2>1. CASE Next
    <3>1. journal.policy # NoState
      BY <1>1 DEF NoState
    <3>2. Done("healthcheck")' /\ Forward'
      <4>1. Done("healthcheck")' /\ Forward
        BY <1>1, <2>1, <3>1, DoneStep DEF CopyInv, FinalizeIsLate, IInv
      <4>2. pc # "rb_plan"
        BY <1>1 DEF CopyInv, FinalizeIsLate
      <4> QED
        BY <1>1, <2>1, <4>1, <4>2, FirstUndo DEF CopyInv, StartRollback
    <3> QED
      BY <1>1, <3>2 DEF CopyInv, Served
  <2>2. CASE UNCHANGED vars
    BY <2>2 DEF vars, worldVars, targetVars
  <2> QED
    BY <1>1, <2>1, <2>2
<1>2. CopyInv /\ CopyInv' /\ [Next]_vars =>
        [journal.policy = "delete" =>
           \A r \in Resources : tgtVol[r] = "live" => tgtVol'[r] = "live"]_vars
  BY <1>1
<1> QED
  BY <1>2, InitIsIntact, CopyInvIsInductive, PTL DEF Spec, TargetIsSafeOnceDeleting

(***************************************************************************)
(* A source journalled as deleted is deleted, and its copy was verified:   *)
(* what a resumed FINALIZE(delete) skips has nothing left to lose (steps.py*)
(* step_finalize).  When none of the hazards is met.                       *)
(***************************************************************************)
THEOREM TheRecordIsNotAhead ==
  ASSUME Hazards = {}
  PROVE  Spec => []DeletedIsDeleted
<1>1. CopyInv => DeletedIsDeleted
  BY DEF CopyInv, DeletedOnes, DeletedIsDeleted, Done
<1> QED
  BY <1>1, InitIsIntact, CopyInvIsInductive, PTL DEF Spec

(***************************************************************************)
(* ROLLED_BACK over a source this run stopped: each resource serves, or is *)
(* still pinned (compensations.py undo_quiesce, undo_release_source_pins), *)
(* after a rollback of FINALIZE too.  When none of the hazards is met.     *)
(***************************************************************************)
THEOREM RolledBackIsSafe ==
  ASSUME Hazards = {}
  PROVE  Spec => []RolledBackServesOrKeepsPin
<1>1. CopyInv => RolledBackServesOrKeepsPin
  <2> SUFFICES ASSUME CopyInv, outcome = "rolled_back"
               PROVE  \A r \in Resources : src[r] = "running" \/ r \in srcPins
    BY DEF RolledBackServesOrKeepsPin
  <2>1. CASE journal.policy = NoState
    BY <2>1 DEF CopyInv, IInv, SourceIsGuarded, Guarded
  <2>2. CASE journal.policy # NoState
    <3>1. ~Forward
      BY <2>2 DEF CopyInv, NothingDone
    <3>2. journal.policy \in {"keep", "rename"}
      BY <2>2, <3>1 DEF CopyInv, FinalizeIsLate, IInv, Shape, TypeOK, Journals, Policies
    <3> QED
      BY <3>1, <3>2 DEF CopyInv, SourceKept, Guarded
  <2> QED
    BY <2>1, <2>2
<1> QED
  BY <1>1, InitIsIntact, CopyInvIsInductive, PTL DEF Spec

-----------------------------------------------------------------------------
(***************************************************************************)
(* The first run.  Until FINALIZE releases the pins they hold the whole    *)
(* source, so what FINALIZE remembers of them is the whole source too, and *)
(* a delete that fails pins again all that is left of it.                  *)
(***************************************************************************)
BeforeTheFirst ==
  commands = 0 => pc = "idle" /\ idx = 1 /\ outcome = "none" /\ journal = EmptyJournal

InFirstRun == commands = 1 /\ pc \in SagaLabels

\* QUIESCE marked its stop, nothing was restarted, and FINALIZE's policy is new.
FirstRun ==
  InFirstRun =>
    /\ journal.restarted = {}
    /\ idx > 5 => journal.stopRequested
    /\ idx < 12 \/ (idx = 12 /\ pc \in {"enter", "finalize_policy"}) => journal.policy = NoState
    /\ journal.policy \in {NoState, policy}

NoneStarting == commands = 0 \/ InFirstRun => \A r \in Resources : src[r] # "starting"

\* What FINALIZE holds on its way, pinned or in mind.
HeldWhole ==
  InFirstRun =>
    /\ pc \in {"finalize_unpin_target", "finalize_refuse"} => srcPins = Resources
    /\ pc = "finalize_rename" => policy # "delete"
    /\ pc \in {"finalize_delete", "finalize_deleted"} => held = Resources
    /\ pc = "finalize_deleted" => src[at] = "deleted"
    /\ \A r \in journal.deleted : src[r] = "deleted"

FirstInv ==
  /\ IInv
  /\ BeforeTheFirst /\ FirstRun /\ NoneStarting /\ HeldWhole
  /\ FailedDeleteLeavesPinned

\* Number five is QUIESCE.
LEMMA QuiesceIsNumberFive == Order[5] = "quiesce"
BY DEF Order

\* Who goes on in a first run, and how it begins.
LEMMA FirstSteps ==
  ASSUME Shape, BeforeTheFirst, Next
  PROVE  /\ BeforeTheFirst'
         /\ commands' = 0 => commands = 0 /\ Environment
         /\ InFirstRun' =>
              \/ RunMigration /\ commands = 0
              \/ /\ InFirstRun
                 /\ \/ Saga \/ CreateTargetStep \/ QuiesceStep \/ CopyStep
                    \/ StartTargetStep \/ FinalizeStep \/ Environment
<1> USE DEF Goto, GotoAt, Raise, End, processVars, worldVars, boundVars
<1>0. commands \in Nat
  BY NAssumption DEF Shape, TypeOK, BoundsTypeOK
<1>1. CASE RunMigration
  BY <1>0, <1>1 DEF RunMigration, Begin, BeforeTheFirst, InFirstRun
<1>2. CASE ResumeMigration \/ RollbackMigration \/ UnpinMigration
  <2>1. journal.started /\ commands' = commands + 1
    BY <1>2 DEF ResumeMigration, RollbackMigration, UnpinMigration, Begin
  <2>2. commands # 0
    BY <2>1 DEF BeforeTheFirst, EmptyJournal
  <2> QED
    BY <1>0, <2>1, <2>2 DEF BeforeTheFirst, InFirstRun
<1>3. CASE Crash
  BY <1>3 DEF Crash, BeforeTheFirst, InFirstRun, SagaLabels, CreateLabels, QuiesceLabels,
     CopyLabels, FinalizeLabels
<1>4. CASE Rollback \/ Compensation
  <2>1. pc # "idle" /\ pc' \notin SagaLabels
    BY <1>4 DEF Rollback, RefuseIfIrreversible, Irrefusable, RefuseIfUnsafe, GuardPasses,
       GuardPins, NothingOwed, StartRollback, EndRollback, Refuse, Compensation,
       UndoElsewhere, CompensationFails, UndoStartTarget, UndoCopy, UndoCreateTarget,
       UndoQuiesce, AlreadyRestarted, RestartSource, JournalRestart, RestartFails,
       RestartsDone, UndoReleaseSourcePins, Due, Ran, RanAndFailed, SagaLabels, CreateLabels,
       QuiesceLabels, CopyLabels, FinalizeLabels
  <2>2. UNCHANGED commands
    BY <1>4 DEF Rollback, RefuseIfIrreversible, Irrefusable, RefuseIfUnsafe, GuardPasses,
       GuardPins, NothingOwed, StartRollback, EndRollback, Refuse, Compensation,
       UndoElsewhere, CompensationFails, UndoStartTarget, UndoCopy, UndoCreateTarget,
       UndoQuiesce, AlreadyRestarted, RestartSource, JournalRestart, RestartFails,
       RestartsDone, UndoReleaseSourcePins
  <2> QED
    BY <2>1, <2>2 DEF BeforeTheFirst, InFirstRun
<1>5. CASE Saga \/ CreateTargetStep \/ QuiesceStep \/ CopyStep \/ StartTargetStep \/ FinalizeStep
  <2>1. pc \in SagaLabels
    BY <1>5 DEF Saga, SkipState, EnterState, CompleteState, Finish, Block, StepRaises,
       StepFailed, ReadOnlyStep, MayRaise, CreateTargetStep, NothingToUndo,
       UndoInterruptedAttempt, CreateResource, JournalTarget, CreateDone, CreateFails,
       UndoPartialCreate, QuiesceStep, PinSource, MarkStop, RequestStop, StopsRequested,
       Quiesced, CopyStep, Discover, CreateVolumes, PinTarget, CopyOne, AllCopied,
       StillStopped, StartTargetStep, StartTarget, AllStarted, FinalizeStep, JournalPolicy,
       UnpinTarget, ReleaseForDelete, SkipDeleted, DeleteSource, JournalDeleted, DeleteFails,
       AllDeleted, RenameSources, UnpinSource, SagaLabels, CreateLabels, QuiesceLabels,
       CopyLabels, FinalizeLabels
  <2>2. pc # "idle"
    BY <2>1 DEF SagaLabels, CreateLabels, QuiesceLabels, CopyLabels, FinalizeLabels
  <2>3. UNCHANGED commands
    BY <1>5 DEF Saga, SkipState, EnterState, CompleteState, Finish, Block, StepRaises,
       StepFailed, ReadOnlyStep, CreateTargetStep, NothingToUndo,
       UndoInterruptedAttempt, CreateResource, JournalTarget, CreateDone, CreateFails,
       UndoPartialCreate, QuiesceStep, PinSource, MarkStop, RequestStop, StopsRequested,
       Quiesced, CopyStep, Discover, CreateVolumes, PinTarget, CopyOne, AllCopied,
       StillStopped, StartTargetStep, StartTarget, AllStarted, FinalizeStep, JournalPolicy,
       UnpinTarget, ReleaseForDelete, SkipDeleted, DeleteSource, JournalDeleted, DeleteFails,
       AllDeleted, RenameSources, UnpinSource
  <2> QED
    BY <1>5, <2>1, <2>2, <2>3 DEF BeforeTheFirst, InFirstRun
<1>6. CASE Environment
  <2>1. UNCHANGED << pc, idx, outcome, journal, commands >>
    BY <1>6 DEF Environment, StopLands, SourceUp, SourceDeployFails, TargetUp,
       TargetDown, PruneSource, PruneTarget, DeleteKeptSource, RestartKeptSource,
       StartSourceByHand
  <2> QED
    BY <1>6, <2>1 DEF BeforeTheFirst, InFirstRun
<1> QED
  BY <1>1, <1>2, <1>3, <1>4, <1>5, <1>6 DEF Next, Command, Process

\* A step that raises, or only reads, leaves everything but the label.
LEMMA FirstLooks ==
  ASSUME Shape, StepRaises \/ ReadOnlyStep
  PROVE  /\ pc' \in {"failed", "complete"} /\ idx' = idx
         /\ pc' = "failed" => idx < 12 \/ pc \in {"finalize_refuse", "finalize_rename"}
         /\ journal' = journal /\ src' = src /\ srcVol' = srcVol
         /\ srcPins' = srcPins /\ policy' = policy
<1>1. idx \in 1 .. 13 /\ LabelFitsState
  BY DEF Shape, TypeOK, ProcessTypeOK
<1>2. StepRaises => pc \in MayRaise /\ pc' = "failed" /\ idx' = idx
  BY DEF StepRaises, Raise
<1>3. ReadOnlyStep => pc' = "complete" /\ idx' = idx
  BY DEF ReadOnlyStep, Goto, GotoAt
<1>4. StepRaises => idx < 12 \/ pc \in {"finalize_refuse", "finalize_rename"}
  BY <1>1, <1>2 DEF MayRaise, LabelFitsState, CreateLabels, QuiesceLabels, CopyLabels,
     FinalizeLabels
<1>5. /\ journal' = journal /\ src' = src /\ srcVol' = srcVol
      /\ srcPins' = srcPins /\ policy' = policy
  BY DEF StepRaises, ReadOnlyStep, worldVars, sourceVars
<1> QED
  BY <1>2, <1>3, <1>4, <1>5

LEMMA FirstLooksMove ==
  ASSUME Shape, StepRaises \/ ReadOnlyStep
  PROVE  /\ pc' \notin FinalizeLabels \ {"finalize_policy"}
         /\ pc' = "finalize_policy" => pc = "enter" /\ idx' = idx
         /\ pc' = "enter" => SkipState \/ CompleteState
         /\ idx' = idx \/ SkipState \/ CompleteState
         /\ pc' = "failed" => idx < 12 \/ (pc \in {"finalize_refuse", "finalize_rename"}
                                           /\ UNCHANGED srcPins)
         /\ journal'.policy = journal.policy
         /\ journal.restarted = {} => journal'.restarted = {}
         /\ UNCHANGED << src, srcVol, policy >>
<1>1. pc' # "finalize_policy" /\ pc' \notin FinalizeLabels /\ pc' # "enter"
  BY FirstLooks DEF FinalizeLabels
<1> QED
  BY <1>1, FirstLooks

\* What the steps before FINALIZE, and the saga's own moves, leave alone.
LEMMA FirstMoves ==
  ASSUME Shape,
         Saga \/ CreateTargetStep \/ QuiesceStep \/ CopyStep \/ StartTargetStep,
         pc' \in SagaLabels
  PROVE  /\ pc' \notin FinalizeLabels \ {"finalize_policy"}
         /\ pc' = "finalize_policy" => pc = "enter" /\ idx' = idx
         /\ pc' = "enter" => SkipState \/ CompleteState
         /\ idx' = idx \/ SkipState \/ CompleteState
         /\ pc' = "failed" => idx < 12 \/ (pc \in {"finalize_refuse", "finalize_rename"}
                                           /\ UNCHANGED srcPins)
         /\ journal'.policy = journal.policy
         /\ journal.restarted = {} => journal'.restarted = {}
         /\ UNCHANGED << src, srcVol, policy >>
<1>0. /\ journal \in Journals /\ idx \in 1 .. 13 /\ LabelFitsState
  BY DEF Shape, TypeOK, ProcessTypeOK
<1>1. CASE EnterState
  <2>1. /\ pc = "enter" /\ idx' = idx /\ idx \in 1 .. 12
        /\ pc' = FirstLabel(Order[idx]) /\ UNCHANGED << src, srcVol, policy >>
        /\ journal' = [journal EXCEPT !.inFlight = State]
    BY <1>0, <1>1 DEF EnterState, State,
     Goto, GotoAt, Raise, End, processVars, worldVars, sourceVars, SagaLabels, CreateLabels,
     QuiesceLabels, CopyLabels, FinalizeLabels
  <2>2. journal'.policy = journal.policy /\ journal'.restarted = journal.restarted
    BY <1>0, <2>1 DEF Journals
  <2> QED
    BY <2>1, <2>2, EntryFacts DEF FinalizeLabels, SagaLabels, processVars
<1>2. CASE SkipState \/ CompleteState
  BY <1>0, <1>2 DEF SkipState, CompleteState, Advance, Journals,
     Goto, GotoAt, Raise, End, processVars, worldVars, sourceVars, SagaLabels, CreateLabels,
     QuiesceLabels, CopyLabels, FinalizeLabels
<1>3. CASE Finish \/ Block \/ StepFailed
  BY <1>3 DEF Finish, Block, StepFailed,
     Goto, GotoAt, Raise, End, processVars, worldVars, sourceVars, SagaLabels, CreateLabels,
     QuiesceLabels, CopyLabels, FinalizeLabels
<1>4. CASE StepRaises \/ ReadOnlyStep
  BY <1>4, FirstLooksMove, Zenon
<1>5. CASE CreateTargetStep
  <2>1. /\ pc \in CreateLabels /\ pc' \in CreateLabels \cup {"complete", "failed"}
        /\ idx' = idx /\ UNCHANGED << src, srcVol, policy >>
    BY <1>5 DEF CreateTargetStep, NothingToUndo, UndoInterruptedAttempt, CreateResource,
       JournalTarget, CreateDone, CreateFails, UndoPartialCreate,
       Goto, GotoAt, Raise, End, processVars, worldVars, sourceVars, CreateLabels,
       FinalizeLabels
  <2>2. journal'.policy = journal.policy /\ journal'.restarted = journal.restarted
    <3>1. CASE UndoInterruptedAttempt
      BY <1>0, <3>1 DEF UndoInterruptedAttempt, Journals
    <3>2. CASE JournalTarget
      BY <1>0, <3>2 DEF JournalTarget, Journals
    <3>3. CASE UndoPartialCreate
      BY <1>0, <3>3 DEF UndoPartialCreate, Journals
    <3>4. CASE NothingToUndo \/ CreateResource \/ CreateDone \/ CreateFails
      BY <3>4 DEF NothingToUndo, CreateResource, CreateDone, CreateFails
    <3> QED
      BY <1>5, <3>1, <3>2, <3>3, <3>4 DEF CreateTargetStep
  <2>3. pc' \notin FinalizeLabels \ {"finalize_policy"} /\ pc' \notin {"finalize_policy", "enter"}
    BY <2>1 DEF CreateLabels, FinalizeLabels
  <2>4. idx < 12
    BY <1>0, <2>1 DEF LabelFitsState, CreateLabels
  <2> QED
    BY <2>1, <2>2, <2>3, <2>4
<1>6. CASE QuiesceStep
  BY <1>0, <1>6 DEF QuiesceStep, PinSource, MarkStop, RequestStop, StopsRequested, Quiesced,
     LabelFitsState, Journals,
     Goto, GotoAt, Raise, End, processVars, worldVars, sourceVars, SagaLabels, CreateLabels,
     QuiesceLabels, CopyLabels, FinalizeLabels
<1>7. CASE CopyStep
  BY <1>0, <1>7 DEF CopyStep, Discover, CreateVolumes, PinTarget, CopyOne, AllCopied,
     StillStopped, LabelFitsState, Journals,
     Goto, GotoAt, Raise, End, processVars, worldVars, sourceVars, SagaLabels, CreateLabels,
     QuiesceLabels, CopyLabels, FinalizeLabels
<1>8. CASE StartTargetStep
  BY <1>0, <1>8 DEF StartTargetStep, StartTarget, AllStarted, LabelFitsState, Journals,
     Goto, GotoAt, Raise, End, processVars, worldVars, sourceVars, SagaLabels, CreateLabels,
     QuiesceLabels, CopyLabels, FinalizeLabels
<1> QED
  BY <1>1, <1>2, <1>3, <1>4, <1>5, <1>6, <1>7, <1>8 DEF Saga

\* What goes on beside the process in a first run.
LEMMA FirstSurroundings ==
  ASSUME WorldTypeOK, NoneStarting, Environment, InFirstRun \/ (commands = 0 /\ outcome = "none")
  PROVE  /\ UNCHANGED << processVars, journal, srcPins, policy, commands >>
         /\ \A q \in Resources : /\ src'[q] # "starting"
                                 /\ src[q] = "deleted" => src'[q] = "deleted"
                                 /\ srcVol[q] = "gone" => srcVol'[q] = "gone"
<1> USE DEF processVars, targetVars, boundVars
<1>1. PICK r \in Resources :
         \/ StopLands(r) \/ SourceUp(r) \/ SourceDeployFails(r) \/ TargetUp(r)
         \/ TargetDown(r) \/ PruneSource(r) \/ PruneTarget(r)
         \/ DeleteKeptSource(r) \/ RestartKeptSource(r) \/ StartSourceByHand(r)
  BY DEF Environment
<1>2. pc = "idle" => outcome = "none"
  BY DEF InFirstRun, SagaLabels, CreateLabels, QuiesceLabels, CopyLabels, FinalizeLabels
<1>3. \A q \in Resources : src[q] # "starting"
  BY DEF NoneStarting
<1>4. CASE StopLands(r)
  BY <1>3, <1>4 DEF StopLands, WorldTypeOK
<1>5. CASE PruneSource(r)
  BY <1>3, <1>5 DEF PruneSource, WorldTypeOK
<1>6. CASE TargetUp(r) \/ TargetDown(r) \/ PruneTarget(r)
  BY <1>3, <1>6 DEF TargetUp, TargetDown, PruneTarget, sourceVars
<1>7. CASE SourceUp(r) \/ SourceDeployFails(r)
  BY <1>3, <1>7 DEF SourceUp, SourceDeployFails
<1>8. CASE DeleteKeptSource(r) \/ RestartKeptSource(r) \/ StartSourceByHand(r)
  BY <1>2, <1>8 DEF DeleteKeptSource, RestartKeptSource, StartSourceByHand
<1> QED
  BY <1>1, <1>4, <1>5, <1>6, <1>7, <1>8

\* A first run finds its journal as it left it.
LEMMA FirstRunStep ==
  ASSUME IInv, BeforeTheFirst, FirstRun, NoneStarting, Next
  PROVE  FirstRun'
<1>0. /\ Shape /\ LabelFitsState /\ PolicyFirst /\ QuiesceIsMarked
      /\ journal \in Journals /\ WorldTypeOK /\ idx \in 1 .. 13
  BY DEF IInv, Shape, TypeOK, ProcessTypeOK
<1> SUFFICES ASSUME InFirstRun'
             PROVE  /\ journal'.restarted = {}
                    /\ idx' > 5 => journal'.stopRequested
                    /\ idx' < 12 \/ (idx' = 12 /\ pc' \in {"enter", "finalize_policy"}) =>
                         journal'.policy = NoState
                    /\ journal'.policy \in {NoState, policy'}
  BY DEF FirstRun
<1>1. CASE RunMigration /\ commands = 0
  <2>1. journal = EmptyJournal /\ idx = 1 /\ UNCHANGED << idx, policy >>
    BY <1>1 DEF RunMigration, Begin, Goto, GotoAt, BeforeTheFirst, worldVars
  <2>2. journal' = [journal EXCEPT !.started = TRUE] /\ pc' = "enter" /\ pc = "idle"
    BY <1>1 DEF RunMigration, Begin, Goto, GotoAt
  <2>3. ~(idx > 5)
    BY <2>1
  <2> QED
    BY <2>1, <2>2, <2>3 DEF EmptyJournal
<1>2. CASE InFirstRun /\ (Saga \/ CreateTargetStep \/ QuiesceStep \/ CopyStep \/ StartTargetStep)
  <2>1. /\ journal.restarted = {} /\ journal.policy \in {NoState, policy}
        /\ idx > 5 => journal.stopRequested
        /\ idx < 12 \/ (idx = 12 /\ pc \in {"enter", "finalize_policy"}) =>
             journal.policy = NoState
    BY <1>2 DEF FirstRun
  <2>2. /\ pc' = "finalize_policy" => pc = "enter" /\ idx' = idx
        /\ pc' = "enter" => SkipState \/ CompleteState
        /\ idx' = idx \/ SkipState \/ CompleteState
        /\ journal'.policy = journal.policy /\ journal'.restarted = {}
        /\ policy' = policy
    BY <1>0, <1>2, <2>1, FirstMoves DEF InFirstRun
  <2>3. SkipState \/ CompleteState =>
          idx' = idx + 1 /\ pc' = "enter" /\ (idx = 5 => journal.stopRequested)
    BY <1>0, QuiesceIsNumberFive DEF SkipState, CompleteState, Advance, QuiesceIsMarked, State
  <2>4. journal.stopRequested => journal'.stopRequested
    BY <1>0, JournalWriters
  <2>5. idx' > 5 => journal'.stopRequested
    BY <1>0, <2>1, <2>2, <2>3, <2>4
  <2>6. idx' < 12 \/ (idx' = 12 /\ pc' \in {"enter", "finalize_policy"}) =>
          journal'.policy = NoState
    BY <1>0, <2>1, <2>2, <2>3
  <2> QED
    BY <2>1, <2>2, <2>5, <2>6
<1>3. CASE InFirstRun /\ FinalizeStep
  <2>1. /\ idx = 12 /\ idx' = idx /\ pc' \notin {"enter", "finalize_policy"} /\ policy' = policy
        /\ pc \in FinalizeLabels
    BY <1>0, <1>3 DEF FinalizeStep, JournalPolicy, UnpinTarget, ReleaseForDelete, SkipDeleted,
       DeleteSource, JournalDeleted, DeleteFails, AllDeleted, RenameSources, UnpinSource, Goto,
       GotoAt, Raise, LabelFitsState, FinalizeLabels, worldVars
  <2>2. /\ journal'.policy = journal.policy \/ journal'.policy = policy
        /\ journal'.restarted = journal.restarted
        /\ journal'.stopRequested = journal.stopRequested
    BY <1>0, <2>1, JournalWriters DEF FinalizeLabels
  <2> QED
    BY <1>3, <2>1, <2>2 DEF FirstRun
<1>4. CASE InFirstRun /\ Environment
  <2>1. UNCHANGED << pc, idx, journal, policy >>
    BY <1>0, <1>4, FirstSurroundings DEF processVars
  <2> QED
    BY <1>4, <2>1 DEF FirstRun
<1> QED
  BY <1>0, <1>1, <1>2, <1>3, <1>4, FirstSteps

\* Nothing is started at the source but by a rollback, or by hand after one.
LEMMA NoneStartingStep ==
  ASSUME IInv, BeforeTheFirst, NoneStarting, Next
  PROVE  NoneStarting'
<1>0. Shape /\ WorldTypeOK
  BY DEF IInv, Shape, TypeOK
<1>1. CASE commands' = 0
  <2>1. commands = 0 /\ Environment
    BY <1>0, <1>1, FirstSteps
  <2> QED
    BY <1>0, <2>1, FirstSurroundings DEF NoneStarting, BeforeTheFirst
<1>2. CASE InFirstRun'
  <2>1. CASE RunMigration /\ commands = 0
    BY <2>1 DEF RunMigration, NoneStarting, worldVars, sourceVars
  <2>2. CASE InFirstRun /\ Environment
    BY <1>0, <2>2, FirstSurroundings DEF NoneStarting
  <2>3. CASE InFirstRun /\ FinalizeStep
    <3>1. src' = src \/ src' = [src EXCEPT ![at] = "deleted"]
      BY <2>3 DEF FinalizeStep, JournalPolicy, UnpinTarget, ReleaseForDelete, SkipDeleted,
         DeleteSource, JournalDeleted, DeleteFails, AllDeleted, RenameSources, UnpinSource,
         worldVars, sourceVars
    <3> QED
      BY <1>0, <2>3, <3>1 DEF NoneStarting, WorldTypeOK
  <2>4. CASE InFirstRun /\ (Saga \/ CreateTargetStep \/ QuiesceStep \/ CopyStep \/ StartTargetStep)
    <3>1. src' = src
      BY <1>0, <1>2, <2>4, FirstMoves DEF InFirstRun
    <3> QED
      BY <2>4, <3>1 DEF NoneStarting
  <2> QED
    BY <1>0, <1>2, <2>1, <2>2, <2>3, <2>4, FirstSteps
<1> QED
  BY <1>1, <1>2 DEF NoneStarting

\* Until FINALIZE deletes, its pins hold the whole source, and then its memory does.
LEMMA HeldWholeStep ==
  ASSUME FirstInv, Next
  PROVE  HeldWhole'
<1>0. /\ IInv /\ Shape /\ LabelFitsState /\ LoopFits /\ journal \in Journals /\ WorldTypeOK
      /\ idx \in 1 .. 13 /\ at \in 1 .. N + 1
      /\ BeforeTheFirst /\ FirstRun /\ NoneStarting /\ HeldWhole
  BY DEF FirstInv, IInv, Shape, TypeOK, ProcessTypeOK
<1> SUFFICES ASSUME InFirstRun'
             PROVE  HeldWhole'
  BY DEF HeldWhole
<1>1. CASE RunMigration /\ commands = 0
  <2>1. journal'.deleted = {} /\ pc' = "enter"
    BY <1>0, <1>1 DEF RunMigration, Begin, Goto, GotoAt, BeforeTheFirst, EmptyJournal
  <2> QED
    BY <2>1 DEF HeldWhole
<1>2. CASE InFirstRun /\ (Saga \/ CreateTargetStep \/ QuiesceStep \/ CopyStep \/ StartTargetStep)
  <2>1. pc' \notin FinalizeLabels \ {"finalize_policy"} /\ src' = src
    BY <1>0, <1>2, FirstMoves DEF InFirstRun
  <2>2. journal'.deleted = journal.deleted
    <3>1. ~JournalDeleted
      BY <2>1 DEF JournalDeleted, Goto, GotoAt, FinalizeLabels
    <3> QED
      BY <1>0, <3>1, Records
  <2> QED
    BY <1>0, <1>2, <2>1, <2>2 DEF HeldWhole, FinalizeLabels
<1>3. CASE InFirstRun /\ FinalizeStep
  <2> USE DEF Goto, GotoAt, Raise, worldVars, sourceVars
  <2>h. /\ pc \in {"finalize_unpin_target", "finalize_refuse"} => srcPins = Resources
        /\ pc = "finalize_rename" => policy # "delete"
        /\ pc \in {"finalize_delete", "finalize_deleted"} => held = Resources
        /\ pc = "finalize_deleted" => src[at] = "deleted"
        /\ \A r \in journal.deleted : src[r] = "deleted"
    BY <1>0, <1>3 DEF HeldWhole
  <2>1. CASE JournalPolicy
    <3>1. /\ pc = "finalize_policy" /\ pc' = "finalize_unpin_target"
          /\ UNCHANGED << src, srcPins >> /\ journal'.deleted = journal.deleted
      BY <1>0, <2>1 DEF JournalPolicy, Journals
    <3>2. idx = 12 /\ journal.policy = NoState /\ journal.stopRequested /\ journal.restarted = {}
      BY <1>0, <1>3, <3>1 DEF FirstRun, LabelFitsState, FinalizeLabels
    <3>3. ~unpinned
      BY <1>0, <3>1 DEF IInv, UnpinnedIsOver
    <3>4. \A r \in Resources : r \in srcPins
      BY <1>0, <3>2, <3>3 DEF IInv, SourceIsGuarded, Guarded
    <3>5. srcPins = Resources
      BY <1>0, <3>4 DEF WorldTypeOK
    <3> QED
      BY <2>h, <3>1, <3>5 DEF HeldWhole
  <2>2. CASE UnpinTarget
    <3>1. /\ pc = "finalize_unpin_target" /\ UNCHANGED << journal, src, srcPins, policy >>
          /\ pc' = IF policy = "delete" THEN "finalize_refuse" ELSE "finalize_rename"
      BY <2>2 DEF UnpinTarget
    <3> QED
      BY <2>h, <3>1 DEF HeldWhole
  <2>3. CASE ReleaseForDelete
    <3>1. /\ pc = "finalize_refuse"
          /\ pc' = "failed" \/ (pc' = "finalize_delete" /\ held' = srcPins)
          /\ UNCHANGED << journal, src >>
      BY <2>3 DEF ReleaseForDelete
    <3> QED
      BY <2>h, <3>1 DEF HeldWhole
  <2>4. CASE SkipDeleted
    <3>1. /\ pc = "finalize_delete" /\ pc' = "finalize_delete"
          /\ UNCHANGED << journal, src, held >>
      BY <2>4 DEF SkipDeleted
    <3> QED
      BY <2>h, <3>1 DEF HeldWhole
  <2>5. CASE DeleteSource
    <3>1. /\ pc = "finalize_delete" /\ pc' = "finalize_deleted" /\ at \in Resources
          /\ src' = [src EXCEPT ![at] = "deleted"] /\ UNCHANGED << journal, held, at >>
      BY <1>0, <2>5, NAssumption DEF DeleteSource, Resources
    <3>2. src \in [Resources -> SourceStates] /\ journal.deleted \subseteq Resources
      BY <1>0 DEF WorldTypeOK, Journals
    <3>3. src'[at'] = "deleted" /\ \A r \in journal.deleted : src'[r] = "deleted"
      BY <2>h, <3>1, <3>2
    <3> QED
      BY <2>h, <3>1, <3>3 DEF HeldWhole
  <2>6. CASE JournalDeleted
    <3>1. /\ pc = "finalize_deleted" /\ pc' = "finalize_delete"
          /\ journal'.deleted = journal.deleted \cup {at} /\ UNCHANGED << src, held >>
      BY <1>0, <2>6 DEF JournalDeleted, Journals
    <3> QED
      BY <2>h, <3>1 DEF HeldWhole
  <2>7. CASE DeleteFails \/ AllDeleted \/ RenameSources \/ UnpinSource
    <3>1. /\ pc' \in {"failed", "complete", "finalize_unpin_source"}
          /\ UNCHANGED << journal, src >>
      BY <2>7 DEF DeleteFails, AllDeleted, RenameSources, UnpinSource
    <3> QED
      BY <2>h, <3>1 DEF HeldWhole
  <2> QED
    BY <1>3, <2>1, <2>2, <2>3, <2>4, <2>5, <2>6, <2>7 DEF FinalizeStep
<1>4. CASE InFirstRun /\ Environment
  <2>1. /\ UNCHANGED << pc, at, held, journal, srcPins, policy >>
        /\ \A q \in Resources : src[q] = "deleted" => src'[q] = "deleted"
    BY <1>0, <1>4, FirstSurroundings DEF processVars
  <2>2. pc = "finalize_deleted" => at \in Resources
    BY <1>0, NAssumption DEF LoopFits, Resources
  <2>3. journal.deleted \subseteq Resources
    BY <1>0 DEF Journals
  <2> QED
    BY <1>0, <1>4, <2>1, <2>2, <2>3 DEF HeldWhole
<1> QED
  BY <1>0, <1>1, <1>2, <1>3, <1>4, FirstSteps

\* What such a failure leaves stays so until the command goes on.
LEMMA FailedDeleteStep ==
  ASSUME FirstInv, Next
  PROVE  FailedDeleteLeavesPinned'
<1>0. /\ IInv /\ Shape /\ LabelFitsState /\ journal \in Journals /\ WorldTypeOK
      /\ BeforeTheFirst /\ FirstRun /\ NoneStarting /\ HeldWhole /\ FailedDeleteLeavesPinned
  BY DEF FirstInv, IInv, Shape, TypeOK
<1> SUFFICES ASSUME commands' = 1, pc' = "failed", error' = "step", journal'.policy = "delete",
                    NEW r \in Resources
             PROVE  src'[r] = "deleted" \/ srcVol'[r] = "gone" \/ r \in srcPins'
  BY DEF FailedDeleteLeavesPinned, UndeletedIsPinned
<1>a. InFirstRun'
  BY DEF InFirstRun, SagaLabels
<1>b. NoState # "delete"
  BY DEF NoState
<1>1. CASE RunMigration
  BY <1>1 DEF RunMigration, Begin, Goto, GotoAt
<1>2. CASE InFirstRun /\ (Saga \/ CreateTargetStep \/ QuiesceStep \/ CopyStep \/ StartTargetStep)
  <2>1. /\ journal.policy = "delete"
        /\ idx < 12 \/ (pc \in {"finalize_refuse", "finalize_rename"} /\ srcPins' = srcPins)
    BY <1>0, <1>2, <1>a, FirstMoves DEF InFirstRun
  <2>2. ~(idx < 12) /\ policy = "delete"
    BY <1>0, <1>2, <1>b, <2>1 DEF FirstRun
  <2>3. pc = "finalize_refuse" /\ srcPins' = srcPins
    BY <1>0, <1>2, <2>1, <2>2 DEF HeldWhole
  <2> QED
    BY <1>0, <1>2, <2>3 DEF HeldWhole
<1>3. CASE InFirstRun /\ FinalizeStep
  <2>1. DeleteFails
    BY <1>3 DEF FinalizeStep, JournalPolicy, UnpinTarget, ReleaseForDelete, SkipDeleted,
       DeleteSource, JournalDeleted, AllDeleted, RenameSources, UnpinSource, Goto, GotoAt, Raise
  <2>2. /\ pc = "finalize_delete" /\ UNCHANGED << journal, src, srcVol >>
        /\ srcPins' = Pinned(srcPins, held \ journal.deleted)
    BY <2>1 DEF DeleteFails, Raise
  <2>3. held = Resources /\ \A q \in journal.deleted : src[q] = "deleted"
    BY <1>0, <1>3, <2>2 DEF HeldWhole
  <2> QED
    BY <2>2, <2>3 DEF Pinned
<1>4. CASE InFirstRun /\ Environment
  <2>1. /\ UNCHANGED << pc, error, journal, srcPins, commands >>
        /\ src[r] = "deleted" => src'[r] = "deleted"
        /\ srcVol[r] = "gone" => srcVol'[r] = "gone"
    BY <1>0, <1>4, FirstSurroundings DEF processVars
  <2>2. src[r] = "deleted" \/ srcVol[r] = "gone" \/ r \in srcPins
    BY <1>0, <2>1 DEF FailedDeleteLeavesPinned, UndeletedIsPinned
  <2> QED
    BY <2>1, <2>2
<1> QED
  BY <1>0, <1>1, <1>2, <1>3, <1>4, <1>a, FirstSteps

(***************************************************************************)
(* A FINALIZE(delete) that is refused in the first run, or whose delete of *)
(* a source fails, leaves each source deleted, without its volume, or      *)
(* pinned, unless it says that it could not pin (steps.py                  *)
(* _repin_undeleted), for any number of resources.  A release of the pins  *)
(* that breaks off (error "released") is outside it.                       *)
(***************************************************************************)
THEOREM FailedDeletePinsAgain ==
  ASSUME "rollback_after_unpin" \notin Hazards
  PROVE  Spec => []FailedDeleteLeavesPinned
<1>1. Init => FirstInv
  BY InitIsFine DEF Init, FirstInv, BeforeTheFirst, FirstRun, NoneStarting, HeldWhole,
     FailedDeleteLeavesPinned, InFirstRun
<1>2. FirstInv /\ [Next]_vars => FirstInv'
  <2> SUFFICES ASSUME FirstInv, [Next]_vars
               PROVE  FirstInv'
    OBVIOUS
  <2>1. IInv'
    BY IInvIsInductive DEF FirstInv
  <2>2. CASE Next
    BY <2>1, <2>2, FirstSteps, FirstRunStep, NoneStartingStep, HeldWholeStep, FailedDeleteStep
       DEF FirstInv, IInv
  <2>3. CASE UNCHANGED vars
    BY <2>1, <2>3 DEF vars, processVars, worldVars, sourceVars, boundVars, FirstInv,
       BeforeTheFirst, FirstRun, NoneStarting, HeldWhole, FailedDeleteLeavesPinned, UndeletedIsPinned,
       InFirstRun
  <2> QED
    BY <2>2, <2>3
<1>3. FirstInv => FailedDeleteLeavesPinned
  BY DEF FirstInv
<1> QED
  BY <1>1, <1>2, <1>3, PTL DEF Spec

=============================================================================
