-------------------------- MODULE ServerSaga_proofs --------------------------
(***************************************************************************)
(* What each state of the server's saga finds, for any number of runs,     *)
(* polls and faults, and whatever becomes of the old box.                  *)
(*                                                                         *)
(* The states come one after the other, so what a state left is still      *)
(* there when a later one asks for it, provided that nothing but the saga  *)
(* touches it: a source with no container running writes nothing, and an   *)
(* .env is replaced by nobody between the check of its key and the fence.  *)
(***************************************************************************)
EXTENDS ServerSaga, SequenceTheorems, WellFoundedInduction, TLAPS

States == {Order[i] : i \in DOMAIN Order}

\* By what has been done before it, the places the saga can be at.
Inert == {"init", "preflight", "inventory", "read_app_key", "stop_source", "transfer",
          "verify", "install_coolify"}
Booting == {"boot", "boot_sleep", "probe", "probe_sleep"}
Booted == {"reconcile", "fence_source"}
Installed == {"assert_app_key"} \cup Booting \cup Booted
Whole == {"install_coolify"} \cup Installed
Stopped == {"transfer", "verify"} \cup Whole

Types ==
  /\ running \subseteq Containers
  /\ holds \in [PathSet -> PathContents]
  /\ journal \in [completed : Seq(States), copied : SUBSET PathSet]
  /\ inventory \in [empty : BOOLEAN, force : BOOLEAN, had : BOOLEAN]
  /\ pc \in Inert \cup Installed \cup {"idle", "rollback"}
  /\ marker \in BOOLEAN /\ coolify \in BOOLEAN

\* A target that was found empty had nothing.
LookedOnce == inventory.empty = ~inventory.had

Alive == coolify /\ env = "source" /\
         {"assert_app_key", "boot"} \subseteq ToSet(journal.completed)

\* Each place with what it rests on.
Rests ==
  /\ outcome = "running" <=> pc # "idle"
  /\ pc \in Inert => ~coolify
  /\ pc \in Stopped => running = {}
  /\ pc \in Whole => \A p \in PathSet : holds[p] = "copy"
  /\ pc \in Installed => coolify
  /\ pc \in Booting \cup Booted =>
       env = "source" /\ "assert_app_key" \in ToSet(journal.completed)
  /\ pc \in Booted => "boot" \in ToSet(journal.completed)
  /\ outcome = "succeeded" => Alive
  /\ pc \notin {"idle", "rollback"} => ~marker
  /\ marker => coolify

SagaInv == Types /\ Rests

-----------------------------------------------------------------------------
(***************************************************************************)
(* The order of states, one successor after the other.                     *)
(***************************************************************************)
LEMMA OrderFacts ==
  /\ States = Inert \cup {"assert_app_key", "boot"} \cup Booted \cup {"done"}
  /\ \A s \in States \ {"done"} : Order[Position(s) + 1] =
       CASE s = "init" -> "preflight"
         [] s = "preflight" -> "inventory"
         [] s = "inventory" -> "read_app_key"
         [] s = "read_app_key" -> "stop_source"
         [] s = "stop_source" -> "transfer"
         [] s = "transfer" -> "verify"
         [] s = "verify" -> "install_coolify"
         [] s = "install_coolify" -> "assert_app_key"
         [] s = "assert_app_key" -> "boot"
         [] s = "boot" -> "reconcile"
         [] s = "reconcile" -> "fence_source"
         [] s = "fence_source" -> "done"
<1>1. DOMAIN Order = 1 .. 13
  BY DEF Order
<1>2. ASSUME NEW i \in 1 .. 13
      PROVE  \/ i = 1 \/ i = 2 \/ i = 3 \/ i = 4 \/ i = 5 \/ i = 6 \/ i = 7
             \/ i = 8 \/ i = 9 \/ i = 10 \/ i = 11 \/ i = 12 \/ i = 13
  OBVIOUS
<1>3. States = Inert \cup {"assert_app_key", "boot"} \cup Booted \cup {"done"}
  <2>1. \A i \in 1 .. 13 : Order[i] \in Inert \cup {"assert_app_key", "boot"} \cup Booted \cup {"done"}
    BY <1>2 DEF Order, Inert, Booted
  <2>2. /\ Order[1] = "init" /\ Order[2] = "preflight" /\ Order[3] = "inventory"
        /\ Order[4] = "read_app_key" /\ Order[5] = "stop_source" /\ Order[6] = "transfer"
        /\ Order[7] = "verify" /\ Order[8] = "install_coolify" /\ Order[9] = "assert_app_key"
        /\ Order[10] = "boot" /\ Order[11] = "reconcile" /\ Order[12] = "fence_source"
        /\ Order[13] = "done"
    BY DEF Order
  <2> QED
    BY <1>1, <2>1, <2>2 DEF States, Inert, Booted
<1>4. ASSUME NEW i \in 1 .. 13, NEW j \in 1 .. 13, Order[i] = Order[j]
      PROVE  i = j
  BY <1>2, <1>4 DEF Order
<1>5. ASSUME NEW i \in 1 .. 13
      PROVE  Position(Order[i]) = i
  BY <1>1, <1>4 DEF Position
<1>6. ASSUME NEW i \in 1 .. 12
      PROVE  Order[Position(Order[i]) + 1] = Order[i + 1]
  BY <1>5
<1> QED
  <2>1. /\ Order[Position("init") + 1] = "preflight"
        /\ Order[Position("preflight") + 1] = "inventory"
        /\ Order[Position("inventory") + 1] = "read_app_key"
        /\ Order[Position("read_app_key") + 1] = "stop_source"
        /\ Order[Position("stop_source") + 1] = "transfer"
        /\ Order[Position("transfer") + 1] = "verify"
    BY <1>6 DEF Order
  <2>2. /\ Order[Position("verify") + 1] = "install_coolify"
        /\ Order[Position("install_coolify") + 1] = "assert_app_key"
        /\ Order[Position("assert_app_key") + 1] = "boot"
        /\ Order[Position("boot") + 1] = "reconcile"
        /\ Order[Position("reconcile") + 1] = "fence_source"
        /\ Order[Position("fence_source") + 1] = "done"
    BY <1>6 DEF Order
  <2> QED
    BY <1>3, <2>1, <2>2 DEF Inert, Booted

\* There are three paths to transfer.
LEMMA PathFacts == PathSet = {"coolify", "volumes", "binds"} /\ Len(Paths) = 3
  BY DEF PathSet, Paths

\* What completes is remembered with what had completed.
LEMMA CompletedGrows ==
  ASSUME Types, NEW state \in States
  PROVE  /\ Append(journal.completed, state) \in Seq(States)
         /\ ToSet(Append(journal.completed, state)) = ToSet(journal.completed) \cup {state}
<1>1. journal.completed \in Seq(States)
  BY DEF Types
<1>2. DOMAIN journal.completed = 1 .. Len(journal.completed)
      /\ DOMAIN Append(journal.completed, state) = 1 .. Len(journal.completed) + 1
  BY <1>1
<1> QED
  BY <1>1, <1>2, AppendProperties DEF ToSet

-----------------------------------------------------------------------------
(***************************************************************************)
(* How the executor leaves a state: forward with all it rests on, or to    *)
(* the rollback.                                                           *)
(***************************************************************************)
LEMMA FailsSafely ==
  ASSUME SagaInv, LookedOnce, Fail, pc # "idle",
         UNCHANGED << marker, running >>,
         holds' \in [PathSet -> PathContents],
         coolify' \in BOOLEAN, coolify => coolify'
  PROVE  SagaInv' /\ LookedOnce'
BY DEF SagaInv, LookedOnce, Types, Rests, Fail, Inert, Installed, Stopped, Whole, Booting,
     Booted

\* A step that completes keeps the order.
LEMMA CompletesSafely ==
  ASSUME SagaInv, LookedOnce, pc \in Inert \cup {"assert_app_key"} \cup Booting \cup Booted,
         pc # "fence_source", pc # "install_coolify",
         NEW state \in States, state = IF pc = "probe" THEN "boot" ELSE pc,
         Complete(state),
         UNCHANGED << marker, coolify, env, holds, running >>,
         pc = "stop_source" => running = {},
         pc = "verify" => \A p \in PathSet : holds[p] = "copy",
         pc = "assert_app_key" => env = "source"
  PROVE  SagaInv' /\ LookedOnce'
<1> DEFINE next == Order[Position(state) + 1]
<1>1. /\ pc' = next /\ pc' # "idle" /\ outcome' = outcome /\ inventory' = inventory
      /\ journal'.completed = Append(journal.completed, state)
      /\ journal'.copied = journal.copied
      /\ journal' \in [completed : Seq(States), copied : SUBSET PathSet]
  BY OrderFacts, CompletedGrows
     DEF SagaInv, Types, Complete, Inert, Booting, Booted
<1>2. ToSet(journal'.completed) = ToSet(journal.completed) \cup {state}
  BY <1>1, CompletedGrows DEF SagaInv
<1> QED
  BY <1>1, <1>2, OrderFacts
     DEF SagaInv, LookedOnce, Types, Rests, Inert, Installed, Stopped, Whole, Booting, Booted

-----------------------------------------------------------------------------
(***************************************************************************)
(* The steps.                                                              *)
(***************************************************************************)
LEMMA StepIsSafe ==
  ASSUME SagaInv, LookedOnce, Step
  PROVE  SagaInv' /\ LookedOnce'
<1> USE DEF SagaInv, Types, sourceVars, targetVars, Rest
<1>1. States = Inert \cup {"assert_app_key", "boot"} \cup Booted \cup {"done"}
  BY OrderFacts
<1>2. CASE ReadingStep
  BY <1>1, <1>2, CompletesSafely, FailsSafely DEF ReadingStep, Inert, Booted
<1>3. CASE Preflight
  BY <1>1, <1>3, CompletesSafely, FailsSafely DEF Preflight, Inert
<1>4. CASE StopContainers
  BY <1>4 DEF StopContainers, Stay, LookedOnce, Rests, Inert, Installed, Stopped, Whole,
       Booting, Booted
<1>5. CASE StopDaemon
  BY <1>1, <1>5, CompletesSafely, FailsSafely DEF StopDaemon, StillRunning, Inert
<1>6. CASE InstallKey
  <2>1. CASE Stay(pc, 1)
    BY <1>6, <2>1 DEF InstallKey, Stay, LookedOnce, Rests, Inert, Installed, Stopped, Whole,
       Booting, Booted
  <2> QED
    BY <1>6, <2>1, FailsSafely DEF InstallKey
<1>7. CASE CopyPath
  <2>1. pc = "transfer" /\ Paths[at] \in PathSet /\ holds' \in [PathSet -> PathContents]
        /\ UNCHANGED << marker, running, coolify >>
    BY <1>7 DEF CopyPath, PathSet, Paths, PathContents
  <2>2. CASE Stay(pc, at + 1)
    BY <2>1, <2>2 DEF Stay, LookedOnce, Rests, Inert, Installed, Stopped, Whole, Booting,
         Booted
  <2> QED
    BY <1>7, <2>1, <2>2, FailsSafely DEF CopyPath
<1>8. CASE EndTransfer
  <2>1. pc = "transfer" /\ pc' = "verify" /\ journal' \in [completed : Seq(States), copied : SUBSET PathSet]
        /\ UNCHANGED << sourceVars, targetVars, outcome, inventory >>
    BY <1>1, <1>8, OrderFacts, CompletedGrows DEF EndTransfer, Inert
  <2> QED
    BY <2>1 DEF LookedOnce, Rests, Inert, Installed, Stopped, Whole, Booting, Booted
<1>9. CASE Verify
  BY <1>1, <1>9, CompletesSafely, FailsSafely DEF Verify, Inert
<1>10. CASE InstallCoolify
  <2>1. pc = "install_coolify" /\ holds' = holds /\ UNCHANGED << marker, running >>
    BY <1>10 DEF InstallCoolify, Rests, Whole, PathSet
  <2>2. CASE coolify' = TRUE /\ Complete(pc)
    <3>1. pc' = "assert_app_key" /\ UNCHANGED << outcome, inventory >>
          /\ journal' \in [completed : Seq(States), copied : SUBSET PathSet]
      BY <1>1, <2>1, <2>2, OrderFacts, CompletedGrows DEF Complete, Inert
    <3> QED
      BY <2>1, <2>2, <3>1 DEF LookedOnce, Rests, Inert, Installed, Stopped, Whole,
           Booting, Booted
  <2> QED
    BY <1>10, <2>1, <2>2, FailsSafely DEF InstallCoolify
<1>11. CASE AssertAppKey
  BY <1>1, <1>11, CompletesSafely, FailsSafely DEF AssertAppKey, Inert
<1>12. CASE Boot
  <2>1. CASE \E label \in {"boot_sleep", "probe"}, n \in {0, at} : Stay(label, n)
    BY <1>12, <2>1 DEF Boot, Stay, LookedOnce, Rests, Inert, Installed, Stopped, Whole,
         Booting, Booted
  <2> QED
    BY <1>12, <2>1, FailsSafely DEF Boot
<1>13. CASE Probe
  <2>1. CASE Stay("probe_sleep", at)
    BY <1>13, <2>1 DEF Probe, Stay, LookedOnce, Rests, Inert, Installed, Stopped, Whole,
         Booting, Booted
  <2> QED
    BY <1>1, <1>13, <2>1, CompletesSafely, FailsSafely DEF Probe, Booting
<1>14. CASE Sleep
  BY <1>14 DEF Sleep, Stay, LookedOnce, Rests, Inert, Installed, Stopped, Whole, Booting,
       Booted
<1>15. CASE Fence
  <2>1. pc = "fence_source" /\ marker' = TRUE /\ running' = {} /\ coolify /\ env = "source"
        /\ UNCHANGED << holds, env, coolify >>
    BY <1>15 DEF Fence, Rests, Installed, Stopped, Whole, Booting, Booted
  <2>2. {"assert_app_key", "boot"} \subseteq ToSet(journal.completed)
    BY <2>1 DEF Rests, Booted
  <2>3. CASE Complete(pc)
    <3>1. pc' = "idle" /\ outcome' = "succeeded" /\ UNCHANGED inventory
          /\ journal'.completed = Append(journal.completed, pc)
          /\ journal' \in [completed : Seq(States), copied : SUBSET PathSet]
      BY <1>1, <2>1, <2>3, OrderFacts, CompletedGrows DEF Complete, Booted
    <3>2. {"assert_app_key", "boot"} \subseteq ToSet(journal'.completed)
      BY <1>1, <2>1, <2>2, <3>1, CompletedGrows DEF Booted
    <3> QED
      BY <2>1, <3>1, <3>2 DEF LookedOnce, Rests, Alive, Inert, Installed, Stopped,
           Whole, Booting, Booted
  <2>4. CASE Fail
    BY <2>1, <2>4 DEF Fail, LookedOnce, Rests, Inert, Installed, Stopped, Whole, Booting,
         Booted
  <2> QED
    BY <1>15, <2>3, <2>4 DEF Fence
<1> QED
  BY <1>2, <1>3, <1>4, <1>5, <1>6, <1>7, <1>8, <1>9, <1>10, <1>11, <1>12, <1>13, <1>14,
       <1>15 DEF Step

(***************************************************************************)
(* The rollback wipes only a target that had nothing; it and the next run  *)
(* come when a Coolify is no longer in question.                           *)
(***************************************************************************)
LEMMA RollbackIsSafe ==
  ASSUME SagaInv, LookedOnce, RollbackStep
  PROVE  SagaInv' /\ LookedOnce'
<1> USE DEF SagaInv, LookedOnce, Types, Rests, Rest, Due, Compensated, Inert, Installed,
     Stopped, Whole,
        Booting, Booted
<1>1. CASE StartSourceDocker
  BY <1>1 DEF StartSourceDocker, targetVars
<1>2. CASE WipeTargetData
  BY <1>2 DEF WipeTargetData, sourceVars, PathContents
<1>3. CASE RevokeEphemeralKey
  BY <1>3 DEF RevokeEphemeralKey
<1> QED
  BY <1>1, <1>2, <1>3 DEF RollbackStep

\* Every step finds its predecessors completed, unless a target is reused.
LEMMA SagaStep ==
  ASSUME "reuse_target" \notin Hazards
  PROVE  SagaInv /\ LookedOnce /\ [Next]_vars => SagaInv' /\ LookedOnce'
<1> SUFFICES ASSUME SagaInv, LookedOnce, [Next]_vars
             PROVE  SagaInv' /\ LookedOnce'
  OBVIOUS
<1> USE DEF sourceVars, targetVars, Inert, Installed, Stopped, Whole, Booting, Booted
<1>1. CASE Run
  BY <1>1 DEF Run, SagaInv, LookedOnce, Types, Rests, TargetIsEmpty, NoJournal
<1>2. CASE Die
  BY <1>2 DEF Die, SagaInv, LookedOnce, Types, Rests
<1>3. CASE SourceWrites
  BY <1>3 DEF SourceWrites, sagaVars, SagaInv, LookedOnce, Types, Rests, Alive, PathContents
<1>4. CASE SourceReboots
  BY <1>4 DEF SourceReboots, sagaVars, SagaInv, LookedOnce, Types, Rests, Alive, Containers
<1>5. CASE UNCHANGED vars
  BY <1>5 DEF vars, sagaVars, SagaInv, LookedOnce, Types, Rests, Alive
<1> QED
  BY <1>1, <1>2, <1>3, <1>4, <1>5, StepIsSafe, RollbackIsSafe DEF Next

-----------------------------------------------------------------------------
(***************************************************************************)
(* Every step keeps the types.                                             *)
(***************************************************************************)
AtMost(label) == CASE label = "stop_source" -> 1
                   [] label = "transfer" -> Len(Paths) + 1
                   [] label \in {"boot", "boot_sleep", "probe", "probe_sleep"} -> MaxPolls
                   [] OTHER -> 0

\* Only states of the plan are recorded.
LEMMA CompletedAreStates ==
  ASSUME NEW completed \in Seq(States)
  PROVE  ToSet(completed) \subseteq {Order[i] : i \in DOMAIN Order}
<1>1. \A i \in DOMAIN completed : completed[i] \in States
  OBVIOUS
<1> QED
  BY <1>1 DEF ToSet, States

\* The process stays where it can be.
LEMMA PlacesAreLabels ==
  Inert \cup Installed \cup {"idle", "rollback"} \subseteq
    {Order[i] : i \in DOMAIN Order} \cup {"idle", "rollback", "boot_sleep", "probe", "probe_sleep"}
BY OrderFacts DEF States, Inert, Installed, Booting, Booted

\* The flags stay flags.
LEMMA FlagsStayFlags ==
  ASSUME TypeOK, Next
  PROVE  /\ docker' \in BOOLEAN /\ restarts' \in BOOLEAN
         /\ privateKey' \in BOOLEAN /\ authorised' \in BOOLEAN
         /\ plan'.failed \in BOOLEAN
<1> USE DEF TypeOK, sourceVars, targetVars, sagaVars, Rest
<1>1. ASSUME NEW state, Complete(state)
      PROVE  plan' = plan
  BY <1>1 DEF Complete
<1>2. ASSUME Fail
      PROVE  plan'.failed \in BOOLEAN
  BY <1>2 DEF Fail
<1>3. ASSUME NEW label, NEW n, Stay(label, n)
      PROVE  plan' = plan
  BY <1>3 DEF Stay
<1>4. CASE ReadingStep \/ Preflight \/ Verify \/ AssertAppKey \/ InstallCoolify \/ EndTransfer
  BY <1>1, <1>2, <1>4 DEF ReadingStep, Preflight, Verify, AssertAppKey, InstallCoolify,
       EndTransfer
<1>5. CASE StopDaemon
  BY <1>1, <1>2, <1>5 DEF StopDaemon
<1>6. CASE StopContainers \/ InstallKey \/ CopyPath
  BY <1>2, <1>3, <1>6 DEF StopContainers, InstallKey, CopyPath
<1>7. CASE Boot \/ Probe \/ Sleep
  BY <1>1, <1>2, <1>3, <1>7 DEF Boot, Probe, Sleep
<1>8. ASSUME NEW succeeds \in BOOLEAN, Revoke(succeeds)
      PROVE  privateKey' \in BOOLEAN /\ authorised' \in BOOLEAN
  BY <1>8 DEF Revoke
<1>9. CASE Fence
  <2>1. restarts' \in BOOLEAN
    BY <1>9, ZenonT(20) DEF Fence
  <2> QED
    BY <1>1, <1>2, <1>8, <1>9, <2>1 DEF Fence
<1>10. ASSUME NEW ok \in BOOLEAN, Compensated(ok)
       PROVE  plan'.failed \in BOOLEAN
  <2>1. (plan.failed \/ ~ok) \in BOOLEAN
    OBVIOUS
  <2> QED
    BY <1>10, <2>1 DEF Compensated
<1>11. CASE StartSourceDocker \/ WipeTargetData
  BY <1>10, <1>11 DEF StartSourceDocker, WipeTargetData
<1>12. CASE RevokeEphemeralKey
  <2>1. PICK succeeds \in BOOLEAN, raises \in BOOLEAN : Revoke(succeeds) /\ Compensated(~raises)
    BY <1>12 DEF RevokeEphemeralKey
  <2>2. plan'.failed \in BOOLEAN
    BY <1>10, <2>1
  <2> QED
    BY <1>8, <1>12, <2>1, <2>2 DEF RevokeEphemeralKey
<1>13. CASE Run
  BY <1>13 DEF Run, NoPlan
<1>16. CASE Die
  BY <1>16 DEF Die, NoPlan
<1>14. CASE SourceWrites
  BY <1>14 DEF SourceWrites
<1>15. CASE SourceReboots
  BY <1>15 DEF SourceReboots
<1> QED
  BY <1>4, <1>5, <1>6, <1>7, <1>9, <1>11, <1>12, <1>13, <1>14, <1>15, <1>16 DEF Next, Step,
       RollbackStep

\* The counters stay within their bounds.
LEMMA CountsStayBounded ==
  ASSUME TypeOK, Next
  PROVE  /\ env' \in {"none", "own", "source", "fresh"}
         /\ runs' \in 0 .. MaxRuns /\ faults' \in 0 .. MaxFaults
<1> USE BoundsAssumption DEF sourceVars, targetVars, Rest
<1>1. /\ env \in {"none", "own", "source", "fresh"}
      /\ runs \in 0 .. MaxRuns /\ faults \in 0 .. MaxFaults
  BY DEF TypeOK
<1>2. CASE ReadingStep \/ Preflight \/ StopContainers \/ StopDaemon \/ InstallKey \/ EndTransfer
           \/ Verify \/ AssertAppKey \/ Boot \/ Probe \/ Sleep
  BY <1>1, <1>2 DEF ReadingStep, Preflight, StopContainers, StopDaemon, InstallKey,
       EndTransfer,
     Verify, AssertAppKey, Boot, Probe, Sleep
<1>3. CASE CopyPath \/ InstallCoolify
  BY <1>1, <1>3 DEF CopyPath, InstallCoolify
<1>4. CASE Fence \/ RevokeEphemeralKey
  <2>1. ASSUME NEW succeeds \in BOOLEAN, Revoke(succeeds)
        PROVE  faults' \in 0 .. MaxFaults
    <3>1. faults' = faults \/ (faults < MaxFaults /\ faults' = faults + 1)
      BY <2>1, ZenonT(20) DEF Revoke
    <3> QED
      BY <1>1, <3>1
  <2> QED
    BY <1>1, <1>4, <2>1 DEF Fence, RevokeEphemeralKey
<1>5. CASE StartSourceDocker
  BY <1>1, <1>5 DEF StartSourceDocker
<1>8. CASE WipeTargetData
  <2>1. PICK gone \in SUBSET journal.copied :
          IF MayWipe
          THEN /\ gone # journal.copied => faults < MaxFaults
               /\ faults' = faults + (IF gone = journal.copied THEN 0 ELSE 1)
               /\ env' = IF "coolify" \in gone THEN "none" ELSE env
          ELSE UNCHANGED << env, faults >>
    BY <1>8 DEF WipeTargetData
  <2>2. env' \in {"none", "own", "source", "fresh"} /\ faults' \in 0 .. MaxFaults
    BY <1>1, <2>1
  <2> QED
    BY <1>1, <1>8, <2>2 DEF WipeTargetData
<1>6. CASE Run \/ Die
  BY <1>1, <1>6 DEF Run, Die
<1>7. CASE SourceWrites \/ SourceReboots
  BY <1>1, <1>7 DEF SourceWrites, SourceReboots
<1> QED
  BY <1>2, <1>3, <1>4, <1>5, <1>6, <1>7, <1>8 DEF Next, Step, RollbackStep

\* The place in the plan stays within it.
LEMMA PlaceStaysInReach ==
  ASSUME TypeOK, Next
  PROVE  outcome' \in Outcomes /\ at' \in 0 .. AtMost(pc')
<1> USE BoundsAssumption, PathFacts DEF TypeOK, sagaVars, AtMost, Outcomes
<1>1. 0 \in 0 .. AtMost(pc')
  OBVIOUS
<1>2. ASSUME NEW state, Complete(state)
      PROVE  outcome' \in Outcomes /\ at' = 0
  BY <1>2 DEF Complete
<1>3. ASSUME Fail
      PROVE  outcome' \in Outcomes /\ at' = 0
  BY <1>3 DEF Fail
<1>4. ASSUME NEW label, NEW n \in 0 .. AtMost(label), Stay(label, n)
      PROVE  outcome' \in Outcomes /\ at' \in 0 .. AtMost(pc')
  BY <1>4 DEF Stay
<1>5. CASE ReadingStep \/ Preflight \/ StopDaemon \/ Verify \/ AssertAppKey \/ InstallCoolify \/ Fence
  BY <1>1, <1>2, <1>3, <1>5 DEF ReadingStep, Preflight, StopDaemon, Verify, AssertAppKey,
     InstallCoolify, Fence
<1>6. CASE StopContainers \/ InstallKey
  <2>1. pc \in {"stop_source", "transfer"} => 1 \in 0 .. AtMost(pc)
    OBVIOUS
  <2> QED
    BY <1>1, <1>3, <1>4, <1>6, <2>1 DEF StopContainers, InstallKey
<1>7. CASE CopyPath
  <2>1. pc = "transfer" /\ at + 1 \in 0 .. AtMost(pc)
    BY <1>7 DEF CopyPath
  <2> QED
    BY <1>1, <1>3, <1>4, <1>7, <2>1 DEF CopyPath
<1>8. CASE EndTransfer
  BY <1>1, <1>8 DEF EndTransfer
<1>9. CASE Boot
  <2>1. pc = "boot" => 0 \in 0 .. AtMost("probe") /\ at \in 0 .. AtMost("boot_sleep")
    OBVIOUS
  <2> QED
    BY <1>1, <1>3, <1>4, <1>9, <2>1 DEF Boot
<1>10. CASE Probe
  <2>1. pc = "probe" => at \in 0 .. AtMost("probe_sleep")
    OBVIOUS
  <2> QED
    BY <1>1, <1>2, <1>3, <1>4, <1>10, <2>1 DEF Probe
<1>11. CASE Sleep
  BY <1>11 DEF Sleep, Stay
<1>12. CASE RollbackStep
  <2>1. ASSUME NEW ok, Compensated(ok)
        PROVE  outcome' \in Outcomes /\ at' = at /\ pc' \in {"idle", pc}
    BY <2>1 DEF Compensated
  <2>2. pc = "rollback"
    BY <1>12 DEF RollbackStep, StartSourceDocker, WipeTargetData, RevokeEphemeralKey, Due
  <2> QED
    BY <1>12, <2>1, <2>2 DEF RollbackStep, StartSourceDocker, WipeTargetData,
         RevokeEphemeralKey
<1>13. CASE Run \/ Die
  BY <1>13 DEF Run, Die
<1>14. CASE SourceWrites \/ SourceReboots
  BY <1>14 DEF SourceWrites, SourceReboots
<1> QED
  BY <1>5, <1>6, <1>7, <1>8, <1>9, <1>10, <1>11, <1>12, <1>13, <1>14 DEF Next, Step

\* The invariant holds before the first run.
LEMMA InitIsSafe == Init => TypeOK /\ SagaInv /\ LookedOnce
<1> SUFFICES ASSUME Init
             PROVE  TypeOK /\ SagaInv /\ LookedOnce
  OBVIOUS
<1>1. Types
  <2>1. journal \in [completed : Seq(States), copied : SUBSET PathSet]
    BY EmptySeq DEF Init, NoJournal
  <2>2. holds \in [PathSet -> PathContents]
    BY DEF Init, PathContents
  <2> QED
    BY <2>1, <2>2 DEF Init, Types, Containers
<1>2. Rests /\ LookedOnce
  BY DEF Init, Rests, LookedOnce, Inert, Installed, Stopped, Whole, Booting, Booted
<1>3. TypeOK
  <2>1. env \in {"none", "own", "source", "fresh"} /\ outcome \in Outcomes
        /\ plan.failed \in BOOLEAN
    BY DEF Init, Outcomes, NoPlan
  <2>2. runs \in 0 .. MaxRuns /\ faults \in 0 .. MaxFaults /\ at \in 0 .. AtMost(pc)
    BY BoundsAssumption, PathFacts DEF Init, AtMost
  <2>3. docker \in BOOLEAN /\ restarts \in BOOLEAN /\ privateKey \in BOOLEAN
        /\ authorised \in BOOLEAN
    BY DEF Init
  <2> QED
    BY <1>1, <2>1, <2>2, <2>3, CompletedAreStates, PlacesAreLabels DEF TypeOK, Types, AtMost
<1> QED
  BY <1>1, <1>2, <1>3 DEF SagaInv

\* All of it together.
ServerInv == TypeOK /\ SagaInv /\ LookedOnce

\* Every step keeps the invariant.
LEMMA ServerStep ==
  ASSUME "reuse_target" \notin Hazards
  PROVE  ServerInv /\ [Next]_vars => ServerInv'
<1> SUFFICES ASSUME ServerInv, [Next]_vars
             PROVE  ServerInv'
  OBVIOUS
<1>1. SagaInv' /\ LookedOnce'
  BY SagaStep DEF ServerInv
<1>2. CASE Next
  BY <1>1, <1>2, CompletedAreStates, PlacesAreLabels, FlagsStayFlags, CountsStayBounded,
     PlaceStaysInReach DEF ServerInv, SagaInv, Types, TypeOK, AtMost
<1>3. CASE UNCHANGED vars
  BY <1>1, <1>3 DEF ServerInv, vars, sourceVars, targetVars, sagaVars, TypeOK
<1> QED
  BY <1>1, <1>2, <1>3

(***************************************************************************)
(* For any number of runs, polls and faults, with an old box that reboots  *)
(* at will, when nobody runs against a target whose Coolify runs: TRANSFER *)
(* writes below no Coolify, what Coolify is installed over is all of a     *)
(* source that has stopped, and the fence falls only for a successor that  *)
(* has the key and answers (server/steps.py, server/statemachine.py).      *)
(***************************************************************************)
THEOREM StepsFindTheirWorld ==
  ASSUME "reuse_target" \notin Hazards
  PROVE  Spec => []StepsInOrder
<1>1. ServerInv => StepsInOrder
  <2> SUFFICES ASSUME ServerInv
               PROVE  StepsInOrder
    OBVIOUS
  <2>1. CopiedIntoInertTarget /\ InstalledOverWholeCopy
    BY DEF ServerInv, SagaInv, Rests, CopiedIntoInertTarget, InstalledOverWholeCopy, Inert,
       Installed, Stopped, Whole, Booting, Booted
  <2>2. FencedOnlyForASuccessor
    BY DEF ServerInv, SagaInv, Rests, Alive, FencedOnlyForASuccessor
  <2> QED
    BY <2>1, <2>2 DEF ServerInv, StepsInOrder
<1> QED
  BY <1>1, InitIsSafe, ServerStep, PTL DEF Spec, ServerInv

(***************************************************************************)
(* ... and whatever fails, whether or not the operator forces the run:     *)
(* the /data/coolify a target had before is never removed                  *)
(* (server/steps.py, undo_transfer).                                       *)
(***************************************************************************)
THEOREM ForcedRunsWipeNothing ==
  ASSUME "reuse_target" \notin Hazards
  PROVE  Spec => OwnInstanceKept
<1>1. ServerInv /\ [Next]_vars =>
        [inventory.had /\ holds["coolify"] # "none" => holds'["coolify"] # "none"]_vars
  <2> SUFFICES ASSUME ServerInv, Next, inventory.had, holds["coolify"] # "none"
               PROVE  holds'["coolify"] # "none"
    OBVIOUS
  <2>1. holds \in [PathSet -> PathContents]
    BY DEF ServerInv, TypeOK
  <2>2. CASE CopyPath \/ InstallCoolify \/ SourceWrites
    BY <2>1, <2>2, PathFacts DEF CopyPath, InstallCoolify, SourceWrites
  <2>3. CASE WipeTargetData
    BY <2>3 DEF WipeTargetData, MayWipe, ServerInv, LookedOnce
  <2>4. CASE UNCHANGED holds
    BY <2>4
  <2> QED
    BY <2>2, <2>3, <2>4 DEF Next, Step, RollbackStep, ReadingStep, Preflight, StopContainers,
       StopDaemon, InstallKey, EndTransfer, Verify, AssertAppKey, Boot, Probe, Sleep, Fence,
       StartSourceDocker, RevokeEphemeralKey, Run, Die, SourceReboots, sourceVars, targetVars
<1> QED
  BY <1>1, InitIsSafe, ServerStep, PTL DEF Spec, ServerInv, OwnInstanceKept

-----------------------------------------------------------------------------
(***************************************************************************)
(* Induction over the numbers, and what it shows of the sequence a plan    *)
(* is flattened from.  The induction is over a set of numbers,    *)
(* and needs no operator: a number that is not in the set would be a       *)
(* least one, since < is well-founded.                                     *)
(***************************************************************************)
\* A set with 0, and with the successor of what is in it, has every number.
LEMMA NatSetInduction ==
  ASSUME NEW S, 0 \in S, \A n \in Nat : n \in S => n + 1 \in S
  PROVE  Nat \subseteq S
<1> DEFINE R == {pair \in Nat \X Nat : pair[1] < pair[2]}
           T == Nat \ S
<1>1. IsWellFoundedOn(R, Nat)
  BY NatLessThanWellFounded DEF OpToRel
<1>2. SUFFICES ASSUME T # {} PROVE FALSE
  OBVIOUS
<1>3. PICK x \in T : \A y \in T : << y, x >> \notin R
  <2> HIDE DEF R, T
  <2>1. T \subseteq Nat
    BY DEF T
  <2> QED
    BY <1>1, <1>2, <2>1, WFMin
<1>4. x \in Nat /\ x # 0 /\ x - 1 \in Nat /\ x = (x - 1) + 1 /\ x - 1 < x
  OBVIOUS
<1>5. x - 1 \in T
  BY <1>4
<1>6. << x - 1, x >> \in R
  BY <1>4
<1> QED
  BY <1>3, <1>5, <1>6

\* The partial results of FlattenSeq, up to the n-th.
Flattens(f, seqs, n) ==
  f = [i \in 1 .. n |-> IF i = 1 THEN seqs[i] ELSE f[i - 1] \o seqs[i]]

\* Such results there are, however many sequences.
LEMMA FlattensSome ==
  ASSUME NEW seqs, NEW n \in Nat
  PROVE  \E f : Flattens(f, seqs, n)
<1> DEFINE T == {k \in Nat : \E f : Flattens(f, seqs, k)}
<1>1. 0 \in T
  <2>1. Flattens([i \in 1 .. 0 |-> seqs[i]], seqs, 0)
    BY DEF Flattens
  <2> QED
    BY <2>1
<1>2. ASSUME NEW k \in Nat, k \in T
      PROVE  k + 1 \in T
  <2>1. PICK f : Flattens(f, seqs, k)
    BY <1>2
  <2> DEFINE g == [i \in 1 .. k + 1 |-> IF i # k + 1 THEN f[i]
                                        ELSE IF i = 1 THEN seqs[i] ELSE f[i - 1] \o seqs[i]]
  <2>2. ASSUME NEW i \in 1 .. k + 1
        PROVE  g[i] = IF i = 1 THEN seqs[i] ELSE g[i - 1] \o seqs[i]
    <3>1. CASE i = k + 1
      <4>1. i # 1 => g[i - 1] = f[i - 1]
        BY <3>1
      <4> QED
        BY <3>1, <4>1
    <3>2. CASE i # k + 1
      <4>1. i \in 1 .. k /\ g[i] = f[i] /\ (i # 1 => g[i - 1] = f[i - 1])
        BY <3>2
      <4> QED
        BY <2>1, <4>1 DEF Flattens
    <3> QED
      BY <3>1, <3>2
  <2>3. Flattens(g, seqs, k + 1)
    <3>1. g = [i \in 1 .. k + 1 |-> g[i]]
      OBVIOUS
    <3> HIDE DEF g
    <3> QED
      BY <2>2, <3>1 DEF Flattens
  <2> HIDE DEF g
  <2> QED
    BY <2>3
<1> HIDE DEF T
<1>3. Nat \subseteq T
  BY <1>1, <1>2, NatSetInduction
<1> QED
  BY <1>3 DEF T

\* What is flattened is a sequence of all there is in the sequences, and no more.
LEMMA FlattenElements ==
  ASSUME NEW S, NEW seqs \in Seq(Seq(S))
  PROVE  /\ FlattenSeq(seqs) \in Seq(S)
         /\ ToSet(FlattenSeq(seqs)) = UNION {ToSet(seqs[i]) : i \in DOMAIN seqs}
<1>1. CASE seqs = << >>
  BY <1>1, EmptySeq DEF FlattenSeq, ToSet
<1>2. CASE seqs # << >>
  <2> DEFINE n == Len(seqs)
             f == CHOOSE g : Flattens(g, seqs, n)
  <2>1. n \in Nat \ {0} /\ DOMAIN seqs = 1 .. n /\ \A i \in 1 .. n : seqs[i] \in Seq(S)
    BY <1>2
  <2>2. FlattenSeq(seqs) = f[n]
    BY <2>1 DEF FlattenSeq, Flattens
  <2>3. Flattens(f, seqs, n)
    BY <2>1, FlattensSome
  <2> HIDE DEF f
  <2> DEFINE T == {k \in Nat : k + 1 \in 1 .. n =>
                     /\ f[k + 1] \in Seq(S)
                     /\ ToSet(f[k + 1]) = UNION {ToSet(seqs[i]) : i \in 1 .. k + 1}}
  <2> DEFINE Upto(k) == {ToSet(seqs[i]) : i \in 1 .. k}
  <2>4. 0 \in T
    <3>1. f[1] = seqs[1]
      BY <2>1, <2>3 DEF Flattens
    <3>2. Upto(1) = {ToSet(seqs[1])}
      <4>1. 1 .. 1 = {1}
        OBVIOUS
      <4> QED
        BY <4>1
    <3> QED
      BY <2>1, <3>1, <3>2
  <2>5. ASSUME NEW k \in Nat, k \in T
        PROVE  k + 1 \in T
    <3> DEFINE m == k + 2
    <3>1. k + 1 \in Nat /\ (k + 1) + 1 = m /\ m - 1 = k + 1 /\ m # 1
      OBVIOUS
    <3>2. ASSUME m \in 1 .. n
          PROVE  /\ f[m] \in Seq(S)
                 /\ ToSet(f[m]) = UNION Upto(m)
      <4>1. f[m] = f[k + 1] \o seqs[m]
        BY <2>3, <3>1, <3>2 DEF Flattens
      <4>2. f[k + 1] \in Seq(S) /\ ToSet(f[k + 1]) = UNION Upto(k + 1)
        BY <2>5, <3>2
      <4>3. seqs[m] \in Seq(S)
        BY <2>1, <3>2
      <4>4. ToSet(f[m]) = ToSet(f[k + 1]) \cup ToSet(seqs[m])
        <5>1. \A s : Range(s) = ToSet(s)
          BY DEF Range, ToSet
        <5> QED
          BY <4>1, <4>2, <4>3, <5>1, RangeConcatenation
      <4>5. Upto(m) = Upto(k + 1) \cup {ToSet(seqs[m])}
        <5>1. 1 .. m = (1 .. k + 1) \cup {m}
          OBVIOUS
        <5> HIDE DEF m
        <5> QED
          BY <5>1
      <4>6. UNION Upto(m) = (UNION Upto(k + 1)) \cup ToSet(seqs[m])
        <5> HIDE DEF Upto, m
        <5> QED
          BY <4>5
      <4> QED
        BY <4>1, <4>2, <4>3, <4>4, <4>6, ConcatProperties
    <3> HIDE DEF m, Upto
    <3> QED
      BY <3>1, <3>2 DEF Upto
  <2> HIDE DEF T
  <2>6. Nat \subseteq T
    BY <2>4, <2>5, NatSetInduction
  <2>7. n - 1 \in T /\ (n - 1) + 1 = n
    <3> HIDE DEF n
    <3> QED
      BY <2>1, <2>6
  <2> QED
    BY <2>1, <2>2, <2>7 DEF T
<1> QED
  BY <1>1, <1>2

-----------------------------------------------------------------------------
(***************************************************************************)
(* What the planner plans, for any order and any map of compensations.     *)
(***************************************************************************)
\* A fold over nothing is where it begins.
LEMMA NothingToMove ==
  ASSUME NEW base
  PROVE  Planner!FoldLeft(Planner!MoveForward, base, << >>) = base
<1> DEFINE iter == CHOOSE f : f = [s \in SUBSET {} |->
             IF s = {} THEN base ELSE Planner!MoveForward(f[s \ {Planner!Max(s)}], << >>[Planner!Max(s)])]
<1>1. iter = [s \in SUBSET {} |->
             IF s = {} THEN base ELSE Planner!MoveForward(iter[s \ {Planner!Max(s)}], << >>[Planner!Max(s)])]
  <2> DEFINE g == [s \in SUBSET {} |-> base]
  <2>1. g = [s \in SUBSET {} |->
             IF s = {} THEN base ELSE Planner!MoveForward(g[s \ {Planner!Max(s)}], << >>[Planner!Max(s)])]
    OBVIOUS
  <2> QED
    BY <2>1
<1>2. iter[{}] = base
  BY <1>1
<1>3. DOMAIN << >> = {}
  OBVIOUS
<1> QED
  BY <1>2, <1>3 DEF Planner!FoldLeft, Planner!MapThenFoldSet

\* Without precedences the plan is all the steps of what completed, and no others.
LEMMA PlanHoldsTheDebts ==
  ASSUME NEW S, NEW C, NEW order \in Seq(S), NEW completed \in Seq(S),
         NEW owes, \A s \in DOMAIN owes : owes[s] \in Seq(C)
  PROVE  LET steps == Planner!PlanFor(completed, order, owes, << >>)
             owing == ToSet(completed) \cap DOMAIN owes \cap ToSet(order)
         IN  /\ steps \in Seq([compensation : C, because_of : DOMAIN owes])
             /\ \A step : step \in ToSet(steps) <=>
                  \E s \in owing : step \in ToSet(Planner!StepsOf(s, owes))
<1> DEFINE seen == ToSet(completed) \cap DOMAIN owes
           last == Reverse(order)
           Steps == [compensation : C, because_of : DOMAIN owes]
           seqs == [i \in DOMAIN last |-> Planner!OwedSteps(last[i], seen, owes)]
<1>1. last \in Seq(S) /\ ToSet(last) = ToSet(order)
  <2>1. Len(order) \in Nat /\ DOMAIN order = 1 .. Len(order) /\ \A i \in 1 .. Len(order) : order[i] \in S
    OBVIOUS
  <2>2. last \in Seq(S) /\ DOMAIN last = 1 .. Len(order)
        /\ \A i \in 1 .. Len(order) : last[i] = order[Len(order) - i + 1]
    BY <2>1 DEF Reverse
  <2>3. \A i \in 1 .. Len(order) : Len(order) - i + 1 \in 1 .. Len(order)
           /\ last[Len(order) - i + 1] = order[i]
    BY <2>1, <2>2
  <2> HIDE DEF last
  <2>4. ToSet(last) \subseteq ToSet(order)
    <3> SUFFICES ASSUME NEW i \in 1 .. Len(order)
                 PROVE  last[i] \in {order[j] : j \in 1 .. Len(order)}
      BY <2>1, <2>2 DEF ToSet
    <3>1. Len(order) - i + 1 \in 1 .. Len(order)
      BY <2>1
    <3> QED
      BY <2>2, <3>1
  <2>5. ToSet(order) \subseteq ToSet(last)
    BY <2>1, <2>2, <2>3 DEF ToSet
  <2> QED
    BY <2>2, <2>4, <2>5
<1> HIDE DEF last
<1>2. \A s \in DOMAIN owes : Planner!StepsOf(s, owes) \in Seq(Steps)
  <2> TAKE s \in DOMAIN owes
  <2>1. owes[s] \in Seq(C) /\ DOMAIN owes[s] = 1 .. Len(owes[s]) /\ Len(owes[s]) \in Nat
    OBVIOUS
  <2>2. \A i \in 1 .. Len(owes[s]) : Planner!Step(owes[s][i], s) \in Steps
    BY <2>1 DEF Planner!Step
  <2> QED
    BY <2>1, <2>2 DEF Planner!StepsOf
<1>3. seqs \in Seq(Seq(Steps))
  <2>1. \A i \in DOMAIN last : seqs[i] \in Seq(Steps)
    <3>1. << >> \in Seq(Steps)
      BY EmptySeq
    <3> HIDE DEF Steps
    <3> QED
      BY <1>2, <3>1 DEF Planner!OwedSteps
  <2>2. DOMAIN last = 1 .. Len(last) /\ Len(last) \in Nat
    BY <1>1
  <2> HIDE DEF Steps
  <2>3. seqs = [i \in 1 .. Len(last) |-> seqs[i]]
    BY <2>2
  <2> HIDE DEF seqs
  <2> QED
    BY <2>1, <2>2, <2>3, IsASeq
<1>4. Planner!PlanFor(completed, order, owes, << >>) = FlattenSeq(seqs)
  <2>1. Planner!ToSet(completed) = ToSet(completed)
    BY DEF Planner!ToSet, ToSet
  <2>2. Planner!Reverse(order) = last
    BY DEF Planner!Reverse, Reverse, last
  <2>3. Planner!FlattenSeq(seqs) = FlattenSeq(seqs)
    <3> HIDE DEF seqs
    <3> QED
      BY DEF Planner!FlattenSeq, FlattenSeq
  <2>4. Planner!PlanFor(completed, order, owes, << >>) =
          Planner!FoldLeft(Planner!MoveForward, Planner!FlattenSeq(seqs), << >>)
    BY <2>1, <2>2 DEF Planner!PlanFor
  <2> HIDE DEF seqs
  <2> QED
    BY <2>3, <2>4, NothingToMove
<1>5. ASSUME NEW step
      PROVE  step \in ToSet(FlattenSeq(seqs)) <=>
               \E s \in ToSet(completed) \cap DOMAIN owes \cap ToSet(order) :
                 step \in ToSet(Planner!StepsOf(s, owes))
  <2>1. step \in ToSet(FlattenSeq(seqs)) <=> \E i \in DOMAIN last : step \in ToSet(seqs[i])
    <3> HIDE DEF Steps
    <3>1. ToSet(FlattenSeq(seqs)) = UNION {ToSet(seqs[i]) : i \in DOMAIN seqs}
      <4> HIDE DEF seqs
      <4> QED
        BY <1>3, FlattenElements
    <3>2. DOMAIN seqs = DOMAIN last
      OBVIOUS
    <3> HIDE DEF seqs
    <3> QED
      BY <3>1, <3>2
  <2>2. ASSUME NEW i \in DOMAIN last
        PROVE  step \in ToSet(seqs[i]) <=>
                 last[i] \in seen /\ step \in ToSet(Planner!StepsOf(last[i], owes))
    <3>1. seqs[i] = IF last[i] \in seen THEN Planner!StepsOf(last[i], owes) ELSE << >>
      BY DEF Planner!OwedSteps
    <3>2. ToSet(<< >>) = {}
      BY DEF ToSet
    <3> HIDE DEF seqs, seen
    <3> QED
      BY <3>1, <3>2
  <2>3. ToSet(last) = ToSet(order) /\ ToSet(last) = {last[i] : i \in DOMAIN last}
    BY <1>1 DEF ToSet
  <2> HIDE DEF seqs
  <2> QED
    BY <2>1, <2>2, <2>3
<1>6. FlattenSeq(seqs) \in Seq(Steps)
  <2> HIDE DEF Steps, seqs
  <2> QED
    BY <1>3, FlattenElements
<1> QED
  BY <1>4, <1>5, <1>6

-----------------------------------------------------------------------------
(***************************************************************************)
(* What a rollback owes: what completed is planned when a state fails, and *)
(* a step leaves the plan only when it has been taken.                     *)
(***************************************************************************)
Owing == {"stop_source", "transfer", "fence_source"}
Undos == {"start_source_docker", "wipe_target_data", "revoke_ephemeral_key", "unfence_source"}
RollbackSteps == [compensation : Undos, because_of : Owing]

Completed == ToSet(journal.completed)
Planned(c) == \E i \in DOMAIN plan.steps : plan.steps[i].compensation = c

Revoked == ~authorised /\ ~privateKey
Wiped == inventory.empty => holds["coolify"] = "none" /\ holds["volumes"] = "none"

\* What is still to be undone is still planned, unless something failed.
Pending ==
  /\ docker \/ Planned("start_source_docker")
  /\ "transfer" \in Completed /\ faults = 0 =>
       /\ Revoked \/ Planned("revoke_ephemeral_key")
       /\ Wiped \/ Planned("wipe_target_data")

Recorded ==
  /\ plan.steps \in Seq(RollbackSteps) /\ faults \in Nat
  /\ pc # "idle" => outcome = "running"
  /\ pc \in Stopped => "stop_source" \in Completed
  /\ Completed \cap Owing # {} => "stop_source" \in Completed
  /\ "transfer" \in Completed => journal.copied = PathSet
  /\ pc = "rollback" => plan.steps # << >>

DebtInv ==
  /\ Types /\ Recorded
  /\ pc = "rollback" /\ ~plan.failed => Pending
  /\ RolledBackIsUndone

\* The plan of a state that failed.
LEMMA FailureIsPlanned ==
  ASSUME Types, Recorded, Fail
  PROVE  /\ plan'.steps \in Seq(RollbackSteps) /\ plan'.failed = FALSE
         /\ pc' = IF plan'.steps = << >> THEN "idle" ELSE "rollback"
         /\ plan'.steps # << >> => Planned("start_source_docker")'
         /\ "transfer" \in Completed =>
              Planned("wipe_target_data")' /\ Planned("revoke_ephemeral_key")'
<1> DEFINE steps == Planner!PlanFor(journal.completed, Order, Compensation, << >>)
<1>1. plan' = [steps |-> steps, failed |-> FALSE]
      /\ pc' = IF steps = << >> THEN "idle" ELSE "rollback"
  BY DEF Fail
<1>2. /\ journal.completed \in Seq(States) /\ Order \in Seq(States)
      /\ DOMAIN Compensation = Owing /\ \A s \in Owing : Compensation[s] \in Seq(Undos)
  <2>1. Order \in Seq(States)
    <3>1. Len(Order) = 13 /\ DOMAIN Order = 1 .. 13 /\ Order = [i \in 1 .. 13 |-> Order[i]]
      BY DEF Order
    <3>2. \A i \in 1 .. 13 : Order[i] \in States
      BY <3>1 DEF States
    <3> QED
      BY <3>1, <3>2, IsASeq
  <2>2. DOMAIN Compensation = Owing
    BY DEF Compensation, Owing
  <2>3. \A s \in Owing : Compensation[s] \in Seq(Undos)
    <3>1. /\ Compensation["stop_source"] = << "start_source_docker" >>
          /\ Compensation["transfer"] = << "wipe_target_data", "revoke_ephemeral_key" >>
          /\ Compensation["fence_source"] = << "unfence_source" >>
      BY DEF Compensation
    <3>2. /\ << "start_source_docker" >> \in Seq(Undos)
          /\ << "wipe_target_data", "revoke_ephemeral_key" >> \in Seq(Undos)
          /\ << "unfence_source" >> \in Seq(Undos)
      BY DEF Undos
    <3> QED
      BY <3>1, <3>2 DEF Owing
  <2> QED
    BY <2>1, <2>2, <2>3 DEF Types
<1>3. /\ steps \in Seq(RollbackSteps)
      /\ \A step : step \in ToSet(steps) <=>
           \E s \in Completed \cap Owing \cap ToSet(Order) :
             step \in ToSet(Planner!StepsOf(s, Compensation))
  <2> HIDE DEF steps
  <2> QED
    BY <1>2, PlanHoldsTheDebts DEF RollbackSteps, Completed, steps
<1> HIDE DEF steps
<1>4. ASSUME NEW s \in Completed \cap Owing, NEW c, c \in ToSet(Compensation[s])
      PROVE  \E i \in DOMAIN steps : steps[i].compensation = c
  <2>1. PICK k \in DOMAIN Compensation[s] : Compensation[s][k] = c
    BY <1>4 DEF ToSet
  <2>2. Planner!Step(c, s) \in ToSet(Planner!StepsOf(s, Compensation))
    BY <2>1 DEF Planner!StepsOf, ToSet
  <2>3. ToSet(Order) = States /\ s \in States
    BY OrderFacts DEF ToSet, States, Owing, Inert, Booted
  <2>4. Planner!Step(c, s) \in ToSet(steps)
    BY <1>3, <2>2, <2>3
  <2> QED
    BY <2>4 DEF ToSet, Planner!Step
<1>5. steps # << >> => Completed \cap Owing # {}
  <2> SUFFICES ASSUME steps # << >>
               PROVE  Completed \cap Owing # {}
    OBVIOUS
  <2>1. steps[1] \in ToSet(steps)
    BY <1>3 DEF ToSet
  <2> QED
    BY <1>3, <2>1
<1>6. /\ "start_source_docker" \in ToSet(Compensation["stop_source"])
      /\ {"wipe_target_data", "revoke_ephemeral_key"} \subseteq ToSet(Compensation["transfer"])
  BY DEF Compensation, ToSet
<1>7. steps # << >> => \E i \in DOMAIN steps : steps[i].compensation = "start_source_docker"
  BY <1>4, <1>5, <1>6 DEF Recorded, Owing
<1>8. "transfer" \in Completed =>
        /\ \E i \in DOMAIN steps : steps[i].compensation = "wipe_target_data"
        /\ \E i \in DOMAIN steps : steps[i].compensation = "revoke_ephemeral_key"
  BY <1>4, <1>6 DEF Owing
<1> QED
  BY <1>1, <1>3, <1>7, <1>8 DEF Planned

\* Only the step that was due leaves the plan.
LEMMA OneStepIsTaken ==
  ASSUME Recorded, pc = "rollback", NEW ok \in BOOLEAN, Compensated(ok)
  PROVE  /\ plan'.steps \in Seq(RollbackSteps)
         /\ pc' = IF plan'.steps = << >> THEN "idle" ELSE "rollback"
         /\ outcome' = IF plan'.steps # << >> THEN "running"
                       ELSE IF plan'.failed THEN "rollback_failed" ELSE "rolled_back"
         /\ ~plan'.failed => ~plan.failed /\ ok
         /\ \A c : Planned(c) => c = Head(plan.steps).compensation \/ Planned(c)'
<1>1. plan.steps \in Seq(RollbackSteps) /\ plan.steps # << >> /\ outcome = "running"
  BY DEF Recorded
<1>2. plan' = [steps |-> Tail(plan.steps), failed |-> plan.failed \/ ~ok]
  BY DEF Compensated
<1>3. Tail(plan.steps) \in Seq(RollbackSteps)
  BY <1>1
<1>4. ASSUME NEW i \in DOMAIN plan.steps, i # 1
      PROVE  i - 1 \in DOMAIN Tail(plan.steps) /\ Tail(plan.steps)[i - 1] = plan.steps[i]
  BY <1>1, <1>4
<1>5. Head(plan.steps) = plan.steps[1]
  BY <1>1
<1>6. \A c : Planned(c) => c = Head(plan.steps).compensation \/ Planned(c)'
  BY <1>2, <1>4, <1>5 DEF Planned
<1>7. ~plan'.failed => ~plan.failed /\ ok
  BY <1>2
<1>8. /\ pc' = IF plan'.steps = << >> THEN "idle" ELSE "rollback"
      /\ outcome' = IF plan'.steps # << >> THEN "running"
                    ELSE IF plan'.failed THEN "rollback_failed" ELSE "rolled_back"
  <2>1. plan'.failed = (plan.failed \/ ~ok) /\ plan'.steps = Tail(plan.steps)
    BY <1>2
  <2> QED
    BY <1>1, <2>1 DEF Compensated
<1> QED
  BY <1>2, <1>3, <1>6, <1>7, <1>8

\* How a step of the saga leaves its state: for the next, for the rollback, or
\* where it was.
LEMMA StepsMoveOn ==
  ASSUME Types, Step
  PROVE  /\ pc \notin {"idle", "rollback"}
         /\ \/ EndTransfer
            \/ Fail
            \/ \E state \in States \ {"done", "transfer"} :
                 state = (IF pc = "probe" THEN "boot" ELSE pc) /\ Complete(state)
            \/ \E label \in {pc} \cup Booting : \E n :
                 (label = pc \/ pc \in Booting) /\ Stay(label, n)
<1> USE DEF Inert, Booted, Booting
<1>1. States = Inert \cup {"assert_app_key", "boot"} \cup Booted \cup {"done"}
  BY OrderFacts
<1>2. CASE ReadingStep \/ Preflight \/ StopDaemon \/ Verify \/ InstallCoolify \/ AssertAppKey \/ Fence
  BY <1>1, <1>2 DEF ReadingStep, Preflight, StopDaemon, Verify, InstallCoolify,
     AssertAppKey, Fence
<1>3. CASE StopContainers \/ InstallKey \/ CopyPath
  BY <1>3 DEF StopContainers, InstallKey, CopyPath
<1>4. CASE EndTransfer
  BY <1>4 DEF EndTransfer
<1>5. CASE Boot \/ Sleep
  BY <1>5 DEF Boot, Sleep
<1>6. CASE Probe
  BY <1>1, <1>6 DEF Probe
<1> QED
  BY <1>2, <1>3, <1>4, <1>5, <1>6 DEF Step

\* What a step of the saga leaves of the two hosts.
LEMMA HostsKeepTheirTypes ==
  ASSUME Types, Next
  PROVE  /\ running' \subseteq Containers
         /\ holds' \in [PathSet -> PathContents]
         /\ marker' \in BOOLEAN /\ coolify' \in BOOLEAN
<1> USE DEF Types, sourceVars, targetVars, PathContents
<1>1. CASE ReadingStep \/ Preflight \/ StopDaemon \/ Verify \/ AssertAppKey \/ InstallKey
             \/ EndTransfer \/ Boot \/ Probe \/ Sleep \/ Run \/ Die \/ RevokeEphemeralKey
  BY <1>1 DEF ReadingStep, Preflight, StopDaemon, Verify, AssertAppKey, InstallKey,
     EndTransfer, Boot, Probe, Sleep, Run, Die, RevokeEphemeralKey
<1>2. CASE StopContainers \/ StartSourceDocker \/ SourceReboots
  BY <1>2 DEF StopContainers, StartSourceDocker, SourceReboots, Containers
<1>3. CASE CopyPath
  BY <1>3 DEF CopyPath
<1>4. CASE InstallCoolify
  BY <1>4 DEF InstallCoolify
<1>5. CASE Fence
  BY <1>5 DEF Fence
<1>6. CASE WipeTargetData
  BY <1>6 DEF WipeTargetData
<1>7. CASE SourceWrites
  BY <1>7 DEF SourceWrites
<1> QED
  BY <1>1, <1>2, <1>3, <1>4, <1>5, <1>6, <1>7 DEF Next, Step, RollbackStep

\* Faults are counted.
LEMMA FaultsAreCounted ==
  ASSUME faults \in Nat, Next
  PROVE  faults' \in Nat
<1> USE DEF sourceVars, targetVars, Rest
<1>1. ASSUME NEW succeeds \in BOOLEAN, Revoke(succeeds)
      PROVE  faults' \in Nat
  <2>1. faults' = faults \/ faults' = faults + 1
    BY <1>1, ZenonT(20) DEF Revoke
  <2> QED
    BY <2>1
<1>2. CASE Fence \/ RevokeEphemeralKey
  BY <1>1, <1>2 DEF Fence, RevokeEphemeralKey
<1>3. CASE WipeTargetData
  BY <1>3 DEF WipeTargetData
<1>4. CASE Die
  BY <1>4 DEF Die
<1> QED
  BY <1>2, <1>3, <1>4 DEF Next, Step, RollbackStep, ReadingStep, Preflight, StopContainers,
     StopDaemon, InstallKey, CopyPath, EndTransfer, Verify, InstallCoolify, AssertAppKey,
     Boot, Probe, Sleep, StartSourceDocker, Run, SourceWrites, SourceReboots

\* A step of the saga records what it did, and plans for it when it fails.
LEMMA StepsRecord ==
  ASSUME DebtInv, Step
  PROVE  DebtInv'
<1> USE DEF DebtInv
<1>1. pc \notin {"idle", "rollback"} /\ outcome = "running"
  BY StepsMoveOn DEF Recorded
<1>2. /\ running' \subseteq Containers
      /\ holds' \in [PathSet -> PathContents]
      /\ marker' \in BOOLEAN /\ coolify' \in BOOLEAN /\ faults' \in Nat
  BY HostsKeepTheirTypes, FaultsAreCounted DEF Next, Recorded
<1>3. States = Inert \cup {"assert_app_key", "boot"} \cup Booted \cup {"done"}
  BY OrderFacts
<1>4. CASE Fail
  <2>1. UNCHANGED << journal, inventory >> /\ outcome' \in {"running", "failed"}
    BY <1>1, <1>4 DEF Fail
  <2>2. pc' \in {"idle", "rollback"} /\ (pc' = "rollback" => outcome' = "running")
    BY <1>1, <1>4 DEF Fail
  <2>3. Types' /\ Recorded'
    BY <1>2, <1>4, <2>1, <2>2, FailureIsPlanned
       DEF Types, Recorded, Completed, Stopped, Whole, Installed, Booting, Booted
  <2>4. pc' = "rollback" => Pending'
    BY <1>4, <2>1, FailureIsPlanned DEF Pending, Completed
  <2> QED
    BY <2>1, <2>3, <2>4 DEF RolledBackIsUndone
<1>5. CASE \E label \in {pc} \cup Booting : \E n :
                 (label = pc \/ pc \in Booting) /\ Stay(label, n)
  BY <1>1, <1>2, <1>5 DEF Stay, Types, Recorded, Completed, Stopped, Whole, Installed, Inert,
     Booting, Booted, RolledBackIsUndone
<1>6. CASE EndTransfer
  <2>1. pc = "transfer" /\ pc' = "verify" /\ journal' \in [completed : Seq(States), copied : SUBSET PathSet]
        /\ journal'.copied = PathSet /\ journal'.completed = Append(journal.completed, "transfer")
        /\ UNCHANGED << outcome, inventory, plan >>
    BY <1>3, <1>6, OrderFacts, CompletedGrows DEF EndTransfer, Inert, Types
  <2>2. Completed' = Completed \cup {"transfer"}
    BY <1>3, <2>1, CompletedGrows DEF Completed, Inert
  <2> QED
    BY <1>1, <1>2, <2>1, <2>2 DEF Types, Recorded, Stopped, Inert, RolledBackIsUndone
<1>7. ASSUME NEW state \in States \ {"done", "transfer"},
             state = (IF pc = "probe" THEN "boot" ELSE pc), Complete(state)
      PROVE  DebtInv'
  <2>1. /\ pc' = IF state = "fence_source" THEN "idle" ELSE Order[Position(state) + 1]
        /\ UNCHANGED << inventory, plan >>
        /\ journal'.copied = journal.copied
        /\ journal'.completed = Append(journal.completed, state)
        /\ journal' \in [completed : Seq(States), copied : SUBSET PathSet]
        /\ outcome' = IF state = "fence_source" THEN "succeeded" ELSE "running"
    BY <1>1, <1>3, <1>7, OrderFacts, CompletedGrows DEF Complete, Types, Inert, Booted
  <2>2. Completed' = Completed \cup {state}
    BY <1>7, <2>1, CompletedGrows DEF Completed
  <2>3. Types'
    BY <1>2, <1>3, <1>7, <2>1, OrderFacts DEF Types, Inert, Installed, Booting, Booted
  <2>4. Recorded'
    <3>1. pc' \in Stopped => pc \in Stopped \/ state = "stop_source"
      BY <1>3, <1>7, <2>1, OrderFacts
         DEF Types, Stopped, Whole, Installed, Inert, Booting, Booted
    <3>2. state \in Owing => state = "stop_source" \/ pc \in Stopped
      BY <1>7 DEF Owing, Stopped, Whole, Installed, Booting, Booted
    <3>3. pc' # "rollback" /\ (pc' # "idle" => outcome' = "running")
      BY <1>3, <1>7, <2>1, OrderFacts DEF Inert, Booted
    <3> QED
      BY <1>2, <1>7, <2>1, <2>2, <3>1, <3>2, <3>3 DEF Recorded
  <2>5. pc' # "rollback" /\ outcome' # "rolled_back"
    BY <1>3, <1>7, <2>1, OrderFacts DEF Inert, Booted
  <2> QED
    BY <2>3, <2>4, <2>5 DEF RolledBackIsUndone
<1> QED
  BY <1>4, <1>5, <1>6, <1>7, StepsMoveOn

\* A step of the rollback undoes what it was planned for, or says that it failed.
LEMMA UndoingIsKept ==
  ASSUME DebtInv, RollbackStep
  PROVE  DebtInv'
<1> USE DEF DebtInv
<1>1. pc = "rollback" /\ UNCHANGED << journal, inventory >>
  BY DEF RollbackStep, StartSourceDocker, WipeTargetData, RevokeEphemeralKey, Due, Compensated
<1>2. Types'
  <2>1. /\ running' \subseteq Containers
        /\ holds' \in [PathSet -> PathContents]
        /\ marker' \in BOOLEAN /\ coolify' \in BOOLEAN
    BY HostsKeepTheirTypes DEF Next
  <2>2. \E ok \in BOOLEAN : Compensated(ok)
    BY DEF RollbackStep, StartSourceDocker, WipeTargetData, RevokeEphemeralKey
  <2> QED
    BY <1>1, <2>1, <2>2, OneStepIsTaken DEF Types
<1>3. ASSUME NEW ok \in BOOLEAN, Compensated(ok), ~plan'.failed => Pending'
      PROVE  DebtInv'
  <2>1. Recorded'
    BY <1>1, <1>3, OneStepIsTaken, FaultsAreCounted
       DEF Next, Recorded, Completed, Stopped, Whole, Installed, Booting, Booted
  <2>2. RolledBackIsUndone'
    <3> SUFFICES ASSUME outcome' = "rolled_back"
                 PROVE  /\ docker'
                        /\ "transfer" \in ToSet(journal'.completed) /\ faults' = 0 =>
                             Revoked' /\ Wiped'
      BY DEF RolledBackIsUndone, Revoked, Wiped
    <3>1. plan'.steps = << >> /\ ~plan'.failed
      BY <1>1, <1>3, OneStepIsTaken
    <3>2. \A c : ~Planned(c)'
      BY <3>1 DEF Planned
    <3> QED
      BY <1>3, <3>1, <3>2 DEF Pending, Completed
  <2> QED
    BY <1>2, <1>3, <2>1, <2>2
<1>4. CASE StartSourceDocker
  <2>1. PICK ok \in BOOLEAN : Compensated(ok) /\ (ok => docker')
    BY <1>4 DEF StartSourceDocker
  <2>2. UNCHANGED << holds, authorised, privateKey, faults >>
        /\ Head(plan.steps).compensation = "start_source_docker"
    BY <1>4 DEF StartSourceDocker, Due, Rest, targetVars
  <2>3. ~plan'.failed => Pending'
    <3> SUFFICES ASSUME ~plan'.failed
                 PROVE  Pending'
      OBVIOUS
    <3>1. ok /\ Pending
      BY <1>1, <2>1, OneStepIsTaken
    <3>2. \A c : Planned(c) => c = "start_source_docker" \/ Planned(c)'
      BY <1>1, <2>1, <2>2, OneStepIsTaken
    <3>3. Revoked' = Revoked /\ Wiped' = Wiped /\ Completed' = Completed
      BY <1>1, <2>2 DEF Revoked, Wiped, Completed
    <3> QED
      BY <2>1, <2>2, <3>1, <3>2, <3>3 DEF Pending
  <2> QED
    BY <1>3, <2>1, <2>3
<1>5. CASE WipeTargetData
  <2>1. Compensated(TRUE) /\ UNCHANGED << docker, authorised, privateKey >>
        /\ Head(plan.steps).compensation = "wipe_target_data"
    BY <1>5 DEF WipeTargetData, Due, sourceVars
  <2>2. PICK gone \in SUBSET journal.copied :
          IF MayWipe
          THEN /\ faults' = faults + (IF gone = journal.copied THEN 0 ELSE 1)
               /\ holds' = [p \in PathSet |-> IF p \in gone THEN "none" ELSE holds[p]]
          ELSE UNCHANGED << holds, faults >>
    BY <1>5 DEF WipeTargetData
  <2>3. ~plan'.failed => Pending'
    <3> SUFFICES ASSUME ~plan'.failed
                 PROVE  Pending'
      OBVIOUS
    <3>1. Pending
      BY <1>1, <2>1, OneStepIsTaken
    <3>2. \A c : Planned(c) => c = "wipe_target_data" \/ Planned(c)'
      BY <1>1, <2>1, OneStepIsTaken
    <3>3. Revoked' = Revoked /\ Completed' = Completed
      BY <1>1, <2>1 DEF Revoked, Completed
    <3>4. ASSUME "transfer" \in Completed, faults' = 0
          PROVE  faults = 0 /\ Wiped'
      <4>1. CASE MayWipe
        <5>1. faults = 0 /\ gone = journal.copied /\ journal.copied = PathSet
          BY <2>2, <3>4, <4>1 DEF Recorded
        <5> QED
          BY <2>2, <4>1, <5>1, PathFacts DEF Wiped
      <4>2. CASE ~MayWipe
        BY <1>1, <2>2, <3>4, <4>2 DEF MayWipe, Wiped
      <4> QED
        BY <4>1, <4>2
    <3> QED
      BY <2>1, <3>1, <3>2, <3>3, <3>4 DEF Pending
  <2> QED
    BY <1>3, <2>1, <2>3
<1>6. CASE RevokeEphemeralKey
  <2>1. PICK succeeds \in BOOLEAN, raises \in BOOLEAN : Revoke(succeeds) /\ Compensated(~raises)
    BY <1>6 DEF RevokeEphemeralKey
  <2>2. UNCHANGED << docker, holds >> /\ Head(plan.steps).compensation = "revoke_ephemeral_key"
    BY <1>6 DEF RevokeEphemeralKey, Due
  <2>3. faults' = 0 => faults = 0 /\ Revoked'
    <3>1. \/ faults' = faults + 1
          \/ authorised' = FALSE /\ privateKey' = FALSE /\ faults' = faults
      BY <2>1, ZenonT(20) DEF Revoke
    <3>2. faults \in Nat
      BY DEF Recorded
    <3>3. CASE faults' = faults + 1
      BY <3>2, <3>3
    <3> QED
      BY <3>1, <3>3 DEF Revoked
  <2>4. ~plan'.failed => Pending'
    <3> SUFFICES ASSUME ~plan'.failed
                 PROVE  Pending'
      OBVIOUS
    <3>1. (~raises) \in BOOLEAN
      OBVIOUS
    <3>2. Pending /\ \A c : Planned(c) => c = "revoke_ephemeral_key" \/ Planned(c)'
      BY <1>1, <2>1, <2>2, <3>1, OneStepIsTaken
    <3>3. Wiped' = Wiped /\ Completed' = Completed
      BY <1>1, <2>2 DEF Wiped, Completed
    <3> QED
      BY <2>2, <2>3, <3>2, <3>3 DEF Pending
  <2> QED
    BY <1>3, <2>1, <2>4
<1> QED
  BY <1>4, <1>5, <1>6 DEF RollbackStep

\* Every step keeps it, a target that is used again or not.
LEMMA DebtStep == DebtInv /\ [Next]_vars => DebtInv'
<1> SUFFICES ASSUME DebtInv, [Next]_vars
             PROVE  DebtInv'
  OBVIOUS
<1> USE DEF DebtInv, sourceVars, targetVars
<1>1. CASE Next
  <2>1. /\ running' \subseteq Containers
        /\ holds' \in [PathSet -> PathContents]
        /\ marker' \in BOOLEAN /\ coolify' \in BOOLEAN /\ faults' \in Nat
    BY <1>1, HostsKeepTheirTypes, FaultsAreCounted DEF Recorded
  <2>2. CASE Run
    <3>1. /\ journal' = NoJournal /\ plan' = NoPlan /\ pc' = "init" /\ outcome' = "running"
          /\ inventory' \in [empty : BOOLEAN, force : BOOLEAN, had : BOOLEAN]
      BY <2>2 DEF Run, TargetIsEmpty
    <3>2. Completed' = {} /\ journal' \in [completed : Seq(States), copied : SUBSET PathSet]
          /\ plan'.steps \in Seq(RollbackSteps)
      BY <3>1, EmptySeq DEF NoJournal, NoPlan, Completed, ToSet
    <3> QED
      BY <2>1, <3>1, <3>2 DEF Types, Recorded, RolledBackIsUndone, Stopped, Whole, Installed,
         Inert, Booting, Booted
  <2>3. CASE Die
    <3>1. /\ UNCHANGED << journal, inventory >> /\ plan'.steps = << >>
          /\ pc' = "idle" /\ outcome' = "died"
      BY <2>3 DEF Die, NoPlan
    <3> QED
      BY <2>1, <3>1, EmptySeq DEF Types, Recorded, Completed, RolledBackIsUndone, Stopped,
         Whole, Installed, Booting, Booted
  <2>4. CASE SourceWrites
    <3>1. /\ UNCHANGED << docker, authorised, privateKey, sagaVars, faults >>
          /\ \A p \in PathSet : holds[p] = "none" => holds'[p] = "none"
      BY <2>4 DEF SourceWrites
    <3>2. Types' /\ Recorded'
      BY <2>1, <3>1 DEF Types, Recorded, Completed, sagaVars
    <3>3. Revoked' = Revoked /\ Completed' = Completed /\ (Wiped => Wiped')
          /\ \A c : Planned(c)' <=> Planned(c)
      BY <3>1, PathFacts DEF Revoked, Completed, Wiped, Planned, sagaVars
    <3>4. pc = "rollback" /\ ~plan.failed => Pending'
      BY <3>1, <3>3 DEF Pending
    <3>5. RolledBackIsUndone'
      BY <3>1, PathFacts DEF RolledBackIsUndone, sagaVars
    <3> QED
      BY <3>1, <3>2, <3>4, <3>5 DEF sagaVars
  <2>5. CASE SourceReboots
    BY <2>1, <2>5 DEF SourceReboots, sagaVars, Types, Recorded, Completed, RolledBackIsUndone
  <2> QED
    BY <1>1, <2>2, <2>3, <2>4, <2>5, StepsRecord, UndoingIsKept DEF Next
<1>2. CASE UNCHANGED vars
  <2>1. Types' /\ Recorded'
    BY <1>2 DEF vars, sagaVars, Types, Recorded, Completed
  <2>2. Pending' = Pending
    BY <1>2 DEF vars, sagaVars, Pending, Completed, Planned, Revoked, Wiped
  <2> QED
    BY <1>2, <2>1, <2>2 DEF vars, sagaVars, RolledBackIsUndone
<1> QED
  BY <1>1, <1>2

(***************************************************************************)
(* A rollback that says it is complete is: the daemon is up again and, if  *)
(* TRANSFER had completed and nothing failed, both halves of its key and   *)
(* what it copied to an empty target are gone - however often it ran or    *)
(* died before, and whatever the target (engine/executor.py, Saga.run and  *)
(* rollback; server/steps.py).                                             *)
(***************************************************************************)
THEOREM RollbackUndoes == Spec => []RolledBackIsUndone
<1>1. Init => DebtInv
  <2> SUFFICES ASSUME Init
               PROVE  DebtInv
    OBVIOUS
  <2>1. Types
    BY InitIsSafe DEF SagaInv
  <2>2. Completed = {} /\ plan.steps = << >>
    BY DEF Init, NoJournal, NoPlan, Completed, ToSet
  <2> QED
    BY <2>1, <2>2, EmptySeq DEF Init, DebtInv, Recorded, RolledBackIsUndone, Stopped,
       Whole, Installed, Booting, Booted
<1> QED
  BY <1>1, DebtStep, PTL DEF Spec, DebtInv

=============================================================================
