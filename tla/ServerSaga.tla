----------------------------- MODULE ServerSaga -----------------------------
(***************************************************************************)
(* The migration of a whole Coolify instance: the machine of               *)
(* server/statemachine.py, the steps and compensations of server/steps.py  *)
(* with the fence and the APP_KEY checks under them, and the executor's    *)
(* run and rollback as this machine configures them (engine/executor.py:   *)
(* no owed rule, no guard, no resume; what completed is what is undone).   *)
(*                                                                         *)
(* Two hosts.  On the source: the Docker daemon, the containers, the key.  *)
(* On the target: what each copied path holds, the .env's APP_KEY, and     *)
(* whether a Coolify runs.                                                 *)
(***************************************************************************)
EXTENDS Integers, SequencesExt

Planner == INSTANCE RollbackPlanner

CONSTANTS MaxRuns,    \* bound: `server run` commands
          MaxFaults,  \* bound: clean-ups that fail and processes that die
          MaxPolls,   \* polls before each deadline of BOOT
          Hazards     \* of "reuse_target", "reboot_source"

ASSUME BoundsAssumption == MaxRuns \in Nat /\ MaxFaults \in Nat /\ MaxPolls \in Nat \ {0}

Containers == {"coolify", "app"}

\* /data/coolify, with the .env; /var/lib/docker/volumes, with the database; the binds.
Paths == << "coolify", "volumes", "binds" >>
PathSet == {Paths[i] : i \in DOMAIN Paths}

\* Mutant: Coolify is installed before its data is there.
Order_InstallFirst ==
  << "init", "preflight", "inventory", "read_app_key", "stop_source", "install_coolify",
     "transfer", "verify", "assert_app_key", "boot", "reconcile", "fence_source", "done" >>

Order ==
  << "init", "preflight", "inventory", "read_app_key", "stop_source", "transfer", "verify",
     "install_coolify", "assert_app_key", "boot", "reconcile", "fence_source", "done" >>

Position(state) == CHOOSE i \in DOMAIN Order : Order[i] = state

\* Mutant: the transfer owes only the wipe.
Compensation_KeyStays ==
  [s \in {"stop_source", "transfer", "fence_source"} |->
     CASE s = "stop_source" -> << "start_source_docker" >>
       [] s = "transfer" -> << "wipe_target_data" >>
       [] s = "fence_source" -> << "unfence_source" >>]

Compensation ==
  [s \in {"stop_source", "transfer", "fence_source"} |->
     CASE s = "stop_source" -> << "start_source_docker" >>
       [] s = "transfer" -> << "wipe_target_data", "revoke_ephemeral_key" >>
       [] s = "fence_source" -> << "unfence_source" >>]

VARIABLES
  docker,      \* the source's daemon is active
  running,     \* the source's running containers; they outlive the daemon (KillMode=process)
  restarts,    \* the daemon may bring Coolify's own containers back
  marker,      \* the fence marker is on the source
  privateKey,  \* the transfer key is on the source
  authorised,  \* its public half is on the target
  holds,       \* per path, what the target has: nothing, its own, a part, a copy, an old copy
  env,         \* the APP_KEY in the target's .env
  coolify,     \* a Coolify runs on the target
  journal,     \* of this run: the completed states, and TRANSFER's paths_copied
  outcome,     \* of this run
  inventory,   \* target_is_empty, --force-overwrite; what the target really had (history)
  pc,          \* the state, "rollback", or "idle" between runs
  at,          \* how far the state's step has come
  plan,        \* compensations left; whether one failed
  runs, faults

sourceVars == << docker, running, restarts, marker, privateKey >>
targetVars == << authorised, holds, env, coolify >>
sagaVars == << journal, outcome, inventory, pc, at, plan >>
vars == << sourceVars, targetVars, sagaVars, runs, faults >>

PathContents == {"none", "own", "part", "copy", "old"}
Outcomes == {"none", "running", "succeeded", "failed", "rolled_back", "rollback_failed", "died"}

TypeOK ==
  /\ docker \in BOOLEAN /\ running \subseteq Containers /\ restarts \in BOOLEAN
  /\ marker \in BOOLEAN /\ privateKey \in BOOLEAN /\ authorised \in BOOLEAN
  /\ holds \in [PathSet -> PathContents]
  /\ env \in {"none", "own", "source", "fresh"} /\ coolify \in BOOLEAN
  /\ ToSet(journal.completed) \subseteq {Order[i] : i \in DOMAIN Order}
  /\ journal.copied \subseteq PathSet
  /\ outcome \in Outcomes
  /\ inventory \in [empty : BOOLEAN, force : BOOLEAN, had : BOOLEAN]
  /\ pc \in {Order[i] : i \in DOMAIN Order} \cup {"idle", "rollback", "boot_sleep", "probe", "probe_sleep"}
  /\ at \in 0 .. CASE pc = "stop_source" -> 1
                   [] pc = "transfer" -> Len(Paths) + 1
                   [] pc \in {"boot", "boot_sleep", "probe", "probe_sleep"} -> MaxPolls
                   [] OTHER -> 0
  /\ plan.failed \in BOOLEAN
  /\ runs \in 0 .. MaxRuns /\ faults \in 0 .. MaxFaults

NoJournal == [completed |-> << >>, copied |-> {}]
NoPlan == [steps |-> << >>, failed |-> FALSE]

\* A target is a new box, a Docker host, or the remains of a Coolify that is down.
Init ==
  /\ docker = TRUE /\ running = Containers /\ restarts = TRUE
  /\ marker = FALSE /\ privateKey = FALSE /\ authorised = FALSE
  /\ \E own \in {{}, {"volumes"}, {"coolify", "volumes"}} :
       /\ holds = [p \in PathSet |-> IF p \in own THEN "own" ELSE "none"]
       /\ env = IF "coolify" \in own THEN "own" ELSE "none"
  /\ coolify = FALSE
  /\ journal = NoJournal /\ outcome = "none"
  /\ inventory = [empty |-> TRUE, force |-> FALSE, had |-> FALSE]
  /\ pc = "idle" /\ at = 0 /\ plan = NoPlan
  /\ runs = 0 /\ faults = 0

-----------------------------------------------------------------------------
(***************************************************************************)
(* The executor.                                                           *)
(***************************************************************************)
\* inventory.take looks for /data/coolify only.
TargetIsEmpty == holds["coolify"] = "none"

\* `server run`: a new inventory, a new journal.  Nothing resumes an earlier run.
Run ==
  /\ pc = "idle" /\ outcome # "succeeded"
  /\ runs < MaxRuns
  /\ coolify => "reuse_target" \in Hazards
  /\ runs' = runs + 1
  /\ \E force \in BOOLEAN : inventory' =
       [empty |-> TargetIsEmpty, force |-> force, had |-> holds["coolify"] # "none"]
  /\ journal' = NoJournal /\ outcome' = "running"
  /\ pc' = "init" /\ at' = 0 /\ plan' = NoPlan
  /\ UNCHANGED << sourceVars, targetVars, faults >>

\* step_completed, and the next state; the last one ends the run.
Complete(state) ==
  LET next == Order[Position(state) + 1]
      over == next = "done"
  IN /\ journal' = [journal EXCEPT !.completed = Append(@, state)]
     /\ pc' = IF over THEN "idle" ELSE next
     /\ outcome' = IF over THEN "succeeded" ELSE outcome
     /\ at' = 0
     /\ UNCHANGED << inventory, plan >>

\* step_failed: the plan for what completed, and not for the state that failed.
Fail ==
  LET steps == Planner!PlanFor(journal.completed, Order, Compensation, << >>)
  IN /\ plan' = [steps |-> steps, failed |-> FALSE]
     /\ pc' = IF steps = << >> THEN "idle" ELSE "rollback"
     /\ outcome' = IF steps = << >> THEN "failed" ELSE outcome
     /\ at' = 0
     /\ UNCHANGED << journal, inventory >>

Stay(label, position) ==
  /\ pc' = label /\ at' = position
  /\ UNCHANGED << journal, outcome, inventory, plan >>

Rest == UNCHANGED << runs, faults >>

\* The process is killed.  Whatever was done stays.
Die ==
  /\ pc # "idle" /\ faults < MaxFaults
  /\ faults' = faults + 1
  /\ pc' = "idle" /\ outcome' = "died" /\ at' = 0 /\ plan' = NoPlan
  /\ UNCHANGED << sourceVars, targetVars, journal, inventory, runs >>

-----------------------------------------------------------------------------
(***************************************************************************)
(* The steps.                                                              *)
(***************************************************************************)
\* INIT, INVENTORY, READ_APP_KEY and RECONCILE read.  The key is read from the
\* source, or there is none to read; RECONCILE only warns.
ReadingStep ==
  /\ pc \in {"init", "inventory", "read_app_key", "reconcile"}
  /\ \/ Complete(pc)
     \/ pc = "read_app_key" /\ Fail
  /\ UNCHANGED << sourceVars, targetVars >> /\ Rest

Preflight ==
  /\ pc = "preflight"
  /\ \/ (inventory.empty \/ inventory.force) /\ Complete(pc)
     \/ Fail
  /\ UNCHANGED << sourceVars, targetVars >> /\ Rest

\* docker stop -t 60 on every running container; some may not go.
StopContainers ==
  /\ pc = "stop_source" /\ at = 0
  /\ running' \in SUBSET running
  /\ Stay(pc, 1)
  /\ UNCHANGED << docker, restarts, marker, privateKey, targetVars >> /\ Rest

StillRunning == running # {}

\* The containers are looked at again, then the daemon is stopped, then looked at.
StopDaemon ==
  /\ pc = "stop_source" /\ at = 1
  /\ \/ /\ ~StillRunning
        /\ docker' = FALSE
        /\ Complete(pc)
     \/ UNCHANGED docker /\ Fail
  /\ UNCHANGED << running, restarts, marker, privateKey, targetVars >> /\ Rest

\* keys.install: authorise on the target, then place on the source.  A second half
\* that fails takes the first back, if it can.
InstallKey ==
  /\ pc = "transfer" /\ at = 0
  /\ \/ authorised' = TRUE /\ privateKey' = TRUE /\ Stay(pc, 1)
     \/ authorised' \in {authorised, TRUE} /\ UNCHANGED privateKey /\ Fail
  /\ UNCHANGED << docker, running, restarts, marker, holds, env, coolify >> /\ Rest

\* mkdir and rsync of one path; it may stop part-way.
CopyPath ==
  /\ pc = "transfer" /\ at \in 1 .. Len(Paths)
  /\ LET path == Paths[at]
     IN \/ /\ holds' = [holds EXCEPT ![path] = "copy"]
           /\ env' = IF path = "coolify" THEN "source" ELSE env
           /\ Stay(pc, at + 1)
        \/ /\ holds' = [holds EXCEPT ![path] = "part"]
           /\ env' \in {env, IF path = "coolify" THEN "source" ELSE env}
           /\ Fail
  /\ UNCHANGED << sourceVars, authorised, coolify >> /\ Rest

\* paths_copied is journalled only now.
EndTransfer ==
  /\ pc = "transfer" /\ at = Len(Paths) + 1
  /\ LET next == Order[Position(pc) + 1]
     IN /\ journal' = [completed |-> Append(journal.completed, pc), copied |-> PathSet]
        /\ pc' = next /\ at' = 0
  /\ UNCHANGED << sourceVars, targetVars, outcome, inventory, plan >> /\ Rest

Verify ==
  /\ pc = "verify"
  /\ \/ (\A p \in PathSet : holds[p] = "copy") /\ Complete(pc)
     \/ Fail
  /\ UNCHANGED << sourceVars, targetVars >> /\ Rest

\* install.sh keeps an .env that is there and fills in what is missing.
InstallCoolify ==
  /\ pc = "install_coolify"
  /\ env' = IF env = "none" THEN "fresh" ELSE env
  /\ holds' = [holds EXCEPT !["coolify"] = IF @ = "none" THEN "own" ELSE @]
  /\ \/ coolify' = TRUE /\ Complete(pc)
     \/ coolify' \in {coolify, TRUE} /\ Fail
  /\ UNCHANGED << sourceVars, authorised >> /\ Rest

\* assert_survived: byte for byte.
AssertAppKey ==
  /\ pc = "assert_app_key"
  /\ \/ env = "source" /\ Complete(pc)
     \/ Fail
  /\ UNCHANGED << sourceVars, targetVars >> /\ Rest

\* Mutant: a probe that cannot answer yet is asked again for ever.
Expired_Never == FALSE

Expired == at >= MaxPolls

\* Polls the health check up to its deadline.
Boot ==
  /\ pc = "boot"
  /\ \/ at < MaxPolls /\ Stay("boot_sleep", at)
     \/ at < MaxPolls /\ Stay("probe", 0)
     \/ at = MaxPolls /\ Fail
  /\ UNCHANGED << sourceVars, targetVars >> /\ Rest

\* Then the decrypt probe up to its own: it answers, it cannot decrypt, or it
\* cannot answer yet, which is a reason to wait.
Probe ==
  /\ pc = "probe"
  /\ \/ Complete("boot")
     \/ Fail
     \/ ~Expired /\ Stay("probe_sleep", at)
  /\ UNCHANGED << sourceVars, targetVars >> /\ Rest

Sleep ==
  /\ pc \in {"boot_sleep", "probe_sleep"}
  /\ Stay(IF pc = "boot_sleep" THEN "boot" ELSE "probe", IF at < MaxPolls THEN at + 1 ELSE at)
  /\ UNCHANGED << sourceVars, targetVars >> /\ Rest

\* keys.revoke is best effort: a half that fails is logged, a lost connection raises.
Revoke(succeeds) ==
  IF succeeds THEN authorised' = FALSE /\ privateKey' = FALSE /\ UNCHANGED faults
  ELSE /\ faults < MaxFaults /\ faults' = faults + 1
       /\ authorised' \in {authorised, FALSE} /\ privateKey' \in {privateKey, FALSE}

\* The containers are stopped and told not to restart only by a daemon that is up.
Fence ==
  /\ pc = "fence_source"
  /\ running' = IF docker THEN running \ {"coolify"} ELSE running
  /\ restarts' = (restarts /\ ~docker)
  /\ marker' = TRUE
  /\ \E succeeds \in BOOLEAN : Revoke(succeeds)
  /\ Complete(pc) \/ Fail
  /\ UNCHANGED << docker, holds, env, coolify, runs >>

Step ==
  \/ ReadingStep \/ Preflight \/ StopContainers \/ StopDaemon \/ InstallKey \/ CopyPath
  \/ EndTransfer \/ Verify \/ InstallCoolify \/ AssertAppKey \/ Boot \/ Probe \/ Sleep \/ Fence

-----------------------------------------------------------------------------
(***************************************************************************)
(* The rollback: one compensation after the other, whatever fails.         *)
(***************************************************************************)
Compensated(ok) ==
  LET left == Tail(plan.steps)
      bad == plan.failed \/ ~ok
  IN /\ plan' = [steps |-> left, failed |-> bad]
     /\ pc' = IF left = << >> THEN "idle" ELSE pc
     /\ outcome' = IF left # << >> THEN outcome
                   ELSE IF bad THEN "rollback_failed" ELSE "rolled_back"
     /\ UNCHANGED << journal, inventory, at >>

Due(compensation) ==
  pc = "rollback" /\ Head(plan.steps).compensation = compensation

\* The daemon brings back what its restart policy covers.
StartSourceDocker ==
  /\ Due("start_source_docker")
  /\ \/ /\ docker' = TRUE
        /\ \E back \in SUBSET Containers : running' = running \cup back
        /\ Compensated(TRUE)
     \/ UNCHANGED << docker, running >> /\ Compensated(FALSE)
  /\ UNCHANGED << restarts, marker, privateKey, targetVars >> /\ Rest

\* Mutant: what was there before the run is wiped with the rest.
MayWipe_Always == TRUE

MayWipe == inventory.empty

\* rm -rf of what TRANSFER's completion recorded; a failed rm is not looked at.
WipeTargetData ==
  /\ Due("wipe_target_data")
  /\ \E gone \in SUBSET journal.copied :
       /\ IF MayWipe
          THEN /\ gone # journal.copied => faults < MaxFaults
               /\ faults' = faults + (IF gone = journal.copied THEN 0 ELSE 1)
               /\ holds' = [p \in PathSet |-> IF p \in gone THEN "none" ELSE holds[p]]
               /\ env' = IF "coolify" \in gone THEN "none" ELSE env
          ELSE UNCHANGED << holds, env, faults >>
  /\ Compensated(TRUE)
  /\ UNCHANGED << sourceVars, authorised, coolify, runs >>

RevokeEphemeralKey ==
  /\ Due("revoke_ephemeral_key")
  /\ \E succeeds, raises \in BOOLEAN :
       /\ raises => ~succeeds
       /\ Revoke(succeeds) /\ Compensated(~raises)
  /\ UNCHANGED << docker, running, restarts, marker, holds, env, coolify, runs >>

\* UNFENCE_SOURCE is never planned: the state that owes it is the last to complete.
RollbackStep == StartSourceDocker \/ WipeTargetData \/ RevokeEphemeralKey

-----------------------------------------------------------------------------
\* A container that runs writes, and the copies are no longer the source's state.
SourceWrites ==
  /\ running # {}
  /\ holds' = [p \in PathSet |-> IF holds[p] = "copy" THEN "old" ELSE holds[p]]
  /\ holds' # holds
  /\ UNCHANGED << sourceVars, authorised, env, coolify, sagaVars, runs, faults >>

\* The old box boots: its daemon starts what its policy says.
SourceReboots ==
  /\ "reboot_source" \in Hazards
  /\ pc = "idle" /\ outcome = "succeeded"
  /\ docker' = TRUE
  /\ running' = IF restarts THEN {"coolify"} ELSE {}
  /\ UNCHANGED << restarts, marker, privateKey, targetVars, sagaVars, runs, faults >>

Next == Run \/ Step \/ RollbackStep \/ Die \/ SourceWrites \/ SourceReboots

\* The saga is one coroutine, and every command it waits for has a timeout.
Spec == Init /\ [][Next]_vars /\ WF_vars(Step \/ RollbackStep)

-----------------------------------------------------------------------------
\* TRANSFER never writes under a Coolify that runs on the target, whose database
\* would be open in the tree it replaces.
CopiedIntoInertTarget == pc = "transfer" => ~coolify

\* What Coolify is installed over is all the source held when it stopped: nothing
\* on the source wrote after the copy, and the check that found it whole still holds.
InstalledOverWholeCopy ==
  pc \in {"install_coolify", "assert_app_key", "boot", "boot_sleep", "probe",
         "probe_sleep", "reconcile", "fence_source"} =>
    /\ \A p \in PathSet : holds[p] = "copy"
    /\ running = {}

\* The old brain is silenced only when the new one has the key and the data and answers.
FencedOnlyForASuccessor ==
  marker /\ pc # "rollback" /\ outcome \in {"running", "succeeded"} =>
            /\ {"assert_app_key", "boot"} \subseteq ToSet(journal.completed)
            /\ coolify /\ env = "source"

\* Each state of the server's saga finds the world the one before it left: a quiet
\* source, an inert target, a whole copy, and a successor that answers.
StepsInOrder ==
  TypeOK /\ CopiedIntoInertTarget /\ InstalledOverWholeCopy /\ FencedOnlyForASuccessor

\* A directory the target had before the run is never removed, forced or not.
OwnInstanceKept ==
  [][inventory.had /\ holds["coolify"] # "none" => holds'["coolify"] # "none"]_vars

\* A rollback that says it is complete has ended the outage, and what a completed
\* transfer left is gone: its key from both hosts, its data from a target that was empty.
RolledBackIsUndone ==
  outcome = "rolled_back" =>
    /\ docker
    /\ "transfer" \in ToSet(journal.completed) /\ faults = 0 =>
         /\ ~authorised /\ ~privateKey
         /\ inventory.empty => holds["coolify"] = "none" /\ holds["volumes"] = "none"

\* A run ends: BOOT waits for an answer no longer than its deadlines.
RunEnds == pc # "idle" ~> pc = "idle"

-----------------------------------------------------------------------------
\* The fence holds: the old Coolify stays down when its box boots again.
FencedStaysDown == marker => "coolify" \notin running

\* Whatever fails, the outage ends: a failed run leaves the source running.
FailureEndsOutage == outcome = "failed" => docker /\ running = Containers

=============================================================================
