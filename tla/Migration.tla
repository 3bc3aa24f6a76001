------------------------------ MODULE Migration ------------------------------
(***************************************************************************)
(* One project migration from the first command to the last: the saga      *)
(* executor (engine/executor.py) driving the twelve steps                  *)
(* (engine/steps.py) and, when they fail or the operator asks, the         *)
(* compensations (engine/compensations.py), over two servers whose Coolify *)
(* queues stops and deploys and whose Docker cleanup deletes every volume  *)
(* no container references (discovery/pins.py).                            *)
(*                                                                         *)
(* The process may die between any two actions; what it leaves is the      *)
(* journal and the world.  The journal is kept as the facts the code       *)
(* derives from its records (journal/store.py).                            *)
(*                                                                         *)
(* A resource is a number, its place in the plan; it has one declared      *)
(* volume, found by DISCOVER.  Domains and the key are not part of this.   *)
(***************************************************************************)
EXTENDS StateMachine, FiniteSets

CONSTANTS N,            \* how many resources the plan moves
          MaxCrashes,   \* bound: times the process dies
          MaxCommands,  \* bound: commands the operator issues
          Hazards       \* what the instance lets the operator and Docker do

HazardKinds ==
  {"resume_after_interrupted_rollback",  \* resume although a rollback died half-way
   "resume_after_refused_rollback",      \* resume although a rollback ran to its end
   "rollback_after_unpin",               \* rollback again after unpin let the volumes go
   "start_emptied_source",               \* a kept source started after its volume was pruned
   "prune_between_look_and_pin"}         \* cleanup between the guard's look and its pin

ASSUME NAssumption == N \in Nat \ {0}
ASSUME BoundsAssumption == MaxCrashes \in Nat /\ MaxCommands \in Nat
ASSUME HazardsAssumption == Hazards \subseteq HazardKinds

Resources == 1 .. N

VARIABLES
  pc,          \* where the process is; "idle" when there is none
  idx,         \* the state of Order the saga is at
  at,          \* the resource a loop is at
  plan,        \* compensations still to run
  failed,      \* a compensation of this rollback failed
  error,       \* why the saga rolls back: "none" for the explicit command
  held,        \* the volumes FINALIZE found under this run's pins
  outcome,     \* of the last command
  journal,     \* what the journal's records say
  policy,      \* the plan's finalize policy
  src,         \* per resource: its containers on the source
  stopQueued,  \* per resource: Coolify accepted a stop that has not landed
  srcVol,      \* per resource: its volume on the source
  srcPins,     \* resources whose source volume is pinned
  tgt,         \* per resource: the target resource and its containers
  tgtVol,      \* per resource: its volume on the target
  tgtPins,     \* resources whose target volume is pinned
  unpinned,    \* the operator's unpin has released the source's pins
  crashes, commands

processVars == << pc, idx, at, plan, failed, error, held, outcome >>
sourceVars == << src, stopQueued, srcVol, srcPins >>
targetVars == << tgt, tgtVol, tgtPins >>
worldVars == << sourceVars, targetVars, policy, unpinned >>
boundVars == << crashes, commands >>
vars == << processVars, journal, worldVars, boundVars >>

-----------------------------------------------------------------------------
(***************************************************************************)
(* Types.                                                                  *)
(***************************************************************************)
Labels ==
  {"idle", "enter", "work", "complete", "failed",
   "create_undo", "create", "create_journal", "create_undo_partial",
   "quiesce_pin", "quiesce_mark", "quiesce_stop", "quiesce_wait",
   "copy_volumes", "copy_pin", "copy", "copy_check", "start",
   "finalize_policy", "finalize_unpin_target", "finalize_refuse",
   "finalize_delete", "finalize_deleted", "finalize_rename", "finalize_unpin_source",
   "rb_refuse", "rb_guard", "rb_pin", "rb_plan", "rb_step",
   "rb_restart", "rb_restarted"}

\* "undo": a step failed and could not undo itself.  "released", "exposed": a
\* FINALIZE(delete) whose release of the pins broke off, or could not pin again.
ErrorKinds == {"none", "step", "undo", "released", "exposed"}

Outcomes == {"none", "succeeded", "blocked", "failed", "rolled_back",
             "rollback_failed", "refused", "interrupted"}

SourceStates == {"running", "stopped", "starting", "deleted"}
TargetStates == {"absent", "stopped", "starting", "running", "stopping"}

\* "data": what the source held at the stop; "empty": created anew by Docker.
SourceVolumes == {"data", "empty", "gone"}

\* "copy": equal to the source's data; "live": that copy, written to since.
TargetVolumes == {"none", "empty", "partial", "copy", "live"}

Journals ==
  [started        : BOOLEAN,                 \* any record at all
   completed      : SUBSET States,           \* completed_states()
   inFlight       : States \cup {NoState},   \* in_flight_state()
   undoIncomplete : BOOLEAN,                 \* undo_incomplete_states() has CREATE_TARGET
   finished       : BOOLEAN,                 \* is_finished
   undo           : {"none", "begun", "ended"}, \* rollback_started, its rolled_back
   targets        : SUBSET Resources,        \* CREATE_TARGET's target_uuids
   stopRequested  : BOOLEAN,                 \* QUIESCE's stop_requested
   restarted      : SUBSET Resources,        \* _restarted_since_stop
   restartOk      : BOOLEAN,                 \* _restart_succeeded
   pairs          : SUBSET Resources,        \* DISCOVER's volume_pairs
   policy         : Policies \cup {NoState}, \* FINALIZE's policy
   deleted        : SUBSET Resources]        \* FINALIZE's deleted

ProcessTypeOK ==
  /\ pc \in Labels
  /\ idx \in 1 .. 13
  /\ at \in 1 .. N + 1
  /\ plan \in Seq(Compensations)
  /\ failed \in BOOLEAN
  /\ error \in ErrorKinds
  /\ held \subseteq Resources
  /\ outcome \in Outcomes

WorldTypeOK ==
  /\ policy \in Policies
  /\ src \in [Resources -> SourceStates]
  /\ stopQueued \in [Resources -> BOOLEAN]
  /\ srcVol \in [Resources -> SourceVolumes]
  /\ srcPins \subseteq Resources
  /\ tgt \in [Resources -> TargetStates]
  /\ tgtVol \in [Resources -> TargetVolumes]
  /\ tgtPins \subseteq Resources
  /\ unpinned \in BOOLEAN

BoundsTypeOK ==
  /\ crashes \in 0 .. MaxCrashes
  /\ commands \in 0 .. MaxCommands

TypeOK == ProcessTypeOK /\ journal \in Journals /\ WorldTypeOK /\ BoundsTypeOK

EmptyJournal ==
  [started |-> FALSE, completed |-> {}, inFlight |-> NoState, undoIncomplete |-> FALSE,
   finished |-> FALSE, undo |-> "none", targets |-> {}, stopRequested |-> FALSE,
   restarted |-> {}, restartOk |-> FALSE, pairs |-> {}, policy |-> NoState, deleted |-> {}]

Init ==
  /\ pc = "idle"
  /\ idx = 1
  /\ at = 1
  /\ plan = << >>
  /\ failed = FALSE
  /\ error = "none"
  /\ held = {}
  /\ outcome = "none"
  /\ journal = EmptyJournal
  /\ policy \in Policies
  /\ src = [r \in Resources |-> "running"]
  /\ stopQueued = [r \in Resources |-> FALSE]
  /\ srcVol = [r \in Resources |-> "data"]
  /\ srcPins = {}
  /\ tgt = [r \in Resources |-> "absent"]
  /\ tgtVol = [r \in Resources |-> "none"]
  /\ tgtPins = {}
  /\ unpinned = FALSE
  /\ crashes = 0
  /\ commands = 0

-----------------------------------------------------------------------------
(***************************************************************************)
(* What the code's moves have in common.                                   *)
(***************************************************************************)
State == Order[idx]

\* Control passes to label, the loop variable to resource i.
GotoAt(label, i) ==
  /\ pc' = label
  /\ at' = i
  /\ UNCHANGED << idx, plan, failed, error, held, outcome >>

Goto(label) == GotoAt(label, at)

\* The step raises; the saga appends step_failed next.
Raise(kind) ==
  /\ pc' = "failed"
  /\ error' = kind
  /\ UNCHANGED << idx, at, plan, failed, held, outcome >>

\* The command ends.
End(result) ==
  /\ pc' = "idle"
  /\ outcome' = result
  /\ idx' = 1
  /\ at' = 1
  /\ plan' = << >>
  /\ failed' = FALSE
  /\ error' = "none"
  /\ held' = {}

\* pins.ensure: additive, and a volume that is gone is skipped.
Pinned(pins, wanted) == pins \cup {r \in wanted : srcVol[r] # "gone"}

\* is_reference, for every pinned volume of a side.
Mounted(pins, containers) == \A r \in pins : containers[r] = "running"

\* Mutant: a stop still queued is not waited for.
Settled_IgnoresQueue(pins) == Mounted(pins, src)

\* A settle window outlasts any stop still queued when it began.
Settled(pins) == Mounted(pins, src) /\ \A r \in pins : ~stopQueued[r]

\* What pins.release can leave: it removes one pin after the other, and raises
\* where it breaks off.
BrokenOff(pins) == SUBSET pins

\* The target side of undo_create_target: the pins go first (best effort),
\* then each target whose delete Coolify accepts, or finds gone already.
RemoveTargets(accepted, released) ==
  /\ tgtPins' \in IF released THEN {{}} ELSE BrokenOff(tgtPins)
  /\ tgt' = [r \in Resources |-> IF r \in accepted THEN "absent" ELSE tgt[r]]
  /\ tgtVol' = [r \in Resources |->
                  IF r \in accepted /\ r \notin tgtPins' THEN "none" ELSE tgtVol[r]]


-----------------------------------------------------------------------------
(***************************************************************************)
(* The commands.  A resume rehydrates what it needs from the journal, so   *)
(* nothing but the process starts.                                         *)
(***************************************************************************)
Begin(label) ==
  /\ pc = "idle"
  /\ commands < MaxCommands
  /\ commands' = commands + 1
  /\ UNCHANGED crashes
  /\ Goto(label)

\* run_migration: a fresh journal, then the saga from INIT.
RunMigration ==
  /\ ~journal.started
  /\ Begin("enter")
  /\ journal' = [journal EXCEPT !.started = TRUE]
  /\ UNCHANGED worldVars

\* resume_migration: refused for a finished journal.  The code looks at the
\* last event only, so nothing but the operator keeps a rollback that died
\* half-way, or one refused after another had run, from being resumed.
ResumeMigration ==
  /\ journal.started
  /\ ~journal.finished
  /\ journal.undo = "begun" => "resume_after_interrupted_rollback" \in Hazards
  /\ journal.undo = "ended" => "resume_after_refused_rollback" \in Hazards
  /\ Begin("enter")
  /\ UNCHANGED << journal, worldVars >>

\* rollback_migration: whatever the journal says.
RollbackMigration ==
  /\ journal.started
  /\ unpinned => "rollback_after_unpin" \in Hazards
  /\ Begin("rb_refuse")
  /\ UNCHANGED << journal, worldVars >>

\* unpin_migration: of a finished run only, each side on evidence, nothing
\* journalled.
UnpinMigration ==
  /\ journal.started
  /\ journal.finished
  /\ pc = "idle"
  /\ commands < MaxCommands
  /\ commands' = commands + 1
  /\ srcPins' \in IF Settled(srcPins) THEN BrokenOff(srcPins) ELSE {srcPins}
  /\ tgtPins' \in IF Mounted(tgtPins, tgt) THEN BrokenOff(tgtPins) ELSE {tgtPins}
  /\ unpinned' = (unpinned \/ srcPins' # srcPins)
  /\ UNCHANGED << processVars, journal, policy, src, stopQueued, srcVol, tgt, tgtVol,
                  crashes >>

\* SIGKILL, Ctrl-C, a lost connection: nothing in the process catches it.
Crash ==
  /\ pc # "idle"
  /\ crashes < MaxCrashes
  /\ crashes' = crashes + 1
  /\ End("interrupted")
  /\ UNCHANGED << journal, worldVars, commands >>

-----------------------------------------------------------------------------
(***************************************************************************)
(* Saga.run: states in order, completed ones skipped.                      *)
(***************************************************************************)
FirstLabel(s) ==
  CASE s = "create_target" -> "create_undo"
    [] s = "quiesce"       -> "quiesce_pin"
    [] s = "copy"          -> "copy_volumes"
    [] s = "start_target"  -> "start"
    [] s = "finalize"      -> "finalize_policy"
    [] OTHER               -> "work"

Advance(label) ==
  /\ pc' = label
  /\ idx' = idx + 1
  /\ UNCHANGED << at, plan, failed, error, held, outcome >>

SkipState ==
  /\ pc = "enter"
  /\ idx < 13
  /\ State \in journal.completed
  /\ Advance("enter")
  /\ UNCHANGED << journal, worldVars, boundVars >>

EnterState ==
  /\ pc = "enter"
  /\ idx < 13
  /\ State \notin journal.completed
  /\ journal' = [journal EXCEPT !.inFlight = State]
  /\ GotoAt(FirstLabel(State), 1)
  /\ UNCHANGED << worldVars, boundVars >>

CompleteState ==
  /\ pc = "complete"
  /\ idx < 13
  /\ journal' = [journal EXCEPT !.completed = @ \cup {State}, !.inFlight = NoState]
  /\ Advance("enter")
  /\ UNCHANGED << worldVars, boundVars >>

Finish ==
  /\ pc = "enter"
  /\ idx = 13
  /\ journal' = [journal EXCEPT !.finished = TRUE]
  /\ End("succeeded")
  /\ UNCHANGED << worldVars, boundVars >>

\* DnsGateBlocked, RebuildDriftBlocked: a deliberate stop, nothing undone.
Block ==
  /\ pc = "work"
  /\ State \in {"preflight", "dns_gate"}
  /\ journal' = [journal EXCEPT !.inFlight = NoState]
  /\ End("blocked")
  /\ UNCHANGED << worldVars, boundVars >>

\* The labels at which a step can raise before it has done anything more.
MayRaise ==
  {"work", "create_undo", "quiesce_pin", "quiesce_mark", "quiesce_stop", "quiesce_wait",
   "copy_volumes", "copy_pin", "copy", "copy_check", "start", "finalize_refuse",
   "finalize_rename"}

StepRaises ==
  /\ pc \in MayRaise
  /\ Raise("step")
  /\ UNCHANGED << journal, worldVars, boundVars >>

StepFailed ==
  /\ pc = "failed"
  /\ journal' = [journal EXCEPT !.inFlight = NoState]
  /\ Goto("rb_refuse")
  /\ UNCHANGED << worldVars, boundVars >>

(***************************************************************************)
(* The steps that only look: INIT, PREFLIGHT and PLAN at Coolify and the   *)
(* source, VERIFY at both volumes byte for byte, DNS_GATE at the target's  *)
(* domains, HEALTHCHECK at the target's containers.                        *)
(***************************************************************************)
LooksRight(s) ==
  CASE s = "verify"      -> \A r \in journal.pairs : srcVol[r] = "data" /\ tgtVol[r] = "copy"
    [] s = "dns_gate"    -> \A r \in Resources : tgt[r] # "absent"
    [] s = "healthcheck" -> \A r \in Resources : tgt[r] = "running"
    [] OTHER             -> TRUE

ReadOnlyStep ==
  /\ pc = "work"
  /\ State # "discover"
  /\ LooksRight(State)
  /\ Goto("complete")
  /\ UNCHANGED << journal, worldVars, boundVars >>

\* step_discover: the manifest of what is on disk, paired with the targets,
\* and every volume of it under a pin.
Discover ==
  /\ pc = "work"
  /\ State = "discover"
  /\ \A r \in Resources : tgt[r] # "absent"
  /\ srcPins' = Pinned(srcPins, Resources)
  /\ journal' = [journal EXCEPT !.pairs = {r \in Resources : srcVol[r] # "gone"}]
  /\ Goto("complete")
  /\ UNCHANGED << src, stopQueued, srcVol, targetVars, policy, unpinned, boundVars >>

-----------------------------------------------------------------------------
(***************************************************************************)
(* CREATE_TARGET.  Each target is journalled the moment it exists, so an   *)
(* attempt that is resumed can first undo the one that was interrupted.    *)
(***************************************************************************)
NothingToUndo ==
  /\ pc = "create_undo"
  /\ journal.targets = {}
  /\ Goto("create")
  /\ UNCHANGED << journal, worldVars, boundVars >>

UndoInterruptedAttempt ==
  /\ pc = "create_undo"
  /\ journal.targets # {}
  /\ \E accepted \in SUBSET journal.targets, released \in BOOLEAN :
       /\ RemoveTargets(accepted, released)
       /\ \/ /\ accepted = journal.targets /\ released
             /\ journal' = [journal EXCEPT !.targets = {}, !.undoIncomplete = FALSE]
             /\ Goto("create")
          \/ /\ ~(accepted = journal.targets /\ released)
             /\ journal' = [journal EXCEPT !.undoIncomplete = TRUE]
             /\ Raise("undo")
  /\ UNCHANGED << sourceVars, policy, unpinned, boundVars >>

CreateResource ==
  /\ pc = "create"
  /\ at <= N
  /\ tgt' = [tgt EXCEPT ![at] = "stopped"]
  /\ Goto("create_journal")
  /\ UNCHANGED << journal, sourceVars, tgtVol, tgtPins, policy, unpinned, boundVars >>

\* Mutant: the target about to be created is journalled too.
JournalTarget_OneAhead ==
  /\ pc = "create_journal"
  /\ journal' = [journal EXCEPT !.targets = 1 .. at + 1]
  /\ GotoAt("create", at + 1)
  /\ UNCHANGED << worldVars, boundVars >>

JournalTarget ==
  /\ pc = "create_journal"
  /\ journal' = [journal EXCEPT !.targets = 1 .. at]
  /\ GotoAt("create", at + 1)
  /\ UNCHANGED << worldVars, boundVars >>

CreateDone ==
  /\ pc = "create"
  /\ at = N + 1
  /\ GotoAt("complete", 1)
  /\ UNCHANGED << journal, worldVars, boundVars >>

\* A gate, a claim or a call fails.  A create whose answer was lost leaves
\* its target behind: a POST is not retried, and the step never learnt the uuid.
CreateFails ==
  /\ pc = "create"
  /\ \/ UNCHANGED tgt
     \/ at <= N /\ tgt' = [tgt EXCEPT ![at] = "stopped"]
  /\ Goto("create_undo_partial")
  /\ UNCHANGED << journal, sourceVars, tgtVol, tgtPins, policy, unpinned, boundVars >>

\* undo_partial_create over what this attempt made.
UndoPartialCreate ==
  /\ pc = "create_undo_partial"
  /\ \E accepted \in SUBSET (1 .. at - 1), released \in BOOLEAN :
       /\ RemoveTargets(accepted, released)
       /\ \/ /\ accepted = 1 .. at - 1 /\ released
             /\ UNCHANGED journal
             /\ Raise("step")
          \/ /\ ~(accepted = 1 .. at - 1 /\ released)
             /\ journal' = [journal EXCEPT !.undoIncomplete = TRUE]
             /\ Raise("undo")
  /\ UNCHANGED << sourceVars, policy, unpinned, boundVars >>

-----------------------------------------------------------------------------
(***************************************************************************)
(* QUIESCE: capture, pin, mark, stop, wait.                                *)
(***************************************************************************)
\* Mutant: QUIESCE leaves the pins to DISCOVER.
PinSource_Later ==
  /\ pc = "quiesce_pin"
  /\ Goto("quiesce_mark")
  /\ UNCHANGED << journal, worldVars, boundVars >>

PinSource ==
  /\ pc = "quiesce_pin"
  /\ srcPins' = Pinned(srcPins, Resources)
  /\ Goto("quiesce_mark")
  /\ UNCHANGED << journal, src, stopQueued, srcVol, targetVars, policy, unpinned, boundVars >>

MarkStop ==
  /\ pc = "quiesce_mark"
  /\ journal' = [journal EXCEPT !.stopRequested = TRUE, !.restarted = {}]
  /\ GotoAt("quiesce_stop", 1)
  /\ UNCHANGED << worldVars, boundVars >>

\* _request_stop: queued, or refused until the window closed because Coolify
\* believes the resource is down already.
RequestStop ==
  /\ pc = "quiesce_stop"
  /\ at <= N
  /\ \/ stopQueued' = [stopQueued EXCEPT ![at] = TRUE]
     \/ UNCHANGED stopQueued
  /\ GotoAt("quiesce_stop", at + 1)
  /\ UNCHANGED << journal, src, srcVol, srcPins, targetVars, policy, unpinned, boundVars >>

StopsRequested ==
  /\ pc = "quiesce_stop"
  /\ at = N + 1
  /\ GotoAt("quiesce_wait", 1)
  /\ UNCHANGED << journal, worldVars, boundVars >>

Quiesced ==
  /\ pc = "quiesce_wait"
  /\ \A r \in Resources : src[r] # "running"
  /\ Goto("complete")
  /\ UNCHANGED << journal, worldVars, boundVars >>

-----------------------------------------------------------------------------
(***************************************************************************)
(* COPY: the target's volumes, a pin on each, the bytes, and a last look   *)
(* at the source.                                                          *)
(***************************************************************************)
CreateVolumes ==
  /\ pc = "copy_volumes"
  /\ tgtVol' = [r \in Resources |->
                  IF r \in journal.pairs /\ tgtVol[r] = "none" THEN "empty" ELSE tgtVol[r]]
  /\ Goto("copy_pin")
  /\ UNCHANGED << journal, sourceVars, tgt, tgtPins, policy, unpinned, boundVars >>

\* Mutant: the target's volumes get no pin.
PinTarget_None ==
  /\ pc = "copy_pin"
  /\ GotoAt("copy", 1)
  /\ UNCHANGED << journal, worldVars, boundVars >>

PinTarget ==
  /\ pc = "copy_pin"
  /\ tgtPins' = tgtPins \cup {r \in journal.pairs : tgtVol[r] # "none"}
  /\ GotoAt("copy", 1)
  /\ UNCHANGED << journal, sourceVars, tgt, tgtVol, policy, unpinned, boundVars >>

\* One volume's rsync.  It cannot make a volume Docker no longer has; of a
\* running source it takes a torn snapshot; and it may break off.
CopyOne ==
  /\ pc = "copy"
  /\ at \in journal.pairs
  /\ tgtVol[at] # "none"
  /\ \/ /\ tgtVol' = [tgtVol EXCEPT ![at] =
              IF srcVol[at] = "data" /\ src[at] # "running" THEN "copy" ELSE "partial"]
        /\ GotoAt("copy", at + 1)
     \/ tgtVol' = [tgtVol EXCEPT ![at] = "partial"] /\ Raise("step")
  /\ UNCHANGED << journal, sourceVars, tgt, tgtPins, policy, unpinned, boundVars >>

AllCopied ==
  /\ pc = "copy"
  /\ at = N + 1
  /\ GotoAt("copy_check", 1)
  /\ UNCHANGED << journal, worldVars, boundVars >>

\* assert_still_stopped.
StillStopped ==
  /\ pc = "copy_check"
  /\ \A r \in Resources : src[r] # "running"
  /\ Goto("complete")
  /\ UNCHANGED << journal, worldVars, boundVars >>

-----------------------------------------------------------------------------
(***************************************************************************)
(* START_TARGET: a deploy per target, each queued by Coolify.              *)
(***************************************************************************)
StartTarget ==
  /\ pc = "start"
  /\ at <= N
  /\ tgt[at] # "absent"
  /\ tgt' = [tgt EXCEPT ![at] = IF @ = "running" THEN @ ELSE "starting"]
  /\ GotoAt("start", at + 1)
  /\ UNCHANGED << journal, sourceVars, tgtVol, tgtPins, policy, unpinned, boundVars >>

AllStarted ==
  /\ pc = "start"
  /\ at = N + 1
  /\ GotoAt("complete", 1)
  /\ UNCHANGED << journal, worldVars, boundVars >>

-----------------------------------------------------------------------------
(***************************************************************************)
(* FINALIZE.  The policy is on disk before anything is touched; then the   *)
(* target's pins go, where its containers hold the volumes now.            *)
(***************************************************************************)
JournalPolicy ==
  /\ pc = "finalize_policy"
  /\ journal' = [journal EXCEPT !.policy = policy]
  /\ Goto("finalize_unpin_target")
  /\ UNCHANGED << worldVars, boundVars >>

UnpinTarget ==
  /\ pc = "finalize_unpin_target"
  /\ \/ Mounted(tgtPins, tgt) /\ tgtPins' \in BrokenOff(tgtPins)
     \/ UNCHANGED tgtPins
  /\ GotoAt(IF policy = "delete" THEN "finalize_refuse" ELSE "finalize_rename", 1)
  /\ UNCHANGED << journal, sourceVars, tgt, tgtVol, policy, unpinned, boundVars >>

\* Mutant: what the pins held is not remembered across their release.
ReleaseForDelete_Forgets ==
  /\ pc = "finalize_refuse"
  /\ \A r \in Resources : src[r] # "running"
  /\ srcPins' = {}
  /\ Goto("finalize_delete")
  /\ UNCHANGED << journal, src, stopQueued, srcVol, targetVars, policy, unpinned, boundVars >>

\* _refuse_other_references, then the release of this run's own pins.  One that
\* breaks off raises where nothing pins again.
ReleaseForDelete ==
  /\ pc = "finalize_refuse"
  /\ \A r \in Resources : src[r] # "running"
  /\ \/ /\ held' = srcPins
        /\ srcPins' = {}
        /\ pc' = "finalize_delete"
        /\ UNCHANGED << idx, at, plan, failed, error, outcome >>
     \/ srcPins' \in BrokenOff(srcPins) /\ Raise("released")
  /\ UNCHANGED << journal, src, stopQueued, srcVol, targetVars, policy, unpinned, boundVars >>

SkipDeleted ==
  /\ pc = "finalize_delete"
  /\ at \in journal.deleted
  /\ GotoAt("finalize_delete", at + 1)
  /\ UNCHANGED << journal, worldVars, boundVars >>

\* Accepted, or a 404 for a source an earlier attempt deleted unjournalled.
DeleteSource ==
  /\ pc = "finalize_delete"
  /\ at <= N
  /\ at \notin journal.deleted
  /\ src' = [src EXCEPT ![at] = "deleted"]
  /\ srcVol' = [srcVol EXCEPT ![at] = IF at \in srcPins THEN @ ELSE "gone"]
  /\ Goto("finalize_deleted")
  /\ UNCHANGED << journal, stopQueued, srcPins, targetVars, policy, unpinned, boundVars >>

JournalDeleted ==
  /\ pc = "finalize_deleted"
  /\ journal' = [journal EXCEPT !.deleted = @ \cup {at}]
  /\ GotoAt("finalize_delete", at + 1)
  /\ UNCHANGED << worldVars, boundVars >>

\* Mutant: any failure of a delete counts as "already gone".
DeleteFails_CountsAsGone ==
  /\ pc = "finalize_delete"
  /\ at <= N
  /\ at \notin journal.deleted
  /\ Goto("finalize_deleted")
  /\ UNCHANGED << journal, worldVars, boundVars >>

\* _repin_undeleted: what was held, but for the deleted.  If that fails too,
\* the error says so ("exposed").
DeleteFails ==
  /\ pc = "finalize_delete"
  /\ at <= N
  /\ at \notin journal.deleted
  /\ \/ srcPins' = Pinned(srcPins, held \ journal.deleted) /\ Raise("step")
     \/ UNCHANGED srcPins /\ Raise("exposed")
  /\ UNCHANGED << journal, src, stopQueued, srcVol, targetVars, policy, unpinned, boundVars >>

AllDeleted ==
  /\ pc = "finalize_delete"
  /\ at = N + 1
  /\ GotoAt("complete", 1)
  /\ UNCHANGED << journal, worldVars, boundVars >>

\* keep does nothing here; a rename of a resource that is gone raises.
RenameSources ==
  /\ pc = "finalize_rename"
  /\ policy = "rename" => \A r \in Resources : src[r] # "deleted"
  /\ Goto("finalize_unpin_source")
  /\ UNCHANGED << journal, worldVars, boundVars >>

UnpinSource ==
  /\ pc = "finalize_unpin_source"
  /\ srcPins' \in BrokenOff(srcPins)
  /\ Goto("complete")
  /\ UNCHANGED << journal, src, stopQueued, srcVol, targetVars, policy, unpinned, boundVars >>

-----------------------------------------------------------------------------
(***************************************************************************)
(* Saga._rollback: two refusals, the plan, the compensations in turn.      *)
(***************************************************************************)
Explicit == error = "none"

\* rollback_refused becomes the last event, so the journal reads unfinished.
Refuse ==
  /\ journal' = [journal EXCEPT !.finished = FALSE]
  /\ End("refused")
  /\ UNCHANGED << worldVars, boundVars >>

RefuseIfIrreversible ==
  /\ pc = "rb_refuse"
  /\ RollbackRefusal(journal.policy)
  /\ Refuse

Irrefusable ==
  /\ pc = "rb_refuse"
  /\ ~RollbackRefusal(journal.policy)
  /\ Goto(IF SourceCopyUnproven(journal.policy) THEN "rb_guard" ELSE "rb_plan")
  /\ UNCHANGED << journal, worldVars, boundVars >>

\* Mutant: any volume still there will do.
SourceStillThere_AnyVolume ==
  /\ \A r \in Resources : src[r] # "deleted"
  /\ journal.pairs = {} \/ \E r \in journal.pairs : srcVol[r] # "gone"

\* source_data_refusal: by name, in Coolify and in docker volume ls.
SourceStillThere ==
  /\ \A r \in Resources : src[r] # "deleted"
  /\ \A r \in journal.pairs : srcVol[r] # "gone"

\* A guard that cannot answer refuses too.
RefuseIfUnsafe ==
  /\ pc \in {"rb_guard", "rb_pin"}
  /\ Refuse

GuardPasses ==
  /\ pc = "rb_guard"
  /\ SourceStillThere
  /\ Goto("rb_pin")
  /\ UNCHANGED << journal, worldVars, boundVars >>

GuardPins ==
  /\ pc = "rb_pin"
  /\ srcPins' = Pinned(srcPins, journal.pairs)
  /\ Goto("rb_plan")
  /\ UNCHANGED << journal, src, stopQueued, srcVol, targetVars, policy, unpinned, boundVars >>

\* What this rollback owes: the command also owes the state that was in
\* flight and an undo CREATE_TARGET could not finish.
Owed ==
  OwedStates(journal.completed,
             IF Explicit THEN journal.inFlight ELSE NoState,
             IF Explicit /\ journal.undoIncomplete THEN {"create_target"} ELSE {},
             journal.stopRequested)

NothingOwed ==
  /\ pc = "rb_plan"
  /\ RollbackPlan(Owed) = << >>
  /\ journal' = [journal EXCEPT !.finished = TRUE]
  /\ End(CASE error = "undo" -> "rollback_failed"
           [] error = "none" -> "rolled_back"
           [] OTHER          -> "failed")
  /\ UNCHANGED << worldVars, boundVars >>

StartRollback ==
  /\ pc = "rb_plan"
  /\ RollbackPlan(Owed) # << >>
  /\ plan' = RollbackPlan(Owed)
  /\ failed' = FALSE
  /\ journal' = [journal EXCEPT !.undo = "begun", !.restartOk = FALSE,
                                !.finished = FALSE]
  /\ pc' = "rb_step"
  /\ UNCHANGED << idx, at, error, held, outcome, worldVars, boundVars >>

EndRollback ==
  /\ pc = "rb_step"
  /\ plan = << >>
  /\ journal' = [journal EXCEPT !.undo = "ended", !.finished = TRUE]
  /\ End(IF failed THEN "rollback_failed" ELSE "rolled_back")
  /\ UNCHANGED << worldVars, boundVars >>

-----------------------------------------------------------------------------
(***************************************************************************)
(* The compensations.  One that fails is recorded and the next one runs.   *)
(***************************************************************************)
Due(c) ==
  /\ pc = "rb_step"
  /\ plan # << >>
  /\ Head(plan) = c

Ran ==
  /\ plan' = Tail(plan)
  /\ UNCHANGED << pc, idx, at, failed, error, held, outcome >>

RanAndFailed ==
  /\ plan' = Tail(plan)
  /\ failed' = TRUE
  /\ UNCHANGED << pc, idx, at, error, held, outcome >>

\* Those that touch nothing of this module: the name, the domains, the key.
UndoElsewhere ==
  /\ \E c \in {"restore_source_name", "restore_source_fqdn", "revoke_ephemeral_key"} : Due(c)
  /\ Ran
  /\ UNCHANGED << journal, worldVars, boundVars >>

\* It raises before it has done anything; a restart fails per resource.
CompensationFails ==
  /\ \E c \in Compensations \ {"restart_source"} : Due(c)
  /\ RanAndFailed
  /\ UNCHANGED << journal, worldVars, boundVars >>

\* undo_start_target: what START_TARGET's completion journalled as started,
\* up to the first stop that is refused.
UndoStartTarget ==
  /\ Due("stop_target")
  /\ \E last \in 0 .. N :
       LET asked == IF "start_target" \in journal.completed THEN 1 .. last ELSE {}
       IN /\ \A r \in asked : tgt[r] # "absent"
          /\ tgt' = [r \in Resources |->
                       IF r \in asked /\ tgt[r] \in {"starting", "running"}
                       THEN "stopping" ELSE tgt[r]]
          /\ IF last = N THEN Ran ELSE RanAndFailed
  /\ UNCHANGED << journal, sourceVars, tgtVol, tgtPins, policy, unpinned, boundVars >>

\* undo_copy: the pins, then each volume COPY's completion journalled that
\* no container references.
UndoCopy ==
  /\ Due("drop_target_volumes")
  /\ \/ /\ tgtPins' = {}
        /\ tgtVol' = [r \in Resources |->
                        IF /\ "copy" \in journal.completed
                           /\ r \in journal.pairs
                           /\ tgt[r] \notin {"running", "stopping"}
                        THEN "none" ELSE tgtVol[r]]
        /\ Ran
     \/ tgtPins' \in BrokenOff(tgtPins) /\ UNCHANGED tgtVol /\ RanAndFailed
  /\ UNCHANGED << journal, sourceVars, tgt, policy, unpinned, boundVars >>

\* A target is kept while its source lacks its hosts, or Coolify refuses.
UndoCreateTarget ==
  /\ Due("delete_target_resource")
  /\ \E accepted \in SUBSET journal.targets, released \in BOOLEAN :
       /\ RemoveTargets(accepted, released)
       /\ IF accepted = journal.targets /\ released THEN Ran ELSE RanAndFailed
  /\ UNCHANGED << journal, sourceVars, policy, unpinned, boundVars >>

\* undo_quiesce: once per stop, per resource, each restart journalled.
UndoQuiesce ==
  /\ Due("restart_source")
  /\ GotoAt("rb_restart", 1)
  /\ UNCHANGED << journal, worldVars, boundVars >>

AlreadyRestarted ==
  /\ pc = "rb_restart"
  /\ at \in journal.restarted
  /\ GotoAt("rb_restart", at + 1)
  /\ UNCHANGED << journal, worldVars, boundVars >>

\* /restart removes the container and queues the deploy that brings it back.
RestartSource ==
  /\ pc = "rb_restart"
  /\ at <= N
  /\ at \notin journal.restarted
  /\ src[at] # "deleted"
  /\ src' = [src EXCEPT ![at] = "starting"]
  /\ Goto("rb_restarted")
  /\ UNCHANGED << journal, stopQueued, srcVol, srcPins, targetVars, policy, unpinned, boundVars >>

JournalRestart ==
  /\ pc = "rb_restarted"
  /\ journal' = [journal EXCEPT !.restarted = @ \cup {at}]
  /\ GotoAt("rb_restart", at + 1)
  /\ UNCHANGED << worldVars, boundVars >>

\* The call fails, or its answer is lost after Coolify took it.
RestartFails ==
  /\ pc = "rb_restart"
  /\ at <= N
  /\ at \notin journal.restarted
  /\ \/ UNCHANGED src
     \/ src[at] # "deleted" /\ src' = [src EXCEPT ![at] = "starting"]
  /\ GotoAt("rb_restart", at + 1)
  /\ UNCHANGED << journal, stopQueued, srcVol, srcPins, targetVars, policy, unpinned, boundVars >>

RestartsDone ==
  /\ pc = "rb_restart"
  /\ at = N + 1
  /\ journal' = [journal EXCEPT !.restartOk = (journal.restarted = Resources)]
  /\ pc' = "rb_step"
  /\ at' = 1
  /\ plan' = Tail(plan)
  /\ failed' = (failed \/ journal.restarted # Resources)
  /\ UNCHANGED << idx, error, held, outcome, worldVars, boundVars >>

\* undo_release_source_pins: on evidence, and never without a look after a
\* stop this rollback's restart did not end.  A kept pin is no failure.
StoppedByUs == SourceWasStopped(journal.completed, journal.stopRequested)

\* Mutant: a restart Coolify accepted is evidence enough.
MayRelease_OnAcceptedRestart ==
  IF StoppedByUs THEN journal.restartOk ELSE Mounted(srcPins, src)

MayRelease ==
  IF StoppedByUs THEN journal.restartOk /\ Settled(srcPins) ELSE Mounted(srcPins, src)

UndoReleaseSourcePins ==
  /\ Due("release_source_pins")
  /\ \/ MayRelease /\ srcPins' = {} /\ Ran
     \/ MayRelease /\ srcPins' \in BrokenOff(srcPins) /\ RanAndFailed
     \/ ~MayRelease /\ UNCHANGED srcPins /\ Ran
  /\ UNCHANGED << journal, src, stopQueued, srcVol, targetVars, policy, unpinned, boundVars >>

-----------------------------------------------------------------------------
(***************************************************************************)
(* Coolify and Docker, which answer before they have acted.                *)
(***************************************************************************)
StopLands(r) ==
  /\ stopQueued[r]
  /\ stopQueued' = [stopQueued EXCEPT ![r] = FALSE]
  /\ src' = [src EXCEPT ![r] = IF @ = "running" THEN "stopped" ELSE @]
  /\ UNCHANGED << processVars, journal, srcVol, srcPins, targetVars, policy, unpinned, boundVars >>

\* A deployed container mounts its volume, which Docker makes if it is gone.
SourceUp(r) ==
  /\ src[r] = "starting"
  /\ src' = [src EXCEPT ![r] = "running"]
  /\ srcVol' = [srcVol EXCEPT ![r] = IF @ = "gone" THEN "empty" ELSE @]
  /\ UNCHANGED << processVars, journal, stopQueued, srcPins, targetVars, policy, unpinned, boundVars >>

SourceDeployFails(r) ==
  /\ src[r] = "starting"
  /\ src' = [src EXCEPT ![r] = "stopped"]
  /\ UNCHANGED << processVars, journal, stopQueued, srcVol, srcPins, targetVars, policy, unpinned, boundVars >>

TargetUp(r) ==
  /\ tgt[r] = "starting"
  /\ tgt' = [tgt EXCEPT ![r] = "running"]
  /\ tgtVol' = [tgtVol EXCEPT ![r] =
                  CASE @ = "none" -> "empty" [] @ = "copy" -> "live" [] OTHER -> @]
  /\ UNCHANGED << processVars, journal, sourceVars, tgtPins, policy, unpinned, boundVars >>

TargetDown(r) ==
  /\ tgt[r] \in {"starting", "stopping"}   \* a failed deploy, or the stop landed
  /\ tgt' = [tgt EXCEPT ![r] = "stopped"]
  /\ UNCHANGED << processVars, journal, sourceVars, tgtVol, tgtPins, policy, unpinned, boundVars >>

\* docker volume prune -af: whatever no container references.
PruneSource(r) ==
  /\ srcVol[r] # "gone"
  /\ src[r] # "running"
  /\ r \notin srcPins
  /\ pc = "rb_pin" => "prune_between_look_and_pin" \in Hazards
  /\ srcVol' = [srcVol EXCEPT ![r] = "gone"]
  /\ UNCHANGED << processVars, journal, src, stopQueued, srcPins, targetVars, policy, unpinned, boundVars >>

PruneTarget(r) ==
  /\ tgtVol[r] # "none"
  /\ tgt[r] \notin {"running", "stopping"}
  /\ r \notin tgtPins
  /\ tgtVol' = [tgtVol EXCEPT ![r] = "none"]
  /\ UNCHANGED << processVars, journal, sourceVars, tgt, tgtPins, policy, unpinned, boundVars >>

(***************************************************************************)
(* The operator's own hands, in the Coolify dashboard.                     *)
(***************************************************************************)
\* A kept or renamed source deleted after the run.
DeleteKeptSource(r) ==
  /\ pc = "idle"
  /\ outcome = "succeeded"
  /\ policy # "delete"
  /\ src[r] # "deleted"
  /\ src' = [src EXCEPT ![r] = "deleted"]
  /\ srcVol' = [srcVol EXCEPT ![r] = IF r \in srcPins THEN @ ELSE "gone"]
  /\ UNCHANGED << processVars, journal, stopQueued, srcPins, targetVars, policy, unpinned, boundVars >>

\* A kept source started again, and up; Docker makes the volume if it is gone.
RestartKeptSource(r) ==
  /\ pc = "idle"
  /\ outcome = "succeeded"
  /\ src[r] = "stopped"
  /\ srcVol[r] = "gone" => "start_emptied_source" \in Hazards
  /\ src' = [src EXCEPT ![r] = "running"]
  /\ srcVol' = [srcVol EXCEPT ![r] = IF @ = "gone" THEN "empty" ELSE @]
  /\ UNCHANGED << processVars, journal, stopQueued, srcPins, targetVars, policy, unpinned, boundVars >>

\* A source a rollback could not bring back, started by hand.
StartSourceByHand(r) ==
  /\ pc = "idle"
  /\ outcome \in {"rolled_back", "rollback_failed"}
  /\ src[r] = "stopped"
  /\ src' = [src EXCEPT ![r] = "starting"]
  /\ UNCHANGED << processVars, journal, stopQueued, srcVol, srcPins, targetVars, policy, unpinned, boundVars >>

-----------------------------------------------------------------------------
Command == RunMigration \/ ResumeMigration \/ RollbackMigration \/ UnpinMigration

Saga ==
  \/ SkipState \/ EnterState \/ CompleteState \/ Finish \/ Block
  \/ StepRaises \/ StepFailed \/ ReadOnlyStep

CreateTargetStep ==
  \/ NothingToUndo \/ UndoInterruptedAttempt \/ CreateResource \/ JournalTarget
  \/ CreateDone \/ CreateFails \/ UndoPartialCreate

QuiesceStep == PinSource \/ MarkStop \/ RequestStop \/ StopsRequested \/ Quiesced

CopyStep ==
  \/ Discover \/ CreateVolumes \/ PinTarget \/ CopyOne \/ AllCopied
  \/ StillStopped

StartTargetStep == StartTarget \/ AllStarted

FinalizeStep ==
  \/ JournalPolicy \/ UnpinTarget \/ ReleaseForDelete \/ SkipDeleted \/ DeleteSource
  \/ JournalDeleted \/ DeleteFails \/ AllDeleted \/ RenameSources \/ UnpinSource

Rollback ==
  \/ RefuseIfIrreversible \/ Irrefusable \/ RefuseIfUnsafe \/ GuardPasses \/ GuardPins
  \/ NothingOwed \/ StartRollback \/ EndRollback

Compensation ==
  \/ UndoElsewhere \/ CompensationFails \/ UndoStartTarget \/ UndoCopy \/ UndoCreateTarget
  \/ UndoQuiesce \/ AlreadyRestarted \/ RestartSource \/ JournalRestart \/ RestartFails
  \/ RestartsDone \/ UndoReleaseSourcePins

Process ==
  \/ Saga \/ CreateTargetStep \/ QuiesceStep \/ CopyStep \/ StartTargetStep
  \/ FinalizeStep \/ Rollback \/ Compensation

Environment ==
  \E r \in Resources :
    \/ StopLands(r) \/ SourceUp(r) \/ SourceDeployFails(r) \/ TargetUp(r) \/ TargetDown(r)
    \/ PruneSource(r) \/ PruneTarget(r)
    \/ DeleteKeptSource(r) \/ RestartKeptSource(r) \/ StartSourceByHand(r)

Next == Command \/ Crash \/ Process \/ Environment

Spec == Init /\ [][Next]_vars

=============================================================================
