# bg-coolify-migrate in TLA+

`bg-coolify-migrate` moves a project, or a whole instance, from one Coolify
server to another: it stops the source, copies its Docker volumes, starts the
copy, and in the end keeps, renames or deletes the source. What it must never do
is lose the only copy of the data - while any call may fail, the process may die
between any two of them, Coolify answers before it has acted, and Coolify's
nightly `docker volume prune -af` deletes every volume no container references.

This directory models that: TLA+ modules translated from
`src/bg_coolify_migrate/`, TLC configurations that check them on small instances,
and TLAPS proofs for every value of the constants.

    tlc -config MCMigration.cfg MigrationProperties.tla
    tlapm Migration_proofs.tla

`PROJECT.json` lists the runs with their properties, the hazards of the code with
the properties about each, and for every definition the lines it models.

## Inventory

### The parts and how they interact

| component | state | operations | calls / is called by |
|---|---|---|---|
| state machine and planner (`domain/statemachine.py`) | none (pure) | order of states, what each owes, the plan of a rollback, the refusal rules | asked by the executor |
| saga executor (`engine/executor.py`) | the journal, the loop's position | `run`, `rollback`, refusals, compensation loop | runs steps and compensations, writes the journal |
| commands (`engine/runner.py`) | none of its own | `run`, `resume`, `rollback`, `unpin` | one process each; build the saga from plan and journal |
| steps (`engine/steps.py`) | the context (uuids, pairs, captures) | twelve steps, INIT to FINALIZE | Coolify's API, Docker over SSH, journal notes |
| compensations (`engine/compensations.py`) | none | eight undos, `source_data_refusal` | the same, and `discovery/pins.py` |
| volume pins (`discovery/pins.py`) | a created, never started container per volume | `ensure`, `release_when_referenced`, `unpin` | QUIESCE, DISCOVER, COPY, FINALIZE, rollback, unpin |
| quiesce probe (`discovery/quiesce.py`) | none | wait until every container is gone, who was killed, look again after the copy | QUIESCE, COPY |
| journal (`journal/store.py`) | a file of JSON lines, fsynced per line | `append`, `read`, the derived views | everything |
| domain hand-over (`domain/domains.py`, `dns/managed.py`) | the hosts stored on both sides | park, claim, restore, release | CREATE_TARGET, rollback, FINALIZE |
| host names (`dns/extract.py`, `dns/wildcard.py`) | none (pure) | kind of a host, what a claim carries | the hand-over |
| DNS gate (`dns/gate.py`, `dns/resolve.py`) | a baseline in the journal | classify each host, block, refuse, foretell | plan, CREATE_TARGET, DNS_GATE |
| transfer key (`engine/keys.py`) | a key pair, one `authorized_keys` line | install, revoke by marker | COPY, rollback, server saga |
| transfer (`transfer/partition.py`, `rsync.py`, `verify.py`) | files | split a tree into runs, rsync, compare | COPY, VERIFY |
| ssh transport (`transfer/ssh.py`) | connections | run a command | everything |
| naming and manifest (`domain/naming.py`, `domain/manifest.py`) | none (pure) | reconcile what Coolify and Docker say, pair the volumes | PREFLIGHT, DISCOVER |
| planning (`domain/plan.py`, `engine/planner.py`, `domain/kinds.py`) | the plan | gather, decide what blocks | before INIT |
| fidelity and drift (`domain/fidelity.py`, `drift.py`, `*versions.py`, `compose.py`, `images.py`) | none (pure) | independent checks of the plan | plan, PREFLIGHT |
| locked environment values (`domain/locked_envs.py`, `engine/env_recovery.py`, `discovery/envfiles.py`) | values in memory | read an `.env` file, parse, recover, refuse | plan, CREATE_TARGET |
| environment variables (`api/resources.py`) | rows of the target | send in bulk, previews apart, lock again | CREATE_TARGET |
| schedules (`api/schedules.py`, `domain/schedules.py`, `engine/schedules.py`) | rows of the target | recreate tasks and backups, count them | CREATE_TARGET |
| Coolify client (`api/client.py`, `api/fields.py`) | none | HTTP with retries | everything |
| docker discovery (`discovery/docker.py`) | none | list containers by label, uuid, volume | PREFLIGHT, QUIESCE, pins |
| server saga (`server/`) | the same executor over a second machine | stop, transfer, install, boot, fence | its own commands |
| server inventory (`server/inventory.py`) | none | what the instance has, whether the target is empty | server saga |
| command line (`cli.py`) | the stacks it stopped | offer to stop, confirm, run the sagas, restart the rest | starts the commands |
| prompts and reports (`ui/`) | none | prompts, rendering | the command line |
| settings, errors, logging | none | - | everything |

The process is sequential and takes no lock. What runs beside it is outside:
Coolify's queue workers (a stop or deploy it accepted lands later, or fails), its
release jobs for DNS records, Docker's cleanup, other holders of a host, and the
operator's hands in the Coolify dashboard. What survives the process is the
journal and the world; the context in memory does not.

### What is hard, and what correctness means

- *Custody of the data.* At every moment one side holds each resource's data
  whole; until FINALIZE begins that side is the source, because it is the
  rollback. A stopped source is one cleanup away from losing its volumes, so pins
  must come before the stop and go only after the restart has mounted the
  volumes - not merely been accepted.
- *A copy of one moment.* Containers write until they are gone, may be killed
  with unflushed data, may start again during the copy.
- *Crashes.* Each effect has a gap between the call and its journal record. A
  resume skips what is recorded; a rollback must undo what was in flight.
- *Late effects.* A stop accepted long ago may land after the restart; a release
  job deletes the DNS record of a host that nobody held when it was queued.
- *Make before break.* A host must always have a holder, two resources may not
  force it from each other, and only a holder seen at that moment lets the other
  one go.
- *Partial failure.* Compensations go on after one fails; FINALIZE(delete) may
  fail between two resources and cannot be rolled back.
- *Sequences of commands.* run, rollback, refused rollback, resume, unpin: each
  judges the journal by what the last one left. Several environments in one run:
  what was stopped up front must come back exactly once.
- *Decisions over partial evidence.* A lookup that half-answers, a variable
  locked between two readings, a repeated POST, two volumes of one name.

`PROJECT.json` lists each hazard at its line, with the properties that cover it or
the reason why none does.

## Modules

| module | models | state |
|---|---|---|
| `Migration` | executor, commands, steps, compensations, and the world they act on | process, journal, both sides, operator |
| `MigrationProperties` | what a migration promises | - |
| `MigrationInvariant` | the inductive invariant of the source's custody | - |
| `StateMachine`, `RollbackPlanner` | order, debts, refusals; the planner in general and its closed form | none |
| `JournalFile`, `RecordLog` | `journal/store.py`; what a journal promises its readers | lines, open processes, counters; the log |
| `Domains`, `HostNames`, `HandOver` | the hand-over of hosts; what a claim carries; make before break | holders, targets, records, jobs, process, journal |
| `VolumePins` | `discovery/pins.py` and who waits for it, in ticks | volumes, containers, pins, process, clock |
| `CopyPhase` | QUIESCE, COPY, VERIFY and the key, file by file | containers, versions, events, journal, process |
| `ServerSaga` | the migration of a whole instance | both hosts, journal, process |
| `OfflineRun` | one `run` over several environments | stacks, Coolify's queue, process, sagas |
| `Decisions` | the pure decisions below, one question per behavior | the question |
| - `RollbackPlanning` | the plan of a rollback over any journal | none |
| - `DnsGate` | `dns/gate.py` over answers that may be partial | none |
| - `VolumeManifest` | manifest, orphans, pairing, its journalling | none |
| - `CopyPlan` | the split into rsync runs, what they write, the comparison | none |
| - `ApiCalls` | what a retried call commits | none |
| - `EnvFile`, `EnvRows` | the `.env` file and its parse; rows of variables from plan to target | none |
| - `SourceContainers` | which containers each probe sees | none |
| `*_proofs` | lemmas and theorems about the module they are named after | - |
| `RunAndJournal_proofs` | the same about `OfflineRun` and about `JournalFile`, which share no state | - |
| `LockedValues_proofs` | the part of `Decisions_proofs` about the locked values | - |
| `MC*` | values for an instance's constants | - |

How they compose. `Migration` asks `StateMachine` for owed states, plans and
refusals; `RollbackPlanning` checks that the closed form it gets is what the
general planner computes, and `ServerSaga` uses the general planner over its own
machine. `Domains`, `VolumePins` and `CopyPhase` each take one concern that
`Migration` abstracts - the hosts, the settle window, the bytes - and put it
between the same steps, crashes and commands; what they assume of the rest is that
it may fail, block or die. `OfflineRun` reduces a whole saga to what it does to
its sources. `HostNames` is part of `Domains`. `Decisions` instantiates the pure
modules.

Abstract specifications. `HandOver` says how hosts change hands - one holder at a
time takes hosts, or lets go of hosts that somebody else holds; `Domains`
implements it under the mapping from a host to those who hold it
(`MakeBeforeBreak`, checked by TLC and proved). `RecordLog` says that readers see
a log that only grows, except for a record in doubt; `JournalFile` implements it
under `Read`, the lines that are one whole record: `AppendRecord` is `WriteRecord`,
or `WriteOverDoubt` after a torn write, `AppendBreaksOff` is `BreakOff` or
`WriteOverDoubt`, `Open` and `Close` stutter.


## State, actions and code

### `Migration`

- `pc`, `idx`, `at`, `plan`, `failed`, `error`, `held`: the process - where it
  is, which state of ORDER, which resource of a loop, the compensations to come,
  whether one failed, why it rolls back, what FINALIZE found pinned. A crash
  clears all of them.
- `journal`: the facts `journal/store.py` derives from the records
  (`completed_states`, `in_flight_state`, `undo_incomplete_states`,
  `is_finished`, the merged details the code reads: `target_uuids`,
  `stop_requested`, `restarted`, `policy`, `deleted`, `volume_pairs`).
- `src`, `stopQueued`, `srcVol`, `srcPins` and `tgt`, `tgtVol`, `tgtPins`: per
  resource its containers, queued stops, its volume and its pin on each side.
  `srcVol` tells the data from an empty volume of the same name; `tgtVol` tells a
  verified copy and what grew out of it ("live") from a partial or fresh one.
- `outcome`, `unpinned`, `crashes`, `commands`: the last result, whether unpin
  let go of the source, and the bounds' counters.

A resource has one volume. Its number is its place in the plan, so the loops of
the code are `at` running from 1 to N. Each action is what happens between two
points at which the process may die or the world may move: one remote call with
its effect, or one journal append.

- Commands: `RunMigration`, `ResumeMigration`, `RollbackMigration`,
  `UnpinMigration` - `engine/runner.py`. `Crash` - anywhere.
- Executor: `SkipState`, `EnterState` (the `step_started` record),
  `CompleteState`, `Finish`, `Block`, `StepRaises`, `StepFailed`,
  `RefuseIfIrreversible`, `RefuseIfUnsafe`, `NothingOwed`, `StartRollback`,
  `EndRollback` - `Saga.run`, `Saga._rollback`, `Saga._owed`.
- CREATE_TARGET: undo of an interrupted attempt, create, journal the uuid, undo
  of a partial one. A create whose answer was lost leaves a target behind.
- QUIESCE: `PinSource`, `MarkStop`, `RequestStop`, `StopsRequested`, `Quiesced`.
- DISCOVER, COPY: `Discover`, `CreateVolumes`, `PinTarget`, `CopyOne`,
  `StillStopped`. VERIFY, DNS_GATE, HEALTHCHECK: `ReadOnlyStep`, guarded by what
  they look at (`LooksRight`).
- START_TARGET: `StartTarget`. FINALIZE: `JournalPolicy`, `UnpinTarget`,
  `ReleaseForDelete`, `DeleteSource`, `JournalDeleted`, `DeleteFails`,
  `RenameSources`, `UnpinSource`. A release of pins is one `docker rm` per pin and
  may break off with any of them gone (`BrokenOff`).
- Compensations: one action each; the restart has one per resource and record.
- Coolify and Docker: `StopLands`, `SourceUp`, `SourceDeployFails`, `TargetUp`,
  `TargetDown`, `PruneSource`, `PruneTarget`. The operator: `DeleteKeptSource`,
  `RestartKeptSource`, `StartSourceByHand`.

Abstractions that matter:

- Domains and the transfer key are outside: `UndoElsewhere` runs their
  compensations without effect, `CompensationFails` lets them fail. `Domains` and
  `CopyPhase` model them.
- Deleting a resource takes effect when Coolify accepts it; a stop or a deploy
  is queued and lands, or fails, later.
- A settle window outlasts any stop still queued when it began (`Settled`);
  that is what the code waits a settle window for. `VolumePins` takes it apart.
- A target that was seen healthy does not die by itself.
- One process at a time, although nothing in the code enforces it.
- `RestartKeptSource` brings a kept source up at once.

`Hazards` says what an instance lets the operator and Docker do that the
documentation tells them not to, or that the program cannot rule out: resume
after a rollback that died or was refused, roll back after unpin, start a source
whose volume was pruned, prune between the guard's look and its pin. The empty
set is the disciplined operator.

### `JournalFile`

A line is the sequence of the pieces written on it, since a write that broke off
leaves no end of line; `Read` keeps the lines that are one whole record. `Cuts`
says where a write can break off: between two characters, or within one that
takes several bytes, which makes the file no text at all (`Decodes`): from then on
the program reads nothing, so what `Read` says of such a file is said of no command,
and the theorems exclude the cut. `Migration`
takes the journal's facts as read back exactly; this module is the price of that
assumption.

### `Domains`

`srcHolds`: the hosts each source has stored; `tgt`: a row per create, with its
resource, its state in Coolify and the hosts it holds; `foreign`: the hosts that
resources outside the plan hold, of those that are `Contested`; `records`, `jobs`: the managed DNS records and
the queued release jobs; `journal` (parked bodies, targets, how far it got); the
process (`pc`, `at`, `made`, `undone`, `error`); `noticed`, what the report names for
the operator. `Serves` gives each resource its hosts: custom ones, ones under a
server's wildcard, ones Coolify generated; two sources may hold the same.

- CREATE_TARGET: `Park` (the body the target is created with), `CreateResource`
  (whose answer may be lost), `RecordTarget`, `Claim`, `CreateCompletes`;
  `FreshAttempt` and `UndoDelete`, `UndoRestore`, `UndoLoopEnds` undo what an attempt
  left; `CreateFailed`. A claim is one PATCH (`AskClaim`); when its 409 names only the
  migration's own, a second one with force, which Coolify does not check
  (`ForceClaim`). A restore is the same (`AskRestore`, `ForceRestore`).
- FINALIZE: `StartFinalize`, then per source `LookAtTarget` and `ReleaseSource`, or
  `DeleteSource`, `DeleteFails`; `Succeeds`.
- `RunOrResume`, `Rollback`, `Crash`, `StepRaises`, `Blocked`, `RolledBack`.
- Coolify: `RunReleaseJob`, `RunDeleteJob` (deferred work, at any later moment),
  `DeployDrops` (a deploy that strips a host off a target). `StrangerActs`: somebody
  else gives a host up, or takes one by a force of his own.

`setup` - the policy, how Coolify deletes, and whether the target has a wildcard
domain - is chosen once in `Init`. `Deploys` says when a deploy may fall:
before FINALIZE's look, between the look and the release ("within release"), or
before a delete ("before delete"). `LateTakers` says whether a stranger may take a
host between a 409 and the forced write that answers it.

### `VolumePins`

Time passes in ticks, one per poll interval. `vol`, `up`, `age`, `first`, `stopDue`,
`deploys`, `byHand`: the server; `image`, `pins`; `stop` and `finished`: the journal;
`groups`, `tries`, `look`, `clean`: `ensure` and `release_when_referenced` in the middle
of their loops. A container that a deploy brought up is on trial until Coolify's
health check is through with it.

- Commands: `Quiesce`, `Rollback`, `Unpin`. `ensure`: `Ensure`, `ImportImage`,
  `CreatePin`, `CreateFails`, `Pinned`. The stop and the restart: `RequestStop`,
  `Restart`. `release_when_referenced`: `ReleaseIdlePins`, `BeginLook`, `LookAt` (one
  volume per command), `ProbeFails`, `LookEnds`, `Judge`, `ReleasePin`, `Released`.
- Beside it: `Tick`, `PruneVolume`, `PruneImage`, `OtherReleases`, `StopLands`,
  `DeployStarts`, `HealthCheckFails`, `OperatorStarts`; and `Crash`.

### `CopyPhase`

QUIESCE, COPY, VERIFY and their undos, container by container and file by file. A
version per file stands for its content; a write raises it, and what a container
has written and not yet flushed is in `dirty`. A container that is killed never
flushes.

- `Capture`, `Mark`, `RequestStop`, `Wait`, `Vet` - QUIESCE, with the event log read
  for containers that were killed. `Authorise`, `Place` - the key. `Look`,
  `CopyFile`, `LookAgain` - COPY between its two looks. `VerifyFile`.
- `UndoVolumes`, `UndoKey` - COPY's own compensations, owed once COPY is complete, or
  by `rollback` after a crash in it. `UndoStop`. `UndoTarget` - the undo of
  CREATE_TARGET, which every rollback from here on plans: it revokes the key and
  deletes the target with its volumes. A COPY that fails (`Fail`) owes nothing of its
  own, so its key goes there. `Crash`, `Resume`, `Rollback`.
- `Daemon`: `Write`, `StopLands`, `Remove`, `Start`, `End`. A preview deployment's
  container is not Coolify's to stop.

`Hazards`: a QUIESCE resumed after its own stop (`resume_quiesce`), a deploy while
QUIESCE waits (`deploy_while_stopping`), a container that dies after the event
log was read (`kill_after_vetting`).

### `ServerSaga`

`Order`, `Compensation`: `server/statemachine.py`. `docker`, `running`, `restarts`,
`marker`, `privateKey` on the source; `holds` (per path: nothing, its own, a part, a
copy, an old copy), `env`, `coolify`, `authorised` on the target; the journal and the
saga's place. `Run` starts a run; `Step` is one step of one state (`Preflight`,
`StopContainers`, `StopDaemon`, `InstallKey`, `CopyPath`, `EndTransfer`, `Verify`,
`InstallCoolify`, `AssertAppKey`, `Boot`, `Probe`, `Sleep`, `Fence`, `Fail`),
`RollbackStep` one compensation, `Die` a crash; `SourceWrites` and `SourceReboots` are
the old instance's own doing. `Hazards`: a run against a target that already has
an instance (`reuse_target`), a reboot of the source (`reboot_source`).

### `OfflineRun`

Stacks of several environments; `up` and Coolify's queue of stops and starts; the
process: which environment it offers, confirms or moves, which stacks it
`stopped`, which it `told` the operator about; per environment its saga, reduced to
what it does to its sources.

- `NextOffer`, `AcceptOffer`, `StopUpFront`, `StopRaises`, `Replan`, `ReplanRaises`,
  `Abort`, `Confirm`, `HostKeyAccepted`, `HostKeyRefused` - before any saga.
- `EnterQuiesce`, `MarkStop`, `RequestStop`, `SeeItDown`, `Deploy`, `Succeed`,
  `FailsUnmarked`, `FailsMarked`, `BlockedAtDns`, `SagaRaises`.
- `RestartStopped`, `End` - the `finally` of `_run`. `JobRuns` - Coolify's queue.

### `Decisions`

One question per behavior: `Init` chooses what is asked, one of the `Ask...` actions
chooses the inputs, and the invariants compare the pure modules' answer with what
it is for. `AskRollback`, `AskDns`, `AskManifest`, `AskPairing`, `AskCopy`,
`AskCompare`, `AskApi`, `AskEnv`, `AskVars`, `AskContainers`.

`Hazards` names evidence the code takes for complete although it may not be:
`partial_answers` (a lookup failing for one record type), `missing_hashes` (a file
neither side could hash), `unanswered_probe` (a docker listing that failed),
`locked_since_plan` and `locked_while_copying` (a variable locked meanwhile),
`literal_ends_in_key` (a locked literal saved before 4.5 whose last line is a key alone).

## Runs

| run | instance | states | what it shows |
|---|---|---|---|
| `one_resource` | N = 1, 4 commands, 2 crashes | 1.3 M | the source survives and is pinned while down; FINALIZE only over a live copy; ROLLED_BACK serves or keeps its pin |
| `two_resources` | N = 2, 2 commands, 1 crash | 6.2 M | an intact copy always, when a loop breaks off between two resources too; recorded deletions are real; a failed delete pins again what it has not deleted; once deleting, the target's data is safe |
| `journal_file` | 2 processes, 5 appends, 2 broken off | 111 k | a torn write costs one acknowledged record at most; two commands at once lose nothing of each other's; readers see a log that only grows |
| `domains` | 2 resources, a host shared by two sources and contested by strangers, 3 targets, 3 commands, 1 crash | 610 k | no record of a host is deleted, no host taken from a stranger, nothing claimed by a target nobody recorded; it ends whole either way; make before break |
| `volume_pins` | 4 volumes of 2 containers, one idle, one anonymous; windows of 2 ticks, 3 commands, 1 fault | 166 k | data survives late stops and failed health checks; a restart that leaves the stack up frees the pins; no command waits for ever |
| `server_saga` | 2 runs, 1 fault, 2 polls, reboots of the source | 9 k | nothing is installed over a partial copy or booted beside a running source; the fence only for a successor; a rollback leaves the hosts as they were; the target's own instance stays; a run ends |
| `copy_phase` | 3 containers, one a preview, 2 files, 2 writes, 1 start, 1 crash, 1 fault | 13.2 M | what VERIFY accepts is one flushed moment of the source; no key stays behind |
| `decisions` | every input of bounded sets | 1.3 M | nine promises of the pure decisions, below |
| `offline_run` | 3 stacks in 2 environments | 90 k | no source starts beside its copy; each stack stopped up front runs again or is answered for |
| `resume_interrupted_rollback`, `bind_mounts`, `offline_raised` | the smallest instance that shows it | - | see Findings |

`decisions` asks: does a rollback's plan pay each debt once and in order, whatever
the journal repeats (`PlanPaysEveryDebt`); does the DNS gate open only on proof
(`DnsDecisionsAreProven`); is each volume of the source migrated, refused or
reported (`NothingLeftBehind`); are pairs one to one and of one identity, and read
back by a resume (`PairingIsFaithful`); do the rsync runs write each entry once with
its hard links, and does an equal comparison mean an equal tree (`CopyIsWhole`); is
a schedule copied once in spite of retried POSTs (`SchedulesAreExact`); is a
recovered locked value the real one (`LockedValuesAreExact`); do variables arrive,
locked where they were locked, previews apart (`VariablesAreCarried`); does "quiet"
mean that nobody can write (`QuietMeansNoWriter`).

### Bounds, and why they are enough

- `Migration`: four commands are run, rollback, a second rollback or resume, and
  one more - each command reads only the journal's derived facts and the world, and
  no fact of the journal needs more than two commands to arise. Two crashes put one
  in a step and one in the undo of it. One resource is enough for what happens to
  one resource's data in one command after another; two are needed where a loop
  may stop in the middle, which needs no second crash. For the invariants the
  proofs remove all these bounds.
- `JournalFile`: two broken writes and five appends let each broken write be
  followed by a restart and an append, or both fall on one line; a line has no
  memory beyond being whole or not.
- `Domains`: three targets for two resources give one of them an attempt that was
  abandoned and one that replaced it; three commands are a run, its resume or
  rollback, and one after that. The contested host is the one both sources serve;
  the theorem has no such bound.
- `VolumePins`: a used, an idle and an anonymous volume and two containers are one
  of each kind the code tells apart; a window of two ticks is the least that has an
  inside. One fault is a crash or a probe without an answer.
- `CopyPhase`: two files can be written on both sides of a look; two writes put
  one before and one after it.
- `ServerSaga`: a second run meets what the first left; each path's content is one
  of six values, so more runs add nothing.
- `OfflineRun`: two stacks in one environment and one in another give a second
  environment that fails after the first moved, and a loop with a middle.
- `Decisions`: two or three of each kind of item, as the set in each question says.
  Locked values are all texts of up to two tokens over every special character, and of
  three and four over those that can spill into the next line.

### Fairness and deadlock

- `VolumePins`: the process goes on (`WF(Process)`) and time passes (`WF(Tick)`); each
  wait of the code is bounded by a clock it reads itself. Coolify owes nothing: a
  deploy may never start.
- `ServerSaga`: the run goes on, since every command it sends has a timeout; nothing
  is assumed of the hosts, and no fault is fair.
- `OfflineRun`: the process goes on, and Coolify works off its queue.
- The other specifications state safety only, and have no fairness.

Deadlock is not checked: commands and records are bounded, and between commands a
migration rests with nothing to do.

Each property of a passing run has a mutant: a changed definition, kept beside the
original and marked *Mutant*, under which the run finds the property violated.

## Findings

1. `resume_interrupted_rollback`: `resume` refuses a journal only by its last
   record. A rollback that died after dropping the target's volumes can be
   resumed; COPY and VERIFY are skipped as completed, and FINALIZE(delete) then
   deletes the only copy. The help of `resume` says that every step re-checks the
   world.
2. `bind_mounts`: the manifest classifies a bind mount to be mirrored, DISCOVER
   journals a row for it, and COPY and VERIFY go over the volume pairs alone. The
   directory stays on the source and no step says so, while
   `docs/server-migration.md` lists it as mirrored.
3. `offline_raised`: the `finally` of `_run` restarts what the saga "never took over",
   but sources leave its list only when `run_migration` returns. When that raises -
   Ctrl-C during COPY, a refused rollback - the sources are started beside their
   copy.

`PROJECT.json` quotes the lines each of them contradicts.

### Known limits of the promises

The passing runs leave out what is listed here. Each is behaviour of the code, and
with the named constant the module shows it.

- `Migration`. `IntactCopy` fails under each of `resume_after_interrupted_rollback`,
  `resume_after_refused_rollback` (the refusal's record makes a rolled-back journal
  look unfinished), `start_emptied_source` (the guard of a rollback knows a volume
  by its name, and an operator who starts a kept source after a prune gets an empty
  one of that name) and `prune_between_look_and_pin` (the guard lists the volumes
  and pins them two commands later). A rollback after `unpin` loses the pins'
  protection, as `engine/compensations.py` says. What a failed delete pins again is
  known to the process alone: after a crash the resumed FINALIZE pins nothing, so
  `FailedDeleteLeavesPinned` speaks of the first command. It speaks of a delete call
  that is refused or fails, and not of a release of the pins that breaks off before
  it: FINALIZE(delete) removes its pins from the sources with one `docker rm` after
  the other, and one that fails raises where nothing pins again, since only a failing
  delete does. The sources stay stopped, their volumes open to the next cleanup, and
  a rollback is refused by then; `docs/safety.md` promises that they are pinned again.
  The model takes that step (`ReleaseForDelete`, `BrokenOff`), and
  `EveryFailedDeleteLeavesPinned`, in place of the run's property, is violated.
- `JournalFile`. A record appended after a torn one lands on its line and both are
  skipped, although the second was acknowledged (`AckedIsRead`). A write cut within a
  multi-byte character makes the decoder raise, which `read` does not catch, so every
  record is lost to every later command (`StaysReadable`).
- `Domains`. After a 409 that names only the migration's own, the claim (and a
  restore) is sent again with force, and Coolify checks no more: a stranger who takes
  the host between the two requests loses it, while `docs/troubleshooting.md` says
  that a domain is forced away from nobody else. With `LateTakers` the model lets him,
  and `NeverForcedOverForeign` is violated; the run has strangers at every other
  moment. From 4.3.15 Coolify's check is port-blind for a service, so that a URL with
  a port may meet no 409 at all; ports are no part of a host here. FINALIZE(delete)
  never looks at what the targets hold, and a deploy may drop a host between the look
  and the release; `Deploys` of the run leaves both out.
  `undone` covers the previous attempt only. A resume after a begun rollback is left
  out here as in `Migration`.
- `VolumePins`. With `Flaps` a container may go and come back between two looks, and
  `PinsGuard` does not hold; a gap of two ticks or more is always seen. Two containers
  that mount one volume can stand in for each other: the second comes up as the first
  fails its health check, the volume counts as referenced at every look, its pin goes,
  and when the second fails too `DataSurvives` is violated (one volume, used by both
  containers). `pins.py` says that only a container "that keeps running across a settle
  window" is evidence; each look asks whether any container has the volume. The run
  gives each volume one user.
  A rollback is not asked of a stack that was started by hand.
- `ServerSaga`. `FencedStaysDown` fails with `reboot_source`: the fence talks to the
  daemon STOP_SOURCE has stopped, so its commands fail unseen, and the old instance
  comes back when its machine boots. `CopiedIntoInertTarget` fails with
  `reuse_target`: a forced second run copies below a running Coolify.
  `FailureEndsOutage` is false when STOP_SOURCE fails after it stopped Docker. A
  TRANSFER that failed neither wipes nor revokes, since what completed is what is
  undone; `unfence_source` is never planned; the wipe asks about `/data/coolify` only;
  there is no resume and no rollback command.
- `CopyPhase`. `CopyIsASnapshot` fails under each of its hazards.
- `Decisions`. With each of its hazards a promise fails: a partial DNS answer, hashes
  missing on both sides, a listing that failed, a variable locked since the plan or
  while it is copied. `literal_ends_in_key`: of two locked literals saved before 4.5 the
  first ends in a quote, a newline and the second's key. In the file `A='x'`, `B='`,
  `B='y'` the parser ends A at its own inner quote and opens B's record at the quote that
  closes A; that record swallows the line of B, so each key has one record and nothing
  looks odd. A is recovered as `x`, although the docstrings of `locked_envs.py` say that
  what cannot be read comes out as unrecoverable, "never as a different value". Beyond them: names with `|` may collide in a comparison; what
  `--delete` leaves under `--files-from`; two source volumes that pair by mount path
  with one target volume; a declared volume at a covered path is reported only; the
  compose gate before the stop may pass what DISCOVER refuses after it.
- `OfflineRun`. `AnsweredFor` names its exceptions: the offer raises, which is outside
  the `try` whose `finally` restarts; QUIESCE fails before its stop marker, when the
  command line has dropped the stack and the rollback does not owe it; a stop still
  queued when the restart is asked for. Between the up-front stop and QUIESCE no
  volume is pinned, and QUIESCE then pins those of a stopped stack as idle, which a
  rollback releases at once.
- The health gate is a single look; a container in a restart loop may pass it.

## Proofs

For every value of the constants, with their named assumptions:

| theorem | property | excludes |
|---|---|---|
| `Migration_proofs!TypeCorrect` | `TypeOK` | nothing |
| `Migration_proofs!PinsOutlastTheStop` | `PinnedWhileDown` | rollback after unpin |
| `Migration_proofs!SourceOutlastsTheRun` | `SourceSurvives` | rollback after unpin |
| `Migration_proofs!FailedDeletePinsAgain` | `FailedDeleteLeavesPinned` | rollback after unpin, a release that breaks off |
| `Migration_proofs!SomeoneHasTheData` | `IntactCopy` | `Hazards` |
| `Migration_proofs!FinalizeFindsALiveCopy` | `FinalizeOverLiveCopy` | `Hazards` |
| `Migration_proofs!TheOnlyCopyStays` | `TargetIsSafeOnceDeleting` | `Hazards` |
| `Migration_proofs!TheRecordIsNotAhead` | `DeletedIsDeleted` | `Hazards` |
| `Migration_proofs!RolledBackIsSafe` | `RolledBackServesOrKeepsPin` | `Hazards` |
| `RunAndJournal_proofs!EveryAppendIsSafe` | `AppendsAreSafe` | a cut within a character |
| `RunAndJournal_proofs!FileIsALog` | `IsARecordLog` | the same |
| `Domains_proofs!ForcedOnlyOverOurOwn` | `NeverForcedOverForeign` | `LateTakers` |
| `Domains_proofs!TargetsAreHarmless` | `TargetsHoldTheirOwn` | nothing |
| `Domains_proofs!RollbackMakesWhole` | `RolledBackIsWhole` | nothing |
| `Domains_proofs!NoRecordIsDeleted` | `RecordsSurvive` | deploys within the release, before a delete |
| `Domains_proofs!HandsOverAsPromised` | `MakeBeforeBreak` | the same |
| `Domains_proofs!SuccessHandsOver` | `SucceededIsHandedOver` | the same |
| `VolumePins_proofs!NoVolumeIsPruned` | `DataSurvives` | `Flaps`, containers that share a volume |
| `VolumePins_proofs!NothingHangsOnNothing` | `PinsGuard` | the same |
| `VolumePins_proofs!OnlyOurPinsGo` | `OthersKeepTheirPins` | nothing |
| `CopyPhase_proofs!VerifiedCopyIsASnapshot` | `CopyIsASnapshot` | `Hazards` |
| `CopyPhase_proofs!RecordsCanBeResumed` | `RecordsAreTrue` | `Hazards` |
| `CopyPhase_proofs!NoKeySurvives` | `NoKeyAfterRollback` | nothing |
| `ServerSaga_proofs!StepsFindTheirWorld` | `StepsInOrder` | `reuse_target` |
| `ServerSaga_proofs!ForcedRunsWipeNothing` | `OwnInstanceKept` | the same |
| `ServerSaga_proofs!RollbackUndoes` | `RolledBackIsUndone` | nothing |
| `RunAndJournal_proofs!CopyHasNoRival` | `NoRivalToTheCopy` | nothing |
| `Decisions_proofs!EveryJournalIsPaid` | `PlanPaysEveryDebt` | nothing |
| `Decisions_proofs!DnsProves` | `DnsDecisionsAreProven` | `partial_answers` |
| `Decisions_proofs!ManifestForgetsNothing` | `NothingLeftBehind` | nothing |
| `Decisions_proofs!PairsAreFaithful` | `PairingIsFaithful` | nothing |
| `Decisions_proofs!SplitLosesNothing`, `VerifyMissesNothing` | `CopyIsWhole` | files that cannot be hashed |
| `Decisions_proofs!SchedulesAreCopiedOnce` | `SchedulesAreExact` | nothing |
| `Decisions_proofs!QuietHasNoWriter` | `QuietMeansNoWriter` | volumes Docker does not answer for |
| `Decisions_proofs!VariablesArrive` | `VariablesAreCarried` | `locked_since_plan`, `locked_while_copying` |
| `LockedValues_proofs!WhatIsWrittenIsReadBack` | the codec of a locked value | empty values, which are stored as none |
| `LockedValues_proofs!LockedValuesArrive` | `LockedValuesAreExact` | `literal_ends_in_key` |
| `Decisions_proofs!DecisionsAreRight` | the nine above, of every behavior | these hazards |

The assumptions are on constants alone: numbers are natural numbers, sets of
resources, hosts, volumes and containers are related as the modules say, the texts of a
locked variable are sequences of tokens and not empty (`TextsAssumption`), and in
`VolumePins` the settle window is at least as long as a health check and as the
longest a stop can be late (`WindowsAssumption`), since `settle_window` takes the longer
of the two. Assumptions on the bounds of counters (`BoundsAssumption`) only say that
these are numbers: no theorem depends on their values.

### The source's custody: `IInv`

Neither `PinnedWhileDown` nor `SourceSurvives` is inductive. `IInv` adds what makes
them so:

- `LabelFitsState`, `LoopFits`: the place in the code fixes the saga's state;
- `PolicyFirst`: FINALIZE's policy is journalled before FINALIZE acts, so
  "FINALIZE has not begun" can be read off the journal;
- `StopsAreMarked`, `QuiesceIsMarked`: no stop is queued without the marker, and
  a completed QUIESCE has it;
- `RestartsAreOwed`, `RestartIsOurs`: a restart is planned only after a stop, and
  the evidence the release of the pins relies on is of this rollback;
- `UnpinnedIsOver`: after unpin the journal is closed;
- `SourceIsGuarded`: before FINALIZE all volumes hold the data, whatever is down
  or has a stop queued is pinned, everything is pinned while stops are being
  asked for, and after a stop every resource not yet restarted is pinned.

The argument: pins are added freely and given up at two places. Unpin gives them
up when every pinned source runs and no stop is queued. The end of a rollback
gives them up in the same case, or when no stop was ever marked, so that none is
queued (`StopsAreMarked`). A restart takes down only a resource not yet
journalled as restarted, and that one is pinned. A cleanup needs a volume that is
neither in use nor pinned; the invariant leaves none. `JournalWriters` states
once which place writes which field of the journal; the preservation lemmas then
go through the groups of actions, one step each, split where an action touches
the conjunct. `PlanFacts` bounds what a plan can contain. TLC checked `IInv` on one
resource with every hazard but one before it was proved.

### An intact copy: `CopyInv`

`CopyInv` is `IInv` with what links the two sides. Until FINALIZE has begun the
source is guarded, so only FINALIZE needs an argument about the target. `Ordered`
and `History`: states are completed in order, each with what it left behind.
`CopyPinned`: from COPY on the target's volume is pinned. `Verified`: after VERIFY it
is the data. `Served`: after HEALTHCHECK it is in use, so no cleanup takes it and
what grows in it grows out of the data. `FinalizeIsLate`: FINALIZE comes after all of
these. `NothingDone`, `SourceBefore`, `SourceKept`, `DeletedOnes`: what a source is
before FINALIZE, under a keeping policy, and once deleted. `TargetsDown`: what a
rollback may drop belongs to a target that does not run. The rollback of a FINALIZE
is admitted only for a kept source, and then runs over a source `source_data_refusal`
found whole and pinned. Each hazard breaks one of these links, so they are all
excluded; the violation run shows one. TLC checked `CopyInv` on one and on two
resources first.

`FirstInv` is the same for the first command alone. `FailedDeleteLeavesPinned` speaks of
no other: what FINALIZE found pinned is in its memory, so the invariant follows that
memory (`HeldWhole`) from the moment all sources are still pinned, through the
release of the pins and the loop that deletes each resource and journals it, to the
step that pins the rest again.

### Hosts: `PlanInv`, `HostInv` and what follows an end

`PlanInv` holds whatever is deployed when: a target the journal names was made for its
resource, a claim is backed by the body the source was parked with
(`ClaimsAreBacked`), the loops are where their counters say. `HostInv` adds what a
deploy behind the last look breaks: resource by resource, each host is at its source
or at the live target of its own (`EachHeld`), and what a release relies on was seen.
So no host is ever without a holder when a release job runs, and each step maps to a
step of `HandOver` or to a stutter. That no host is taken from a stranger needs
`ForceIsClear`: at a forced write no stranger holds the hosts it names, because a 409
said so and none has come since. `RolledBackIsWhole` is about the end of an undo, and
gets an invariant of its own (`Settled`): before the outcome is written the undo loop
has reached its end, and a resource behind the loop's counter is restored and has no
target.
`SucceededIsHandedOver` needs that each source was looked at (`LooksAreDone`).

### Pins: `PinsInv`

Every volume that waits to be mounted again hangs on a pin of ours or on a container
that is there to stay, steady and with no stop in Coolify's queue (`Held`). The step
that could break it is `release_when_referenced`, which takes pins away on the
evidence of looks. `Window` says what looks across a window prove: a container seen in
each of them was up all along, because the gap a restart leaves is longer than the
interval between two looks; so it has been up as long as the window, which is longer
than a health check and than a stop can be late. Then it is steady and no stop is to
come (`EvidenceHolds`), and its pin may go. Two containers that share a volume can
stand in for each other, so the theorem speaks of volumes with one user. An idle pin
goes without a look, and is only ever of a volume nothing mounted (`IdleIsIdle`).

### The journal's file: `JournalInv`

`Read` selects and flattens lines, so the lemmas say how one write changes what is
read: it adds its record at the end, or nothing, or it falls on a line in doubt and
that line's record goes too. `Kept` counts: acknowledged records that cannot be read,
and the line in doubt, are no more than the writes that broke off. `Alone` holds while
no two processes have had the file open: numbers grow along the file, and no counter
is behind what is read. The same lemmas make each step of the file a step of
`RecordLog`.

### The decisions: shapes of questions

A decision is a pure function, so its theorem is about every question of a shape -
`RollbackQuestion`, `DnsQuestion`, `PairingQuestion` and so on, over arbitrary sets of
states, addresses, names, files and calls - and `DecisionsAreRight` adds that each
question `Spec` asks has such a shape (`ShapedQuestion`). The arguments:

- *Rollbacks.* The planner concatenates in reverse order and then moves single
  steps forward within the sequence. `PlanIs` gives its result as a closed form over the set of
  owed states; `Rank` orders the steps, the closed form ascends, and a sequence that
  ascends names each step once and in order. Hence neither repetitions nor the order
  of records in the journal matter.
- *The split.* Largest-first packing puts each entry into one bin: after n entries
  the bins hold the first n of the order and are disjoint, by induction on n.
- *Locked values.* The encoded text is laid out in one piece per token
  (`LaidOut`); the decoder, which is defined from the back of the text, reads at each
  piece's beginning the rest of the value. An exact row has no other candidate; of a
  legacy row's candidates one is the value, so either it is alone and is taken, or
  nothing is recovered.
- *The file around them.* `EnvQuestion` is a file of one line per key, in any order, with
  any locked value; the lines of the other rows are plain (`Tame`: no quotes, or a text
  in quotes that has none of its own). The parser's records are a walk over the text
  (`Walk`). A plain line keeps the walk: no record in it reaches beyond its end
  (`RecordsWithin`), so the walk comes to the locked row's line (`ComesToAll`). The record
  there has the whole value, or ends early (`Leaves`); then what comes next is no key that
  is written for sure, or is one that comes again on its own line, and the value is left
  alone (`WholeOrNone`). For a row saved before 4.5 this needs that no record inside its
  value reaches beyond the line either, unless the parser finds the file odd (`Quiet`):
  the literal of `literal_ends_in_key` is the one that does it unseen. Where every row is
  exact each line is one record (`Firm`), nothing is stale, repeated or vague, and the
  value is recovered (`ExactIsRecovered`).
- *Variables.* `VarsQuestion` is any rows under any keys, one per name, each with a value
  of its own or, a URL, the host of the source. The bulk update is followed entry by
  entry (`UpsertHolds`, and `CopyHolds` by induction on where it breaks off): no two rows
  of the target have one name, and each row says where it comes from (`Origin`): it is an
  entry, a preview the tool made beside one, Coolify's own, or the twin Coolify made of an
  entry. The three promises are about origins. A twin is made only beside an entry that no
  preview is sent with (`Bare`), and such an entry is not locked and has no preview on the
  source (`TwinsAreHarmless`), so neither a secret nor production's value for the previews
  gets out that way. A variable that is no entry has only Coolify's own row
  (`OthersAreCoolifys`), and the plan or CREATE has refused it, or the plan has told
  (`NoEntryIsForetold`).
- *The rest* are arguments over sets: pairs are keyed by one identity on both sides; a
  mounted volume is sighted and a declared one is an item unless its path is covered;
  the last attempt of a throttled call is the only one that can have committed.

### The others

- `CopyPhase_proofs`, `CopyInv`: unflushed data belongs only to containers that were
  killed, which QUIESCE sees; versions only grow, so two equal looks have one version
  between them. The key needs no hazard excluded: every rollback ends
  with the undo of CREATE_TARGET, whose revocation goes by the migration's id and asks
  no record of the journal, so it finds what a failed COPY owed and what a crash left
  unrecorded.
- `ServerSaga_proofs`, `SagaInv`: each place in the saga with what the earlier ones
  established (`Rests`). `DebtInv`: once a state has failed, what completed is undone or
  still planned, unless a compensation failed, and a step leaves the plan only when it
  was taken; so an emptied plan leaves nothing to undo.
- `RunAndJournal_proofs`, `SafeInv`: restarts come after all sagas, a stack whose
  environment moved is off the list, and a source whose saga holds a copy has neither
  a start queued nor runs.

### Induction

The prover has no induction rule it can apply to a formula, since the library's
theorems take an operator as a parameter. Induction over numbers goes by sets
instead: a set that contains 0, and with each number its successor, contains all
(`NatSetInduction`, from the well-foundedness of `<`). Recursive functions of the
models and of the community modules (`FlattenSeq`, the folds) are unrolled through
their partial results in the same way. What stays out of reach is what the prover has
no definition for - TLC's `@@`, `:>` and sorting - and RECURSIVE operators; no module
that is proved about uses them, and none uses a RECURSIVE operator at all.

### Only model-checked

- All liveness (`CommandsEnd`, `StackUpFreesPins`, `RunEnds`, `EndsAnswered`): fairness
  and ENABLED are out of the prover's reach.
- The three violations under Findings, each on its instance.

## Not modelled, and why

`PROJECT.json` says of each component what is left out of it. In short:

- Network and process I/O: the ssh transport, command lines and output parsing of
  docker, rsync and ssh, the HTTP of Coolify's client. Their failures and lost answers
  are outcomes of the actions that use them.
- Most of fidelity, drift, the versions table and the planner: independent predicates
  over one answer of Coolify's each, or fields copied into the plan, with no state and
  no order between them.
- The verdict over containers in the health check; Coolify's field whitelists and the
  payload of each resource kind.
- In the locked values, the parts for PORT (which Coolify generates), compose text,
  YAML and a redis URL, and the refusal of a file that a preview's deploy wrote last.
- In the DNS gate, hosts that only a service's variables name, which it exempts; among
  the orphans, volumes that Coolify's label alone or a name's prefix tells.
- Rendering, prompts' wording, settings, logging, exception types.
- Two sagas at once on one migration: nothing in the code prevents it, and only the
  journal file is modelled for it.
