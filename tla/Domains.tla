------------------------------- MODULE Domains -------------------------------
(***************************************************************************)
(* The hand-over of a migration's domains, from CREATE, where the targets  *)
(* claim them, to FINALIZE, where the sources let go, and back in a        *)
(* rollback.  Coolify checks every write for other holders and, from 4.4,  *)
(* deletes the DNS record it manages of a host nobody holds any more.      *)
(*                                                                         *)
(* The steps between CREATE and FINALIZE are Migration's; here they may    *)
(* fail, block, die, or deploy.                                            *)
(***************************************************************************)
EXTENDS Integers, FiniteSets, HostNames

CONSTANTS N,              \* resources of the plan
          Serves,         \* per resource: the hosts its source holds before the run
          Contested,      \* bound: the hosts a stranger may hold
          MaxTargets,     \* bound: targets Coolify creates
          MaxCommands,    \* bound: commands the operator gives
          MaxCrashes,     \* bound: processes that die
          Deploys,        \* when a deploy of a target may drop hosts of it
          LateTakers      \* whether a stranger may take a host between a 409 and
                          \* the forced write that answers it

Resources == 1 .. N
Targets == 1 .. MaxTargets
None == 0

ASSUME ResourcesAssumption == N \in Nat \ {0}
ASSUME BoundsAssumption == {MaxTargets, MaxCommands, MaxCrashes} \subseteq Nat
ASSUME LateTakersAssumption == LateTakers \in BOOLEAN
ASSUME DeploysAssumption == Deploys \subseteq {"before release", "before delete", "within release"}

VARIABLES
  srcHolds,   \* per resource: the hosts its source holds in Coolify
  tgt,        \* per target: whose it is, its row, the hosts it holds
  foreign,    \* custom hosts that resources outside the plan hold
  records,    \* hosts whose managed DNS record is there
  jobs,       \* hosts whose release job is queued
  journal,
  pc, at,     \* the process: where it is, at which resource
  made,       \* its targets, by resource
  undone,     \* targets of an interrupted attempt that this one deleted
  error,      \* why it undoes: nothing, a failed step, a failed undo
  noticed,    \* resources the run report names for the operator
  outcome,
  setup,      \* what differs between runs: policy, release, target wildcard
  commands, crashes

coolifyVars == << srcHolds, tgt, foreign, records, jobs >>
processVars == << pc, at, made, undone, error >>
endVars == << noticed, outcome >>
boundVars == << setup, commands, crashes >>
vars == << coolifyVars, journal, processVars, endVars, boundVars >>

Labels == {"idle", "park", "create", "record", "claim", "force", "baseline",
           "undo_delete", "undo_restore", "undo_force", "undo_done", "middle",
           "finalize", "look", "release", "rb_restore", "rb_force", "rb_delete",
           "rb_done"}

\* Between a 409 that names only our own holders and the forced PATCH.
ForceLabels == {"force", "undo_force", "rb_force"}

AllHosts ==
  (UNION {Serves[r] \cup ClaimValue(Serves[r], TRUE) : r \in Resources})
    \cup {Generated("auto", "target")}

Served == UNION {CustomHosts(Serves[r]) : r \in Resources}

\* A custom host resolves to wherever its DNS says: it is bound to no server.
ASSUME ServesAssumption ==
  /\ Serves \in [Resources -> SUBSET AllHosts]
  /\ \A h \in Served : h.on # "source"
ASSUME ContestedAssumption == Contested \subseteq Served

Rows == [of : Resources \cup {None}, row : {"none", "live", "deleting", "gone"},
         holds : SUBSET AllHosts]

Journals ==
  [parked    : [Resources -> SUBSET AllHosts],   \* CREATE's restore bodies
   targets   : [Resources -> Targets \cup {None}],
   inCreate  : BOOLEAN,     \* CREATE started and has not ended
   created   : BOOLEAN,     \* CREATE completed
   stopped   : BOOLEAN,     \* QUIESCE asked for the stop
   undoOpen  : BOOLEAN,     \* undo_incomplete
   deleting  : BOOLEAN,     \* FINALIZE's policy, delete
   closed    : BOOLEAN,     \* is_finished
   undo      : BOOLEAN]     \* a rollback has begun

TypeOK ==
  /\ srcHolds \in [Resources -> SUBSET AllHosts]
  /\ tgt \in [Targets -> Rows]
  /\ foreign \subseteq Served /\ records \subseteq Served /\ jobs \subseteq Served
  /\ journal \in Journals
  /\ pc \in Labels /\ at \in 1 .. N + 1
  /\ made \in [Resources -> Targets \cup {None}]
  /\ undone \subseteq Targets
  /\ error \in {"none", "step", "undo"}
  /\ noticed \subseteq Resources
  /\ outcome \in {"none", "succeeded", "blocked", "failed", "refused",
                  "rolled_back", "rollback_failed"}
  /\ setup \in [policy : {"keep", "delete"}, softDeletes : BOOLEAN,
                wildcard : BOOLEAN]
  /\ commands \in 0 .. MaxCommands /\ crashes \in 0 .. MaxCrashes

NoTargets == [r \in Resources |-> None]

Init ==
  /\ srcHolds = Serves
  /\ tgt = [t \in Targets |-> [of |-> None, row |-> "none", holds |-> {}]]
  /\ foreign \in SUBSET Contested
  /\ records = Served
  /\ jobs = {}
  /\ journal = [parked |-> [r \in Resources |-> {}], targets |-> NoTargets,
                inCreate |-> FALSE, created |-> FALSE, stopped |-> FALSE, undoOpen |-> FALSE,
                deleting |-> FALSE, closed |-> FALSE, undo |-> FALSE]
  /\ pc = "idle" /\ at = 1
  /\ made = NoTargets /\ undone = {} /\ error = "none"
  /\ noticed = {} /\ outcome = "none"
  /\ setup \in [policy : {"keep", "delete"}, softDeletes : BOOLEAN, wildcard : BOOLEAN]
  /\ commands = 0 /\ crashes = 0

-----------------------------------------------------------------------------
(***************************************************************************)
(* Coolify.                                                                *)
(***************************************************************************)
LiveTargets == {t \in Targets : tgt[t].row = "live"}

\* A row that only waits for its delete job still meets the conflict check;
\* from 4.3.11 a delete hides the row first.
Conflicting(t, hosts) == tgt[t].row \in {"live", "deleting"} /\ tgt[t].holds \cap hosts # {}

TargetConflicts(t, hosts) == {u \in Targets \ {t} : Conflicting(u, hosts)}

\* Whether a PATCH gives a source, or a target, hosts that somebody else holds.
SourceClashes(r, hosts) ==
  \/ foreign \cap hosts # {}
  \/ \E s \in Resources \ {r} : srcHolds[s] \cap hosts # {}
  \/ \E u \in Targets : Conflicting(u, hosts)
TargetClashes(t, hosts) ==
  \/ foreign \cap hosts # {}
  \/ \E s \in Resources : srcHolds[s] \cap hosts # {}
  \/ TargetConflicts(t, hosts) # {}

LiveHolder(h) ==
  \/ \E r \in Resources : h \in srcHolds[r]
  \/ \E t \in LiveTargets : h \in tgt[t].holds
  \/ h \in foreign

\* Removing a host from a resource queues the job that may delete its record.
Queue(hosts) == jobs' = IF setup.softDeletes THEN jobs \cup CustomHosts(hosts) ELSE jobs

\* DELETE: a hidden row at once, or a row that waits for its job.
DeleteTarget(t) ==
  /\ tgt' = [tgt EXCEPT ![t].row = IF setup.softDeletes THEN "gone" ELSE "deleting"]
  /\ Queue(tgt[t].holds)

RunReleaseJob ==
  \E h \in jobs :
    /\ jobs' = jobs \ {h}
    /\ records' = IF LiveHolder(h) THEN records ELSE records \ {h}
    /\ UNCHANGED << srcHolds, tgt, foreign, journal, processVars, endVars, boundVars >>

RunDeleteJob ==
  \E t \in Targets :
    /\ tgt[t].row = "deleting"
    /\ tgt' = [tgt EXCEPT ![t].row = "gone"]
    /\ UNCHANGED << srcHolds, foreign, records, jobs, journal, processVars, endVars, boundVars >>

\* A deploy reloads the compose and drops the hosts of a service it no longer
\* has.  Once the source has let go that is the operator's own doing.
Drops(t, hosts) ==
  /\ tgt' = [tgt EXCEPT ![t].holds = @ \ hosts]
  /\ Queue(hosts)
  /\ UNCHANGED << srcHolds, foreign, records, journal, processVars, endVars, boundVars >>

DeployDrops ==
  \E t \in LiveTargets, hosts \in SUBSET Served :
    /\ hosts # {} /\ hosts \subseteq tgt[t].holds
    /\ journal.created
    /\ hosts \subseteq srcHolds[tgt[t].of]
    /\ setup.policy # "delete" => "before release" \in Deploys
    /\ setup.policy = "delete" => "before delete" \in Deploys
    /\ pc = "release" => "within release" \in Deploys
    /\ Drops(t, hosts)

\* A stranger lets a host go, or takes one, by a force of his own.
StrangerActs ==
  \E h \in Contested :
    /\ \/ foreign' = foreign \ {h}
       \/ /\ pc \in ForceLabels => LateTakers
          /\ foreign' = foreign \cup {h}
    /\ UNCHANGED << srcHolds, tgt, records, jobs, journal, processVars, endVars, boundVars >>

-----------------------------------------------------------------------------
(***************************************************************************)
(* Commands.                                                               *)
(***************************************************************************)
Command ==
  /\ pc = "idle"
  /\ commands < MaxCommands
  /\ commands' = commands + 1
  /\ error' = "none" /\ noticed' = {} /\ outcome' = "none"
  /\ UNCHANGED << coolifyVars, setup, crashes >>

Goto(label) == pc' = label /\ at' = 1

\* step_create_target, from its first lines: a fresh attempt, or first the
\* undo of the interrupted one the journal tells of.
StartCreate ==
  /\ journal' = [journal EXCEPT !.inCreate = TRUE]
  /\ made' = journal.targets
  /\ undone' = {}
  /\ IF journal.targets = NoTargets /\ \A r \in Resources : journal.parked[r] = {}
     THEN Goto("park")
     ELSE Goto("undo_delete")

\* run on a new journal, resume on one that is not finished.
RunOrResume ==
  /\ Command
  /\ ~journal.closed /\ ~journal.undo
  /\ IF journal.created
     THEN /\ Goto("middle")
          /\ made' = journal.targets
          /\ UNCHANGED << journal, undone >>
     ELSE StartCreate

\* restore_source_fqdn comes first only as what precedes a restart.
FirstUndo(stopped) == IF stopped THEN "rb_restore" ELSE "rb_delete"

\* rollback: refused once a delete has begun.
Rollback ==
  /\ Command
  /\ ~journal.deleting
  /\ journal.inCreate \/ journal.created \/ journal.undoOpen
  /\ journal' = [journal EXCEPT !.undo = TRUE, !.closed = FALSE]
  /\ made' = journal.targets
  /\ Goto(FirstUndo(journal.stopped))
  /\ UNCHANGED undone

Crash ==
  /\ pc # "idle"
  /\ crashes < MaxCrashes
  /\ crashes' = crashes + 1
  /\ Goto("idle")
  /\ made' = NoTargets /\ undone' = {} /\ error' = "none" /\ noticed' = {}
  /\ UNCHANGED << coolifyVars, journal, outcome, setup, commands >>

End(result) ==
  /\ Goto("idle")
  /\ made' = NoTargets /\ undone' = {}
  /\ outcome' = result

-----------------------------------------------------------------------------
(***************************************************************************)
(* CREATE: per resource park, create, record, claim.                       *)
(***************************************************************************)
\* Any step of it may raise; what was made is undone in the step itself.
Raises ==
  /\ pc \in {"park", "create", "claim", "force", "baseline"}
  /\ error' = "step"
  /\ Goto("undo_delete")
  /\ UNCHANGED << coolifyVars, journal, made, undone, endVars, boundVars >>

\* The body that gives the source its hosts back, before any write.
Park ==
  /\ pc = "park" /\ at <= N
  /\ journal' = IF Serves[at] = {} THEN journal
                ELSE [journal EXCEPT !.parked[at] = Serves[at], !.targets = made]
  /\ pc' = "create"
  /\ UNCHANGED << coolifyVars, at, made, undone, error, endVars, boundVars >>

NewTarget(t, holds) ==
  /\ \A u \in Targets : u < t => tgt[u].row # "none"
  /\ tgt[t].row = "none"
  /\ tgt' = [tgt EXCEPT ![t] = [of |-> at, row |-> "live", holds |-> holds]]

Autogenerated(hosts) == IF hosts = {} THEN {Generated("auto", "target")} ELSE hosts

\* Mutant: the target is created with all the hosts of its source.
CreateResource_ClaimsAtOnce ==
  /\ pc = "create"
  /\ \E t \in Targets :
       /\ NewTarget(t, Autogenerated(ClaimValue(Serves[at], setup.wildcard)))
       /\ \/ made' = [made EXCEPT ![at] = t] /\ pc' = "record" /\ UNCHANGED << at, error >>
          \/ error' = "step" /\ Goto("undo_delete") /\ UNCHANGED made
  /\ UNCHANGED << srcHolds, foreign, records, jobs, journal, undone, endVars, boundVars >>

\* create_resource: without the hosts the source holds.  The answer of a POST
\* may be lost; it is never sent again, and nobody knows of that target.
CreateResource ==
  /\ pc = "create"
  /\ \E t \in Targets :
       /\ NewTarget(t, Autogenerated(CreateValue(Serves[at], setup.wildcard)))
       /\ \/ made' = [made EXCEPT ![at] = t] /\ pc' = "record" /\ UNCHANGED << at, error >>
          \/ error' = "step" /\ Goto("undo_delete") /\ UNCHANGED made
  /\ UNCHANGED << srcHolds, foreign, records, jobs, journal, undone, endVars, boundVars >>

RecordTarget ==
  /\ pc = "record"
  /\ journal' = [journal EXCEPT !.targets = made]
  /\ pc' = "claim"
  /\ UNCHANGED << coolifyVars, at, made, undone, error, endVars, boundVars >>

MadeTargets == {made[r] : r \in Resources} \ {None}

\* Mutant: a claim overrides whoever holds the hosts.
OnlyOwnHolders_Always(t, hosts) == TRUE

\* only_own_holders: every holder a 409 names is a source of the plan, a target
\* of this attempt, or one that it deleted.
OnlyOwnHolders(t, hosts) ==
  foreign \cap hosts = {} /\ TargetConflicts(t, hosts) \subseteq MadeTargets \cup undone

GoOn(label) == pc' = label /\ at' = at + 1

\* The read back after the PATCH: Coolify may keep fewer hosts than it was sent.
WriteClaim(t, hosts) ==
  \/ /\ tgt' = [tgt EXCEPT ![t].holds = hosts]
     /\ GoOn(IF at = N THEN "baseline" ELSE "park")
     /\ UNCHANGED error
  \/ /\ \E kept \in SUBSET hosts : tgt' = [tgt EXCEPT ![t].holds = kept]
     /\ error' = "step"
     /\ Goto("undo_delete")

\* claim_application_domains, finish_service_target: one PATCH.  A 409 that names
\* a stranger raises; one that names only our own is answered by force.
AskClaim ==
  /\ pc = "claim"
  /\ LET t == made[at]
         hosts == ClaimValue(Serves[at], setup.wildcard)
     IN \/ /\ CustomHosts(hosts) = {}
           /\ GoOn(IF at = N THEN "baseline" ELSE "park")
           /\ UNCHANGED << tgt, error >>
        \/ /\ CustomHosts(hosts) # {}
           /\ ~TargetClashes(t, CustomHosts(hosts))
           /\ WriteClaim(t, hosts)
        \/ /\ TargetClashes(t, CustomHosts(hosts))
           /\ OnlyOwnHolders(t, CustomHosts(hosts))
           /\ pc' = "force"
           /\ UNCHANGED << tgt, at, error >>
  /\ UNCHANGED << srcHolds, foreign, records, jobs, journal, made, undone, endVars, boundVars >>

\* The second PATCH, with force_domain_override: nobody is asked again.
ForceClaim ==
  /\ pc = "force"
  /\ WriteClaim(made[at], ClaimValue(Serves[at], setup.wildcard))
  /\ UNCHANGED << srcHolds, foreign, records, jobs, journal, made, undone, endVars, boundVars >>

Claim == AskClaim \/ ForceClaim

\* _refuse_moved_dns passes and CREATE completes.
CreateCompletes ==
  /\ pc = "baseline"
  /\ journal' = [journal EXCEPT !.created = TRUE, !.inCreate = FALSE, !.targets = made]
  /\ Goto("middle")
  /\ UNCHANGED << coolifyVars, made, undone, error, endVars, boundVars >>

-----------------------------------------------------------------------------
(***************************************************************************)
(* Undoing targets: in CREATE itself, and as DELETE_TARGET.                *)
(***************************************************************************)
\* Mutant: a target goes without a look at its source.
MayDelete_Unseen(r) == TRUE

\* _source_lacks_its_hosts: only a source that holds them all lets its target go.
MayDelete(r) == NotHeld(journal.parked[r], srcHolds[r]) = {}

Failed == error' = "undo"

\* Mutant: a target that could not be deleted, or was kept, is not reported.
DeleteMade_Silent ==
  /\ at <= N
  /\ at' = at + 1
  /\ LET t == made[at]
     IN IF t = None \/ tgt[t].row \in {"deleting", "gone"}
        THEN UNCHANGED << tgt, jobs, error >>
        ELSE \/ MayDelete(at) /\ DeleteTarget(t) /\ UNCHANGED error
             \/ UNCHANGED << tgt, jobs, error >>
  /\ UNCHANGED << srcHolds, foreign, records, journal, pc, made, undone, endVars, boundVars >>

\* undo_create_target, one target.  A source that cannot be read keeps it; a
\* delete may fail; a target that is gone already is no failure.
DeleteMade ==
  /\ at <= N
  /\ at' = at + 1
  /\ LET t == made[at]
     IN IF t = None \/ tgt[t].row \in {"deleting", "gone"}
        THEN UNCHANGED << tgt, jobs, error >>
        ELSE \/ MayDelete(at) /\ DeleteTarget(t) /\ UNCHANGED error
             \/ Failed /\ UNCHANGED << tgt, jobs >>
  /\ UNCHANGED << srcHolds, foreign, records, journal, pc, made, undone, endVars, boundVars >>

UndoDelete == pc \in {"undo_delete", "rb_delete"} /\ DeleteMade

\* What a restore's 409 may name: sources of the plan and journalled targets.
RestoreHoldersAreOwn(r) ==
  /\ foreign \cap CustomHosts(journal.parked[r]) = {}
  /\ \A u \in Targets : Conflicting(u, journal.parked[r]) => u \in MadeTargets

GivesBack(r) == srcHolds' = [srcHolds EXCEPT ![r] = journal.parked[r]]

\* _restore_one: read, compare, and PATCH only a difference.  A 409 that names
\* only our own is answered by force.
RestoreOne(r) ==
  \/ ~Differs(journal.parked[r], srcHolds[r]) /\ GoOn(pc) /\ UNCHANGED << srcHolds, error >>
  \/ /\ Differs(journal.parked[r], srcHolds[r])
     /\ ~SourceClashes(r, journal.parked[r])
     /\ GivesBack(r)
     /\ GoOn(pc)
     /\ UNCHANGED error
  \/ /\ Differs(journal.parked[r], srcHolds[r])
     /\ SourceClashes(r, journal.parked[r])
     /\ RestoreHoldersAreOwn(r)
     /\ pc' = IF pc = "undo_restore" THEN "undo_force" ELSE "rb_force"
     /\ UNCHANGED << srcHolds, at, error >>
  \/ Failed /\ GoOn(pc) /\ UNCHANGED srcHolds

\* restore_source_domains: every source is tried, whatever became of the last.
AskRestore ==
  /\ pc \in {"undo_restore", "rb_restore"} /\ at <= N
  /\ IF journal.parked[at] = {} THEN GoOn(pc) /\ UNCHANGED << srcHolds, error >> ELSE RestoreOne(at)

ForceRestore ==
  /\ pc \in {"undo_force", "rb_force"}
  /\ \/ GivesBack(at) /\ UNCHANGED error
     \/ Failed /\ UNCHANGED srcHolds
  /\ GoOn(IF pc = "undo_force" THEN "undo_restore" ELSE "rb_restore")

UndoRestore ==
  /\ AskRestore \/ ForceRestore
  /\ UNCHANGED << tgt, foreign, records, jobs, journal, made, undone, endVars, boundVars >>

UndoNext ==
  CASE pc = "undo_delete"  -> "undo_restore"
    [] pc = "undo_restore" -> "undo_done"
    [] pc = "rb_delete"    -> IF journal.stopped THEN "rb_done" ELSE "rb_restore"
    [] pc = "rb_restore"   -> IF journal.stopped THEN "rb_delete" ELSE "rb_done"

UndoLoopEnds ==
  /\ pc \in {"undo_delete", "undo_restore", "rb_delete", "rb_restore"} /\ at = N + 1
  /\ Goto(UndoNext)
  /\ UNCHANGED << coolifyVars, journal, made, undone, error, endVars, boundVars >>

\* _undo_interrupted_attempt succeeded: this step owns nothing yet.
FreshAttempt ==
  /\ pc = "undo_done" /\ error = "none"
  /\ journal' = [journal EXCEPT !.parked = [r \in Resources |-> {}], !.targets = NoTargets,
                                !.undoOpen = FALSE]
  /\ undone' = MadeTargets
  /\ made' = NoTargets
  /\ Goto("park")
  /\ UNCHANGED << coolifyVars, error, endVars, boundVars >>

\* CREATE failed.  What its undo left behind is flagged for `rollback`.
CreateFailed ==
  /\ pc = "undo_done" /\ error # "none"
  /\ journal' = [journal EXCEPT !.inCreate = FALSE, !.closed = TRUE,
                                !.undoOpen = @ \/ error = "undo"]
  /\ End(IF error = "undo" THEN "rollback_failed" ELSE "failed")
  /\ UNCHANGED << coolifyVars, error, noticed, boundVars >>

RolledBack ==
  /\ pc = "rb_done"
  /\ journal' = [journal EXCEPT !.closed = TRUE]
  /\ End(IF error = "undo" THEN "rollback_failed" ELSE "rolled_back")
  /\ UNCHANGED << coolifyVars, error, noticed, boundVars >>

-----------------------------------------------------------------------------
(***************************************************************************)
(* From the stop to FINALIZE.                                              *)
(***************************************************************************)
\* A step raises and the saga rolls back; FINALIZE(keep) may raise, too, before
\* it looks at any domain.
StepRaises ==
  /\ pc = "middle" /\ ~journal.deleting
  /\ \E stopped \in {journal.stopped, TRUE} :
       /\ journal' = [journal EXCEPT !.undo = TRUE, !.stopped = stopped]
       /\ Goto(FirstUndo(stopped))
  /\ error' = "step"
  /\ UNCHANGED << coolifyVars, made, undone, endVars, boundVars >>

\* DNS_GATE waits for the operator.
Blocked ==
  /\ pc = "middle" /\ ~journal.deleting
  /\ journal' = [journal EXCEPT !.stopped = TRUE]
  /\ End("blocked")
  /\ UNCHANGED << coolifyVars, error, noticed, boundVars >>

StartFinalize ==
  /\ pc = "middle"
  /\ journal' = [journal EXCEPT !.stopped = TRUE, !.deleting = setup.policy = "delete"]
  /\ Goto(IF setup.policy = "delete" THEN "finalize" ELSE "look")
  /\ UNCHANGED << coolifyVars, made, undone, error, endVars, boundVars >>

\* _delete_source: no look at the target.  A source that is gone is skipped.
DeleteSource ==
  /\ pc = "finalize" /\ at <= N
  /\ srcHolds' = [srcHolds EXCEPT ![at] = {}]
  /\ Queue(srcHolds[at])
  /\ at' = at + 1
  /\ UNCHANGED << tgt, foreign, records, journal, pc, made, undone, error, endVars, boundVars >>

\* The journal stays open: a delete that began can only be finished.
DeleteFails ==
  /\ pc = "finalize" /\ at <= N
  /\ End("refused")
  /\ UNCHANGED << coolifyVars, journal, error, noticed, boundVars >>

NoticeAndKeep == noticed' = noticed \cup {at}

\* Mutant: CREATE's proof that the target holds the hosts is not repeated.
TargetStillHolds_AsCreated(r) == TRUE

TargetStillHolds(r) == NotHeld(srcHolds[r], tgt[made[r]].holds) = {}

\* _target_still_holds: a target that lost a host, or cannot be read, leaves the
\* source as it is.
LookAtTarget ==
  /\ pc = "look" /\ at <= N
  /\ \/ TargetStillHolds(at) /\ pc' = "release" /\ UNCHANGED << at, noticed >>
     \/ NoticeAndKeep /\ GoOn("look")
  /\ UNCHANGED << coolifyVars, journal, made, undone, error, outcome, boundVars >>

\* Mutant: a release that failed is not reported.
ReleaseSource_Silent ==
  /\ pc = "release"
  /\ \/ srcHolds' = [srcHolds EXCEPT ![at] = WithoutCustom(@)]
        /\ Queue(CustomHosts(srcHolds[at]))
     \/ UNCHANGED << srcHolds, jobs >>
  /\ GoOn("look")
  /\ UNCHANGED << tgt, foreign, records, journal, made, undone, error, endVars, boundVars >>

\* release_source_domains: never raises.  The answer may be lost, the write not.
ReleaseSource ==
  /\ pc = "release"
  /\ \/ /\ srcHolds' = [srcHolds EXCEPT ![at] = WithoutCustom(@)]
        /\ Queue(CustomHosts(srcHolds[at]))
        /\ NoticeAndKeep \/ UNCHANGED noticed
     \/ NoticeAndKeep /\ UNCHANGED << srcHolds, jobs >>
  /\ GoOn("look")
  /\ UNCHANGED << tgt, foreign, records, journal, made, undone, error, outcome, boundVars >>

Succeeds ==
  /\ pc \in {"finalize", "look"} /\ at = N + 1
  /\ journal' = [journal EXCEPT !.closed = TRUE]
  /\ End("succeeded")
  /\ UNCHANGED << coolifyVars, error, noticed, boundVars >>

-----------------------------------------------------------------------------
Next ==
  \/ RunReleaseJob \/ RunDeleteJob \/ DeployDrops \/ StrangerActs
  \/ RunOrResume \/ Rollback \/ Crash
  \/ Raises \/ Park \/ CreateResource \/ RecordTarget \/ Claim \/ CreateCompletes
  \/ UndoDelete \/ UndoRestore \/ UndoLoopEnds \/ FreshAttempt \/ CreateFailed \/ RolledBack
  \/ StepRaises \/ Blocked \/ StartFinalize
  \/ DeleteSource \/ DeleteFails \/ LookAtTarget \/ ReleaseSource \/ Succeeds

Spec == Init /\ [][Next]_vars

-----------------------------------------------------------------------------
(***************************************************************************)
(* Make before break, as the abstract module states it.                    *)
(***************************************************************************)
HoldersOf(h) ==
  {<< "source", r >> : r \in {s \in Resources : h \in srcHolds[s]}}
  \cup {<< "target", t >> : t \in {u \in LiveTargets : h \in tgt[u].holds}}
  \cup {<< "foreign", 0 >> : x \in {y \in {h} : y \in foreign}}

M == INSTANCE HandOver WITH
       Hosts   <- Served,
       Holders <- {"source", "target", "foreign"} \X (0 .. N + MaxTargets),
       holds   <- [h \in Served |-> HoldersOf(h)]

\* domain/domains.py's promise: in no step does a host lose its last holder, and
\* nobody lets go of a host but over another who holds it at that moment.
MakeBeforeBreak == M!HandOverSpec

\* The state half of it, whatever a deploy does to a target.
AlwaysHeld == M!AlwaysHeld

\* A DNS record that Coolify manages is never deleted under a running migration,
\* by release jobs that run long after the step that queued them.
RecordsSurvive == records = Served

\* Nobody takes a host that a stranger holds at that moment.
TakesFromNoStranger ==
  /\ \A t \in Targets : (tgt'[t].holds \ tgt[t].holds) \cap foreign = {}
  /\ \A r \in Resources : (srcHolds'[r] \ srcHolds[r]) \cap foreign = {}

\* "The tool forces a domain away only from this migration's own" resources
\* (docs/troubleshooting.md): no claim and no restore takes a host that a stranger
\* holds by then, whenever he took it.
NeverForcedOverForeign == [][TakesFromNoStranger]_vars

\* The two-phase claim: a target that no record names - a lost answer, a crash
\* before the record - holds no host of its source, and blocks no later claim.
UnknownTargetsHoldNothing ==
  \A t \in LiveTargets :
    t \notin MadeTargets /\ (\A r \in Resources : journal.targets[r] # t)
      => CustomHosts(tgt[t].holds) = {}

\* No target answers on a host that resolves to the source server.
TargetNeverRoutesToSource ==
  \A t \in LiveTargets : \A h \in tgt[t].holds : h.on # "source"

\* ROLLED_BACK, and a CREATE that failed and undid itself: every source holds all
\* its hosts, and no target that was recorded is left.
RolledBackIsWhole ==
  outcome \in {"rolled_back", "failed"} =>
    \A r \in Resources :
      /\ srcHolds[r] = Serves[r]
      /\ journal.targets[r] # None => journal.targets[r] \notin LiveTargets

\* SUCCEEDED under keep: each source the report does not name has let go of all
\* its custom hosts, and its target holds every one.
SucceededIsHandedOver ==
  outcome = "succeeded" /\ setup.policy = "keep" =>
    \A r \in Resources \ noticed :
      /\ CustomHosts(srcHolds[r]) = {}
      /\ CustomHosts(Serves[r]) \subseteq tgt[journal.targets[r]].holds

\* No target routes where it must not: one nobody recorded claims nothing, and
\* none claims the hosts that Coolify generated for the source.
TargetsHoldTheirOwn == TypeOK /\ UnknownTargetsHoldNothing /\ TargetNeverRoutesToSource

=============================================================================
