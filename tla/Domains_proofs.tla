---------------------------- MODULE Domains_proofs ----------------------------
(***************************************************************************)
(* Make before break, for any resources, hosts, targets and bounds.        *)
(*                                                                         *)
(* A host can be let go of by its source, by a target, or by a stranger.   *)
(* The source goes last over a target that claimed the host; a target goes *)
(* only under its own source, because it never holds more than that source *)
(* did and the source's body is parked for as long; and a stranger's host  *)
(* was never claimed, so its source still has it.  Hand-over is therefore  *)
(* followed resource by resource: each has its hosts at its source or at   *)
(* its own live targets.                                                   *)
(***************************************************************************)
EXTENDS Domains, TLAPS

Creating == {"park", "create", "record", "claim", "force", "baseline"}
Undoing == {"undo_delete", "undo_restore", "undo_force", "undo_done"}
Running == {"middle", "finalize", "look", "release"}
RollingBack == {"rb_restore", "rb_force", "rb_delete", "rb_done"}

Live(t) == tgt[t].row = "live"
Claimed(t) == CustomHosts(tgt[t].holds)
Own(r) == CustomHosts(Serves[r])

\* Targets are known by the resource they are for.
TargetsAreTheirs ==
  /\ \A t \in Targets : Live(t) => tgt[t].of \in Resources
  /\ \A r \in Resources : made[r] # None => tgt[made[r]].of = r /\ tgt[made[r]].row # "none"
  /\ \A r \in Resources : journal.targets[r] # None =>
       tgt[journal.targets[r]].of = r /\ tgt[journal.targets[r]].row # "none"

\* The journal lags behind the process by the target just created.
Pointers ==
  /\ pc # "idle" => \A r \in Resources : journal.targets[r] \in {None, made[r]}
  /\ pc \in {"claim", "force"} \cup Running \cup RollingBack =>
       \A r \in Resources : journal.targets[r] = made[r]

\* What a target has claimed is parked, recorded and its source's.
ClaimsAreBacked ==
  /\ \A t \in Targets : Live(t) /\ Claimed(t) # {} =>
       \E r \in Resources :
         /\ tgt[t].of = r /\ journal.targets[r] = t
         /\ Claimed(t) \subseteq Serves[r] /\ journal.parked[r] = Serves[r]
  /\ \A r \in Resources : journal.parked[r] \in {{}, Serves[r]}
  /\ \A r \in Resources : srcHolds[r] \subseteq Serves[r]

\* The loop of CREATE: what is behind it has claimed, what is before it is blank.
CreateLoop ==
  /\ pc \in {"park", "create", "record", "claim", "release"} \cup {"force", "undo_force", "rb_force"} => at <= N
  /\ pc = "baseline" => at = N + 1
  /\ pc \in Creating =>
       \A r \in Resources : r < at =>
         made[r] # None /\ Live(made[r]) /\ Own(r) \subseteq tgt[made[r]].holds
  /\ pc \in Creating =>
       \A r \in Resources : r > at => made[r] = None /\ journal.parked[r] = {}
  /\ pc = "park" => made[at] = None /\ journal.parked[at] = {}
  /\ pc = "create" => made[at] = None
  /\ pc \in {"create", "record", "claim", "force"} => journal.parked[at] = Serves[at]
  /\ pc \in {"record", "claim", "force"} =>
       made[at] # None /\ Live(made[at]) /\ Claimed(made[at]) = {}
  /\ pc \in {"undo_force", "rb_force"} => journal.parked[at] # {}

\* The loop of the undo of an interrupted attempt.
UndoLoop ==
  /\ pc = "undo_delete" /\ error = "none" =>
       \A r \in Resources : r < at => made[r] = None \/ ~Live(made[r])
  /\ pc \in {"undo_restore", "undo_force", "undo_done"} /\ error = "none" =>
       \A r \in Resources : made[r] = None \/ ~Live(made[r])

Phases ==
  /\ pc \in Creating \cup Undoing => ~journal.created /\ ~journal.undo
  /\ pc \in Running => journal.created /\ ~journal.undo
  /\ pc \in RollingBack => journal.undo
  /\ pc = "finalize" => setup.policy = "delete"
  /\ pc \in {"look", "release"} => setup.policy # "delete"

\* From CREATE to a rollback every resource has its target.
HandedOver ==
  journal.created /\ ~journal.undo =>
    \A r \in Resources :
      /\ journal.targets[r] # None /\ Live(journal.targets[r])
      /\ setup.policy = "delete" => Own(r) \subseteq tgt[journal.targets[r]].holds

ReleaseSeen ==
  pc = "release" => CustomHosts(srcHolds[at]) \subseteq tgt[made[at]].holds

\* A resource has its hosts, here or there.
EachHeld ==
  \A r \in Resources : \A h \in Own(r) :
    \/ h \in srcHolds[r]
    \/ \E t \in Targets : Live(t) /\ tgt[t].of = r /\ h \in tgt[t].holds

\* What holds whenever a target is deployed.
PlanInv ==
  /\ TypeOK /\ TargetsAreTheirs /\ Pointers /\ ClaimsAreBacked /\ CreateLoop /\ UndoLoop /\ Phases

\* What holds if no deploy takes hosts behind the last look.
HostInv == PlanInv /\ HandedOver /\ ReleaseSeen /\ EachHeld /\ RecordsSurvive

-----------------------------------------------------------------------------
(***************************************************************************)
(* What the changes of a domain string do to its custom hosts.             *)
(***************************************************************************)
LEMMA HostFacts ==
  ASSUME NEW value, NEW wildcard
  PROVE  /\ CustomHosts(ClaimValue(value, wildcard)) = CustomHosts(value)
         /\ CustomHosts(CreateValue(value, wildcard)) = {}
         /\ CustomHosts(Autogenerated(value)) = CustomHosts(value)
         /\ CustomHosts(WithoutCustom(value)) = {}
<1>1. ASSUME NEW name, NEW server
      PROVE  Wildcard(name, server).kind = "wildcard" /\ Generated(name, server).kind = "generated"
  BY DEF Wildcard, Generated
<1>2. CustomHosts(WithoutGenerated(value)) = CustomHosts(value)
  BY DEF CustomHosts, IsCustom, WithoutGenerated
<1>3. ASSUME NEW v
      PROVE  CustomHosts(RemapDomains(v, wildcard)) = CustomHosts(v)
  BY <1>1 DEF CustomHosts, IsCustom, RemapDomains
<1>4. CustomHosts(WithoutCustom(WithoutGenerated(value))) = {} /\ CustomHosts(WithoutCustom(value)) = {}
  BY DEF CustomHosts, IsCustom, WithoutCustom
<1>5. CustomHosts(Autogenerated(value)) = CustomHosts(value)
  BY <1>1 DEF CustomHosts, IsCustom, Autogenerated
<1> QED
  BY <1>2, <1>3, <1>4, <1>5 DEF ClaimValue, CreateValue

\* The hosts of a target are those of the plan, changed for its server.
LEMMA HostTypes ==
  /\ CustomHosts(AllHosts) = Served
  /\ \A r \in Resources : Own(r) \subseteq Served /\ Serves[r] \subseteq AllHosts
  /\ \A r \in Resources, w \in BOOLEAN :
       /\ ClaimValue(Serves[r], w) \subseteq AllHosts
       /\ Autogenerated(CreateValue(Serves[r], w)) \subseteq AllHosts
<1> DEFINE Both(r) == Serves[r] \cup ClaimValue(Serves[r], TRUE)
<1>0. \A r \in Resources : Both(r) \subseteq AllHosts
  BY DEF AllHosts
<1>1. \A r \in Resources : Own(r) \subseteq Served /\ Serves[r] \subseteq AllHosts
  BY <1>0 DEF Own, Served
<1>2. ASSUME NEW r \in Resources
      PROVE  CustomHosts(ClaimValue(Serves[r], TRUE)) = CustomHosts(Serves[r])
  BY HostFacts
<1>3. ~IsCustom(Generated("auto", "target"))
  BY DEF IsCustom, Generated
<1>4. CustomHosts(AllHosts) = Served
  <2>1. ASSUME NEW h \in AllHosts, IsCustom(h)
        PROVE  h \in Served
    <3>1. h \in UNION {Both(r) : r \in Resources}
      BY <1>3, <2>1, Zenon DEF AllHosts
    <3>2. PICK r \in Resources : h \in Both(r)
      BY <3>1
    <3>3. h \in Own(r)
      BY <1>2, <2>1, <3>2 DEF CustomHosts, Own
    <3> QED
      BY <1>1, <3>3
  <2>2. \A h \in Served : h \in CustomHosts(AllHosts)
    BY <1>1 DEF Served, CustomHosts
  <2> QED
    BY <2>1, <2>2 DEF CustomHosts
<1>5. ASSUME NEW r \in Resources, NEW w \in BOOLEAN
      PROVE  /\ ClaimValue(Serves[r], w) \subseteq ClaimValue(Serves[r], TRUE)
             /\ CreateValue(Serves[r], w) \subseteq ClaimValue(Serves[r], TRUE)
  BY DEF ClaimValue, CreateValue, RemapDomains, CustomHosts, WithoutCustom,
       WithoutGenerated, IsCustom
<1> QED
  <2>1. Generated("auto", "target") \in AllHosts
    BY Zenon DEF AllHosts
  <2> QED
    BY <1>0, <1>1, <1>4, <1>5, <2>1 DEF Autogenerated

\* Only a host of the plan is queued for release.
LEMMA QueueFits ==
  ASSUME jobs \subseteq Served, NEW hosts, hosts \subseteq AllHosts, Queue(hosts)
  PROVE  jobs' \subseteq Served
<1>1. CustomHosts(hosts) \subseteq Served
  BY HostTypes DEF CustomHosts
<1> QED
  BY <1>1 DEF Queue

(***************************************************************************)
(* Every step keeps the types.                                             *)
(***************************************************************************)
SourceTypes ==
  /\ srcHolds \in [Resources -> SUBSET AllHosts]
  /\ foreign \subseteq Served /\ records \subseteq Served /\ jobs \subseteq Served
TargetTypes == tgt \in [Targets -> Rows]
PlaceTypes ==
  /\ pc \in Labels /\ at \in 1 .. N + 1
  /\ made \in [Resources -> Targets \cup {None}]
  /\ undone \subseteq Targets
  /\ error \in {"none", "step", "undo"}
JournalTypes == journal \in Journals
EndTypes ==
  /\ noticed \subseteq Resources
  /\ outcome \in {"none", "succeeded", "blocked", "failed", "refused",
                  "rolled_back", "rollback_failed"}
  /\ setup \in [policy : {"keep", "delete"}, softDeletes : BOOLEAN, wildcard : BOOLEAN]
  /\ commands \in 0 .. MaxCommands /\ crashes \in 0 .. MaxCrashes

\* A restore goes on, or goes over to its forced PATCH, or comes back from it.
LEMMA RestoreMoves ==
  ASSUME PlaceTypes, CreateLoop, UndoRestore
  PROVE  /\ at \in Resources
         /\ pc \in {"undo_restore", "undo_force", "rb_restore", "rb_force"}
         /\ \/ /\ at' = at + 1
               /\ pc' = IF pc \in {"undo_restore", "undo_force"} THEN "undo_restore" ELSE "rb_restore"
            \/ /\ pc \in {"undo_restore", "rb_restore"}
               /\ pc' = IF pc = "undo_restore" THEN "undo_force" ELSE "rb_force"
               /\ journal.parked[at] # {}
               /\ UNCHANGED << srcHolds, at, error >>
         /\ error' \in {error, "undo"}
         /\ UNCHANGED << tgt, foreign, records, jobs, journal, made, undone, endVars, boundVars >>
<1>1. UNCHANGED << tgt, foreign, records, jobs, journal, made, undone, endVars, boundVars >>
  BY DEF UndoRestore
<1>2. CASE AskRestore
  <2>1. pc \in {"undo_restore", "rb_restore"} /\ at \in Resources
    BY <1>2, ResourcesAssumption DEF AskRestore, PlaceTypes, Resources
  <2> QED
    BY <1>1, <1>2, <2>1 DEF AskRestore, RestoreOne, GoOn, Failed
<1>3. CASE ForceRestore
  BY <1>1, <1>3, ResourcesAssumption DEF ForceRestore, GoOn, Failed, PlaceTypes, CreateLoop,
     Resources
<1> QED
  BY <1>2, <1>3 DEF UndoRestore

\* It gives the source at hand all its hosts, finds them there, or fails.
LEMMA RestoreWrites ==
  ASSUME PlaceTypes, CreateLoop, ClaimsAreBacked, UndoRestore
  PROVE  \/ UNCHANGED << srcHolds, error >> /\ (at' = at \/ journal.parked[at] = {} \/ srcHolds[at] = Serves[at])
         \/ srcHolds' = [srcHolds EXCEPT ![at] = Serves[at]] /\ UNCHANGED error
         \/ error' = "undo" /\ UNCHANGED srcHolds
<1>1. /\ at \in Resources /\ journal.parked[at] \in {{}, Serves[at]}
      /\ srcHolds[at] \subseteq Serves[at]
  BY RestoreMoves DEF ClaimsAreBacked
<1>2. CASE AskRestore /\ journal.parked[at] # {}
  BY <1>1, <1>2 DEF AskRestore, RestoreOne, GivesBack, Differs, Failed
<1>3. CASE AskRestore /\ journal.parked[at] = {}
  BY <1>3 DEF AskRestore
<1>4. CASE ForceRestore
  <2>1. journal.parked[at] = Serves[at]
    BY <1>1, <1>4 DEF ForceRestore, CreateLoop
  <2> QED
    BY <1>4, <2>1 DEF ForceRestore, GivesBack, Failed
<1> QED
  BY <1>2, <1>3, <1>4 DEF UndoRestore

\* What sources, strangers, records and jobs hold stays within the plan's hosts.
LEMMA SourceTypesKept ==
  ASSUME SourceTypes, TargetTypes, JournalTypes, PlaceTypes, CreateLoop, Next
  PROVE  SourceTypes'
<1> USE DEF SourceTypes, coolifyVars, processVars, endVars, boundVars
<1>1. CASE RunReleaseJob \/ StrangerActs
  BY <1>1, ContestedAssumption DEF RunReleaseJob, StrangerActs
<1>2. CASE DeployDrops
  <2>1. PICK t \in LiveTargets, hosts \in SUBSET Served : Drops(t, hosts)
    BY <1>2 DEF DeployDrops
  <2>2. hosts \subseteq AllHosts
    BY HostTypes DEF CustomHosts
  <2> QED
    BY <2>1, <2>2, QueueFits DEF Drops
<1>3. CASE UndoDelete
  <2>1. CASE jobs' = jobs
    BY <1>3, <2>1 DEF UndoDelete, DeleteMade
  <2>2. CASE made[at] # None /\ DeleteTarget(made[at]) /\ at \in Resources
    <3>1. tgt[made[at]].holds \subseteq AllHosts
      BY <2>2 DEF PlaceTypes, TargetTypes, Rows
    <3> QED
      BY <1>3, <2>2, <3>1, QueueFits DEF UndoDelete, DeleteMade, DeleteTarget
  <2> QED
    BY <1>3, <2>1, <2>2, ResourcesAssumption DEF UndoDelete, DeleteMade, PlaceTypes, Resources
<1>4. CASE UndoRestore
  <2>1. CASE srcHolds' = srcHolds
    BY <1>4, <2>1 DEF UndoRestore,
       AskRestore, ForceRestore, RestoreOne, GivesBack, GoOn, Failed
  <2>2. CASE at \in Resources /\ srcHolds' = [srcHolds EXCEPT ![at] = journal.parked[at]]
    BY <1>4, <2>2 DEF UndoRestore, JournalTypes, Journals,
       AskRestore, ForceRestore, RestoreOne, GivesBack, GoOn, Failed
  <2> QED
    BY <1>4, <2>1, <2>2, ResourcesAssumption DEF UndoRestore, RestoreOne, PlaceTypes, Resources,
       AskRestore, ForceRestore, GivesBack, GoOn, Failed
<1>5. CASE DeleteSource
  <2>1. at \in Resources
    BY <1>5, ResourcesAssumption DEF DeleteSource, PlaceTypes, Resources
  <2> QED
    BY <1>5, <2>1, QueueFits DEF DeleteSource
<1>6. CASE ReleaseSource
  <2>1. CASE UNCHANGED << srcHolds, jobs >>
    BY <1>6, <2>1 DEF ReleaseSource
  <2>2. CASE srcHolds' = [srcHolds EXCEPT ![at] = WithoutCustom(@)] /\ Queue(CustomHosts(srcHolds[at]))
    <3>1. at \in Resources => srcHolds[at] \subseteq AllHosts
      OBVIOUS
    <3>2. at \in Resources => CustomHosts(srcHolds[at]) \subseteq AllHosts /\ WithoutCustom(srcHolds[at]) \subseteq AllHosts
      BY <3>1 DEF CustomHosts, WithoutCustom
    <3>3. pc = "release" /\ at \in Resources
      BY <1>6, ResourcesAssumption DEF ReleaseSource, PlaceTypes, CreateLoop, Resources
    <3> QED
      BY <1>6, <2>2, <3>2, <3>3, QueueFits DEF ReleaseSource
  <2> QED
    BY <1>6, <2>1, <2>2 DEF ReleaseSource
<1>7. CASE RunDeleteJob \/ RunOrResume \/ Rollback \/ Crash \/ Raises \/ Park \/ CreateResource
        \/ RecordTarget \/ Claim \/ CreateCompletes \/ UndoLoopEnds \/ FreshAttempt
        \/ CreateFailed \/ RolledBack \/ StepRaises \/ Blocked \/ StartFinalize \/ DeleteFails
        \/ LookAtTarget \/ Succeeds
  BY <1>7 DEF RunDeleteJob, RunOrResume, Rollback, Crash, Raises, Park, CreateResource,
       RecordTarget, Claim, CreateCompletes, UndoLoopEnds, FreshAttempt, CreateFailed, RolledBack,
       StepRaises, Blocked, StartFinalize, DeleteFails, LookAtTarget, Succeeds, Command,
       AskClaim, ForceClaim, WriteClaim, GoOn
<1> QED
  BY <1>1, <1>2, <1>3, <1>4, <1>5, <1>6, <1>7 DEF Next

\* Targets keep the form of their rows.
LEMMA TargetTypesKept ==
  ASSUME SourceTypes, TargetTypes, PlaceTypes, JournalTypes, EndTypes, CreateLoop, Next
  PROVE  TargetTypes'
<1> USE DEF TargetTypes, coolifyVars, processVars, endVars, boundVars
<1>1. CASE UNCHANGED tgt
  BY <1>1
<1>2. CASE RunDeleteJob
  BY <1>2 DEF RunDeleteJob, Rows
<1>3. CASE DeployDrops
  <2>1. PICK t \in LiveTargets, hosts \in SUBSET Served : Drops(t, hosts)
    BY <1>3 DEF DeployDrops
  <2>2. t \in Targets /\ tgt[t].holds \ hosts \subseteq AllHosts
    BY DEF LiveTargets, Rows
  <2> QED
    BY <2>1, <2>2 DEF Drops, Rows
<1>4. CASE CreateResource
  <2>1. PICK t \in Targets : NewTarget(t, Autogenerated(CreateValue(Serves[at], setup.wildcard)))
    BY <1>4 DEF CreateResource
  <2>2. at \in Resources
    BY <1>4, ResourcesAssumption DEF CreateResource, PlaceTypes, CreateLoop, Resources
  <2>3. Autogenerated(CreateValue(Serves[at], setup.wildcard)) \subseteq AllHosts
    BY <2>2, HostTypes DEF EndTypes
  <2>4. [of |-> at, row |-> "live", holds |-> Autogenerated(CreateValue(Serves[at], setup.wildcard))] \in Rows
    BY <2>2, <2>3 DEF Rows
  <2> QED
    BY <2>1, <2>4 DEF NewTarget
<1>5. CASE Claim
  <2>1. at \in Resources
    BY <1>5, ResourcesAssumption DEF Claim, PlaceTypes, CreateLoop, Resources,
       AskClaim, ForceClaim, WriteClaim, GoOn
  <2>2. ClaimValue(Serves[at], setup.wildcard) \subseteq AllHosts
    BY <2>1, HostTypes DEF EndTypes
  <2>3. CASE \E kept \in SUBSET ClaimValue(Serves[at], setup.wildcard) :
               tgt' = [tgt EXCEPT ![made[at]].holds = kept]
    BY <2>2, <2>3, ZenonT(60) DEF Rows
  <2> QED
    BY <1>5, <2>3 DEF Claim,
       AskClaim, ForceClaim, WriteClaim, GoOn
<1>6. CASE UndoDelete
  <2>1. CASE made[at] # None /\ DeleteTarget(made[at])
    BY <2>1, ZenonT(60) DEF DeleteTarget, Rows
  <2> QED
    BY <1>1, <1>6, <2>1 DEF UndoDelete, DeleteMade
<1>7. CASE RunReleaseJob \/ StrangerActs \/ RunOrResume \/ Rollback \/ Crash \/ Raises \/ Park
        \/ RecordTarget \/ CreateCompletes \/ UndoRestore \/ UndoLoopEnds \/ FreshAttempt
        \/ CreateFailed \/ RolledBack \/ StepRaises \/ Blocked \/ StartFinalize \/ DeleteSource
        \/ DeleteFails \/ LookAtTarget \/ ReleaseSource \/ Succeeds
  BY <1>1, <1>7 DEF RunReleaseJob, StrangerActs, RunOrResume, Rollback, Crash, Raises, Park,
       RecordTarget, CreateCompletes, UndoRestore, UndoLoopEnds, FreshAttempt, CreateFailed,
       RolledBack, StepRaises, Blocked, StartFinalize, DeleteSource, DeleteFails, LookAtTarget,
       ReleaseSource, Succeeds, Command,
       AskRestore, ForceRestore, RestoreOne, GivesBack, GoOn, Failed
<1> QED
  BY <1>2, <1>3, <1>4, <1>5, <1>6, <1>7 DEF Next

\* The process stays where it can be.
LEMMA PlaceTypesKept ==
  ASSUME PlaceTypes, JournalTypes, EndTypes, CreateLoop, Next
  PROVE  PlaceTypes'
<1> USE ResourcesAssumption DEF PlaceTypes, Resources, Labels, NoTargets, coolifyVars,
     processVars,
        endVars, boundVars
<1>0. journal.targets \in [Resources -> Targets \cup {None}]
  BY DEF JournalTypes, Journals
<1>1. CASE Claim \/ ReleaseSource
  BY <1>1 DEF Claim, Goto, GoOn, ReleaseSource, NoticeAndKeep, Queue, CreateLoop,
       AskClaim, ForceClaim, WriteClaim
<1>2. CASE RunOrResume \/ Rollback \/ Crash \/ FreshAttempt
  BY <1>2, <1>0 DEF RunOrResume, Command, StartCreate, Goto, Rollback, FirstUndo, Crash
     , FreshAttempt, MadeTargets
<1>3. CASE CreateFailed \/ RolledBack \/ Blocked \/ DeleteFails \/ Succeeds
  BY <1>3 DEF CreateFailed, End, Goto, RolledBack, Blocked, DeleteFails, Succeeds
<1>4. CASE Raises \/ Park \/ CreateResource \/ RecordTarget \/ CreateCompletes
  BY <1>4 DEF Raises, Goto, Park, CreateResource, NewTarget, RecordTarget
     , CreateCompletes
<1>7. CASE UndoRestore
  BY <1>7, RestoreMoves
<1>5. CASE UndoDelete \/ UndoLoopEnds \/ StepRaises
           \/ StartFinalize \/ DeleteSource \/ LookAtTarget
  BY <1>5 DEF UndoDelete, DeleteMade, DeleteTarget, Queue, Failed, UndoLoopEnds, Goto, UndoNext,
     StepRaises, FirstUndo, StartFinalize, DeleteSource, LookAtTarget, NoticeAndKeep, GoOn,
     TargetStillHolds
<1>6. CASE RunReleaseJob \/ RunDeleteJob \/ DeployDrops \/ StrangerActs
  BY <1>6, ZenonT(60) DEF RunReleaseJob, RunDeleteJob, DeployDrops, Drops, Queue, StrangerActs
<1> QED
  BY <1>1, <1>2, <1>3, <1>4, <1>5, <1>6, <1>7 DEF Next

\* What is reported, set and counted stays within its bounds.
LEMMA EndTypesKept ==
  ASSUME PlaceTypes, EndTypes, CreateLoop, Next
  PROVE  EndTypes'
<1> USE BoundsAssumption DEF EndTypes, coolifyVars, processVars, endVars, boundVars
<1>1. CASE LookAtTarget \/ ReleaseSource
  <2>1. at \in Resources
    BY <1>1, ResourcesAssumption DEF LookAtTarget, ReleaseSource, PlaceTypes, CreateLoop,
         Resources
  <2> QED
    BY <1>1, <2>1 DEF LookAtTarget, ReleaseSource, NoticeAndKeep
<1>2. CASE CreateFailed \/ RolledBack \/ Blocked \/ DeleteFails \/ Succeeds
  BY <1>2 DEF CreateFailed, RolledBack, Blocked, DeleteFails, Succeeds, End
<1>3. CASE RunOrResume \/ Rollback \/ Crash
  BY <1>3 DEF RunOrResume, Rollback, Crash, Command
<1>4. CASE RunReleaseJob \/ RunDeleteJob \/ DeployDrops \/ StrangerActs \/ Raises \/ Park
        \/ CreateResource \/ RecordTarget \/ Claim \/ CreateCompletes \/ UndoDelete
        \/ UndoRestore \/ UndoLoopEnds \/ FreshAttempt \/ StepRaises \/ StartFinalize
        \/ DeleteSource
  BY <1>4 DEF RunReleaseJob, RunDeleteJob, DeployDrops, StrangerActs, Raises, Park,
       CreateResource, RecordTarget, Claim, CreateCompletes, UndoDelete, UndoRestore,
       UndoLoopEnds, FreshAttempt, StepRaises, StartFinalize, DeleteSource, Drops, DeleteMade,
       AskClaim, ForceClaim, WriteClaim, GoOn,
       AskRestore, ForceRestore, RestoreOne, GivesBack, Failed
<1> QED
  BY <1>1, <1>2, <1>3, <1>4 DEF Next

\* The journal keeps its form.
LEMMA JournalTypesKept ==
  ASSUME PlaceTypes, EndTypes, JournalTypes, CreateLoop, Next
  PROVE  JournalTypes'
<1> USE DEF JournalTypes, Journals, PlaceTypes, coolifyVars, processVars, endVars, boundVars
<1>1. CASE Park
  <2>1. at \in Resources /\ Serves[at] \subseteq AllHosts
    BY <1>1, ResourcesAssumption, HostTypes DEF Park, Resources
  <2> QED
    BY <1>1, <2>1 DEF Park
<1>2. CASE FreshAttempt
  BY <1>2 DEF FreshAttempt, NoTargets
<1>3. CASE CreateFailed
  BY <1>3 DEF CreateFailed
<1>4. CASE RunOrResume \/ Rollback
  BY <1>4 DEF RunOrResume, Rollback, Command, StartCreate
<1>5. CASE RecordTarget \/ CreateCompletes \/ RolledBack \/ StepRaises \/ Blocked \/ Succeeds
  BY <1>5 DEF RecordTarget, CreateCompletes, RolledBack, StepRaises, Blocked, Succeeds
<1>6. CASE StartFinalize
  BY <1>6 DEF StartFinalize, EndTypes
<1>7. CASE RunReleaseJob \/ RunDeleteJob \/ DeployDrops \/ StrangerActs \/ Crash \/ Raises
        \/ CreateResource \/ Claim \/ UndoDelete \/ UndoRestore \/ UndoLoopEnds \/ DeleteSource
        \/ DeleteFails \/ LookAtTarget \/ ReleaseSource
  BY <1>7 DEF RunReleaseJob, RunDeleteJob, DeployDrops, StrangerActs, Crash, Raises,
       CreateResource, Claim, UndoDelete, UndoRestore, UndoLoopEnds, DeleteSource, DeleteFails,
       LookAtTarget, ReleaseSource, Drops, DeleteMade,
       AskClaim, ForceClaim, WriteClaim, GoOn,
       AskRestore, ForceRestore, RestoreOne, GivesBack, Failed
<1> QED
  BY <1>1, <1>2, <1>3, <1>4, <1>5, <1>6, <1>7 DEF Next

-----------------------------------------------------------------------------
(***************************************************************************)
(* What a step may do to a target.                                         *)
(***************************************************************************)
\* t goes from one row to another: never back to life, never to another's.
RowKept(t) ==
  tgt[t].row # "none" =>
    /\ tgt'[t].of = tgt[t].of /\ tgt'[t].row # "none"
    /\ tgt'[t].row = "live" => tgt[t].row = "live"

\* A deploy takes hosts from one live target, and only what its source holds.
LEMMA DropsOneTarget ==
  ASSUME TargetTypes, DeployDrops
  PROVE  \E t \in LiveTargets, hosts \in SUBSET Served :
           /\ tgt' = [tgt EXCEPT ![t].holds = @ \ hosts]
           /\ hosts \subseteq tgt[t].holds /\ hosts \subseteq srcHolds[tgt[t].of]
           /\ tgt'[t].holds = tgt[t].holds \ hosts
           /\ \A u \in Targets : u # t => tgt'[u] = tgt[u]
           /\ \A u \in Targets : tgt'[u].of = tgt[u].of /\ tgt'[u].row = tgt[u].row
           /\ journal.created
           /\ UNCHANGED << srcHolds, foreign, records, journal, processVars, endVars, boundVars >>
<1>1. PICK t \in LiveTargets, hosts \in SUBSET Served :
        /\ tgt' = [tgt EXCEPT ![t].holds = @ \ hosts]
        /\ hosts \subseteq tgt[t].holds /\ hosts \subseteq srcHolds[tgt[t].of]
        /\ journal.created
        /\ UNCHANGED << srcHolds, foreign, records, journal, processVars, endVars, boundVars >>
  BY DEF DeployDrops, Drops
<1>2. t \in Targets
  BY DEF LiveTargets
<1>3. /\ tgt'[t].holds = tgt[t].holds \ hosts
      /\ \A u \in Targets : u # t => tgt'[u] = tgt[u]
      /\ \A u \in Targets : tgt'[u].of = tgt[u].of /\ tgt'[u].row = tgt[u].row
  BY <1>1, <1>2 DEF TargetTypes, Rows
<1> QED
  BY <1>1, <1>3

\* CREATE makes one new target, without a custom host.
LEMMA CreatesOneTarget ==
  ASSUME TargetTypes, PlaceTypes, CreateLoop, CreateResource
  PROVE  \E t \in Targets :
           /\ at \in Resources /\ tgt[t].row = "none"
           /\ tgt'[t] = [of |-> at, row |-> "live",
                         holds |-> Autogenerated(CreateValue(Serves[at], setup.wildcard))]
           /\ CustomHosts(tgt'[t].holds) = {}
           /\ \A u \in Targets : u # t => tgt'[u] = tgt[u]
           /\ \/ made' = [made EXCEPT ![at] = t] /\ pc' = "record" /\ UNCHANGED << at, error >>
              \/ error' = "step" /\ pc' = "undo_delete" /\ at' = 1 /\ UNCHANGED made
           /\ UNCHANGED << srcHolds, foreign, records, jobs, journal, undone, endVars, boundVars >>
<1>1. at \in Resources
  BY ResourcesAssumption DEF CreateResource, PlaceTypes, CreateLoop, Resources
<1>2. PICK t \in Targets :
        /\ NewTarget(t, Autogenerated(CreateValue(Serves[at], setup.wildcard)))
        /\ \/ made' = [made EXCEPT ![at] = t] /\ pc' = "record" /\ UNCHANGED << at, error >>
           \/ error' = "step" /\ pc' = "undo_delete" /\ at' = 1 /\ UNCHANGED made
  BY DEF CreateResource, Goto
<1>3. /\ tgt[t].row = "none"
      /\ tgt'[t] = [of |-> at, row |-> "live",
                    holds |-> Autogenerated(CreateValue(Serves[at], setup.wildcard))]
      /\ \A u \in Targets : u # t => tgt'[u] = tgt[u]
  BY <1>2 DEF NewTarget, TargetTypes
<1>4. CustomHosts(tgt'[t].holds) = {}
  <2>1. CustomHosts(CreateValue(Serves[at], setup.wildcard)) = {}
    BY HostFacts
  <2>2. CustomHosts(Autogenerated(CreateValue(Serves[at], setup.wildcard))) = {}
    BY <2>1, HostFacts
  <2> QED
    BY <1>3, <2>2
<1> QED
  BY <1>1, <1>2, <1>3, <1>4 DEF CreateResource

\* A claim changes the target at hand, to hosts of its source.
LEMMA ClaimsOneTarget ==
  ASSUME TargetTypes, PlaceTypes, CreateLoop, Claim
  PROVE  /\ at \in Resources /\ made[at] \in Targets /\ pc \in {"claim", "force"}
         /\ Claimed(made[at]) = {} /\ Live(made[at])
         /\ \A u \in Targets : u # made[at] => tgt'[u] = tgt[u]
         /\ tgt'[made[at]].of = tgt[made[at]].of /\ tgt'[made[at]].row = tgt[made[at]].row
         /\ CustomHosts(tgt'[made[at]].holds) \subseteq Own(at)
         /\ \/ Own(at) \subseteq tgt'[made[at]].holds /\ at' = at + 1 /\ error' = error
               /\ pc' = IF at = N THEN "baseline" ELSE "park"
            \/ pc' = "undo_delete" /\ error' = "step" /\ at' = 1
            \/ pc' = "force" /\ UNCHANGED << tgt, at, error >>
         /\ UNCHANGED << srcHolds, foreign, records, jobs, journal, made, undone, endVars, boundVars >>
<1> DEFINE t == made[at]
           hosts == ClaimValue(Serves[at], setup.wildcard)
<1>1. /\ at \in Resources /\ t \in Targets /\ pc \in {"claim", "force"}
      /\ Claimed(t) = {} /\ Live(t)
  BY ResourcesAssumption DEF Claim, AskClaim, ForceClaim, PlaceTypes, CreateLoop, ForceLabels,
     Resources
<1>2. CustomHosts(hosts) = Own(at)
  BY HostFacts DEF Own
<1>3. UNCHANGED << srcHolds, foreign, records, jobs, journal, made, undone, endVars, boundVars >>
  BY DEF Claim, AskClaim, ForceClaim
<1>4. CASE /\ CustomHosts(hosts) = {} /\ GoOn(IF at = N THEN "baseline" ELSE "park")
           /\ UNCHANGED << tgt, error >>
  BY <1>1, <1>2, <1>3, <1>4 DEF GoOn, Claimed
<1>5. ASSUME NEW kept \in SUBSET hosts, tgt' = [tgt EXCEPT ![t].holds = kept]
      PROVE  /\ \A u \in Targets : u # t => tgt'[u] = tgt[u]
             /\ tgt'[t].of = tgt[t].of /\ tgt'[t].row = tgt[t].row /\ tgt'[t].holds = kept
             /\ CustomHosts(kept) \subseteq Own(at)
  <2>1. CustomHosts(kept) \subseteq CustomHosts(hosts)
    BY DEF CustomHosts
  <2> QED
    BY <1>1, <1>2, <1>5, <2>1 DEF TargetTypes, Rows
<1>6. CASE /\ tgt' = [tgt EXCEPT ![t].holds = hosts]
           /\ GoOn(IF at = N THEN "baseline" ELSE "park")
           /\ UNCHANGED error
  <2>1. Own(at) \subseteq hosts
    BY <1>2 DEF CustomHosts
  <2> QED
    BY <1>1, <1>3, <1>5, <1>6, <2>1 DEF GoOn
<1>7. CASE /\ \E kept \in SUBSET hosts : tgt' = [tgt EXCEPT ![t].holds = kept]
           /\ error' = "step"
           /\ Goto("undo_delete")
  BY <1>1, <1>3, <1>5, <1>7 DEF Goto
<1>8. CASE pc' = "force" /\ UNCHANGED << tgt, at, error >>
  BY <1>1, <1>3, <1>8 DEF Claimed
<1> QED
  BY <1>4, <1>6, <1>7, <1>8 DEF Claim, AskClaim, ForceClaim, WriteClaim

\* An undo deletes the target at hand, or none.
LEMMA UndoDeletesOneTarget ==
  ASSUME TargetTypes, PlaceTypes, UndoDelete
  PROVE  /\ at \in Resources /\ pc \in {"undo_delete", "rb_delete"} /\ at' = at + 1
         /\ \/ made[at] \in Targets /\ tgt[made[at]].row \in {"live", "none"}
               /\ MayDelete(at) /\ DeleteTarget(made[at])
               /\ tgt'[made[at]].row \in {"deleting", "gone"}
               /\ tgt'[made[at]].of = tgt[made[at]].of
               /\ error' = error
               /\ \A u \in Targets : u # made[at] => tgt'[u] = tgt[u]
            \/ UNCHANGED << tgt, jobs >> /\ error' = "undo"
            \/ UNCHANGED << tgt, jobs, error >>
               /\ (made[at] = None \/ tgt[made[at]].row \in {"deleting", "gone"})
         /\ UNCHANGED << srcHolds, foreign, records, journal, pc, made, undone, endVars, boundVars >>
<1>1. at \in Resources
  BY ResourcesAssumption DEF UndoDelete, DeleteMade, PlaceTypes, Resources
<1>2. ASSUME made[at] # None, DeleteTarget(made[at])
      PROVE  /\ tgt'[made[at]].row \in {"deleting", "gone"}
             /\ tgt'[made[at]].of = tgt[made[at]].of
             /\ \A u \in Targets : u # made[at] => tgt'[u] = tgt[u]
  BY <1>1, <1>2 DEF DeleteTarget, TargetTypes, PlaceTypes, Rows
<1>3. made[at] # None => made[at] \in Targets /\ tgt[made[at]].row \in {"none", "live", "deleting", "gone"}
  BY <1>1 DEF TargetTypes, PlaceTypes, Rows
<1> QED
  BY <1>1, <1>2, <1>3 DEF UndoDelete, DeleteMade, Failed

-----------------------------------------------------------------------------
(***************************************************************************)
(* The parts of the invariant, one after the other.                        *)
(***************************************************************************)
Typed == SourceTypes /\ TargetTypes /\ PlaceTypes /\ JournalTypes /\ EndTypes

\* The journal names no target that the process does not.
LEMMA PointersStep ==
  ASSUME Typed, Pointers, CreateLoop, Next
  PROVE  Pointers'
<1> USE ResourcesAssumption DEF Typed, PlaceTypes, JournalTypes, Journals, Resources, Pointers,
        CreateLoop, Creating, Undoing, Running, RollingBack, NoTargets, coolifyVars, processVars,
        endVars, boundVars
<1>0. CASE DeployDrops
  BY <1>0, DropsOneTarget
<1>1. CASE RunReleaseJob
  BY <1>1 DEF RunReleaseJob
<1>2. CASE RunDeleteJob
  BY <1>2 DEF RunDeleteJob
<1>4. CASE StrangerActs
  BY <1>4 DEF StrangerActs
<1>5. CASE RunOrResume
  BY <1>5 DEF RunOrResume, Command, StartCreate, Goto
<1>6. CASE Rollback
  BY <1>6 DEF Rollback, Command, Goto, FirstUndo
<1>7. CASE Crash
  BY <1>7 DEF Crash, Goto
<1>8. CASE Raises
  BY <1>8 DEF Raises, Goto
<1>9. CASE Park
  BY <1>9 DEF Park
<1>10. CASE CreateResource
  BY <1>10 DEF CreateResource, Goto, NewTarget
<1>11. CASE RecordTarget
  BY <1>11 DEF RecordTarget
<1>12. CASE Claim
  BY <1>12 DEF Claim, Goto, GoOn,
       AskClaim, ForceClaim, WriteClaim
<1>13. CASE CreateCompletes
  BY <1>13 DEF CreateCompletes, Goto
<1>14. CASE UndoDelete
  BY <1>14 DEF UndoDelete, DeleteMade, DeleteTarget, Queue, Failed
<1>15. CASE UndoRestore
  BY <1>15, RestoreMoves
<1>16. CASE UndoLoopEnds
  BY <1>16 DEF UndoLoopEnds, Goto, UndoNext
<1>17. CASE FreshAttempt
  BY <1>17 DEF FreshAttempt, Goto
<1>18. CASE CreateFailed
  BY <1>18 DEF CreateFailed, End, Goto
<1>19. CASE RolledBack
  BY <1>19 DEF RolledBack, End, Goto
<1>20. CASE StepRaises
  BY <1>20 DEF StepRaises, Goto, FirstUndo
<1>21. CASE Blocked
  BY <1>21 DEF Blocked, End, Goto
<1>22. CASE StartFinalize
  BY <1>22 DEF StartFinalize, Goto
<1>23. CASE DeleteSource
  BY <1>23 DEF DeleteSource, Queue
<1>24. CASE DeleteFails
  BY <1>24 DEF DeleteFails, End, Goto
<1>25. CASE LookAtTarget
  BY <1>25 DEF LookAtTarget, NoticeAndKeep, GoOn, TargetStillHolds
<1>26. CASE ReleaseSource
  BY <1>26 DEF ReleaseSource, NoticeAndKeep, GoOn, Queue
<1>27. CASE Succeeds
  BY <1>27 DEF Succeeds, End, Goto
<1> QED
  BY <1>1, <1>0, <1>2, <1>4, <1>5, <1>6, <1>7, <1>8, <1>9, <1>10, <1>11, <1>12, <1>13, <1>14,
       <1>15, <1>16, <1>17, <1>18, <1>19, <1>20, <1>21, <1>22, <1>23, <1>24, <1>25, <1>26, <1>27
       DEF Next

\* A target stays with the resource it was made for.
LEMMA TargetsStep ==
  ASSUME Typed, TargetsAreTheirs, CreateLoop, Next
  PROVE  TargetsAreTheirs'
<1>0. ASSUME CreateResource
      PROVE  \E t \in Targets :
               /\ at \in Resources /\ tgt[t].row = "none"
               /\ tgt'[t].of = at /\ tgt'[t].row = "live"
               /\ \A u \in Targets : u # t => tgt'[u] = tgt[u]
               /\ made' = [made EXCEPT ![at] = t] \/ UNCHANGED made
               /\ UNCHANGED journal
  BY <1>0, CreatesOneTarget DEF Typed
<1>c. ASSUME Claim
      PROVE  /\ made[at] \in Targets
             /\ \A u \in Targets : u # made[at] => tgt'[u] = tgt[u]
             /\ tgt'[made[at]].of = tgt[made[at]].of /\ tgt'[made[at]].row = tgt[made[at]].row
             /\ UNCHANGED << journal, made >>
  BY <1>c, ClaimsOneTarget DEF Typed
<1>d. ASSUME UndoDelete
      PROVE  /\ \/ /\ made[at] \in Targets
                   /\ tgt'[made[at]].row \in {"deleting", "gone"}
                   /\ tgt'[made[at]].of = tgt[made[at]].of
                   /\ \A u \in Targets : u # made[at] => tgt'[u] = tgt[u]
                \/ tgt' = tgt
             /\ UNCHANGED << journal, made >>
  BY <1>d, UndoDeletesOneTarget DEF Typed
<1> USE ResourcesAssumption DEF Typed, TargetTypes, PlaceTypes, JournalTypes, Rows, Journals,
        Resources, TargetsAreTheirs, Live, coolifyVars, processVars, endVars, boundVars
<1>1. CASE DeployDrops
  BY <1>1, DropsOneTarget
<1>2. CASE CreateResource
  <2>1. PICK t \in Targets :
          /\ at \in Resources /\ tgt[t].row = "none"
          /\ tgt'[t].of = at /\ tgt'[t].row = "live"
          /\ \A u \in Targets : u # t => tgt'[u] = tgt[u]
          /\ made' = [made EXCEPT ![at] = t] \/ UNCHANGED made
          /\ UNCHANGED journal
    BY <1>2, <1>0
  <2>2. ASSUME NEW u \in Targets, tgt[u].row # "none"
        PROVE  tgt'[u] = tgt[u]
    BY <2>1, <2>2
  <2>3. ASSUME NEW r \in Resources, journal.targets[r] # None
        PROVE  tgt'[journal.targets[r]].of = r /\ tgt'[journal.targets[r]].row # "none"
    BY <2>2, <2>3
  <2>4. ASSUME NEW r \in Resources, made'[r] # None
        PROVE  tgt'[made'[r]].of = r /\ tgt'[made'[r]].row # "none"
    <3>1. CASE made'[r] = made[r]
      BY <2>2, <2>4, <3>1
    <3>2. CASE made'[r] # made[r]
      BY <2>1, <2>4, <3>2
    <3> QED
      BY <3>1, <3>2
  <2>5. ASSUME NEW u \in Targets, tgt'[u].row = "live"
        PROVE  tgt'[u].of \in Resources
    BY <2>1, <2>5
  <2> QED
    BY <2>1, <2>3, <2>4, <2>5
<1>3. CASE Claim
  <2>1. \A u \in Targets : tgt'[u].of = tgt[u].of /\ tgt'[u].row = tgt[u].row
    BY <1>3, <1>c
  <2>2. UNCHANGED << journal, made >>
    BY <1>3, <1>c
  <2> QED
    BY <2>1, <2>2
<1>4. CASE UndoDelete
  <2>1. CASE tgt' = tgt
    BY <1>4, <1>d, <2>1
  <2>2. CASE tgt' # tgt
    <3>1. /\ made[at] \in Targets
          /\ tgt'[made[at]].row \in {"deleting", "gone"}
          /\ tgt'[made[at]].of = tgt[made[at]].of
          /\ \A u \in Targets : u # made[at] => tgt'[u] = tgt[u]
          /\ journal' = journal /\ made' = made
      BY <1>4, <1>d, <2>2, Zenon
    <3>2. \A u \in Targets :
            /\ tgt'[u].of = tgt[u].of
            /\ tgt'[u].row = tgt[u].row \/ tgt'[u].row \in {"deleting", "gone"}
      BY <3>1
    <3>3. \A u \in Targets : tgt'[u].row = "live" => tgt[u].row = "live"
      BY <3>2
    <3>4. \A u \in Targets : tgt[u].row # "none" => tgt'[u].row # "none"
      BY <3>2
    <3> QED
      BY <3>1, <3>2, <3>3, <3>4
  <2> QED
    BY <2>1, <2>2
<1>5. CASE RunReleaseJob
  BY <1>5 DEF RunReleaseJob
<1>6. CASE RunDeleteJob
  BY <1>6 DEF RunDeleteJob
<1>7. CASE StrangerActs
  BY <1>7 DEF StrangerActs
<1>8. CASE RunOrResume
  BY <1>8 DEF RunOrResume, Command, StartCreate, Goto, NoTargets, MadeTargets
<1>9. CASE Rollback
  BY <1>9 DEF Rollback, Command, Goto, FirstUndo
<1>10. CASE Crash
  BY <1>10 DEF Crash, Goto, NoTargets, MadeTargets
<1>11. CASE Raises
  BY <1>11 DEF Raises, Goto
<1>12. CASE Park
  BY <1>12 DEF Park
<1>13. CASE RecordTarget
  BY <1>13 DEF RecordTarget
<1>14. CASE CreateCompletes
  BY <1>14 DEF CreateCompletes, Goto
<1>15. CASE UndoRestore
  BY <1>15, RestoreMoves
<1>16. CASE UndoLoopEnds
  BY <1>16 DEF UndoLoopEnds, Goto, UndoNext
<1>17. CASE FreshAttempt
  BY <1>17 DEF FreshAttempt, Goto, NoTargets, MadeTargets
<1>18. CASE CreateFailed
  BY <1>18 DEF CreateFailed, End, Goto, NoTargets, MadeTargets
<1>19. CASE RolledBack
  BY <1>19 DEF RolledBack, End, Goto, NoTargets, MadeTargets
<1>20. CASE StepRaises
  BY <1>20 DEF StepRaises, Goto, FirstUndo
<1>21. CASE Blocked
  BY <1>21 DEF Blocked, End, Goto, NoTargets, MadeTargets
<1>22. CASE StartFinalize
  BY <1>22 DEF StartFinalize, Goto
<1>23. CASE DeleteSource
  BY <1>23 DEF DeleteSource, Queue
<1>24. CASE DeleteFails
  BY <1>24 DEF DeleteFails, End, Goto, NoTargets, MadeTargets
<1>25. CASE LookAtTarget
  BY <1>25 DEF LookAtTarget, NoticeAndKeep, GoOn, TargetStillHolds
<1>26. CASE ReleaseSource
  BY <1>26 DEF ReleaseSource, NoticeAndKeep, GoOn, Queue
<1>27. CASE Succeeds
  BY <1>27 DEF Succeeds, End, Goto, NoTargets, MadeTargets
<1> QED
  BY <1>1, <1>2, <1>3, <1>4, <1>5, <1>6, <1>7, <1>8, <1>9, <1>10, <1>11, <1>12, <1>13, <1>14,
       <1>15, <1>16, <1>17, <1>18, <1>19, <1>20, <1>21, <1>22, <1>23, <1>24, <1>25, <1>26, <1>27
       DEF Next

\* An undo without an error has deleted every target behind it.
LEMMA UndoLoopStep ==
  ASSUME Typed, CreateLoop, UndoLoop, TargetsAreTheirs, Phases, Next
  PROVE  UndoLoop'
<1> USE ResourcesAssumption DEF Typed, TargetTypes, PlaceTypes, Rows, Resources, UndoLoop,
     Live,
        coolifyVars, processVars, endVars, boundVars
<1>1. CASE DeployDrops
  BY <1>1, DropsOneTarget
<1>2. CASE CreateResource
  BY <1>2 DEF CreateResource, Goto
<1>3. CASE Claim
  BY <1>3 DEF Claim, Goto, GoOn,
       AskClaim, ForceClaim, WriteClaim
<1>4. CASE UndoDelete
  <2>1. CASE pc = "undo_delete" /\ error' = "none"
    <3>1. made[at] = None \/ tgt'[made[at]].row # "live"
      BY <1>4, <2>1, UndoDeletesOneTarget
    <3>2. ASSUME NEW r \in Resources, r < at, made[r] # None
          PROVE  tgt'[made[r]].row # "live"
      <4>1. error = "none"
        BY <1>4, <2>1 DEF UndoDelete, DeleteMade, Failed
      <4>2. tgt[made[r]].row # "live" /\ made[r] \in Targets
        BY <4>1, <2>1, <3>2
      <4>3. tgt'[made[r]] = tgt[made[r]] \/ tgt'[made[r]].row \in {"deleting", "gone"}
        BY <1>4, <2>1, <4>2, UndoDeletesOneTarget
      <4> QED
        BY <4>2, <4>3
    <3>3. UNCHANGED << made, pc >> /\ at' = at + 1 /\ at \in Resources
      BY <1>4, UndoDeletesOneTarget
    <3> QED
      BY <2>1, <3>1, <3>2, <3>3
  <2> QED
    BY <1>4, <2>1, UndoDeletesOneTarget
<1>5. CASE RunReleaseJob
  BY <1>5 DEF RunReleaseJob
<1>6. CASE RunDeleteJob
  BY <1>6 DEF RunDeleteJob
<1>7. CASE StrangerActs
  BY <1>7 DEF StrangerActs
<1>8. CASE RunOrResume
  BY <1>8 DEF RunOrResume, Command, StartCreate, Goto, Phases, Creating, Undoing, NoTargets
<1>9. CASE Rollback
  BY <1>9 DEF Rollback, Command, Goto, FirstUndo
<1>10. CASE Crash
  BY <1>10 DEF Crash, Goto
<1>11. CASE Raises
  BY <1>11 DEF Raises, Goto
<1>12. CASE Park
  BY <1>12 DEF Park
<1>13. CASE RecordTarget
  BY <1>13 DEF RecordTarget
<1>14. CASE CreateCompletes
  BY <1>14 DEF CreateCompletes, Goto
<1>15. CASE UndoRestore
  BY <1>15, RestoreMoves
<1>16. CASE UndoLoopEnds
  BY <1>16 DEF UndoLoopEnds, Goto, UndoNext
<1>17. CASE FreshAttempt
  BY <1>17 DEF FreshAttempt, Goto, Phases, Creating, Undoing, NoTargets
<1>18. CASE CreateFailed
  BY <1>18 DEF CreateFailed, End, Goto
<1>19. CASE RolledBack
  BY <1>19 DEF RolledBack, End, Goto
<1>20. CASE StepRaises
  BY <1>20 DEF StepRaises, Goto, FirstUndo
<1>21. CASE Blocked
  BY <1>21 DEF Blocked, End, Goto
<1>22. CASE StartFinalize
  BY <1>22 DEF StartFinalize, Goto
<1>23. CASE DeleteSource
  BY <1>23 DEF DeleteSource, Queue
<1>24. CASE DeleteFails
  BY <1>24 DEF DeleteFails, End, Goto
<1>25. CASE LookAtTarget
  BY <1>25 DEF LookAtTarget, NoticeAndKeep, GoOn, TargetStillHolds
<1>26. CASE ReleaseSource
  BY <1>26 DEF ReleaseSource, NoticeAndKeep, GoOn, Queue
<1>27. CASE Succeeds
  BY <1>27 DEF Succeeds, End, Goto
<1> QED
  BY <1>1, <1>2, <1>3, <1>4, <1>5, <1>6, <1>7, <1>8, <1>9, <1>10, <1>11, <1>12, <1>13, <1>14,
       <1>15, <1>16, <1>17, <1>18, <1>19, <1>20, <1>21, <1>22, <1>23, <1>24, <1>25, <1>26, <1>27
       DEF Next

\* A delete job brings no target back and touches no live one.
LEMMA DeletesOneRow ==
  ASSUME TargetTypes, RunDeleteJob
  PROVE  /\ \A u \in Targets : tgt'[u].of = tgt[u].of /\ tgt'[u].holds = tgt[u].holds
         /\ \A u \in Targets : tgt[u].row # "deleting" => tgt'[u] = tgt[u]
         /\ \A u \in Targets : tgt'[u].row = "live" => tgt[u].row = "live"
         /\ UNCHANGED << srcHolds, foreign, records, jobs, journal, processVars, endVars, boundVars >>
BY DEF RunDeleteJob, TargetTypes, Rows

\* Where a loop's body runs the loop is at a resource.
LEMMA InLoop ==
  ASSUME PlaceTypes, CreateLoop
  PROVE  /\ pc \in {"park", "create", "record", "claim", "release"} \cup {"force", "undo_force", "rb_force"}
              => at \in Resources
         /\ pc = "baseline" => \A r \in Resources : r < at
BY ResourcesAssumption DEF PlaceTypes, CreateLoop, Resources

\* The place in the code fits the journal's markers and the policy.
LEMMA PhasesStep ==
  ASSUME Typed, Phases, CreateLoop, Next
  PROVE  Phases'
<1> USE DEF Typed, PlaceTypes, JournalTypes, Journals, EndTypes, Phases, Creating, Undoing,
     Running,
        RollingBack, coolifyVars, processVars, endVars, boundVars
<1>1. CASE DeployDrops
  BY <1>1, DropsOneTarget
<1>2. CASE UndoDelete
  BY <1>2, UndoDeletesOneTarget
<1>3. CASE Claim
  BY <1>3, ClaimsOneTarget
<1>4. CASE RunReleaseJob
  BY <1>4 DEF RunReleaseJob
<1>5. CASE RunDeleteJob
  BY <1>5 DEF RunDeleteJob
<1>6. CASE StrangerActs
  BY <1>6 DEF StrangerActs
<1>7. CASE RunOrResume
  BY <1>7 DEF RunOrResume, Command, StartCreate, Goto
<1>8. CASE Rollback
  BY <1>8 DEF Rollback, Command, Goto, FirstUndo
<1>9. CASE Crash
  BY <1>9 DEF Crash, Goto
<1>10. CASE Raises
  BY <1>10 DEF Raises, Goto
<1>11. CASE Park
  BY <1>11 DEF Park
<1>12. CASE CreateResource
  BY <1>12 DEF CreateResource, Goto, NewTarget
<1>13. CASE RecordTarget
  BY <1>13 DEF RecordTarget
<1>14. CASE CreateCompletes
  BY <1>14 DEF CreateCompletes, Goto
<1>15. CASE UndoRestore
  BY <1>15, RestoreMoves
<1>16. CASE UndoLoopEnds
  BY <1>16 DEF UndoLoopEnds, Goto, UndoNext
<1>17. CASE FreshAttempt
  BY <1>17 DEF FreshAttempt, Goto
<1>18. CASE CreateFailed
  BY <1>18 DEF CreateFailed, End, Goto
<1>19. CASE RolledBack
  BY <1>19 DEF RolledBack, End, Goto
<1>20. CASE StepRaises
  BY <1>20 DEF StepRaises, Goto, FirstUndo
<1>21. CASE Blocked
  BY <1>21 DEF Blocked, End, Goto
<1>22. CASE StartFinalize
  BY <1>22 DEF StartFinalize, Goto
<1>23. CASE DeleteSource
  BY <1>23 DEF DeleteSource, Queue
<1>24. CASE DeleteFails
  BY <1>24 DEF DeleteFails, End, Goto
<1>25. CASE LookAtTarget
  BY <1>25 DEF LookAtTarget, NoticeAndKeep, GoOn, TargetStillHolds
<1>26. CASE ReleaseSource
  BY <1>26 DEF ReleaseSource, NoticeAndKeep, GoOn, Queue
<1>27. CASE Succeeds
  BY <1>27 DEF Succeeds, End, Goto
<1> QED
  BY <1>1, <1>2, <1>3, <1>4, <1>5, <1>6, <1>7, <1>8, <1>9, <1>10, <1>11, <1>12, <1>13, <1>14,
       <1>15, <1>16, <1>17, <1>18, <1>19, <1>20, <1>21, <1>22, <1>23, <1>24, <1>25, <1>26, <1>27
       DEF Next

\* From CREATE's end to a rollback every resource keeps its live target.
LEMMA HandedStep ==
  ASSUME Typed, TargetsAreTheirs, Pointers, CreateLoop, Phases, HandedOver, Next,
         "before delete" \notin Deploys
  PROVE  HandedOver'
<1> USE DEF Typed, TargetTypes, PlaceTypes, JournalTypes, Rows, Journals, HandedOver, Live,
     coolifyVars,
        processVars, endVars, boundVars
<1>1. CASE DeployDrops
  <2>1. setup.policy # "delete"
    BY <1>1 DEF DeployDrops
  <2>2. UNCHANGED << journal, setup >> /\ \A u \in Targets : tgt'[u].row = tgt[u].row
    BY <1>1, DropsOneTarget
  <2> QED
    BY <2>1, <2>2, ZenonT(60)
<1>2. CASE CreateResource
  <2>1. ~journal.created /\ UNCHANGED journal
    BY <1>2 DEF CreateResource, Phases, Creating
  <2> QED
    BY <2>1
<1>3. CASE Claim
  <2>1. ~journal.created /\ UNCHANGED journal
    BY <1>3 DEF Claim, Phases, Creating,
       AskClaim, ForceClaim, WriteClaim, GoOn
  <2> QED
    BY <2>1
<1>4. CASE UndoDelete
  <2>1. (~journal.created \/ journal.undo) /\ UNCHANGED journal
    BY <1>4 DEF UndoDelete, DeleteMade, Phases, Undoing, RollingBack
  <2> QED
    BY <2>1
<1>5. CASE CreateCompletes
  <2>1. at = N + 1 /\ pc = "baseline" /\ journal'.targets = made /\ UNCHANGED tgt
    BY <1>5 DEF CreateCompletes, CreateLoop
  <2>2. ASSUME NEW r \in Resources
        PROVE  made[r] # None /\ Live(made[r]) /\ Own(r) \subseteq tgt[made[r]].holds
    <3>1. r < at
      BY <2>1, <2>2, InLoop
    <3> QED
      BY <2>1, <2>2, <3>1 DEF CreateLoop, Creating, Live
  <2> QED
    BY <2>1, <2>2
<1>6. CASE RunDeleteJob
  <2>1. ASSUME NEW r \in Resources, journal.targets[r] # None, Live(journal.targets[r])
        PROVE  tgt'[journal.targets[r]] = tgt[journal.targets[r]]
    BY <1>6, <2>1, DeletesOneRow
  <2>2. UNCHANGED << journal, setup >>
    BY <1>6 DEF RunDeleteJob
  <2> QED
    BY <2>1, <2>2
<1>7. CASE RunReleaseJob
  BY <1>7 DEF RunReleaseJob, Phases, Undoing, RollingBack, Creating
<1>8. CASE StrangerActs
  BY <1>8 DEF StrangerActs, Phases, Undoing, RollingBack, Creating
<1>9. CASE RunOrResume
  <2>1. CASE journal.created
    <3>1. UNCHANGED << journal, tgt, setup >>
      BY <1>9, <2>1 DEF RunOrResume, Command
    <3> QED
      BY <3>1
  <2>2. CASE ~journal.created
    <3>1. ~journal'.created
      BY <1>9, <2>2 DEF RunOrResume, StartCreate
    <3> QED
      BY <3>1
  <2> QED
    BY <2>1, <2>2
<1>10. CASE Rollback
  BY <1>10 DEF Rollback, Command, Goto, FirstUndo, Phases, Undoing, RollingBack, Creating
<1>11. CASE Crash
  BY <1>11 DEF Crash, Goto, Phases, Undoing, RollingBack, Creating
<1>12. CASE Raises
  BY <1>12 DEF Raises, Goto, Phases, Undoing, RollingBack, Creating
<1>13. CASE Park
  BY <1>13 DEF Park, Phases, Undoing, RollingBack, Creating
<1>14. CASE RecordTarget
  BY <1>14 DEF RecordTarget, Phases, Undoing, RollingBack, Creating
<1>15. CASE UndoRestore
  BY <1>15, RestoreMoves DEF Phases, Undoing, RollingBack, Creating
<1>16. CASE UndoLoopEnds
  BY <1>16 DEF UndoLoopEnds, Goto, UndoNext, Phases, Undoing, RollingBack, Creating
<1>17. CASE FreshAttempt
  BY <1>17 DEF FreshAttempt, Goto, Phases, Undoing, RollingBack, Creating
<1>18. CASE CreateFailed
  BY <1>18 DEF CreateFailed, End, Goto, Phases, Undoing, RollingBack, Creating
<1>19. CASE RolledBack
  BY <1>19 DEF RolledBack, End, Goto, Phases, Undoing, RollingBack, Creating
<1>20. CASE StepRaises
  BY <1>20 DEF StepRaises, Goto, FirstUndo, Phases, Undoing, RollingBack, Creating
<1>21. CASE Blocked
  BY <1>21 DEF Blocked, End, Goto, Phases, Undoing, RollingBack, Creating
<1>22. CASE StartFinalize
  BY <1>22 DEF StartFinalize, Goto, Phases, Undoing, RollingBack, Creating
<1>23. CASE DeleteSource
  BY <1>23 DEF DeleteSource, Queue, Phases, Undoing, RollingBack, Creating
<1>24. CASE DeleteFails
  BY <1>24 DEF DeleteFails, End, Goto, Phases, Undoing, RollingBack, Creating
<1>25. CASE LookAtTarget
  BY <1>25 DEF LookAtTarget, NoticeAndKeep, GoOn, TargetStillHolds, Phases, Undoing,
       RollingBack,
       Creating
<1>26. CASE ReleaseSource
  BY <1>26 DEF ReleaseSource, NoticeAndKeep, GoOn, Queue, Phases, Undoing, RollingBack,
       Creating
<1>27. CASE Succeeds
  BY <1>27 DEF Succeeds, End, Goto, Phases, Undoing, RollingBack, Creating
<1> QED
  BY <1>1, <1>2, <1>3, <1>4, <1>5, <1>6, <1>7, <1>8, <1>9, <1>10, <1>11, <1>12, <1>13, <1>14,
       <1>15, <1>16, <1>17, <1>18, <1>19, <1>20, <1>21, <1>22, <1>23, <1>24, <1>25, <1>26, <1>27
       DEF Next

\* Between the look at a target and the release nothing takes its hosts.
LEMMA ReleaseSeenStep ==
  ASSUME Typed, Pointers, CreateLoop, Phases, HandedOver, ReleaseSeen, Next,
         "within release" \notin Deploys
  PROVE  ReleaseSeen'
<1> USE DEF Typed, TargetTypes, PlaceTypes, JournalTypes, Rows, Journals, ReleaseSeen,
     coolifyVars,
        processVars, endVars, boundVars
<1>1. CASE DeployDrops
  <2>1. pc # "release" /\ UNCHANGED pc
    BY <1>1 DEF DeployDrops, Drops
  <2> QED
    BY <2>1
<1>2. CASE UndoDelete
  BY <1>2 DEF UndoDelete, DeleteMade
<1>3. CASE Claim
  BY <1>3, ClaimsOneTarget
<1>4. CASE LookAtTarget
  BY <1>4 DEF LookAtTarget, TargetStillHolds, NotHeld, GoOn
<1>5. CASE RunDeleteJob
  <2>1. pc = "release" => made[at] \in Targets
    <3>1. pc = "release" => at \in Resources
      BY InLoop
    <3>2. pc = "release" => journal.created /\ ~journal.undo /\ journal.targets[at] = made[at]
      BY <3>1 DEF Phases, Running, Pointers
    <3> QED
      BY <3>1, <3>2 DEF HandedOver
  <2> QED
    BY <1>5, <2>1, DeletesOneRow
<1>6. CASE RunReleaseJob
  BY <1>6 DEF RunReleaseJob
<1>7. CASE StrangerActs
  BY <1>7 DEF StrangerActs
<1>8. CASE RunOrResume
  BY <1>8 DEF RunOrResume, Command, StartCreate, Goto
<1>9. CASE Rollback
  BY <1>9 DEF Rollback, Command, Goto, FirstUndo
<1>10. CASE Crash
  BY <1>10 DEF Crash, Goto
<1>11. CASE Raises
  BY <1>11 DEF Raises, Goto
<1>12. CASE Park
  BY <1>12 DEF Park
<1>13. CASE CreateResource
  BY <1>13 DEF CreateResource, Goto, NewTarget
<1>14. CASE RecordTarget
  BY <1>14 DEF RecordTarget
<1>15. CASE CreateCompletes
  BY <1>15 DEF CreateCompletes, Goto
<1>16. CASE UndoRestore
  BY <1>16, RestoreMoves
<1>17. CASE UndoLoopEnds
  BY <1>17 DEF UndoLoopEnds, Goto, UndoNext
<1>18. CASE FreshAttempt
  BY <1>18 DEF FreshAttempt, Goto
<1>19. CASE CreateFailed
  BY <1>19 DEF CreateFailed, End, Goto
<1>20. CASE RolledBack
  BY <1>20 DEF RolledBack, End, Goto
<1>21. CASE StepRaises
  BY <1>21 DEF StepRaises, Goto, FirstUndo
<1>22. CASE Blocked
  BY <1>22 DEF Blocked, End, Goto
<1>23. CASE StartFinalize
  BY <1>23 DEF StartFinalize, Goto
<1>24. CASE DeleteSource
  BY <1>24 DEF DeleteSource, Queue
<1>25. CASE DeleteFails
  BY <1>25 DEF DeleteFails, End, Goto
<1>26. CASE ReleaseSource
  BY <1>26 DEF ReleaseSource, NoticeAndKeep, GoOn, Queue
<1>27. CASE Succeeds
  BY <1>27 DEF Succeeds, End, Goto
<1> QED
  BY <1>1, <1>2, <1>3, <1>4, <1>5, <1>6, <1>7, <1>8, <1>9, <1>10, <1>11, <1>12, <1>13, <1>14,
       <1>15, <1>16, <1>17, <1>18, <1>19, <1>20, <1>21, <1>22, <1>23, <1>24, <1>25, <1>26, <1>27
       DEF Next

\* CREATE's loop has claimed behind it and made nothing before it.
LEMMA LoopStep ==
  ASSUME Typed, TargetsAreTheirs, CreateLoop, Phases, Next
  PROVE  CreateLoop'
<1> USE DEF Typed, PlaceTypes, Live, Claimed, Creating, coolifyVars, processVars, endVars,
     boundVars
<1> DEFINE HasClaimed(r) == made[r] # None /\ made[r] \in Targets /\ Live(made[r]) /\ Own(r) \subseteq tgt[made[r]].holds
<1>0. ASSUME NEW r \in Resources, pc \in Creating, r < at
      PROVE  HasClaimed(r)
  BY <1>0 DEF CreateLoop
<1>1. CASE DeployDrops
  <2>1. pc \notin Creating
    BY <1>1 DEF DeployDrops, Phases
  <2>2. UNCHANGED << pc, at, journal >>
    BY <1>1, DropsOneTarget
  <2> QED
    BY <2>1, <2>2 DEF CreateLoop
<1>2. CASE UndoDelete
  <2>1. pc \notin Creating \cup {"release"} \cup ForceLabels /\ UNCHANGED pc
    BY <1>2 DEF UndoDelete, DeleteMade, ForceLabels
  <2> QED
    BY <2>1 DEF CreateLoop, ForceLabels
<1>3. CASE RunDeleteJob
  <2>1. \A u \in Targets : Live(u) => tgt'[u] = tgt[u]
    BY <1>3, DeletesOneRow
  <2>2. UNCHANGED << pc, at, made, journal >>
    BY <1>3, DeletesOneRow
  <2>3. ASSUME NEW r \in Resources, pc \in Creating, r < at
        PROVE  made[r] # None /\ tgt'[made[r]].row = "live" /\ Own(r) \subseteq tgt'[made[r]].holds
    BY <1>0, <2>1, <2>2, <2>3
  <2>4. pc \in {"record", "claim", "force"} => tgt'[made[at]] = tgt[made[at]]
    BY <2>1, InLoop DEF CreateLoop
  <2> QED
    BY <2>2, <2>3, <2>4 DEF CreateLoop
<1>4. CASE RunOrResume
  <2>1. CASE pc' = "park"
    <3>1. made' = NoTargets /\ (\A r \in Resources : journal'.parked[r] = {}) /\ at' = 1
      BY <1>4, <2>1 DEF RunOrResume, StartCreate, Goto, JournalTypes, Journals
    <3> QED
      BY <2>1, <3>1, ResourcesAssumption DEF CreateLoop, NoTargets, Resources
  <2> QED
    BY <1>4, <2>1 DEF RunOrResume, StartCreate, Goto, CreateLoop
<1>5. CASE Park
  <2>1. at \in Resources
    BY <1>5, InLoop DEF Park
  <2>2. /\ journal'.parked[at] = Serves[at]
        /\ \A r \in Resources : r # at => journal'.parked[r] = journal.parked[r]
    BY <1>5, <2>1 DEF Park, CreateLoop, JournalTypes, Journals
  <2> QED
    BY <1>5, <2>1, <2>2 DEF Park, CreateLoop
<1>6. CASE CreateResource
  <2>1. PICK t \in Targets :
          /\ at \in Resources /\ tgt[t].row = "none"
          /\ tgt'[t].of = at /\ tgt'[t].row = "live" /\ CustomHosts(tgt'[t].holds) = {}
          /\ \A u \in Targets : u # t => tgt'[u] = tgt[u]
          /\ \/ made' = [made EXCEPT ![at] = t] /\ pc' = "record" /\ UNCHANGED << at, error >>
             \/ error' = "step" /\ pc' = "undo_delete" /\ at' = 1 /\ UNCHANGED made
          /\ UNCHANGED journal
    BY <1>6, CreatesOneTarget
  <2>0. t # None
    BY DEF Targets, None
  <2>2. CASE pc' = "record"
    <3>1. pc = "create" /\ made'[at] = t /\ at' = at
          /\ \A r \in Resources : r # at => made'[r] = made[r]
      BY <1>6, <2>1, <2>2 DEF CreateResource
    <3>2. ASSUME NEW r \in Resources, r < at
          PROVE  made'[r] # None /\ tgt'[made'[r]].row = "live" /\ Own(r) \subseteq tgt'[made'[r]].holds
      <4>1. HasClaimed(r) /\ made'[r] = made[r]
        BY <1>0, <3>1, <3>2
      <4> QED
        BY <2>1, <4>1
    <3> QED
      BY <2>0, <2>1, <2>2, <3>1, <3>2 DEF CreateLoop
  <2> QED
    BY <2>1, <2>2 DEF CreateLoop
<1>7. CASE Claim
  <2>1. /\ at \in Resources /\ made[at] \in Targets /\ made[at] # None /\ pc \in {"claim", "force"}
        /\ \A u \in Targets : u # made[at] => tgt'[u] = tgt[u]
        /\ tgt'[made[at]].row = "live"
        /\ \/ Own(at) \subseteq tgt'[made[at]].holds /\ at' = at + 1
              /\ pc' = IF at = N THEN "baseline" ELSE "park"
           \/ pc' = "undo_delete" /\ at' = 1
           \/ pc' = "force" /\ UNCHANGED << tgt, at >>
        /\ UNCHANGED << journal, made >>
    BY <1>7, ClaimsOneTarget DEF CreateLoop
  <2>3. CASE pc' = "force" /\ UNCHANGED << tgt, at >>
    BY <1>7, <2>1, <2>3, ClaimsOneTarget DEF CreateLoop
  <2>2. CASE pc' \notin {"undo_delete", "force"}
    <3>1. ASSUME NEW r \in Resources, r < at'
          PROVE  made[r] # None /\ tgt'[made[r]].row = "live" /\ Own(r) \subseteq tgt'[made[r]].holds
      <4>1. CASE r = at
        BY <2>1, <2>2, <4>1
      <4>2. CASE r # at
        <5>1. r < at
          BY <2>1, <2>2, <3>1, <4>2 DEF Resources
        <5>2. HasClaimed(r)
          BY <1>0, <2>1, <5>1, <3>1
        <5>3. made[r] # made[at]
          BY <2>1, <4>2, <5>2, <3>1 DEF TargetsAreTheirs
        <5> QED
          BY <2>1, <5>2, <5>3
      <4> QED
        BY <4>1, <4>2
    <3>2. \A r \in Resources : r >= at' => r > at
      BY <2>1, <2>2 DEF Resources
    <3>3. pc' = "park" => at' \in Resources
      BY <2>1, <2>2, ResourcesAssumption DEF Resources
    <3> QED
      BY <2>1, <2>2, <3>1, <3>2, <3>3, ResourcesAssumption DEF CreateLoop, Resources
  <2> QED
    BY <2>1, <2>2, <2>3 DEF CreateLoop
<1>8. CASE RunReleaseJob
  BY <1>8 DEF RunReleaseJob, CreateLoop
<1>9. CASE StrangerActs
  BY <1>9 DEF StrangerActs, CreateLoop
<1>10. CASE Rollback
  BY <1>10 DEF Rollback, Command, Goto, FirstUndo, CreateLoop
<1>11. CASE Crash
  BY <1>11 DEF Crash, Goto, CreateLoop
<1>12. CASE Raises
  BY <1>12 DEF Raises, Goto, CreateLoop
<1>13. CASE RecordTarget
  BY <1>13 DEF RecordTarget, CreateLoop
<1>14. CASE CreateCompletes
  BY <1>14 DEF CreateCompletes, Goto, CreateLoop
<1>15. CASE UndoRestore
  BY <1>15, RestoreMoves DEF CreateLoop, Resources
<1>16. CASE UndoLoopEnds
  BY <1>16 DEF UndoLoopEnds, Goto, UndoNext, CreateLoop
<1>17. CASE FreshAttempt
  BY <1>17, ResourcesAssumption DEF FreshAttempt, Goto, CreateLoop, NoTargets, Resources,
       JournalTypes, Journals
<1>18. CASE CreateFailed
  BY <1>18 DEF CreateFailed, End, Goto, CreateLoop
<1>19. CASE RolledBack
  BY <1>19 DEF RolledBack, End, Goto, CreateLoop
<1>20. CASE StepRaises
  BY <1>20 DEF StepRaises, Goto, FirstUndo, CreateLoop
<1>21. CASE Blocked
  BY <1>21 DEF Blocked, End, Goto, CreateLoop
<1>22. CASE StartFinalize
  BY <1>22 DEF StartFinalize, Goto, CreateLoop
<1>23. CASE DeleteSource
  BY <1>23 DEF DeleteSource, Queue, CreateLoop
<1>24. CASE DeleteFails
  BY <1>24 DEF DeleteFails, End, Goto, CreateLoop
<1>25. CASE LookAtTarget
  BY <1>25 DEF LookAtTarget, NoticeAndKeep, GoOn, TargetStillHolds, CreateLoop
<1>26. CASE ReleaseSource
  BY <1>26 DEF ReleaseSource, NoticeAndKeep, GoOn, Queue, CreateLoop
<1>27. CASE Succeeds
  BY <1>27 DEF Succeeds, End, Goto, CreateLoop
<1> QED
  BY <1>1, <1>2, <1>3, <1>4, <1>5, <1>6, <1>7, <1>8, <1>9, <1>10, <1>11, <1>12, <1>13, <1>14,
       <1>15, <1>16, <1>17, <1>18, <1>19, <1>20, <1>21, <1>22, <1>23, <1>24, <1>25, <1>26, <1>27
       DEF Next

\* What a target claims stays recorded, parked and its source's.
LEMMA ClaimsStep ==
  ASSUME Typed, TargetsAreTheirs, Pointers, ClaimsAreBacked, CreateLoop, UndoLoop, Next
  PROVE  ClaimsAreBacked'
<1> USE DEF Typed, Live, Claimed, coolifyVars, processVars, endVars, boundVars
<1> DEFINE Backed(t) ==
             \E r \in Resources :
               /\ tgt[t].of = r /\ journal.targets[r] = t
               /\ Claimed(t) \subseteq Serves[r] /\ journal.parked[r] = Serves[r]
<1>1. ASSUME NEW t \in Targets, Live(t), Claimed(t) # {}
      PROVE  Backed(t)
  BY <1>1 DEF ClaimsAreBacked
<1>2. \A r \in Resources : journal.parked[r] \in {{}, Serves[r]} /\ srcHolds[r] \subseteq Serves[r]
  BY DEF ClaimsAreBacked
<1>3. ASSUME UNCHANGED srcHolds,
             \A r \in Resources : /\ journal'.parked[r] \in {journal.parked[r], Serves[r]}
                                  /\ journal'.targets[r] = journal.targets[r] \/ journal.targets[r] = None,
             \A t \in Targets : tgt'[t].row = "live" /\ CustomHosts(tgt'[t].holds) # {} =>
                Live(t) /\ tgt'[t].of = tgt[t].of /\ CustomHosts(tgt'[t].holds) \subseteq Claimed(t)
      PROVE  ClaimsAreBacked'
  <2>1. ASSUME NEW t \in Targets, tgt'[t].row = "live", CustomHosts(tgt'[t].holds) # {}
        PROVE  \E r \in Resources :
                 /\ tgt'[t].of = r /\ journal'.targets[r] = t
                 /\ CustomHosts(tgt'[t].holds) \subseteq Serves[r] /\ journal'.parked[r] = Serves[r]
    <3>1. Backed(t) /\ t # None
      BY <1>1, <1>3, <2>1 DEF Targets, None
    <3> QED
      BY <1>3, <2>1, <3>1
  <2> QED
    BY <1>2, <1>3, <2>1 DEF ClaimsAreBacked
<1>4. CASE DeployDrops
  <2>1. PICK t \in LiveTargets, hosts \in SUBSET Served :
          /\ tgt'[t].holds = tgt[t].holds \ hosts
          /\ \A u \in Targets : u # t => tgt'[u] = tgt[u]
          /\ \A u \in Targets : tgt'[u].of = tgt[u].of /\ tgt'[u].row = tgt[u].row
          /\ UNCHANGED << srcHolds, journal >>
    BY <1>4, DropsOneTarget
  <2>2. \A u \in Targets : CustomHosts(tgt'[u].holds) \subseteq CustomHosts(tgt[u].holds)
    BY <2>1 DEF CustomHosts
  <2> QED
    BY <1>3, <2>1, <2>2
<1>5. CASE RunDeleteJob
  BY <1>3, <1>5, DeletesOneRow
<1>6. CASE CreateResource
  <2>1. PICK t \in Targets : /\ CustomHosts(tgt'[t].holds) = {}
                             /\ \A u \in Targets : u # t => tgt'[u] = tgt[u]
                             /\ UNCHANGED << srcHolds, journal >>
    BY <1>6, CreatesOneTarget
  <2> QED
    BY <1>3, <2>1
<1>7. CASE Claim
  <2>1. /\ at \in Resources /\ made[at] \in Targets /\ pc \in {"claim", "force"}
        /\ \A u \in Targets : u # made[at] => tgt'[u] = tgt[u]
        /\ tgt'[made[at]].of = tgt[made[at]].of
        /\ CustomHosts(tgt'[made[at]].holds) \subseteq Own(at)
        /\ UNCHANGED << srcHolds, journal >>
    BY <1>7, ClaimsOneTarget
  <2>2. journal.targets[at] = made[at] /\ journal.parked[at] = Serves[at] /\ made[at] # None
    BY <2>1 DEF Pointers, CreateLoop
  <2>3. tgt[made[at]].of = at /\ Own(at) \subseteq Serves[at]
    BY <2>1, <2>2 DEF TargetsAreTheirs, Own, CustomHosts
  <2>4. ASSUME NEW u \in Targets, tgt'[u].row = "live", CustomHosts(tgt'[u].holds) # {}
        PROVE  \E r \in Resources :
                 /\ tgt'[u].of = r /\ journal.targets[r] = u
                 /\ CustomHosts(tgt'[u].holds) \subseteq Serves[r] /\ journal.parked[r] = Serves[r]
    <3>1. CASE u = made[at]
      BY <2>1, <2>2, <2>3, <3>1
    <3>2. CASE u # made[at]
      BY <1>1, <2>1, <2>4, <3>2
    <3> QED
      BY <3>1, <3>2
  <2> QED
    BY <1>2, <2>1, <2>4 DEF ClaimsAreBacked
<1>8. CASE UndoDelete
  <2>1. \A u \in Targets : tgt'[u] = tgt[u] \/ tgt'[u].row \in {"deleting", "gone"}
    BY <1>8, UndoDeletesOneTarget
  <2> QED
    BY <1>3, <1>8, <2>1, UndoDeletesOneTarget
<1>9. CASE FreshAttempt
  <2>1. ASSUME NEW t \in Targets, Live(t), Claimed(t) # {}
        PROVE  FALSE
    <3>1. PICK r \in Resources : journal.targets[r] = t
      BY <1>1, <2>1
    <3>2. made[r] = t /\ t # None
      BY <1>9, <3>1 DEF Pointers, FreshAttempt, Targets, None
    <3> QED
      BY <1>9, <2>1, <3>2 DEF UndoLoop, FreshAttempt
  <2> QED
    BY <1>2, <1>9, <2>1 DEF FreshAttempt, ClaimsAreBacked, JournalTypes, Journals
<1>10. CASE Park \/ RecordTarget \/ CreateCompletes
  <2>1. \A r \in Resources : /\ journal'.parked[r] \in {journal.parked[r], Serves[r]}
                             /\ journal'.targets[r] = journal.targets[r] \/ journal.targets[r] = None
    <3>1. \A r \in Resources : journal.targets[r] \in {None, made[r]}
      BY <1>10 DEF Park, RecordTarget, CreateCompletes, Pointers
    <3>2. \A r \in Resources : journal'.targets[r] \in {journal.targets[r], made[r]}
      BY <1>10 DEF Park, RecordTarget, CreateCompletes, JournalTypes, Journals
    <3>3. \A r \in Resources : journal'.parked[r] \in {journal.parked[r], Serves[r]}
      <4>1. journal'.parked = journal.parked \/ journal'.parked = [journal.parked EXCEPT ![at] = Serves[at]]
        BY <1>10 DEF Park, RecordTarget, CreateCompletes, JournalTypes, Journals
      <4> QED
        BY <4>1 DEF JournalTypes, Journals
    <3> QED
      BY <3>1, <3>2, <3>3
  <2> QED
    BY <1>3, <1>10, <2>1 DEF Park, RecordTarget, CreateCompletes
<1>11. CASE UndoRestore \/ DeleteSource \/ ReleaseSource
  <2>1. UNCHANGED << tgt, journal >>
    BY <1>11 DEF UndoRestore, DeleteSource, ReleaseSource,
       AskRestore, ForceRestore, RestoreOne, GivesBack, GoOn, Failed
  <2>2. \A r \in Resources : srcHolds'[r] \subseteq Serves[r]
    BY <1>2, <1>11 DEF UndoRestore, RestoreOne, DeleteSource, ReleaseSource,
         WithoutCustom, SourceTypes,
       AskRestore, ForceRestore, GivesBack, GoOn, Failed
  <2> QED
    BY <1>1, <1>2, <2>1, <2>2 DEF ClaimsAreBacked
<1>12. CASE RunReleaseJob \/ StrangerActs \/ RunOrResume \/ Rollback \/ Crash \/ Raises 
           \/ UndoLoopEnds \/ CreateFailed \/ RolledBack \/ StepRaises \/ Blocked 
           \/ StartFinalize \/ DeleteFails \/ LookAtTarget \/ Succeeds
  <2>1. /\ UNCHANGED << srcHolds, tgt >>
        /\ \A r \in Resources : /\ journal'.parked[r] = journal.parked[r]
                                /\ journal'.targets[r] = journal.targets[r]
    BY <1>12 DEF RunReleaseJob, StrangerActs, RunOrResume, Rollback, Crash, Raises,
         UndoLoopEnds,
     CreateFailed, RolledBack, StepRaises, Blocked, StartFinalize, DeleteFails, LookAtTarget,
     Succeeds, Command, StartCreate, JournalTypes, Journals
  <2> QED
    BY <1>3, <2>1
<1> QED
  BY <1>4, <1>5, <1>6, <1>7, <1>8, <1>9, <1>10, <1>11, <1>12 DEF Next

\* No resource loses a host on both sides.
LEMMA HeldStep ==
  ASSUME Typed, TargetsAreTheirs, Pointers, ClaimsAreBacked, CreateLoop, Phases,
       HandedOver, ReleaseSeen,
         EachHeld, Next
  PROVE  EachHeld'
<1> USE DEF Typed, coolifyVars, processVars, endVars, boundVars
<1> DEFINE Has(r, h) == \E t \in Targets : Live(t) /\ tgt[t].of = r /\ h \in tgt[t].holds
           HasThen(r, h) == \E t \in Targets : tgt'[t].row = "live" /\ tgt'[t].of = r /\ h \in tgt'[t].holds
<1>1. ASSUME NEW r \in Resources, NEW h \in Own(r)
      PROVE  h \in srcHolds[r] \/ Has(r, h)
  BY <1>1 DEF EachHeld
<1>2. ASSUME \A r \in Resources : \A h \in Own(r) : h \in srcHolds'[r] \/ HasThen(r, h)
      PROVE  EachHeld'
  BY <1>2 DEF EachHeld, Live, Own
<1>3. \A r \in Resources : Own(r) \subseteq Served /\ Own(r) \subseteq Serves[r]
  BY HostTypes DEF Own, CustomHosts
<1>4. ASSUME NEW r \in Resources, NEW h \in Own(r), NEW t \in Targets, Live(t), tgt[t].of = r, h \in tgt[t].holds
      PROVE  h \in Claimed(t) /\ journal.targets[r] = t /\ journal.parked[r] = Serves[r]
  <2>1. h \in Claimed(t)
    BY <1>4 DEF Claimed, Own, CustomHosts
  <2> QED
    BY <1>4, <2>1 DEF ClaimsAreBacked
<1>5. CASE DeployDrops
  <2>1. PICK t \in LiveTargets, hosts \in SUBSET Served :
          /\ hosts \subseteq srcHolds[tgt[t].of]
          /\ tgt'[t].holds = tgt[t].holds \ hosts
          /\ \A u \in Targets : u # t => tgt'[u] = tgt[u]
          /\ \A u \in Targets : tgt'[u].of = tgt[u].of /\ tgt'[u].row = tgt[u].row
          /\ UNCHANGED srcHolds
    BY <1>5, DropsOneTarget
  <2>2. ASSUME NEW r \in Resources, NEW h \in Own(r), h \notin srcHolds[r]
        PROVE  HasThen(r, h)
    <3>1. PICK u \in Targets : Live(u) /\ tgt[u].of = r /\ h \in tgt[u].holds
      BY <1>1, <2>2
    <3>2. tgt'[u].row = "live" /\ tgt'[u].of = r /\ h \in tgt'[u].holds
      BY <2>1, <2>2, <3>1 DEF Live
    <3> QED
      BY <3>2
  <2> QED
    BY <1>2, <2>1, <2>2
<1>6. ASSUME UNCHANGED srcHolds, \A u \in Targets : Live(u) => tgt'[u] = tgt[u]
      PROVE  EachHeld'
  BY <1>1, <1>2, <1>6 DEF Live
<1>7. CASE RunDeleteJob
  BY <1>6, <1>7, DeletesOneRow DEF Live
<1>8. CASE CreateResource
  <2>1. PICK t \in Targets : /\ tgt[t].row = "none" /\ UNCHANGED srcHolds
                             /\ \A u \in Targets : u # t => tgt'[u] = tgt[u]
    BY <1>8, CreatesOneTarget
  <2> QED
    BY <1>6, <2>1 DEF Live
<1>9. CASE Claim
  <2>1. /\ Claimed(made[at]) = {} /\ UNCHANGED srcHolds
        /\ \A u \in Targets : u # made[at] => tgt'[u] = tgt[u]
    BY <1>9, ClaimsOneTarget
  <2>2. ASSUME NEW r \in Resources, NEW h \in Own(r), h \notin srcHolds[r]
        PROVE  HasThen(r, h)
    <3>1. PICK u \in Targets : Live(u) /\ tgt[u].of = r /\ h \in tgt[u].holds
      BY <1>1, <2>2
    <3>2. u # made[at]
      BY <1>4, <2>1, <2>2, <3>1
    <3> QED
      BY <2>1, <3>1, <3>2 DEF Live
  <2> QED
    BY <1>2, <2>1, <2>2
<1>10. CASE UndoDelete
  <2>1. CASE made[at] \in Targets /\ MayDelete(at) /\ DeleteTarget(made[at])
    <3>1. \A u \in Targets : u # made[at] => tgt'[u] = tgt[u]
      BY <1>10, <2>1 DEF DeleteTarget, TargetTypes
    <3>2. at \in Resources /\ UNCHANGED srcHolds /\ made[at] # None
      BY <1>10, <2>1, UndoDeletesOneTarget DEF Targets, None
    <3>3. ASSUME NEW r \in Resources, NEW h \in Own(r), h \notin srcHolds[r]
          PROVE  HasThen(r, h)
      <4>1. PICK u \in Targets : Live(u) /\ tgt[u].of = r /\ h \in tgt[u].holds
        BY <1>1, <3>3
      <4>2. CASE u = made[at]
        <5>1. r = at /\ journal.parked[r] = Serves[r]
          BY <1>4, <3>2, <3>3, <4>1, <4>2 DEF TargetsAreTheirs
        <5>2. h \in srcHolds[r]
          BY <2>1, <3>3, <5>1 DEF MayDelete, NotHeld, Own
        <5> QED
          BY <3>3, <5>2
      <4> QED
        BY <3>1, <4>1, <4>2 DEF Live
    <3> QED
      BY <1>2, <3>2, <3>3
  <2>2. CASE UNCHANGED tgt
    BY <1>6, <1>10, <2>2, UndoDeletesOneTarget
  <2> QED
    BY <1>10, <2>1, <2>2, UndoDeletesOneTarget
<1>11. CASE UndoRestore
  <2>1. at \in Resources => UNCHANGED srcHolds \/ srcHolds' = [srcHolds EXCEPT ![at] = Serves[at]]
    BY <1>11, RestoreWrites
  <2>2. at \in Resources /\ UNCHANGED tgt
    BY <1>11, RestoreMoves
  <2> QED
    BY <1>1, <1>2, <1>3, <2>1, <2>2 DEF SourceTypes, Live
<1>12. CASE DeleteSource
  <2>1. at \in Resources /\ UNCHANGED tgt /\ pc = "finalize"
    BY <1>12, ResourcesAssumption DEF DeleteSource, PlaceTypes, Resources
  <2>2. \A r \in Resources : r # at => srcHolds'[r] = srcHolds[r]
    BY <1>12, <2>1 DEF DeleteSource, SourceTypes
  <2>3. journal.created /\ ~journal.undo /\ setup.policy = "delete"
    BY <2>1 DEF Phases, Running
  <2>4. journal.targets[at] \in Targets /\ journal.targets[at] # None
        /\ Live(journal.targets[at]) /\ Own(at) \subseteq tgt[journal.targets[at]].holds
    BY <2>1, <2>3 DEF HandedOver, JournalTypes, Journals
  <2>5. tgt[journal.targets[at]].of = at
    BY <2>1, <2>4 DEF TargetsAreTheirs
  <2>6. \A h \in Own(at) : HasThen(at, h)
    BY <2>1, <2>4, <2>5 DEF Live
  <2> QED
    BY <1>1, <1>2, <2>1, <2>2, <2>6 DEF Live
<1>13. CASE ReleaseSource
  <2>1. at \in Resources /\ UNCHANGED tgt /\ pc = "release"
    BY <1>13, InLoop DEF ReleaseSource
  <2>2. \A r \in Resources : r # at => srcHolds'[r] = srcHolds[r]
    BY <1>13, <2>1 DEF ReleaseSource, SourceTypes
  <2>3. journal.created /\ ~journal.undo /\ journal.targets[at] = made[at]
    BY <2>1 DEF Phases, Running, Pointers
  <2>4. made[at] \in Targets /\ made[at] # None /\ Live(made[at])
    BY <2>1, <2>3 DEF HandedOver, PlaceTypes
  <2>5. tgt[made[at]].of = at
    BY <2>1, <2>4 DEF TargetsAreTheirs
  <2>6. ASSUME NEW h \in Own(at)
        PROVE  HasThen(at, h)
    <3>1. CASE h \in srcHolds[at]
      <4>1. h \in CustomHosts(srcHolds[at])
        BY <2>6, <3>1 DEF Own, CustomHosts
      <4> QED
        BY <2>1, <2>4, <2>5, <4>1 DEF ReleaseSeen, Live
    <3>2. CASE Has(at, h)
      BY <2>1, <3>2 DEF Live
    <3> QED
      BY <1>1, <2>1, <2>6, <3>1, <3>2
  <2> QED
    BY <1>1, <1>2, <2>1, <2>2, <2>6 DEF Live
<1>14. CASE RunReleaseJob \/ StrangerActs \/ RunOrResume \/ Rollback \/ Crash \/ Raises 
           \/ Park \/ RecordTarget \/ CreateCompletes \/ UndoLoopEnds \/ FreshAttempt 
           \/ CreateFailed \/ RolledBack \/ StepRaises \/ Blocked \/ StartFinalize 
           \/ DeleteFails \/ LookAtTarget \/ Succeeds
  <2>1. UNCHANGED << srcHolds, tgt >>
    BY <1>14 DEF RunReleaseJob, StrangerActs, RunOrResume, Rollback, Crash, Raises,
         Park, RecordTarget,
     CreateCompletes, UndoLoopEnds, FreshAttempt, CreateFailed, RolledBack, StepRaises,
     Blocked, StartFinalize, DeleteFails, LookAtTarget, Succeeds, Command
  <2> QED
    BY <1>6, <2>1
<1> QED
  BY <1>5, <1>7, <1>8, <1>9, <1>10, <1>11, <1>12, <1>13, <1>14 DEF Next

\* A record is deleted only when nobody holds its host, and somebody does.
LEMMA RecordsStep ==
  ASSUME Typed, EachHeld, RecordsSurvive, Next
  PROVE  RecordsSurvive'
<1> USE DEF Typed, RecordsSurvive, coolifyVars, processVars, endVars, boundVars
<1>1. CASE RunReleaseJob
  <2>1. PICK h \in jobs : records' = IF LiveHolder(h) THEN records ELSE records \ {h}
    BY <1>1 DEF RunReleaseJob
  <2>2. PICK r \in Resources : h \in Own(r)
    BY DEF SourceTypes, Served, Own
  <2>3. LiveHolder(h)
    BY <2>2 DEF EachHeld, LiveHolder, LiveTargets, Live
  <2> QED
    BY <2>1, <2>3
<1>2. CASE RunDeleteJob \/ DeployDrops \/ StrangerActs \/ RunOrResume \/ Rollback \/ Crash
           \/ \/ Raises \/ Park \/ CreateResource \/ RecordTarget \/ Claim \/ CreateCompletes
           \/ \/ UndoDelete \/ UndoRestore \/ UndoLoopEnds \/ FreshAttempt \/ CreateFailed 
           \/ RolledBack \/ StepRaises \/ Blocked \/ StartFinalize \/ DeleteSource 
           \/ DeleteFails \/ LookAtTarget \/ ReleaseSource \/ Succeeds
  <2>1. UNCHANGED records
    BY <1>2 DEF RunDeleteJob, DeployDrops, StrangerActs, RunOrResume, Rollback, Crash,
         Raises, Park,
     CreateResource, RecordTarget, Claim, CreateCompletes, UndoDelete, UndoRestore,
     UndoLoopEnds, FreshAttempt, CreateFailed, RolledBack, StepRaises, Blocked, StartFinalize,
     DeleteSource, DeleteFails, LookAtTarget, ReleaseSource, Succeeds, Command, Drops,
     DeleteMade,
       AskClaim, ForceClaim, WriteClaim, GoOn,
       AskRestore, ForceRestore, RestoreOne, GivesBack, Failed
  <2> QED
    BY <2>1
<1> QED
  BY <1>1, <1>2 DEF Next

-----------------------------------------------------------------------------
(***************************************************************************)
(* The invariant, and the theorems it carries.                             *)
(***************************************************************************)
\* The invariant holds before the first command.
LEMMA InitIsSafe == Init => HostInv
<1> SUFFICES ASSUME Init PROVE HostInv
  OBVIOUS
<1> USE DEF Init
<1>1. SourceTypes /\ TargetTypes /\ PlaceTypes /\ JournalTypes /\ EndTypes
  <2>1. SourceTypes /\ TargetTypes
    BY ServesAssumption, ContestedAssumption DEF SourceTypes, TargetTypes, Rows
  <2>2. PlaceTypes /\ EndTypes
    BY ResourcesAssumption, BoundsAssumption DEF PlaceTypes, EndTypes, Labels, NoTargets
  <2>3. JournalTypes
    BY DEF JournalTypes, Journals, NoTargets
  <2> QED
    BY <2>1, <2>2, <2>3
<1>2. TypeOK
  BY <1>1 DEF TypeOK, SourceTypes, TargetTypes, PlaceTypes, JournalTypes, EndTypes
<1>3. TargetsAreTheirs /\ Pointers
  BY DEF TargetsAreTheirs, Live, Pointers, Running, RollingBack, NoTargets
<1>4. ClaimsAreBacked
  BY DEF ClaimsAreBacked, Live
<1>5. CreateLoop /\ UndoLoop /\ Phases
  BY DEF CreateLoop, UndoLoop, Phases, Creating, Undoing, Running, RollingBack
<1>6. HandedOver /\ ReleaseSeen /\ RecordsSurvive
  BY DEF HandedOver, ReleaseSeen, RecordsSurvive
<1>7. EachHeld
  BY DEF EachHeld, Own, CustomHosts
<1> QED
  BY <1>2, <1>3, <1>4, <1>5, <1>6, <1>7 DEF HostInv, PlanInv

\* Every step keeps what holds whenever a target is deployed.
LEMMA PlanKept ==
  ASSUME PlanInv, [Next]_vars
  PROVE  PlanInv'
<1>1. Typed
  BY DEF PlanInv, TypeOK, Typed, SourceTypes, TargetTypes, PlaceTypes, JournalTypes, EndTypes
<1>2. CASE Next
  <2>1. SourceTypes' /\ TargetTypes' /\ PlaceTypes' /\ JournalTypes' /\ EndTypes'
    BY <1>1, <1>2, SourceTypesKept, TargetTypesKept, PlaceTypesKept, JournalTypesKept,
         EndTypesKept
       DEF PlanInv, Typed
  <2>2. TypeOK'
    BY <2>1 DEF TypeOK, SourceTypes, TargetTypes, PlaceTypes, JournalTypes, EndTypes
  <2>3. TargetsAreTheirs' /\ Pointers' /\ ClaimsAreBacked'
    BY <1>1, <1>2, TargetsStep, PointersStep, ClaimsStep DEF PlanInv
  <2>4. CreateLoop' /\ UndoLoop' /\ Phases'
    BY <1>1, <1>2, LoopStep, UndoLoopStep, PhasesStep DEF PlanInv
  <2> QED
    BY <2>2, <2>3, <2>4 DEF PlanInv
<1>3. CASE UNCHANGED vars
  <2> USE <1>3 DEF vars, coolifyVars, processVars, endVars, boundVars, PlanInv
  <2>1. TypeOK'
    BY DEF TypeOK
  <2>2. TargetsAreTheirs'
    BY DEF TargetsAreTheirs, Live
  <2>3. Pointers'
    BY DEF Pointers
  <2>4. ClaimsAreBacked'
    BY DEF ClaimsAreBacked, Live, Claimed
  <2>5. CreateLoop' /\ UndoLoop' /\ Phases'
    BY ZenonT(60) DEF CreateLoop, UndoLoop, Phases, Live, Claimed
  <2> QED
    BY <2>1, <2>2, <2>3, <2>4, <2>5
<1> QED
  BY <1>2, <1>3

\* It holds in every state.
LEMMA PlanHolds == Spec => []PlanInv
<1>1. Init => PlanInv
  BY InitIsSafe DEF HostInv
<1>2. PlanInv /\ [Next]_vars => PlanInv'
  BY PlanKept
<1> QED
  BY <1>1, <1>2, PTL DEF Spec

\* Every step keeps the invariant.
LEMMA InvKept ==
  ASSUME HostInv, [Next]_vars, "before delete" \notin Deploys, "within release" \notin Deploys
  PROVE  HostInv'
<1>1. Typed
  BY DEF HostInv, PlanInv, TypeOK, Typed, SourceTypes, TargetTypes, PlaceTypes, JournalTypes, EndTypes
<1>2. PlanInv'
  BY PlanKept DEF HostInv
<1>3. CASE Next
  <2>1. HandedOver' /\ ReleaseSeen' /\ EachHeld'
    BY <1>1, <1>3, HandedStep, ReleaseSeenStep, HeldStep DEF HostInv, PlanInv
  <2>2. RecordsSurvive'
    BY <1>1, <1>3, RecordsStep DEF HostInv, PlanInv
  <2> QED
    BY <1>2, <2>1, <2>2 DEF HostInv
<1>4. CASE UNCHANGED vars
  <2> USE <1>4 DEF vars, coolifyVars, processVars, endVars, boundVars, HostInv
  <2>1. HandedOver' /\ ReleaseSeen' /\ EachHeld'
    BY DEF HandedOver, ReleaseSeen, EachHeld, Live
  <2>2. RecordsSurvive'
    BY DEF RecordsSurvive
  <2> QED
    BY <1>2, <2>1, <2>2
<1> QED
  BY <1>3, <1>4

\* The invariant holds, if no deploy takes hosts behind the last look.
LEMMA InvHolds ==
  ASSUME "before delete" \notin Deploys, "within release" \notin Deploys
  PROVE  Spec => []HostInv
<1>1. HostInv /\ [Next]_vars => HostInv'
  BY InvKept
<1> QED
  BY InitIsSafe, <1>1, PTL DEF Spec

\* No release job, however late it runs, finds a host without a holder.
THEOREM NoRecordIsDeleted ==
  ASSUME "before delete" \notin Deploys, "within release" \notin Deploys
  PROVE  Spec => []RecordsSurvive
<1>1. HostInv => RecordsSurvive
  BY DEF HostInv, PlanInv
<1> QED
  BY <1>1, InvHolds, PTL

-----------------------------------------------------------------------------
(***************************************************************************)
(* Make before break: every step is one holder's, and a host is let go of  *)
(* over another who holds it.                                              *)
(***************************************************************************)
HoldersAre(sources, targets, strangers) ==
  {<< "source", r >> : r \in sources} \cup {<< "target", t >> : t \in targets}
    \cup {<< "foreign", 0 >> : x \in strangers}

Sources(h) == {s \in Resources : h \in srcHolds[s]}
Takers(h) == {u \in LiveTargets : h \in tgt[u].holds}
Strangers(h) == {y \in {h} : y \in foreign}

AllHolders == {"source", "target", "foreign"} \X (0 .. N + MaxTargets)

\* A host's holders by their kind.
LEMMA HoldersSplit ==
  ASSUME NEW h
  PROVE  HoldersOf(h) = HoldersAre(Sources(h), Takers(h), Strangers(h))
BY DEF HoldersOf, HoldersAre, Sources, Takers, Strangers

\* One more holder of some hosts is a Take.
LEMMA IsTake ==
  ASSUME NEW x \in AllHolders, NEW hosts \in SUBSET Served,
         \A h \in Served : HoldersOf(h)' = IF h \in hosts THEN HoldersOf(h) \cup {x} ELSE HoldersOf(h)
  PROVE  M!HandOverNext
BY DEF M!HandOverNext, M!Take, AllHolders

\* One holder less, of hosts that keep another, is a LetGo.
LEMMA IsLetGo ==
  ASSUME NEW x \in AllHolders, NEW hosts \in SUBSET Served,
         \A h \in hosts : HoldersOf(h) \ {x} # {},
         \A h \in Served : HoldersOf(h)' = IF h \in hosts THEN HoldersOf(h) \ {x} ELSE HoldersOf(h)
  PROVE  M!HandOverNext
BY DEF M!HandOverNext, M!LetGo, AllHolders

Abstractly == [h \in Served |-> HoldersOf(h)]

\* Every host starts with its source.
LEMMA InitHandsOver == Init => M!HandOverInit
<1> SUFFICES ASSUME Init PROVE M!HandOverInit
  OBVIOUS
<1>1. ASSUME NEW h \in Served
      PROVE  HoldersOf(h) \in (SUBSET AllHolders) \ {{}}
  <2>1. PICK r \in Resources : h \in Serves[r]
    BY <1>1 DEF Served, CustomHosts
  <2>2. << "source", r >> \in HoldersOf(h)
    BY <2>1 DEF Init, HoldersOf
  <2>3. ASSUME NEW x \in HoldersOf(h)
        PROVE  x \in AllHolders
    BY <2>3, ResourcesAssumption, BoundsAssumption
       DEF HoldersOf, AllHolders, Resources, LiveTargets, Targets
  <2> QED
    BY <2>2, <2>3
<1> QED
  BY <1>1 DEF M!HandOverInit, AllHolders

\* Every host is held inside the plan.
LEMMA HeldByItsOwn ==
  ASSUME HostInv, NEW h \in Served
  PROVE  \/ \E r \in Resources : h \in srcHolds[r]
         \/ \E t \in Targets : Live(t) /\ h \in tgt[t].holds
<1>1. PICK r \in Resources : h \in Own(r)
  BY DEF Served, Own
<1> QED
  BY <1>1 DEF HostInv, PlanInv, EachHeld

\* Who lets go of a host that a source holds as well leaves a holder.
LEMMA HeldBySource ==
  ASSUME NEW r \in Resources, NEW h \in srcHolds[r], NEW x, x[1] # "source" \/ x[2] # r
  PROVE  HoldersOf(h) \ {x} # {}
<1>1. << "source", r >> \in HoldersOf(h)
  BY DEF HoldersOf
<1>2. << "source", r >>[1] = "source" /\ << "source", r >>[2] = r
  OBVIOUS
<1> QED
  BY <1>1, <1>2

\* Who lets go of a host that a live target holds as well leaves a holder.
LEMMA HeldByTarget ==
  ASSUME NEW t \in Targets, Live(t), NEW h \in tgt[t].holds, NEW x, x[1] # "target" \/ x[2] # t
  PROVE  HoldersOf(h) \ {x} # {}
<1>1. << "target", t >> \in HoldersOf(h)
  BY DEF HoldersOf, LiveTargets, Live
<1>2. << "target", t >>[1] = "target" /\ << "target", t >>[2] = t
  OBVIOUS
<1> QED
  BY <1>1, <1>2

\* What a source takes or lets go of is what its host's holders gain or lose.
LEMMA SourceChange ==
  ASSUME NEW h, NEW x, Takers(h)' = Takers(h), Strangers(h)' = Strangers(h)
  PROVE  /\ Sources(h)' = Sources(h) => HoldersOf(h)' = HoldersOf(h)
         /\ Sources(h)' = Sources(h) \cup {x} => HoldersOf(h)' = HoldersOf(h) \cup {<< "source", x >>}
         /\ Sources(h)' = Sources(h) \ {x} => HoldersOf(h)' = HoldersOf(h) \ {<< "source", x >>}
<1> DEFINE Now == HoldersAre(Sources(h), Takers(h), Strangers(h))
<1>1. HoldersOf(h) = Now
  BY HoldersSplit
<1>2. HoldersOf(h)' = HoldersAre(Sources(h)', Takers(h), Strangers(h))
  BY DEF HoldersOf, HoldersAre, Sources, Takers, Strangers
<1>3. /\ HoldersAre(Sources(h) \cup {x}, Takers(h), Strangers(h)) = Now \cup {<< "source", x >>}
      /\ HoldersAre(Sources(h) \ {x}, Takers(h), Strangers(h)) = Now \ {<< "source", x >>}
  BY DEF HoldersAre
<1> QED
  BY <1>1, <1>2, <1>3, Zenon

\* The same for a target,
LEMMA TargetChange ==
  ASSUME NEW h, NEW x, Sources(h)' = Sources(h), Strangers(h)' = Strangers(h)
  PROVE  /\ Takers(h)' = Takers(h) => HoldersOf(h)' = HoldersOf(h)
         /\ Takers(h)' = Takers(h) \cup {x} => HoldersOf(h)' = HoldersOf(h) \cup {<< "target", x >>}
         /\ Takers(h)' = Takers(h) \ {x} => HoldersOf(h)' = HoldersOf(h) \ {<< "target", x >>}
<1> DEFINE Now == HoldersAre(Sources(h), Takers(h), Strangers(h))
<1>1. HoldersOf(h) = Now
  BY HoldersSplit
<1>2. HoldersOf(h)' = HoldersAre(Sources(h), Takers(h)', Strangers(h))
  BY DEF HoldersOf, HoldersAre, Sources, Takers, Strangers
<1>3. /\ HoldersAre(Sources(h), Takers(h) \cup {x}, Strangers(h)) = Now \cup {<< "target", x >>}
      /\ HoldersAre(Sources(h), Takers(h) \ {x}, Strangers(h)) = Now \ {<< "target", x >>}
  BY DEF HoldersAre
<1> QED
  BY <1>1, <1>2, <1>3, Zenon

\* and for the strangers.
LEMMA StrangersGo ==
  ASSUME NEW h, Sources(h)' = Sources(h), Takers(h)' = Takers(h), Strangers(h)' = {}
  PROVE  HoldersOf(h)' = HoldersOf(h) \ {<< "foreign", 0 >>}
<1> DEFINE Now == HoldersAre(Sources(h), Takers(h), Strangers(h))
<1>1. HoldersOf(h) = Now
  BY HoldersSplit
<1>2. HoldersOf(h)' = HoldersAre(Sources(h), Takers(h), {})
  <2>1. HoldersOf(h)' = HoldersAre(Sources(h)', Takers(h)', Strangers(h)')
    BY DEF HoldersOf, HoldersAre, Sources, Takers, Strangers
  <2> QED
    BY <2>1, Zenon
<1>3. HoldersAre(Sources(h), Takers(h), {}) = Now \ {<< "foreign", 0 >>}
  BY DEF HoldersAre
<1> QED
  BY <1>1, <1>2, <1>3, Zenon

LEMMA StrangersTake ==
  ASSUME NEW h, Sources(h)' = Sources(h), Takers(h)' = Takers(h), Strangers(h)' = {h}
  PROVE  HoldersOf(h)' = HoldersOf(h) \cup {<< "foreign", 0 >>}
<1> DEFINE Now == HoldersAre(Sources(h), Takers(h), Strangers(h))
<1>1. HoldersOf(h) = Now
  BY HoldersSplit
<1>2. HoldersOf(h)' = HoldersAre(Sources(h), Takers(h), {h})
  <2>1. HoldersOf(h)' = HoldersAre(Sources(h)', Takers(h)', Strangers(h)')
    BY DEF HoldersOf, HoldersAre, Sources, Takers, Strangers
  <2> QED
    BY <2>1, Zenon
<1>3. HoldersAre(Sources(h), Takers(h), {h}) = Now \cup {<< "foreign", 0 >>}
  BY DEF HoldersAre, Strangers
<1> QED
  BY <1>1, <1>2, <1>3, Zenon

\* Every step is one holder's Take or LetGo, or changes no holder.
LEMMA StepHandsOver ==
  ASSUME HostInv, Next
  PROVE  M!HandOverNext \/ UNCHANGED Abstractly
<1> USE DEF Live, coolifyVars, processVars, endVars, boundVars
<1>1. Typed
  BY DEF HostInv, PlanInv, TypeOK, Typed, SourceTypes, TargetTypes, PlaceTypes, JournalTypes, EndTypes
<1>2. \A h \in Served : IsCustom(h)
  BY HostTypes DEF CustomHosts
<1>3. ASSUME \A h \in Served : Sources(h)' = Sources(h) /\ Takers(h)' = Takers(h), UNCHANGED foreign
      PROVE  UNCHANGED Abstractly
  <2>1. ASSUME NEW h \in Served
        PROVE  HoldersOf(h)' = HoldersOf(h)
    BY <1>3, <2>1 DEF HoldersOf, Sources, Takers
  <2> QED
    BY <2>1 DEF Abstractly
<1>4. ASSUME UNCHANGED << srcHolds, foreign >>,
             \A t \in Targets : /\ (tgt'[t].row = "live" /\ CustomHosts(tgt'[t].holds) # {})
                                     => tgt'[t] = tgt[t]
                                /\ (Live(t) /\ CustomHosts(tgt[t].holds) # {})
                                     => tgt'[t].row = "live" /\ tgt'[t].holds = tgt[t].holds
      PROVE  UNCHANGED Abstractly
  <2>1. ASSUME NEW h \in Served
        PROVE  Takers(h)' = Takers(h)
    <3>1. ASSUME NEW u \in Targets
          PROVE  (tgt'[u].row = "live" /\ h \in tgt'[u].holds) <=> (tgt[u].row = "live" /\ h \in tgt[u].holds)
      BY <1>2, <1>4, <2>1, <3>1 DEF CustomHosts
    <3> QED
      BY <3>1 DEF Takers, LiveTargets
  <2> QED
    BY <1>3, <1>4, <2>1 DEF Sources
<1>5. ASSUME NEW t \in Targets, NEW hosts \in SUBSET Served, UNCHANGED << srcHolds, foreign >>,
             \A u \in Targets : u # t => tgt'[u] = tgt[u]
      PROVE  /\ \A h \in Served : Sources(h)' = Sources(h) /\ Strangers(h)' = Strangers(h)
             /\ \A h \in Served, u \in Targets : u # t => (u \in Takers(h)' <=> u \in Takers(h))
             /\ << "target", t >> \in AllHolders
  BY <1>5, ResourcesAssumption, BoundsAssumption
     DEF Sources, Strangers, Takers, LiveTargets, AllHolders, Targets
<1>6. ASSUME NEW t \in Targets, NEW hosts \in SUBSET Served, UNCHANGED << srcHolds, foreign >>,
             \A u \in Targets : u # t => tgt'[u] = tgt[u],
             \A h \in Served : t \in Takers(h)' <=> (t \in Takers(h) /\ h \notin hosts),
             \A h \in hosts : \E r \in Resources : h \in srcHolds[r]
      PROVE  M!HandOverNext
  <2>1. ASSUME NEW h \in Served
        PROVE  /\ h \in hosts => Takers(h)' = Takers(h) \ {t}
               /\ h \notin hosts => Takers(h)' = Takers(h)
    <3>1. Takers(h) \subseteq Targets /\ Takers(h)' \subseteq Targets
      BY DEF Takers, LiveTargets
    <3>2. \A u \in Targets : u # t => (u \in Takers(h)' <=> u \in Takers(h))
      BY <1>5, <1>6, <2>1
    <3> QED
      BY <1>6, <2>1, <3>1, <3>2
  <2>2. ASSUME NEW h \in Served
        PROVE  HoldersOf(h)' = IF h \in hosts THEN HoldersOf(h) \ {<< "target", t >>} ELSE HoldersOf(h)
    <3>1. Sources(h)' = Sources(h) /\ Strangers(h)' = Strangers(h)
      BY <1>5, <1>6, <2>2
    <3> QED
      BY <2>1, <2>2, <3>1, TargetChange
  <2>3. ASSUME NEW h \in hosts
        PROVE  HoldersOf(h) \ {<< "target", t >>} # {}
    <3>1. PICK r \in Resources : h \in srcHolds[r]
      BY <1>6, <2>3
    <3> QED
      BY <3>1, HeldBySource
  <2> QED
    BY <1>5, <1>6, <2>2, <2>3, IsLetGo
<1>7. CASE DeployDrops
  <2>1. PICK t \in LiveTargets, hosts \in SUBSET Served :
          /\ hosts \subseteq tgt[t].holds /\ hosts \subseteq srcHolds[tgt[t].of]
          /\ tgt'[t].holds = tgt[t].holds \ hosts
          /\ \A u \in Targets : u # t => tgt'[u] = tgt[u]
          /\ \A u \in Targets : tgt'[u].of = tgt[u].of /\ tgt'[u].row = tgt[u].row
          /\ UNCHANGED << srcHolds, foreign >>
    BY <1>1, <1>7, DropsOneTarget DEF Typed
  <2>2. t \in Targets /\ tgt[t].of \in Resources
    BY DEF LiveTargets, HostInv, PlanInv, TargetsAreTheirs
  <2>3. \A h \in Served : t \in Takers(h)' <=> (t \in Takers(h) /\ h \notin hosts)
    BY <2>1, <2>2 DEF Takers, LiveTargets
  <2> QED
    BY <1>6, <2>1, <2>2, <2>3
<1>8. CASE StrangerActs
  <2>1. PICK h \in Served : /\ foreign' = foreign \ {h} \/ foreign' = foreign \cup {h}
                            /\ UNCHANGED << srcHolds, tgt >>
    BY <1>8, ContestedAssumption DEF StrangerActs
  <2>2. \A g \in Served : Sources(g)' = Sources(g) /\ Takers(g)' = Takers(g)
    BY <2>1 DEF Sources, Takers, LiveTargets
  <2>5. << "foreign", 0 >> \in AllHolders
    BY ResourcesAssumption, BoundsAssumption DEF AllHolders
  <2>6. CASE foreign' = foreign \cup {h}
    <3>1. ASSUME NEW g \in Served
          PROVE  HoldersOf(g)' = IF g \in {h} THEN HoldersOf(g) \cup {<< "foreign", 0 >>} ELSE HoldersOf(g)
      <4>1. Sources(g)' = Sources(g) /\ Takers(g)' = Takers(g)
        BY <2>2
      <4>2. Strangers(g)' = IF g = h THEN {h} ELSE Strangers(g)
        BY <2>6 DEF Strangers
      <4>3. CASE g = h
        BY <4>1, <4>2, <4>3, StrangersTake
      <4>4. CASE g # h
        BY <4>1, <4>2, <4>4, TargetChange
      <4> QED
        BY <4>3, <4>4
    <3> QED
      BY <2>5, <3>1, IsTake, ZenonT(60)
  <2>7. CASE foreign' = foreign \ {h}
    <3>1. ASSUME NEW g \in Served
          PROVE  HoldersOf(g)' = IF g \in {h} THEN HoldersOf(g) \ {<< "foreign", 0 >>} ELSE HoldersOf(g)
      <4>1. Sources(g)' = Sources(g) /\ Takers(g)' = Takers(g)
        BY <2>2
      <4>2. Strangers(g)' = IF g = h THEN {} ELSE Strangers(g)
        BY <2>7 DEF Strangers
      <4>3. CASE g = h
        BY <4>1, <4>2, <4>3, StrangersGo
      <4>4. CASE g # h
        BY <4>1, <4>2, <4>4, TargetChange
      <4> QED
        BY <4>3, <4>4
    <3>2. HoldersOf(h) \ {<< "foreign", 0 >>} # {}
      <4>1. CASE \E r \in Resources : h \in srcHolds[r]
        BY <4>1, HeldBySource
      <4>2. CASE \E t \in Targets : Live(t) /\ h \in tgt[t].holds
        BY <4>2, HeldByTarget DEF Live
      <4> QED
        BY <4>1, <4>2, HeldByItsOwn
    <3> QED
      BY <2>5, <3>1, <3>2, IsLetGo, ZenonT(60)
  <2> QED
    BY <2>1, <2>6, <2>7
<1>9. CASE RunDeleteJob
  BY <1>1, <1>4, <1>9, DeletesOneRow DEF Typed
<1>10. CASE CreateResource
  <2>1. PICK t \in Targets : /\ tgt[t].row = "none" /\ CustomHosts(tgt'[t].holds) = {}
                             /\ \A u \in Targets : u # t => tgt'[u] = tgt[u]
                             /\ UNCHANGED << srcHolds, foreign >>
    BY <1>1, <1>10, CreatesOneTarget DEF Typed, HostInv, PlanInv
  <2> QED
    BY <1>4, <2>1
<1>11. CASE Claim
  <2> DEFINE t == made[at]
             hosts == CustomHosts(tgt'[t].holds)
  <2>1. /\ at \in Resources /\ t \in Targets /\ Claimed(t) = {} /\ Live(t)
        /\ \A u \in Targets : u # t => tgt'[u] = tgt[u]
        /\ tgt'[t].row = "live" /\ hosts \subseteq Own(at)
        /\ UNCHANGED << srcHolds, foreign >>
    BY <1>1, <1>11, ClaimsOneTarget DEF Typed, HostInv, PlanInv
  <2>2. hosts \in SUBSET Served
    BY <2>1, HostTypes
  <2>3. ASSUME NEW h \in Served
        PROVE  /\ h \in hosts => Takers(h)' = Takers(h) \cup {t}
               /\ h \notin hosts => Takers(h)' = Takers(h)
    <3>1. t \notin Takers(h) /\ (t \in Takers(h)' <=> h \in hosts)
      BY <1>2, <2>1, <2>3 DEF Takers, LiveTargets, Claimed, CustomHosts
    <3>2. Takers(h) \subseteq Targets /\ Takers(h)' \subseteq Targets
      BY DEF Takers, LiveTargets
    <3>3. \A u \in Targets : u # t => (u \in Takers(h)' <=> u \in Takers(h))
      BY <1>5, <2>1, <2>2, <2>3
    <3> QED
      BY <2>1, <3>1, <3>2, <3>3
  <2>4. ASSUME NEW h \in Served
        PROVE  HoldersOf(h)' = IF h \in hosts THEN HoldersOf(h) \cup {<< "target", t >>} ELSE HoldersOf(h)
    <3>1. Sources(h)' = Sources(h) /\ Strangers(h)' = Strangers(h)
      BY <2>1 DEF Sources, Strangers
    <3> QED
      BY <2>3, <2>4, <3>1, TargetChange
  <2> QED
    BY <1>5, <2>1, <2>2, <2>4, IsTake
<1>12. CASE UndoDelete
  <2>1. CASE made[at] \in Targets /\ MayDelete(at) /\ DeleteTarget(made[at]) /\ Live(made[at])
    <3> DEFINE t == made[at]
    <3>1. /\ at \in Resources /\ UNCHANGED << srcHolds, foreign >> /\ t # None
          /\ \A u \in Targets : u # t => tgt'[u] = tgt[u]
          /\ tgt'[t].row \in {"deleting", "gone"}
      BY <1>1, <1>12, <2>1, UndoDeletesOneTarget DEF Typed, DeleteTarget, TargetTypes, Rows,
           Targets, None
    <3>2. Claimed(t) \subseteq Served
      BY <1>1, <2>1, HostTypes DEF Typed, TargetTypes, Rows, Claimed, CustomHosts
    <3>3. ASSUME NEW h \in Claimed(t)
          PROVE  h \in srcHolds[at]
      <4>1. PICK r \in Resources : tgt[t].of = r /\ Claimed(t) \subseteq Serves[r] /\ journal.parked[r] = Serves[r]
        BY <2>1, <3>3 DEF HostInv, PlanInv, ClaimsAreBacked
      <4>2. r = at
        BY <3>1, <4>1 DEF HostInv, PlanInv, TargetsAreTheirs
      <4>3. h \in CustomHosts(journal.parked[at])
        BY <3>3, <4>1, <4>2 DEF Claimed, CustomHosts
      <4> QED
        BY <2>1, <4>3 DEF MayDelete, NotHeld
    <3>4. \A h \in Served : t \in Takers(h)' <=> (t \in Takers(h) /\ h \notin Claimed(t))
      BY <1>2, <3>1 DEF Takers, LiveTargets, Claimed, CustomHosts
    <3> QED
      BY <1>6, <2>1, <3>1, <3>2, <3>3, <3>4
  <2>2. CASE \A u \in Targets : (~Live(u) /\ tgt'[u].row # "live") \/ tgt'[u] = tgt[u]
    BY <1>1, <1>4, <1>12, <2>2, UndoDeletesOneTarget DEF Typed
  <2>3. \A u \in Targets : tgt'[u] = tgt[u] \/ (u = made[at] /\ tgt'[u].row # "live")
    BY <1>1, <1>12, UndoDeletesOneTarget DEF Typed
  <2> QED
    BY <1>1, <1>12, <2>1, <2>2, <2>3, UndoDeletesOneTarget DEF Typed
<1>13. ASSUME NEW r \in Resources, UNCHANGED << tgt, foreign >>,
              \A s \in Resources : s # r => srcHolds'[s] = srcHolds[s]
       PROVE  /\ \A h \in Served : Takers(h)' = Takers(h) /\ Strangers(h)' = Strangers(h)
              /\ \A h \in Served : Sources(h)' = IF h \in srcHolds'[r] THEN Sources(h) \cup {r}
                                                                      ELSE Sources(h) \ {r}
              /\ << "source", r >> \in AllHolders
  <2>1. << "source", r >> \in AllHolders
    BY <1>13, ResourcesAssumption, BoundsAssumption DEF AllHolders, Resources
  <2> QED
    BY <1>13, <2>1 DEF Sources, Strangers, Takers, LiveTargets
<1>14. CASE UndoRestore
  <2>1. at \in Resources /\ UNCHANGED << tgt, foreign >>
    BY <1>1, <1>14, RestoreMoves DEF Typed, HostInv, PlanInv
  <2>2. CASE UNCHANGED srcHolds
    BY <1>3, <2>1, <2>2 DEF Sources, Takers, LiveTargets
  <2>3. CASE srcHolds' = [srcHolds EXCEPT ![at] = Serves[at]]
    <3>1. srcHolds'[at] = Serves[at] /\ \A s \in Resources : s # at => srcHolds'[s] = srcHolds[s]
      BY <1>1, <2>1, <2>3 DEF Typed, SourceTypes
    <3>2. Own(at) \in SUBSET Served
      BY <2>1, HostTypes
    <3>3. ASSUME NEW h \in Served
          PROVE  /\ h \in Own(at) => Sources(h)' = Sources(h) \cup {at}
                 /\ h \notin Own(at) => Sources(h)' = Sources(h)
      <4>1. h \in Own(at) <=> h \in Serves[at]
        BY <1>2, <3>3 DEF Own, CustomHosts
      <4>2. h \notin Serves[at] => at \notin Sources(h)
        BY <2>1 DEF Sources, HostInv, PlanInv, ClaimsAreBacked
      <4>3. Sources(h)' = IF h \in srcHolds'[at] THEN Sources(h) \cup {at} ELSE Sources(h) \ {at}
        BY <1>13, <2>1, <3>1, <3>3
      <4> QED
        BY <3>1, <4>1, <4>2, <4>3
    <3>4. ASSUME NEW h \in Served
          PROVE  HoldersOf(h)' = IF h \in Own(at) THEN HoldersOf(h) \cup {<< "source", at >>} ELSE HoldersOf(h)
      <4>1. Takers(h)' = Takers(h) /\ Strangers(h)' = Strangers(h)
        BY <2>1 DEF Takers, Strangers, LiveTargets
      <4> QED
        BY <3>3, <3>4, <4>1, SourceChange
    <3> QED
      BY <1>13, <2>1, <3>1, <3>2, <3>4, IsTake, ZenonT(60)
  <2> QED
    BY <1>1, <1>14, <2>2, <2>3, RestoreWrites DEF Typed, HostInv, PlanInv
<1>15. ASSUME NEW r \in Resources, UNCHANGED << tgt, foreign >>,
              \A s \in Resources : s # r => srcHolds'[s] = srcHolds[s],
              CustomHosts(srcHolds'[r]) = {},
              NEW t \in Targets, Live(t), CustomHosts(srcHolds[r]) \subseteq tgt[t].holds
       PROVE  M!HandOverNext
  <2> DEFINE hosts == CustomHosts(srcHolds[r])
  <2>1. hosts \in SUBSET Served
    BY <1>1, <1>15, HostTypes DEF Typed, SourceTypes, CustomHosts
  <2>2. ASSUME NEW h \in Served
        PROVE  /\ h \in hosts => Sources(h)' = Sources(h) \ {r}
               /\ h \notin hosts => Sources(h)' = Sources(h)
    <3>1. h \notin srcHolds'[r]
      BY <1>2, <1>15, <2>2 DEF CustomHosts
    <3>2. h \notin hosts => r \notin Sources(h)
      BY <1>2, <2>2 DEF Sources, CustomHosts
    <3>3. Sources(h)' = IF h \in srcHolds'[r] THEN Sources(h) \cup {r} ELSE Sources(h) \ {r}
      BY <1>13, <1>15, <2>2
    <3> QED
      BY <3>1, <3>2, <3>3
  <2>3. ASSUME NEW h \in Served
        PROVE  HoldersOf(h)' = IF h \in hosts THEN HoldersOf(h) \ {<< "source", r >>} ELSE HoldersOf(h)
    <3>1. Takers(h)' = Takers(h) /\ Strangers(h)' = Strangers(h)
      BY <1>15 DEF Takers, Strangers, LiveTargets
    <3> QED
      BY <2>2, <2>3, <3>1, SourceChange
  <2>4. ASSUME NEW h \in hosts
        PROVE  HoldersOf(h) \ {<< "source", r >>} # {}
    <3>1. h \in tgt[t].holds /\ << "source", r >>[1] # "target"
      BY <1>15, <2>4
    <3> QED
      BY <1>15, <3>1, HeldByTarget DEF Live
  <2>5. << "source", r >> \in AllHolders
    BY <1>13, <1>15
  <2> QED
    BY <2>1, <2>3, <2>4, <2>5, IsLetGo
<1>16. CASE DeleteSource
  <2>1. at \in Resources /\ UNCHANGED << tgt, foreign >> /\ pc = "finalize"
    BY <1>1, <1>16, ResourcesAssumption DEF DeleteSource, Typed, PlaceTypes, Resources
  <2>2. srcHolds'[at] = {} /\ \A r \in Resources : r # at => srcHolds'[r] = srcHolds[r]
    BY <1>1, <1>16, <2>1 DEF DeleteSource, Typed, SourceTypes
  <2>3. journal.created /\ ~journal.undo /\ setup.policy = "delete"
    BY <2>1 DEF HostInv, PlanInv, Phases, Running
  <2>4. journal.targets[at] \in Targets /\ Live(journal.targets[at])
        /\ Own(at) \subseteq tgt[journal.targets[at]].holds
    BY <1>1, <2>1, <2>3 DEF HostInv, PlanInv, HandedOver, Typed, JournalTypes, Journals
  <2>5. CustomHosts(srcHolds[at]) \subseteq Own(at)
    BY <2>1 DEF HostInv, PlanInv, ClaimsAreBacked, CustomHosts, Own
  <2>6. CustomHosts(srcHolds'[at]) = {}
    BY <2>2 DEF CustomHosts
  <2> QED
    BY <1>15, <2>1, <2>2, <2>4, <2>5, <2>6
<1>17. CASE ReleaseSource
  <2>1. at \in Resources /\ UNCHANGED << tgt, foreign >> /\ pc = "release"
    BY <1>1, <1>17, InLoop DEF ReleaseSource, Typed, HostInv, PlanInv
  <2>2. CASE UNCHANGED srcHolds
    BY <1>3, <2>1, <2>2 DEF Sources, Takers, LiveTargets
  <2>3. CASE srcHolds' = [srcHolds EXCEPT ![at] = WithoutCustom(@)]
    <3>1. /\ srcHolds'[at] = WithoutCustom(srcHolds[at])
          /\ \A r \in Resources : r # at => srcHolds'[r] = srcHolds[r]
      BY <1>1, <2>1, <2>3 DEF Typed, SourceTypes
    <3>2. CustomHosts(srcHolds'[at]) = {}
      BY <3>1, HostFacts
    <3>3. journal.created /\ ~journal.undo /\ journal.targets[at] = made[at]
      BY <2>1 DEF HostInv, PlanInv, Phases, Running, Pointers
    <3>4. made[at] \in Targets /\ Live(made[at])
      BY <1>1, <2>1, <3>3 DEF HostInv, PlanInv, HandedOver, Typed, PlaceTypes
    <3>5. CustomHosts(srcHolds[at]) \subseteq tgt[made[at]].holds
      BY <2>1 DEF HostInv, PlanInv, ReleaseSeen
    <3> QED
      BY <1>15, <2>1, <3>1, <3>2, <3>4, <3>5
  <2> QED
    BY <1>17, <2>2, <2>3 DEF ReleaseSource
<1>18. CASE RunReleaseJob \/ RunOrResume \/ Rollback \/ Crash \/ Raises \/ Park 
           \/ RecordTarget \/ CreateCompletes \/ UndoLoopEnds \/ FreshAttempt \/ CreateFailed
           \/ \/ RolledBack \/ StepRaises \/ Blocked \/ StartFinalize \/ DeleteFails 
           \/ LookAtTarget \/ Succeeds
  <2>1. UNCHANGED << srcHolds, tgt, foreign >>
    BY <1>18 DEF RunReleaseJob, RunOrResume, Rollback, Crash, Raises, Park, RecordTarget,
         CreateCompletes,
     UndoLoopEnds, FreshAttempt, CreateFailed, RolledBack, StepRaises, Blocked, StartFinalize,
     DeleteFails, LookAtTarget, Succeeds, Command
  <2> QED
    BY <1>3, <2>1 DEF Sources, Takers, LiveTargets
<1> QED
  BY <1>7, <1>8, <1>9, <1>10, <1>11, <1>12, <1>14, <1>16, <1>17, <1>18 DEF Next

\* domain/domains.py's make before break: whatever crashes, undoes and deploys
\* there are, the hand-over implements the abstract one.
THEOREM HandsOverAsPromised ==
  ASSUME "before delete" \notin Deploys, "within release" \notin Deploys
  PROVE  Spec => MakeBeforeBreak
<1>1. HostInv /\ [Next]_vars => [M!HandOverNext]_Abstractly
  <2>1. ASSUME UNCHANGED vars
        PROVE  UNCHANGED Abstractly
    BY <2>1 DEF vars, coolifyVars, Abstractly, HoldersOf, LiveTargets
  <2> QED
    BY <2>1, StepHandsOver
<1>2. HostInv /\ [Next]_vars => [M!HandOverNext]_([h \in Served |-> HoldersOf(h)])
  BY <1>1 DEF Abstractly
<1> QED
  BY <1>2, InitHandsOver, InvHolds, PTL DEF Spec, MakeBeforeBreak, M!HandOverSpec

-----------------------------------------------------------------------------
(***************************************************************************)
(* What targets hold.                                                      *)
(***************************************************************************)
NoneToSource == \A t \in Targets : \A h \in tgt[t].holds : h.on # "source"

\* No host that a target is created with or claims is bound to the source.
LEMMA ValuesStayOff ==
  ASSUME NEW r \in Resources, NEW w
  PROVE  /\ \A h \in ClaimValue(Serves[r], w) : h.on # "source"
         /\ \A h \in Autogenerated(CreateValue(Serves[r], w)) : h.on # "source"
<1>1. ASSUME NEW name
      PROVE  Wildcard(name, "target").on = "target" /\ Generated(name, "target").on = "target"
  BY DEF Wildcard, Generated
<1>2. \A h \in Own(r) : h.on # "source"
  BY HostTypes, ServesAssumption
<1>3. ASSUME NEW value, NEW h \in RemapDomains(value, w)
      PROVE  h \in CustomHosts(value) \/ h.on = "target"
  BY <1>1, <1>3 DEF RemapDomains
<1>4. /\ CustomHosts(WithoutGenerated(Serves[r])) \subseteq Own(r)
      /\ CustomHosts(WithoutCustom(WithoutGenerated(Serves[r]))) \subseteq Own(r)
  BY DEF CustomHosts, WithoutGenerated, WithoutCustom, Own
<1> QED
  BY <1>1, <1>2, <1>3, <1>4 DEF ClaimValue, CreateValue, Autogenerated

\* No step gives a target a host bound to the source.
LEMMA NoneToSourceStep ==
  ASSUME PlanInv, NoneToSource, Next
  PROVE  NoneToSource'
<1> USE DEF NoneToSource, coolifyVars, processVars, endVars, boundVars
<1>1. TargetTypes /\ PlaceTypes /\ CreateLoop
  BY DEF PlanInv, TypeOK, TargetTypes, PlaceTypes
<1>2. CASE DeployDrops
  <2>1. \A u \in Targets : tgt'[u].holds \subseteq tgt[u].holds
    BY <1>1, <1>2, DropsOneTarget
  <2> QED
    BY <2>1
<1>3. CASE RunDeleteJob
  BY <1>1, <1>3, DeletesOneRow
<1>4. CASE CreateResource
  <2>1. PICK t \in Targets :
          /\ at \in Resources
          /\ tgt'[t] = [of |-> at, row |-> "live",
                        holds |-> Autogenerated(CreateValue(Serves[at], setup.wildcard))]
          /\ \A u \in Targets : u # t => tgt'[u] = tgt[u]
    BY <1>1, <1>4, CreatesOneTarget
  <2>2. tgt'[t].holds = Autogenerated(CreateValue(Serves[at], setup.wildcard))
    BY <2>1
  <2> QED
    BY <2>1, <2>2, ValuesStayOff
<1>5. CASE Claim
  <2>1. at \in Resources /\ made[at] \in Targets /\ \A u \in Targets : u # made[at] => tgt'[u] = tgt[u]
    BY <1>1, <1>5, ClaimsOneTarget
  <2>2. UNCHANGED tgt \/ \E kept \in SUBSET ClaimValue(Serves[at], setup.wildcard) :
                            tgt' = [tgt EXCEPT ![made[at]].holds = kept]
    BY <1>5 DEF Claim,
       AskClaim, ForceClaim, WriteClaim, GoOn
  <2>3. UNCHANGED tgt \/ tgt'[made[at]].holds \subseteq ClaimValue(Serves[at], setup.wildcard)
    BY <1>1, <2>1, <2>2 DEF TargetTypes, Rows
  <2> QED
    BY <2>1, <2>3, ValuesStayOff
<1>6. CASE UndoDelete
  <2>1. \A u \in Targets : tgt'[u].holds = tgt[u].holds
    BY <1>1, <1>6 DEF UndoDelete, DeleteMade, DeleteTarget, TargetTypes, Rows
  <2> QED
    BY <2>1
<1>7. CASE RunReleaseJob \/ StrangerActs \/ RunOrResume \/ Rollback \/ Crash \/ Raises 
           \/ Park \/ RecordTarget \/ CreateCompletes \/ UndoRestore \/ UndoLoopEnds 
           \/ FreshAttempt \/ CreateFailed \/ RolledBack \/ StepRaises \/ Blocked 
           \/ StartFinalize \/ DeleteSource \/ DeleteFails \/ LookAtTarget \/ ReleaseSource 
           \/ Succeeds
  <2>1. UNCHANGED tgt
    BY <1>7 DEF RunReleaseJob, StrangerActs, RunOrResume, Rollback, Crash, Raises, Park,
         RecordTarget,
     CreateCompletes, UndoRestore, UndoLoopEnds, FreshAttempt, CreateFailed, RolledBack,
     StepRaises, Blocked, StartFinalize, DeleteSource, DeleteFails, LookAtTarget,
     ReleaseSource, Succeeds, Command,
       AskRestore, ForceRestore, RestoreOne, GivesBack, GoOn, Failed
  <2> QED
    BY <2>1
<1> QED
  BY <1>2, <1>3, <1>4, <1>5, <1>6, <1>7 DEF Next

\* The two-phase claim leaves nothing behind: a target that no record names has
\* claimed no host, and no target routes to the source's server.
THEOREM TargetsAreHarmless == Spec => []TargetsHoldTheirOwn
<1>1. Init => NoneToSource
  <2>1. ASSUME Init, NEW t \in Targets
        PROVE  tgt[t].holds = {}
    BY <2>1 DEF Init
  <2> QED
    BY <2>1 DEF NoneToSource
<1>2. PlanInv /\ NoneToSource /\ [Next]_vars => NoneToSource'
  <2>1. ASSUME NoneToSource, UNCHANGED vars
        PROVE  NoneToSource'
    BY <2>1 DEF NoneToSource, vars, coolifyVars
  <2> QED
    BY <2>1, NoneToSourceStep
<1>3. PlanInv /\ NoneToSource => TargetsHoldTheirOwn
  <2> SUFFICES ASSUME PlanInv, NoneToSource PROVE TargetsHoldTheirOwn
    OBVIOUS
  <2>1. TypeOK
    BY DEF PlanInv
  <2>2. UnknownTargetsHoldNothing
    BY DEF PlanInv, ClaimsAreBacked, UnknownTargetsHoldNothing, LiveTargets, Live, Claimed
  <2>3. TargetNeverRoutesToSource
    BY DEF NoneToSource, TargetNeverRoutesToSource, LiveTargets
  <2> QED
    BY <2>1, <2>2, <2>3 DEF TargetsHoldTheirOwn
<1> QED
  BY <1>1, <1>2, <1>3, PlanHolds, PTL DEF Spec

-----------------------------------------------------------------------------
(***************************************************************************)
(* What a run or a rollback leaves when it has ended.                      *)
(***************************************************************************)
Whole(r) == srcHolds[r] = Serves[r]
Gone(r) == made[r] = None \/ ~Live(made[r])

\* Before CREATE has completed no source has lost a host, and from then on the
\* journal has what gives every source its hosts back.
SourcesAreParked ==
  /\ ~journal.created => \A r \in Resources : Whole(r)
  /\ journal.created => \A r \in Resources : journal.parked[r] = Serves[r]
  /\ pc \in Creating => \A r \in Resources : r < at => journal.parked[r] = Serves[r]

\* An undo that failed at nothing has done what is behind it.
UndoIsDone ==
  error # "undo" =>
    /\ pc \in {"undo_delete", "rb_delete"} => \A r \in Resources : r < at => Gone(r)
    /\ pc \in {"undo_restore", "undo_force", "undo_done", "rb_done"} => \A r \in Resources : Gone(r)
    /\ pc \in {"rb_restore", "rb_force"} /\ ~journal.stopped => \A r \in Resources : Gone(r)
    /\ pc \in {"rb_restore", "rb_force"} => \A r \in Resources : r < at => Whole(r)
    /\ pc = "rb_done" => \A r \in Resources : Whole(r)
    /\ pc = "rb_delete" /\ journal.stopped => \A r \in Resources : Whole(r)

OutcomeComesLast == pc # "idle" => outcome = "none"

\* Each source behind the look is named, or has let go.
LooksAreDone ==
  pc \in {"look", "release"} =>
    \A r \in Resources \ noticed : r < at => CustomHosts(srcHolds[r]) = {}

\* Coolify and the strangers leave the process, the journal and the sources alone.
Outside == RunReleaseJob \/ RunDeleteJob \/ DeployDrops \/ StrangerActs

LEMMA OutsideLeaves ==
  ASSUME TargetTypes, Outside
  PROVE  /\ UNCHANGED << srcHolds, journal, processVars, endVars, boundVars >>
         /\ \A t \in Targets : tgt'[t].row = "live" => Live(t)
<1>1. CASE DeployDrops
  BY <1>1, DropsOneTarget DEF Live
<1>2. CASE RunDeleteJob
  BY <1>2, DeletesOneRow DEF Live
<1>3. CASE RunReleaseJob \/ StrangerActs
  BY <1>3 DEF RunReleaseJob, StrangerActs, Live
<1> QED
  BY <1>1, <1>2, <1>3 DEF Outside

\* Where the loops of an undo lead.
LEMMA UndoGoesOn ==
  ASSUME UndoLoopEnds
  PROVE  /\ at = N + 1 /\ at' = 1
         /\ \/ pc = "undo_delete" /\ pc' = "undo_restore"
            \/ pc = "undo_restore" /\ pc' = "undo_done"
            \/ pc = "rb_delete" /\ journal.stopped /\ pc' = "rb_done"
            \/ pc = "rb_delete" /\ ~journal.stopped /\ pc' = "rb_restore"
            \/ pc = "rb_restore" /\ journal.stopped /\ pc' = "rb_delete"
            \/ pc = "rb_restore" /\ ~journal.stopped /\ pc' = "rb_done"
         /\ UNCHANGED << srcHolds, tgt, journal, made, error, outcome >>
BY DEF UndoLoopEnds, Goto, UndoNext, coolifyVars, endVars

\* What an undo has deleted stays deleted, and it deletes the target at hand or fails.
LEMMA DeletesOrFails ==
  ASSUME TargetTypes, PlaceTypes, UndoDelete
  PROVE  /\ error' # "undo" => error # "undo" /\ (made[at] = None \/ tgt'[made[at]].row # "live")
         /\ \A r \in Resources : Gone(r) => made[r] = None \/ tgt'[made[r]].row # "live"
<1> DEFINE t == made[at]
<1>1. \A r \in Resources : made[r] = None \/ made[r] \in Targets
  BY DEF PlaceTypes
<1>2. \/ /\ tgt'[t].row \in {"deleting", "gone"} /\ error' = error
         /\ \A u \in Targets : u # t => tgt'[u] = tgt[u]
      \/ tgt' = tgt /\ error' = "undo"
      \/ tgt' = tgt /\ error' = error /\ (t = None \/ tgt[t].row \in {"deleting", "gone"})
  <2>1. \/ made[at] \in Targets /\ tgt'[made[at]].row \in {"deleting", "gone"}
           /\ (\A u \in Targets : u # made[at] => tgt'[u] = tgt[u]) /\ error' = error
        \/ UNCHANGED << tgt, jobs >> /\ error' = "undo"
        \/ UNCHANGED << tgt, jobs, error >>
           /\ (made[at] = None \/ tgt[made[at]].row \in {"deleting", "gone"})
    BY UndoDeletesOneTarget
  <2> QED
    BY <2>1
<1>3. error' # "undo" => error # "undo" /\ (t = None \/ tgt'[t].row # "live")
  BY <1>2
<1>4. \A u \in Targets : tgt'[u] = tgt[u] \/ tgt'[u].row # "live"
  BY <1>2
<1> QED
  BY <1>1, <1>3, <1>4 DEF Gone, Live

\* Restoring makes a source whole, unless it fails.
LEMMA RestoresOneSource ==
  ASSUME Typed, CreateLoop, ClaimsAreBacked, SourcesAreParked, UndoRestore
  PROVE  /\ \A r \in Resources : Whole(r) => srcHolds'[r] = Serves[r]
         /\ error' # "undo" => error # "undo" /\ (at' # at => srcHolds'[at] = Serves[at])
<1>1. at \in Resources /\ srcHolds \in [Resources -> SUBSET AllHosts]
  BY RestoreMoves DEF Typed, SourceTypes
<1>2. journal.parked[at] = {} => srcHolds[at] = Serves[at]
  BY <1>1 DEF SourcesAreParked, ClaimsAreBacked, Whole
<1>3. CASE UNCHANGED << srcHolds, error >> /\ (at' = at \/ srcHolds[at] = Serves[at])
  BY <1>1, <1>3 DEF Whole
<1>4. CASE srcHolds' = [srcHolds EXCEPT ![at] = Serves[at]] /\ UNCHANGED error
  BY <1>1, <1>4 DEF Whole
<1>5. CASE error' = "undo" /\ UNCHANGED srcHolds
  BY <1>5 DEF Whole
<1> QED
  BY <1>2, <1>3, <1>4, <1>5, RestoreWrites DEF Typed

\* Only FINALIZE takes hosts from a source, and CREATE has parked them by then.
LEMMA ParkedStep ==
  ASSUME Typed, Phases, CreateLoop, ClaimsAreBacked, SourcesAreParked, Next
  PROVE  SourcesAreParked'
<1> USE DEF Typed, PlaceTypes, coolifyVars, processVars, endVars, boundVars
<1>1. CASE Outside
  BY <1>1, OutsideLeaves DEF SourcesAreParked, Whole
<1>2. CASE Rollback \/ Crash \/ Raises \/ UndoDelete \/ UndoLoopEnds \/ CreateFailed \/ RolledBack
           \/ StepRaises \/ Blocked \/ StartFinalize \/ DeleteFails \/ LookAtTarget \/ Succeeds
  <2>1. /\ UNCHANGED srcHolds /\ journal'.created = journal.created
        /\ journal'.parked = journal.parked
    BY <1>2 DEF Rollback, Crash, Raises, UndoDelete, DeleteMade, UndoLoopEnds, CreateFailed,
         RolledBack, StepRaises, Blocked, StartFinalize, DeleteFails, LookAtTarget, Succeeds,
         Command, JournalTypes, Journals
  <2>2. pc' \notin Creating
    <3>1. CASE UndoLoopEnds
      BY <3>1, UndoGoesOn DEF Creating
    <3>2. CASE UndoDelete
      BY <3>2, UndoDeletesOneTarget DEF Creating
    <3> QED
      BY <1>2, <3>1, <3>2 DEF Rollback, Crash, Raises, CreateFailed, RolledBack, StepRaises,
           Blocked, StartFinalize, DeleteFails, LookAtTarget, Succeeds, Goto, End, GoOn,
           FirstUndo, Creating
  <2> QED
    BY <2>1, <2>2 DEF SourcesAreParked, Whole
<1>3. CASE RunOrResume \/ CreateResource \/ RecordTarget
  <2>1. /\ UNCHANGED srcHolds /\ journal'.created = journal.created
        /\ journal'.parked = journal.parked
    BY <1>3 DEF RunOrResume, StartCreate, CreateResource, RecordTarget, Command, JournalTypes,
         Journals
  <2>2. pc' \in Creating => (pc \in Creating /\ at' = at) \/ at' = 1
    BY <1>3 DEF RunOrResume, StartCreate, CreateResource, RecordTarget, Goto, Creating
  <2>3. \A r \in Resources : ~(r < 1)
    BY DEF Resources
  <2> QED
    BY <2>1, <2>2, <2>3 DEF SourcesAreParked, Whole
<1>4. CASE Park
  <2>1. at \in Resources /\ pc \in Creating /\ UNCHANGED << srcHolds, at >>
    BY <1>4, InLoop DEF Park, Creating
  <2>2. /\ journal'.created = journal.created
        /\ \A r \in Resources : r < at => journal'.parked[r] = journal.parked[r]
    BY <1>4, <2>1 DEF Park, JournalTypes, Journals, Resources
  <2>3. ~journal.created
    BY <2>1 DEF Phases
  <2> QED
    BY <2>1, <2>2, <2>3 DEF SourcesAreParked, Whole
<1>5. CASE Claim
  <2>1. /\ at \in Resources /\ pc \in {"claim", "force"} /\ UNCHANGED << srcHolds, journal >>
        /\ at' = at + 1 \/ pc' = "undo_delete" \/ at' = at
    BY <1>5, ClaimsOneTarget
  <2>2. journal.parked[at] = Serves[at] /\ ~journal.created
    BY <2>1 DEF CreateLoop, Phases, Creating
  <2>3. \A r \in Resources : r < at + 1 => r < at \/ r = at
    BY <2>1 DEF Resources
  <2> QED
    BY <2>1, <2>2, <2>3 DEF SourcesAreParked, Whole, Creating
<1>6. CASE CreateCompletes
  <2>1. /\ pc = "baseline" /\ pc' = "middle" /\ UNCHANGED srcHolds
        /\ journal'.created /\ journal'.parked = journal.parked
    BY <1>6 DEF CreateCompletes, Goto, JournalTypes, Journals
  <2>2. \A r \in Resources : r < at
    BY <2>1, InLoop
  <2> QED
    BY <2>1, <2>2 DEF SourcesAreParked, Whole, Creating
<1>7. CASE FreshAttempt
  <2>1. /\ pc = "undo_done" /\ at' = 1 /\ UNCHANGED srcHolds
        /\ journal'.created = journal.created
    BY <1>7 DEF FreshAttempt, Goto, JournalTypes, Journals
  <2>2. ~journal.created
    BY <2>1 DEF Phases, Undoing
  <2>3. \A r \in Resources : ~(r < 1)
    BY DEF Resources
  <2> QED
    BY <2>1, <2>2, <2>3 DEF SourcesAreParked, Whole
<1>8. CASE UndoRestore
  <2>1. pc' \notin Creating /\ UNCHANGED journal
    BY <1>8, RestoreMoves DEF Creating
  <2> QED
    BY <1>8, <2>1, RestoresOneSource DEF SourcesAreParked, Whole
<1>9. CASE DeleteSource \/ ReleaseSource
  <2>1. pc \in Running /\ pc' \notin Creating /\ UNCHANGED journal
    BY <1>9 DEF DeleteSource, ReleaseSource, GoOn, Creating, Running
  <2>2. journal.created
    BY <2>1 DEF Phases
  <2> QED
    BY <2>1, <2>2 DEF SourcesAreParked
<1> QED
  BY <1>1, <1>2, <1>3, <1>4, <1>5, <1>6, <1>7, <1>8, <1>9 DEF Next, Outside

\* What an undo has done stands while none of what it rests on is taken back.
LEMMA UndoStands ==
  ASSUME UndoIsDone,
         journal' = journal, pc' = pc, at' = at, error' = error,
         \A r \in Resources : (Gone(r) => Gone(r)') /\ (Whole(r) => Whole(r)')
  PROVE  UndoIsDone'
  BY DEF UndoIsDone

\* An undo goes on from resource to resource, and from loop to loop.
LEMMA UndoneStep ==
  ASSUME Typed, TargetsAreTheirs, CreateLoop, ClaimsAreBacked, SourcesAreParked, UndoIsDone, Next
  PROVE  UndoIsDone'
<1> USE DEF Typed, PlaceTypes, coolifyVars, processVars, endVars, boundVars
<1>0. /\ \A r \in Resources : ~(r < 1)
      /\ \A r \in Resources : r < N + 1
      /\ at \in Resources => \A r \in Resources : r < at + 1 => r < at \/ r = at
  BY ResourcesAssumption DEF Resources
<1>1. CASE Outside
  <2>1. \A r \in Resources : Gone(r) => made[r] = None \/ tgt'[made[r]].row # "live"
    BY <1>1, OutsideLeaves DEF Gone
  <2>2. UNCHANGED << srcHolds, journal, pc, at, made, error >>
    BY <1>1, OutsideLeaves
  <2>3. \A r \in Resources : (Gone(r) => Gone(r)') /\ (Whole(r) => Whole(r)')
    BY <2>1, <2>2 DEF Gone, Whole, Live
  <2>4. journal' = journal /\ pc' = pc /\ at' = at /\ error' = error
    BY <2>2
  <2> QED
    BY <2>3, <2>4, UndoStands
<1>2. CASE RunOrResume \/ Raises \/ CreateResource \/ Claim
  <2>1. CASE pc' = "undo_delete"
    <3>1. at' = 1
      BY <1>2, <2>1 DEF RunOrResume, StartCreate, Raises, CreateResource, Claim, Goto, GoOn,
       AskClaim, ForceClaim, WriteClaim
    <3> QED
      BY <1>0, <2>1, <3>1 DEF UndoIsDone
  <2>2. CASE pc' # "undo_delete"
    <3>1. pc' \in {"park", "middle", "record", "force", "baseline"}
      BY <1>2, <2>2 DEF RunOrResume, StartCreate, Raises, CreateResource, Claim, Goto, GoOn,
       AskClaim, ForceClaim, WriteClaim
    <3> QED
      BY <3>1 DEF UndoIsDone
  <2> QED
    BY <2>1, <2>2
<1>3. CASE Rollback \/ StepRaises
  <2>1. at' = 1 /\ ((pc' = "rb_restore" /\ journal'.stopped) \/ (pc' = "rb_delete" /\ ~journal'.stopped))
    <3>1. CASE Rollback
      <4>1. journal'.stopped = journal.stopped
        BY <3>1 DEF Rollback, JournalTypes, Journals
      <4> QED
        <5>1. Goto(FirstUndo(journal.stopped))
          BY <3>1 DEF Rollback
        <5>2. CASE journal.stopped
          BY <4>1, <5>1, <5>2 DEF Goto, FirstUndo
        <5>3. CASE ~journal.stopped
          BY <4>1, <5>1, <5>3 DEF Goto, FirstUndo
        <5> QED
          BY <5>2, <5>3
    <3>2. CASE StepRaises
      <4>1. PICK stopped \in {journal.stopped, TRUE} :
              /\ journal' = [journal EXCEPT !.undo = TRUE, !.stopped = stopped]
              /\ Goto(FirstUndo(stopped))
        BY <3>2 DEF StepRaises
      <4>2. journal'.stopped = stopped
        BY <4>1 DEF JournalTypes, Journals
      <4> QED
        <5>1. CASE stopped
          BY <4>1, <4>2, <5>1 DEF Goto, FirstUndo
        <5>2. CASE ~stopped
          BY <4>1, <4>2, <5>2 DEF Goto, FirstUndo
        <5> QED
          BY <5>1, <5>2
    <3> QED
      BY <1>3, <3>1, <3>2
  <2> QED
    BY <1>0, <2>1 DEF UndoIsDone
<1>4. CASE UndoDelete
  <2>1. /\ at \in Resources /\ pc \in {"undo_delete", "rb_delete"} /\ at' = at + 1
        /\ UNCHANGED << srcHolds, journal, pc, made >>
    BY <1>4, UndoDeletesOneTarget
  <2>2. CASE error' = "undo"
    BY <2>2 DEF UndoIsDone
  <2>3. CASE error' # "undo"
    <3>1. error # "undo" /\ (made[at] = None \/ tgt'[made[at]].row # "live")
      BY <1>4, <2>3, DeletesOrFails
    <3>2. ASSUME NEW r \in Resources, r < at
          PROVE  made[r] = None \/ tgt'[made[r]].row # "live"
      <4>1. Gone(r)
        BY <2>1, <3>1, <3>2 DEF UndoIsDone
      <4> QED
        BY <1>4, <4>1, DeletesOrFails
    <3>3. \A r \in Resources : r < at' => Gone(r)'
      BY <1>0, <2>1, <3>1, <3>2 DEF Gone, Live
    <3>4. pc = "rb_delete" /\ journal.stopped => \A r \in Resources : Whole(r)'
      BY <2>1, <3>1 DEF UndoIsDone, Whole
    <3> QED
      BY <2>1, <3>3, <3>4 DEF UndoIsDone
  <2> QED
    BY <2>2, <2>3
<1>5. CASE UndoRestore
  <2>1. /\ at \in Resources /\ UNCHANGED << tgt, journal, made >>
        /\ pc \in {"undo_restore", "undo_force"} => pc' \in {"undo_restore", "undo_force"}
        /\ pc \in {"rb_restore", "rb_force"} => pc' \in {"rb_restore", "rb_force"}
        /\ pc \in {"undo_restore", "undo_force", "rb_restore", "rb_force"}
        /\ at' \in {at, at + 1}
    BY <1>5, RestoreMoves
  <2>2. /\ \A r \in Resources : Whole(r) => srcHolds'[r] = Serves[r]
        /\ error' # "undo" => error # "undo" /\ (at' # at => srcHolds'[at] = Serves[at])
    BY <1>5, RestoresOneSource
  <2>3. \A r \in Resources : Gone(r) => Gone(r)'
    BY <2>1 DEF Gone, Live
  <2>4. ASSUME NEW r \in Resources, error' # "undo", r < at'
        PROVE  r < at \/ srcHolds'[r] = Serves[r]
    BY <1>0, <2>1, <2>2, <2>4
  <2>5. error' # "undo" =>
          /\ pc \in {"undo_restore", "undo_force"} => \A r \in Resources : Gone(r)'
          /\ pc \in {"rb_restore", "rb_force"} /\ ~journal.stopped => \A r \in Resources : Gone(r)'
          /\ pc \in {"rb_restore", "rb_force"} => \A r \in Resources : r < at' => Whole(r)'
    BY <2>1, <2>2, <2>3, <2>4 DEF UndoIsDone, Whole
  <2> QED
    BY <2>1, <2>5 DEF UndoIsDone
<1>6. CASE UndoLoopEnds
  <2>1. \A r \in Resources : (Whole(r) => Whole(r)') /\ (Gone(r) => Gone(r)')
    BY <1>6, UndoGoesOn DEF Whole, Gone, Live
  <2>2. at = N + 1 /\ at' = 1 /\ UNCHANGED << journal, error >>
    BY <1>6, UndoGoesOn
  <2>3. CASE error = "undo"
    BY <2>2, <2>3 DEF UndoIsDone
  <2>4. CASE error # "undo"
    <3>1. CASE pc = "undo_delete" /\ pc' = "undo_restore"
      BY <1>0, <2>1, <2>2, <2>4, <3>1 DEF UndoIsDone
    <3>2. CASE pc = "undo_restore" /\ pc' = "undo_done"
      BY <1>0, <2>1, <2>2, <2>4, <3>2 DEF UndoIsDone
    <3>3. CASE pc = "rb_delete" /\ journal.stopped /\ pc' = "rb_done"
      BY <1>0, <2>1, <2>2, <2>4, <3>3 DEF UndoIsDone
    <3>4. CASE pc = "rb_delete" /\ ~journal.stopped /\ pc' = "rb_restore"
      BY <1>0, <2>1, <2>2, <2>4, <3>4 DEF UndoIsDone
    <3>5. CASE pc = "rb_restore" /\ journal.stopped /\ pc' = "rb_delete"
      BY <1>0, <2>1, <2>2, <2>4, <3>5 DEF UndoIsDone
    <3>6. CASE pc = "rb_restore" /\ ~journal.stopped /\ pc' = "rb_done"
      BY <1>0, <2>1, <2>2, <2>4, <3>6 DEF UndoIsDone
    <3> QED
      BY <1>6, <3>1, <3>2, <3>3, <3>4, <3>5, <3>6, UndoGoesOn
  <2> QED
    BY <2>3, <2>4
<1>7. CASE Crash \/ Park \/ RecordTarget \/ CreateCompletes \/ FreshAttempt \/ CreateFailed \/ RolledBack
           \/ Blocked \/ StartFinalize \/ DeleteSource \/ DeleteFails \/ LookAtTarget
           \/ ReleaseSource \/ Succeeds
  <2>1. pc' \in {"idle", "create", "claim", "force", "middle", "park", "finalize", "look", "release"}
    BY <1>7 DEF Crash, Park, RecordTarget, CreateCompletes, FreshAttempt, CreateFailed,
         RolledBack, Blocked, StartFinalize, DeleteSource, DeleteFails, LookAtTarget,
         ReleaseSource, Succeeds, Goto, End, GoOn
  <2> QED
    BY <2>1 DEF UndoIsDone
<1> QED
  BY <1>1, <1>2, <1>3, <1>4, <1>5, <1>6, <1>7 DEF Next, Outside

\* No command works on after its outcome.
LEMMA OutcomeStep ==
  ASSUME Typed, OutcomeComesLast, Next
  PROVE  OutcomeComesLast'
<1> USE DEF Typed, PlaceTypes, coolifyVars, processVars, endVars, boundVars, OutcomeComesLast
<1>1. CASE Outside
  BY <1>1, OutsideLeaves
<1>2. CASE RunOrResume \/ Rollback
  <2>1. outcome' = "none"
    BY <1>2, Zenon DEF RunOrResume, Rollback, Command
  <2> QED
    BY <2>1
<1>3. CASE Crash \/ CreateFailed \/ RolledBack \/ Blocked \/ DeleteFails \/ Succeeds
  BY <1>3 DEF Crash, CreateFailed, RolledBack, Blocked, DeleteFails, Succeeds, End, Goto
<1>4. CASE Claim
  <2>1. pc \in {"claim", "force"} /\ UNCHANGED outcome
    BY <1>4 DEF Claim,
       AskClaim, ForceClaim, WriteClaim, GoOn
  <2> QED
    BY <2>1
<1>5. CASE UndoDelete
  BY <1>5, UndoDeletesOneTarget
<1>6. CASE CreateResource
  <2>1. pc = "create" /\ UNCHANGED outcome
    BY <1>6 DEF CreateResource
  <2> QED
    BY <2>1
<1>7. CASE Raises \/ Park \/ RecordTarget \/ CreateCompletes \/ UndoRestore \/ UndoLoopEnds
           \/ FreshAttempt \/ StepRaises \/ StartFinalize \/ DeleteSource \/ LookAtTarget
           \/ ReleaseSource
  <2>1. pc # "idle" /\ UNCHANGED outcome
    BY <1>7 DEF Raises, Park, RecordTarget, CreateCompletes, UndoRestore, UndoLoopEnds,
         FreshAttempt, StepRaises, StartFinalize, DeleteSource, LookAtTarget, ReleaseSource,
       AskRestore, ForceRestore, RestoreOne, GivesBack, GoOn, Failed
  <2> QED
    BY <2>1
<1> QED
  BY <1>1, <1>2, <1>3, <1>4, <1>5, <1>6, <1>7 DEF Next, Outside

\* An outcome is given by the step that ends a command, and stays until the next.
LEMMA OutcomeStays ==
  ASSUME Typed, OutcomeComesLast, Next, outcome' # "none"
  PROVE  \/ Outside /\ pc = "idle"
         \/ CreateFailed \/ RolledBack \/ Blocked \/ DeleteFails \/ Succeeds
<1> USE DEF Typed, PlaceTypes, coolifyVars, processVars, endVars, boundVars, OutcomeComesLast
<1>1. CASE Outside
  BY <1>1, OutsideLeaves
<1>2. CASE RunOrResume \/ Rollback
  <2>1. outcome' = "none"
    BY <1>2, Zenon DEF RunOrResume, Rollback, Command
  <2> QED
    BY <2>1
<1>3. CASE Claim
  <2>1. pc \in {"claim", "force"} /\ UNCHANGED outcome
    BY <1>3 DEF Claim,
       AskClaim, ForceClaim, WriteClaim, GoOn
  <2> QED
    BY <2>1
<1>4. CASE UndoDelete
  BY <1>4, UndoDeletesOneTarget
<1>5. CASE Crash \/ CreateResource \/ Raises \/ Park \/ RecordTarget \/ CreateCompletes \/ UndoRestore
           \/ UndoLoopEnds \/ FreshAttempt \/ StepRaises \/ StartFinalize \/ DeleteSource
           \/ LookAtTarget \/ ReleaseSource
  <2>1. pc # "idle" /\ UNCHANGED outcome
    BY <1>5 DEF Crash, CreateResource, Raises, Park, RecordTarget, CreateCompletes, UndoRestore,
         UndoLoopEnds, FreshAttempt, StepRaises, StartFinalize, DeleteSource, LookAtTarget,
         ReleaseSource,
       AskRestore, ForceRestore, RestoreOne, GivesBack, GoOn, Failed
  <2> QED
    BY <2>1
<1> QED
  BY <1>1, <1>2, <1>3, <1>4, <1>5 DEF Next, Outside

\* A rollback ends where its undo has left every resource.
LEMMA WholeStep ==
  ASSUME Typed, Pointers, Phases, SourcesAreParked, UndoIsDone, OutcomeComesLast,
         RolledBackIsWhole, Next
  PROVE  RolledBackIsWhole'
<1> USE DEF Typed, PlaceTypes, coolifyVars, processVars, endVars, boundVars
<1> SUFFICES ASSUME outcome' \in {"rolled_back", "failed"}, NEW r \in Resources
             PROVE  /\ srcHolds'[r] = Serves[r]
                    /\ journal'.targets[r] # None => journal'.targets[r] \notin LiveTargets'
  BY DEF RolledBackIsWhole
<1>1. CASE Outside
  <2>1. /\ UNCHANGED << srcHolds, journal, outcome >>
        /\ \A t \in Targets : tgt'[t].row = "live" => Live(t)
    BY <1>1, OutsideLeaves
  <2> QED
    BY <2>1 DEF RolledBackIsWhole, LiveTargets, Live
<1>2. CASE CreateFailed \/ RolledBack
  <2>1. /\ error # "undo" /\ pc \in {"undo_done", "rb_done"}
        /\ UNCHANGED << srcHolds, tgt >> /\ journal'.targets = journal.targets
    BY <1>2 DEF CreateFailed, RolledBack, End, JournalTypes, Journals
  <2>2. Gone(r)
    BY <2>1 DEF UndoIsDone
  <2>3. Whole(r)
    BY <2>1 DEF UndoIsDone, SourcesAreParked, Phases, Undoing
  <2>4. journal.targets[r] \in {None, made[r]}
    BY <2>1 DEF Pointers
  <2> QED
    BY <2>1, <2>2, <2>3, <2>4 DEF Gone, Whole, LiveTargets, Live
<1>3. CASE Blocked \/ DeleteFails \/ Succeeds
  BY <1>3 DEF Blocked, DeleteFails, Succeeds, End
<1> QED
  BY <1>1, <1>2, <1>3, OutcomeStays

\* Neither a deploy nor a stranger is excluded.
Settled == SourcesAreParked /\ UndoIsDone /\ OutcomeComesLast /\ RolledBackIsWhole

\* All of it holds, in every state.
LEMMA SettledHolds == Spec => []Settled
<1>1. Init => Settled
  <2> SUFFICES ASSUME Init PROVE Settled
    OBVIOUS
  <2>1. SourcesAreParked
    BY DEF Init, SourcesAreParked, Whole, Creating
  <2>2. UndoIsDone
    BY DEF Init, UndoIsDone
  <2>3. OutcomeComesLast /\ RolledBackIsWhole
    BY DEF Init, OutcomeComesLast, RolledBackIsWhole
  <2> QED
    BY <2>1, <2>2, <2>3 DEF Settled
<1>2. PlanInv /\ Settled /\ [Next]_vars => Settled'
  <2> SUFFICES ASSUME PlanInv, Settled, [Next]_vars
               PROVE  Settled'
    OBVIOUS
  <2>1. CASE Next
    <3>1. Typed
      BY DEF PlanInv, TypeOK, Typed, SourceTypes, TargetTypes, PlaceTypes, JournalTypes, EndTypes
    <3>2. SourcesAreParked' /\ UndoIsDone'
      BY <2>1, <3>1, ParkedStep, UndoneStep DEF PlanInv, Settled
    <3>3. OutcomeComesLast' /\ RolledBackIsWhole'
      BY <2>1, <3>1, OutcomeStep, WholeStep DEF PlanInv, Settled
    <3> QED
      BY <3>2, <3>3 DEF Settled
  <2>2. CASE UNCHANGED vars
    <3> USE <2>2 DEF vars, coolifyVars, processVars, endVars, boundVars, Settled
    <3>1. SourcesAreParked'
      BY DEF SourcesAreParked, Whole
    <3>2. UndoIsDone'
      BY ZenonT(60) DEF UndoIsDone, Whole, Gone, Live
    <3>3. OutcomeComesLast' /\ RolledBackIsWhole'
      BY DEF OutcomeComesLast, RolledBackIsWhole, LiveTargets
    <3> QED
      BY <3>1, <3>2, <3>3
  <2> QED
    BY <2>1, <2>2
<1> QED
  BY <1>1, <1>2, PlanHolds, PTL DEF Spec

\* ROLLED_BACK, and a CREATE that undid itself: every source holds all its hosts
\* and no recorded target is left, wherever a run failed, died or was taken up
\* again, and whatever a deploy or a stranger did to a host in the meantime.
THEOREM RollbackMakesWhole == Spec => []RolledBackIsWhole
<1>1. Settled => RolledBackIsWhole
  BY DEF Settled
<1> QED
  BY <1>1, SettledHolds, PTL

\* FINALIZE's loop names each source it does not release.
LEMMA LooksStep ==
  ASSUME Typed, LooksAreDone, Next
  PROVE  LooksAreDone'
<1> USE DEF Typed, PlaceTypes, coolifyVars, processVars, endVars, boundVars
<1>0. /\ \A r \in Resources : ~(r < 1)
      /\ at \in Resources => \A r \in Resources : r < at + 1 => r < at \/ r = at
  BY DEF Resources
<1>1. CASE Outside
  BY <1>1, OutsideLeaves DEF LooksAreDone
<1>2. CASE StartFinalize
  <2>1. at' = 1
    BY <1>2 DEF StartFinalize, Goto
  <2> QED
    BY <1>0, <2>1 DEF LooksAreDone
<1>3. CASE LookAtTarget
  <2>1. at \in Resources /\ pc = "look" /\ UNCHANGED srcHolds
    BY <1>3, ResourcesAssumption DEF LookAtTarget, Resources
  <2>2. \/ pc' = "release" /\ UNCHANGED << at, noticed >>
        \/ noticed' = noticed \cup {at} /\ pc' = "look" /\ at' = at + 1
    BY <1>3 DEF LookAtTarget, NoticeAndKeep, GoOn
  <2> QED
    BY <1>0, <2>1, <2>2 DEF LooksAreDone
<1>4. CASE ReleaseSource
  <2>1. pc = "release" /\ at' = at + 1
    BY <1>4 DEF ReleaseSource, GoOn
  <2>2. \/ srcHolds' = [srcHolds EXCEPT ![at] = WithoutCustom(@)] /\ noticed \subseteq noticed'
        \/ noticed' = noticed \cup {at} /\ UNCHANGED srcHolds
    BY <1>4 DEF ReleaseSource, NoticeAndKeep
  <2>3. ASSUME NEW r \in Resources, r \notin noticed', r < at'
        PROVE  CustomHosts(srcHolds'[r]) = {}
    <3>1. r \notin noticed
      BY <2>2, <2>3
    <3>2. CASE r < at
      <4>1. CustomHosts(srcHolds[r]) = {}
        BY <2>1, <3>1, <3>2 DEF LooksAreDone
      <4>2. srcHolds'[r] = srcHolds[r]
        <5>1. r # at
          BY <3>2 DEF Resources
        <5> QED
          BY <2>2, <5>1 DEF SourceTypes
      <4> QED
        BY <4>1, <4>2
    <3>3. CASE r = at
      <4>1. srcHolds'[r] = WithoutCustom(srcHolds[r])
        BY <2>2, <2>3, <3>3 DEF SourceTypes
      <4> QED
        BY <4>1, HostFacts
    <3> QED
      BY <2>1, <2>3, <3>2, <3>3 DEF Resources
  <2> QED
    BY <2>3 DEF LooksAreDone
<1>5. CASE UndoLoopEnds
  BY <1>5, UndoGoesOn DEF LooksAreDone
<1>6. CASE UndoDelete \/ UndoRestore
  BY <1>6 DEF UndoDelete, DeleteMade, UndoRestore, LooksAreDone,
       AskRestore, ForceRestore, RestoreOne, GivesBack, GoOn, Failed
<1>7. CASE RunOrResume \/ Rollback \/ Crash \/ Raises \/ Park \/ CreateResource \/ RecordTarget \/ Claim
           \/ CreateCompletes \/ FreshAttempt \/ CreateFailed \/ RolledBack \/ StepRaises
           \/ Blocked \/ DeleteSource \/ DeleteFails \/ Succeeds
  <2>1. pc' \notin {"look", "release"}
    BY <1>7 DEF RunOrResume, StartCreate, Rollback, Crash, Raises, Park, CreateResource,
         RecordTarget, Claim, CreateCompletes, FreshAttempt, CreateFailed, RolledBack,
         StepRaises, Blocked, DeleteSource, DeleteFails, Succeeds, Goto, End, GoOn, FirstUndo,
       AskClaim, ForceClaim, WriteClaim
  <2> QED
    BY <2>1 DEF LooksAreDone
<1> QED
  BY <1>1, <1>2, <1>3, <1>4, <1>5, <1>6, <1>7 DEF Next, Outside

\* After SUCCEEDED under keep each source that is not named has let go.
SourcesLetGo ==
  outcome = "succeeded" /\ setup.policy = "keep" =>
    \A r \in Resources \ noticed : CustomHosts(srcHolds[r]) = {}

\* SUCCEEDED comes after the last look.
LEMMA LetGoStep ==
  ASSUME Typed, Phases, OutcomeComesLast, LooksAreDone, SourcesLetGo, Next
  PROVE  SourcesLetGo'
<1> USE DEF Typed, PlaceTypes, coolifyVars, processVars, endVars, boundVars
<1> SUFFICES ASSUME outcome' = "succeeded", setup'.policy = "keep"
             PROVE  \A r \in Resources \ noticed' : CustomHosts(srcHolds'[r]) = {}
  BY DEF SourcesLetGo
<1>1. CASE Outside
  BY <1>1, OutsideLeaves DEF SourcesLetGo
<1>2. CASE Succeeds
  <2>1. pc = "look" /\ at = N + 1 /\ UNCHANGED << srcHolds, noticed >>
    <3>1. UNCHANGED << srcHolds, noticed, setup >> /\ pc \in {"finalize", "look"} /\ at = N + 1
      BY <1>2 DEF Succeeds
    <3> QED
      BY <3>1 DEF Phases
  <2>2. \A r \in Resources : r < N + 1
    BY ResourcesAssumption DEF Resources
  <2> QED
    BY <2>1, <2>2 DEF LooksAreDone
<1>3. CASE CreateFailed \/ RolledBack \/ Blocked \/ DeleteFails
  BY <1>3 DEF CreateFailed, RolledBack, Blocked, DeleteFails, End
<1> QED
  BY <1>1, <1>2, <1>3, OutcomeStays

\* SUCCEEDED under keep: a source the report does not name has let go of all its
\* custom hosts, and its target holds every one.  What a source let go of is held
\* by a live target of its own, and only the recorded one has claimed anything.
THEOREM SuccessHandsOver ==
  ASSUME "before delete" \notin Deploys, "within release" \notin Deploys
  PROVE  Spec => []SucceededIsHandedOver
<1> DEFINE Inv == LooksAreDone /\ SourcesLetGo
<1>1. Init => Inv
  BY DEF Init, LooksAreDone, SourcesLetGo
<1>2. PlanInv /\ Settled /\ Inv /\ [Next]_vars => Inv'
  <2> SUFFICES ASSUME PlanInv, Settled, Inv, [Next]_vars
               PROVE  Inv'
    OBVIOUS
  <2>1. CASE Next
    <3>1. Typed
      BY DEF PlanInv, TypeOK, Typed, SourceTypes, TargetTypes, PlaceTypes, JournalTypes, EndTypes
    <3> QED
      BY <2>1, <3>1, LooksStep, LetGoStep DEF PlanInv, Settled
  <2>2. CASE UNCHANGED vars
    BY <2>2 DEF vars, coolifyVars, processVars, endVars, boundVars, LooksAreDone, SourcesLetGo
  <2> QED
    BY <2>1, <2>2
<1>3. HostInv /\ Inv => SucceededIsHandedOver
  <2> SUFFICES ASSUME HostInv, Inv, outcome = "succeeded", setup.policy = "keep",
                      NEW r \in Resources \ noticed
               PROVE  /\ CustomHosts(srcHolds[r]) = {}
                      /\ Own(r) \subseteq tgt[journal.targets[r]].holds
    BY DEF SucceededIsHandedOver, Own
  <2>1. CustomHosts(srcHolds[r]) = {}
    BY DEF SourcesLetGo
  <2>2. ASSUME NEW h \in Own(r)
        PROVE  h \in tgt[journal.targets[r]].holds
    <3>1. IsCustom(h) /\ h \notin srcHolds[r]
      BY <2>1 DEF Own, CustomHosts
    <3>2. PICK t \in Targets : Live(t) /\ tgt[t].of = r /\ h \in tgt[t].holds
      BY <3>1 DEF HostInv, EachHeld
    <3>3. Claimed(t) # {}
      BY <3>1, <3>2 DEF Claimed, CustomHosts
    <3>4. journal.targets[r] = t
      BY <3>2, <3>3 DEF HostInv, PlanInv, ClaimsAreBacked
    <3> QED
      BY <3>2, <3>4
  <2> QED
    BY <2>1, <2>2
<1> HIDE DEF Inv
<1> QED
  BY <1>1, <1>2, <1>3, PlanHolds, SettledHolds, InvHolds, PTL DEF Spec

-----------------------------------------------------------------------------
(***************************************************************************)
(* What a claim or a restore takes is nobody else's.                       *)
(***************************************************************************)
\* A forced PATCH follows a 409 that named no stranger.
ForceIsClear ==
  /\ pc = "force" => Own(at) \cap foreign = {}
  /\ pc \in {"undo_force", "rb_force"} => CustomHosts(journal.parked[at]) \cap foreign = {}

\* Only a 409, to a claim or to a restore, leads to a forced PATCH.
LEMMA AskedFirst ==
  ASSUME TargetTypes, Next, pc' \in ForceLabels
  PROVE  \/ Outside /\ UNCHANGED << pc, at, journal >>
         \/ AskClaim /\ pc' = "force" /\ at' = at
         \/ UndoRestore /\ AskRestore /\ pc' \in {"undo_force", "rb_force"} /\ at' = at
<1> USE DEF ForceLabels
<1>1. CASE Outside
  BY <1>1, OutsideLeaves DEF processVars
<1>2. CASE RunOrResume \/ Rollback \/ Crash \/ Raises \/ Park \/ CreateResource \/ RecordTarget
           \/ CreateCompletes \/ FreshAttempt \/ CreateFailed \/ RolledBack \/ StepRaises
           \/ Blocked \/ StartFinalize \/ DeleteFails \/ LookAtTarget \/ ReleaseSource \/ Succeeds
  BY <1>2 DEF RunOrResume, StartCreate, Rollback, FirstUndo, Crash, Raises, Park, CreateResource,
     RecordTarget, CreateCompletes, FreshAttempt, CreateFailed, RolledBack, StepRaises, Blocked,
     StartFinalize, DeleteFails, LookAtTarget, ReleaseSource, Succeeds, End, Goto, GoOn
<1>3. CASE UndoDelete \/ DeleteSource
  BY <1>3 DEF UndoDelete, DeleteMade, DeleteSource
<1>4. CASE UndoLoopEnds
  BY <1>4, UndoGoesOn
<1>5. CASE Claim
  BY <1>5 DEF Claim, AskClaim, ForceClaim, WriteClaim, Goto, GoOn
<1>6. CASE UndoRestore
  <2>1. ~ForceRestore
    BY DEF ForceRestore, GoOn
  <2>2. AskRestore
    BY <1>6, <2>1 DEF UndoRestore
  <2> QED
    BY <1>6, <2>2 DEF AskRestore, RestoreOne, GoOn
<1> QED
  BY <1>1, <1>2, <1>3, <1>4, <1>5, <1>6 DEF Next, Outside

\* No stranger comes in between.
LEMMA ForceStaysClear ==
  ASSUME PlanInv, ForceIsClear, Next, LateTakers = FALSE
  PROVE  ForceIsClear'
<1> SUFFICES ASSUME pc' \in ForceLabels
             PROVE  ForceIsClear'
  BY DEF ForceIsClear, ForceLabels
<1>1. TargetTypes /\ at \in 1 .. N + 1
  BY DEF PlanInv, TypeOK, TargetTypes
<1>2. CASE Outside /\ UNCHANGED << pc, at, journal >>
  <2>1. foreign' \subseteq foreign
    <3>1. CASE StrangerActs
      BY <1>2, <3>1 DEF StrangerActs
    <3>2. CASE RunReleaseJob \/ RunDeleteJob \/ DeployDrops
      BY <3>2 DEF RunReleaseJob, RunDeleteJob, DeployDrops, Drops
    <3> QED
      BY <1>2, <3>1, <3>2 DEF Outside
  <2> QED
    BY <1>2, <2>1 DEF ForceIsClear
<1>3. CASE AskClaim /\ pc' = "force" /\ at' = at
  <2> DEFINE hosts == ClaimValue(Serves[at], setup.wildcard)
  <2>1. foreign' = foreign /\ foreign \cap CustomHosts(hosts) = {}
    BY <1>1, <1>3 DEF AskClaim, WriteClaim, Goto, GoOn, OnlyOwnHolders
  <2>2. CustomHosts(hosts) = Own(at)
    BY HostFacts DEF Own
  <2> QED
    BY <1>3, <2>1, <2>2 DEF ForceIsClear
<1>4. CASE UndoRestore /\ AskRestore /\ pc' \in {"undo_force", "rb_force"} /\ at' = at
  <2>1. foreign' = foreign /\ journal' = journal
    BY <1>4 DEF UndoRestore
  <2>2. at # at + 1
    BY <1>1, ResourcesAssumption
  <2>3. foreign \cap CustomHosts(journal.parked[at]) = {}
    BY <1>4, <2>2 DEF AskRestore, RestoreOne, GoOn, RestoreHoldersAreOwn
  <2> QED
    BY <1>4, <2>1, <2>3 DEF ForceIsClear
<1> QED
  BY <1>1, <1>2, <1>3, <1>4, AskedFirst

\* So a PATCH takes what no stranger holds, and nothing else takes a host.
LEMMA TakesStep ==
  ASSUME PlanInv, ForceIsClear, Next
  PROVE  TakesFromNoStranger
<1> USE DEF coolifyVars, processVars, endVars, boundVars
<1>1. TargetTypes /\ PlaceTypes /\ SourceTypes /\ CreateLoop
  BY DEF PlanInv, TypeOK, TargetTypes, PlaceTypes, SourceTypes
<1>2. \A h \in foreign : IsCustom(h)
  BY <1>1, HostTypes DEF SourceTypes, CustomHosts
<1>3. SUFFICES /\ UNCHANGED tgt \/ \A t \in Targets : (tgt'[t].holds \ tgt[t].holds) \cap foreign = {}
               /\ UNCHANGED srcHolds \/ \A r \in Resources : (srcHolds'[r] \ srcHolds[r]) \cap foreign = {}
  BY DEF TakesFromNoStranger
<1>4. CASE DeployDrops
  <2>1. UNCHANGED srcHolds /\ \A u \in Targets : tgt'[u].holds \subseteq tgt[u].holds
    BY <1>1, <1>4, DropsOneTarget
  <2> QED
    BY <2>1
<1>5. CASE RunDeleteJob
  <2>1. UNCHANGED srcHolds
    BY <1>5 DEF RunDeleteJob
  <2> QED
    BY <1>1, <1>5, <2>1, DeletesOneRow
<1>6. CASE CreateResource
  <2>1. PICK t \in Targets :
          /\ CustomHosts(tgt'[t].holds) = {}
          /\ \A u \in Targets : u # t => tgt'[u] = tgt[u]
          /\ UNCHANGED srcHolds
    BY <1>1, <1>6, CreatesOneTarget
  <2>2. tgt'[t].holds \cap foreign = {}
    BY <1>2, <2>1 DEF CustomHosts
  <2> QED
    BY <2>1, <2>2
<1>7. CASE Claim
  <2>1. /\ made[at] \in Targets /\ UNCHANGED srcHolds
        /\ \A u \in Targets : u # made[at] => tgt'[u] = tgt[u]
        /\ CustomHosts(tgt'[made[at]].holds) \subseteq Own(at)
    BY <1>1, <1>7, ClaimsOneTarget
  <2>2. UNCHANGED tgt \/ Own(at) \cap foreign = {}
    <3>1. CustomHosts(ClaimValue(Serves[at], setup.wildcard)) = Own(at)
      BY HostFacts DEF Own
    <3>2. CASE AskClaim
      BY <3>1, <3>2 DEF AskClaim, TargetClashes
    <3>3. CASE ForceClaim
      BY <3>3 DEF ForceClaim, ForceIsClear
    <3> QED
      BY <1>7, <3>2, <3>3 DEF Claim
  <2>3. UNCHANGED tgt \/ tgt'[made[at]].holds \cap foreign = {}
    BY <1>2, <2>1, <2>2 DEF CustomHosts
  <2> QED
    BY <2>1, <2>3
<1>8. CASE UndoDelete
  <2>1. UNCHANGED srcHolds /\ \A u \in Targets : tgt'[u].holds = tgt[u].holds
    BY <1>1, <1>8 DEF UndoDelete, DeleteMade, DeleteTarget, TargetTypes, Rows
  <2> QED
    BY <2>1
<1>9. CASE UndoRestore
  <2>1. at \in Resources /\ UNCHANGED tgt
    BY <1>1, <1>9, RestoreMoves
  <2>2. UNCHANGED srcHolds \/ /\ srcHolds' = [srcHolds EXCEPT ![at] = journal.parked[at]]
                              /\ CustomHosts(journal.parked[at]) \cap foreign = {}
    <3>1. CASE AskRestore
      BY <3>1 DEF AskRestore, RestoreOne, GivesBack, SourceClashes, CustomHosts
    <3>2. CASE ForceRestore
      BY <3>2 DEF ForceRestore, GivesBack, ForceIsClear
    <3> QED
      BY <1>9, <3>1, <3>2 DEF UndoRestore
  <2>3. UNCHANGED srcHolds \/ /\ srcHolds'[at] \cap foreign = {}
                              /\ \A r \in Resources : r # at => srcHolds'[r] = srcHolds[r]
    BY <1>1, <1>2, <2>1, <2>2 DEF SourceTypes, CustomHosts
  <2> QED
    BY <2>1, <2>3
<1>10. CASE DeleteSource
  <2>1. srcHolds' = [srcHolds EXCEPT ![at] = {}] /\ UNCHANGED tgt
    BY <1>10 DEF DeleteSource
  <2>2. \A r \in Resources : srcHolds'[r] \subseteq srcHolds[r]
    BY <1>1, <2>1 DEF SourceTypes
  <2> QED
    BY <2>1, <2>2
<1>11. CASE ReleaseSource
  <2>1. UNCHANGED tgt /\ (UNCHANGED srcHolds \/ srcHolds' = [srcHolds EXCEPT ![at] = WithoutCustom(@)])
    BY <1>11 DEF ReleaseSource
  <2>2. \A r \in Resources : srcHolds'[r] \subseteq srcHolds[r]
    BY <1>1, <2>1 DEF SourceTypes, WithoutCustom
  <2> QED
    BY <2>1, <2>2
<1>12. CASE RunReleaseJob \/ StrangerActs \/ RunOrResume \/ Rollback \/ Crash \/ Raises \/ Park
            \/ RecordTarget \/ CreateCompletes \/ UndoLoopEnds \/ FreshAttempt \/ CreateFailed
            \/ RolledBack \/ StepRaises \/ Blocked \/ StartFinalize \/ DeleteFails \/ LookAtTarget
            \/ Succeeds
  BY <1>12 DEF RunReleaseJob, StrangerActs, RunOrResume, Rollback, Command, Crash, Raises, Park,
     RecordTarget, CreateCompletes, UndoLoopEnds, FreshAttempt, CreateFailed, RolledBack,
     StepRaises, Blocked, StartFinalize, DeleteFails, LookAtTarget, Succeeds
<1> QED
  BY <1>4, <1>5, <1>6, <1>7, <1>8, <1>9, <1>10, <1>11, <1>12 DEF Next

\* No claim and no restore takes a host from a stranger, though strangers take and
\* let go of hosts all the while - but not between a 409 and the forced PATCH that
\* answers it: there the code has no look, and the run of that window fails.
THEOREM ForcedOnlyOverOurOwn ==
  ASSUME LateTakers = FALSE
  PROVE  Spec => NeverForcedOverForeign
<1>1. Init => ForceIsClear
  BY DEF Init, ForceIsClear
<1>2. PlanInv /\ ForceIsClear /\ [Next]_vars => ForceIsClear'
  <2>1. ASSUME ForceIsClear, UNCHANGED vars
        PROVE  ForceIsClear'
    BY <2>1 DEF ForceIsClear, vars, coolifyVars, processVars
  <2> QED
    BY <2>1, ForceStaysClear
<1>3. PlanInv /\ ForceIsClear /\ [Next]_vars => [TakesFromNoStranger]_vars
  BY TakesStep
<1> QED
  BY <1>1, <1>2, <1>3, PlanHolds, PTL DEF Spec, NeverForcedOverForeign

=============================================================================
