----------------------------- MODULE VolumePins -----------------------------
(***************************************************************************)
(* The pins that keep the volumes of a stopped source from Coolify's       *)
(* Docker cleanup (discovery/pins.py), and the evidence on which they are  *)
(* released again (engine/compensations.py, undo_release_source_pins;      *)
(* engine/runner.py, unpin_migration).                                     *)
(*                                                                         *)
(* One server, one stack.  Time passes in ticks, one per poll interval.    *)
(* Each volume is looked at by a docker command of its own.                *)
(***************************************************************************)
EXTENDS Integers, FiniteSets

CONSTANTS Volumes, Containers,
          Users,          \* per volume: the containers that mount it before the run
          Anonymous,      \* volumes no recreated container mounts again
          DeployTimeout,  \* settings.deploy_timeout
          SettleWindow,   \* settle_window(settings)
          HealthWindow,   \* how long Coolify may still remove a new container
          StopLag,        \* how long a stop may wait in Coolify's queue
          Flaps,          \* a container may go and come back between two looks
          MaxCommands,    \* bound: commands the operator gives
          MaxFaults       \* bound: docker probes that fail and processes that die

Idle == {v \in Volumes : Users[v] = {}}
Awaitable == Volumes \ (Idle \cup Anonymous)
None == -1

\* The two terms of settle_window: it outlasts both.
ASSUME WindowsAssumption ==
  /\ {DeployTimeout, SettleWindow, HealthWindow, StopLag} \subseteq Nat
  /\ HealthWindow <= SettleWindow /\ StopLag <= SettleWindow
  /\ Flaps \in BOOLEAN
ASSUME UsersAssumption ==
  /\ Users \in [Volumes -> SUBSET Containers]
  /\ Anonymous \subseteq Volumes
ASSUME BoundsAssumption == MaxCommands \in Nat /\ MaxFaults \in Nat

VARIABLES
  vol,        \* per volume: its data is there, or pruned
  up,         \* per container: absent, on trial, or steady
  age,        \* per container absent or on trial: for how many ticks
  first,      \* containers that are still those from before the run
  stopDue,    \* ticks a queued stop has left to land, 0 for none
  deploys,    \* containers a deploy has still to bring up
  byHand,     \* the operator has started the stack
  image,      \* the pin image is on the server
  pins,       \* the pin containers: whose, for which volumes, idle or not
  stop,       \* the journal: a stop was asked for, and the restart after it accepted
  finished,   \* the journal: the run has ended
  pc,         \* the process
  groups,     \* volumes that ensure has still to pin
  tries,      \* creates of the current pin
  look,       \* release_when_referenced: timeout, settle, waited, since, missing, left
  clean,      \* nothing has failed in this command
  commands, faults

serverVars == << vol, up, age, first, stopDue, deploys, byHand >>
pinVars == << image, pins >>
journalVars == << stop, finished >>
processVars == << pc, groups, tries, look, clean >>
vars == << serverVars, pinVars, journalVars, processVars, commands, faults >>

\* create_command refuses to make a pin of nothing.
PinRecords == [of : {"us", "other"}, volumes : (SUBSET Volumes) \ {{}}, idle : BOOLEAN]
NoLook == [timeout |-> 0, settle |-> 0, waited |-> 0, since |-> None, missing |-> {}, left |-> {}]

MaxWait == DeployTimeout + SettleWindow + 1

\* Ticks that leave no look without seeing the gap.
Gap == 2

TypeOK ==
  /\ vol \in [Volumes -> {"data", "gone"}]
  /\ up \in [Containers -> {"absent", "trial", "steady"}]
  /\ age \in [Containers -> 0 .. HealthWindow + Gap]
  /\ first \subseteq Containers /\ deploys \subseteq Containers
  /\ stopDue \in 0 .. StopLag /\ byHand \in BOOLEAN
  /\ image \in BOOLEAN
  /\ pins \subseteq PinRecords
  /\ stop \in {"none", "asked", "restarted"} /\ finished \in BOOLEAN
  /\ pc \in {"idle", "ensure", "create", "imported", "stop", "restart", "idle_pins", "begin_look",
             "look", "judge", "sleep", "release"}
  /\ groups \subseteq PinRecords /\ tries \in 0 .. 1
  /\ look \in [timeout : {0, DeployTimeout}, settle : {0, SettleWindow}, waited : 0 .. MaxWait,
               since : {None} \cup (0 .. MaxWait), missing : SUBSET Volumes, left : SUBSET Volumes]
  /\ clean \in BOOLEAN
  /\ commands \in 0 .. MaxCommands /\ faults \in 0 .. MaxFaults

\* Another migration of the same stack may have pinned it.
OtherPins ==
  {p \in {[of |-> "other", volumes |-> Awaitable, idle |-> FALSE]} : p.volumes # {}}

Init ==
  /\ vol = [v \in Volumes |-> "data"]
  /\ up = [c \in Containers |-> "steady"] /\ age = [c \in Containers |-> 0]
  /\ first = Containers /\ stopDue = 0 /\ deploys = {} /\ byHand = FALSE
  /\ image = FALSE
  /\ pins \in SUBSET OtherPins
  /\ stop = "none" /\ finished = FALSE
  /\ pc = "idle" /\ groups = {} /\ tries = 0 /\ look = NoLook /\ clean = TRUE
  /\ commands = 0 /\ faults = 0

-----------------------------------------------------------------------------
(***************************************************************************)
(* Docker and Coolify.                                                     *)
(***************************************************************************)
Mounts(c, v) ==
  /\ up[c] # "absent"
  /\ c \in Users[v]
  /\ v \in Anonymous => c \in first

PinnedBy(owner) == UNION {p.volumes : p \in {q \in pins : q.of = owner}}
PinnedVolumes == PinnedBy("us") \cup PinnedBy("other")

\* docker volume prune -af: every volume that no container references.
PruneVolume ==
  \E v \in Volumes :
    /\ vol[v] = "data"
    /\ v \notin PinnedVolumes
    /\ \A c \in Containers : ~Mounts(c, v)
    /\ vol' = [vol EXCEPT ![v] = "gone"]
    /\ UNCHANGED << up, age, first, stopDue, deploys, byHand, pinVars, journalVars, processVars,
                    commands, faults >>

\* docker rmi: refused while a container uses the image.
PruneImage ==
  /\ image /\ pins = {}
  /\ image' = FALSE
  /\ UNCHANGED << serverVars, pins, journalVars, processVars, commands, faults >>

OtherReleases ==
  /\ pins' = {p \in pins : p.of = "us"}
  /\ pins' # pins
  /\ UNCHANGED << serverVars, image, journalVars, processVars, commands, faults >>

Gone(cs) ==
  /\ up' = [c \in Containers |-> IF c \in cs THEN "absent" ELSE up[c]]
  /\ age' = [c \in Containers |-> IF c \in cs /\ up[c] # "absent" THEN 0 ELSE age[c]]
  /\ first' = first \ cs

StopLands ==
  /\ stopDue > 0
  /\ stopDue' = 0
  /\ Gone(Containers)
  /\ UNCHANGED << vol, deploys, byHand, pinVars, journalVars, processVars, commands, faults >>

\* A container that is down comes up, one that a stop is still meant for is replaced.
DeployStarts ==
  \E c \in deploys :
    /\ IF up[c] = "absent" THEN Flaps \/ age[c] = Gap ELSE stopDue > 0
    /\ deploys' = deploys \ {c}
    /\ up' = [up EXCEPT ![c] = IF HealthWindow = 0 THEN "steady" ELSE "trial"]
    /\ age' = [age EXCEPT ![c] = 0]
    /\ first' = first \ {c}
    /\ UNCHANGED << vol, stopDue, byHand, pinVars, journalVars, processVars, commands, faults >>

\* A new container that fails its health check is removed.
HealthCheckFails ==
  \E c \in Containers :
    /\ up[c] = "trial"
    /\ Gone({c})
    /\ UNCHANGED << vol, stopDue, deploys, byHand, pinVars, journalVars, processVars,
                    commands, faults >>

\* One interval passes, for the process that sleeps and for Coolify.
Tick ==
  /\ pc \in {"sleep", "idle"}
  /\ \/ stopDue # 1 /\ stopDue' = (IF stopDue = 0 THEN 0 ELSE stopDue - 1)
        /\ up' = [c \in Containers |-> IF up[c] = "trial" /\ age[c] + 1 >= HealthWindow
                                       THEN "steady" ELSE up[c]]
        /\ age' = [c \in Containers |->
                     CASE up'[c] = "steady" -> 0
                       [] up'[c] = "trial" -> age[c] + 1
                       [] up'[c] = "absent" -> IF age[c] = Gap THEN Gap ELSE age[c] + 1]
        /\ UNCHANGED first
     \/ stopDue = 1 /\ stopDue' = 0 /\ Gone(Containers)
  /\ IF pc = "sleep"
     THEN /\ pc' = "begin_look"
          /\ look' = [look EXCEPT !.waited = @ + 1]
     ELSE UNCHANGED << pc, look >>
  /\ UNCHANGED << vol, deploys, byHand, pinVars, journalVars, groups, tries, clean, commands, faults >>

-----------------------------------------------------------------------------
(***************************************************************************)
(* Commands.                                                               *)
(***************************************************************************)
Command(label) ==
  /\ pc = "idle"
  /\ commands < MaxCommands
  /\ commands' = commands + 1
  /\ pc' = label
  /\ clean' = TRUE /\ tries' = 0
  /\ UNCHANGED << serverVars, pinVars, faults >>

\* QUIESCE, from its pin on; a resume pins again.
Quiesce ==
  /\ ~finished
  /\ Command("ensure")
  /\ UNCHANGED << journalVars, groups, look >>

\* The rollback of a stack nobody has started: its restart, and its last act, RELEASE_SOURCE_PINS.
Rollback ==
  /\ ~byHand
  /\ Command(IF stop = "asked" THEN "restart" ELSE "idle_pins")
  /\ look' = [NoLook EXCEPT
       !.timeout = IF stop = "restarted" THEN DeployTimeout ELSE 0,
       !.settle = IF stop = "restarted" THEN SettleWindow ELSE 0]
  /\ UNCHANGED << journalVars, groups >>

Unpin ==
  /\ finished
  /\ Command("idle_pins")
  /\ look' = [NoLook EXCEPT !.settle = SettleWindow]
  /\ UNCHANGED << journalVars, groups >>

\* The operator starts the stack by hand once the run is over.
OperatorStarts ==
  /\ pc = "idle" /\ finished
  /\ deploys = {} /\ \A c \in Containers : up[c] = "absent"
  /\ deploys' = Containers /\ byHand' = TRUE
  /\ UNCHANGED << vol, up, age, first, stopDue, pinVars, journalVars, processVars,
                  commands, faults >>

Done ==
  /\ pc' = "idle"
  /\ look' = NoLook /\ groups' = {} /\ tries' = 0

Crash ==
  /\ pc # "idle"
  /\ faults < MaxFaults
  /\ faults' = faults + 1
  /\ clean' = FALSE
  /\ Done
  /\ UNCHANGED << serverVars, pinVars, journalVars, commands >>

-----------------------------------------------------------------------------
(***************************************************************************)
(* ensure.                                                                 *)
(***************************************************************************)
\* Mutant: the pin of the idle volumes is not told apart.
Todo_OnePin(wanted) ==
  {g \in {[of |-> "us", volumes |-> wanted, idle |-> FALSE]} : g.volumes # {}}

\* One pin per kind for what is there and no pin of ours holds yet.
Todo(wanted) ==
  {g \in {[of |-> "us", volumes |-> wanted \ Idle, idle |-> FALSE],
          [of |-> "us", volumes |-> wanted \cap Idle, idle |-> TRUE]} : g.volumes # {}}

Ensure ==
  /\ pc = "ensure"
  /\ groups' = Todo({v \in Volumes : vol[v] = "data"} \ PinnedBy("us"))
  /\ pc' = "create"
  /\ UNCHANGED << serverVars, pinVars, journalVars, tries, look, clean, commands, faults >>

\* The import half of the command: nothing if the image is there.
ImportImage ==
  /\ pc = "create" /\ groups # {}
  /\ image' = TRUE
  /\ pc' = "imported"
  /\ UNCHANGED << serverVars, pins, journalVars, groups, tries, look, clean, commands, faults >>

\* The create half; the mounted volumes' pin first.
CreatePin ==
  /\ pc = "imported" /\ image
  /\ \E g \in groups :
       /\ g.idle => groups = {g}
       /\ pins' = pins \cup {g}
       /\ groups' = groups \ {g}
  /\ pc' = "create" /\ tries' = 0
  /\ UNCHANGED << serverVars, image, journalVars, look, clean, commands, faults >>

\* The image was pruned between the halves: import and create once more, then raise.
CreateFails ==
  /\ pc = "imported" /\ ~image
  /\ \/ tries = 0 /\ tries' = 1 /\ pc' = "create" /\ UNCHANGED << groups, look, finished >>
     \/ tries = 1 /\ Done /\ finished' = TRUE
  /\ clean' = FALSE
  /\ UNCHANGED << serverVars, pinVars, stop, commands, faults >>

\* Every volume is pinned.  Not a raise: the stop goes ahead only from here.
Pinned ==
  /\ pc = "create" /\ groups = {}
  /\ pc' = "stop"
  /\ UNCHANGED << serverVars, pinVars, journalVars, groups, tries, look, clean, commands, faults >>

\* The stop is journalled, then queued.  The run ends or dies somewhere after it.
RequestStop ==
  /\ pc = "stop"
  /\ stop' = "asked"
  /\ stopDue' = StopLag
  /\ deploys' = {}
  /\ \E end \in BOOLEAN : finished' = end
  /\ Done
  /\ UNCHANGED << vol, up, age, first, byHand, pinVars, clean, commands, faults >>

-----------------------------------------------------------------------------
(***************************************************************************)
(* The restart and undo_release_source_pins.                               *)
(***************************************************************************)
\* Accepted, and every container is deployed again; or refused.
Restart ==
  /\ pc = "restart"
  /\ \/ /\ stop' = "restarted"
        /\ deploys' = Containers
        /\ look' = [look EXCEPT !.timeout = DeployTimeout, !.settle = SettleWindow]
        /\ UNCHANGED clean
     \/ /\ clean' = FALSE
        /\ UNCHANGED << stop, deploys, look >>
  /\ pc' = "idle_pins"
  /\ UNCHANGED << vol, up, age, first, stopDue, byHand, pinVars, finished, groups, tries,
                  commands, faults >>

\* Mutant: pins are found by role alone, whichever migration made them.
OurPins_AnyMigration == pins

OurPins == {p \in pins : p.of = "us"}

Waiting == {p \in OurPins : ~p.idle}

\* awaited: an anonymous volume is never mounted again.
Awaited == (UNION {p.volumes : p \in Waiting}) \ Anonymous

\* Mutant: a stop that was never undone is no reason to keep the pins unseen.
LookAllowed_Always == TRUE

\* release_idle when the source was stopped and not restarted: no look could be
\* evidence.  unpin always looks.
LookAllowed == stop # "asked" \/ look.settle > 0

ReleaseIdlePins ==
  /\ pc = "idle_pins"
  /\ pins' = pins \ {p \in OurPins : p.idle}
  /\ IF Waiting # {} /\ LookAllowed
     THEN pc' = "begin_look" /\ UNCHANGED << groups, tries, look, finished >>
     ELSE Done /\ finished' = TRUE
  /\ UNCHANGED << serverVars, image, stop, clean, commands, faults >>

BeginLook ==
  /\ pc = "begin_look"
  /\ look' = [look EXCEPT !.missing = {}, !.left = Awaited]
  /\ pc' = "look"
  /\ UNCHANGED << serverVars, pinVars, journalVars, groups, tries, clean, commands, faults >>

\* is_reference: a running container that is no pin.
Referenced(v) == \E c \in Containers : Mounts(c, v)

LookAt ==
  /\ pc = "look"
  /\ \E v \in look.left :
       /\ look' = [look EXCEPT !.left = @ \ {v},
                               !.missing = IF Referenced(v) THEN @ ELSE @ \cup {v}]
  /\ UNCHANGED << serverVars, pinVars, journalVars, pc, groups, tries, clean, commands, faults >>

\* A probe that fails counts as no reference.
ProbeFails ==
  /\ pc = "look"
  /\ faults < MaxFaults
  /\ faults' = faults + 1
  /\ \E v \in look.left :
       look' = [look EXCEPT !.left = @ \ {v}, !.missing = @ \cup {v}]
  /\ clean' = FALSE
  /\ UNCHANGED << serverVars, pinVars, journalVars, pc, groups, tries, commands >>

LookEnds ==
  /\ pc = "look" /\ look.left = {}
  /\ pc' = "judge"
  /\ UNCHANGED << serverVars, pinVars, journalVars, groups, tries, look, clean, commands, faults >>

\* steady_since: set by the first look that finds all, lost with the first that does not.
Since ==
  IF look.missing # {} THEN None
  ELSE IF look.since = None THEN look.waited ELSE look.since

\* Mutant: one look is evidence.
Settled_AtOnce == Since # None

\* Nothing awaited, or seen in every look across the window.
Settled == Since # None /\ (Awaited = {} \/ look.waited - Since >= look.settle)

\* Mutant: the deadline counts only while nothing has been seen yet.
TimedOut_WhileUnseen == look.since = None /\ Since = None /\ look.waited = look.timeout

TimedOut == Since = None /\ look.waited >= look.timeout

Judge ==
  /\ pc = "judge"
  /\ \/ /\ Settled
        /\ pc' = "release"
        /\ UNCHANGED << groups, tries, look, finished >>
     \/ /\ ~Settled /\ TimedOut
        /\ Done /\ finished' = TRUE
     \/ /\ ~Settled /\ ~TimedOut
        /\ look.waited < MaxWait
        /\ pc' = "sleep"
        /\ look' = [look EXCEPT !.since = Since]
        /\ UNCHANGED << groups, tries, finished >>
  /\ UNCHANGED << serverVars, pinVars, stop, clean, commands, faults >>

\* One docker rm per pin; what is gone already counts as removed.
ReleasePin ==
  /\ pc = "release"
  /\ \E p \in OurPins : pins' = pins \ {p}
  /\ UNCHANGED << serverVars, image, journalVars, processVars, commands, faults >>

Released ==
  /\ pc = "release" /\ OurPins = {}
  /\ Done /\ finished' = TRUE
  /\ UNCHANGED << serverVars, pinVars, stop, clean, commands, faults >>

-----------------------------------------------------------------------------
Process ==
  \/ Ensure \/ ImportImage \/ CreatePin \/ CreateFails \/ Pinned \/ RequestStop
  \/ Restart \/ ReleaseIdlePins \/ BeginLook \/ LookAt \/ LookEnds \/ Judge
  \/ ReleasePin \/ Released

Environment ==
  \/ PruneVolume \/ PruneImage \/ OtherReleases \/ StopLands \/ DeployStarts
  \/ HealthCheckFails \/ OperatorStarts

Next ==
  \/ Process \/ ProbeFails \/ Crash \/ Tick
  \/ Quiesce \/ Rollback \/ Unpin \/ Environment

\* The process is one coroutine that nothing else waits for, and its sleeps end.
Fairness == WF_vars(Process) /\ WF_vars(Tick)

Spec == Init /\ [][Next]_vars /\ Fairness

-----------------------------------------------------------------------------
\* No volume of the stack is ever pruned: not while it is down, not when the pins
\* go because its containers were seen, not under a stop that lands late.
DataSurvives == \A v \in Awaitable : vol[v] = "data"

\* The stack is down by our hand only over pins on all of its volumes.
DownOnlyPinned ==
  \A v \in Awaitable : Referenced(v) \/ v \in PinnedBy("us")

\* Between the stop and the pins that go last, no volume hangs on nothing.
PinsGuard == TypeOK /\ DownOnlyPinned

\* docker rm takes our pins only, whatever state another migration is in.
OthersKeepTheirPins ==
  [][Process => PinnedBy("other")' = PinnedBy("other")]_vars

\* Every command ends, however the containers come and go.
CommandsEnd == pc # "idle" ~> pc = "idle"

StackStays ==
  /\ \A c \in Containers : up[c] = "steady"
  /\ stopDue = 0 /\ deploys = {}

\* A stack that is up to stay frees the pins of the command that looks at it:
\* neither an idle volume nor an anonymous one makes it wait for ever.
StackUpFreesPins ==
  (pc = "begin_look" /\ StackStays /\ clean) ~> (OurPins = {} \/ ~clean)

=============================================================================
