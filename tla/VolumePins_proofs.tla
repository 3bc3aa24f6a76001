--------------------------- MODULE VolumePins_proofs ---------------------------
(***************************************************************************)
(* The pins keep the data, for any volumes, containers, windows and bounds.*)
(*                                                                         *)
(* A volume hangs on a pin of ours, or on a container that is there to     *)
(* stay: steady, with no stop in Coolify's queue.  Pins go only after      *)
(* looks across a window that outlasts a queued stop and a health check,   *)
(* so what is shown is that such looks leave nothing else: a container     *)
(* seen in all of them was there all along, because the gap it leaves when *)
(* it goes is longer than the interval between two looks.                  *)
(*                                                                         *)
(* That speaks of volumes with one container.  Of two that share a volume  *)
(* each may stand in for the other in the looks, and both may go after     *)
(* them; and with Flaps a container goes and comes back unseen.            *)
(***************************************************************************)
EXTENDS VolumePins, TLAPS

\* The container of a volume that no other container mounts.
Alone(c, v) == Users[v] = {c}

OnOurPin(v) == \E p \in pins : p.of = "us" /\ v \in p.volumes
AboutToBe(v) == OnOurPin(v) \/ \E g \in groups : v \in g.volumes
Expected(v) == \E p \in pins : p.of = "us" /\ ~p.idle /\ v \in p.volumes
ToStay(c) == up[c] = "steady" /\ stopDue = 0

\* Each volume hangs on a pin of ours or on a container that is there to stay.
Held == \A v \in Awaitable, c \in Containers : Alone(c, v) => OnOurPin(v) \/ ToStay(c)
DataIsThere == \A v \in Awaitable, c \in Containers : Alone(c, v) => vol[v] = "data"

\* A container is on trial for the health window, and stays away for the gap.
OnTrial ==
  \A c \in Containers :
    /\ up[c] = "trial" => age[c] < HealthWindow
    /\ up[c] = "absent" => age[c] <= Gap

\* Idle pins, which go without a look, are of volumes that nothing mounts.
IdleIsIdle ==
  /\ \A g \in groups : g.of = "us"
  /\ \A p \in pins \cup groups : p.of = "us" /\ p.idle => p.volumes \subseteq Idle

\* Nothing is stopped before all is pinned.
PinsFirst ==
  /\ pc \in {"create", "imported"} => \A v \in Awaitable, c \in Containers : Alone(c, v) => AboutToBe(v)
  /\ pc = "stop" => \A v \in Awaitable, c \in Containers : Alone(c, v) => OnOurPin(v)
  /\ stop = "none" => stopDue = 0 /\ deploys = {} /\ \A c \in Containers : up[c] = "steady"

InLoop == pc \in {"begin_look", "look", "judge", "sleep"}

\* Looks are taken across the settle window, or at a stack that was never stopped;
\* a stop still queued lands within StopLag of the first.
LookFits ==
  /\ pc \in {"restart", "idle_pins"} => look.waited = 0 /\ look.since = None
  /\ pc = "restart" => stop = "asked" /\ look.settle = 0
  /\ pc = "idle_pins" =>
       look.settle = SettleWindow \/ (stop \in {"none", "asked"} /\ look.settle = 0)
  /\ InLoop => look.settle = SettleWindow \/ stop = "none"
  /\ InLoop /\ stopDue > 0 => look.waited + stopDue <= StopLag
  /\ look.since <= look.waited
  /\ pc = "judge" => look.left = {}
  /\ pc = "sleep" => look.waited < MaxWait

\* For how long every look has found every volume.
Elapsed == IF look.since = None THEN 0 ELSE look.waited - look.since

\* A container that was there in all looks, and is on trial for as long; one that
\* went after the last look; and one that went in between.
ThereAllAlong(c) ==
  up[c] = "steady" \/ (up[c] = "trial" /\ (stopDue > 0 \/ age[c] >= Elapsed))
GoneSinceLook(c) == up[c] = "absent" /\ age[c] = 0 /\ Elapsed < SettleWindow
GoneForThisLook(c) == up[c] = "absent" /\ age[c] <= 1

Looked(v) ==
  \/ pc \in {"look", "judge"} /\ look.missing = {} /\ v \notin look.left
  \/ pc = "sleep" /\ look.since # None
ToBeLookedAt(v) ==
  \/ pc = "look" /\ look.missing = {} /\ v \in look.left /\ look.since # None
  \/ pc = "begin_look" /\ look.since # None

Window ==
  \A v \in Awaitable, c \in Containers : Alone(c, v) /\ Expected(v) =>
    /\ Looked(v) => ThereAllAlong(c) \/ GoneSinceLook(c)
    /\ ToBeLookedAt(v) => ThereAllAlong(c) \/ GoneForThisLook(c)

\* Pins are removed over containers that are there to stay.
EvidenceHolds == pc = "release" => \A v \in Awaitable, c \in Containers : Alone(c, v) /\ OnOurPin(v) => ToStay(c)

PinsInv ==
  /\ TypeOK /\ OnTrial /\ IdleIsIdle /\ PinsFirst /\ LookFits
  /\ Held /\ DataIsThere /\ Window /\ EvidenceHolds

-----------------------------------------------------------------------------
(***************************************************************************)
(* Types.                                                                  *)
(***************************************************************************)
ServerTypes ==
  /\ vol \in [Volumes -> {"data", "gone"}]
  /\ up \in [Containers -> {"absent", "trial", "steady"}]
  /\ age \in [Containers -> 0 .. HealthWindow + Gap]
  /\ first \subseteq Containers /\ deploys \subseteq Containers
  /\ stopDue \in 0 .. StopLag /\ byHand \in BOOLEAN
PinTypes ==
  /\ image \in BOOLEAN
  /\ pins \subseteq PinRecords /\ groups \subseteq PinRecords
LookTypes ==
  look \in [timeout : {0, DeployTimeout}, settle : {0, SettleWindow}, waited : 0 .. MaxWait,
            since : {None} \cup (0 .. MaxWait), missing : SUBSET Volumes, left : SUBSET Volumes]
FlagTypes == finished \in BOOLEAN /\ clean \in BOOLEAN
RestTypes ==
  /\ stop \in {"none", "asked", "restarted"}
  /\ pc \in {"idle", "ensure", "create", "imported", "stop", "restart", "idle_pins", "begin_look",
             "look", "judge", "sleep", "release"}
  /\ tries \in 0 .. 1
  /\ commands \in 0 .. MaxCommands /\ faults \in 0 .. MaxFaults

LEMMA TypeParts == TypeOK <=> ServerTypes /\ PinTypes /\ LookTypes /\ FlagTypes /\ RestTypes
BY Zenon DEF TypeOK, ServerTypes, PinTypes, LookTypes, FlagTypes, RestTypes

LEMMA WindowsAreNat ==
  /\ DeployTimeout \in Nat /\ SettleWindow \in Nat /\ HealthWindow \in Nat /\ StopLag \in Nat
  /\ HealthWindow <= SettleWindow /\ StopLag <= SettleWindow
  /\ MaxWait \in Nat /\ Gap = 2 /\ None = -1
BY WindowsAssumption DEF MaxWait, Gap, None

\* Removing containers keeps the server's variables in form.
LEMMA GoneTypes ==
  ASSUME ServerTypes, OnTrial, NEW cs \in SUBSET Containers, Gone(cs)
  PROVE  /\ up' \in [Containers -> {"absent", "trial", "steady"}]
         /\ age' \in [Containers -> 0 .. HealthWindow + Gap]
         /\ first' \subseteq Containers
         /\ OnTrial'
BY WindowsAreNat DEF ServerTypes, OnTrial, Gone, Gap

\* The server's variables keep their form, and every container its time.
LEMMA ServerTypesKept ==
  ASSUME ServerTypes, OnTrial, Next
  PROVE  ServerTypes' /\ OnTrial'
<1> USE DEF serverVars, pinVars, journalVars, processVars
<1>1. CASE PruneVolume
  BY <1>1 DEF PruneVolume, ServerTypes, OnTrial
<1>2. CASE StopLands \/ HealthCheckFails
  <2>1. PICK cs \in SUBSET Containers : Gone(cs)
    BY <1>2 DEF StopLands, HealthCheckFails
  <2>2. stopDue' \in {0, stopDue} /\ UNCHANGED << vol, deploys, byHand >>
    BY <1>2 DEF StopLands, HealthCheckFails
  <2> QED
    BY <2>1, <2>2, GoneTypes, WindowsAreNat DEF ServerTypes
<1>3. CASE DeployStarts
  <2>1. PICK c \in deploys :
          /\ deploys' = deploys \ {c}
          /\ up' = [up EXCEPT ![c] = IF HealthWindow = 0 THEN "steady" ELSE "trial"]
          /\ age' = [age EXCEPT ![c] = 0]
          /\ first' = first \ {c}
          /\ UNCHANGED << vol, stopDue, byHand >>
    BY <1>3 DEF DeployStarts
  <2>2. up' \in [Containers -> {"absent", "trial", "steady"}]
    BY <2>1 DEF ServerTypes
  <2>3. age' \in [Containers -> 0 .. HealthWindow + Gap]
    BY <2>1, WindowsAreNat DEF ServerTypes
  <2>4. OnTrial'
    BY <2>1, WindowsAreNat DEF ServerTypes, OnTrial, Gap
  <2> QED
    BY <2>1, <2>2, <2>3, <2>4 DEF ServerTypes
<1>4. CASE OperatorStarts
  BY <1>4 DEF OperatorStarts, ServerTypes, OnTrial
<1>5. CASE Tick
  <2>1. CASE stopDue = 1 /\ stopDue' = 0 /\ Gone(Containers)
    BY <1>5, <2>1, GoneTypes, WindowsAreNat DEF Tick, ServerTypes
  <2>2. CASE stopDue # 1 /\ stopDue' = (IF stopDue = 0 THEN 0 ELSE stopDue - 1)
    <3> DEFINE NewAge(c) == CASE up'[c] = "steady" -> 0
                              [] up'[c] = "trial" -> age[c] + 1
                              [] up'[c] = "absent" -> IF age[c] = Gap THEN Gap ELSE age[c] + 1
    <3>1. /\ up' = [c \in Containers |-> IF up[c] = "trial" /\ age[c] + 1 >= HealthWindow
                                         THEN "steady" ELSE up[c]]
          /\ age' = [c \in Containers |-> NewAge(c)]
          /\ UNCHANGED << vol, first, deploys, byHand >>
      BY <1>5, <2>2 DEF Tick
    <3>2. up' \in [Containers -> {"absent", "trial", "steady"}]
      BY <3>1 DEF ServerTypes
    <3>3. ASSUME NEW c \in Containers
          PROVE  /\ age'[c] \in 0 .. HealthWindow + Gap
                 /\ up'[c] = "trial" => age'[c] < HealthWindow
                 /\ up'[c] = "absent" => age'[c] <= Gap
      <4>1. up[c] \in {"absent", "trial", "steady"} /\ age[c] \in 0 .. HealthWindow + Gap
        BY DEF ServerTypes
      <4>2. CASE up'[c] = "steady"
        BY <3>1, <4>2, WindowsAreNat
      <4>3. CASE up'[c] = "trial"
        BY <3>1, <4>1, <4>3, WindowsAreNat
      <4>4. CASE up'[c] = "absent"
        BY <3>1, <4>1, <4>4, WindowsAreNat DEF OnTrial
      <4> QED
        BY <3>2, <4>2, <4>3, <4>4
    <3>4. age' \in [Containers -> 0 .. HealthWindow + Gap]
      <4>1. \A c \in Containers : age'[c] \in 0 .. HealthWindow + Gap
        BY <3>3
      <4> HIDE DEF NewAge
      <4> QED
        BY <3>1, <4>1
    <3>5. stopDue' \in 0 .. StopLag
      BY <2>2, WindowsAreNat DEF ServerTypes
    <3> QED
      BY <3>1, <3>2, <3>3, <3>4, <3>5 DEF ServerTypes, OnTrial
  <2> QED
    BY <1>5, <2>1, <2>2 DEF Tick
<1>6. CASE RequestStop \/ Restart
  BY <1>6, WindowsAreNat DEF RequestStop, Restart, ServerTypes, OnTrial, Done
<1>7. CASE UNCHANGED serverVars
  BY <1>7 DEF ServerTypes, OnTrial
<1>8. Process => RequestStop \/ Restart \/ UNCHANGED serverVars
  BY Zenon DEF Process, Ensure, ImportImage, CreatePin, CreateFails, Pinned, ReleaseIdlePins, BeginLook,
     LookAt, LookEnds, Judge, ReleasePin, Released
<1>9. ProbeFails \/ Crash \/ Quiesce \/ Rollback \/ Unpin \/ PruneImage \/ OtherReleases
        => UNCHANGED serverVars
  BY Zenon DEF ProbeFails, Crash, Quiesce, Rollback, Unpin, PruneImage, OtherReleases, Command
<1> QED
  BY <1>1, <1>2, <1>3, <1>4, <1>5, <1>6, <1>7, <1>8, <1>9 DEF Next, Environment


LEMMA TodoIsTyped ==
  ASSUME NEW wanted \in SUBSET Volumes
  PROVE  \A g \in Todo(wanted) : g \in PinRecords /\ g.of = "us" /\ (g.idle => g.volumes \subseteq Idle)
<1> SUFFICES ASSUME NEW g \in Todo(wanted)
             PROVE  g \in PinRecords /\ g.of = "us" /\ (g.idle => g.volumes \subseteq Idle)
  OBVIOUS
<1>1. \/ g = [of |-> "us", volumes |-> wanted \ Idle, idle |-> FALSE]
      \/ g = [of |-> "us", volumes |-> wanted \cap Idle, idle |-> TRUE]
  BY DEF Todo
<1>2. g.volumes # {}
  BY DEF Todo
<1>3. CASE g = [of |-> "us", volumes |-> wanted \ Idle, idle |-> FALSE]
  BY <1>2, <1>3 DEF PinRecords
<1>4. CASE g = [of |-> "us", volumes |-> wanted \cap Idle, idle |-> TRUE]
  BY <1>2, <1>4 DEF PinRecords
<1> QED
  BY <1>1, <1>3, <1>4

LEMMA AwaitedIsTyped ==
  ASSUME PinTypes
  PROVE  Awaited \subseteq Volumes
BY DEF PinTypes, PinRecords, Awaited, Waiting, OurPins

\* Pins and the groups still to be pinned keep their form.
LEMMA PinTypesKept ==
  ASSUME PinTypes, Next
  PROVE  PinTypes'
<1> USE DEF PinTypes, serverVars, pinVars, journalVars, processVars
<1>1. CASE Ensure
  <2>1. {v \in Volumes : vol[v] = "data"} \ PinnedBy("us") \in SUBSET Volumes
    OBVIOUS
  <2> QED
    BY <1>1, <2>1, TodoIsTyped DEF Ensure
<1>2. CASE ImportImage \/ CreatePin \/ CreateFails \/ Pinned \/ RequestStop \/ Restart
  BY <1>2 DEF ImportImage, CreatePin, CreateFails, Pinned, RequestStop, Restart, Done
<1>3. CASE ReleaseIdlePins \/ ReleasePin \/ Released \/ Judge
  BY <1>3 DEF ReleaseIdlePins, ReleasePin, Released, Judge, Done, OurPins
<1>4. CASE BeginLook \/ LookAt \/ LookEnds \/ ProbeFails \/ Tick
  BY <1>4 DEF BeginLook, LookAt, LookEnds, ProbeFails, Tick
<1>5. CASE Crash \/ Quiesce \/ Rollback \/ Unpin
  BY <1>5 DEF Crash, Quiesce, Rollback, Unpin, Command, Done
<1>6. CASE Environment
  BY <1>6 DEF Environment, PruneVolume, PruneImage, OtherReleases, StopLands, DeployStarts,
     HealthCheckFails, OperatorStarts
<1> QED
  BY <1>1, <1>2, <1>3, <1>4, <1>5, <1>6 DEF Next, Process

\* The looks keep their form: time stops being counted at MaxWait.
LEMMA LookTypesKept ==
  ASSUME LookTypes, PinTypes, LookFits, Next
  PROVE  LookTypes'
<1> USE DEF LookTypes, serverVars, pinVars, journalVars, processVars
<1>1. NoLook \in [timeout : {0, DeployTimeout}, settle : {0, SettleWindow}, waited : 0 .. MaxWait,
                  since : {None} \cup (0 .. MaxWait), missing : SUBSET Volumes,
                  left : SUBSET Volumes]
  BY WindowsAreNat DEF NoLook
<1>2. Done => LookTypes'
  BY <1>1 DEF Done
<1>3. CASE Rollback \/ Unpin
  BY <1>1, <1>3, WindowsAreNat DEF Rollback, Unpin, NoLook
<1>4. CASE Restart
  BY <1>4 DEF Restart
<1>5. CASE BeginLook
  BY <1>5, AwaitedIsTyped DEF BeginLook
<1>6. CASE LookAt \/ ProbeFails
  <2>1. PICK v \in look.left :
          \/ look' = [look EXCEPT !.left = @ \ {v}]
          \/ look' = [look EXCEPT !.left = @ \ {v}, !.missing = @ \cup {v}]
    <3>1. CASE LookAt
      <4>1. PICK v \in look.left :
              look' = [look EXCEPT !.left = @ \ {v},
                                   !.missing = IF Referenced(v) THEN @ ELSE @ \cup {v}]
        BY <3>1 DEF LookAt
      <4> QED
        BY <4>1
    <3>2. CASE ProbeFails
      BY <3>2 DEF ProbeFails
    <3> QED
      BY <1>6, <3>1, <3>2
  <2>2. v \in Volumes
    OBVIOUS
  <2>3. CASE look' = [look EXCEPT !.left = @ \ {v}]
    BY <2>3
  <2>4. CASE look' = [look EXCEPT !.left = @ \ {v}, !.missing = @ \cup {v}]
    BY <2>2, <2>4
  <2> QED
    BY <2>1, <2>3, <2>4
<1>7. CASE Judge
  <2>1. Since \in {None} \cup (0 .. MaxWait)
    BY DEF Since
  <2> QED
    <3>1. Done \/ look' = look \/ look' = [look EXCEPT !.since = Since]
      BY <1>7 DEF Judge
    <3> QED
      BY <1>2, <2>1, <3>1
<1>8. CASE Tick
  <2>1. CASE pc = "sleep"
    <3>1. look.waited < MaxWait
      BY <2>1 DEF LookFits
    <3> QED
      BY <1>8, <2>1, <3>1, WindowsAreNat DEF Tick
  <2>2. CASE pc # "sleep"
    BY <1>8, <2>2 DEF Tick
  <2> QED
    BY <2>1, <2>2
<1>9. CASE Environment \/ Quiesce
  BY <1>9 DEF Environment, PruneVolume, PruneImage, OtherReleases, StopLands, DeployStarts,
     HealthCheckFails, OperatorStarts, Quiesce, Command
<1>10. CASE Ensure \/ ImportImage \/ CreatePin \/ Pinned \/ LookEnds \/ ReleasePin
  BY <1>10 DEF Ensure, ImportImage, CreatePin, Pinned, LookEnds, ReleasePin
<1>11. CASE CreateFails \/ RequestStop \/ ReleaseIdlePins \/ Released \/ Crash
  BY <1>2, <1>11 DEF CreateFails, RequestStop, ReleaseIdlePins, Released, Crash
<1> QED
  BY <1>3, <1>4, <1>5, <1>6, <1>7, <1>8, <1>9, <1>10, <1>11 DEF Next, Process

LEMMA FlagTypesKept ==
  ASSUME FlagTypes, Next
  PROVE  FlagTypes'
<1> USE DEF FlagTypes, serverVars, pinVars, journalVars, processVars
<1>1. CASE Process
  BY Zenon, <1>1 DEF Process, Ensure, ImportImage, CreatePin, CreateFails, Pinned, RequestStop,
     Restart, ReleaseIdlePins, BeginLook, LookAt, LookEnds, Judge, ReleasePin, Released, Done
<1>2. CASE ProbeFails \/ Crash \/ Tick \/ Quiesce \/ Rollback \/ Unpin
  BY Zenon, <1>2 DEF ProbeFails, Crash, Tick, Quiesce, Rollback, Unpin, Command, Done
<1>3. CASE Environment
  BY Zenon, <1>3 DEF Environment, PruneVolume, PruneImage, OtherReleases, StopLands, DeployStarts,
     HealthCheckFails, OperatorStarts
<1> QED
  BY <1>1, <1>2, <1>3 DEF Next

\* The journal, the process and the bounds keep their form.
LEMMA RestTypesKept ==
  ASSUME RestTypes, Next
  PROVE  RestTypes'
<1> USE DEF RestTypes, serverVars, pinVars, journalVars, processVars
<1>1. CASE Ensure \/ ImportImage \/ CreatePin \/ Pinned \/ Restart
  BY <1>1 DEF Ensure, ImportImage, CreatePin, Pinned, Restart
<1>2. CASE CreateFails \/ RequestStop
  BY <1>2 DEF CreateFails, RequestStop, Done
<1>3. CASE ReleaseIdlePins \/ Judge \/ Released
  BY <1>3 DEF ReleaseIdlePins, Judge, Released, Done
<1>4. CASE BeginLook \/ LookAt \/ LookEnds \/ ReleasePin \/ Tick
  BY <1>4 DEF BeginLook, LookAt, LookEnds, ReleasePin, Tick
<1>5. CASE Quiesce \/ Rollback \/ Unpin
  <2>1. PICK label \in {"ensure", "restart", "idle_pins"} : Command(label)
    BY <1>5 DEF Quiesce, Rollback, Unpin
  <2>2. commands' \in 0 .. MaxCommands /\ pc' = label /\ UNCHANGED faults
    BY <2>1, BoundsAssumption DEF Command
  <2>3. tries' = 0
    BY <2>1 DEF Command
  <2> QED
    BY <1>5, <2>2, <2>3 DEF Quiesce, Rollback, Unpin
<1>6. CASE ProbeFails \/ Crash
  <2>1. faults < MaxFaults /\ faults' = faults + 1 /\ UNCHANGED << stop, commands >>
    BY Zenon, <1>6 DEF ProbeFails, Crash
  <2>2. pc' \in {pc, "idle"} /\ tries' \in {tries, 0}
    BY <1>6 DEF ProbeFails, Crash, Done
  <2> QED
    BY <2>1, <2>2, BoundsAssumption
<1>7. CASE Environment
  BY <1>7 DEF Environment, PruneVolume, PruneImage, OtherReleases, StopLands, DeployStarts,
     HealthCheckFails, OperatorStarts
<1> QED
  BY <1>1, <1>2, <1>3, <1>4, <1>5, <1>6, <1>7 DEF Next, Process


-----------------------------------------------------------------------------
(***************************************************************************)
(* What a volume hangs on.                                                 *)
(***************************************************************************)
LEMMA OnOurPinIsPinned ==
  ASSUME NEW v
  PROVE  v \in PinnedBy("us") <=> OnOurPin(v)
BY DEF PinnedBy, OnOurPin

\* A pin of an awaited volume is not idle.
LEMMA PinnedIsExpected ==
  ASSUME IdleIsIdle, NEW v \in Awaitable
  PROVE  OnOurPin(v) => Expected(v)
BY DEF IdleIsIdle, OnOurPin, Expected, Awaitable

LEMMA ExpectedIsAwaited ==
  ASSUME NEW v \in Awaitable
  PROVE  Expected(v) <=> v \in Awaited
<1>1. v \notin Anonymous
  BY DEF Awaitable
<1>2. v \in UNION {p.volumes : p \in Waiting} <=> \E p \in Waiting : v \in p.volumes
  OBVIOUS
<1>3. \A p : p \in Waiting <=> p \in pins /\ p.of = "us" /\ ~p.idle
  BY Zenon DEF Waiting, OurPins
<1>4. v \in Awaited <=> v \in UNION {p.volumes : p \in Waiting}
  BY Zenon, <1>1 DEF Awaited
<1>5. Expected(v) <=> \E p \in Waiting : v \in p.volumes
  BY Zenon, <1>3 DEF Expected
<1> QED
  BY Zenon, <1>2, <1>4, <1>5

\* Only the releases take a pin of ours away.
LEMMA PinsStay ==
  ASSUME Next, ~ReleaseIdlePins, ~ReleasePin, NEW v
  PROVE  OnOurPin(v) => OnOurPin(v)'
<1> USE DEF OnOurPin, serverVars, pinVars, journalVars, processVars
<1>1. CASE CreatePin
  BY <1>1 DEF CreatePin
<1>2. CASE OtherReleases
  BY <1>2 DEF OtherReleases
<1>3. Process => CreatePin \/ UNCHANGED pins
  BY Zenon DEF Process, Ensure, ImportImage, CreateFails, Pinned, RequestStop, Restart, BeginLook,
     LookAt, LookEnds, Judge, Released
<1>4. Environment => OtherReleases \/ UNCHANGED pins
  BY Zenon DEF Environment, PruneVolume, PruneImage, StopLands, DeployStarts, HealthCheckFails,
     OperatorStarts
<1>5. ProbeFails \/ Crash \/ Tick \/ Quiesce \/ Rollback \/ Unpin => UNCHANGED pins
  BY Zenon DEF ProbeFails, Crash, Tick, Quiesce, Rollback, Unpin, Command
<1> QED
  BY <1>1, <1>2, <1>3, <1>4, <1>5 DEF Next

\* Only CreatePin, which is not part of a look or a release, adds one.
LEMMA NoPinIsAdded ==
  ASSUME Next, pc # "imported", NEW v
  PROVE  (OnOurPin(v)' => OnOurPin(v)) /\ (Expected(v)' => Expected(v))
<1> USE DEF OnOurPin, Expected, serverVars, pinVars, journalVars, processVars
<1>1. pins' \subseteq pins
  <2>1. Process => pins' \subseteq pins
    BY DEF Process, Ensure, ImportImage, CreatePin, CreateFails, Pinned, RequestStop, Restart,
       ReleaseIdlePins, BeginLook, LookAt, LookEnds, Judge, ReleasePin, Released
  <2>2. Environment => pins' \subseteq pins
    BY DEF Environment, PruneVolume, PruneImage, OtherReleases, StopLands, DeployStarts,
       HealthCheckFails, OperatorStarts
  <2>3. ProbeFails \/ Crash \/ Tick \/ Quiesce \/ Rollback \/ Unpin => pins' \subseteq pins
    BY DEF ProbeFails, Crash, Tick, Quiesce, Rollback, Unpin, Command
  <2> QED
    BY <2>1, <2>2, <2>3 DEF Next
<1> QED
  BY <1>1

\* A container that is there to stay goes only for the next stop.
LEMMA OnlyAStopEndsIt ==
  ASSUME ServerTypes, Next, ~RequestStop, NEW c \in Containers, ToStay(c)
  PROVE  ToStay(c)'
<1> USE DEF ToStay, serverVars, pinVars, journalVars, processVars
<1>1. CASE StopLands
  BY <1>1 DEF StopLands
<1>2. CASE DeployStarts
  <2>1. PICK d \in deploys :
          /\ IF up[d] = "absent" THEN Flaps \/ age[d] = Gap ELSE stopDue > 0
          /\ up' = [up EXCEPT ![d] = IF HealthWindow = 0 THEN "steady" ELSE "trial"]
          /\ UNCHANGED stopDue
    BY <1>2 DEF DeployStarts
  <2> QED
    BY <2>1 DEF ServerTypes
<1>3. CASE HealthCheckFails
  BY <1>3 DEF HealthCheckFails, Gone, ServerTypes
<1>4. CASE Tick
  <2>1. /\ stopDue' = 0
        /\ up' = [d \in Containers |-> IF up[d] = "trial" /\ age[d] + 1 >= HealthWindow
                                       THEN "steady" ELSE up[d]]
    BY <1>4 DEF Tick
  <2> QED
    BY <2>1
<1>5. CASE UNCHANGED << up, stopDue >>
  BY <1>5
<1>6. Process => UNCHANGED << up, stopDue >>
  BY Zenon DEF Process, Ensure, ImportImage, CreatePin, CreateFails, Pinned, Restart, ReleaseIdlePins,
     BeginLook, LookAt, LookEnds, Judge, ReleasePin, Released
<1>7. ProbeFails \/ Crash \/ Quiesce \/ Rollback \/ Unpin \/ PruneVolume \/ PruneImage
        \/ OtherReleases \/ OperatorStarts => UNCHANGED << up, stopDue >>
  BY Zenon DEF ProbeFails, Crash, Quiesce, Rollback, Unpin, Command, PruneVolume, PruneImage,
     OtherReleases, OperatorStarts
<1> QED
  BY <1>1, <1>2, <1>3, <1>4, <1>5, <1>6, <1>7 DEF Next, Environment

\* The pins that a volume still needs are not the ones that go.
LEMMA HeldStep ==
  ASSUME PinsInv, Next
  PROVE  Held'
<1> SUFFICES ASSUME NEW v \in Awaitable, NEW c \in Containers, Alone(c, v)
             PROVE  OnOurPin(v)' \/ ToStay(c)'
  BY DEF Held, Alone
<1>1. ServerTypes /\ (OnOurPin(v) \/ ToStay(c))
  BY TypeParts DEF PinsInv, Held
<1>2. CASE RequestStop
  BY <1>2 DEF RequestStop, PinsInv, PinsFirst, OnOurPin, pinVars
<1>3. CASE ReleaseIdlePins
  <2>1. UNCHANGED << up, stopDue >>
    BY <1>3 DEF ReleaseIdlePins, serverVars
  <2>2. OnOurPin(v) => OnOurPin(v)'
    BY <1>3 DEF ReleaseIdlePins, PinsInv, IdleIsIdle, OnOurPin, OurPins, Awaitable
  <2> QED
    BY <1>1, <2>1, <2>2 DEF ToStay
<1>4. CASE ReleasePin
  <2>1. pc = "release" /\ UNCHANGED << up, stopDue >>
    BY <1>4 DEF ReleasePin, serverVars
  <2>2. ToStay(c)
    BY <1>1, <2>1 DEF PinsInv, EvidenceHolds
  <2> QED
    BY <2>1, <2>2 DEF ToStay
<1>5. CASE ~RequestStop /\ ~ReleaseIdlePins /\ ~ReleasePin
  BY <1>1, <1>5, PinsStay, OnlyAStopEndsIt
<1> QED
  BY <1>2, <1>3, <1>4, <1>5

\* The cleanup finds a reference on whatever is held.
LEMMA DataStep ==
  ASSUME PinsInv, Next
  PROVE  DataIsThere'
<1> SUFFICES ASSUME NEW v \in Awaitable, NEW c \in Containers, Alone(c, v)
             PROVE  vol'[v] = "data"
  BY DEF DataIsThere, Alone
<1> USE DEF serverVars, pinVars, journalVars, processVars
<1>1. vol[v] = "data"
  BY DEF PinsInv, DataIsThere
<1>2. CASE PruneVolume
  <2>1. PICK w \in Volumes :
          /\ w \notin PinnedVolumes
          /\ \A d \in Containers : ~Mounts(d, w)
          /\ vol' = [vol EXCEPT ![w] = "gone"]
    BY <1>2 DEF PruneVolume
  <2>2. v # w
    <3>1. CASE OnOurPin(v)
      BY <2>1, <3>1, OnOurPinIsPinned DEF PinnedVolumes
    <3>2. CASE ToStay(c)
      <4>1. Mounts(c, v)
        BY <3>2 DEF ToStay, Mounts, Alone, Awaitable
      <4> QED
        BY <2>1, <4>1
    <3> QED
      BY <3>1, <3>2 DEF PinsInv, Held
  <2> QED
    BY <1>1, <2>1, <2>2, TypeParts DEF PinsInv, ServerTypes
<1>3. Process => UNCHANGED vol
  BY Zenon DEF Process, Ensure, ImportImage, CreatePin, CreateFails, Pinned, RequestStop, Restart,
     ReleaseIdlePins, BeginLook, LookAt, LookEnds, Judge, ReleasePin, Released
<1>4. ProbeFails \/ Crash \/ Tick \/ Quiesce \/ Rollback \/ Unpin => UNCHANGED vol
  BY Zenon DEF ProbeFails, Crash, Tick, Quiesce, Rollback, Unpin, Command
<1>5. PruneImage \/ OtherReleases \/ StopLands \/ DeployStarts \/ HealthCheckFails \/ OperatorStarts
        => UNCHANGED vol
  BY Zenon DEF PruneImage, OtherReleases, StopLands, DeployStarts, HealthCheckFails, OperatorStarts
<1> QED
  BY <1>1, <1>2, <1>3, <1>4, <1>5 DEF Next, Environment


\* Idle pins stay apart: Ensure tells them from the others, and nothing mixes them.
LEMMA IdleStep ==
  ASSUME PinTypes, IdleIsIdle, Next
  PROVE  IdleIsIdle'
<1> USE DEF IdleIsIdle, serverVars, pinVars, journalVars, processVars
<1>1. CASE Ensure
  <2>1. groups' = Todo({v \in Volumes : vol[v] = "data"} \ PinnedBy("us")) /\ UNCHANGED pins
    BY <1>1 DEF Ensure
  <2>2. {v \in Volumes : vol[v] = "data"} \ PinnedBy("us") \in SUBSET Volumes
    OBVIOUS
  <2>3. \A g \in groups' : g.of = "us" /\ (g.idle => g.volumes \subseteq Idle)
    BY <2>1, <2>2, TodoIsTyped
  <2> QED
    BY <2>1, <2>3
<1>2. CASE CreatePin
  BY <1>2 DEF CreatePin
<1>3. groups' \subseteq groups /\ pins' \subseteq pins => IdleIsIdle'
  OBVIOUS
<1>4. Process => Ensure \/ CreatePin \/ (groups' \subseteq groups /\ pins' \subseteq pins)
  BY DEF Process, ImportImage, CreateFails, Pinned, RequestStop, Restart, ReleaseIdlePins, BeginLook,
     LookAt, LookEnds, Judge, ReleasePin, Released, Done
<1>5. Environment => groups' \subseteq groups /\ pins' \subseteq pins
  BY DEF Environment, PruneVolume, PruneImage, OtherReleases, StopLands, DeployStarts,
     HealthCheckFails, OperatorStarts
<1>6. ProbeFails \/ Crash \/ Tick \/ Quiesce \/ Rollback \/ Unpin
        => groups' \subseteq groups /\ pins' \subseteq pins
  BY DEF ProbeFails, Crash, Tick, Quiesce, Rollback, Unpin, Command, Done
<1> QED
  BY <1>1, <1>2, <1>3, <1>4, <1>5, <1>6 DEF Next

\* What Ensure has found is pinned group by group, and only then is the stop asked for.
LEMMA PinsFirstStep ==
  ASSUME PinsInv, Next
  PROVE  PinsFirst'
<1> USE DEF serverVars, pinVars, journalVars, processVars
<1>1. ASSUME NEW v \in Awaitable, NEW c \in Containers, Alone(c, v)
      PROVE  /\ pc' \in {"create", "imported"} => AboutToBe(v)'
             /\ pc' = "stop" => OnOurPin(v)'
  <2>1. CASE Ensure
    <3>1. vol[v] = "data" /\ v \in Volumes /\ v \notin Idle
      BY <1>1 DEF PinsInv, DataIsThere, Awaitable
    <3>2. OnOurPin(v) \/ \E g \in groups' : v \in g.volumes
      <4> DEFINE wanted == {w \in Volumes : vol[w] = "data"} \ PinnedBy("us")
      <4>1. CASE v \in wanted
        <5>1. [of |-> "us", volumes |-> wanted \ Idle, idle |-> FALSE] \in Todo(wanted)
          BY <3>1, <4>1 DEF Todo
        <5> QED
          BY <2>1, <3>1, <4>1, <5>1 DEF Ensure
      <4>2. CASE v \notin wanted
        BY <3>1, <4>2, OnOurPinIsPinned
      <4> QED
        BY <4>1, <4>2
    <3> QED
      BY <2>1, <3>2 DEF Ensure, AboutToBe, OnOurPin
  <2>2. CASE CreatePin
    <3>1. PICK g \in groups : pins' = pins \cup {g} /\ groups' = groups \ {g}
      BY <2>2 DEF CreatePin
    <3>2. g.of = "us"
      BY DEF PinsInv, IdleIsIdle
    <3>3. pc = "imported" /\ pc' = "create"
      BY <2>2 DEF CreatePin
    <3> QED
      BY <1>1, <3>1, <3>2, <3>3 DEF PinsInv, PinsFirst, AboutToBe, OnOurPin
  <2>3. CASE ImportImage \/ Pinned
    BY <1>1, <2>3 DEF ImportImage, Pinned, PinsInv, PinsFirst, AboutToBe, OnOurPin
  <2>4. CASE CreateFails \/ RequestStop \/ Crash \/ Released
    BY <1>1, <2>4 DEF CreateFails, RequestStop, Crash, Released, Done, PinsInv, PinsFirst, AboutToBe,
       OnOurPin
  <2>5. CASE Restart \/ ReleaseIdlePins \/ BeginLook \/ LookAt \/ LookEnds \/ Judge \/ ReleasePin
               \/ ProbeFails
    BY <2>5 DEF Restart, ReleaseIdlePins, BeginLook, LookAt, LookEnds, Judge, ReleasePin, ProbeFails,
       Done
  <2>6. CASE Tick \/ Quiesce \/ Rollback \/ Unpin
    BY <2>6 DEF Tick, Quiesce, Rollback, Unpin, Command
  <2>7. CASE Environment
    <3>1. OnOurPin(v) => OnOurPin(v)'
      BY <2>7, PinsStay DEF Environment, PruneVolume, PruneImage, StopLands, DeployStarts, OtherReleases,
         HealthCheckFails, OperatorStarts, OnOurPin
    <3>2. UNCHANGED << pc, groups >>
      BY Zenon, <2>7 DEF Environment, PruneVolume, PruneImage, OtherReleases, StopLands, DeployStarts,
         HealthCheckFails, OperatorStarts
    <3> QED
      BY <1>1, <3>1, <3>2 DEF PinsInv, PinsFirst, AboutToBe
  <2> QED
    BY <2>1, <2>2, <2>3, <2>4, <2>5, <2>6, <2>7 DEF Next, Process
<1>2. ASSUME stop' = "none"
      PROVE  stopDue' = 0 /\ deploys' = {} /\ \A c \in Containers : up'[c] = "steady"
  <2>1. stop = "none" /\ ~RequestStop
    <3>1. CASE RequestStop \/ Restart
      BY <1>2, <3>1 DEF RequestStop, Restart, PinsInv, LookFits
    <3>2. Process => RequestStop \/ Restart \/ UNCHANGED stop
      BY Zenon DEF Process, Ensure, ImportImage, CreatePin, CreateFails, Pinned, ReleaseIdlePins,
         BeginLook, LookAt, LookEnds, Judge, ReleasePin, Released
    <3>3. ProbeFails \/ Crash \/ Tick \/ Quiesce \/ Rollback \/ Unpin \/ Environment => UNCHANGED stop
      BY Zenon DEF ProbeFails, Crash, Tick, Quiesce, Rollback, Unpin, Command, Environment,
         PruneVolume, PruneImage, OtherReleases, StopLands, DeployStarts, HealthCheckFails,
         OperatorStarts
    <3> QED
      BY <1>2, <3>1, <3>2, <3>3 DEF Next, RequestStop
  <2>2. stopDue = 0 /\ deploys = {} /\ \A c \in Containers : up[c] = "steady"
    BY <2>1 DEF PinsInv, PinsFirst
  <2>3. \A c \in Containers : up'[c] = "steady"
    <3> SUFFICES ASSUME NEW c \in Containers PROVE up'[c] = "steady"
      OBVIOUS
    <3>1. ToStay(c)
      BY <2>2 DEF ToStay
    <3> QED
      BY <2>1, <3>1, OnlyAStopEndsIt, TypeParts DEF PinsInv, ToStay
  <2>4. stopDue' = 0
    <3>1. CASE Tick
      BY <2>2, <3>1 DEF Tick
    <3>2. CASE ~Tick
      <4>1. StopLands => stopDue' = 0
        BY DEF StopLands
      <4>2. Process => RequestStop \/ UNCHANGED stopDue
        BY Zenon DEF Process, Ensure, ImportImage, CreatePin, CreateFails, Pinned, Restart,
           ReleaseIdlePins, BeginLook, LookAt, LookEnds, Judge, ReleasePin, Released
      <4>3. ProbeFails \/ Crash \/ Quiesce \/ Rollback \/ Unpin \/ Environment
              => StopLands \/ UNCHANGED stopDue
        BY Zenon DEF ProbeFails, Crash, Quiesce, Rollback, Unpin, Command, Environment,
           PruneVolume, PruneImage, OtherReleases, DeployStarts, HealthCheckFails, OperatorStarts
      <4> QED
        BY <2>1, <2>2, <3>2, <4>1, <4>2, <4>3 DEF Next
    <3> QED
      BY <3>1, <3>2
  <2>5. deploys' = {}
    <3>1. CASE OperatorStarts
      BY <2>2, <3>1 DEF OperatorStarts
    <3>2. CASE Restart
      BY <2>1, <3>2 DEF Restart, PinsInv, LookFits
    <3>3. CASE DeployStarts
      BY <2>2, <3>3 DEF DeployStarts
    <3>4. Process => RequestStop \/ Restart \/ UNCHANGED deploys
      BY Zenon DEF Process, Ensure, ImportImage, CreatePin, CreateFails, Pinned, ReleaseIdlePins,
         BeginLook, LookAt, LookEnds, Judge, ReleasePin, Released
    <3>5. ProbeFails \/ Crash \/ Tick \/ Quiesce \/ Rollback \/ Unpin \/ Environment
            => OperatorStarts \/ DeployStarts \/ UNCHANGED deploys
      BY Zenon DEF ProbeFails, Crash, Tick, Quiesce, Rollback, Unpin, Command, Environment,
         PruneVolume, PruneImage, OtherReleases, StopLands, HealthCheckFails
    <3> QED
      BY <2>1, <2>2, <3>1, <3>2, <3>3, <3>4, <3>5 DEF Next
  <2> QED
    BY <2>3, <2>4, <2>5
<1> QED
  BY <1>1, <1>2 DEF PinsFirst, Alone


-----------------------------------------------------------------------------
(***************************************************************************)
(* The looks.                                                              *)
(***************************************************************************)
\* Neither pins nor commands touch what a look depends on.
LEMMA OutsideTheLoop ==
  /\ PruneVolume \/ PruneImage \/ OtherReleases
       => UNCHANGED << up, age, stopDue, deploys, stop, pc, look >>
  /\ StopLands \/ DeployStarts \/ HealthCheckFails \/ OperatorStarts => UNCHANGED << stop, pc, look >>
  /\ Ensure \/ ImportImage \/ CreatePin \/ Pinned => pc' \in {"create", "imported", "stop"}
  /\ Quiesce => pc' = "ensure" /\ UNCHANGED look
  /\ Released \/ RequestStop \/ Crash => pc' = "idle" /\ look' = NoLook
BY DEF PruneVolume, PruneImage, OtherReleases, StopLands, DeployStarts, HealthCheckFails, OperatorStarts,
   Ensure, ImportImage, CreatePin, Pinned, Quiesce, Command, Released, RequestStop, Crash, Done,
   serverVars, pinVars, journalVars, processVars

\* A queued stop comes no nearer than the time that passes between the looks.
LEMMA LookFitsStep ==
  ASSUME PinsInv, Next
  PROVE  LookFits'
<1> USE DEF serverVars, pinVars, journalVars, processVars
<1>1. ServerTypes /\ LookTypes /\ RestTypes /\ LookFits
  BY TypeParts DEF PinsInv
<1>2. ASSUME pc' \notin {"restart", "idle_pins", "begin_look", "look", "judge", "sleep"},
             look'.since <= look'.waited
      PROVE  LookFits'
  BY <1>2 DEF LookFits, InLoop
<1>3. NoLook.since <= NoLook.waited
  BY WindowsAreNat DEF NoLook
<1>4. CASE Ensure \/ ImportImage \/ CreatePin \/ Pinned \/ Quiesce
  <2>1. UNCHANGED look
    BY <1>4 DEF Ensure, ImportImage, CreatePin, Pinned, Quiesce, Command
  <2> QED
    BY <1>1, <1>2, <1>4, <2>1, OutsideTheLoop DEF LookFits
<1>5. CASE Released \/ RequestStop \/ Crash
  BY <1>2, <1>3, <1>5, OutsideTheLoop
<1>6. CASE CreateFails
  <2>1. pc' \in {"create", "idle"} /\ look' \in {look, NoLook}
    BY <1>6 DEF CreateFails, Done
  <2> QED
    BY <1>1, <1>2, <1>3, <2>1 DEF LookFits
<1>7. CASE ReleasePin
  BY <1>1, <1>2, <1>7 DEF ReleasePin, LookFits
<1>8. CASE Rollback
  <2>1. /\ pc' = (IF stop = "asked" THEN "restart" ELSE "idle_pins")
        /\ look' = [NoLook EXCEPT
             !.timeout = IF stop = "restarted" THEN DeployTimeout ELSE 0,
             !.settle = IF stop = "restarted" THEN SettleWindow ELSE 0]
        /\ UNCHANGED stop
    BY <1>8 DEF Rollback, Command
  <2>2. look'.waited = 0 /\ look'.since = None
        /\ look'.settle = (IF stop = "restarted" THEN SettleWindow ELSE 0)
    BY <2>1 DEF NoLook
  <2> QED
    BY <1>1, <2>1, <2>2, WindowsAreNat DEF RestTypes, LookFits, InLoop
<1>9. CASE Unpin
  <2>1. /\ pc' = "idle_pins"
        /\ look' = [NoLook EXCEPT !.settle = SettleWindow]
    BY <1>9 DEF Unpin, Command
  <2>2. look'.waited = 0 /\ look'.since = None /\ look'.settle = SettleWindow
    BY <2>1 DEF NoLook
  <2> QED
    BY <2>1, <2>2, WindowsAreNat DEF LookFits, InLoop
<1>10. CASE Restart
  <2>1. /\ pc = "restart" /\ pc' = "idle_pins"
        /\ look'.waited = look.waited /\ look'.since = look.since
        /\ \/ look'.settle = SettleWindow
           \/ UNCHANGED << stop, look >>
    BY <1>1, <1>10 DEF Restart, LookTypes
  <2> QED
    BY <1>1, <2>1 DEF LookFits, InLoop
<1>11. CASE ReleaseIdlePins
  <2>1. CASE pc' = "begin_look" /\ UNCHANGED << look, stop, stopDue >> /\ LookAllowed
    BY <1>1, <1>11, <2>1, WindowsAreNat DEF ReleaseIdlePins, LookFits, InLoop, LookAllowed, ServerTypes
  <2>2. CASE Done
    BY <1>2, <1>3, <2>2 DEF Done
  <2> QED
    BY <1>11, <2>1, <2>2 DEF ReleaseIdlePins
<1>12. CASE BeginLook \/ LookAt \/ ProbeFails \/ LookEnds
  <2>1. /\ UNCHANGED << stop, stopDue >>
        /\ look'.waited = look.waited /\ look'.since = look.since /\ look'.settle = look.settle
    BY <1>1, <1>12 DEF BeginLook, LookAt, ProbeFails, LookEnds, LookTypes
  <2>2. InLoop /\ pc' \in {"look", "judge"} /\ (pc' = "judge" => look'.left = {})
    BY <1>12 DEF BeginLook, LookAt, ProbeFails, LookEnds, InLoop
  <2> QED
    BY <1>1, <2>1, <2>2 DEF LookFits, InLoop
<1>13. CASE Judge
  <2>1. CASE pc' = "release" /\ UNCHANGED look
    BY <1>1, <1>2, <2>1 DEF LookFits
  <2>2. CASE Done
    BY <1>2, <1>3, <2>2 DEF Done
  <2>3. CASE pc' = "sleep" /\ look' = [look EXCEPT !.since = Since] /\ look.waited < MaxWait
    <3>1. Since <= look.waited
      BY <1>1, WindowsAreNat DEF LookFits, LookTypes, Since
    <3>2. /\ look'.waited = look.waited /\ look'.since = Since
          /\ look'.settle = look.settle /\ UNCHANGED << stop, stopDue >> /\ pc = "judge"
      BY <1>1, <1>13, <2>3 DEF LookTypes, Judge
    <3> QED
      BY <1>1, <2>3, <3>1, <3>2 DEF LookFits, InLoop
  <2> QED
    BY <1>13, <2>1, <2>2, <2>3 DEF Judge
<1>14. CASE Tick
  <2>1. UNCHANGED stop /\ stopDue' = (IF stopDue = 0 THEN 0 ELSE stopDue - 1)
    BY <1>1, <1>14, WindowsAreNat DEF Tick, ServerTypes
  <2>2. CASE pc = "sleep"
    <3>1. /\ pc' = "begin_look" /\ look' = [look EXCEPT !.waited = @ + 1]
      BY <1>14, <2>2 DEF Tick
    <3>2. /\ look'.waited = look.waited + 1 /\ look'.since = look.since
          /\ look'.settle = look.settle
      BY <1>1, <3>1 DEF LookTypes
    <3>3. look.waited \in Nat /\ look.since \in Int /\ stopDue \in Nat
      BY <1>1, WindowsAreNat DEF LookTypes, ServerTypes
    <3> QED
      BY <1>1, <2>1, <2>2, <3>1, <3>2, <3>3, WindowsAreNat DEF LookFits, InLoop
  <2>3. CASE pc = "idle" /\ UNCHANGED << pc, look >>
    BY <1>1, <1>2, <2>3 DEF LookFits
  <2> QED
    BY <1>14, <2>2, <2>3 DEF Tick
<1>15. CASE Environment
  <2>1. UNCHANGED << stop, pc, look >>
    BY <1>15, OutsideTheLoop DEF Environment
  <2>2. stopDue' \in {0, stopDue}
    BY <1>15, OutsideTheLoop DEF Environment, StopLands, DeployStarts, HealthCheckFails, OperatorStarts
  <2> QED
    BY <1>1, <2>1, <2>2 DEF LookFits, InLoop
<1> QED
  BY <1>4, <1>5, <1>6, <1>7, <1>8, <1>9, <1>10, <1>11, <1>12, <1>13, <1>14, <1>15 DEF Next, Process


\* Looks across the whole window leave nothing but containers that are there to stay:
\* the stop has landed, the trials are over, and a gap would have been seen.
LEMMA SettledIsEvidence ==
  ASSUME PinsInv, pc = "judge", Settled,
         NEW v \in Awaitable, NEW c \in Containers, Alone(c, v), OnOurPin(v)
  PROVE  ToStay(c)
<1>1. ServerTypes /\ LookTypes /\ LookFits
  BY TypeParts DEF PinsInv
<1>2. Expected(v) /\ v \in Awaited
  BY PinnedIsExpected, ExpectedIsAwaited DEF PinsInv
<1>3. look.missing = {} /\ look.waited - Since >= look.settle
  BY <1>2 DEF Settled, Since
<1>4. Since = (IF look.since = None THEN look.waited ELSE look.since)
  BY <1>3 DEF Since
<1>5. look.waited \in Nat /\ (look.since = None \/ look.since \in Nat) /\ look.since <= look.waited
  BY <1>1, WindowsAreNat DEF LookTypes, LookFits
<1>6. look.waited - Since = Elapsed /\ Elapsed <= look.waited /\ Elapsed \in Int
  BY <1>4, <1>5 DEF Elapsed, None
<1>7. CASE stop = "none"
  BY <1>7 DEF PinsInv, PinsFirst, ToStay
<1>8. CASE look.settle = SettleWindow
  <2>1. Looked(v)
    BY <1>1, <1>3 DEF Looked, LookFits
  <2>2. ThereAllAlong(c) \/ GoneSinceLook(c)
    BY <1>2, <2>1 DEF PinsInv, Window
  <2>3. stopDue = 0
    BY <1>1, <1>3, <1>5, <1>6, <1>8, WindowsAreNat DEF LookFits, InLoop, ServerTypes
  <2>4. Elapsed >= SettleWindow
    BY <1>3, <1>6, <1>8
  <2>5. ~GoneSinceLook(c)
    BY <1>5, <2>4, WindowsAreNat DEF GoneSinceLook, Elapsed
  <2>6. up[c] # "trial"
    <3>1. ASSUME up[c] = "trial"
          PROVE  FALSE
      <4>1. age[c] >= Elapsed /\ age[c] < HealthWindow /\ age[c] \in Nat
        BY <1>1, <2>2, <2>3, <2>5, <3>1, WindowsAreNat DEF ThereAllAlong, PinsInv, OnTrial, ServerTypes
      <4> QED
        BY <1>5, <2>4, <4>1, WindowsAreNat DEF Elapsed
    <3> QED
      BY <3>1
  <2> QED
    BY <2>2, <2>3, <2>5, <2>6 DEF ThereAllAlong, ToStay
<1> QED
  BY <1>1, <1>7, <1>8 DEF LookFits, InLoop

\* Pins are removed on evidence, and it does not go stale while they are.
LEMMA EvidenceStep ==
  ASSUME PinsInv, Next
  PROVE  EvidenceHolds'
<1> USE DEF serverVars, pinVars, journalVars, processVars
<1> SUFFICES ASSUME pc' = "release", NEW v \in Awaitable, NEW c \in Containers, Alone(c, v), OnOurPin(v)'
             PROVE  ToStay(c)'
  BY DEF EvidenceHolds, Alone
<1>1. ServerTypes
  BY TypeParts DEF PinsInv
<1>2. pc = "release" \/ (Judge /\ Settled)
  <2>1. Process => pc' # "release" \/ pc = "release" \/ (Judge /\ Settled)
    BY DEF Process, Ensure, ImportImage, CreatePin, CreateFails, Pinned, RequestStop, Restart,
       ReleaseIdlePins, BeginLook, LookAt, LookEnds, Judge, ReleasePin, Released, Done
  <2>2. ProbeFails \/ Crash \/ Tick \/ Quiesce \/ Rollback \/ Unpin => pc' # "release"
    BY DEF ProbeFails, Crash, Tick, Quiesce, Rollback, Unpin, Command, Done
  <2>3. Environment => UNCHANGED pc
    BY Zenon DEF Environment, PruneVolume, PruneImage, OtherReleases, StopLands, DeployStarts,
       HealthCheckFails, OperatorStarts
  <2> QED
    BY <2>1, <2>2, <2>3 DEF Next
<1>3. pc # "imported" /\ ~RequestStop
  BY <1>2 DEF Judge, RequestStop
<1>4. OnOurPin(v)
  BY <1>3, NoPinIsAdded
<1>5. ToStay(c)
  BY <1>2, <1>4, SettledIsEvidence DEF Judge, PinsInv, EvidenceHolds
<1> QED
  BY <1>1, <1>3, <1>5, OnlyAStopEndsIt


\* The time all looks have found everything is part of the time waited.
LEMMA ElapsedIsWaited ==
  ASSUME LookTypes, LookFits
  PROVE  /\ Elapsed \in Nat /\ Elapsed <= look.waited
         /\ look.waited \in Nat /\ look.since \in Int
BY WindowsAreNat DEF LookTypes, LookFits, Elapsed

\* Whoever goes during a look goes before the window is over.
LEMMA GoingTakesTime ==
  ASSUME PinsInv, InLoop, NEW c \in Containers,
         stopDue > 0 \/ (up[c] = "trial" /\ ThereAllAlong(c))
  PROVE  Elapsed < SettleWindow
<1>1. ServerTypes /\ LookTypes /\ LookFits /\ OnTrial
  BY TypeParts DEF PinsInv
<1>2. CASE stopDue > 0
  BY <1>1, <1>2, ElapsedIsWaited, WindowsAreNat DEF LookFits, ServerTypes
<1>3. CASE stopDue = 0 /\ up[c] = "trial" /\ ThereAllAlong(c)
  BY <1>1, <1>3, ElapsedIsWaited, WindowsAreNat DEF ThereAllAlong, OnTrial, ServerTypes
<1> QED
  BY <1>1, <1>2, <1>3, WindowsAreNat DEF ServerTypes

\* The server's steps: a container that goes is away for the next look.
LEMMA WindowAndServer ==
  ASSUME PinsInv, Flaps = FALSE, StopLands \/ DeployStarts \/ HealthCheckFails,
         NEW c \in Containers, InLoop
  PROVE  /\ ThereAllAlong(c) \/ GoneSinceLook(c) => ThereAllAlong(c)' \/ GoneSinceLook(c)'
         /\ ThereAllAlong(c) \/ GoneForThisLook(c) => ThereAllAlong(c)' \/ GoneForThisLook(c)'
<1> USE DEF serverVars, pinVars, journalVars, processVars
<1>1. ServerTypes /\ LookTypes /\ LookFits
  BY TypeParts DEF PinsInv
<1>2. Elapsed' = Elapsed /\ Elapsed \in Nat
  BY <1>1, OutsideTheLoop, ElapsedIsWaited DEF Elapsed
<1>3. ASSUME Gone({c}) \/ (Gone(Containers) /\ stopDue > 0),
             stopDue > 0 \/ up[c] = "trial"
      PROVE  /\ up'[c] = "absent"
             /\ age'[c] = (IF up[c] = "absent" THEN age[c] ELSE 0)
             /\ ThereAllAlong(c) => Elapsed < SettleWindow
  <2>1. ThereAllAlong(c) => Elapsed < SettleWindow
    BY <1>3, GoingTakesTime
  <2> QED
    BY <1>1, <1>3, <2>1 DEF Gone, ServerTypes
<1>4. CASE StopLands
  BY <1>2, <1>3, <1>4 DEF StopLands, ThereAllAlong, GoneSinceLook, GoneForThisLook
<1>5. CASE HealthCheckFails
  <2>1. PICK d \in Containers : up[d] = "trial" /\ Gone({d}) /\ UNCHANGED stopDue
    BY <1>5 DEF HealthCheckFails
  <2>2. CASE d = c
    BY <1>2, <1>3, <2>1, <2>2 DEF ThereAllAlong, GoneSinceLook, GoneForThisLook
  <2>3. CASE d # c
    <3>1. up'[c] = up[c] /\ age'[c] = age[c]
      BY <1>1, <2>1, <2>3 DEF Gone, ServerTypes
    <3> QED
      BY <1>2, <2>1, <3>1 DEF ThereAllAlong, GoneSinceLook, GoneForThisLook
  <2> QED
    BY <2>2, <2>3
<1>6. CASE DeployStarts
  <2>1. PICK d \in deploys :
          /\ IF up[d] = "absent" THEN Flaps \/ age[d] = Gap ELSE stopDue > 0
          /\ up' = [up EXCEPT ![d] = IF HealthWindow = 0 THEN "steady" ELSE "trial"]
          /\ age' = [age EXCEPT ![d] = 0]
          /\ UNCHANGED stopDue
    BY <1>6 DEF DeployStarts
  <2>2. CASE d = c /\ up[c] = "absent"
    <3>1. age[c] = 2
      BY <2>1, <2>2 DEF Gap
    <3> QED
      BY <2>2, <3>1 DEF ThereAllAlong, GoneSinceLook, GoneForThisLook
  <2>3. CASE d = c /\ up[c] # "absent"
    <3>1. up'[c] \in {"steady", "trial"} /\ stopDue' > 0
      BY <1>1, <2>1, <2>3 DEF ServerTypes
    <3> QED
      BY <3>1 DEF ThereAllAlong
  <2>4. CASE d # c
    <3>1. up'[c] = up[c] /\ age'[c] = age[c]
      BY <1>1, <2>1, <2>4 DEF ServerTypes
    <3> QED
      BY <1>2, <2>1, <3>1 DEF ThereAllAlong, GoneSinceLook, GoneForThisLook
  <2> QED
    BY <2>2, <2>3, <2>4
<1> QED
  BY <1>4, <1>5, <1>6

\* An interval between two looks: whoever was there is there for longer, and whoever
\* went is not back.
LEMMA WindowAndTime ==
  ASSUME PinsInv, Tick, pc = "sleep", NEW c \in Containers, ThereAllAlong(c) \/ GoneSinceLook(c),
         look.since # None
  PROVE  ThereAllAlong(c)' \/ GoneForThisLook(c)'
<1>1. ServerTypes /\ LookTypes /\ LookFits
  BY TypeParts DEF PinsInv
<1>2. Elapsed' = Elapsed + 1 /\ Elapsed \in Nat
  <2>1. look' = [look EXCEPT !.waited = @ + 1]
    BY Zenon DEF Tick
  <2>2. look'.waited = look.waited + 1 /\ look'.since = look.since
    BY <1>1, <2>1 DEF LookTypes
  <2> QED
    BY <1>1, <2>2, ElapsedIsWaited DEF Elapsed
<1>3. CASE stopDue = 1 /\ stopDue' = 0 /\ Gone(Containers)
  BY <1>1, <1>3 DEF Gone, ServerTypes, ThereAllAlong, GoneSinceLook, GoneForThisLook
<1>4. CASE stopDue # 1
  <2> DEFINE NewAge(d) == CASE up'[d] = "steady" -> 0
                            [] up'[d] = "trial" -> age[d] + 1
                            [] up'[d] = "absent" -> IF age[d] = Gap THEN Gap ELSE age[d] + 1
  <2>1. /\ stopDue' = (IF stopDue = 0 THEN 0 ELSE stopDue - 1)
        /\ up' = [d \in Containers |-> IF up[d] = "trial" /\ age[d] + 1 >= HealthWindow
                                       THEN "steady" ELSE up[d]]
        /\ age' = [d \in Containers |-> NewAge(d)]
    BY <1>4 DEF Tick
  <2>2. up[c] = "steady" => up'[c] = "steady"
    BY <2>1
  <2>3. up[c] = "trial" => up'[c] = "steady" \/ (up'[c] = "trial" /\ age'[c] = age[c] + 1)
    BY <2>1
  <2>4. up[c] = "absent" => up'[c] = "absent" /\ (age[c] = 0 => age'[c] = 1)
    BY <2>1 DEF Gap
  <2>5. stopDue > 0 => stopDue' > 0
    BY <1>1, <1>4, <2>1, WindowsAreNat DEF ServerTypes
  <2>6. age[c] \in Nat
    BY <1>1, WindowsAreNat DEF ServerTypes
  <2> HIDE DEF NewAge
  <2> QED
    BY <1>2, <2>2, <2>3, <2>4, <2>5, <2>6 DEF ThereAllAlong, GoneSinceLook, GoneForThisLook
<1> QED
  BY <1>3, <1>4 DEF Tick


\* A look at one volume: what is found mounted is mounted by the only container there is.
LEMMA WindowAndLook ==
  ASSUME PinsInv, LookAt, NEW v \in Awaitable, NEW c \in Containers, Alone(c, v), Expected(v)
  PROVE  /\ Looked(v)' => ThereAllAlong(c)' \/ GoneSinceLook(c)'
         /\ ToBeLookedAt(v)' => ThereAllAlong(c)' \/ GoneForThisLook(c)'
<1> USE DEF serverVars, pinVars, journalVars
<1>1. ServerTypes /\ LookTypes /\ LookFits
  BY TypeParts DEF PinsInv
<1>2. PICK w \in look.left :
        look' = [look EXCEPT !.left = @ \ {w},
                             !.missing = IF Referenced(w) THEN @ ELSE @ \cup {w}]
  BY DEF LookAt
<1>3. /\ look'.waited = look.waited /\ look'.since = look.since
      /\ look'.left = look.left \ {w}
      /\ look'.missing = (IF Referenced(w) THEN look.missing ELSE look.missing \cup {w})
  BY <1>1, <1>2 DEF LookTypes
<1>4. pc = "look" /\ pc' = "look" /\ UNCHANGED << up, age, stopDue >>
  BY DEF LookAt
<1>5. /\ ThereAllAlong(c)' <=> ThereAllAlong(c)
      /\ GoneSinceLook(c)' <=> GoneSinceLook(c)
      /\ GoneForThisLook(c)' <=> GoneForThisLook(c)
  BY <1>3, <1>4 DEF ThereAllAlong, GoneSinceLook, GoneForThisLook, Elapsed
<1>6. CASE w # v
  <2>1. (Looked(v)' => Looked(v)) /\ (ToBeLookedAt(v)' => ToBeLookedAt(v))
    BY <1>3, <1>4, <1>6 DEF Looked, ToBeLookedAt
  <2> QED
    BY <1>5, <2>1 DEF PinsInv, Window
<1>7. CASE w = v
  <2>1. ~ToBeLookedAt(v)'
    BY <1>3, <1>4, <1>7 DEF ToBeLookedAt
  <2>2. ASSUME Looked(v)'
        PROVE  ThereAllAlong(c)
    <3>1. look.missing = {} /\ Referenced(v)
      BY <1>3, <1>4, <1>7, <2>2 DEF Looked
    <3>2. up[c] # "absent"
      BY <3>1 DEF Referenced, Mounts, Alone
    <3>3. CASE look.since = None
      BY <1>1, <3>2, <3>3, WindowsAreNat DEF ThereAllAlong, Elapsed, ServerTypes
    <3>4. CASE look.since # None
      BY <1>4, <1>7, <3>1, <3>2, <3>4 DEF ToBeLookedAt, PinsInv, Window, GoneForThisLook
    <3> QED
      BY <3>3, <3>4
  <2> QED
    BY <1>5, <2>1, <2>2
<1> QED
  BY <1>6, <1>7

\* Who was seen in all looks of the window was there all along, or is gone for the next.
LEMMA WindowStep ==
  ASSUME PinsInv, Flaps = FALSE, Next
  PROVE  Window'
<1> USE DEF serverVars, pinVars, journalVars, processVars
<1> SUFFICES ASSUME NEW v \in Awaitable, NEW c \in Containers, Alone(c, v), Expected(v)'
             PROVE  /\ Looked(v)' => ThereAllAlong(c)' \/ GoneSinceLook(c)'
                    /\ ToBeLookedAt(v)' => ThereAllAlong(c)' \/ GoneForThisLook(c)'
  BY DEF Window, Alone
<1>1. ServerTypes /\ LookTypes /\ LookFits
  BY TypeParts DEF PinsInv
<1>2. ASSUME pc' \notin {"begin_look", "look", "judge", "sleep"}
      PROVE  ~Looked(v)' /\ ~ToBeLookedAt(v)'
  BY <1>2 DEF Looked, ToBeLookedAt
<1>3. ASSUME pc # "imported"
      PROVE  Expected(v)
  BY <1>3, NoPinIsAdded
<1>4. CASE Ensure \/ ImportImage \/ CreatePin \/ Pinned \/ Quiesce \/ Released \/ RequestStop \/ Crash
  BY <1>2, <1>4, OutsideTheLoop
<1>5. CASE CreateFails \/ ReleasePin \/ Restart \/ Rollback \/ Unpin
  BY <1>2, <1>5 DEF CreateFails, ReleasePin, Restart, Rollback, Unpin, Command, Done
<1>6. CASE ReleaseIdlePins
  <2>1. pc' = "idle" \/ (pc' = "begin_look" /\ look'.since = None)
    BY <1>1, <1>6 DEF ReleaseIdlePins, Done, LookFits
  <2> QED
    BY <2>1 DEF Looked, ToBeLookedAt
<1>7. CASE BeginLook
  <2>1. /\ pc = "begin_look" /\ pc' = "look" /\ UNCHANGED << up, age, stopDue >>
        /\ look'.waited = look.waited /\ look'.since = look.since /\ look'.left = Awaited
    BY <1>1, <1>7 DEF BeginLook, LookTypes
  <2>2. Expected(v) /\ v \in Awaited
    BY <1>3, <2>1, ExpectedIsAwaited
  <2>3. ~Looked(v)' /\ (ToBeLookedAt(v)' => ToBeLookedAt(v))
    BY <2>1, <2>2 DEF Looked, ToBeLookedAt
  <2>4. GoneForThisLook(c) \/ ThereAllAlong(c) => GoneForThisLook(c)' \/ ThereAllAlong(c)'
    BY <2>1 DEF ThereAllAlong, GoneForThisLook, Elapsed
  <2> QED
    BY <2>2, <2>3, <2>4 DEF PinsInv, Window
<1>8. CASE LookAt
  BY <1>3, <1>8, WindowAndLook DEF LookAt
<1>9. CASE ProbeFails
  <2>1. PICK w \in look.left : look' = [look EXCEPT !.left = @ \ {w}, !.missing = @ \cup {w}]
    BY <1>9 DEF ProbeFails
  <2>2. pc' = "look" /\ look'.missing # {}
    BY <1>1, <1>9, <2>1 DEF ProbeFails, LookTypes
  <2> QED
    BY <2>2 DEF Looked, ToBeLookedAt
<1>10. CASE LookEnds
  <2>1. /\ pc = "look" /\ pc' = "judge" /\ UNCHANGED << up, age, stopDue, look >>
    BY <1>10 DEF LookEnds
  <2>2. (Looked(v)' => Looked(v)) /\ ~ToBeLookedAt(v)'
    BY <2>1 DEF Looked, ToBeLookedAt
  <2>3. ThereAllAlong(c) \/ GoneSinceLook(c) => ThereAllAlong(c)' \/ GoneSinceLook(c)'
    BY <2>1 DEF ThereAllAlong, GoneSinceLook, Elapsed
  <2> QED
    BY <1>3, <2>1, <2>2, <2>3 DEF PinsInv, Window
<1>11. CASE Judge
  <2>1. CASE pc' \in {"release", "idle"}
    BY <1>2, <2>1
  <2>2. CASE pc' = "sleep" /\ look' = [look EXCEPT !.since = Since]
    <3>1. /\ pc = "judge" /\ UNCHANGED << up, age, stopDue >>
          /\ look'.waited = look.waited /\ look'.since = Since
      BY <1>1, <1>11, <2>2 DEF Judge, LookTypes
    <3>2. ~ToBeLookedAt(v)'
      BY <2>2 DEF ToBeLookedAt
    <3>3. ASSUME Looked(v)'
          PROVE  ThereAllAlong(c)' \/ GoneSinceLook(c)'
      <4>1. Since # None /\ look.missing = {} /\ look.left = {}
        BY <1>1, <2>2, <3>1, <3>3 DEF Looked, Since, LookFits
      <4>2. ThereAllAlong(c) \/ GoneSinceLook(c)
        BY <1>3, <3>1, <4>1 DEF Looked, PinsInv, Window
      <4>3. Elapsed' = Elapsed
        <5>1. CASE look.since = None
          <6>1. Since = look.waited
            BY <4>1, <5>1 DEF Since
          <6> QED
            BY <1>1, <3>1, <4>1, <5>1, <6>1, ElapsedIsWaited DEF Elapsed
        <5>2. CASE look.since # None
          BY <3>1, <4>1, <5>2 DEF Since, Elapsed
        <5> QED
          BY <5>1, <5>2
      <4> QED
        BY <3>1, <4>2, <4>3 DEF ThereAllAlong, GoneSinceLook
    <3> QED
      BY <3>2, <3>3
  <2> QED
    BY <1>11, <2>1, <2>2 DEF Judge, Done
<1>12. CASE Tick
  <2>1. CASE pc = "sleep"
    <3>1. /\ pc' = "begin_look" /\ look'.since = look.since
      BY <1>1, <1>12, <2>1 DEF Tick, LookTypes
    <3>2. ~Looked(v)' /\ (ToBeLookedAt(v)' => Looked(v) /\ look.since # None)
      BY <2>1, <3>1 DEF Looked, ToBeLookedAt
    <3>3. Looked(v) => ThereAllAlong(c) \/ GoneSinceLook(c)
      BY <1>3, <2>1 DEF PinsInv, Window
    <3> QED
      BY <1>12, <2>1, <3>2, <3>3, WindowAndTime
  <2>2. CASE pc = "idle" /\ pc' = "idle"
    BY <1>2, <2>2
  <2> QED
    BY <1>12, <2>1, <2>2 DEF Tick
<1>13. CASE StopLands \/ DeployStarts \/ HealthCheckFails
  <2>1. (Looked(v)' <=> Looked(v)) /\ (ToBeLookedAt(v)' <=> ToBeLookedAt(v))
    BY <1>13, OutsideTheLoop DEF Looked, ToBeLookedAt
  <2>2. CASE InLoop
    <3>1. Expected(v)
      BY <1>3, <2>2 DEF InLoop
    <3> QED
      BY <1>13, <2>1, <2>2, <3>1, WindowAndServer DEF PinsInv, Window
  <2>3. CASE ~InLoop
    BY <2>1, <2>3 DEF Looked, ToBeLookedAt, InLoop
  <2> QED
    BY <2>2, <2>3
<1>14. CASE PruneVolume \/ PruneImage \/ OtherReleases \/ OperatorStarts
  <2>1. UNCHANGED << up, age, stopDue, pc, look >>
    BY <1>14, OutsideTheLoop DEF OperatorStarts
  <2>2. (Looked(v)' <=> Looked(v)) /\ (ToBeLookedAt(v)' <=> ToBeLookedAt(v))
    BY <2>1 DEF Looked, ToBeLookedAt
  <2>3. /\ ThereAllAlong(c)' <=> ThereAllAlong(c)
        /\ GoneSinceLook(c)' <=> GoneSinceLook(c)
        /\ GoneForThisLook(c)' <=> GoneForThisLook(c)
    BY <2>1 DEF ThereAllAlong, GoneSinceLook, GoneForThisLook, Elapsed
  <2>4. Looked(v) \/ ToBeLookedAt(v) => Expected(v)
    BY <1>3 DEF Looked, ToBeLookedAt
  <2> QED
    BY <2>2, <2>3, <2>4 DEF PinsInv, Window
<1> QED
  BY <1>4, <1>5, <1>6, <1>7, <1>8, <1>9, <1>10, <1>11, <1>12, <1>13, <1>14 DEF Next, Process,
     Environment

-----------------------------------------------------------------------------
(***************************************************************************)
(* The invariant and the theorems.                                         *)
(***************************************************************************)
LEMMA PinsAtFirst == Init => PinTypes /\ IdleIsIdle
<1> SUFFICES ASSUME Init PROVE PinTypes /\ IdleIsIdle
  OBVIOUS
<1>1. image = FALSE /\ groups = {} /\ pins \in SUBSET OtherPins
  BY DEF Init
<1>2. ASSUME NEW p \in OtherPins
      PROVE  p \in PinRecords /\ p.of = "other"
  <2>1. p = [of |-> "other", volumes |-> Awaitable, idle |-> FALSE] /\ p.volumes # {}
    BY DEF OtherPins
  <2>2. Awaitable \in (SUBSET Volumes) \ {{}}
    BY <2>1 DEF Awaitable
  <2> QED
    BY <2>1, <2>2 DEF PinRecords
<1> QED
  BY <1>1, <1>2 DEF PinTypes, IdleIsIdle

LEMMA InitIsFine == Init => PinsInv
<1> SUFFICES ASSUME Init PROVE PinsInv
  OBVIOUS
<1> USE DEF Init
<1>1. ServerTypes /\ OnTrial
  <2>1. 0 \in 0 .. StopLag /\ 0 \in 0 .. HealthWindow + Gap
    BY WindowsAreNat
  <2> QED
    BY <2>1 DEF ServerTypes, OnTrial
<1>2. PinTypes /\ IdleIsIdle
  BY PinsAtFirst
<1>3. LookTypes
  BY WindowsAreNat DEF LookTypes, NoLook
<1>4. FlagTypes
  BY Zenon DEF FlagTypes
<1>5. RestTypes
  BY BoundsAssumption DEF RestTypes
<1>6. Held /\ DataIsThere
  BY DEF Held, DataIsThere, ToStay, Awaitable
<1>7. PinsFirst /\ LookFits /\ Window /\ EvidenceHolds
  BY WindowsAreNat DEF PinsFirst, LookFits, InLoop, NoLook, Window, Looked, ToBeLookedAt, EvidenceHolds
<1> QED
  BY <1>1, <1>2, <1>3, <1>4, <1>5, <1>6, <1>7, TypeParts DEF PinsInv

LEMMA InvStep ==
  ASSUME Flaps = FALSE
  PROVE  PinsInv /\ [Next]_vars => PinsInv'
<1> SUFFICES ASSUME PinsInv, [Next]_vars PROVE PinsInv'
  OBVIOUS
<1>1. CASE Next
  <2>1. ServerTypes /\ PinTypes /\ LookTypes /\ FlagTypes /\ RestTypes
    BY TypeParts DEF PinsInv
  <2>2. ServerTypes' /\ OnTrial' /\ PinTypes' /\ LookTypes' /\ FlagTypes' /\ RestTypes'
    BY <1>1, <2>1, ServerTypesKept, PinTypesKept, LookTypesKept, FlagTypesKept, RestTypesKept
       DEF PinsInv
  <2>3. TypeOK'
    BY <2>2, TypeParts DEF TypeOK, ServerTypes, PinTypes, LookTypes, FlagTypes, RestTypes
  <2>4. IdleIsIdle' /\ PinsFirst' /\ LookFits'
    BY <1>1, <2>1, IdleStep, PinsFirstStep, LookFitsStep DEF PinsInv
  <2>5. Held' /\ DataIsThere' /\ Window' /\ EvidenceHolds'
    BY <1>1, HeldStep, DataStep, WindowStep, EvidenceStep
  <2> QED
    BY <2>2, <2>3, <2>4, <2>5 DEF PinsInv
<1>2. CASE UNCHANGED vars
  BY <1>2 DEF vars, serverVars, pinVars, journalVars, processVars, PinsInv, TypeOK, OnTrial, IdleIsIdle,
     PinsFirst, LookFits, Held, DataIsThere, Window, EvidenceHolds, OnOurPin, AboutToBe, Expected, ToStay,
     InLoop, Elapsed, ThereAllAlong, GoneSinceLook, GoneForThisLook, Looked, ToBeLookedAt
<1> QED
  BY <1>1, <1>2

\* Each volume that waits to be mounted again has one container to mount it.
OneUserEach == \A v \in Awaitable : \E c \in Containers : Users[v] = {c}

\* Docker's cleanup takes no volume of the stack, whatever stop, deploy or health check
\* comes when: for volumes of one container each, which leaves no gap between two looks.
THEOREM NoVolumeIsPruned ==
  ASSUME Flaps = FALSE, OneUserEach
  PROVE  Spec => []DataSurvives
<1>1. PinsInv /\ [Next]_vars => PinsInv'
  BY InvStep
<1>2. PinsInv => DataSurvives
  BY DEF PinsInv, DataIsThere, DataSurvives, OneUserEach, Alone
<1> QED
  BY InitIsFine, <1>1, <1>2, PTL DEF Spec

\* Under the same proviso a volume is mounted or pinned at every moment, from the first
\* pin to the last release.
THEOREM NothingHangsOnNothing ==
  ASSUME Flaps = FALSE, OneUserEach
  PROVE  Spec => []PinsGuard
<1>1. PinsInv /\ [Next]_vars => PinsInv'
  BY InvStep
<1>2. PinsInv => PinsGuard
  <2> SUFFICES ASSUME PinsInv, NEW v \in Awaitable
               PROVE  Referenced(v) \/ v \in PinnedBy("us")
    BY DEF PinsInv, PinsGuard, DownOnlyPinned
  <2>1. PICK c \in Containers : Users[v] = {c}
    BY DEF OneUserEach
  <2>2. OnOurPin(v) \/ ToStay(c)
    BY <2>1 DEF PinsInv, Held, Alone
  <2>3. ToStay(c) => Referenced(v)
    BY <2>1 DEF ToStay, Referenced, Mounts, Awaitable
  <2> QED
    BY <2>2, <2>3, OnOurPinIsPinned
<1> QED
  BY InitIsFine, <1>1, <1>2, PTL DEF Spec

\* No step of any command removes another migration's pin.
THEOREM OnlyOurPinsGo ==
  Spec => OthersKeepTheirPins
<1> DEFINE OursApart == PinTypes /\ IdleIsIdle
<1>1. Init => OursApart
  BY PinsAtFirst
<1>2. OursApart /\ [Next]_vars => OursApart'
  <2>1. OursApart /\ Next => OursApart'
    BY PinTypesKept, IdleStep
  <2>2. OursApart /\ UNCHANGED vars => OursApart'
    BY DEF PinTypes, IdleIsIdle, vars, pinVars, processVars
  <2> QED
    BY <2>1, <2>2
<1>3. OursApart /\ Process => PinnedBy("other")' = PinnedBy("other")
  <2> SUFFICES ASSUME OursApart, Process
               PROVE  {p \in pins' : p.of = "other"} = {p \in pins : p.of = "other"}
    BY DEF PinnedBy
  <2> USE DEF serverVars, pinVars, journalVars, processVars
  <2>1. CASE CreatePin
    <3>1. PICK g \in groups : pins' = pins \cup {g}
      BY <2>1 DEF CreatePin
    <3>2. g.of = "us"
      BY DEF IdleIsIdle
    <3> QED
      BY <3>1, <3>2
  <2>2. CASE ReleaseIdlePins \/ ReleasePin
    BY <2>2 DEF ReleaseIdlePins, ReleasePin, OurPins
  <2>3. Process => CreatePin \/ ReleaseIdlePins \/ ReleasePin \/ UNCHANGED pins
    BY Zenon DEF Process, Ensure, ImportImage, CreateFails, Pinned, RequestStop, Restart, BeginLook,
       LookAt, LookEnds, Judge, Released
  <2> QED
    BY <2>1, <2>2, <2>3
<1>4. OursApart /\ [Next]_vars => [Process => PinnedBy("other")' = PinnedBy("other")]_vars
  BY <1>3
<1> QED
  BY <1>1, <1>2, <1>4, PTL DEF Spec, OthersKeepTheirPins

=============================================================================
