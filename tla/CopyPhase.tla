----------------------------- MODULE CopyPhase -----------------------------
(***************************************************************************)
(* That nothing writes while the volumes are copied: QUIESCE's stop and    *)
(* its proof (discovery/quiesce.py; engine/steps.py, step_quiesce), COPY   *)
(* between two looks at the stack, VERIFY against the source, and the key  *)
(* the copy travels with (engine/keys.py).                                 *)
(*                                                                         *)
(* The stack's data are files with version numbers.  A running container   *)
(* writes the files it mounts, and keeps part of what it wrote in memory   *)
(* until it exits cleanly.  A file is the unit a copy reads at one moment. *)
(***************************************************************************)
EXTENDS Integers, FiniteSets

CONSTANTS Files, Containers,
          Mounts,      \* per container: the files it may write
          Previews,    \* the containers Coolify's stop does not touch
          Hazards,     \* of "resume_quiesce", "deploy_while_stopping", "kill_after_vetting"
          MaxWrites, MaxStarts, MaxCrashes, MaxFaults   \* bounds

ASSUME MountsAssumption == Mounts \in [Containers -> SUBSET Files]
ASSUME BoundsAssumption ==
  /\ Previews \subseteq Containers
  /\ {MaxWrites, MaxStarts, MaxCrashes, MaxFaults} \subseteq Nat

VARIABLES
  state,       \* per container: running, exited, killed (137), or gone
  source,      \* per file: its version
  dirty,       \* <<container, file>>: written and not flushed
  target,      \* per file: the version copied, or None
  quiet,       \* history: what the source held whenever it was stopped and flushed
  checked,     \* history: what it held when COPY's second look passed
  events,      \* the event log since `since`: the containers that died of SIGKILL
  captured,    \* QUIESCE's capture: the containers that hold data
  stopDue,     \* containers a stop of Coolify's has still to take down
  journal,     \* the completed states, whether COPY is in flight, the stop marker
  pc, left, before,
  authorised, privateKey,
  writes, starts, crashes, faults

daemonVars == << state, source, dirty, quiet, events, stopDue >>
keyVars == << authorised, privateKey >>
processVars == << captured, journal, pc, left, before >>
boundVars == << writes, starts, crashes, faults >>
vars == << daemonVars, target, checked, keyVars, processVars, boundVars >>

None == -1
Labels == {"capture", "mark", "request", "wait", "vet", "authorise", "place", "look", "copy",
           "look_again", "verify", "verified", "undo_volumes", "undo_key", "undo_stop",
           "undo_target", "over", "dead"}

TypeOK ==
  /\ state \in [Containers -> {"running", "exited", "killed", "gone"}]
  /\ source \in [Files -> Nat]
  /\ dirty \subseteq Containers \X Files
  /\ target \in [Files -> Nat \cup {None}]
  /\ quiet \subseteq [Files -> Nat]
  /\ checked \in [Files -> Nat]
  /\ events \subseteq Containers /\ captured \subseteq Containers /\ stopDue \subseteq Containers
  /\ journal \in [completed : SUBSET {"quiesce", "copy", "verify"}, copying : BOOLEAN,
                  stopRequested : BOOLEAN]
  /\ pc \in Labels
  /\ left \subseteq Files /\ before \subseteq Containers
  /\ authorised \in BOOLEAN /\ privateKey \in BOOLEAN
  /\ writes \in Nat /\ starts \in Nat /\ crashes \in Nat /\ faults \in Nat

Running == {c \in Containers : state[c] = "running"}
Present == {c \in Containers : state[c] # "gone"}

NothingCopied == [f \in Files |-> None]

\* The stack runs, or was stopped cleanly before; no preview is up (PREFLIGHT).
Init ==
  /\ \E s \in {"running", "gone"} :
       state = [c \in Containers |-> IF c \in Previews THEN "gone" ELSE s]
  /\ source = [f \in Files |-> 0] /\ dirty = {}
  /\ quiet = IF Running = {} THEN {source} ELSE {}
  /\ target = NothingCopied /\ checked = source
  /\ events = {} /\ captured = {} /\ stopDue = {}
  /\ journal = [completed |-> {}, copying |-> FALSE, stopRequested |-> FALSE]
  /\ pc = "capture" /\ left = {} /\ before = {}
  /\ authorised = FALSE /\ privateKey = FALSE
  /\ writes = 0 /\ starts = 0 /\ crashes = 0 /\ faults = 0

-----------------------------------------------------------------------------
(***************************************************************************)
(* The daemon, and Coolify.                                                *)
(***************************************************************************)
Stopping == pc \in {"capture", "mark", "request", "wait", "vet"}

\* The source as it is now is a state a copy may have.
NoteQuiet(states, versions, unflushed) ==
  quiet' = IF (\A c \in Containers : states[c] # "running") /\ unflushed = {}
           THEN quiet \cup {versions} ELSE quiet

Write ==
  /\ writes < MaxWrites
  /\ writes' = writes + 1
  /\ \E c \in Running : \E f \in Mounts[c] :
       /\ source' = [source EXCEPT ![f] = @ + 1]
       /\ dirty' = dirty \cup {<< c, f >>}
  /\ UNCHANGED << state, quiet, events, stopDue, target, checked, keyVars, processVars,
                  starts, crashes, faults >>

\* A clean exit flushes; the flush is a write too.
Exit(c) ==
  LET mine == {f \in Files : << c, f >> \in dirty}
  IN /\ state[c] = "running"
     /\ state' = [state EXCEPT ![c] = "exited"]
     /\ source' = [f \in Files |-> IF f \in mine THEN source[f] + 1 ELSE source[f]]
     /\ dirty' = {d \in dirty : d[1] # c}
     /\ NoteQuiet(state', source', dirty')
     /\ UNCHANGED events

\* The stop's grace period ran out: what c had not flushed is lost.
Kill(c) ==
  /\ state[c] = "running"
  /\ state' = [state EXCEPT ![c] = "killed"]
  /\ events' = events \cup {c}
  /\ NoteQuiet(state', source, dirty)
  /\ UNCHANGED << source, dirty >>

StopLands ==
  /\ \E c \in stopDue :
       /\ Exit(c) \/ Kill(c)
       /\ stopDue' = stopDue \ {c}
  /\ UNCHANGED << target, checked, keyVars, processVars, boundVars >>

\* docker rm -f follows the stop.
Remove ==
  /\ \E c \in Containers :
       /\ state[c] \in {"exited", "killed"}
       /\ state' = [state EXCEPT ![c] = "gone"]
  /\ UNCHANGED << source, dirty, quiet, events, stopDue, target, checked, keyVars, processVars,
                  boundVars >>

\* A restart policy, a deploy from the dashboard, a preview that is built.
Start ==
  /\ starts < MaxStarts
  /\ starts' = starts + 1
  /\ \E c \in Containers :
       /\ state[c] # "running"
       /\ Stopping /\ c \notin Previews => "deploy_while_stopping" \in Hazards
       /\ state' = [state EXCEPT ![c] = "running"]
  /\ UNCHANGED << source, dirty, quiet, events, stopDue, target, checked, keyVars, processVars,
                  writes, crashes, faults >>

\* What was started ends again.
End ==
  /\ ~Stopping
  /\ \E c \in Containers :
       \/ Exit(c)
       \/ "kill_after_vetting" \in Hazards /\ Kill(c)
  /\ UNCHANGED << stopDue, target, checked, keyVars, processVars, boundVars >>

Daemon == Write \/ StopLands \/ Remove \/ Start \/ End

-----------------------------------------------------------------------------
(***************************************************************************)
(* QUIESCE.                                                                *)
(***************************************************************************)
Goto(label) == pc' = label /\ UNCHANGED << left, before >>

CopyAlone == UNCHANGED << target, checked, keyVars >>

\* A step that fails is in flight no more, and the rollback starts at once.  What
\* COPY owes is in its plan only if COPY completed.
Fail ==
  /\ journal' = [journal EXCEPT !.copying = FALSE]
  /\ Goto(IF "copy" \in journal.completed THEN "undo_volumes" ELSE "undo_stop")
  /\ UNCHANGED captured

\* The containers that hold data, while there are containers to ask.
Capture ==
  /\ pc = "capture"
  /\ captured' = {c \in Present : Mounts[c] # {}}
  /\ Goto("mark")
  /\ UNCHANGED << daemonVars, journal, boundVars >> /\ CopyAlone

\* The window of the event log opens, and the marker is journalled.
Mark ==
  /\ pc = "mark"
  /\ events' = {}
  /\ journal' = [journal EXCEPT !.stopRequested = TRUE]
  /\ Goto("request")
  /\ UNCHANGED << state, source, dirty, quiet, stopDue, captured, boundVars >> /\ CopyAlone

IsQuiesced == \A c \in Containers : state[c] \notin {"running", "killed"}

\* Coolify dispatches the stop, or refuses over a status that may be stale: then the
\* daemon is asked, and the loop goes on until its window ends.
RequestStop ==
  /\ pc = "request"
  /\ \/ stopDue' = Running \ Previews /\ Goto("wait")
     \/ UNCHANGED stopDue /\ Goto("wait")
  /\ UNCHANGED << state, source, dirty, quiet, events, captured, journal, boundVars >>
  /\ CopyAlone

\* Until nothing runs; a kill that is seen, or the deadline, is fatal.
Wait ==
  /\ pc = "wait"
  /\ \/ IsQuiesced /\ Goto("vet") /\ UNCHANGED << captured, journal >>
     \/ ~IsQuiesced /\ Fail
  /\ UNCHANGED << daemonVars, boundVars >> /\ CopyAlone

\* Mutant: whoever was killed, the container was not asked what it held.
AtRisk_None == {}

\* killed_since and _refuse_if_killed_data_holder.
AtRisk == events \cap captured

\* A log that cannot be read is fatal too.
Vet ==
  /\ pc = "vet"
  /\ \/ /\ AtRisk = {}
        /\ journal' = [journal EXCEPT !.completed = @ \cup {"quiesce"}, !.copying = TRUE]
        /\ Goto("authorise")
        /\ UNCHANGED captured
     \/ Fail
  /\ UNCHANGED << daemonVars, boundVars >> /\ CopyAlone

-----------------------------------------------------------------------------
(***************************************************************************)
(* COPY and VERIFY.                                                        *)
(***************************************************************************)
\* keys.install: the target first.  A half that fails takes the first back, if it can.
Authorise ==
  /\ pc = "authorise"
  /\ \/ authorised' = TRUE /\ Goto("place") /\ UNCHANGED << captured, journal >>
     \/ UNCHANGED authorised /\ Fail
  /\ UNCHANGED << daemonVars, privateKey, target, checked, boundVars >>

Place ==
  /\ pc = "place"
  /\ \/ privateKey' = TRUE /\ Goto("look") /\ UNCHANGED << authorised, captured, journal >>
     \/ authorised' \in {authorised, FALSE} /\ UNCHANGED privateKey /\ Fail
  /\ UNCHANGED << daemonVars, target, checked, boundVars >>

Look ==
  /\ pc = "look"
  /\ before' = Present
  /\ pc' = "copy" /\ left' = Files
  /\ UNCHANGED << daemonVars, captured, journal, boundVars >> /\ CopyAlone

\* rsync --delete: what an earlier attempt left is replaced.
CopyFile ==
  /\ pc = "copy"
  /\ \/ \E f \in left : /\ target' = [target EXCEPT ![f] = source[f]]
                        /\ left' = left \ {f}
                        /\ UNCHANGED << pc, before, captured, journal >>
     \/ left = {} /\ Goto("look_again") /\ UNCHANGED << target, captured, journal >>
     \/ left # {} /\ UNCHANGED target /\ Fail
  /\ UNCHANGED << daemonVars, checked, keyVars, boundVars >>

StillStopped == Running = {} /\ Present \subseteq before

LookAgain ==
  /\ pc = "look_again"
  /\ \/ /\ StillStopped
        /\ checked' = source
        /\ journal' = [journal EXCEPT !.completed = @ \cup {"copy"}, !.copying = FALSE]
        /\ pc' = "verify" /\ left' = Files
        /\ UNCHANGED << before, captured >>
     \/ UNCHANGED checked /\ Fail
  /\ UNCHANGED << daemonVars, target, keyVars, boundVars >>

\* Mutant: the source is not read again.
Same_CopiedIsEnough(f) == target[f] # None

Same(f) == target[f] = source[f]

VerifyFile ==
  /\ pc = "verify"
  /\ \/ /\ \E f \in left : Same(f) /\ left' = left \ {f}
        /\ UNCHANGED << pc, before, captured, journal >>
     \/ /\ left = {}
        /\ journal' = [journal EXCEPT !.completed = @ \cup {"verify"}]
        /\ Goto("verified") /\ UNCHANGED captured
     \/ left # {} /\ Fail
  /\ UNCHANGED << daemonVars, boundVars >> /\ CopyAlone

-----------------------------------------------------------------------------
(***************************************************************************)
(* The rollback, crashes, and the commands that follow one.                *)
(***************************************************************************)
\* Any of the target's volumes is gone, or its removal was refused and logged.
SomeDropped ==
  {[f \in Files |-> IF f \in dropped THEN None ELSE target[f]] : dropped \in SUBSET Files}

\* undo_copy: COPY's record names the volumes to drop; without it there are none.
UndoVolumes ==
  /\ pc = "undo_volumes"
  /\ target' \in IF "copy" \in journal.completed THEN SomeDropped ELSE {target}
  /\ Goto("undo_key")
  /\ UNCHANGED << daemonVars, checked, keyVars, captured, journal, boundVars >>

\* keys.revoke, whatever the journal says: the line carries the migration's id.
\* Both halves, each on its own; one that fails is logged.
Revoke ==
  \/ authorised' = FALSE /\ privateKey' = FALSE /\ UNCHANGED faults
  \/ /\ faults < MaxFaults /\ faults' = faults + 1
     /\ authorised' \in {authorised, FALSE} /\ privateKey' \in {privateKey, FALSE}

UndoKey ==
  /\ pc = "undo_key"
  /\ Revoke
  /\ Goto("undo_stop")
  /\ UNCHANGED << daemonVars, target, checked, captured, journal, writes, starts, crashes >>

\* RESTART_SOURCE, if a stop was asked for; the containers come up when they do.
UndoStop ==
  /\ pc = "undo_stop"
  /\ state' \in IF journal.stopRequested
                THEN {state, [c \in Containers |-> IF c \in Previews THEN state[c] ELSE "running"]}
                ELSE {state}
  /\ Goto("undo_target")
  /\ UNCHANGED << source, dirty, quiet, events, stopDue, captured, journal, boundVars >>
  /\ CopyAlone

\* Mutant: the key is left to COPY's own compensation.
UndoTarget_KeepsKey ==
  /\ pc = "undo_target"
  /\ target' \in SomeDropped
  /\ Goto("over")
  /\ UNCHANGED << daemonVars, checked, keyVars, captured, journal, boundVars >>

\* undo_create_target: CREATE_TARGET is complete before QUIESCE, so every rollback
\* revokes the key here, and deletes the target, or fails to.
UndoTarget ==
  /\ pc = "undo_target"
  /\ Revoke
  /\ target' \in SomeDropped
  /\ Goto("over")
  /\ UNCHANGED << daemonVars, checked, captured, journal, writes, starts, crashes >>

Crash ==
  /\ pc \notin {"verified", "over", "dead"}
  /\ crashes < MaxCrashes
  /\ crashes' = crashes + 1
  /\ Goto("dead")
  /\ UNCHANGED << daemonVars, captured, journal, writes, starts, faults >> /\ CopyAlone

\* resume: the first state that is not complete, from its beginning.
Resume ==
  /\ pc = "dead"
  /\ \/ /\ "quiesce" \notin journal.completed
        /\ journal.stopRequested => "resume_quiesce" \in Hazards
        /\ Goto("capture")
        /\ UNCHANGED journal
     \/ /\ "quiesce" \in journal.completed /\ "copy" \notin journal.completed
        /\ journal' = [journal EXCEPT !.copying = TRUE]
        /\ Goto("authorise")
     \/ /\ "copy" \in journal.completed
        /\ pc' = "verify" /\ left' = Files /\ UNCHANGED << before, journal >>
  /\ UNCHANGED << daemonVars, captured, boundVars >> /\ CopyAlone

\* The command owes the state that was in flight, too.
Rollback ==
  /\ pc = "dead"
  /\ Goto(IF "copy" \in journal.completed \/ journal.copying THEN "undo_volumes" ELSE "undo_stop")
  /\ UNCHANGED << daemonVars, captured, journal, boundVars >> /\ CopyAlone

Process ==
  \/ Capture \/ Mark \/ RequestStop \/ Wait \/ Vet \/ Authorise \/ Place \/ Look \/ CopyFile
  \/ LookAgain \/ VerifyFile \/ UndoVolumes \/ UndoKey \/ UndoStop \/ UndoTarget

Next == Daemon \/ Process \/ Crash \/ Resume \/ Rollback

Spec == Init /\ [][Next]_vars

-----------------------------------------------------------------------------
\* The copy that passed VERIFY is a state the source was in while all of its
\* containers were stopped and had flushed: not torn in time, and not torn by a kill.
CopyIsASnapshot == "verify" \in journal.completed => target \in quiet

\* What the source did after the copy was looked at again is not lost unseen while
\* VERIFY reads: a file it verifies is the file of that moment.
VerifiedIsChecked ==
  pc = "verify" => \A f \in Files \ left : target[f] = checked[f]

\* The records that a resume relies on say what is so.
RecordsAreTrue == TypeOK /\ VerifiedIsChecked

\* A rollback leaves no key behind, wherever the run stopped or died: the rollback
\* of a COPY that failed, which owes nothing of COPY's, as the one of a COPY that
\* died.
NoKeyAfterRollback == pc = "over" /\ faults = 0 => ~authorised /\ ~privateKey

=============================================================================
