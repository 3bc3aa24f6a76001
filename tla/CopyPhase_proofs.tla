--------------------------- MODULE CopyPhase_proofs ---------------------------
(***************************************************************************)
(* The verified copy is a snapshot, for any containers, files, mounts and  *)
(* bounds, unless one of the named hazards is met.                         *)
(*                                                                         *)
(* A killed container leaves unflushed data behind only while QUIESCE      *)
(* stops the stack, and then QUIESCE sees the kill.  Once QUIESCE is       *)
(* complete whoever still owes a write runs, so that COPY's second look,   *)
(* which finds nobody running, finds the source whole; and what VERIFY     *)
(* finds equal was not written since, because versions only grow.          *)
(***************************************************************************)
EXTENDS CopyPhase, TLAPS

Copying == {"authorise", "place", "look", "copy", "look_again"}

Owes(c) == \E f \in Files : << c, f >> \in dirty
Runs(c) == state[c] = "running"

\* Where the process is fits what is recorded.
Recorded ==
  /\ Stopping => journal.completed = {}
  /\ pc \in {"capture", "mark"} => ~journal.stopRequested
  /\ pc \in {"request", "wait", "vet"} => journal.stopRequested
  /\ pc \in Copying => "quiesce" \in journal.completed /\ "copy" \notin journal.completed
  /\ pc = "verify" => "copy" \in journal.completed
  /\ "copy" \in journal.completed => "quiesce" \in journal.completed
  /\ "verify" \in journal.completed => pc = "verified" /\ target = checked /\ checked \in quiet

\* Versions only grow, so a copy is never ahead of the source.
Behind ==
  /\ \A f \in Files : target[f] <= source[f]
  /\ "copy" \in journal.completed =>
       /\ checked \in quiet
       /\ \A f \in Files : target[f] <= checked[f] /\ checked[f] <= source[f]

\* Who has something to flush runs, or QUIESCE knows that it was killed.
Debts ==
  /\ \A c \in Containers : Owes(c) => Mounts[c] # {}
  /\ "quiesce" \in journal.completed \/ ~journal.stopRequested \/ pc = "request" =>
       stopDue = {} /\ \A c \in Containers : Owes(c) => Runs(c)
  /\ pc \in {"wait", "vet"} =>
       \A c \in Containers : Owes(c) => Runs(c) \/ c \in events \cap captured

\* The stop reaches everything that runs and holds data; what it has still to
\* reach runs.
StopReaches ==
  /\ pc \in {"mark", "request", "wait", "vet"} =>
       \A c \in Containers \ Previews : Runs(c) /\ Mounts[c] # {} => c \in captured
  /\ pc = "wait" => \A c \in stopDue : Runs(c) /\ c \notin Previews
  /\ pc = "vet" => stopDue = {}

\* Whenever the source is stopped and flushed its state is noted.
QuietNoted == Running = {} /\ dirty = {} => source \in quiet

CopyInv == TypeOK /\ Recorded /\ Behind /\ VerifiedIsChecked /\ Debts /\ StopReaches /\ QuietNoted

-----------------------------------------------------------------------------
(***************************************************************************)
(* Types.                                                                  *)
(***************************************************************************)
DaemonTypes ==
  /\ state \in [Containers -> {"running", "exited", "killed", "gone"}]
  /\ source \in [Files -> Nat]
  /\ dirty \subseteq Containers \X Files
  /\ quiet \subseteq [Files -> Nat]
  /\ events \subseteq Containers /\ stopDue \subseteq Containers
CopyTypes == target \in [Files -> Nat \cup {None}] /\ checked \in [Files -> Nat]
ProcessTypes ==
  /\ captured \subseteq Containers
  /\ journal \in [completed : SUBSET {"quiesce", "copy", "verify"}, copying : BOOLEAN,
                  stopRequested : BOOLEAN]
  /\ pc \in Labels
  /\ left \subseteq Files /\ before \subseteq Containers
KeyTypes == authorised \in BOOLEAN /\ privateKey \in BOOLEAN
BoundTypes == writes \in Nat /\ starts \in Nat /\ crashes \in Nat /\ faults \in Nat

\* A clean exit writes a version more of what it flushes, and owes nothing more.
LEMMA ExitEffect ==
  ASSUME source \in [Files -> Nat], dirty \subseteq Containers \X Files, NEW c \in
       Containers, Exit(c)
  PROVE  /\ source' \in [Files -> Nat]
         /\ \A f \in Files : source[f] <= source'[f]
         /\ dirty' \subseteq dirty
         /\ \A d \in dirty' : d[1] # c
         /\ events' = events
<1>1. PICK mine \in SUBSET Files :
        source' = [f \in Files |-> IF f \in mine THEN source[f] + 1 ELSE source[f]]
  <2>1. source' = [f \in Files |-> IF f \in {g \in Files : << c, g >> \in dirty}
                                 THEN source[f] + 1 ELSE source[f]]
    BY Zenon DEF Exit
  <2> QED
    BY <2>1
<1>2. dirty' = {d \in dirty : d[1] # c} /\ events' = events
  BY Zenon DEF Exit
<1> QED
  BY <1>1, <1>2

\* An exit or a kill keeps the daemon's variables in form.
LEMMA EndsKeepForm ==
  ASSUME DaemonTypes, NEW c \in Containers, Exit(c) \/ Kill(c)
  PROVE  /\ state' \in [Containers -> {"running", "exited", "killed", "gone"}]
         /\ source' \in [Files -> Nat]
         /\ dirty' \subseteq Containers \X Files
         /\ quiet' \subseteq [Files -> Nat]
         /\ events' \subseteq Containers
<1>1. source' \in [Files -> Nat] /\ dirty' \subseteq dirty
  BY ExitEffect DEF Kill, DaemonTypes
<1>2. quiet' = quiet \/ quiet' = quiet \cup {source'}
  BY DEF Exit, Kill, NoteQuiet
<1> QED
  BY <1>1, <1>2 DEF Exit, Kill, DaemonTypes

\* The daemon's variables keep their form.
LEMMA DaemonTypesKept ==
  ASSUME DaemonTypes, Next
  PROVE  DaemonTypes'
<1> USE DEF DaemonTypes, daemonVars, keyVars, processVars, boundVars
<1>1. CASE StopLands \/ End
  <2>1. PICK c \in Containers : Exit(c) \/ Kill(c)
    BY <1>1 DEF StopLands, End
  <2> QED
    BY <1>1, <2>1, EndsKeepForm DEF StopLands, End
<1>2. CASE UndoStop
  BY <1>2 DEF UndoStop
<1>3. CASE Write
  <2>1. PICK c \in Running : \E f \in Mounts[c] :
          /\ source' = [source EXCEPT ![f] = @ + 1]
          /\ dirty' = dirty \cup {<< c, f >>}
    BY <1>3 DEF Write
  <2>2. c \in Containers /\ Mounts[c] \subseteq Files
    BY MountsAssumption DEF Running
  <2> QED
    BY <1>3, <2>1, <2>2 DEF Write
<1>4. CASE Remove \/ Start \/ Capture \/ Mark \/ RequestStop \/ Wait \/ Vet \/ Authorise
        \/ Place \/ Look \/ CopyFile \/ LookAgain \/ VerifyFile \/ UndoVolumes \/ UndoKey
        \/ UndoTarget \/ Crash \/ Resume \/ Rollback
  BY <1>4 DEF Remove, Start, Capture, Mark, RequestStop, Wait, Vet, Authorise, Place, Look,
       CopyFile,
     LookAgain, VerifyFile, UndoVolumes, UndoKey, UndoTarget, Crash, Resume, Rollback, Running,
     CopyAlone
<1> QED
  BY <1>1, <1>2, <1>3, <1>4 DEF Next, Daemon, Process

\* A file whose volume is dropped has no copy, and each other keeps its own.
LEMMA DroppedForm ==
  ASSUME target \in [Files -> Nat \cup {None}], NEW t \in SomeDropped
  PROVE  t \in [Files -> Nat \cup {None}] /\ \A f \in Files : t[f] = None \/ t[f] = target[f]
<1>1. PICK dropped \in SUBSET Files : t = [f \in Files |-> IF f \in dropped THEN None ELSE target[f]]
  BY DEF SomeDropped
<1> QED
  BY <1>1

\* What is copied and what was seen of the source keep their form.
LEMMA CopyTypesKept ==
  ASSUME DaemonTypes, CopyTypes, Next
  PROVE  CopyTypes'
<1> USE DEF CopyTypes, daemonVars, keyVars, processVars, boundVars
<1>1. CASE CopyFile \/ LookAgain
  BY <1>1 DEF CopyFile, LookAgain, DaemonTypes
<1>3. CASE UndoVolumes \/ UndoTarget
  <2>1. target' \in SomeDropped \/ target' = target
    BY <1>3 DEF UndoVolumes, UndoTarget
  <2>2. checked' = checked
    BY <1>3 DEF UndoVolumes, UndoTarget
  <2> QED
    BY <2>1, <2>2, DroppedForm
<1>2. CASE Write \/ StopLands \/ Remove \/ Start \/ End \/ Capture \/ Mark \/ RequestStop
        \/ Wait \/ Vet \/ Authorise \/ Place \/ Look \/ VerifyFile \/ UndoKey \/ UndoStop
        \/ Crash \/ Resume \/ Rollback
  BY <1>2 DEF Write, StopLands, Remove, Start, End, Capture, Mark, RequestStop, Wait, Vet,
       Authorise,
     Place, Look, VerifyFile, UndoKey, UndoStop, Crash, Resume, Rollback, CopyAlone
<1> QED
  BY <1>1, <1>2, <1>3 DEF Next, Daemon, Process

\* A step that fails takes nothing off the records but that COPY is in flight.
LEMMA FailEffect ==
  ASSUME journal \in [completed : SUBSET {"quiesce", "copy", "verify"}, copying : BOOLEAN,
                      stopRequested : BOOLEAN], Fail
  PROVE  /\ journal' \in [completed : SUBSET {"quiesce", "copy", "verify"}, copying : BOOLEAN,
                          stopRequested : BOOLEAN]
         /\ journal'.completed = journal.completed
         /\ journal'.stopRequested = journal.stopRequested
         /\ pc' \in {"undo_volumes", "undo_stop"}
         /\ UNCHANGED << captured, left, before >>
BY DEF Fail, Goto

\* The process and its journal keep their form.
LEMMA ProcessTypesKept ==
  ASSUME ProcessTypes, Next
  PROVE  ProcessTypes'
<1> USE DEF ProcessTypes, Labels, Goto, daemonVars, keyVars, processVars, boundVars
<1>1. CASE Write \/ StopLands \/ Remove \/ Start \/ End \/ UndoKey \/ UndoStop
        \/ UndoTarget \/ Crash \/ Resume \/ Rollback \/ Capture \/ Mark \/ RequestStop
  BY <1>1 DEF Write, StopLands, Remove, Start, End, UndoKey, UndoStop, UndoTarget, Crash, Resume,
       Rollback, Capture,
     Mark, RequestStop, Present
<1>2. CASE Wait \/ Vet \/ Authorise \/ Place \/ Look \/ CopyFile \/ LookAgain \/ VerifyFile
        \/ UndoVolumes
  BY <1>2 DEF Wait, Vet, Authorise, Place, Look, CopyFile, LookAgain, VerifyFile,
       UndoVolumes, Fail,
     Present
<1> QED
  BY <1>1, <1>2 DEF Next, Daemon, Process

\* So do the keys and the counters.
LEMMA KeyTypesKept ==
  ASSUME KeyTypes, BoundTypes, Next
  PROVE  KeyTypes' /\ BoundTypes'
<1> USE DEF KeyTypes, BoundTypes, daemonVars, keyVars, processVars, boundVars
<1>1. CASE Write \/ StopLands \/ Remove \/ Start \/ End \/ Capture \/ Mark \/ RequestStop
        \/ Wait
  BY <1>1 DEF Write, StopLands, Remove, Start, End, Capture, Mark, RequestStop, Wait, CopyAlone
<1>2. CASE Vet \/ Authorise \/ Place \/ Look \/ CopyFile \/ LookAgain \/ VerifyFile
  BY <1>2 DEF Vet, Authorise, Place, Look, CopyFile, LookAgain, VerifyFile, CopyAlone
<1>3. CASE UndoVolumes \/ UndoStop \/ Resume \/ Rollback
  BY <1>3 DEF UndoVolumes, UndoStop, Resume, Rollback, CopyAlone
<1>4. CASE Crash
  BY <1>4 DEF Crash, CopyAlone
<1>5. CASE UndoKey \/ UndoTarget
  <2>0. Revoke /\ UNCHANGED << writes, starts, crashes >>
    BY <1>5 DEF UndoKey, UndoTarget
  <2>1. authorised' \in {authorised, FALSE} /\ privateKey' \in {privateKey, FALSE}
    BY <2>0, Zenon DEF Revoke
  <2>2. faults' \in {faults, faults + 1} /\ UNCHANGED << writes, starts, crashes >>
    BY <2>0 DEF Revoke
  <2>3. KeyTypes'
    BY <2>1, Zenon DEF KeyTypes
  <2>4. BoundTypes'
    BY <2>2
  <2> QED
    BY <2>3, <2>4
<1> QED
  BY <1>1, <1>2, <1>3, <1>4, <1>5 DEF Next, Daemon, Process

-----------------------------------------------------------------------------
(***************************************************************************)
(* The parts of the invariant, one after the other.                        *)
(***************************************************************************)
\* The process is where its records say, if a stop once asked for is not
\* resumed.
LEMMA RecordedStep ==
  ASSUME TypeOK, Recorded, VerifiedIsChecked, Behind, Next, "resume_quiesce" \notin Hazards
  PROVE  Recorded'
<1> USE DEF TypeOK, Labels, Recorded, Stopping, Copying, daemonVars, keyVars, processVars,
     boundVars
<1>1. ASSUME UNCHANGED << pc, journal, target, checked >>, quiet \subseteq quiet'
      PROVE  Recorded'
  BY <1>1
<1>2. CASE StopLands \/ End
  <2>1. quiet \subseteq quiet'
    BY <1>2 DEF StopLands, End, Exit, Kill, NoteQuiet
  <2> QED
    BY <1>1, <1>2, <2>1 DEF StopLands, End
<1>3. CASE Write \/ Remove \/ Start
  BY <1>1, <1>3 DEF Write, Remove, Start
<1>4. CASE VerifyFile
  <2>1. CASE left = {} /\ pc = "verify" /\ journal' = [journal EXCEPT !.completed = @ \cup {"verify"}]
             /\ pc' = "verified" /\ UNCHANGED << target, checked, quiet >>
    <3>1. \A f \in Files : target[f] = checked[f]
      BY <2>1 DEF VerifiedIsChecked
    <3>2. target = checked
      BY <3>1
    <3>3. checked \in quiet /\ "copy" \in journal.completed
      BY <2>1 DEF Behind
    <3> QED
      BY <2>1, <3>2, <3>3
  <2> QED
    BY <1>4, <2>1 DEF VerifyFile, Fail, Goto, CopyAlone
<1>5. CASE Capture
  BY <1>5 DEF Capture, Goto, CopyAlone
<1>6. CASE Mark
  BY <1>6 DEF Mark, Goto, CopyAlone
<1>7. CASE RequestStop
  BY <1>7 DEF RequestStop, Goto, CopyAlone
<1>8. CASE Wait
  BY <1>8 DEF Wait, Fail, Goto, CopyAlone
<1>9. CASE Vet
  <2>1. CASE Fail
    BY <1>9, <2>1, FailEffect DEF Vet, CopyAlone
  <2>2. CASE journal' = [journal EXCEPT !.completed = @ \cup {"quiesce"}, !.copying = TRUE]
             /\ pc' = "authorise"
    <3>1. journal'.completed = journal.completed \cup {"quiesce"}
      BY <2>2
    <3> QED
      BY <1>9, <2>2, <3>1 DEF Vet, CopyAlone
  <2> QED
    BY <1>9, <2>1, <2>2 DEF Vet, Goto
<1>10. CASE Authorise
  BY <1>10 DEF Authorise, Fail, Goto
<1>11. CASE Place
  BY <1>11 DEF Place, Fail, Goto
<1>12. CASE Look
  BY <1>12 DEF Look, CopyAlone
<1>13. CASE CopyFile
  BY <1>13 DEF CopyFile, Fail, Goto
<1>14. CASE LookAgain
  <2>1. CASE Fail
    BY <1>14, <2>1, FailEffect DEF LookAgain
  <2>2. CASE journal' = [journal EXCEPT !.completed = @ \cup {"copy"}, !.copying = FALSE]
             /\ pc' = "verify"
    <3>1. journal'.completed = journal.completed \cup {"copy"}
      BY <2>2
    <3> QED
      BY <1>14, <2>2, <3>1 DEF LookAgain
  <2> QED
    BY <1>14, <2>1, <2>2 DEF LookAgain
<1>15. CASE UndoVolumes
  BY <1>15 DEF UndoVolumes, Goto
<1>16. CASE UndoKey
  BY <1>16 DEF UndoKey, Goto
<1>17. CASE UndoStop
  BY <1>17 DEF UndoStop, Goto, CopyAlone
<1>18. CASE Crash
  BY <1>18 DEF Crash, Goto, CopyAlone
<1>19. CASE Resume
  BY <1>19 DEF Resume, Goto, CopyAlone
<1>20. CASE Rollback
  BY <1>20 DEF Rollback, Goto, CopyAlone
<1>21. CASE UndoTarget
  BY <1>21 DEF UndoTarget, Goto
<1> QED
  BY <1>2, <1>3, <1>4, <1>5, <1>6, <1>7, <1>8, <1>9, <1>10, <1>11, <1>12, <1>13, <1>14,
       <1>15, <1>16, <1>17, <1>18, <1>19, <1>20, <1>21 DEF Next, Daemon, Process

\* Nothing is unflushed if nobody owes a flush.
LEMMA NobodyOwes ==
  ASSUME dirty \subseteq Containers \X Files, \A c \in Containers : ~Owes(c)
  PROVE  dirty = {}
<1>1. ASSUME NEW d \in dirty
      PROVE  FALSE
  <2>1. PICK c \in Containers, f \in Files : d = << c, f >>
    BY <1>1
  <2> QED
    BY <1>1, <2>1 DEF Owes
<1> QED
  BY <1>1

\* Versions grow by writes, and a copy takes the version that is there.
LEMMA BehindStep ==
  ASSUME TypeOK, Recorded, Behind, Debts, QuietNoted, Next
  PROVE  Behind'
<1> USE DEF TypeOK, Behind, Recorded, Copying, None, daemonVars, keyVars, processVars,
     boundVars
<1>1. ASSUME UNCHANGED << target, checked, journal >>, quiet \subseteq quiet',
             \A f \in Files : source[f] <= source'[f] /\ source'[f] \in Nat
      PROVE  Behind'
  BY <1>1
<1>2. CASE StopLands \/ End
  <2>1. PICK c \in Containers : Exit(c) \/ Kill(c)
    BY <1>2 DEF StopLands, End
  <2>2. \A f \in Files : source[f] <= source'[f] /\ source'[f] \in Nat
    BY <2>1, ExitEffect DEF Kill
  <2>3. quiet \subseteq quiet'
    BY <2>1 DEF Exit, Kill, NoteQuiet
  <2> QED
    BY <1>1, <1>2, <2>2, <2>3 DEF StopLands, End
<1>3. CASE Write
  <2>1. \A f \in Files : source[f] <= source'[f] /\ source'[f] \in Nat
    BY <1>3 DEF Write
  <2> QED
    BY <1>1, <1>3, <2>1 DEF Write
<1>4. CASE CopyFile
  <2>1. \A f \in Files : target'[f] <= source[f]
    BY <1>4 DEF CopyFile
  <2>2. UNCHANGED << source, checked, quiet >> /\ journal'.completed = journal.completed
        /\ "copy" \notin journal.completed
    BY <1>4, FailEffect DEF CopyFile
  <2> QED
    BY <2>1, <2>2
<1>5. CASE LookAgain
  <2>1. CASE Fail /\ UNCHANGED checked
    BY <1>5, <2>1, FailEffect DEF LookAgain
  <2>2. CASE StillStopped /\ checked' = source
    <3>1. Running = {} /\ pc = "look_again"
      BY <1>5, <2>2 DEF LookAgain, StillStopped
    <3>2. \A c \in Containers : ~Owes(c)
      BY <3>1 DEF Debts, Running, Runs
    <3>3. dirty = {}
      BY <3>2, NobodyOwes
    <3>4. source \in quiet
      BY <3>1, <3>3 DEF QuietNoted
    <3> QED
      BY <1>5, <2>2, <3>4 DEF LookAgain
  <2> QED
    BY <1>5, <2>1, <2>2 DEF LookAgain
<1>6. CASE UndoVolumes \/ UndoTarget
  <2>1. target' \in SomeDropped \/ target' = target
    BY <1>6 DEF UndoVolumes, UndoTarget
  <2>2. \A f \in Files : target'[f] = None \/ target'[f] = target[f]
    BY <2>1, DroppedForm
  <2>3. UNCHANGED << source, checked, quiet, journal >>
    BY <1>6 DEF UndoVolumes, UndoTarget
  <2> QED
    BY <2>2, <2>3
<1>7. CASE Remove
  BY <1>7 DEF Remove
<1>8. CASE Start
  BY <1>8 DEF Start, Stopping
<1>9. CASE Capture
  BY <1>9 DEF Capture, Goto, CopyAlone
<1>10. CASE Mark
  BY <1>10 DEF Mark, Goto, CopyAlone
<1>11. CASE RequestStop
  BY <1>11 DEF RequestStop, Goto, CopyAlone
<1>12. CASE Wait
  BY <1>12 DEF Wait, Fail, Goto, CopyAlone
<1>13. CASE Vet
  <2>1. UNCHANGED << source, target, checked, quiet >>
    BY <1>13 DEF Vet, CopyAlone
  <2>2. "copy" \in journal'.completed => "copy" \in journal.completed
    <3>1. CASE Fail
      BY <3>1, FailEffect
    <3>2. CASE journal' = [journal EXCEPT !.completed = @ \cup {"quiesce"}, !.copying = TRUE]
      BY <3>2
    <3> QED
      BY <1>13, <3>1, <3>2 DEF Vet
  <2> QED
    BY <2>1, <2>2
<1>14. CASE Authorise
  BY <1>14 DEF Authorise, Fail, Goto
<1>15. CASE Place
  BY <1>15 DEF Place, Fail, Goto
<1>16. CASE Look
  BY <1>16 DEF Look, CopyAlone
<1>17. CASE VerifyFile
  BY <1>17 DEF VerifyFile, Fail, Goto, CopyAlone
<1>18. CASE UndoKey
  BY <1>18 DEF UndoKey, Goto
<1>19. CASE UndoStop
  BY <1>19 DEF UndoStop, Goto, CopyAlone
<1>20. CASE Crash
  BY <1>20 DEF Crash, Goto, CopyAlone
<1>21. CASE Resume
  BY <1>21 DEF Resume, Goto, CopyAlone
<1>22. CASE Rollback
  BY <1>22 DEF Rollback, Goto, CopyAlone
<1> QED
  BY <1>2, <1>3, <1>4, <1>5, <1>6, <1>7, <1>8, <1>9, <1>10, <1>11, <1>12, <1>13, <1>14,
       <1>15, <1>16, <1>17, <1>18, <1>19, <1>20, <1>21, <1>22 DEF Next, Daemon, Process

\* What VERIFY has found equal is what COPY's second look saw.
LEMMA VerifiedStep ==
  ASSUME TypeOK, Recorded, Behind, VerifiedIsChecked, Next
  PROVE  VerifiedIsChecked'
<1> USE DEF VerifiedIsChecked, daemonVars, keyVars, processVars, boundVars
<1>1. CASE VerifyFile
  <2>1. CASE \E f \in left : Same(f) /\ left' = left \ {f}
    <3>1. PICK f \in left : Same(f) /\ left' = left \ {f}
      BY <2>1
    <3>2. target[f] = source[f] /\ target[f] <= checked[f] /\ checked[f] <= source[f]
          /\ source[f] \in Nat /\ checked[f] \in Nat
      BY <1>1, <3>1 DEF VerifyFile, Same, Behind, Recorded, TypeOK
    <3>3. target[f] = checked[f]
      BY <3>2
    <3> QED
      BY <1>1, <3>1, <3>3 DEF VerifyFile, CopyAlone
  <2>2. CASE pc' # "verify"
    BY <2>2
  <2> QED
    BY <1>1, <2>1, <2>2 DEF VerifyFile, Fail, Goto
<1>2. CASE Write
  BY <1>2 DEF Write
<1>3. CASE StopLands
  BY <1>3 DEF StopLands, Exit, Kill, NoteQuiet
<1>4. CASE Remove
  BY <1>4 DEF Remove
<1>5. CASE Start
  BY <1>5 DEF Start, Stopping
<1>6. CASE End
  BY <1>6 DEF End, Exit, Kill, NoteQuiet
<1>7. CASE Capture
  BY <1>7 DEF Capture, Goto, CopyAlone
<1>8. CASE Mark
  BY <1>8 DEF Mark, Goto, CopyAlone
<1>9. CASE RequestStop
  BY <1>9 DEF RequestStop, Goto, CopyAlone
<1>10. CASE Wait
  BY <1>10 DEF Wait, Fail, Goto, CopyAlone
<1>11. CASE Vet
  BY <1>11 DEF Vet, Fail, Goto, CopyAlone
<1>12. CASE Authorise
  BY <1>12 DEF Authorise, Fail, Goto
<1>13. CASE Place
  BY <1>13 DEF Place, Fail, Goto
<1>14. CASE Look
  BY <1>14 DEF Look, CopyAlone
<1>15. CASE CopyFile
  BY <1>15 DEF CopyFile, Fail, Goto
<1>16. CASE LookAgain
  BY <1>16 DEF LookAgain, Fail, Goto
<1>17. CASE UndoVolumes
  BY <1>17 DEF UndoVolumes, Goto
<1>18. CASE UndoKey
  BY <1>18 DEF UndoKey, Goto
<1>19. CASE UndoStop
  BY <1>19 DEF UndoStop, Goto, CopyAlone
<1>20. CASE Crash
  BY <1>20 DEF Crash, Goto, CopyAlone
<1>21. CASE Resume
  BY <1>21 DEF Resume, Goto, CopyAlone
<1>22. CASE Rollback
  BY <1>22 DEF Rollback, Goto, CopyAlone
<1>23. CASE UndoTarget
  BY <1>23 DEF UndoTarget, Goto
<1> QED
  BY <1>1, <1>2, <1>3, <1>4, <1>5, <1>6, <1>7, <1>8, <1>9, <1>10, <1>11, <1>12, <1>13,
       <1>14, <1>15, <1>16, <1>17, <1>18, <1>19, <1>20, <1>21, <1>22, <1>23 DEF Next, Daemon,
       Process

\* Whoever owes a flush runs, or died in sight of QUIESCE.
LEMMA DebtsStep ==
  ASSUME TypeOK, Recorded, Debts, StopReaches, Next, Hazards = {}
  PROVE  Debts'
<1> USE DEF Recorded, Stopping, Copying, Runs, daemonVars, keyVars, processVars, boundVars
<1> DEFINE Settled == "quiesce" \in journal.completed \/ ~journal.stopRequested \/ pc = "request"
           Waits == pc \in {"wait", "vet"}
           Fine(c) == Runs(c) \/ c \in events \cap captured
<1>0. TypeOK
  OBVIOUS
<1>1. ASSUME UNCHANGED << stopDue, pc, journal, captured >>, events \subseteq events',
             \A c \in Containers : Owes(c)' => Mounts[c] # {} /\ (Runs(c)' \/ (Owes(c) /\ Runs(c)' = Runs(c)))
      PROVE  Debts'
  BY <1>1 DEF Debts
<1>2. ASSUME UNCHANGED << state, dirty >>
      PROVE  \A c \in Containers : Owes(c)' = Owes(c) /\ Runs(c)' = Runs(c)
  BY <1>2 DEF Owes
<1>3. CASE Write
  <2>1. PICK c \in Running : \E f \in Mounts[c] : dirty' = dirty \cup {<< c, f >>}
    BY <1>3 DEF Write
  <2>2. ASSUME NEW d \in Containers, Owes(d)'
        PROVE  Mounts[d] # {} /\ (Runs(d) \/ Owes(d))
    <3>1. CASE d = c
      BY <2>1, <3>1 DEF Running
    <3>2. CASE d # c
      BY <2>1, <2>2, <3>2 DEF Owes, Debts
    <3> QED
      BY <3>1, <3>2
  <2> QED
    BY <1>1, <1>3, <2>2 DEF Write
<1>4. CASE StopLands
  <2>1. PICK c \in stopDue : (Exit(c) \/ Kill(c)) /\ stopDue' = stopDue \ {c}
    BY <1>4 DEF StopLands
  <2>2. UNCHANGED << pc, journal, captured >> /\ c \in Containers
    BY <1>0, <1>4, <2>1 DEF StopLands, TypeOK
  <2>3. ~Settled
    BY <2>1 DEF Debts
  <2>4. \A d \in Containers : Owes(d)' => Owes(d) /\ Mounts[d] # {}
    <3>1. dirty' \subseteq dirty
      BY <1>0, <2>1, <2>2, ExitEffect DEF Kill, TypeOK
    <3> QED
      BY <3>1 DEF Owes, Debts
  <2>5. ASSUME Waits, NEW d \in Containers, Owes(d)'
        PROVE  Runs(d)' \/ d \in events' \cap captured
    <3>1. pc = "wait" /\ c \in Containers \ Previews /\ Runs(c)
      BY <2>1, <2>2, <2>5 DEF StopReaches
    <3>2. CASE d # c
      <4>1. Runs(d)' = Runs(d) /\ events \subseteq events'
        BY <1>0, <2>1, <2>2, <2>5, <3>2, ExitEffect DEF Exit, Kill, TypeOK
      <4> QED
        BY <2>4, <2>5, <4>1 DEF Debts
    <3>3. CASE d = c
      <4>1. ~Exit(c)
        <5>1. ASSUME Exit(c), NEW f \in Files, << c, f >> \in dirty'
              PROVE  FALSE
          <6>1. << c, f >>[1] # c
            BY <1>0, <2>2, <5>1, ExitEffect DEF TypeOK
          <6> QED
            BY <6>1
        <5> QED
          BY <2>5, <3>3, <5>1 DEF Owes
      <4>2. c \in events'
        BY <2>1, <4>1 DEF Kill
      <4>3. c \in captured
        BY <2>4, <2>5, <3>1, <3>3 DEF StopReaches
      <4> QED
        BY <2>2, <3>3, <4>2, <4>3
    <3> QED
      BY <3>2, <3>3
  <2> QED
    BY <2>2, <2>3, <2>4, <2>5 DEF Debts
<1>5. CASE End
  <2>1. PICK c \in Containers : Exit(c)
    BY <1>5 DEF End
  <2>2. UNCHANGED << stopDue, pc, journal, captured >> /\ events' = events /\ ~Waits
    BY <1>0, <1>5, <2>1, ExitEffect DEF End, TypeOK
  <2>3. dirty' \subseteq dirty /\ \A d \in dirty' : d[1] # c
    BY <1>0, <2>1, ExitEffect DEF TypeOK
  <2>4. ASSUME NEW d \in Containers, Owes(d)'
        PROVE  Owes(d) /\ d # c
    <3>1. PICK f \in Files : << d, f >> \in dirty'
      BY <2>4 DEF Owes
    <3>2. << d, f >>[1] = d
      OBVIOUS
    <3> QED
      BY <2>3, <3>1, <3>2 DEF Owes
  <2>5. \A d \in Containers : d # c => Runs(d)' = Runs(d)
    BY <1>0, <2>1 DEF Exit, TypeOK
  <2> QED
    BY <2>2, <2>4, <2>5 DEF Debts
<1>6. CASE Remove \/ Start
  <2>1. dirty' = dirty /\ \A c \in Containers : Runs(c) => Runs(c)'
    BY <1>0, <1>6 DEF Remove, Start, TypeOK
  <2>2. UNCHANGED << stopDue, pc, journal, captured, events >>
    BY <1>6 DEF Remove, Start
  <2> QED
    BY <2>1, <2>2 DEF Debts, Owes
<1>7. CASE Mark
  <2>1. ~journal.stopRequested /\ pc' = "request" /\ UNCHANGED << stopDue, captured, state, dirty >>
    BY <1>7 DEF Mark, Goto
  <2> QED
    BY <1>2, <2>1 DEF Debts
<1>8. CASE RequestStop
  <2>1. /\ pc = "request" /\ pc' = "wait" /\ UNCHANGED << journal, captured, state, dirty >>
        /\ stopDue = {}
        /\ \A c \in Containers : Owes(c) => Runs(c)
    BY <1>8 DEF RequestStop, Goto, Debts
  <2>2. ~("quiesce" \in journal.completed) /\ journal.stopRequested
    BY <1>0, <2>1 DEF TypeOK
  <2> QED
    BY <1>2, <2>1, <2>2 DEF Debts
<1>9. CASE Vet
  <2>1. /\ pc = "vet" /\ UNCHANGED << stopDue, state, dirty, captured, events >> /\ stopDue = {}
        /\ pc' \notin {"wait", "vet", "request"}
    BY <1>9 DEF Vet, Fail, Goto, StopReaches
  <2>2. CASE AtRisk = {}
    <3>1. \A c \in Containers : Owes(c) => Runs(c)
      BY <2>1, <2>2 DEF Debts, AtRisk
    <3> QED
      BY <1>2, <2>1, <3>1 DEF Debts
  <2>3. CASE Fail
    <3>1. journal'.completed = journal.completed /\ journal'.stopRequested = journal.stopRequested
      BY <1>0, <2>3, FailEffect DEF TypeOK
    <3> QED
      BY <1>2, <2>1, <3>1 DEF Debts
  <2> QED
    BY <1>9, <2>2, <2>3 DEF Vet
<1>10. CASE UndoStop
  <2>1. dirty' = dirty /\ \A c \in Containers : Runs(c) => Runs(c)'
    BY <1>0, <1>10 DEF UndoStop, TypeOK
  <2>2. UNCHANGED << stopDue, journal, captured, events >> /\ pc' = "undo_target"
    BY <1>10 DEF UndoStop, Goto
  <2> QED
    BY <2>1, <2>2 DEF Debts, Owes
<1>11. CASE Capture
  <2>1. /\ UNCHANGED << stopDue, state, dirty, events >>
        /\ journal'.stopRequested = journal.stopRequested
        /\ "quiesce" \in journal'.completed <=> "quiesce" \in journal.completed
        /\ pc' # "request"
        /\ pc' \in {"wait", "vet"} => pc \in {"wait", "vet"} /\ UNCHANGED captured
    BY <1>0, <1>11 DEF Capture, Goto, CopyAlone, TypeOK
  <2> QED
    BY <1>2, <2>1 DEF Debts
<1>12. CASE Wait
  <2>1. /\ UNCHANGED << stopDue, state, dirty, events >>
        /\ journal'.stopRequested = journal.stopRequested
        /\ "quiesce" \in journal'.completed <=> "quiesce" \in journal.completed
        /\ pc' # "request"
        /\ pc' \in {"wait", "vet"} => pc \in {"wait", "vet"} /\ UNCHANGED captured
    BY <1>0, <1>12 DEF Wait, Fail, Goto, CopyAlone, TypeOK
  <2> QED
    BY <1>2, <2>1 DEF Debts
<1>13. CASE Authorise
  <2>1. /\ UNCHANGED << stopDue, state, dirty, events >>
        /\ journal'.stopRequested = journal.stopRequested
        /\ "quiesce" \in journal'.completed <=> "quiesce" \in journal.completed
        /\ pc' # "request"
        /\ pc' \in {"wait", "vet"} => pc \in {"wait", "vet"} /\ UNCHANGED captured
    BY <1>0, <1>13 DEF Authorise, Fail, Goto, TypeOK
  <2> QED
    BY <1>2, <2>1 DEF Debts
<1>14. CASE Place
  <2>1. /\ UNCHANGED << stopDue, state, dirty, events >>
        /\ journal'.stopRequested = journal.stopRequested
        /\ "quiesce" \in journal'.completed <=> "quiesce" \in journal.completed
        /\ pc' # "request"
        /\ pc' \in {"wait", "vet"} => pc \in {"wait", "vet"} /\ UNCHANGED captured
    BY <1>0, <1>14 DEF Place, Fail, Goto, TypeOK
  <2> QED
    BY <1>2, <2>1 DEF Debts
<1>15. CASE Look
  <2>1. /\ UNCHANGED << stopDue, state, dirty, events >>
        /\ journal'.stopRequested = journal.stopRequested
        /\ "quiesce" \in journal'.completed <=> "quiesce" \in journal.completed
        /\ pc' # "request"
        /\ pc' \in {"wait", "vet"} => pc \in {"wait", "vet"} /\ UNCHANGED captured
    BY <1>0, <1>15 DEF Look, CopyAlone, TypeOK
  <2> QED
    BY <1>2, <2>1 DEF Debts
<1>16. CASE CopyFile
  <2>1. /\ UNCHANGED << stopDue, state, dirty, events >>
        /\ journal'.stopRequested = journal.stopRequested
        /\ "quiesce" \in journal'.completed <=> "quiesce" \in journal.completed
        /\ pc' # "request"
        /\ pc' \in {"wait", "vet"} => pc \in {"wait", "vet"} /\ UNCHANGED captured
    BY <1>0, <1>16 DEF CopyFile, Fail, Goto, TypeOK
  <2> QED
    BY <1>2, <2>1 DEF Debts
<1>17. CASE LookAgain
  <2>1. /\ UNCHANGED << stopDue, state, dirty, events >>
        /\ journal'.stopRequested = journal.stopRequested
        /\ "quiesce" \in journal'.completed <=> "quiesce" \in journal.completed
        /\ pc' # "request"
        /\ pc' \in {"wait", "vet"} => pc \in {"wait", "vet"} /\ UNCHANGED captured
    <3>1. /\ UNCHANGED << stopDue, state, dirty, events, captured >>
          /\ Fail \/ (pc' = "verify" /\ journal' = [journal EXCEPT !.completed = @ \cup {"copy"},
                                                               !.copying = FALSE])
      BY <1>17 DEF LookAgain, Fail
    <3>2. CASE Fail
      BY <1>0, <3>1, <3>2, FailEffect DEF TypeOK
    <3>3. CASE pc' = "verify" /\ journal' = [journal EXCEPT !.completed = @ \cup {"copy"},
                                                            !.copying = FALSE]
      <4>1. /\ journal'.stopRequested = journal.stopRequested
            /\ journal'.completed = journal.completed \cup {"copy"}
        BY <1>0, <3>3 DEF TypeOK
      <4> QED
        BY <3>1, <3>3, <4>1
    <3> QED
      BY <3>1, <3>2, <3>3
  <2> QED
    BY <1>2, <2>1 DEF Debts
<1>18. CASE VerifyFile
  <2>1. /\ UNCHANGED << stopDue, state, dirty, events >>
        /\ journal'.stopRequested = journal.stopRequested
        /\ "quiesce" \in journal'.completed <=> "quiesce" \in journal.completed
        /\ pc' # "request"
        /\ pc' \in {"wait", "vet"} => pc \in {"wait", "vet"} /\ UNCHANGED captured
    BY <1>0, <1>18 DEF VerifyFile, Fail, Goto, CopyAlone, TypeOK
  <2> QED
    BY <1>2, <2>1 DEF Debts
<1>19. CASE UndoVolumes
  <2>1. /\ UNCHANGED << stopDue, state, dirty, events >>
        /\ journal'.stopRequested = journal.stopRequested
        /\ "quiesce" \in journal'.completed <=> "quiesce" \in journal.completed
        /\ pc' # "request"
        /\ pc' \in {"wait", "vet"} => pc \in {"wait", "vet"} /\ UNCHANGED captured
    BY <1>0, <1>19 DEF UndoVolumes, Goto, TypeOK
  <2> QED
    BY <1>2, <2>1 DEF Debts
<1>20. CASE UndoKey
  <2>1. /\ UNCHANGED << stopDue, state, dirty, events >>
        /\ journal'.stopRequested = journal.stopRequested
        /\ "quiesce" \in journal'.completed <=> "quiesce" \in journal.completed
        /\ pc' # "request"
        /\ pc' \in {"wait", "vet"} => pc \in {"wait", "vet"} /\ UNCHANGED captured
    BY <1>0, <1>20 DEF UndoKey, Goto, TypeOK
  <2> QED
    BY <1>2, <2>1 DEF Debts
<1>21. CASE Crash
  <2>1. /\ UNCHANGED << stopDue, state, dirty, events >>
        /\ journal'.stopRequested = journal.stopRequested
        /\ "quiesce" \in journal'.completed <=> "quiesce" \in journal.completed
        /\ pc' # "request"
        /\ pc' \in {"wait", "vet"} => pc \in {"wait", "vet"} /\ UNCHANGED captured
    BY <1>0, <1>21 DEF Crash, Goto, CopyAlone, TypeOK
  <2> QED
    BY <1>2, <2>1 DEF Debts
<1>22. CASE Resume
  <2>1. /\ UNCHANGED << stopDue, state, dirty, events >>
        /\ journal'.stopRequested = journal.stopRequested
        /\ "quiesce" \in journal'.completed <=> "quiesce" \in journal.completed
        /\ pc' # "request"
        /\ pc' \in {"wait", "vet"} => pc \in {"wait", "vet"} /\ UNCHANGED captured
    BY <1>0, <1>22 DEF Resume, Goto, CopyAlone, TypeOK
  <2> QED
    BY <1>2, <2>1 DEF Debts
<1>23. CASE Rollback
  <2>1. /\ UNCHANGED << stopDue, state, dirty, events >>
        /\ journal'.stopRequested = journal.stopRequested
        /\ "quiesce" \in journal'.completed <=> "quiesce" \in journal.completed
        /\ pc' # "request"
        /\ pc' \in {"wait", "vet"} => pc \in {"wait", "vet"} /\ UNCHANGED captured
    BY <1>0, <1>23 DEF Rollback, Goto, CopyAlone, TypeOK
  <2> QED
    BY <1>2, <2>1 DEF Debts
<1>24. CASE UndoTarget
  <2>1. /\ UNCHANGED << stopDue, state, dirty, events >>
        /\ journal'.stopRequested = journal.stopRequested
        /\ "quiesce" \in journal'.completed <=> "quiesce" \in journal.completed
        /\ pc' # "request"
        /\ pc' \in {"wait", "vet"} => pc \in {"wait", "vet"} /\ UNCHANGED captured
    BY <1>24 DEF UndoTarget, Goto
  <2> QED
    BY <1>2, <2>1 DEF Debts
<1> QED
  BY <1>3, <1>4, <1>5, <1>6, <1>7, <1>8, <1>9, <1>10, <1>11, <1>12, <1>13, <1>14, <1>15,
       <1>16, <1>17, <1>18, <1>19, <1>20, <1>21, <1>22, <1>23, <1>24 DEF Next, Daemon, Process

\* The stop was asked of everybody who could write, and none of them comes back.
LEMMA StopReachesStep ==
  ASSUME TypeOK, Debts, StopReaches, Next, Hazards = {}
  PROVE  StopReaches'
<1> USE DEF Stopping, Runs, daemonVars, keyVars, processVars, boundVars
<1>0. TypeOK
  OBVIOUS
<1>1. ASSUME UNCHANGED << state, captured, stopDue >>,
             pc' \in {"mark", "request", "wait", "vet"} =>
               pc \in {"mark", "request", "wait", "vet"} /\ (pc' \in {"wait", "vet"} => pc' = pc)
      PROVE  StopReaches'
  BY <1>1 DEF StopReaches
<1>2. CASE StopLands
  <2>1. PICK c \in stopDue : (Exit(c) \/ Kill(c)) /\ stopDue' = stopDue \ {c}
    BY <1>2 DEF StopLands
  <2>2. UNCHANGED << pc, captured >> /\ c \in Containers
    BY <1>0, <1>2, <2>1 DEF StopLands, TypeOK
  <2>3. \A d \in Containers : (Runs(d)' => Runs(d)) /\ (d # c /\ Runs(d) => Runs(d)')
    BY <1>0, <2>1, <2>2 DEF Exit, Kill, TypeOK
  <2>4. stopDue \subseteq Containers
    BY <1>0 DEF TypeOK
  <2> QED
    BY <2>1, <2>2, <2>3, <2>4 DEF StopReaches
<1>3. CASE Start
  <2>1. PICK c \in Containers :
          /\ state[c] # "running"
          /\ Stopping /\ c \notin Previews => "deploy_while_stopping" \in Hazards
          /\ state' = [state EXCEPT ![c] = "running"]
    BY <1>3 DEF Start
  <2>2. UNCHANGED << pc, captured, stopDue >>
    BY <1>3 DEF Start
  <2>3. \A d \in Containers : (Runs(d) => Runs(d)') /\ (d # c => Runs(d)' = Runs(d))
    BY <1>0, <2>1 DEF TypeOK
  <2>4. stopDue \subseteq Containers
    BY <1>0 DEF TypeOK
  <2> QED
    BY <2>1, <2>2, <2>3, <2>4 DEF StopReaches
<1>4. CASE Remove
  <2>1. UNCHANGED << pc, captured, stopDue >>
    BY <1>4 DEF Remove
  <2>2. \A d \in Containers : Runs(d)' = Runs(d)
    BY <1>0, <1>4 DEF Remove, TypeOK
  <2>3. stopDue \subseteq Containers
    BY <1>0 DEF TypeOK
  <2> QED
    BY <2>1, <2>2, <2>3 DEF StopReaches
<1>5. CASE End
  BY <1>5 DEF End, StopReaches
<1>6. CASE Capture
  <2>1. captured' = {c \in Present : Mounts[c] # {}} /\ state' = state /\ pc' = "mark"
    BY <1>6 DEF Capture, Goto
  <2>2. \A c \in Containers : Runs(c) => c \in Present
    BY DEF Present
  <2> QED
    BY <2>1, <2>2 DEF StopReaches
<1>7. CASE RequestStop
  <2>1. pc = "request" /\ pc' = "wait" /\ UNCHANGED << state, captured >> /\ stopDue = {}
    BY <1>7 DEF RequestStop, Goto, Debts
  <2>2. stopDue' \subseteq Running \ Previews
    BY <1>7, <2>1 DEF RequestStop
  <2> QED
    BY <2>1, <2>2 DEF StopReaches, Running
<1>8. CASE Wait
  <2>1. pc = "wait" /\ UNCHANGED << state, captured, stopDue >>
    BY <1>8 DEF Wait, Fail
  <2>2. stopDue \subseteq Containers
    BY <1>0 DEF TypeOK
  <2>3. CASE IsQuiesced /\ pc' = "vet"
    BY <2>1, <2>2, <2>3 DEF StopReaches, IsQuiesced
  <2>4. CASE pc' \in {"undo_volumes", "undo_stop"}
    BY <2>4 DEF StopReaches
  <2> QED
    BY <1>8, <2>3, <2>4 DEF Wait, Fail, Goto
<1>9. CASE UndoStop
  BY <1>9 DEF UndoStop, Goto, StopReaches
<1>10. CASE Write
  BY <1>1, <1>10 DEF Write
<1>11. CASE Mark
  BY <1>1, <1>11 DEF Mark, Goto, CopyAlone
<1>12. CASE Vet
  BY <1>1, <1>12 DEF Vet, Fail, Goto, CopyAlone
<1>13. CASE Authorise
  BY <1>1, <1>13 DEF Authorise, Fail, Goto
<1>14. CASE Place
  BY <1>1, <1>14 DEF Place, Fail, Goto
<1>15. CASE Look
  BY <1>1, <1>15 DEF Look, CopyAlone
<1>16. CASE CopyFile
  BY <1>1, <1>16 DEF CopyFile, Fail, Goto
<1>17. CASE LookAgain
  BY <1>1, <1>17 DEF LookAgain, Fail, Goto
<1>18. CASE VerifyFile
  BY <1>1, <1>18 DEF VerifyFile, Fail, Goto, CopyAlone
<1>19. CASE UndoVolumes
  BY <1>1, <1>19 DEF UndoVolumes, Goto
<1>20. CASE UndoKey
  BY <1>1, <1>20 DEF UndoKey, Goto
<1>21. CASE Crash
  BY <1>1, <1>21 DEF Crash, Goto, CopyAlone
<1>22. CASE Resume
  BY <1>1, <1>22 DEF Resume, Goto, CopyAlone
<1>23. CASE Rollback
  BY <1>1, <1>23 DEF Rollback, Goto, CopyAlone
<1>24. CASE UndoTarget
  BY <1>1, <1>24 DEF UndoTarget, Goto
<1> QED
  BY <1>2, <1>3, <1>4, <1>5, <1>6, <1>7, <1>8, <1>9, <1>10, <1>11, <1>12, <1>13, <1>14,
       <1>15, <1>16, <1>17, <1>18, <1>19, <1>20, <1>21, <1>22, <1>23, <1>24 DEF Next, Daemon,
       Process

\* Whenever the last container ends, what it leaves is noted.
LEMMA QuietNotedStep ==
  ASSUME TypeOK, QuietNoted, Next
  PROVE  QuietNoted'
<1> USE DEF Running, daemonVars, keyVars, processVars, boundVars
<1>0. TypeOK
  OBVIOUS
<1>1. ASSUME UNCHANGED << source, dirty, quiet >>,
             \A c \in Containers : state[c] = "running" => state'[c] = "running"
      PROVE  QuietNoted'
  BY <1>1 DEF QuietNoted
<1>2. CASE StopLands \/ End
  <2>1. PICK c \in Containers : Exit(c) \/ Kill(c)
    BY <1>0, <1>2 DEF StopLands, End, TypeOK
  <2> QED
    BY <2>1 DEF QuietNoted, NoteQuiet, Exit, Kill
<1>3. CASE Write
  BY <1>3 DEF Write, QuietNoted
<1>4. CASE Remove \/ Start \/ UndoStop
  BY <1>0, <1>1, <1>4 DEF Remove, Start, UndoStop, TypeOK
<1>5. CASE Capture \/ Mark \/ RequestStop \/ Wait \/ Vet \/ Authorise \/ Place \/ Look
        \/ CopyFile \/ LookAgain \/ VerifyFile \/ UndoVolumes \/ UndoKey \/ UndoTarget \/ Crash
        \/ Resume \/ Rollback
  BY <1>5, <1>1 DEF Capture, Mark, RequestStop, Wait, Vet, Authorise, Place, Look,
       CopyFile, LookAgain,
     VerifyFile, UndoVolumes, UndoKey, UndoTarget, Crash, Resume, Rollback, CopyAlone
<1> QED
  BY <1>2, <1>3, <1>4, <1>5 DEF Next, Daemon, Process

\* No key is left once the rollback has been at it, if nothing failed.
KeyGone == pc = "over" /\ faults = 0 => ~authorised /\ ~privateKey

LEMMA KeyGoneStep ==
  ASSUME faults \in Nat, KeyGone, Next
  PROVE  KeyGone'
<1> USE DEF daemonVars, keyVars, processVars, boundVars
<1>1. ASSUME UNCHANGED keyVars, UNCHANGED faults, pc' = "over" => pc = "over"
      PROVE  KeyGone'
  BY <1>1 DEF KeyGone
<1>2. CASE UndoTarget
  <2>1. CASE authorised' = FALSE /\ privateKey' = FALSE
    BY <2>1 DEF KeyGone
  <2>2. CASE faults' = faults + 1
    BY <2>2 DEF KeyGone
  <2> QED
    BY <1>2, <2>1, <2>2 DEF UndoTarget, Revoke
<1>3. CASE Authorise \/ Place \/ UndoKey
  <2>1. pc' # "over"
    BY <1>3 DEF Authorise, Place, UndoKey, Fail, Goto
  <2> QED
    BY <2>1 DEF KeyGone
<1>4. CASE Write
  BY <1>4, <1>1 DEF Write
<1>5. CASE StopLands
  BY <1>5, <1>1 DEF StopLands, Exit, Kill, NoteQuiet
<1>6. CASE Remove
  BY <1>6, <1>1 DEF Remove
<1>7. CASE Start
  BY <1>7, <1>1 DEF Start, Stopping
<1>8. CASE End
  BY <1>8, <1>1 DEF End, Exit, Kill, NoteQuiet
<1>9. CASE Capture
  BY <1>9, <1>1 DEF Capture, Goto, CopyAlone
<1>10. CASE Mark
  BY <1>10, <1>1 DEF Mark, Goto, CopyAlone
<1>11. CASE RequestStop
  BY <1>11, <1>1 DEF RequestStop, Goto, CopyAlone
<1>12. CASE Wait
  BY <1>12, <1>1 DEF Wait, Fail, Goto, CopyAlone
<1>13. CASE Vet
  BY <1>13, <1>1 DEF Vet, Fail, Goto, CopyAlone
<1>14. CASE Look
  BY <1>14, <1>1 DEF Look, CopyAlone
<1>15. CASE CopyFile
  BY <1>15, <1>1 DEF CopyFile, Fail, Goto
<1>16. CASE LookAgain
  BY <1>16, <1>1 DEF LookAgain, Fail, Goto
<1>17. CASE VerifyFile
  BY <1>17, <1>1 DEF VerifyFile, Fail, Goto, CopyAlone
<1>18. CASE UndoVolumes
  BY <1>18, <1>1 DEF UndoVolumes, Goto
<1>19. CASE UndoStop
  BY <1>19, <1>1 DEF UndoStop, Goto, CopyAlone
<1>20. CASE Crash
  BY <1>20, <1>1 DEF Crash, Goto, CopyAlone
<1>21. CASE Resume
  BY <1>21, <1>1 DEF Resume, Goto, CopyAlone
<1>22. CASE Rollback
  BY <1>22, <1>1 DEF Rollback, Goto, CopyAlone
<1> QED
  BY <1>2, <1>3, <1>4, <1>5, <1>6, <1>7, <1>8, <1>9, <1>10, <1>11, <1>12, <1>13, <1>14,
       <1>15, <1>16, <1>17, <1>18, <1>19, <1>20, <1>21, <1>22 DEF Next, Daemon, Process

-----------------------------------------------------------------------------
(***************************************************************************)
(* The invariant holds at first and every step keeps it.                   *)
(***************************************************************************)
LEMMA InitIsFine ==
  ASSUME Init
  PROVE  CopyInv /\ KeyGone
<1> USE DEF Init
<1>1. NothingCopied \in [Files -> {None}] /\ source \in [Files -> Nat] /\ \A f \in Files : source[f] = 0
  BY DEF NothingCopied
<1>2. state \in [Containers -> {"running", "gone"}]
  OBVIOUS
<1>3. quiet \subseteq {source}
  OBVIOUS
<1>4. TypeOK
  BY <1>1, <1>2, <1>3 DEF TypeOK, Labels
<1>5. Recorded /\ VerifiedIsChecked /\ StopReaches /\ KeyGone
  BY DEF Recorded, Stopping, Copying, VerifiedIsChecked, StopReaches, KeyGone
<1>6. Behind
  BY <1>1 DEF Behind, None
<1>7. Debts
  BY DEF Debts, Owes
<1>8. QuietNoted
  BY DEF QuietNoted
<1> QED
  BY <1>4, <1>5, <1>6, <1>7, <1>8 DEF CopyInv

\* The types, put together.
LEMMA TypeStep ==
  ASSUME TypeOK, Next
  PROVE  TypeOK'
<1>1. DaemonTypes /\ CopyTypes /\ ProcessTypes /\ KeyTypes /\ BoundTypes
  BY DEF TypeOK, DaemonTypes, CopyTypes, ProcessTypes, KeyTypes, BoundTypes
<1>2. DaemonTypes' /\ CopyTypes' /\ ProcessTypes' /\ KeyTypes' /\ BoundTypes'
  BY <1>1, DaemonTypesKept, CopyTypesKept, ProcessTypesKept, KeyTypesKept
<1> QED
  BY <1>2 DEF TypeOK, DaemonTypes, CopyTypes, ProcessTypes, KeyTypes, BoundTypes

\* Nothing changes, nothing breaks.
LEMMA Stutter ==
  ASSUME CopyInv, UNCHANGED vars
  PROVE  CopyInv'
<1> USE DEF CopyInv, vars, daemonVars, keyVars, processVars, boundVars
<1>1. TypeOK'
  BY DEF TypeOK
<1>2. Recorded' /\ VerifiedIsChecked'
  BY DEF Recorded, Stopping, VerifiedIsChecked
<1>3. Behind' /\ QuietNoted'
  BY DEF Behind, QuietNoted, Running
<1>4. Debts' /\ StopReaches'
  BY DEF Debts, StopReaches, Owes, Runs
<1> QED
  BY <1>1, <1>2, <1>3, <1>4

\* The invariant is inductive once no hazard is met.
LEMMA InvStep ==
  ASSUME CopyInv, [Next]_vars, Hazards = {}
  PROVE  CopyInv'
<1>1. CASE Next
  BY <1>1, TypeStep, RecordedStep, BehindStep, VerifiedStep, DebtsStep, StopReachesStep,
     QuietNotedStep DEF CopyInv
<1>2. CASE UNCHANGED vars
  BY <1>2, Stutter
<1> QED
  BY <1>1, <1>2

-----------------------------------------------------------------------------
\* Where no hazard is met (no stop resumed after a crash, no deploy while the
\* stop is under way, no kill after the vetting), a copy that passed VERIFY is a
\* state in which the source was stopped and flushed, whatever wrote when, for any
\* number of containers, files, previews, crashes and restarts.
THEOREM VerifiedCopyIsASnapshot ==
  ASSUME Hazards = {}
  PROVE  Spec => []CopyIsASnapshot
<1>1. Init => CopyInv
  BY InitIsFine
<1>2. CopyInv /\ [Next]_vars => CopyInv'
  BY InvStep
<1>3. CopyInv => CopyIsASnapshot
  BY DEF CopyInv, Recorded, CopyIsASnapshot
<1> QED
  BY <1>1, <1>2, <1>3, PTL DEF Spec

\* Under the same proviso a file that VERIFY finds equal is the file of the moment
\* at which COPY looked at the stack again: what is written later is not lost unseen.
THEOREM RecordsCanBeResumed ==
  ASSUME Hazards = {}
  PROVE  Spec => []RecordsAreTrue
<1>1. Init => CopyInv
  BY InitIsFine
<1>2. CopyInv /\ [Next]_vars => CopyInv'
  BY InvStep
<1>3. CopyInv => RecordsAreTrue
  BY DEF CopyInv, RecordsAreTrue
<1> QED
  BY <1>1, <1>2, <1>3, PTL DEF Spec

\* With any hazards, a rollback in which no revocation failed leaves neither half of
\* the key behind, wherever the run had failed or died, and whether or not COPY
\* was complete and its own compensations were planned: the undo of CREATE_TARGET
\* revokes the key too.
THEOREM NoKeySurvives == Spec => []NoKeyAfterRollback
<1> DEFINE KeyInv == TypeOK /\ KeyGone
<1>1. Init => KeyInv
  BY InitIsFine DEF CopyInv
<1>2. ASSUME KeyInv, [Next]_vars
      PROVE  KeyInv'
  <2>1. CASE Next
    BY <1>2, <2>1, TypeStep, KeyGoneStep DEF TypeOK
  <2>2. CASE UNCHANGED vars
    BY <1>2, <2>2 DEF TypeOK, KeyGone, vars, daemonVars, keyVars, processVars, boundVars
  <2> QED
    BY <1>2, <2>1, <2>2
<1>3. KeyInv => NoKeyAfterRollback
  BY DEF KeyGone, NoKeyAfterRollback
<1> QED
  BY <1>1, <1>2, <1>3, PTL DEF Spec

=============================================================================
