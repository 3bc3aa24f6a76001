----------------------------- MODULE OfflineRun -----------------------------
(***************************************************************************)
(* One interactive `run` over the environments of a project (cli.py,       *)
(* _run and _execute_plans): the stacks it stops up front because they can *)
(* only be migrated offline, the sagas it runs one after the other, and    *)
(* the restart of what no saga took over.                                  *)
(*                                                                         *)
(* Coolify queues every stop and every restart, and runs them in any       *)
(* order.  A saga is cut down to what it does to the sources of its        *)
(* environment; module Migration has the rest of it.                       *)
(***************************************************************************)
EXTENDS Naturals, FiniteSets

CONSTANTS Stacks,
          EnvOf      \* the environment of a stack, by its place in the run

Envs == {EnvOf[s] : s \in Stacks}

ASSUME EnvAssumption ==
  /\ IsFiniteSet(Stacks) /\ Stacks # {}
  /\ EnvOf \in [Stacks -> Nat] /\ Envs = 1 .. Cardinality(Envs)

VARIABLES
  kind,     \* per stack: what stands in the way of migrating it
  up,       \* per stack: its containers run on the source
  queue,    \* what Coolify was asked for and has not done yet
  view,     \* per stack: what its last plan says
  pc, env,  \* the process: where it is, and at which environment
  todo,     \* stacks the operator agreed to stop, not asked for yet
  stopped,  \* stacks this process has to start again
  saga,     \* per environment: how far its saga came
  exit,     \* how the run came to its end
  ours,     \* history: stacks the process recorded as stopped by it
  told,     \* history: stacks the operator was told to start by hand
  raced     \* history: stacks with a restart asked for while a stop was queued

sourceVars == << kind, up, queue >>
processVars == << view, pc, env, todo, stopped, exit >>
historyVars == << ours, told, raced >>
runVars == << sourceVars, processVars, saga, historyVars >>

Kinds == {"plain", "anonymous", "anonymous_database", "refused"}
Jobs == {"stop", "restart"} \X Stacks \X {"cli", "saga"}

\* "undone": failed before QUIESCE.  "unmarked": failed in QUIESCE before the stop marker.
Stages == {"none", "early", "quiesce", "marked", "stopping", "held", "live",
           "undone", "unmarked", "rolled_back", "blocked", "moved"}

RunTypeOK ==
  /\ kind \in [Stacks -> Kinds] /\ up \in [Stacks -> BOOLEAN]
  /\ queue \subseteq Jobs
  /\ view \in [Stacks -> {"clear", "offline", "blocked"}]
  /\ pc \in {"offer", "stop", "await", "confirm", "host_key", "saga", "restart", "ended"}
  /\ env \in Envs
  /\ todo \subseteq Stacks /\ stopped \subseteq Stacks
  /\ saga \in [Envs -> Stages]
  /\ exit \in {"none", "offer_raised", "aborted", "returned", "raised"}
  /\ ours \subseteq Stacks /\ told \subseteq Stacks /\ raced \subseteq Stacks

StacksOf(e) == {s \in Stacks : EnvOf[s] = e}
LastEnv == Cardinality(Envs)

\* What a plan made now says: only a RUNNING container shows its anonymous volumes, and
\* a database is never offered the stop that would lose them.
PlanOf(s) ==
  CASE kind[s] = "refused" -> "blocked"
    [] kind[s] = "anonymous" /\ up[s] -> "offline"
    [] kind[s] = "anonymous_database" /\ up[s] -> "blocked"
    [] OTHER -> "clear"

RunInit ==
  /\ kind \in [Stacks -> Kinds] /\ up \in [Stacks -> BOOLEAN] /\ queue = {}
  /\ view = [s \in Stacks |-> PlanOf(s)]
  /\ pc = "offer" /\ env = 1 /\ todo = {} /\ stopped = {}
  /\ saga = [e \in Envs |-> "none"] /\ exit = "none"
  /\ ours = {} /\ told = {} /\ raced = {}

-----------------------------------------------------------------------------
(***************************************************************************)
(* Coolify's queue.                                                        *)
(***************************************************************************)
JobRuns ==
  \E job \in queue :
    /\ queue' = queue \ {job}
    /\ up' = [up EXCEPT ![job[2]] = (job[1] = "restart")]
    /\ UNCHANGED << kind, processVars, saga, historyVars >>

StopQueued(s) == \E who \in {"cli", "saga"} : <<"stop", s, who>> \in queue

\* Coolify accepts the restart of `accepted`, and refuses or loses that of `refused`.
AskRestarts(accepted, refused, who) ==
  /\ queue' = queue \cup {<<"restart", s, who>> : s \in accepted}
  /\ told' = told \cup refused
  /\ raced' = raced \cup {s \in accepted : StopQueued(s)}
  /\ UNCHANGED << kind, up, ours >>

-----------------------------------------------------------------------------
(***************************************************************************)
(* The offer, before anything else runs.                                   *)
(***************************************************************************)
OfflineOnly(e) == {s \in StacksOf(e) : view[s] = "offline"}
Blocked(e) == {s \in StacksOf(e) : view[s] # "clear"}
Offered(e) == OfflineOnly(e) # {} /\ OfflineOnly(e) = Blocked(e)

NextOffer ==
  IF env < LastEnv THEN pc' = "offer" /\ env' = env + 1 ELSE pc' = "confirm" /\ env' = 1

\* Nothing to offer, or the operator declines.
PassOffer ==
  /\ pc = "offer"
  /\ NextOffer
  /\ UNCHANGED << sourceVars, view, todo, stopped, exit, saga, historyVars >>

AcceptOffer ==
  /\ pc = "offer" /\ Offered(env)
  /\ todo' = OfflineOnly(env)
  /\ pc' = "stop"
  /\ UNCHANGED << sourceVars, view, env, stopped, exit, saga, historyVars >>

\* Recorded before the request.  Coolify queues the stop, or answers "already stopped"
\* from its stale status column and queues nothing; either answer is dropped.
StopUpFront ==
  /\ pc = "stop"
  /\ \E s \in todo :
       /\ stopped' = stopped \cup {s} /\ ours' = ours \cup {s}
       /\ todo' = todo \ {s}
       /\ \/ queue' = queue \cup {<<"stop", s, "cli">>}
          \/ queue' = queue
       /\ pc' = IF todo' = {} THEN "await" ELSE "stop"
  /\ UNCHANGED << kind, up, view, env, exit, saga, told, raced >>

\* A stop that raises, accepted by Coolify or not.
StopRaises ==
  /\ pc = "stop"
  /\ \E s \in todo :
       /\ stopped' = stopped \cup {s} /\ ours' = ours \cup {s}
       /\ \/ queue' = queue \cup {<<"stop", s, "cli">>}
          \/ queue' = queue
  /\ pc' = "ended" /\ exit' = "offer_raised"
  /\ UNCHANGED << kind, up, view, env, todo, saga, told, raced >>

\* Planned again until no running container shows an anonymous volume, or the deadline.
Replan ==
  /\ pc = "await"
  /\ view' = [s \in Stacks |-> IF EnvOf[s] = env THEN PlanOf(s) ELSE view[s]]
  /\ \/ NextOffer
     \/ /\ \E s \in StacksOf(env) : view'[s] = "offline"
        /\ UNCHANGED << pc, env >>
  /\ UNCHANGED << sourceVars, todo, stopped, exit, saga, historyVars >>

ReplanRaises ==
  /\ pc = "await"
  /\ pc' = "ended" /\ exit' = "offer_raised"
  /\ UNCHANGED << sourceVars, view, env, todo, stopped, saga, historyVars >>

\* The operator says no or cancels, here or at an offer, or a plan is still blocked.
Abort ==
  /\ pc \in {"offer", "confirm"}
  /\ pc = "offer" => Offered(env)
  /\ pc' = "restart" /\ exit' = "aborted"
  /\ UNCHANGED << sourceVars, view, env, todo, stopped, saga, historyVars >>

Confirm ==
  /\ pc = "confirm"
  /\ \A e \in Envs : Blocked(e) = {}
  /\ pc' = "host_key"
  /\ UNCHANGED << sourceVars, view, env, todo, stopped, exit, saga, historyVars >>

-----------------------------------------------------------------------------
(***************************************************************************)
(* The sagas, one environment after the other.                             *)
(***************************************************************************)
HostKeyAccepted ==
  /\ pc = "host_key"
  /\ pc' = "saga" /\ saga' = [saga EXCEPT ![1] = "early"]
  /\ UNCHANGED << sourceVars, view, env, todo, stopped, exit, historyVars >>

HostKeyRefused ==
  /\ pc = "host_key"
  /\ pc' = "restart" /\ exit' = "raised"
  /\ UNCHANGED << sourceVars, view, env, todo, stopped, saga, historyVars >>

\* From QUIESCE on the saga owns the sources of its environment.
ReachedQuiesce_FromCreate(stage) == stage \in Stages
ReachedQuiesce(stage) == stage # "undone"
StillOurs_UntilMoved(stage) == IF stage = "moved" THEN stopped \ StacksOf(env) ELSE stopped
StillOurs(stage) == IF ReachedQuiesce(stage) THEN stopped \ StacksOf(env) ELSE stopped

\* run_migration returns; the first failure ends the run.
Return(stage) ==
  /\ pc = "saga"
  /\ stopped' = StillOurs(stage)
  /\ IF stage = "moved" /\ env < LastEnv
       THEN /\ env' = env + 1
            /\ saga' = [saga EXCEPT ![env] = stage, ![env + 1] = "early"]
            /\ UNCHANGED << pc, exit >>
       ELSE /\ saga' = [saga EXCEPT ![env] = stage]
            /\ pc' = "restart" /\ exit' = "returned"
            /\ UNCHANGED env
  /\ UNCHANGED << view, todo >>

\* A gate stops it or a step fails, before QUIESCE or in QUIESCE before the stop marker:
\* such a rollback owes the source no restart.
FailsUnmarked ==
  /\ \/ saga[env] = "early" /\ Return("undone")
     \/ saga[env] = "quiesce" /\ Return("unmarked")
  /\ UNCHANGED << sourceVars, historyVars >>

Proceed(from, to) ==
  /\ pc = "saga" /\ saga[env] = from
  /\ saga' = [saga EXCEPT ![env] = to]
  /\ UNCHANGED << processVars, historyVars >>

EnterQuiesce == Proceed("early", "quiesce") /\ UNCHANGED sourceVars
MarkStop == Proceed("quiesce", "marked") /\ UNCHANGED sourceVars

\* Every stack of the environment; a refusal is believed of one that is down.
RequestStop ==
  /\ Proceed("marked", "stopping")
  /\ \E asked \in SUBSET StacksOf(env) :
       /\ {s \in StacksOf(env) : up[s]} \subseteq asked
       /\ queue' = queue \cup {<<"stop", s, "saga">> : s \in asked}
  /\ UNCHANGED << kind, up >>

SeeItDown ==
  /\ \A s \in StacksOf(env) : ~up[s]
  /\ Proceed("stopping", "held")
  /\ UNCHANGED sourceVars

Deploy == Proceed("held", "live") /\ UNCHANGED sourceVars

\* After the marker a failing step rolls back, and that asks for every restart.
FailsMarked ==
  /\ saga[env] \in {"marked", "stopping", "held", "live"}
  /\ Return("rolled_back")
  /\ \E accepted \in SUBSET StacksOf(env) :
       AskRestarts(accepted, StacksOf(env) \ accepted, "saga")

\* The DNS gate keeps source and target as they are, for a resume.
BlockedAtDns ==
  /\ saga[env] = "held" /\ Return("blocked")
  /\ UNCHANGED << sourceVars, historyVars >>

Succeed ==
  /\ saga[env] = "live" /\ Return("moved")
  /\ UNCHANGED << sourceVars, historyVars >>

\* Ctrl-C anywhere, or a rollback that is refused because FINALIZE has begun to delete.
SagaRaises ==
  /\ pc = "saga"
  /\ pc' = "restart" /\ exit' = "raised"
  /\ UNCHANGED << sourceVars, view, env, todo, stopped, saga, historyVars >>

-----------------------------------------------------------------------------
\* Failures are reported, never raised.
RestartStopped ==
  /\ pc = "restart"
  /\ \E s \in stopped :
       /\ stopped' = stopped \ {s}
       /\ \/ AskRestarts({s}, {}, "cli")
          \/ AskRestarts({}, {s}, "cli")
  /\ UNCHANGED << view, pc, env, todo, exit, saga >>

End ==
  /\ pc = "restart" /\ stopped = {}
  /\ pc' = "ended"
  /\ UNCHANGED << sourceVars, view, env, todo, stopped, exit, saga, historyVars >>

Process ==
  \/ PassOffer \/ AcceptOffer \/ StopUpFront \/ StopRaises \/ Replan \/ ReplanRaises
  \/ Abort \/ Confirm \/ HostKeyAccepted \/ HostKeyRefused
  \/ FailsUnmarked \/ EnterQuiesce \/ MarkStop \/ RequestStop \/ SeeItDown \/ Deploy
  \/ FailsMarked \/ BlockedAtDns \/ Succeed \/ SagaRaises
  \/ RestartStopped \/ End

RunNext == JobRuns \/ Process

\* The process runs, an operator answers, and Coolify works off its queue.
Fairness == WF_runVars(JobRuns) /\ WF_runVars(Process)
RunSpec == RunInit /\ [][RunNext]_runVars /\ Fairness

-----------------------------------------------------------------------------
(***************************************************************************)
(* Properties.                                                             *)
(***************************************************************************)
(* The run ends, and in the end every stack it stopped up front runs again,
   or the operator was told to start it, or its saga keeps it down because
   its copy is the stack now (moved) or is waiting for a resume (blocked).
   What the code does not answer for is named: the offer raised, which
   happens outside the try whose finally restarts; QUIESCE failed before its
   stop marker, where the process drops the stack and the rollback does not
   owe it; and a stop that Coolify still had in its queue when the restart
   was asked for.                                                           *)
AnsweredFor(s) ==
  \/ up[s]
  \/ s \in told
  \/ saga[EnvOf[s]] \in {"moved", "blocked"}
  \/ exit = "offer_raised" \/ saga[EnvOf[s]] = "unmarked" \/ s \in raced
EndsAnswered == <>[](pc = "ended" /\ \A s \in ours : AnsweredFor(s))

(* A source whose data was copied never runs beside its copy: not while its
   saga is at work, not after it moved or stopped at the DNS gate, whatever
   becomes of the environments after it.  Only a saga that RAISED may see its
   sources started: the finally then takes them for its own.                *)
HasCopy(e) == saga[e] \in {"held", "live", "blocked", "moved"}
NoRivalToTheCopy ==
  \A s \in Stacks :
    HasCopy(EnvOf[s]) /\ ~(exit = "raised" /\ env = EnvOf[s]) => ~up[s]

(* As cli.py says of its restart, "Whatever the saga never took over (it does
   at QUIESCE)": a source whose saga has asked for its stop is never started
   by the command line.                                                     *)
TakenOverStaysTaken ==
  \A s \in Stacks :
    saga[EnvOf[s]] \in {"marked", "stopping", "held", "live", "blocked", "moved"} =>
      <<"restart", s, "cli">> \notin queue
=============================================================================
