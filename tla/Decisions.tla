----------------------------- MODULE Decisions -----------------------------
(***************************************************************************)
(* The decisions a migration takes from what it reads, each over every     *)
(* input of a bounded set: the plan of a rollback, the DNS gate, the       *)
(* manifest of the data and the pairing of the volumes, the split of a     *)
(* copy and its comparison, the copy of the schedules and the variables,   *)
(* the locked ones of an .env file, and the containers to be stopped.      *)
(*                                                                         *)
(* A behavior asks one question and stops.                                 *)
(***************************************************************************)
EXTENDS Naturals, SequencesExt, FiniteSets, TLC

CONSTANTS
  MaxRetries, Large,
  Texts,                    \* values of a locked variable
  Hazards                   \* \subseteq HazardKinds

HazardKinds ==
  {"partial_answers",       \* one record type times out while the other answers
   "missing_hashes",        \* a file VERIFY cannot hash on either side
   "unanswered_probe",      \* Docker does not answer PREFLIGHT for one volume
   "locked_since_plan",     \* a variable locked after the plan, and not in the file
   "locked_while_copying",  \* a variable locked between CREATE's two readings
   "literal_ends_in_key"}   \* a locked legacy literal whose last line is a key alone

ASSUME HazardsAssumption == Hazards \subseteq HazardKinds
ASSUME MaxRetriesAssumption == MaxRetries \in Nat
ASSUME LargeAssumption == Large \in Nat

\* A value is not empty, and "bad" is no token of one: it marks a text nothing encodes to.
ASSUME TextsAssumption == \A text \in Texts : text # <<>> /\ text \in Seq(ToSet(text) \ {"bad"})

VARIABLE question

Comments == {"#c"}

Undo == INSTANCE RollbackPlanning
Dns == INSTANCE DnsGate
Data == INSTANCE VolumeManifest
Copy == INSTANCE CopyPlan
Api == INSTANCE ApiCalls
Env == INSTANCE EnvFile
Vars == INSTANCE EnvRows
Seen == INSTANCE SourceContainers

UpTo(S, n) == {T \in SUBSET S : Cardinality(T) <= n}

\* The same for a large set.
UpToTwo(S) == {{}} \cup {{a, b} : a, b \in S}

SeqUpTo(S, n) == UNION {[1..k -> S] : k \in 0..n}

(***************************************************************************)
(* Journals: the five states with side effects and one that only reads,    *)
(* completed in any order and with repetitions - a journal replayed after  *)
(* a crash may hold either (statemachine.py, rollback_plan_for).           *)
(***************************************************************************)
Journalled == Undo!SideEffects \cup {"verify"}

AskRollback ==
  /\ question.kind = "rollback"
  /\ \E completed \in SeqUpTo(Journalled, 3), inFlight \in Journalled \cup {Undo!NoState},
        undoIncomplete \in SUBSET {"create_target"}, stopRequested \in BOOLEAN :
       question' = [kind |-> "rollback_asked", completed |-> completed, inFlight |-> inFlight,
                    undoIncomplete |-> undoIncomplete, stopRequested |-> stopRequested]

(***************************************************************************)
(* DNS: the source answers as S and B, the target as T and B, C is a CDN.  *)
(***************************************************************************)
SourceIps == {"S", "B"}
TargetIps == {"T", "B"}

Looks ==
  [exists : {TRUE}, a : UpTo({"S", "T", "B", "C"}, 2), aaaa : {{}, {"S"}, {"T"}},
   failed : SUBSET Dns!RecordTypes]
  \cup [exists : {FALSE}, a : {{}}, aaaa : {{}}, failed : SUBSET Dns!RecordTypes]

Hosts ==
  {h \in [generated : BOOLEAN, underSource : BOOLEAN, underTarget : BOOLEAN] :
     h.underTarget => h.underSource}

AskDns ==
  /\ question.kind = "dns"
  /\ \E host \in Hosts, planned, now \in Looks, acceptCutover, acceptedHost \in BOOLEAN :
       /\ question' = [kind |-> "dns_asked", host |-> host, planned |-> planned, now |-> now,
                       acceptCutover |-> acceptCutover, acceptedHost |-> acceptedHost]

(***************************************************************************)
(* Volumes.                                                                *)
(***************************************************************************)
Named(of, sep, key) == [of |-> of, sep |-> sep, key |-> key]

OwnA == Named("source", "_", "a")
OwnB == Named("source", "_", "b")
Pinned == Named("external", "", "a")
HostPath(key) == Named("host", "", key)

Paths == {"p", "q"}

Mounts ==
  [type : {"volume"}, name : {OwnA, OwnB, Pinned, Named("anonymous", "", "a")}, path : Paths]
  \cup [type : {"bind"}, name : {HostPath("data"), HostPath("passthrough")}, path : {"p"}]
  \cup [type : {"tmpfs"}, name : {HostPath("tmp")}, path : {"q"}]

Storages ==
  [kind : {"persistent"}, name : {OwnA, OwnB}, path : Paths]
  \cup [kind : {"file"}, name : {HostPath("data")}, path : {"p"}]

MountedVolumes(mounts) ==
  {m.name : m \in {n \in {mounts[i] : i \in DOMAIN mounts} :
                     n.type = "volume" /\ n.name.of # "anonymous"}}

AskManifest ==
  /\ question.kind = "manifest"
  /\ \E mounts \in SeqUpTo(Mounts, 2), storages \in SeqUpTo(Storages, 2),
        existing \in SUBSET {OwnA, OwnB, Pinned} :
       /\ MountedVolumes(mounts) \subseteq existing
       /\ question' = [kind |-> "manifest_asked", mounts |-> mounts, storages |-> storages,
                       existing |-> existing]

\* One endpoint for each volume of the source; a target volume may have two.
SourceEndpoints ==
  LET names == {OwnA, Named("source", "-", "a"), OwnB, Pinned}
  IN  UNION {{{[name |-> n, path |-> path[n]] : n \in chosen} : path \in [chosen -> Paths]} :
               chosen \in UpTo(names, 2)}

Endpoints(names) == [name : names, path : Paths]

TargetNames ==
  {Named("target", "_", "a"), Named("target", "-", "a"), Named("target", "_", "b"), Pinned}

AskPairing ==
  /\ question.kind = "pairing"
  /\ \E kind \in {"git_compose", "service", "database"}, source \in SourceEndpoints,
        target \in UpTo(Endpoints(TargetNames), 3), declared \in SUBSET Endpoints({OwnA, OwnB}) :
       /\ question' = [kind |-> "pairing_asked", of |-> kind, source |-> source,
                       target |-> target, declared |-> declared]

(***************************************************************************)
(* One volume's copy, and a comparison of two trees.                       *)
(***************************************************************************)
Metas == {"root", "mysql"}
Entries == [meta : Metas, content : {"directory", "x", "y"}]

Trees(names) ==
  UNION {[root : Metas, entries : [chosen -> Entries]] : chosen \in SUBSET names}

Empty == [root |-> "root", entries |-> <<>>]

AskCopy ==
  /\ question.kind = "copy"
  /\ \E source \in Trees({"#c", "a", "b"}), parallel \in {1, 2, 3}, linked \in SUBSET {"#c", "a", "b"} :
       \E sizes \in [DOMAIN source.entries -> {0, 1, Large}] :
         /\ linked \subseteq DOMAIN source.entries /\ Cardinality(linked) # 1
         /\ question' = [kind |-> "copy_asked", source |-> source, sizes |-> sizes,
                         parallel |-> parallel, linked |-> linked]

AskCompare ==
  /\ question.kind = "compare"
  /\ \E source, target \in Trees({"a", "b"}), unreadable \in SUBSET {"a", "b"} :
       /\ unreadable = {} \/ "missing_hashes" \in Hazards
       /\ question' = [kind |-> "compare_asked", source |-> source, target |-> target,
                       unreadable |-> unreadable]

(***************************************************************************)
(* The schedules of one resource: two rows.                                *)
(***************************************************************************)
AskApi ==
  /\ question.kind = "api"
  /\ \E table \in {"tasks", "backups"}, calls \in [1..2 -> Api!Calls] :
       /\ question' = [kind |-> "api_asked", table |-> table, calls |-> calls]

(***************************************************************************)
(* The file of one resource: the locked row A, at most one other row, and  *)
(* the lines Coolify writes of its own.  A legacy value is stored trimmed; *)
(* from 4.6 a legacy row may be written exact.                             *)
(***************************************************************************)
Row(key, exact, literal, locked, value, real) ==
  [key |-> key, exact |-> exact, literal |-> literal, locked |-> locked, value |-> value,
   real |-> real, null |-> value = <<>>]

Others ==
  {Row("B=", TRUE, FALSE, FALSE, <<"x">>, <<"x">>), Row("B=", TRUE, FALSE, TRUE, <<"x">>, <<>>),
   Row("B=", FALSE, TRUE, FALSE, <<"x">>, <<"sq", "x", "sq">>),
   Row("B=", FALSE, TRUE, TRUE, <<"x">>, <<>>), Row("B=", TRUE, FALSE, FALSE, <<>>, <<>>),
   Row("B=", FALSE, TRUE, FALSE, <<"x">>, <<"x">>),
   Row("B=", FALSE, FALSE, TRUE, <<"x", "nl", "A=", "x">>, <<>>)}

EndsInKey(text) ==
  LET n == Len(text) IN n > 1 /\ text[n] \in Env!Keys /\ text[n - 1] = "nl"

Trimmed(text) == text # <<>> /\ Head(text) # "nl" /\ text[Len(text)] # "nl"

\* The line of a row, by what Coolify wrote it as.
Line(row, asExact) ==
  <<row.key>> \o IF row.null THEN <<>>
                 ELSE IF asExact THEN Env!ExactFormat(row, row.value)
                 ELSE Env!Encode(row, row.value)

Joined(lines) ==
  FlattenSeq([i \in DOMAIN lines |-> IF i = Len(lines) THEN lines[i] ELSE Append(lines[i], "nl")])

\* Every file the rows can have been written to.
Files(a, others, collection) ==
  LET Lines(row) == {<<Line(row, asExact)>> : asExact \in IF row.exact THEN {TRUE} ELSE BOOLEAN}
                    \cup IF row.null /\ collection = "services" THEN {<<>>} ELSE {}
      LinesOfOthers == IF others = {} THEN {<<>>} ELSE UNION {Lines(row) : row \in others}
      Host == IF collection = "applications" THEN {<<<<"HOST=", Env!HostAddress>>>>} ELSE {<<>>}
      Commit == IF collection = "applications" THEN {<<>>, <<<<"SOURCE_COMMIT=", "x">>>>} ELSE {<<>>}
  IN  UNION {{Joined(commit \o first \o second \o host),
              Joined(second \o first \o commit \o host),
              Joined(host \o second \o first \o commit)} :
                commit \in Commit, first \in Lines(a), second \in LinesOfOthers, host \in Host}

AskEnv ==
  /\ question.kind = "env"
  /\ \E value \in Texts, exact, literal \in BOOLEAN, collection \in {"applications", "services"},
        others \in UpTo(Others, 1) :
       LET a == Row("A=", exact, literal, TRUE, value, <<>>)
       IN  \E text \in Files(a, others, collection) :
             /\ ~exact => Trimmed(value)
             /\ ~exact /\ literal /\ EndsInKey(value) => "literal_ends_in_key" \in Hazards
             /\ question' = [kind |-> "env_asked", value |-> value, row |-> a,
                             file |-> [rows |-> {a} \cup others, collection |-> collection,
                                       text |-> text]]

(***************************************************************************)
(* The rows of one resource: each is locked from some moment on, and the   *)
(* file gives back some of what is locked at PLAN and at CREATE.           *)
(***************************************************************************)
Moment == [plan |-> 1, create |-> 2, copying |-> 3, never |-> 4]

Moments == {m \in DOMAIN Moment : m = "copying" => "locked_while_copying" \in Hazards}

OwnValue(key, preview) == <<key, IF preview THEN "preview" ELSE "production">>

SourceRows(kind) ==
  LET Rows(key, preview, moments, values) ==
        [key : {key}, preview : {preview}, lockedFrom : moments, value : values]
      Production(key) == Rows(key, FALSE, Moments, {OwnValue(key, FALSE)})
      Previews(key) == Rows(key, TRUE, {"plan", "never"}, {OwnValue(key, TRUE)})
      Urls == Rows("URL", FALSE, Moments, {OwnValue("URL", FALSE), Vars!SourceHost})
  IN  Production("PLAIN") \cup Production("PASSWORD")
      \cup (IF kind \in {"service", "compose_app"} THEN Urls ELSE {})
      \cup IF Vars!IsApplication(kind) THEN Previews("PLAIN") \cup Previews("PASSWORD") ELSE {}

\* The rows as the API shows them at a moment.
RowsAt(rows, moment) ==
  [i \in DOMAIN rows |->
     Vars!NewRow(rows[i].key, rows[i].preview, Moment[rows[i].lockedFrom] <= Moment[moment],
                 rows[i].value)]

RowLists(kind) ==
  {rows \in SeqUpTo(SourceRows(kind), 3) :
     \A i, j \in DOMAIN rows :
       i # j => <<rows[i].key, rows[i].preview>> # <<rows[j].key, rows[j].preview>>}

Allowed(kind, row, readable) ==
  /\ row.lockedFrom = "create" /\ row.key \notin readable
  /\ ~Vars!TargetRegenerates(kind, row.key)
  => "locked_since_plan" \in Hazards

\* Where the release, or knowing it, makes no difference there is one case.
ReleasesOf(kind) == IF Vars!IsApplication(kind) THEN Vars!Releases ELSE {"4.5.1"}
MayKnow(kind, release) ==
  IF kind = "compose_app" /\ release = "4.5.1" THEN BOOLEAN ELSE {TRUE}

AskVars ==
  /\ question.kind = "vars"
  /\ \E of \in Vars!EnvKinds :
       \E rows \in RowLists(of), release \in ReleasesOf(of), known \in MayKnow(of, "4.5.1") :
         LET locked == Vars!LockedProduction(RowsAt(rows, "create"))
         IN  \E atPlan, atCreate \in SUBSET locked :
               /\ known \in MayKnow(of, release)
               /\ \A i \in DOMAIN rows : Allowed(of, rows[i], atCreate)
               /\ question' = [kind |-> "vars_asked", of |-> of, release |-> release,
                               known |-> known, rows |-> rows, atPlan |-> atPlan,
                               atCreate |-> atCreate]

(***************************************************************************)
(* The containers of the source server, and those still running after the  *)
(* stop.  A pin is a container of this tool: Coolify does not manage it.   *)
(***************************************************************************)
Containers ==
  {c \in [labels : {"current", "stale"}, managed : BOOLEAN, carriesUuid : BOOLEAN,
          mounts : SUBSET {"v", "w"}, running : BOOLEAN, pin : {"none", "ours", "foreign"}] :
     /\ c.labels = "current" => c.managed
     /\ c.pin # "none" => ~c.managed /\ ~c.carriesUuid}

AskContainers ==
  /\ question.kind = "containers"
  /\ \E containers \in UpToTwo(Containers), volumes, answered \in SUBSET {"v", "w"},
        policy \in {"keep", "rename", "delete"} :
       /\ answered # {"v", "w"} => "unanswered_probe" \in Hazards
       /\ \E stopped \in SUBSET containers :
            question' = [kind |-> "containers_asked", before |-> containers, volumes |-> volumes,
                         answered |-> answered, policy |-> policy,
                         after |-> {[c EXCEPT !.running = @ /\ c \notin stopped] :
                                      c \in containers}]

Kinds == {"rollback", "vars", "containers", "dns", "manifest", "pairing", "copy", "compare", "api", "env"}

Init == question \in [kind : Kinds]

Next == AskRollback \/ AskDns \/ AskManifest \/ AskPairing \/ AskCopy \/ AskCompare \/ AskApi \/ AskEnv
        \/ AskVars \/ AskContainers

Spec == Init /\ [][Next]_question

Asked(kind) == question.kind = kind

Plan(q) ==
  Copy!PlanTransfer(q.sizes, Copy!Parallel(q.parallel, q.sizes), q.linked # {})

\* A question is one of those asked, and the split of a copy (partition.py,
\* plan_transfer) is one rsync run or several, never more than allowed and none
\* of them over nothing.
TypeOK ==
  /\ question.kind \in Kinds \cup {"rollback_asked", "dns_asked", "manifest_asked", "pairing_asked",
                                  "copy_asked", "compare_asked", "api_asked", "env_asked",
                                  "vars_asked", "containers_asked"}
  /\ Asked("copy_asked") =>
       LET plan == Plan(question)
       IN  /\ plan.chunks \subseteq SUBSET DOMAIN question.source.entries
           /\ Cardinality(plan.chunks) \in 1..question.parallel
           /\ ~plan.whole => Cardinality(plan.chunks) > 1 /\ {} \notin plan.chunks

(***************************************************************************)
(* Rollbacks.                                                              *)
(***************************************************************************)
\* The plan depends on WHICH states are owed, never on the order or the number
\* of their records: the general planner's value for any journal is the closed
\* form Migration works with (statemachine.py, rollback_plan_for).
PlanIgnoresRecordOrder ==
  Asked("rollback_asked") =>
    Undo!Names(Undo!Plan(question)) = Undo!RollbackPlan(Undo!Owed(question))

\* Whatever the journal looks like, one step is moved forward and the rest of the
\* plan survives it: every debt is paid once, the target is torn down before its
\* volumes and record go, the domains come back right before the restart of a
\* source this run stopped, and the pins are let go of last.
PlanPaysEveryDebt ==
  /\ PlanIgnoresRecordOrder
  /\ Asked("rollback_asked") =>
    LET plan == Undo!Plan(question)
    IN  /\ Undo!EveryDebtPlannedOnce(question, plan)
        /\ Undo!TargetTornDownInOrder(plan)
        /\ Undo!DomainsBackBeforeRestart(plan)
        /\ Undo!UnpinIsLast(plan)
        /\ Undo!RestartIffStopped(question, plan)

(***************************************************************************)
(* DNS.                                                                    *)
(***************************************************************************)
OnlyTarget == TargetIps \ SourceIps
OnlySource == SourceIps \ TargetIps

BaselineOf(q) == Dns!Baseline(q.host, q.planned)

\* The gate before the target starts (dns/gate.py, step_dns_gate): without the
\* operator's word on this very host, a real host passes only when a server the
\* nameservers really name is the target alone, or the source alone and the
\* cutover is accepted, or nothing answered at PLAN or now.  Failed lookups and
\* addresses both servers share must not open it, and a host bound to the source
\* alone never passes at all.
PassesOnlyProven ==
  Asked("dns_asked") /\ ~question.host.generated
    /\ Dns!Passes(question.host, BaselineOf(question), question.now, SourceIps, TargetIps,
                  question.acceptCutover, question.acceptedHost) =>
      /\ ~Dns!BoundToSource(question.host)
      /\ \/ question.host.underTarget
         \/ question.acceptedHost
         \/ Dns!Records(question.now) \cap OnlyTarget # {}
         \/ question.acceptCutover /\ Dns!Records(question.now) \cap OnlySource # {}
         \/ BaselineOf(question) = {} /\ Dns!Resolve(question.now).addresses = {}

Partial(look) == look.failed # {} /\ Dns!Resolve(look).addresses # {}

\* CREATE refuses a host as moved (steps.py, _refuse_moved_dns) only when its
\* records really left the source: a lookup that timed out is no move.  (One that
\* times out beside one that answers is a hazard of the code.)
CreateRefusesOnlyMoved ==
  Asked("dns_asked") /\ (Partial(question.now) => "partial_answers" \in Hazards)
    /\ Dns!RefusesMoved(BaselineOf(question), question.now, SourceIps) =>
      /\ Dns!Records(question.planned) \cap SourceIps # {}
      /\ Dns!Records(question.now) \cap SourceIps = {}

\* The plan's heads-up (dns/gate.py, elsewhere_note) foretells the gate: with DNS
\* unchanged and answered, it is given exactly for the hosts the gate will block
\* as elsewhere.
PlanForetellsElsewhere ==
  Asked("dns_asked") /\ question.planned = question.now /\ question.now.failed = {}
    /\ ~question.host.generated /\ ~question.host.underSource =>
      (Dns!ElsewhereNote(BaselineOf(question), SourceIps, TargetIps)
         <=> Dns!Classify(question.host, Dns!Resolve(question.now), BaselineOf(question),
                          SourceIps, TargetIps) = "elsewhere")

\* What PLAN, CREATE and the gate say of a host's records follows from answers the
\* nameservers gave: nothing opens on a failed lookup, nothing is refused for one,
\* and the plan tells of what the gate will block.
DnsDecisionsAreProven == PassesOnlyProven /\ CreateRefusesOnlyMoved /\ PlanForetellsElsewhere

(***************************************************************************)
(* Volumes.                                                                *)
(***************************************************************************)
ItemsOf(q) == Data!Items(q.mounts, q.storages, q.existing)

\* The manifest (domain/manifest.py, reconcile): unless it refuses the migration,
\* a volume a container mounts is migrated; a volume of the resource that exists
\* is migrated or reported; and one that Coolify declares at a path no container
\* covers is never merely reported.
NothingLeftBehind ==
  Asked("manifest_asked") /\ ~Data!IsBlocked(ItemsOf(question)) =>
    LET migrated == Data!VolumesOf(ItemsOf(question))
        mounted == {question.mounts[i] : i \in DOMAIN question.mounts}
        declared == {question.storages[i] : i \in DOMAIN question.storages}
    IN  /\ MountedVolumes(question.mounts) \subseteq migrated
        /\ \A name \in question.existing \ migrated :
             Data!HasUuid(name, "source") =>
               /\ name \in Data!Orphans(ItemsOf(question), question.storages, question.existing)
               /\ \A s \in declared :
                    s.name = name => \E m \in mounted : m.path = s.path

\* What is classified to be mirrored is mirrored (domain/manifest.py:198, "bind
\* mount: host data must be mirrored"; engine/steps.py:1726, "mirror them
\* path-to-path"), here with each volume paired to some target.
BindMountsAreMirrored ==
  Asked("manifest_asked") /\ ~Data!IsBlocked(ItemsOf(question)) =>
    LET pairs == {[source |-> e, target |-> e] : e \in Data!SourceEndpoints(ItemsOf(question))}
    IN  \A item \in Data!Migrating(ItemsOf(question)) : item.name \in Data!Copied(pairs)

PairingOf(q) == Data!PairVolumes(q.of, q.source, q.declared, q.target)

\* Pairing (domain/naming.py, steps._pair_volumes) refuses, or gives every source
\* volume one place of its own on the target, with the same compose key or the
\* same path; and the target of a service mounts it only where the source did.
PairsKeepIdentity ==
  Asked("pairing_asked") /\ ~PairingOf(question).refused =>
    LET pairs == PairingOf(question).pairs
        byKey == \A p \in pairs : Data!Suffix(p.source.name) = Data!Suffix(p.target.name)
        byPath == \A p \in pairs : p.source.path = p.target.path
    IN  /\ {p.source : p \in pairs} = question.source
        /\ \A p \in pairs : p.target \in question.target
        /\ \A p, r \in pairs : p.source = r.source <=> p.target = r.target
        /\ byKey \/ byPath
        /\ question.of = "service" /\ ~byPath =>
             \A p \in pairs :
               Data!PathsOf(question.target, Data!Suffix(p.target.name))
                 \subseteq Data!PathsOf(question.source \cup question.declared,
                                        Data!Suffix(p.source.name))

\* A resume that did not run DISCOVER reads its pairs from the journal
\* (context.deserialise_volume_pairs): it gets the pairs DISCOVER made, none of
\* them for a bind, and COPY starts unless all were lost (_pairs_not_loaded).
ResumeLoadsThePairs ==
  Asked("pairing_asked") /\ ~PairingOf(question).refused =>
    LET pairs == PairingOf(question).pairs
        items == {[type |-> "volume", name |-> e.name, path |-> e.path,
                   decision |-> "migrate"] : e \in question.source}
                 \cup {[type |-> "bind", name |-> HostPath("data"), path |-> "p",
                        decision |-> "migrate"]}
        rows == Data!PairsRecorded(pairs, items)
        loaded == Data!DeserialiseVolumePairs(rows)
    IN  /\ loaded = {Data!Row(p.source.name, p.target.name) : p \in pairs}
        /\ Data!PairsNotLoaded(rows, {}) <=> pairs # {}
        /\ ~Data!PairsNotLoaded(rows, loaded)

\* The gate before the stop (_assert_compose_target_ready) refuses no compose
\* whose volumes DISCOVER would have paired after it.
GateRefusesNothingPairable ==
  Asked("pairing_asked") /\ question.of = "git_compose" /\ ~PairingOf(question).refused =>
    Data!ComposeTargetReady(question.source, question.target)

\* Each volume of the source is copied into the target volume that takes its
\* place, in this run and in a resume of it; what cannot be told apart is refused.
PairingIsFaithful == PairsKeepIdentity /\ ResumeLoadsThePairs /\ GateRefusesNothingPairable

(***************************************************************************)
(* Copy and comparison.                                                    *)
(***************************************************************************)
\* A copy into the empty volume of a new target (steps._copy_one, rsync.py) is
\* one VERIFY accepts, however the tree is split, the metadata of the root and
\* the entries whose name reads like a comment included.
FreshCopyVerifies ==
  Asked("copy_asked") =>
    Copy!Compare(question.source, Copy!CopyOne(question.source, Empty, Plan(question)), {}) = {}

\* Hard links survive a copy only within one rsync run (partition.py): the names
\* of one file are in one run, and no entry is in two.
LinksStayTogether ==
  Asked("copy_asked") =>
    LET plan == Plan(question)
    IN  /\ UNION plan.chunks = DOMAIN question.source.entries
        /\ \A c, d \in plan.chunks : c # d => c \cap d = {}
        /\ \E c \in plan.chunks : question.linked \subseteq c

\* VERIFY (transfer/verify.py, compare): trees without a difference are equal.
VerifiedMeansIdentical ==
  Asked("compare_asked")
    /\ Copy!Compare(question.source, question.target, question.unreadable) = {} =>
      question.source = question.target

\* However a volume is split into rsync runs: nothing is left out, nothing that
\* belongs together is torn apart, and what VERIFY accepts is the source's tree.
CopyIsWhole == TypeOK /\ FreshCopyVerifies /\ LinksStayTogether /\ VerifiedMeansIdentical

(***************************************************************************)
(* Schedules.                                                              *)
(***************************************************************************)
\* CREATE goes on only when the target holds exactly one row for each row of the
\* source (api/schedules.py): a create retried after a proxy error can have been
\* committed twice, and a doubled task runs every cron twice.
CopiedScheduleIsExact ==
  Asked("api_asked") /\ Api!Copied(question.table, question.calls) =>
    \A n \in DOMAIN question.calls :
      Cardinality(Api!RowsFor(question.table, question.calls, n)) = 1

\* A backup schedule is never saved twice, whatever becomes of the answers
\* (api/client.py, create_backup).
BackupAtMostOnce ==
  Asked("api_asked") /\ question.table = "backups" =>
    \A n \in DOMAIN question.calls :
      Cardinality(Api!RowsFor("backups", question.calls, n)) <= 1

\* Lost answers and retries neither double a schedule nor lose one unseen.
SchedulesAreExact == CopiedScheduleIsExact /\ BackupAtMostOnce

(***************************************************************************)
(* Locked variables.                                                       *)
(***************************************************************************)
\* A locked variable is recovered exactly or not at all (domain/locked_envs.py,
\* recover): whatever the value looks like, records of its own lines and quotes
\* included, the target never gets another one.
RecoveredIsExact ==
  Asked("env_asked") =>
    Env!Recovered(question.file)[question.row] \in {Env!NoValue, question.value}

\* Where every row was saved by Coolify 4.5 or later, recovery works: the exact
\* form is delimited and decoded whatever the value holds.
ExactRowsAreRecovered ==
  Asked("env_asked") /\ (\A row \in question.file.rows : row.exact) =>
    Env!Recovered(question.file)[question.row] = question.value

\* The target's locked variables hold what the source's held.
LockedValuesAreExact == RecoveredIsExact /\ ExactRowsAreRecovered

(***************************************************************************)
(* The rows of the variables.                                              *)
(***************************************************************************)
Review(q) == Vars!ReviewEnvs(q.of, RowsAt(q.rows, "plan"), q.atPlan)

AtCreate(q) ==
  Vars!RecoverForCreate(q.of, RowsAt(q.rows, "create"), q.atCreate, Review(q).promised)

Sent(q) ==
  Vars!BuildEnvEntries(q.of, RowsAt(q.rows, "copying"), AtCreate(q).recovered, q.release, q.known)

\* The target's rows when the bulk breaks off after n entries.
RowsAfter(q, n) == Vars!CopyEnvs(q.of, q.release, Sent(q), n)

IsSent(q) == ~Review(q).refused /\ ~AtCreate(q).refused

Production(rows, key) == {row \in {rows[i] : i \in DOMAIN rows} : row.key = key /\ ~row.preview}
Preview(rows, key) == {row \in {rows[i] : i \in DOMAIN rows} : row.key = key /\ row.preview}

\* A value that is locked on the source is locked wherever the target has it
\* (resources.build_env_entries), wherever the bulk breaks off: the unlocked
\* preview twin Coolify makes of a new production row never holds one.
LockedStaysLocked ==
  Asked("vars_asked") /\ IsSent(question) =>
    LET rows == RowsAt(question.rows, "create")
        secrets == {rows[i].value : i \in {j \in DOMAIN rows : rows[j].locked}}
    IN  \A n \in 0..Len(Sent(question)) :
          LET target == RowsAfter(question, n)
          IN  \A i \in DOMAIN target : target[i].value \in secrets => target[i].locked

\* Where the source's previews run on a value of their own, or on one Coolify
\* makes for each of them, the target's never run on production's; and no key has
\* two preview rows (build_env_entries, _preview_for).
PreviewsStayApart ==
  Asked("vars_asked") /\ IsSent(question) =>
    LET target == RowsAfter(question, Len(Sent(question)))
    IN  \A key \in Vars!Keys :
          LET own == Preview(question.rows, key)
          IN  /\ own # {} => \A row \in Preview(target, key) : row.value \in {OwnValue(key, TRUE), Vars!Withheld}
              /\ own = {} /\ Vars!OwnPreviewSecret(question.of, key, question.release, question.known)
                   => Preview(target, key) = {}
              /\ \A i, j \in DOMAIN target :
                   target[i].preview /\ target[j].preview /\ target[i].key = target[j].key => i = j

\* The data keeps the credentials it was made with (env_recovery.py,
\* recover_for_create): unless PLAN or CREATE refuses, each variable of the source
\* has its value on the target; or the plan told that the target lacks it, and it
\* does - it never holds another.  A URL that names the source is not carried.
CarriedOrForetold ==
  Asked("vars_asked") /\ IsSent(question) =>
    LET target == Vars!Deployed(question.of, RowsAfter(question, Len(Sent(question))))
    IN  \A i \in DOMAIN question.rows :
          LET row == question.rows[i]
              values == {r.value : r \in Production(target, row.key)}
          IN  ~row.preview =>
                \/ values = {row.value}
                \/ values = {} /\ row.key \in Review(question).without
                \/ Vars!LeftToTarget(question.of, row.key) /\ Vars!SourceHost \notin values

\* The target's variables hold what the source's hold or what the plan said they
\* would lack, show no secret, and give none of production's to a preview.
VariablesAreCarried == LockedStaysLocked /\ PreviewsStayApart /\ CarriedOrForetold

(***************************************************************************)
(* The containers of the source.                                           *)
(***************************************************************************)
\* When PREFLIGHT passes and the wait for the stop ends, nothing runs that could
\* write the volumes of the resource - no container deployed under an older name,
\* and none of another resource - and under delete no pin of another migration
\* holds them (steps.py, _assert_containers_are_discoverable; quiesce.py).
QuietMeansNoWriter ==
  Asked("containers_asked")
    /\ Seen!Discoverable(question.before, question.volumes, question.answered, question.policy)
    /\ Seen!Quiet(question.after) =>
      /\ \A c \in question.after :
           c.running => c.mounts \cap question.volumes = {} /\ ~(c.managed /\ c.carriesUuid)
      /\ question.policy = "delete" =>
           \A c \in question.before :
             c.pin = "foreign" => c.mounts \cap question.volumes = {}

=============================================================================
