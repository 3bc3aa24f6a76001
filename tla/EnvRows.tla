------------------------------ MODULE EnvRows ------------------------------
(***************************************************************************)
(* The variables of one resource on their way to the target: what the plan *)
(* foretells, what CREATE insists on, the entries it sends in bulk, and    *)
(* what Coolify makes of them (engine/env_recovery.py, fidelity.py,        *)
(* api/resources.py).                                                      *)
(*                                                                         *)
(* A row is [key, preview, locked, value]; the API withholds the value of  *)
(* a locked one.  A key is "PLAIN", "PASSWORD" (one Coolify generates) or  *)
(* "URL".  What the file gives back of a locked row is a set of keys: that *)
(* it gives back the value, or nothing, is EnvFile's.                      *)
(***************************************************************************)
EXTENDS Naturals, SequencesExt

EnvKinds == {"app", "compose_app", "service", "redis"}
Releases == {"4.3", "4.5.0", "4.5.1"}
Keys == {"PLAIN", "PASSWORD", "URL"}

IsApplication(kind) == kind \in {"app", "compose_app"}

Withheld == <<>>
Generated == <<"generated">>
SourceHost == <<"source_host">>

(***************************************************************************)
(* PLAN and CREATE.                                                        *)
(***************************************************************************)
\* fidelity.target_regenerates; the PASSWORD of a redis is its REDIS_PASSWORD.
TargetRegenerates(kind, key) == kind # "app" /\ key = "PASSWORD"

\* locked_envs._left_to_target.
LeftToTarget(kind, key) == kind \in {"compose_app", "service"} /\ key = "URL"

LockedProduction(rows) == {row.key : row \in {r \in ToSet(rows) : r.locked /\ ~r.preview}}

\* recover, without its reading of the file.
Recovery(kind, rows, readable) ==
  LET pending == {key \in LockedProduction(rows) : ~LeftToTarget(kind, key)}
  IN  [recovered |-> pending \cap readable, unrecoverable |-> pending \ readable]

ReviewEnvs(kind, rows, readable) ==
  LET recovery == Recovery(kind, rows, readable)
      regenerated == {k \in recovery.unrecoverable : TargetRegenerates(kind, k)}
  IN  [refused |-> regenerated # {}, without |-> recovery.unrecoverable \ regenerated,
       promised |-> recovery.recovered]

\* Mutant: what the plan promised is not asked for again.
RecoverForCreate_NoPromise(kind, rows, readable, promised) ==
  [refused |-> FALSE, recovered |-> Recovery(kind, rows, readable).recovered]

RecoverForCreate(kind, rows, readable, promised) ==
  LET recovery == Recovery(kind, rows, readable)
      broken == {k \in recovery.unrecoverable : k \in promised \/ TargetRegenerates(kind, k)}
  IN  [refused |-> broken # {}, recovered |-> recovery.recovered]

(***************************************************************************)
(* build_env_entries; the tool may not know the release.                   *)
(***************************************************************************)
NamesTheSource(entry) == entry.key = "URL" /\ entry.value = SourceHost

IsEntry(kind, row, recovered) ==
  /\ row.locked => ~row.preview /\ row.key \in recovered
  /\ ~(kind = "service" /\ NamesTheSource(row))

OwnPreviewSecret(kind, key, release, known) ==
  known /\ release = "4.5.1" /\ kind = "compose_app" /\ key = "PASSWORD"

\* The locked row of a recovered entry is itself locked (its value is filled in).
PreviewFor(entry, sourcePreviews, ownPreviewSecret) ==
  IF \E p \in sourcePreviews : p.locked
  THEN <<[entry EXCEPT !.preview = TRUE, !.locked = TRUE, !.value = Withheld]>>
  ELSE IF entry.locked /\ sourcePreviews = {} /\ ~ownPreviewSecret
  THEN <<[entry EXCEPT !.preview = TRUE]>>
  ELSE <<>>

\* The rows that are wanted, in their order.
Those(rows, wanted) ==
  FlattenSeq([i \in DOMAIN rows |-> IF rows[i] \in wanted THEN <<rows[i]>> ELSE <<>>])

BuildEnvEntries(kind, rows, recovered, release, known) ==
  LET entries == Those(rows, {row \in ToSet(rows) : IsEntry(kind, row, recovered)})
      previews == Those(entries, {e \in ToSet(entries) : e.preview})
      production == Those(entries, {e \in ToSet(entries) : ~e.preview})
      sent == {p.key : p \in ToSet(previews)}
      Added(e) == IF e.key \in sent THEN <<>>
                  ELSE PreviewFor(e, {r \in ToSet(rows) : r.preview /\ r.key = e.key},
                                  OwnPreviewSecret(kind, e.key, release, known))
  IN  IF ~IsApplication(kind) THEN entries
      ELSE previews \o FlattenSeq([i \in DOMAIN production |-> Added(production[i])]) \o production

(***************************************************************************)
(* Coolify: the rows a new target has of itself, the hook that makes the   *)
(* preview twin of a production row, and the bulk upsert, one entry at a   *)
(* time and without a transaction.  Up to 4.3 the preview rows are looked  *)
(* up among those loaded at the first such look.                           *)
(***************************************************************************)
NewRow(key, preview, locked, value) ==
  [key |-> key, preview |-> preview, locked |-> locked, value |-> value]

OwnRows(kind) ==
  CASE kind = "service" -> <<NewRow("PASSWORD", FALSE, FALSE, Generated),
                             NewRow("URL", FALSE, FALSE, Generated)>>
    [] kind = "redis" -> <<NewRow("PASSWORD", FALSE, FALSE, Generated)>>
    [] OTHER -> <<>>

Has(rows, key, preview) == \E row \in ToSet(rows) : row.key = key /\ row.preview = preview

Twin(kind, release, rows, entry) ==
  IF \/ ~IsApplication(kind)
     \/ Has(rows, entry.key, TRUE)
     \/ release = "4.5.1" /\ kind = "compose_app" /\ entry.key = "PASSWORD"
  THEN <<>>
  ELSE <<NewRow(entry.key, TRUE, entry.locked /\ release = "4.5.1", entry.value)>>

Updated(rows, entry) ==
  [i \in DOMAIN rows |-> IF rows[i].key = entry.key /\ rows[i].preview = entry.preview
                         THEN entry ELSE rows[i]]

Upserted(kind, release, target, entry) ==
  LET loaded == IF entry.preview /\ target.loaded = {} THEN {target.rows} ELSE target.loaded
      known == IF entry.preview /\ release = "4.3" THEN CHOOSE l \in loaded : TRUE
                                                   ELSE target.rows
      rows == IF Has(known, entry.key, entry.preview) THEN Updated(target.rows, entry)
              ELSE target.rows \o <<entry>>
                     \o IF entry.preview THEN <<>> ELSE Twin(kind, release, target.rows, entry)
  IN  [rows |-> rows, loaded |-> loaded]

\* The target's rows after the first n entries.
CopyEnvs(kind, release, entries, n) ==
  LET after[m \in 0..Len(entries)] ==
        IF m = 0 THEN [rows |-> OwnRows(kind), loaded |-> {}]
        ELSE Upserted(kind, release, after[m - 1], entries[m])
  IN  after[n].rows

\* The first deploy of a compose application makes what is missing of its own.
Deployed(kind, rows) ==
  IF kind = "compose_app" /\ ~Has(rows, "PASSWORD", FALSE)
  THEN Append(rows, NewRow("PASSWORD", FALSE, FALSE, Generated))
  ELSE rows

=============================================================================
