--------------------------- MODULE VolumeManifest ---------------------------
(***************************************************************************)
(* What a resource's data is and where on the target it goes               *)
(* (domain/manifest.py, domain/naming.py, and their callers in             *)
(* engine/steps.py).                                                       *)
(*                                                                         *)
(* A name is [of, sep, key]: of is "source" or "target" for a volume that  *)
(* carries that resource's uuid, "external" for a pinned one, "anonymous"  *)
(* for docker's random id and "host" for a path of a bind.  An endpoint is *)
(* [name, path].                                                           *)
(***************************************************************************)
EXTENDS Integers

HasUuid(name, uuid) == name.of = uuid

(***************************************************************************)
(* reconcile.  A mount of a container is [type, name, path] and a declared *)
(* storage [kind, name, path].                                             *)
(***************************************************************************)
NotOurs == {"passthrough", "coolify_config"}

Classified(mount) ==
  CASE mount.type = "volume" /\ mount.name.of = "anonymous" -> "refuse"
    [] mount.type = "volume" /\ mount.name.of # "anonymous" -> "migrate"
    [] mount.type = "bind" /\ mount.name.key \notin NotOurs -> "migrate"
    [] OTHER -> "skip"

\* One item per payload: the first sighting of a volume, or of a migrating bind.
Sightings(mounts) ==
  {i \in DOMAIN mounts :
     (mounts[i].type = "volume" \/ Classified(mounts[i]) = "migrate")
       => \A j \in 1..(i - 1) : mounts[j].name # mounts[i].name}

LiveItems(mounts) ==
  {[type |-> mounts[i].type, name |-> mounts[i].name, path |-> mounts[i].path,
    decision |-> Classified(mounts[i])] : i \in Sightings(mounts)}

Migrating(items) == {item \in items : item.decision = "migrate"}

VolumesOf(items) == {item.name : item \in {i \in Migrating(items) : i.type = "volume"}}

\* Step 2: a declared volume that exists and that no container mounts is data,
\* once; the first declaration of it gives the path.
Unmounted(mounts, storages, existing) ==
  {i \in DOMAIN storages :
     /\ storages[i].kind = "persistent"
     /\ \A j \in DOMAIN mounts : mounts[j].path # storages[i].path
     /\ storages[i].name \in existing \ VolumesOf(LiveItems(mounts))}

DeclaredItems(mounts, storages, existing) ==
  LET unmounted == Unmounted(mounts, storages, existing)
  IN  {[type |-> "volume", name |-> storages[i].name, path |-> storages[i].path,
        decision |-> "migrate"] :
          i \in {j \in unmounted : \A k \in unmounted : k < j => storages[k].name # storages[j].name}}

Items(mounts, storages, existing) ==
  LiveItems(mounts) \cup DeclaredItems(mounts, storages, existing)

\* Mutant: the orphans are looked for among the volumes Coolify declares.
Orphans_Declared(items, storages, existing) ==
  {storages[i].name : i \in DOMAIN storages} \cap (existing \ VolumesOf(items))

\* Step 3: what exists, is ours and is not migrated is reported.  Ours is what
\* carries the stack's uuid; what only Coolify's label tells is left out.
Orphans(items, storages, existing) ==
  {name \in existing : HasUuid(name, "source") /\ name \notin VolumesOf(items)}

IsBlocked(items) == \E item \in items : item.decision = "refuse"

SourceEndpoints(items) ==
  {[name |-> i.name, path |-> i.path] : i \in {j \in Migrating(items) : j.type = "volume"}}

(***************************************************************************)
(* DISCOVER's record, what a resume makes of it, and what COPY mirrors.    *)
(***************************************************************************)
Row(source, target) == [source |-> source, target |-> target]

PairsRecorded(pairs, items) ==
  {Row(p.source.name, p.target.name) : p \in pairs} \cup
    {Row(i.name, i.name) : i \in {j \in Migrating(items) : j.type = "bind"}}

IsVolumeRow(row) == row.source.of # "host"

DeserialiseVolumePairs(rows) == {row \in rows : IsVolumeRow(row)}

\* _assert_pairs_loaded, before COPY and VERIFY.
PairsNotLoaded(rows, loaded) == loaded = {} /\ \E row \in rows : IsVolumeRow(row)

\* step_copy and step_verify iterate the volume pairs and nothing else.
Copied(pairs) == {p.source.name : p \in pairs}

(***************************************************************************)
(* Pairing.                                                                *)
(***************************************************************************)
Refused == [refused |-> TRUE, pairs |-> {}]
PairedAs(pairs) == [refused |-> FALSE, pairs |-> pairs]

\* compose_volume_suffix: both separators are accepted.
Suffix(name) == name.key

Ambiguous(endpoints, KeyOf(_)) ==
  \E a, b \in endpoints : KeyOf(a) = KeyOf(b) /\ a.name # b.name

KeysOf(endpoints, KeyOf(_)) == {KeyOf(e) : e \in endpoints}

PairsBy(source, target, KeyOf(_)) ==
  {[source |-> s, target |-> CHOOSE t \in target : KeyOf(t) = KeyOf(s)] : s \in source}

BySuffix(endpoint) == Suffix(endpoint.name)
ByMountPath(endpoint) == endpoint.path

PairByNameSuffix(source, target) ==
  IF \/ \E t \in target : ~HasUuid(t.name, "target")
     \/ Ambiguous(source, BySuffix) \/ Ambiguous(target, BySuffix)
     \/ ~KeysOf(source, BySuffix) \subseteq KeysOf(target, BySuffix)
  THEN Refused
  ELSE PairedAs(PairsBy(source, target, BySuffix))

PairByMountPath(source, target) ==
  IF \/ Ambiguous(source, ByMountPath) \/ Ambiguous(target, ByMountPath)
     \/ KeysOf(source, ByMountPath) # KeysOf(target, ByMountPath)
  THEN Refused
  ELSE PairedAs(PairsBy(source, target, ByMountPath))

PathsOf(endpoints, key) == {e.path : e \in {f \in endpoints : Suffix(f.name) = key}}

\* _assert_template_kept_its_mounts.
MountsMoved(source, declared, target) ==
  LET known == source \cup {d \in declared : HasUuid(d.name, "source")}
  IN  \E key \in KeysOf(known, BySuffix) \cap KeysOf(target, BySuffix) :
        ~(PathsOf(target, key) \subseteq PathsOf(known, key))

ComposeKinds == {"git_compose", "service"}

\* _pair_volumes, on the last reading of the target's storages.
PairVolumes(kind, source, declared, target) ==
  LET bySuffix == kind \in ComposeKinds /\ \A s \in source : HasUuid(s.name, "source")
      paired == IF bySuffix THEN PairByNameSuffix(source, target)
                            ELSE PairByMountPath(source, target)
  IN  IF source = {} THEN PairedAs({})
      ELSE IF /\ bySuffix /\ kind = "service" /\ ~paired.refused
              /\ MountsMoved(source, declared, target)
           THEN Refused
           ELSE paired

\* Mutant: compose volumes are looked for where the source mounts them.
ComposeTargetReady_ByMountPath(source, target) ==
  KeysOf(source, ByMountPath) \subseteq KeysOf(target, ByMountPath)

\* _assert_compose_target_ready, on the last reading of the target's storages: the
\* gate before the stop.
ComposeTargetReady(source, target) ==
  LET keyed == {t \in target : HasUuid(t.name, "target")}
  IN  IF \A s \in source : HasUuid(s.name, "source")
      THEN KeysOf(source, BySuffix) \subseteq KeysOf(keyed, BySuffix)
      ELSE KeysOf(source, ByMountPath) \subseteq KeysOf(target, ByMountPath)

=============================================================================
