------------------------------ MODULE CopyPlan ------------------------------
(***************************************************************************)
(* One volume, from the split into rsync runs over the copy to the         *)
(* comparison of the two sides (transfer/partition.py, transfer/rsync.py,  *)
(* transfer/verify.py and step_copy's _copy_one).                          *)
(*                                                                         *)
(* A tree is [root, entries]: the metadata of its root and a function from *)
(* the names of its top-level entries to [meta, content].                  *)
(***************************************************************************)
EXTENDS Naturals, FiniteSetsExt, Functions

CONSTANTS
  Large,      \* _LARGE_ENTRY_BYTES, in the unit of the sizes
  Comments    \* names that start with # or ;

(***************************************************************************)
(* partition.py                                                            *)
(***************************************************************************)
SuggestParallelism(count, total) ==
  IF count <= 1 \/ total < Large THEN 1 ELSE Min({count, 4})

\* _copy_one: transfer_parallel and the suggestion, whichever is less.
Parallel(transferParallel, sizes) ==
  Min({transferParallel, SuggestParallelism(Cardinality(DOMAIN sizes), SumFunction(sizes))})

Whole(names) == [whole |-> TRUE, chunks |-> {names}]
Split(chunks) == [whole |-> FALSE, chunks |-> chunks]

\* The names in some order by which no size grows.
LargestFirst(sizes) ==
  CHOOSE order \in [1..Cardinality(DOMAIN sizes) -> DOMAIN sizes] :
    /\ IsInjective(order)
    /\ \A i, j \in DOMAIN order : i < j => sizes[order[i]] >= sizes[order[j]]

\* A bin is [names, load].
Emptiest(bins) ==
  CHOOSE i \in DOMAIN bins :
    \A j \in DOMAIN bins : \/ bins[i].load < bins[j].load
                           \/ bins[i].load = bins[j].load /\ i <= j

PutInto(bins, i, name, size) ==
  [bins EXCEPT ![i] = [names |-> @.names \cup {name}, load |-> @.load + size]]

\* LPT: the largest remaining entry goes into the emptiest bin.
Bins(sizes, count) ==
  LET order == LargestFirst(sizes)
      packed[n \in 0..Cardinality(DOMAIN sizes)] ==
        IF n = 0 THEN [i \in 1..count |-> [names |-> {}, load |-> 0]]
        ELSE PutInto(packed[n - 1], Emptiest(packed[n - 1]), order[n], sizes[order[n]])
  IN  packed[Cardinality(DOMAIN sizes)]

NamesOf(bins) == {bins[i].names : i \in DOMAIN bins}

MayBeSplit(names, maxParallel) == maxParallel > 1 /\ Cardinality(names) > 1

Chunks(sizes, maxParallel) ==
  NamesOf(Bins(sizes, Min({maxParallel, Cardinality(DOMAIN sizes)}))) \ {{}}

\* Mutant: a tree with hard links is split like any other.
PlanTransfer_LinksToo(sizes, maxParallel, hasHardlinks) ==
  LET chunks == Chunks(sizes, maxParallel)
  IN  IF MayBeSplit(DOMAIN sizes, maxParallel) /\ Cardinality(chunks) > 1
      THEN Split(chunks) ELSE Whole(DOMAIN sizes)

PlanTransfer(sizes, maxParallel, hasHardlinks) ==
  LET chunks == Chunks(sizes, maxParallel)
  IN  IF /\ MayBeSplit(DOMAIN sizes, maxParallel)
         /\ ~hasHardlinks
         /\ Cardinality(chunks) > 1
      THEN Split(chunks) ELSE Whole(DOMAIN sizes)

(***************************************************************************)
(* rsync.py: --delete reaches below the directories a run names, so only a *)
(* run over the whole tree removes a top-level entry.                      *)
(***************************************************************************)
\* _files_from_line: the path a name is written as.
FilesFromLine(name) == [inTree |-> "./", name |-> name]

\* rsync skips a line that starts like a comment.
IsComment(line) == line.inTree = "" /\ line.name \in Comments

Listed(names) == {name \in names : ~IsComment(FilesFromLine(name))}

RunWhole(source, target) == source

\* The runs are concurrent, and each writes the entries it lists.
RunChunks(source, target, chunks) ==
  LET listed == UNION {Listed(chunk) : chunk \in chunks}
  IN  [target EXCEPT !.entries =
         [name \in DOMAIN @ \cup listed |-> IF name \in listed THEN source.entries[name] ELSE @[name]]]

RunRootOnly(source, target) == [target EXCEPT !.root = source.root]

\* _copy_one
CopyOne(source, target, plan) ==
  IF plan.whole
  THEN RunWhole(source, target)
  ELSE RunRootOnly(source, RunChunks(source, target, plan.chunks))

(***************************************************************************)
(* verify.py: a manifest is the metadata of every path and the hashes that *)
(* could be taken.  Root stands for the path ".".                          *)
(***************************************************************************)
IsDirectory(entry) == entry.content = "directory"

CollectMetadata(tree) ==
  [path \in DOMAIN tree.entries \cup {"."} |->
     IF path = "." THEN <<tree.root, TRUE>>
     ELSE <<tree.entries[path].meta, IsDirectory(tree.entries[path])>>]

CollectContent(tree, unreadable) ==
  LET hashed == {name \in DOMAIN tree.entries :
                   ~IsDirectory(tree.entries[name]) /\ name \notin unreadable}
  IN  [name \in hashed |-> tree.entries[name].content]

MetadataDiffers(source, target) ==
  LET s == CollectMetadata(source)
      t == CollectMetadata(target)
  IN  {path \in DOMAIN s \cup DOMAIN t :
         ~(path \in DOMAIN s /\ path \in DOMAIN t /\ s[path] = t[path])}

\* A path without a hash on one side is left to the metadata.
ContentDiffers(source, target, unreadable) ==
  LET s == CollectContent(source, unreadable)
      t == CollectContent(target, unreadable)
  IN  {path \in DOMAIN s \cap DOMAIN t : s[path] # t[path]}

Compare(source, target, unreadable) ==
  MetadataDiffers(source, target) \cup ContentDiffers(source, target, unreadable)

=============================================================================
