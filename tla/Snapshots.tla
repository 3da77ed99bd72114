------------------------------ MODULE Snapshots ------------------------------
(***************************************************************************)
(* The shadow git repository of SnapshotService, as operators.             *)
(*                                                                         *)
(* A working directory, the index and a tree are functions from files to   *)
(* contents, with Absent for a file that is not there; a hash is the tree  *)
(* it names.  A repository is its index, its exclude file and the trees    *)
(* that its garbage collection has removed.                                *)
(***************************************************************************)
EXTENDS Integers, Sequences

CONSTANTS
  Files,     \* those a snapshot may take: not below DEFAULT_IGNORED_DIRS, not ignored
  Contents,  \* what a file may hold
  Large,     \* the contents above max_file_size
  Absent,    \* a file that is not there
  NoTree     \* track() gave no hash: disabled, timed out or failed

ASSUME LargeIsContent == Large \subseteq Contents /\ Absent \notin Contents
ASSUME NoTreeIsNoHash == NoTree \notin [Files -> Contents \union {Absent}]

Trees == [Files -> Contents \union {Absent}]
Repositories == [index : Trees, exclude : SUBSET Files, pruned : SUBSET Trees]
Patches == [tree : Trees, files : SUBSET Files]

Nothing == [f \in Files |-> Absent]
EmptyRepository == [index |-> Nothing, exclude |-> {}, pruned |-> {}]

\* files a step misses stay as they were
But(missed, before, after) == [f \in Files |-> IF f \in missed THEN before[f] ELSE after[f]]

\* find_changed_files: diff-files, and untracked files that are not excluded
Changed(repo, work) ==
  {f \in Files : IF repo.index[f] = Absent
                 THEN work[f] # Absent /\ f \notin repo.exclude
                 ELSE work[f] # repo.index[f]}

\* check_ignored --no-index: tracked files count as ignored too
Ignored(repo, work) == Changed(repo, work) \intersect repo.exclude

TooLarge(repo, work) ==
  {f \in Changed(repo, work) \ repo.exclude : work[f] \in Large}

\* track_inner: drop what is ignored, exclude what is too large, stage the rest
Staged(repo, work) ==
  [f \in Files |->
      CASE f \in Ignored(repo, work) -> Absent
        [] f \in TooLarge(repo, work) -> repo.index[f]
        [] OTHER -> IF f \in Changed(repo, work) THEN work[f] ELSE repo.index[f]]

\* ... but for files beyond max_files, and those git does not take: the exit
\* status of git add and git rm is not looked at
Track(repo, work, missed) ==
  LET index == But(missed, repo.index, Staged(repo, work))
  IN  [index |-> index, exclude |-> TooLarge(repo, work), pruned |-> repo.pruned \ {index}]

\* diff_lightweight
DiffAll(from, to) == Files  \* Mutant: a patch names every file
Diff(from, to) == {f \in Files : from[f] # to[f]}

\* revert: ls-tree fails for a tree that is gone, which is read as: no such file
Usable(repo, patches) ==
  [i \in DOMAIN patches |->
    [patches[i] EXCEPT !.tree = IF @ \in repo.pruned THEN Nothing ELSE @]]

\* the first patch that names a file gives the tree to take it from
Named(patches) == UNION {patches[i].files : i \in DOMAIN patches}
LastNaming(patches, f) ==  \* Mutant: the newest patch wins
  CHOOSE i \in DOMAIN patches :
    f \in patches[i].files /\ \A j \in DOMAIN patches : f \in patches[j].files => j <= i
FirstNaming(patches, f) ==
  CHOOSE i \in DOMAIN patches :
    f \in patches[i].files /\ \A j \in DOMAIN patches : f \in patches[j].files => i <= j

HadBy(patches) ==
  {f \in Named(patches) : patches[FirstNaming(patches, f)].tree[f] # Absent}

Reverted(patches, work) ==
  [f \in Files |-> IF f \in Named(patches) THEN patches[FirstNaming(patches, f)].tree[f] ELSE work[f]]

\* a checkout of a file updates the index, a removal does not
RevertedIndex(patches, index) ==
  [f \in Files |->
    IF f \in Named(patches) /\ patches[FirstNaming(patches, f)].tree[f] # Absent
    THEN patches[FirstNaming(patches, f)].tree[f] ELSE index[f]]

\* restore: read-tree and checkout-index, which deletes nothing
NotCreated(tree, work) ==  \* Mutant: only the files that are there
  [f \in Files |-> IF Absent \in {tree[f], work[f]} THEN work[f] ELSE tree[f]]
Restored(tree, work) == [f \in Files |-> IF tree[f] = Absent THEN work[f] ELSE tree[f]]
=============================================================================
