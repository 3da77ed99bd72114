----------------------------- MODULE MCWorktree -----------------------------
(* Worktree for model checking: files, users and small contents are
   interchangeable, and not everything happens often in one behaviour. *)
EXTENDS Worktree, TLC

Budget(r, e, c, x, m) ==
  [rounds |-> r, edits |-> e, commands |-> c, crossings |-> x, mishaps |-> m]
MCBudgets ==
  {Budget(2, 2, 3, 0, 0), Budget(1, 1, 3, 0, 1), Budget(2, 1, 2, 0, 1), Budget(2, 2, 1, 0, 1),
   Budget(2, 1, 1, 0, 2), Budget(1, 1, 2, 1, 1)}

Symmetry == Permutations(Files) \union Permutations(Contents \ Large) \union Permutations(Users)
=============================================================================
