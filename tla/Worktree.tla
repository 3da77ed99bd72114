------------------------------ MODULE Worktree ------------------------------
(***************************************************************************)
(* What undo and redo do to the files.                                     *)
(*                                                                         *)
(* A turn is a prompt and the patches that the rounds of its loop saved: a *)
(* round takes a snapshot before its tools run and one after, and keeps    *)
(* what differs.  Undo reverts the patches of the hidden turns, after a    *)
(* snapshot for redo; moving the cursor again starts from that snapshot.   *)
(* Somebody else (the user, another session of the workspace) writes files *)
(* at any time.  A command cancels the loop without waiting for its end,   *)
(* so tools may write, and a round may end, while files are rolled back.   *)
(* Commands exclude neither each other nor prompts; git and the store may  *)
(* fail at any of their steps, and trees of a week ago are collected.      *)
(***************************************************************************)
EXTENDS Snapshots

CONSTANTS
  Users,     \* who commands; a user waits for no other, and the terminal not for itself
  MaxTurns,  \* bound: prompts in the conversation
  Budgets    \* bounds: how often what may happen, in one of these ways

Things == {"rounds", "edits", "commands", "crossings", "mishaps"}

ASSUME BoundsAreNaturals == MaxTurns \in Nat /\ Budgets \subseteq [Things -> Nat]

VARIABLES
  work,        \* the working directory
  repo,        \* the shadow repository
  turns,       \* the conversation: the patches of each turn, the files at its prompt
  cursor,      \* revert_message_id, as a position in turns (0: none), or Gone
  checkpoint,  \* workspace_snapshot of the RevertCheckpoint
  loop,        \* where the loop is, and its pre_round_hash
  ghost,       \* a cancelled round that still runs
  cmd,         \* each user's command in progress, its target, patches and checkpoint
  budget,      \* what may still happen: "mishaps" are writes of somebody else, failures
               \* and collections of garbage, "crossings" what begins during a command
  hist         \* history, see Hist

filesVars == <<work, repo, turns, cursor, checkpoint, loop, ghost, cmd, budget, hist>>
disk == <<work, repo>>
session == <<turns, cursor, checkpoint>>

Gone == MaxTurns + 1  \* the id of a prompt that was deleted
Hashes == Trees \union {NoTree}
Turns == [patches : Seq(Patches), start : Trees]
NoLoop == [at |-> "none", pre |-> NoTree]
NoCmd == [at |-> "none", target |-> 0, patches |-> <<>>, check |-> NoTree]
Commands == [at : {"none", "checkpoint", "revert", "save", "restore"},
             target : 0 .. Gone, patches : Seq(Patches), check : Hashes]

UseAll(things) ==
  /\ \A what \in things : budget[what] > 0
  /\ budget' = [what \in Things |-> IF what \in things THEN budget[what] - 1 ELSE budget[what]]
Use(what) == UseAll({what})

Hist ==
  [kept : Trees,             \* the files when the first undo began
   round : SUBSET Files,     \* written by the tools of the open round
   touched : SUBSET Files,   \* ever written by a tool
   foreign : SUBSET Files,   \* ever written by somebody else
   spoilt : SUBSET Files,    \* ... during a round or while turns were hidden; or missed by
                             \* a snapshot or a checkout, too large for a snapshot, or
                             \* written by a round that saved no patch
   left : SUBSET Files,      \* not deleted by a redo, where the history then went on
   redone : BOOLEAN,         \* the cursor has moved forwards
   astray : BOOLEAN]         \* a cancelled round came late, redo had no snapshot, a
                             \* command failed midway or crossed another or a prompt,
                             \* or trees of the conversation were collected

FilesInit ==
  /\ \E c \in {Absent} \union (Contents \ Large) : work = [f \in Files |-> c]
  /\ repo = EmptyRepository
  /\ turns = <<>> /\ cursor = 0 /\ checkpoint = NoTree
  /\ loop = NoLoop /\ ghost = NoLoop /\ cmd = [u \in Users |-> NoCmd]
  /\ budget \in Budgets
  /\ hist = [kept |-> Nothing, round |-> {}, touched |-> {}, foreign |-> {}, spoilt |-> {},
             left |-> {}, redone |-> FALSE, astray |-> FALSE]

\* a command or a prompt may begin while others are under way
Busy == \E u \in Users : cmd[u].at # "none"
Reverting == Busy \/ cursor # 0
Begins(things) == UseAll(things \union IF Busy THEN {"crossings"} ELSE {})

\* SnapshotService::track: a tree, perhaps a stale one ...
Snapshot(missed) == missed \subseteq Changed(repo, work) /\ repo' = Track(repo, work, missed)
Unseen(missed) == hist.spoilt \union missed \union {f \in Files : work[f] \in Large}
Counted(missed, as) ==
  IF missed # {} THEN Use("mishaps") ELSE IF as = "nothing" THEN UNCHANGED budget ELSE Use(as)

\* ... or none, by an error or the time limit, however far it came
SnapshotFails ==
  /\ Use("mishaps")
  /\ \/ repo' \in {repo, [repo EXCEPT !.index = But(Ignored(repo, work), Nothing, @)]}
     \/ \E missed \in SUBSET Changed(repo, work) : Snapshot(missed)

-----------------------------------------------------------------------------
(* Turns *)

\* what is there although it was not then
Extra(before, after) == {f \in Files : before[f] = Absent /\ after[f] # Absent}

\* a prompt deletes the hidden turns and starts a loop
Prompt ==
  /\ loop.at = "none" /\ Begins({})
  /\ LET visible == IF cursor \in DOMAIN turns THEN SubSeq(turns, 1, cursor - 1) ELSE turns
     IN  /\ Len(visible) < MaxTurns
         /\ turns' = Append(visible, [patches |-> <<>>, start |-> work])
         /\ cmd' = [u \in Users |-> IF cmd[u].target > Len(visible)
                                    THEN [cmd[u] EXCEPT !.target = Gone] ELSE cmd[u]]
  /\ cursor' = 0 /\ checkpoint' = NoTree
  /\ loop' = [NoLoop EXCEPT !.at = "ask"]
  /\ hist' = [hist EXCEPT !.redone = FALSE, !.kept = Nothing, !.astray = @ \/ Busy,
               !.left = @ \union IF cursor \in DOMAIN turns
                                 THEN Extra(turns[cursor].start, work) ELSE {}]
  /\ UNCHANGED <<disk, ghost>>

\* a failing snapshot leaves the hash of the round before
SincePre == IF loop.pre = NoTree THEN {} ELSE Diff(loop.pre, work)

\* what the other of the two rounds may have written
StillOpen(other) == IF other.at = "round" THEN hist.round ELSE {}

\* save_messages of calls that may write: the pre-round snapshot
OpenRound ==
  /\ loop.at = "ask" /\ budget.rounds > 0
  /\ \/ \E missed \in SUBSET Files :
          /\ Counted(missed, "rounds") /\ Snapshot(missed)
          /\ loop' = [at |-> "round", pre |-> repo'.index]
          /\ hist' = [hist EXCEPT !.round = StillOpen(ghost), !.spoilt = Unseen(missed)]
     \/ /\ SnapshotFails
        /\ loop' = [loop EXCEPT !.at = "round"]
        /\ hist' = [hist EXCEPT !.round = StillOpen(ghost), !.spoilt = Unseen(SincePre)]
  /\ UNCHANGED <<work, session, ghost, cmd>>

\* read-only calls: no snapshot, and a stale hash is forgotten
ReadOnlyRound ==
  /\ loop.at = "ask" /\ Use("rounds")
  /\ loop' = [loop EXCEPT !.pre = NoTree]
  /\ UNCHANGED <<disk, session, ghost, cmd, hist>>

WriteFile(f) == \E c \in Contents \union {Absent} : c # work[f] /\ work' = [work EXCEPT ![f] = c]

ToolWrites ==
  /\ loop.at = "round" \/ ghost.at = "round"
  /\ Use("edits")
  /\ \E f \in Files :
       /\ WriteFile(f)
       /\ hist' = [hist EXCEPT !.round = @ \union {f}, !.touched = @ \union {f},
                               !.astray = @ \/ loop.at # "round"]
  /\ UNCHANGED <<repo, session, loop, ghost, cmd>>

SomebodyWrites ==
  /\ Use("mishaps")
  /\ \E f \in Files :
       /\ WriteFile(f)
       /\ hist' = [hist EXCEPT
            !.foreign = @ \union {f},
            !.spoilt = IF Reverting \/ "round" \in {loop.at, ghost.at} THEN @ \union {f} ELSE @]
  /\ UNCHANGED <<repo, session, loop, ghost, cmd>>

\* save_messages of results: the post-round snapshot, and a patch of what differs
SavePatch(pre, files) ==
  turns' = IF turns = <<>> \/ files = {} THEN turns
           ELSE [turns EXCEPT ![Len(turns)].patches = Append(@, [tree |-> pre, files |-> files])]

NoPatch(other) ==
  /\ UNCHANGED turns
  /\ hist' = [hist EXCEPT !.spoilt = Unseen(hist.round), !.round = StillOpen(other)]

CloseRound ==
  /\ loop.at = "round"
  /\ \/ \E missed \in SUBSET Files :
          /\ loop.pre # NoTree /\ Counted(missed, "nothing") /\ Snapshot(missed)
          /\ SavePatch(loop.pre, Diff(loop.pre, repo'.index))
          /\ loop' = [at |-> "ask", pre |-> repo'.index]
          /\ hist' = [hist EXCEPT !.spoilt = Unseen(missed), !.round = StillOpen(ghost)]
     \/ /\ \/ loop.pre # NoTree /\ SnapshotFails
           \/ loop.pre = NoTree /\ UNCHANGED <<repo, budget>>
        /\ loop' = [loop EXCEPT !.at = "ask"]
        /\ NoPatch(ghost)
  /\ UNCHANGED <<work, cursor, checkpoint, ghost, cmd>>

\* an answer, or an error: a round that fails saves nothing, before its snapshot or after
EndTurn ==
  /\ loop.at # "none" /\ loop' = NoLoop
  /\ \/ loop.at = "round" /\ NoPatch(ghost) /\ (UNCHANGED repo \/ Snapshot({}))
     \/ loop.at = "ask" /\ UNCHANGED <<repo, turns, hist>>
  /\ UNCHANGED <<work, cursor, checkpoint, ghost, cmd, budget>>

\* a cancelled round saves the results it has, or fails
GhostCloses ==
  /\ ghost.at = "round" /\ ghost' = NoLoop
  /\ \/ \E missed \in SUBSET Files :
          /\ ghost.pre # NoTree /\ Counted(missed, "nothing") /\ Snapshot(missed)
          /\ SavePatch(ghost.pre, Diff(ghost.pre, repo'.index))
          /\ hist' = [hist EXCEPT !.spoilt = Unseen(missed), !.astray = TRUE,
                                   !.round = StillOpen(loop)]
     \/ NoPatch(loop) /\ (UNCHANGED repo \/ Snapshot({})) /\ UNCHANGED budget
  /\ UNCHANGED <<work, cursor, checkpoint, loop, cmd>>

\* cleanup: gc --prune=7.days; nothing refers to the trees the conversation remembers
Remembered ==
  ({checkpoint} \ {NoTree}) \union
  UNION {{turns[i].patches[j].tree : j \in DOMAIN turns[i].patches} : i \in DOMAIN turns}

CollectGarbage ==
  /\ Use("mishaps")
  /\ \E old \in SUBSET (Remembered \ {repo.index, loop.pre, ghost.pre}) :
       old # {} /\ repo' = [repo EXCEPT !.pruned = @ \union old]
  /\ hist' = [hist EXCEPT !.astray = TRUE]
  /\ UNCHANGED <<work, session, loop, ghost, cmd>>

-----------------------------------------------------------------------------
(* Undo and redo *)

\* cancel_session: a round that has begun goes on for a while
CancelLoop ==
  /\ loop.at # "none" => ghost.at = "none"
  /\ loop' = NoLoop
  /\ ghost' = IF loop.at = "round" THEN loop ELSE ghost

\* collect_patches_after_message: oldest first
PatchesFrom(ts, n) ==
  LET Collect[i \in 0 .. Len(ts)] ==
        IF i < n THEN <<>> ELSE Collect[i - 1] \o ts[i].patches
  IN  Collect[Len(ts)]

\* the messages and the cursor are read when the command begins
Begin(u, at, target) ==
  cmd' = [cmd EXCEPT ![u] =
    [at |-> at, target |-> target, check |-> IF at = "restore" THEN checkpoint ELSE NoTree,
     patches |-> IF target = 0 THEN <<>> ELSE PatchesFrom(turns, target)]]

\* what a round that goes on has written so far is in no patch
Unsaved == IF "round" \in {loop.at, ghost.at} THEN hist.round ELSE {}

\* the last prompt, or the one before the cursor
Undo(u) ==
  /\ cmd[u].at = "none" /\ Begins({"commands"}) /\ CancelLoop
  /\ LET target == CASE cursor = 0 -> Len(turns) [] cursor = Gone -> 0 [] OTHER -> cursor - 1
     IN  IF target = 0 THEN UNCHANGED cmd ELSE Begin(u, "checkpoint", target)
  /\ hist' = [hist EXCEPT !.spoilt = @ \union Unsaved, !.astray = @ \/ Busy]
  /\ UNCHANGED <<disk, session>>

\* any prompt, hidden ones too
Revert(u) ==
  /\ cmd[u].at = "none" /\ Begins({"commands"}) /\ CancelLoop
  /\ \E target \in DOMAIN turns :
       /\ Begin(u, "checkpoint", target)
       /\ LET forwards == cursor \in 1 .. target
          IN  hist' = [hist EXCEPT !.spoilt = @ \union Unsaved, !.redone = @ \/ forwards,
                                   !.astray = @ \/ Busy \/ (forwards /\ checkpoint = NoTree)]
  /\ UNCHANGED <<disk, session>>

\* cancels no loop
Redo(u) ==
  /\ cmd[u].at = "none" /\ cursor # 0 /\ Begins({"commands"})
  /\ IF cursor < Len(turns) THEN Begin(u, "checkpoint", cursor + 1) ELSE Begin(u, "restore", 0)
  /\ hist' = [hist EXCEPT !.redone = TRUE, !.spoilt = @ \union Unsaved,
                           !.astray = @ \/ Busy \/ checkpoint = NoTree]
  /\ UNCHANGED <<disk, session, loop, ghost>>

Restore(tree) ==
  IF tree = NoTree THEN UNCHANGED disk
  ELSE /\ tree \notin repo.pruned
       /\ work' = Restored(tree, work) /\ repo' = [repo EXCEPT !.index = tree]

\* an error ends the command, and the cursor stays where it was
GivesUp(u) ==
  /\ cmd' = [cmd EXCEPT ![u] = NoCmd]
  /\ hist' = [hist EXCEPT !.astray = TRUE]
  /\ UNCHANGED session

\* read-tree fails, or checkout-index part of the way, or the store after it
RestoreFails(u, tree) ==
  /\ GivesUp(u)
  /\ \/ tree \in repo.pruned /\ UNCHANGED <<disk, budget>>
     \/ Use("mishaps") /\ UNCHANGED disk
     \/ /\ Use("mishaps") /\ tree \in Trees \ repo.pruned
        /\ \E missed \in SUBSET Files : work' = But(missed, work, Restored(tree, work))
        /\ repo' = [repo EXCEPT !.index = tree]

\* the first undo takes the snapshot for redo, later ones start from it
Keep(u, tree) == cmd' = [cmd EXCEPT ![u] = [@ EXCEPT !.at = "revert", !.check = tree]]

TakeCheckpoint(u) ==
  /\ cmd[u].at = "checkpoint"
  /\ \/ cursor # 0 /\ Restore(checkpoint) /\ Keep(u, checkpoint) /\ UNCHANGED <<session, budget, hist>>
     \/ cursor # 0 /\ RestoreFails(u, checkpoint)
     \/ \E missed \in SUBSET Files :
          /\ cursor = 0 /\ Counted(missed, "nothing") /\ Snapshot(missed) /\ Keep(u, repo'.index)
          /\ hist' = [hist EXCEPT !.kept = work, !.spoilt = Unseen(missed)]
          /\ UNCHANGED <<work, session>>
     \/ /\ cursor = 0 /\ SnapshotFails /\ Keep(u, NoTree)
        /\ hist' = [hist EXCEPT !.kept = work, !.spoilt = Unseen({})]
        /\ UNCHANGED <<work, session>>
  /\ UNCHANGED <<loop, ghost>>

RollBack(patches, missed) ==
  /\ work' = But(missed, work, Reverted(patches, work))
  /\ repo' = [repo EXCEPT !.index = But(missed, @, RevertedIndex(patches, @))]

\* a file the tree has and git does not check out is passed over, any other error
\* ends the command
RevertFiles(u) ==
  /\ cmd[u].at = "revert"
  /\ LET patches == Usable(repo, cmd[u].patches)
     IN  \/ \E missed \in SUBSET HadBy(patches) :
              /\ Counted(missed, "nothing") /\ RollBack(patches, missed)
              /\ cmd' = [cmd EXCEPT ![u].at = "save"]
              /\ hist' = [hist EXCEPT !.spoilt = @ \union missed]
              /\ UNCHANGED session
         \/ \E missed \in SUBSET Named(patches) :
              Use("mishaps") /\ RollBack(patches, missed) /\ GivesUp(u)
  /\ UNCHANGED <<loop, ghost>>

SaveCursor(u) ==
  /\ cmd[u].at = "save"
  /\ \/ /\ cmd' = [cmd EXCEPT ![u] = NoCmd]
        /\ cursor' = cmd[u].target /\ checkpoint' = cmd[u].check
        /\ UNCHANGED <<turns, budget, hist>>
     \/ Use("mishaps") /\ GivesUp(u)
  /\ UNCHANGED <<disk, loop, ghost>>

\* redo at the end of the history
Unrevert(u) ==
  /\ cmd[u].at = "restore"
  /\ \/ /\ cmd' = [cmd EXCEPT ![u] = NoCmd]
        /\ Restore(cmd[u].check)
        /\ cursor' = 0 /\ checkpoint' = NoTree
        /\ hist' = [hist EXCEPT !.redone = FALSE, !.left = @ \union Extra(hist.kept, work')]
        /\ UNCHANGED <<turns, budget>>
     \/ RestoreFails(u, cmd[u].check)
  /\ UNCHANGED <<loop, ghost>>

-----------------------------------------------------------------------------
Command(u) ==
  Undo(u) \/ Revert(u) \/ Redo(u) \/ TakeCheckpoint(u) \/ RevertFiles(u) \/ SaveCursor(u) \/ Unrevert(u)

FilesNext ==
  \/ Prompt \/ OpenRound \/ ReadOnlyRound \/ ToolWrites \/ SomebodyWrites
  \/ CloseRound \/ EndTurn \/ GhostCloses \/ CollectGarbage
  \/ \E u \in Users : Command(u)

FilesSpec == FilesInit /\ [][FilesNext]_filesVars

-----------------------------------------------------------------------------
\* Type invariant of the files, the conversation and the command in progress.
FilesTypeOK ==
  /\ work \in Trees /\ repo \in Repositories
  /\ turns \in Seq(Turns)
  /\ cursor \in 0 .. Gone /\ checkpoint \in Hashes
  /\ loop \in [at : {"none", "ask", "round"}, pre : Hashes]
  /\ ghost \in [at : {"none", "round"}, pre : Hashes]
  /\ cmd \in [Users -> Commands]
  /\ budget \in [Things -> Nat]
  /\ hist \in Hist

\* only tools wrote f, snapshots and checkouts took it, every round that wrote it
\* saved its patch, and the history did not go on from where a redo had left f behind
Sound(f) == ~hist.astray /\ f \notin hist.spoilt \union hist.foreign \union hist.left

\* When an undo or a redo has put the cursor before a prompt, every file only
\* the tools changed is what it was when that prompt was sent, however many
\* rounds and turns wrote it; a redo may leave a file the prompt did not have,
\* for a restore deletes nothing.  Exceptions, per file: Sound.  For all files:
\* a cancelled round that ends late, a redo without a snapshot, commands that
\* crossed or failed midway (service.rs:358, runtime.rs:2114, 2143), and trees
\* older than a week (service.rs:371).
UndoRestores ==
  cursor # 0 /\ ~Busy =>
    \A f \in Files : Sound(f) =>
      \/ work[f] = turns[cursor].start[f]
      \/ hist.redone /\ turns[cursor].start[f] = Absent

\* No undo, redo or snapshot changes a file that no tool has written, not even
\* one that fails midway or crosses another.  Exceptions: somebody wrote the
\* file while a round was open or turns were hidden; a snapshot did not take it,
\* being too large, beyond max_files or refused by git (git.rs:390, 436); a round
\* whose first snapshot failed started from an older one, in which it differed
\* (agent_ctx.rs:1627).
UserFilesAreKept ==
  [][SomebodyWrites \/ \A f \in Files \ (hist'.touched \union hist.spoilt) :
                          work'[f] = work[f]]_filesVars

\* The redo that reaches the end of the history brings back every file the
\* tools had written when the first undo began, although undo and redo moved
\* the cursor in between; a file that was deleted then may come back.  The
\* exceptions are those of UndoRestores.
RedoRestores ==
  [][\A u \in Users : cmd[u].at = "restore" /\ cmd'[u].at = "none" /\ cursor' = 0 =>
       \A f \in Files : Sound(f) => hist.kept[f] \in {work'[f], Absent}]_filesVars
=============================================================================
