---------------------------- MODULE Conversation ----------------------------
(***************************************************************************)
(* One conversation under undo, redo, revert, compaction and new prompts.  *)
(*                                                                         *)
(* The messages are kept twice (store: SQLite, buffer: the host's copy),   *)
(* and so is the context state that says where a request begins (context:  *)
(* ContextManager, saved: the session's row).  An undo hides messages      *)
(* behind `cursor` and keeps a `checkpoint` for redo; the next prompt      *)
(* deletes what is hidden.  A loop works on the conversation, and a loop   *)
(* that a command has cancelled (ghost) may still write once before it     *)
(* ends, because no command waits for it.                                  *)
(*                                                                         *)
(* A user gives one command at a time; ghosts and crashes come in between. *)
(***************************************************************************)
EXTENDS Integers, Sequences

CONSTANTS
  MaxPrompts,      \* bound: prompts ever submitted
  MaxRounds,       \* bound: tool rounds of a prompt
  MaxCompactions,  \* bound: compactions, manual and automatic
  MaxCommands,     \* bound: undo, redo and revert commands
  MaxCrashes       \* bound: restarts of the process

ASSUME BoundsAreNaturals ==
  {MaxPrompts, MaxRounds, MaxCompactions, MaxCommands, MaxCrashes} \subseteq Nat

VARIABLES
  store,       \* rows of the messages table, in order
  buffer,      \* the session's CoreMessageBuffer
  context,     \* ContextManager: summary (0: none) and retained_from
  saved,       \* context_summary, context_retained_from of the session's row
  cursor,      \* revert_message_id, as the number of a prompt (0: none)
  checkpoint,  \* context_state of the RevertCheckpoint in revert_redo_snapshot
  loop,        \* the running loop: where it is, its prompt, its round
  ghost,       \* the cancelled loop that still winds down
  cmd,         \* the command in progress
  prompts, compactions, commands, crashes,  \* counters
  gone,        \* history: prompts hidden when a later one was submitted
  late,        \* history: a ghost wrote although a command had begun
  buried,      \* history: a compaction was applied while messages were hidden
  torn         \* history: the process died while hidden messages were deleted

vars == <<store, buffer, context, saved, cursor, checkpoint, loop, ghost, cmd,
          prompts, compactions, commands, crashes, gone, late, buried, torn>>

counters == <<prompts, compactions, commands, crashes>>
history == <<gone, late, buried, torn>>

Empty == [summary |-> 0, retained |-> 0]
Contexts == [summary : 0 .. MaxCompactions, retained : Nat]
Kinds == {"prompt", "call", "results", "answer", "marker"}
Messages == [kind : Kinds, of : Nat, round : Nat, prior : Contexts]

\* prompts and rounds number their messages; a marker has its compaction's number
Message(kind, of, round) == [kind |-> kind, of |-> of, round |-> round, prior |-> Empty]
Marker(n, prior) == [kind |-> "marker", of |-> n, round |-> 0, prior |-> prior]

None == [at |-> "none", of |-> 0, round |-> 0]
Loops == [at : {"none", "ask", "called"}, of : 0 .. MaxPrompts, round : 0 .. MaxRounds]

NoCmd == [at |-> "none", target |-> 0, ctx |-> Empty, check |-> Empty, left |-> <<>>]
Cmds == [at : {"none", "delete", "clear", "append", "checkpoint", "save", "context", "summary"},
         target : 0 .. MaxPrompts, ctx : Contexts, check : Contexts, left : Seq(Messages)]

-----------------------------------------------------------------------------
(* Reading a sequence of messages *)

Prompts(s) == {i \in DOMAIN s : s[i].kind = "prompt"}
Markers(s) == {i \in DOMAIN s : s[i].kind = "marker"}
Last(S) == CHOOSE i \in S : \A j \in S : j <= i
First(S) == CHOOSE i \in S : \A j \in S : i <= j

\* the position of a prompt; one past the end when it is not there
Position(s, n) ==
  LET at == {i \in Prompts(s) : s[i].of = n}
  IN  IF at = {} THEN Len(s) + 1 ELSE First(at)

Before(s, n) == SubSeq(s, 1, Position(s, n) - 1)
FromNext(s, n) == SubSeq(s, Position(s, n) + 1, Len(s))  \* Mutant: the prompt itself stays
From(s, n) == SubSeq(s, Position(s, n), Len(s))
Visible(s) == IF cursor = 0 THEN s ELSE Before(s, cursor)

\* context_state_at_history_end: the latest marker decides
HistoryEnd(s) ==
  IF Markers(s) = {} THEN Empty
  ELSE LET i == Last(Markers(s)) IN [summary |-> s[i].of, retained |-> i - 1]

\* context_state_for_target: the first marker behind it knows what was before
ContextAtEnd(s, n) == HistoryEnd(s)  \* Mutant: of the whole history
ContextFor(s, n) ==
  LET p == Position(s, n)
      later == {i \in Markers(s) : i > p}
  IN  IF later # {} THEN s[First(later)].prior ELSE HistoryEnd(SubSeq(s, 1, p))

\* validate_request_state
Valid(c, s) ==
  /\ c.retained <= Len(s)
  /\ c.summary # 0 => \E i \in Markers(s) : i > c.retained

\* build_request_messages_raw
Request(c, s) == SubSeq(s, c.retained + 1, Len(s))

Without(s, m) ==
  IF \E i \in DOMAIN s : s[i] = m
  THEN LET i == CHOOSE i \in DOMAIN s : s[i] = m
       IN  SubSeq(s, 1, i - 1) \o SubSeq(s, i + 1, Len(s))
  ELSE s

-----------------------------------------------------------------------------
Init ==
  /\ store = <<>> /\ buffer = <<>>
  /\ context = Empty /\ saved = Empty
  /\ cursor = 0 /\ checkpoint = Empty
  /\ loop = None /\ ghost = None /\ cmd = NoCmd
  /\ prompts = 0 /\ compactions = 0 /\ commands = 0 /\ crashes = 0
  /\ gone = {} /\ late = FALSE /\ buried = FALSE /\ torn = FALSE

\* the store's transaction, then the buffer
Write(m) == store' = Append(store, m) /\ buffer' = Append(buffer, m)

Command(at) == cmd' = [cmd EXCEPT !.at = at]

-----------------------------------------------------------------------------
(* A new prompt: Runtime::submit_prompt_submission of an idle session *)

\* nothing hidden: append at once; else collect what is to be deleted
Submit ==
  /\ cmd.at = "none" /\ loop.at = "none" /\ prompts < MaxPrompts
  /\ cmd' = IF cursor = 0 THEN [NoCmd EXCEPT !.at = "append"]
            ELSE [NoCmd EXCEPT !.at = "delete", !.target = cursor, !.left = From(buffer, cursor)]
  /\ UNCHANGED <<store, buffer, context, saved, cursor, checkpoint, loop, ghost,
                 counters, history>>

\* delete_messages: one statement for each message
Delete ==
  /\ cmd.at = "delete" /\ cmd.left # <<>>
  /\ store' = Without(store, Head(cmd.left))
  /\ cmd' = [cmd EXCEPT !.left = Tail(@)]
  /\ UNCHANGED <<buffer, context, saved, cursor, checkpoint, loop, ghost, counters, history>>

TruncateOneMore ==  \* Mutant: off by one
  /\ cmd.at = "delete" /\ cmd.left = <<>>
  /\ buffer' = SubSeq(buffer, 1, Position(buffer, cmd.target) - 2)
  /\ gone' = gone \union {buffer[i].of : i \in Prompts(buffer) \ DOMAIN buffer'}
  /\ Command("clear")
  /\ UNCHANGED <<store, context, saved, cursor, checkpoint, loop, ghost, counters,
                 late, buried, torn>>
Truncate ==
  /\ cmd.at = "delete" /\ cmd.left = <<>>
  /\ buffer' = Before(buffer, cmd.target)
  /\ gone' = gone \union {buffer[i].of : i \in Prompts(buffer) \ DOMAIN buffer'}
  /\ Command("clear")
  /\ UNCHANGED <<store, context, saved, cursor, checkpoint, loop, ghost, counters,
                 late, buried, torn>>

\* save_revert_state(nil): the context state stays what it is
Clear ==
  /\ cmd.at = "clear"
  /\ cursor' = 0 /\ checkpoint' = Empty
  /\ Command("append")
  /\ UNCHANGED <<store, buffer, context, saved, loop, ghost, counters, history>>

AppendPrompt ==
  /\ cmd.at = "append"
  /\ prompts' = prompts + 1
  /\ Write(Message("prompt", prompts', 0))
  /\ loop' = [at |-> "ask", of |-> prompts', round |-> 0]
  /\ cmd' = NoCmd
  /\ UNCHANGED <<context, saved, cursor, checkpoint, ghost, compactions, commands, crashes, history>>

-----------------------------------------------------------------------------
(* Undo, revert and redo *)

\* cancel_session leaves the loop winding down
Cancel ==
  /\ loop.at # "none" => ghost.at = "none"
  /\ loop' = None
  /\ ghost' = IF loop.at = "none" THEN ghost ELSE loop

\* revert_to_message from the messages just read
MoveTo(n) ==
  cmd' = [NoCmd EXCEPT !.at = "checkpoint", !.target = n, !.ctx = ContextFor(buffer, n)]

Numbers(S) == {buffer[i].of : i \in S}
Ready == cmd.at = "none" /\ commands < MaxCommands /\ commands' = commands + 1

Stop ==
  /\ cmd.at = "none" /\ loop.at # "none" /\ Cancel
  /\ UNCHANGED <<store, buffer, context, saved, cursor, checkpoint, cmd, counters, history>>

Undo ==
  /\ Ready /\ Cancel
  /\ LET before == Prompts(Visible(buffer))
     IN  /\ before # {}
         /\ cursor = 0 \/ Position(buffer, cursor) <= Len(buffer)
         /\ MoveTo(buffer[Last(before)].of)
  /\ UNCHANGED <<store, buffer, context, saved, cursor, checkpoint,
                 prompts, compactions, crashes, history>>

Revert ==
  /\ Ready /\ Cancel
  /\ \E n \in Numbers(Prompts(buffer)) : MoveTo(n)
  /\ UNCHANGED <<store, buffer, context, saved, cursor, checkpoint,
                 prompts, compactions, crashes, history>>

\* forwards to the next prompt, or back to where the first undo was called
Redo ==
  /\ Ready /\ Cancel /\ cursor # 0
  /\ LET after == {i \in Prompts(buffer) : i > Position(buffer, cursor)}
     IN  IF after # {} THEN MoveTo(buffer[First(after)].of)
         ELSE cmd' = [NoCmd EXCEPT !.at = "save", !.ctx = checkpoint]
  /\ UNCHANGED <<store, buffer, context, saved, cursor, checkpoint,
                 prompts, compactions, crashes, history>>

\* the first undo keeps the active context for redo, later ones keep its checkpoint
TakeCheckpoint ==
  /\ cmd.at = "checkpoint"
  /\ cmd' = [cmd EXCEPT !.at = "save", !.check = IF cursor = 0 THEN context ELSE checkpoint]
  /\ UNCHANGED <<store, buffer, context, saved, cursor, checkpoint, loop, ghost, counters, history>>

\* save_revert_state_with_context: one transaction
SaveRevert ==
  /\ cmd.at = "save"
  /\ cursor' = cmd.target /\ checkpoint' = cmd.check /\ saved' = cmd.ctx
  /\ Command("context")
  /\ UNCHANGED <<store, buffer, context, loop, ghost, counters, history>>

SetContextInRow ==  \* Mutant: the ContextManager is left alone
  /\ cmd.at = "context"
  /\ cmd' = NoCmd
  /\ UNCHANGED <<store, buffer, context, saved, cursor, checkpoint, loop, ghost, counters, history>>
SetContext ==
  /\ cmd.at = "context"
  /\ context' = cmd.ctx
  /\ cmd' = NoCmd
  /\ UNCHANGED <<store, buffer, saved, cursor, checkpoint, loop, ghost, counters, history>>

-----------------------------------------------------------------------------
(* Compaction *)

\* marker and context state, in the store and then in memory
ApplyCompaction(prior, retained) ==
  /\ compactions' = compactions + 1
  /\ Write(Marker(compactions', prior))
  /\ saved' = [summary |-> compactions', retained |-> retained]
  /\ context' = saved'
  /\ buried' = (buried \/ cursor # 0)

\* /compact of an idle session: reload, validate and ask for a summary
Compact ==
  /\ cmd.at = "none" /\ loop.at = "none" /\ compactions < MaxCompactions
  /\ buffer' = store
  /\ Valid(context, store) /\ Request(context, store) # <<>>
  /\ cmd' = [NoCmd EXCEPT !.at = "summary", !.ctx = [summary |-> 0, retained |-> Len(store)],
                          !.check = context]
  /\ UNCHANGED <<store, context, saved, cursor, checkpoint, loop, ghost, counters, history>>

CompactDone ==
  /\ cmd.at = "summary"
  /\ ApplyCompaction(cmd.check, cmd.ctx.retained)
  /\ cmd' = NoCmd
  /\ UNCHANGED <<cursor, checkpoint, loop, ghost, prompts, commands, crashes, gone, late, torn>>

CompactFails ==
  /\ cmd.at = "summary"
  /\ cmd' = NoCmd
  /\ UNCHANGED <<store, buffer, context, saved, cursor, checkpoint, loop, ghost, counters, history>>

-----------------------------------------------------------------------------
(* The running loop: prepare_request, load_messages, save_messages *)

AutoCompact ==
  /\ loop.at = "ask" /\ cmd.at # "summary" /\ compactions < MaxCompactions
  /\ Valid(context, buffer) /\ Request(context, buffer) # <<>>
  /\ ApplyCompaction(context, Len(buffer))
  /\ UNCHANGED <<cursor, checkpoint, loop, ghost, cmd, prompts, commands, crashes, gone, late, torn>>

Answer ==
  /\ loop.at = "ask" /\ Valid(context, buffer)
  /\ Write(Message("answer", loop.of, loop.round))
  /\ loop' = None
  /\ UNCHANGED <<context, saved, cursor, checkpoint, ghost, cmd, counters, history>>

Call ==
  /\ loop.at = "ask" /\ Valid(context, buffer) /\ loop.round < MaxRounds
  /\ Write(Message("call", loop.of, loop.round))
  /\ loop' = [loop EXCEPT !.at = "called"]
  /\ UNCHANGED <<context, saved, cursor, checkpoint, ghost, cmd, counters, history>>

Results ==
  /\ loop.at = "called"
  /\ Write(Message("results", loop.of, loop.round))
  /\ loop' = [loop EXCEPT !.at = "ask", !.round = @ + 1]
  /\ UNCHANGED <<context, saved, cursor, checkpoint, ghost, cmd, counters, history>>

\* a failing provider, or build_request_messages refusing the context state
Fails ==
  /\ loop.at = "ask"
  /\ loop' = None
  /\ UNCHANGED <<store, buffer, context, saved, cursor, checkpoint, ghost, cmd, counters, history>>

-----------------------------------------------------------------------------
(* A cancelled loop: the partial answer or the results it had in hand, or a
   compaction it had begun.  delete_messages and truncate hold the buffer's
   lock, a compaction that of the context manager. *)

Follows ==
  /\ buffer # <<>>
  /\ LET last == buffer[Len(buffer)]
     IN  \/ last.of = ghost.of /\ last.kind # "marker"
         \/ last.kind = "marker" /\ ghost.at = "ask"

Overtakes ==
  late' = (late \/ cmd.at # "none" \/ cursor # 0 \/ loop.at # "none" \/ ~Follows)

GhostWrites ==
  /\ ghost.at # "none" /\ cmd.at # "delete"
  /\ Write(Message(IF ghost.at = "called" THEN "results" ELSE "answer", ghost.of, ghost.round))
  /\ ghost' = None
  /\ Overtakes
  /\ UNCHANGED <<context, saved, cursor, checkpoint, loop, cmd, counters, gone, buried, torn>>

GhostCompacts ==
  /\ ghost.at = "ask" /\ cmd.at \notin {"delete", "summary"} /\ compactions < MaxCompactions
  /\ Valid(context, buffer) /\ Request(context, buffer) # <<>>
  /\ ApplyCompaction(context, Len(buffer))
  /\ Overtakes
  /\ ghost' = None
  /\ UNCHANGED <<cursor, checkpoint, loop, cmd, prompts, commands, crashes, gone, torn>>

GhostEnds ==
  /\ ghost.at # "none"
  /\ ghost' = None
  /\ UNCHANGED <<store, buffer, context, saved, cursor, checkpoint, loop, cmd, counters, history>>

\* a new process reads what the database holds
Crash ==
  /\ crashes < MaxCrashes /\ crashes' = crashes + 1
  /\ buffer' = store /\ context' = saved
  /\ loop' = None /\ ghost' = None /\ cmd' = NoCmd
  /\ torn' = (torn \/ store # buffer \/ cmd.at = "clear")
  /\ UNCHANGED <<store, saved, cursor, checkpoint, prompts, compactions, commands, gone, late, buried>>

-----------------------------------------------------------------------------
Commands ==
  \/ Submit \/ Delete \/ Truncate \/ Clear \/ AppendPrompt
  \/ Stop \/ Undo \/ Revert \/ Redo \/ TakeCheckpoint \/ SaveRevert \/ SetContext
  \/ Compact \/ CompactDone \/ CompactFails

Loop == AutoCompact \/ Answer \/ Call \/ Results \/ Fails
Ghost == GhostWrites \/ GhostCompacts \/ GhostEnds

Next == Commands \/ Loop \/ Ghost \/ Crash

Spec == Init /\ [][Next]_vars

-----------------------------------------------------------------------------
\* Type invariant of both copies of the conversation and of the command in progress.
TypeOK ==
  /\ store \in Seq(Messages) /\ buffer \in Seq(Messages)
  /\ context \in Contexts /\ saved \in Contexts
  /\ cursor \in 0 .. MaxPrompts /\ checkpoint \in Contexts
  /\ loop \in Loops /\ ghost \in Loops /\ cmd \in Cmds
  /\ prompts \in 0 .. MaxPrompts /\ compactions \in 0 .. MaxCompactions
  /\ commands \in 0 .. MaxCommands /\ crashes \in 0 .. MaxCrashes
  /\ gone \subseteq 1 .. MaxPrompts
  /\ {late, buried, torn} \subseteq BOOLEAN

Undisturbed == ~late /\ ~buried /\ ~torn

\* A loop never asks for a request that validate_request_state refuses, through
\* any undo, redo, compaction and restart, as long as no cancelled loop wrote
\* late, nothing was compacted while messages were hidden, and no crash hit the
\* deletion of hidden messages.  Each of these three makes every later request fail.
RequestsAreValid ==
  loop.at = "ask" /\ Undisturbed => Valid(context, buffer)

\* Between commands the context state is the one the visible history ends with,
\* in memory and in the session's row, and while messages are hidden the
\* checkpoint is the one the whole history ends with: redo brings it back.
ContextFollowsHistory ==
  cmd.at = "none" /\ Undisturbed =>
    /\ context = HistoryEnd(Visible(buffer)) /\ saved = context
    /\ cursor # 0 => checkpoint = HistoryEnd(buffer)

\* A prompt that was hidden when a later prompt was submitted is deleted for
\* good, through redo and restarts, unless a crash left some of the hidden
\* messages in the store.
UndoneStaysGone ==
  cmd.at = "none" /\ ~torn => \A i \in Prompts(store) : store[i].of \notin gone

\* No command and no restart loses a message that was not hidden.
Elements(s) == {s[i] : i \in DOMAIN s}
VisibleIsKept ==
  [][Elements(Visible(buffer)) \subseteq Elements(store') \intersect Elements(buffer')]_<<store, buffer>>
=============================================================================
