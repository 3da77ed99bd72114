# TLA+ models of tidev

tidev is a coding agent in Rust: a host (`tidev-core`) runs agent loops (`tidev-agent`) over
sessions kept in SQLite (`tidev-storage`), and several frontends (terminal, ACP, web) submit
prompts, answer approval requests and follow a stream of events. This directory holds
specifications of the parts where concurrency, cancellation and failure make the code hard to
get right, the TLC runs that check them on small instances, and TLAPS proofs of the results that
hold for every instance. `PROJECT.json` maps every definition to its lines of source, and lists
the runs, the mutants that show what each property can catch, the hazards and the theorems.

## The system

| Part | State | Operations | Meets | Module |
|---|---|---|---|---|
| Runtime, session host (`tidev-core/runtime.rs`) | per session: `busy_sessions`, `active_loop_cancels`, `steer_signals`, `run_loop_handles`, `pending_prompts`, message buffer; locks `prompt_submission_lock`, `session_start_lock` | submit, continue, retry, cancel, cancel_session, fork, compact, wait | frontends call it; it spawns the loop and shares the queue, the buffer and the token with it | `SessionLoop`, `PromptLedger` |
| Agent loop (`tidev-agent/loop_.rs`, `turn.rs`) over `CoreContext` (`tidev-core/agent_ctx.rs`) | `StreamRecorder.active`, turn, results, `pre_round_hash`, staged instruction sources | prepare, load, stream, save, approve, execute | store and buffer (writes), approval broker (waits), schedulers, LLM client, event bus | `AgentTurns` |
| Tool scheduler (`tidev-agent/scheduler.rs`) | `JoinSet`, pending flags, completion flags, results | spawn, join, abort, run writes | the tools; the event bus | `ToolScheduler` |
| Subagents (`tidev-agent/subagent.rs`, `execute_task_tool`) | the same, child sessions, the link of the parent's message | spawn, join, drain, create child, link, run | the Runtime's storage and buffer; a loop per child | `Subagents` |
| Undo, redo, revert (`undo.rs`, `runtime.rs`, `revert.rs`) with the context manager (`context_manager.rs`) | cursor, redo checkpoint; `summary`, `retained_from` in memory and in the row | undo, redo, revert, discard; compact, build a request | store, buffer, loop (which it cancels) | `Conversation` |
| Snapshots (`tidev-snapshot`) | shadow repository: index, exclude file, trees | track, diff, revert, restore | the loop (per round), undo and redo | `Snapshots`, `Worktree` |
| Approval broker (`tidev-core/approval.rs`) | map of open requests, oneshots, channel | request, respond, list | loops and Code Mode scripts wait on it, frontends answer | `Approvals` |
| Terminal approvals (`tidev-tui/app`) | pending approvals per session, dialogs, decisions remembered per path | arrive, show, decide, abort, delete, undo | the broker, the user | `ApprovalDialogs` |
| Event buses and `EventHub` (`backend_event.rs`, `event_hub.rs`) | FIFO per session, cursor, replay window, subscribers | send, publish, subscribe | loops emit; frontends subscribe | `EventStream` |
| Web page (`web/src/api/events.ts`, `useChatRuntime.ts`) | EventSource, cursor; messages, cache, undo mark, requests under way | open, apply, resync; load, select, revert, redo | `/api/events`, `/api/sessions` | `EventStream`, `ChatView` |
| MCP registry (`tidev-agent/mcp.rs`) | per server: specification, status, client, tools | upsert, refresh, toggle, disconnect, remove; find and call a tool | frontends command it, tool calls take its clients | `McpRegistry` |
| Codex login (`tidev-core/codex_auth.rs`, `tidev-config/auth.rs`) and its requests (`tidev-llm/responses`) | credential in memory and in `auth.json`, refresh lock, time of the last refresh | resolve, refresh, store, clear, login, logout, save | every request to that provider, the settings of the frontends, other processes | `CodexAuth` |
| Storage (`tidev-storage`) | SQLite tables behind one write lock | transactions | host and loop | steps of the callers |
| Tools, other LLM providers, MCP servers, Code Mode | outside world | call | schedulers, loop | one fallible step |
| Configuration, search, logging, rendering | views, files | render, parse | Runtime interface | - |

What is hard: a session is busy or idle according to maps that the host, the canceller, the
spawned task and its RAII guard take one after the other; a prompt must go to exactly one of the
queue and the store while the loop that would drain the queue is ending; the assistant's message
is journalled while it streams, and must settle whatever fails; tasks are aborted while they run
on other threads; undo, redo and a new prompt move a cursor through two copies of a history while
a cancelled loop may still write to it, to the files and to the context state; requests are
answered by whoever is first while they are cancelled; connections break, cursors go stale and
answers overtake each other; one client of an MCP server, and one login, are shared by whoever
calls and whoever reconfigures, and are changed behind an await. What correctness means for each part:

- host: one loop per session, no prompt lost, doubled or stranded, the buffer equal to the store;
- loop: one live draft, every call answered in order, nothing saved is changed, every draft
  settles, cancellation ends it;
- schedulers: writing calls run alone, one completion and one result per call, what is reported
  is what is returned, silence afterwards;
- undo and context: a request is always one the context manager accepts and is what the user
  sees; what was discarded stays gone, what was visible is kept; files come back, and only those
  a tool wrote are touched;
- approval: a connected frontend misses no request, the first response wins, what is approved is
  what the user allowed, and what waits is shown;
- MCP registry: a connected server is usable, with the client and the tools of its present
  specification, and connecting ends;
- login: it survives every interleaving of requests, and refused requests share one refresh;
- events and page: no gap and no repetition without a resync; in the end the page shows what is
  stored, and nothing vanishes from it meanwhile.

## Modules

**`SessionLoop`** is one session of the Runtime. `host` is the program counter of whoever holds
`prompt_submission_lock` (submission or `continue_session`, then `start_agent_loop`); `canceller`
that of a cancellation between its two halves; `loop[l]` that of the l-th spawned task, several of
which can be alive. `busy`, `token`, `signal` and `handle` are the session's entries of the four
maps, `pending` its queue, `store` and `buffer` its user messages. There is one action per
stretch between lock releases or awaits: `Submit`, `PushPending`, `PersistStore`,
`PersistBuffer`, `Continue`, `LoadStore`, `SetBuffer`, `Claim`, `InsertToken`, `InsertSignal`,
`Spawn`, `MarkBusy`; `CancelToken`, `CancelPending`; `Outer` ... `Check` of the task with
`run_agent_loop` inside; `DropToken`, `DropBusy`, `DropSignal` of `SessionLoopGuard::drop`.
`accepted`, `dropped` and `asked` are history for the properties.

**`PromptLedger`** is what a session promises about prompts: accepted, then waiting, then stored
once or abandoned. `SessionLoop` implements it with `waiting` the queue and what tasks have
drained from it.

**`AgentTurns`** is what one loop writes into the conversation: a sequence of messages with the
draft the `StreamRecorder` journals, tool calls, results, notices. Its actions are the calls
`run_agent_loop` makes on its context, each with its error path; besides it, prompts arrive
(queued or steered), a failed turn is retried, frontends answer, somebody cancels, the process
dies and the next submission recovers drafts. `lapsed` remembers the calls that a cancellation left
without a result: those of a cancelled approval, and those `ToolScheduler` shows a batch to mix up.
`MCAgentTurns` gives it the shapes of turns. A call is named by the turn that came with it
(a loop's rounds are counted) and its place there, as providers give every call its own id.

**`ToolScheduler`** is `execute_tool_calls`: the scheduler joins tasks that are polled, end,
panic or are aborted on other threads, and then runs the writing calls one by one.

**`Subagents`** is `execute_subagent_calls` over `execute_task_tool`. A task's first poll either
refuses the call or creates and seeds the child session; then it links the parent's message in
the buffer and in the store, runs, and ends, panics or is aborted. The scheduler joins ends in
their order, answers and reports, drains after a cancellation, and fails with the first error.

**`Conversation`** is one history with both its copies, both copies of the context state, the
undo cursor and the redo checkpoint. A command is a sequence of actions in the order of its
awaits and statements: a prompt after an undo deletes row by row (`Delete`), truncates, clears the
cursor and appends; an undo reads, takes the checkpoint, saves cursor and context in one
transaction and then sets the manager. `loop` is the loop at work, `ghost` one that a command
cancelled without waiting for its end. `Crash` forgets everything but the store and the row.

**`Snapshots`** are the operators of the shadow repository (what `track`, `diff_lightweight`,
`revert` and `restore` compute), **`Worktree`** the actions around it: rounds with a snapshot
before and after, tools and others that write files, undo and redo, and the collection of old trees.
Undo, revert and redo belong to a user and are several steps each, which other commands and prompts
may fall between: none of them takes a lock, and the terminal awaits none (actions.rs:862, 877, 1082).
A snapshot may miss files (`missed`: git does not take them, or there are more than `max_files`),
fail, or fail having done part of its work; a checkout may pass a file over; a revert or a restore
may stop halfway, and its command with it (`GivesUp`). `hist` is history: what was there when the
first undo began, and for every condition of the properties the files it concerns.

**`Approvals`** is the broker, the channel and its fan-out, and the three frontends: browser tabs
that subscribe, list and go, the ACP bridge that asks its editor about one request at a time, and
the terminal. `state[r]` is where the call of `request` is: inserted, waiting, or over. Which
command runs (`tui`, `web`, `acp`) decides which frontends exist. **`ApprovalDialogs`** extends it
with the terminal's pipeline: `SpecAll` replaces the terminal's two abstract steps by requests
per session, tools taken one by one against remembered decisions, and dialogs.

**`EventStream`** is `EventHub`, the `/api/events` handler and browser tabs: cursors per process,
a bounded window, subscriptions that are answered under the hub's lock, connections that break,
`EventSource`s that reconnect with the URL they were created with, reloads and restarts.

**`ChatView`** is the page behind that stream: a runtime that stores, queues, replies and hides;
events that arrive in order; requests whose answer is computed at one moment (`Serve...`) and
applied at a later one (`Receive...`), in any order among themselves and with the events. Its
initial predicate, next-state relation and specification are `ViewInit`, `ViewNext` and `ViewSpec`,
as `McpInit` ... of `McpRegistry` and `FilesInit` ... of `Worktree`: the modules of proofs extend two
components each.

**`McpRegistry`** is one server's entry, with commands (`task[k]`) and tool calls (`call[c]`) that
are each between two of their critical sections. A client is known by the specification it was
connected with, a number per specification; it is in the entry, with a command or with a call, and
is closed when it is in none of them, or when its connection ended (`Break`): nobody notices that
before a refresh, and a call puts such a client back into the entry. The commands of the terminal
and of the page write a specification and then refresh or disconnect once more, which is the task's `next`.

**`CodexAuth`** is the login all requests to Codex share. `req[r]` is where a request is between
asking for its token and its answer; `mem` and `file` are the two copies of the credential, an
access and a refresh token numbered in the order of issue; `honoured` is what the issuer accepts.
Who holds the refresh lock is `posted`, `granted` or `refused`. `saver` is a change of settings
between its copy of the store and the file.

**Proofs** are in `SessionLoopProofs`, `AgentTurnsProofs`, `ToolProofs` (`ToolScheduler` and
`Worktree`), `SubagentsProofs`, `ConversationProofs`, `ApprovalsProofs`, `WebProofs` (`EventStream` and
`ChatView`) and `ServiceProofs` (`CodexAuth` and `McpRegistry`).

How they compose: `SessionLoop` establishes when there is one loop; `AgentTurns` looks inside
that loop and takes `ToolScheduler` and `Subagents` as its `Execute` and `Approvals` as its
`Approve`; `Conversation` and `Worktree` take that loop's writes as steps and add what hides and
discards them, one for the messages, the other for the files; `ApprovalDialogs` is composed with
`Approvals` in one specification, and proved to be one of its frontends; the events all of them
emit are the ones `EventStream` carries, and `ChatView` is what a page makes of them. A call of
`McpRegistry` is a tool of `ToolScheduler`, whose abortion is its `Abort`; a request of `CodexAuth`
is `AgentTurns`' stream, whose cancellation is its `Abort`.

### Abstractions

- SessionLoop: messages are ids and only users' messages are kept. `CancelToken` merges taking
  the token and leaving `busy_sessions`, which no other action can tell apart in a harmful way;
  `Continue` merges the reload with the decision (both under the submission lock). A submission
  of a known id is left out: it changes nothing, except while its prompt is drained from the queue
  and not yet in the buffer, where `find_existing_prompt_submission` misses it (it is in the plan).
  The discarding of undone messages is `Conversation`'s. `StreamFails` also stands for a failing
  save of the answer. Providers answer or fail.
- AgentTurns: store and buffer are one sequence; a cancelled session accepts nothing until its
  loop has ended (SessionLoop has the other case); several retryable failures of a prompt are
  retried together, as the code does; compaction only fails, as part of `Prepare`. A rejected
  call has a result like any other. An error of Code Mode, of a subagent or of the staging of
  instruction sources is `Execute`'s failure. Metadata, attachments and token counts are left out.
- ToolScheduler: a tool is one step that ends or not; its result is real, cancelled or failed. A
  panic of a writing call (which would end the whole loop's task) is left out.
- Subagents: the child's loop is one step. `child_session_id` given by the caller never occurs
  from the present frontends and is left out. All tasks of a batch share the parent's token.
- Conversation: a message is its kind, its prompt and its round. When compaction is due is a
  matter of tokens, so it may happen before any request. A summary without text (a compaction
  that called tools) is treated like any other. One user gives one command at a time, as the
  frontends do; a ghost writes once, and not while the buffer's or the manager's lock is held.
  Checkpoints stored by older versions, which hold a hash only, are left out.
- Snapshots: a hash is the tree it names; `pruned` are the trees `gc` has removed. `Files` are those
  a snapshot may take: untracked ones below `DEFAULT_IGNORED_DIRS` (git.rs:237), ignore globs and the
  user's own `.gitignore` are left out, and so are links and modes. Files beyond `max_files` count
  as missed. `check-ignore` is taken to answer or to fail as a whole.
- Worktree: a round writes any files; the files of a child's round are its own conversation's.
  Steered prompts and restarts, which change no file, are left out. One cancelled round at most is
  still open: another cancellation waits for its end. Not everything happens often in one
  behaviour: it draws on one of the `Budgets`.
- Approvals: one process serves one kind of frontend, as the commands do. Editors answer or
  refuse; a bridge that loses its editor refuses.
- ApprovalDialogs: a path is a sequence of components; reasons and formats are left out, and so
  are questions whose arguments do not parse. Creating a session clears pending approvals as well,
  but is reachable only from the composer, which a dialog hides.
- McpRegistry: one server (renaming removes one and writes another); when a client is found closed
  is up to its server's process, so a refresh may find it open or closed. The captured error
  output and the transports are left out. `crossed`, `lost`, `broken` and `abandoned` are history.
- CodexAuth: one provider, one login; an issuer answers a refresh with a new access token, alone or
  with a new refresh token that revokes the old one (both occur, `credential_from_token_response`
  keeps the old one if none is given). `aging` is the five minutes' skew, `recent` the 30 seconds.
  How the user logs in is one step. Another process may refresh, log in or log out (`Elsewhere`:
  main.rs:229, 470). `wanted` and `mishap` are history.
- EventStream: an event is its number; what a page computes from it is `ChatView`'s. `resync`
  reloads what the page shows, after which it has missed nothing so far.
- ChatView: messages are numbered, the stream loses nothing, live text, todos and changed files
  are left out. The page asks for one revert at a time; loads may be under way beside it. Any request
  may fail, before or after the server has carried it out (`Fail`; `MaxMishaps` bounds failures and
  cancellations together); `failed` remembers
  sessions whose load failed and was not begun anew.

## What the runs check

Bounds are constants and appear in guards only.

| Run | Bounds | What it shows |
|---|---|---|
| `session_safety` | 2 prompts, 2 loops, 1 tool round, 1 cancellation, 1 failure; both delivery modes | `OneLoop`, `BufferFollowsStore`, `SubmissionOrder`, refinement of `PromptLedger` (`LedgerSpec`) |
| `session_liveness` | 1 prompt, else the same | `EveryTaskEnds`, `StoredIsAsked` |
| `turns` | turns without calls, with an approval in front of a call, and with a risky call; 1 tool round, 2 prompts, 2 failures, 1 crash | `OneLiveDraft`, `CallsAnswered`, `ResultsHaveCalls`, `HistoryIsKept`, `CancelEndsTask` |
| `scheduler` | 3 reads and 2 writes interleaved in call order, 1 panic | `WritesRunAlone`, `MixupsAreCounted`, `QuietAfterReturn`, `CancelEndsBatch` |
| `events` | 2 tabs, window of 2, 4 events, 2 breaks or reloads, 1 restart | `WholeStream`, `GapsExplained`, `RepeatsExplained`, `CatchesUp` |
| `conversation` | 2 prompts, 1 tool round each, 2 compactions, 3 commands, 1 crash | `RequestsAreValid`, `ContextFollowsHistory`, `UndoneStaysGone`, `VisibleIsKept` |
| `worktree` | 2 files, 2 contents one of which is too large, 2 turns, 2 users, and one of six budgets: up to 2 rounds, 2 writes, 3 commands, 2 mishaps, 1 step that begins during a command | `UndoRestores`, `UserFilesAreKept`, `RedoRestores` |
| `approvals` | 4 requests of 2 sessions (one nested in a script, one in a broker nobody hears), 2 tabs, 2 connections, 3 paths | `NothingMissed`, `FirstResponseWins`, `DecisionsFit`, `WaitingIsShown` |
| `subagents` | 4 calls, the last refused; 1 panic | `ToldAsAnswered`, `LinksLeadToChildren` |
| `chat_view` | 2 sessions, 2 messages, 2 selections, 2 reverts, 1 cancellation or failing request, 2 requests under way | `ViewIsStored`, `ShownStays` |
| `mcp` | 2 commands and 2 calls at once, 3 commands and 2 calls in all | `ConnectedHasClient`, `ClientsAreCurrent`, `ConnectingEnds` |
| `codex_auth` | 2 requests, 3 tokens, 1 save of settings | `StaysLoggedIn`, `OneRefreshForARefusal`, `EveryRequestEnds` |

Why they are enough: two prompts and two loops are the least with an order between prompts and
an old task beside a new one; a further loop only repeats a role. Two failures let a failing write
meet the failing end of a draft, which is what leaves a draft behind; one crash leaves one more.
Three reads and one panic let a join error hit the first, a middle and the last pending call. A
window of two events has a full, a partly filled and an empty state and both boundaries of a
cursor, and four events let it move past a cursor twice. Two prompts, two compactions and three
commands have a marker before, between and behind the hidden messages, and an undo, a second
undo and a redo, or an undo, a prompt and an undo. Two rounds and two turns let two patches name one
file within a turn and across turns, three commands are an undo, a second undo or a redo, and the
last redo, and two mishaps are a snapshot that fails and a user who writes what it would have
taken. Four requests have two of one session, so that one waits
behind the other's dialog, and another session's. Four subagents have an error between a first
and a later end, and two whose links can cross. Two requests of the page under way can overtake.
Three commands on an MCP server have one that finds what two others left, and two calls fight over one client.
Three tokens are the first, a refreshed one, and one more, refreshed or from a new login.

Each module's type invariant holds in its run too. It is in no configuration: it is a theorem, or the
first part of the invariant of the module's proofs.

Properties hold under conditions that are stated in them. Each condition is there because TLC, or the
attempt at a proof, showed the property false without it. They are what a reader should know of
the code:

- `OneLoop` and `BufferFollowsStore` hold until somebody cancels, `SubmissionOrder` as long as
  nothing fails. `OneLiveDraft` lets only a retried loop stream beside an abandoned draft, which
  `retry_session` does not recover. `CallsAnswered` leaves out calls whose approval was cancelled,
  those that a cancelled batch lost (an aborted task's join error is charged to the first pending
  call, which may still answer itself, and the other has no result: scheduler.rs:96, 173), and what
  failures leave, a panicking tool among them; they stay unanswered in later requests
  (agent_ctx.rs:1210, 1502).
- Once somebody has cancelled, an old task's guard frees a session another loop is using
  (runtime.rs:235), and two live loops may send requests of one session, which the lock was meant
  to exclude (runtime.rs:1483). In the page, a redo that stops before a later prompt
  (runtime.rs:1903) is taken for one to the end: the answer clears the mark (useChatRuntime.ts:1782),
  and hidden messages are shown until the session is loaded again.
- `StoredIsAsked` speaks of stored prompts: one that is queued between the loop's last look at
  the queue and its guard's drop waits until another prompt starts a loop (runtime.rs:1640), and
  `MarkBusy` may mark a session busy whose task has already ended (runtime.rs:1657). A queued
  prompt is stored at any request boundary, also between the requests of a turn (agent_ctx.rs:1890).
- `MixupsAreCounted` and `ToldAsAnswered` count join errors charged to another
  call (scheduler.rs:97). `GapsExplained` and `RepeatsExplained` say which tabs may miss an event
  or see one twice: an `EventSource` that reconnects by itself repeats its URL (events.ts:55).
- `RequestsAreValid` and `ContextFollowsHistory` exclude a cancelled loop that writes after a
  command has begun (undo and revert do not wait for it, runtime.rs:1764), a compaction
  while messages are hidden (runtime.rs:1952), and a crash within the deletion of hidden messages
  (messages.rs:414). Each of them makes later requests fail or differ from what is visible.
- `UndoRestores` and its companions leave out files others wrote during a round or while turns
  were hidden, files too large for a snapshot, those a snapshot or checkout missed without a word
  (git.rs:390, 436, service.rs:293), and rounds that saved no patch, or whose first snapshot failed,
  so that an older hash was used (agent_ctx.rs:1627) and files the user wrote in between are in the
  patch. A command that fails midway keeps the cursor over files that are no longer its (service.rs:358,
  runtime.rs:2114, 2143); two commands, or a command and a prompt, that overlap, leave the cursor of
  one over the files of the other. The repository's README says "Git state is precisely tracked
  before and after tool calls" (README.md:37); in these cases it is not. A tree older than a week is
  collected although patches name it (service.rs:371): `ls-tree` then fails, which is read as "the
  file was not there" (git.rs:893), and an undo deletes the file. They also leave out a file that a
  redo does not delete, once the history goes on from there: a revert forwards and the last redo
  write back what a snapshot has and delete nothing (`restore` checks files out, service.rs:355), so
  a file the tools had deleted may be back, no later patch knows of it, and a later undo to before it
  was made leaves it there (`Extra`, `hist.left`). The attempt to prove the invariant showed this.
- `FirstResponseWins` lets an accepted answer reach nobody when its request was cancelled or its
  script gave up; `DecisionsFit` takes a decision made "once" as made for the process, as the
  terminal does (actions.rs:1172, 1195), although the dialog offers "once" and "until exit" as two
  things and the Runtime stores nothing for the first (tools.rs:271). `OnceIsForOneTool` says what
  the words promise; no configuration lists it, and in `Approvals.cfg` TLC refutes it.
  `WaitingIsShown` ends when the open session is deleted, which activates no other session's
  request (actions.rs:954).
- `ViewIsStored` and `ShownStays` leave out a session where an older answer came after a newer
  one (useChatRuntime.ts:507), `ViewIsStored` also one whose load failed and was not begun anew
  (useChatRuntime.ts:555: the error is shown, and what was loaded before stays).
- `LinksLeadToChildren` lets the links in buffer and store differ when two calls crossed, or when the
  store refused the last write, whose error is dropped (agent_ctx.rs:2256; `unsaved`).
- `ConnectedHasClient` ends with a call that is aborted while it holds the client: it drops the
  client, and the server stays connected without one (mcp.rs:1086). Nor does it hold of a connection
  that ended since the last refresh, or while a call held the client, who puts it back closed
  (mcp.rs:1088): the server is shown as connected, and every call fails. `ClientsAreCurrent` leaves out
  a specification that changes while a command or a call is under way: an older client is put
  back then (mcp.rs:1029, 1041). `ConnectingEnds` leaves out a command that is dropped with the
  connection of its web request. Calls of one server exclude each other: the second is told that
  the server is not connected.
- `StaysLoggedIn` names its mishaps in the actions: the issuer's answer is lost by a cancellation or
  a restart (codex_auth.rs:355), a credential is stored, cleared or put back over a newer one
  (codex_auth.rs:363, 384, runtime.rs:615, providers.rs:380), `auth.json` cannot be written, another
  process rotates the token both have read. `OneRefreshForARefusal` ("a single refresh is shared by
  concurrent requests", docs/usage/config/providers.md:193) holds within 30 seconds: the code
  compares times, not tokens (codex_auth.rs:332).

Deadlock is not checked: a session that is idle, a returned batch, a conversation without a
command and a tab that has read everything stop by design, and liveness properties cover what
must go on.

### Fairness

The Runtime's own steps, spawned tasks and a canceller that has begun are weakly fair: tokio polls
what is ready. Providers are assumed to answer or fail (`LoopStep`, `Task`), as their clients do;
a read-only tool need not end (only its abortion is fair), a writing call does, having the
token. Nobody need submit, cancel or answer an approval: those actions have no fairness. A tab
reconnects, as browsers do, and events are forwarded. `Conversation`, `Worktree`, `Approvals`,
`Subagents` and `ChatView` state safety only: what goes on in them is what users and tools choose
to do, and the loop's progress is `SessionLoop`'s and `AgentTurns`'. A command on an MCP server that
has begun goes on: it is a spawned task, and connecting and discovering have time limits; nobody
need command or call. Issuer and provider of Codex answer or fail. The post of a refresh token has
no time limit of its own (codex_auth.rs:345), so without that assumption one silent issuer keeps
the lock, and with it every request that needs a token.

## What is proved

With TLAPS, for every value of the constants that satisfies the named assumptions: bounds are
natural numbers, the window is not empty, read-only calls are calls, requests belong to sessions,
frontends differ; a path is a sequence, a request asks about at least one tool (none is made
otherwise, agent_ctx.rs:1197), and a script's request about no question (a script cannot call that
tool, agent_ctx.rs:756). "No session" is no session, and "no snapshot" is no tree.

Recursive definitions are recursive functions: `Of` of `AgentTurns` and `Keep` of `ChatView` (what a
sequence keeps of a set), `PatchesFrom` of `Worktree`. The library's induction theorems cannot be
used (they take an operator), but the well-foundedness of `<` on the naturals can: a set of numbers
that is not empty has a least element, so a fact about all sequences follows from the absence of
a shortest counterexample. The first section of each of these proof modules proves so
that the function exists, what it gives for the empty sequence and for one more element, that it
respects order and concatenation, and how two results correspond.

- `SessionLoopProofs`: `TypeCorrect` and `MutualExclusion` (`OneLoop`). `OneLoop` is not
  inductive: what excludes a second loop is where the host is. The invariant adds that, while
  nobody has cancelled, no task works from the moment the host decides to start one until it has
  spawned it, that a host about to mark the session busy shares it with its own task at most, and
  that the session is busy from the claim on. One step per action.
  `BufferIsStore` (`BufferFollowsStore`) adds to it what the writer in between is filing and that
  no task exists before it is spawned, so that a reload of the buffer meets no unfinished write.
  `KeepsTheLedger` is the refinement of `PromptLedger` (`LedgerSpec`): with an invariant that says
  that queue and what tasks have drained are disjoint and hold accepted prompts only, every step
  of host, task and canceller is a step of the ledger or a stutter. From the ledger's own
  invariant follows `StoredOnce`: no prompt is stored twice or both stored and abandoned.
  `QueuedInOrder` (`SubmissionOrder`): queue and drained prompts are in the order of submission,
  and what is drained precedes what is queued.
- `AgentTurnsProofs`: `TypeCorrect`, `DraftIsOne` (`OneLiveDraft`), `ResultsAnswerCalls`
  (`ResultsHaveCalls`), `HistoryStays` (`HistoryIsKept`) and `RequestsAreAnswered` (`CallsAnswered`).
  The invariant has three parts. `DraftOK`: the recorder has one draft at most; while a request
  streams, the draft is the last message of the store, an aborted one has at most the notice behind
  it, a saved one is the answer with the turn's calls; unless the loop is a retried one,
  every live message is that draft. `NumbersOK`: a call belongs to one message and its turn
  is not to come yet, every result has the call it answers before it and is its only one.
  `BatchOK`: what approval and execution hold are calls of the turn, each with one result at
  most. `HistoryStays` goes through the ways the store changes (a message more, the draft rewritten
  or dropped, interrupted drafts settled, failures of a retried turn taken out) and shows for each
  that what the filter leaves continues what it left before. `RequestsAreAnswered` adds
  what a batch has done of the turn's calls (`LapseOK`: those in `approved`, `asking` and `results`
  are all but the lapsed ones, and what is saved is exactly those, in their order), that the calls of
  the last request are of earlier turns, so that a later lapse cannot concern them (`SentOK`), and
  that without failures every answer that can be in a request has its results right behind it, in
  the request as in the store, except for the newest one while its batch is under way
  (`AnsweredOK`).
- `ToolProofs`, of the scheduler: `TypeCorrect`, `WritesIsolated` (`WritesRunAlone`) and `Quiet`
  (`QuietAfterReturn`). The invariant says what each control state knows of the tasks: none
  before the start, all joined from `write` on, and writes answered in order.
  `MixupsCounted` (`MixupsAreCounted`) needs a count on top: how often a call was reported follows
  from its flag and its task, and there are at most as many pending calls as tasks not joined and
  reported twice. A join error takes one of each.
  Of the files: `FilesTypeCorrect`, `UndoReturns` (`UndoRestores`), `UsersFilesStay`
  (`UserFilesAreKept`) and `RedoReturns` (`RedoRestores`). `FilesInv` relates every patch of the
  history to the tree it was taken from. `ChainOK`: reverting, from any turn on, the patches saved
  since takes a file from where the last patch left it (its `Base`: the tree before
  the round, the work tree, or what was kept when an undo began) back to that turn's prompt; the first
  patch that names a file decides, because later ones name what it had in between. `RoundOK`: the
  snapshot before a round has what no tool has written since. `CheckOK`: the redo checkpoint
  has what was kept. `UndoneOK`: while turns are hidden, a file named by their patches is as
  at the cursor's prompt, and any other as it was kept, or came back by a redo. `Shape`
  and `Straight` say where commands, loop and cursor can be: as long as nothing crossed or failed
  midway, one command at most is active (`Now`), none beside a loop, and the patches it has read are
  still those of the history. Only what was too large is excluded (`ExcludeOK`), and no
  patch names what only the user writes (`UsersOK`).
- `WebProofs`, of the stream: `TypeCorrect`, `StreamsAreWhole`, `NoUnexplainedGap`,
  `NoUnexplainedRepeat`. The invariant describes the window (its last event is the latest, it is
  contiguous), what a connection still delivers (gapless to the latest, or a resync first), and
  relates it to the cursor and the event applied last.
  Of the page: `ViewTypeCorrect`, `ViewIsRight` (`ViewIsStored`) and `ShownIsKept` (`ShownStays`).
  `ViewInv` says that the session that is shown is `Current`, or that a load is `Due`: its loop works,
  the end of its turn is on its way to the page, or a load is under way that is not answered yet
  or has the present version. It says of two answers that the newer one has whatever of the older
  one is still stored (`Answers`), that a prompt that waits is in none (`Separate`), and of what
  the page holds without an announcement that it was `Found`: it is stored, and no answer to come
  is without it, unless that answer is older than one that was applied (`FoundStays`). The last part
  is why an announcement may be forgotten as soon as one answer has the message.
- `ApprovalsProofs`: `OneResponse` (`FirstResponseWins`) needs that a response is in the slot
  exactly of the requests that were heard, and that those have left the map; `TabsMissNothing`
  (`NothingMissed`) that a tab between subscribing and listing has in its stream whatever was
  inserted since. `DialogsAreAFrontend` shows that `SpecAll` implements `Spec`: every step of the
  dialogs is a step of the broker's environment or leaves the broker alone. By it
  `BrokerBeneathDialogs` carries both properties over.
  `DecisionsAreTheUsers` (`DecisionsFit`) and `WaitingAlwaysShown` (`WaitingIsShown`) are about the
  terminal itself. In its process the requests of a session come one after the other, so what is
  in the terminal's queue and map is one unanswered request per session and older ones that are
  over. The invariant says for a pending entry that the decisions it has collected fit its tools
  up to the one it is at, for the cache that the user allowed what it holds, for a dialog which
  entry and tool it belongs to or that its request is over, and for the active session that its
  dialog is there while one of its requests waits.
- `SubagentsProofs`: `LinksAreSound` and `ToldCorrectly` (`ToldAsAnswered`). The invariant has a
  part per call (its guard, its completion and its result agree, an answer that is real was
  told as real) and counts the calls joined without an answer against the join errors.
- `ConversationProofs`: `TypeCorrect`, `CopiesAgree`, `RequestsStayValid` (`RequestsAreValid`),
  `ContextStaysWithHistory` (`ContextFollowsHistory`), `UndoneNeverReturns` (`UndoneStaysGone`) and
  `VisibleNeverLost` (`VisibleIsKept`). None of them is inductive, and they need each other's
  parts. `Once`: a message's kind, prompt and round name it, because a counter or the loop's round
  has moved past what was written; without it the deletion of a hidden message could hit a
  visible one. `Copies`: the store is the buffer, or while hidden messages are deleted the part
  before the cursor and what is left to delete. `Phases`: no loop runs during a command or while
  messages are hidden. `ContextInv`: the row has the context state the visible history ends with,
  the manager too except for the last step of a command, a command carries the state that fits
  its target, and every marker knows the state before it, which is what lets an undo behind a
  compaction bring the older state back (`ContextOfTarget`). A history end is always a valid state
  (`EndIsValid`), and so a request is. `GoneInv`: a discarded prompt has a number no later one has.
  The lemmas about reading a sequence (first and last position, splitting at a prompt, history ends
  of prefixes and extensions) are stated once, in front.
- `ServiceProofs`, of the MCP registry: `McpTypeCorrect`, `McpConnected` (`ConnectedHasClient`) and
  `McpUpToDate` (`ClientsAreCurrent`). The invariant says where clients can be: a client has one place, a
  connected entry without one has a call under way, and as long as nothing crossed, what commands
  and calls hold belongs to the present specification.
  Of the login: `TypeCorrect`, `LoginIsKept` (`StaysLoggedIn`) and `RefreshIsShared`
  (`OneRefreshForARefusal`). The invariant adds that one request at most refreshes and posts a
  credential that exists, that what was refused stays so and what was granted is accepted and
  nowhere else yet, what a save and its roll-back hold, and that a token a request was sent with
  less than 30 s ago is the one in memory or an older one of a recent refresh. It shows on the way
  that a refused credential is never in memory without a mishap.

TLC checked the inductive invariants as invariants of the runs' instances before they were proved.

Only model-checked: the liveness properties `EveryTaskEnds`, `StoredIsAsked`, `CancelEndsTask`,
`CancelEndsBatch`, `CatchesUp`, `ConnectingEnds` and `EveryRequestEnds`. Liveness under fairness and
ENABLED are outside what this prover does. Every safety invariant, action property and refinement
a run checks is proved.

## Plan

1. Done: `SessionLoop`, `PromptLedger`, `AgentTurns`, `ToolScheduler`, `EventStream`.
2. Done: `Approvals` with `ApprovalDialogs`, `Conversation`, `Snapshots` with `Worktree`,
   `Subagents`, `ChatView`, `McpRegistry`, `CodexAuth`.
3. Done: proofs of every safety property and of the refinements, of all components.
4. Resubmission of a known id through `SessionLoop`'s queue (runtime.rs:1096: it is found in neither
   place while its prompt is drained), waiters of a session, instruction sources exactly once, the
   order by `created_at` (messages.rs:441: a clock set back makes it differ from the buffer's), the
   buffer's lock held during a compaction request (agent_ctx.rs:1797), forks, and what the second
   attempt of a request adds behind the part of the first that was passed on
   (tidev-llm/lib.rs:448).

## Not modelled, and why

Rendering of the terminal and of the page, the ACP server's translation of messages, HTTP
plumbing: views of the same Runtime interface, without a protocol of their own beyond what
`ApprovalDialogs`, `Approvals`, `EventStream` and `ChatView` hold. Providers' protocols, tools, MCP servers, the
Code Mode interpreter, git itself: the outside world behind one fallible call. Configuration,
search, logging, prompts, agent types, schema migration: tables, files and pure helpers without
interleaving. These make up most of the repository's lines (the terminal, the page and the tools
alone more than half), which is why the mapped share is small although the protocols of the
host, the loop, the storage's use, the shared clients and logins and the frontends' requests are
covered. Hazards without a property are listed in the plan.
