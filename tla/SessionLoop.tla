----------------------------- MODULE SessionLoop -----------------------------
(***************************************************************************)
(* The busy/idle protocol of ONE session of tidev's Runtime                *)
(* (crates/tidev-core/src/runtime.rs): how a submitted prompt becomes      *)
(* either a new agent loop or a pending prompt of the running one, how the *)
(* spawned task alternates run_agent_loop with the pending queue, and how  *)
(* cancellation and the RAII SessionLoopGuard take the session back to     *)
(* idle.                                                                   *)
(*                                                                         *)
(* Actors, which interleave at every lock release and await:               *)
(*   - the host: submit_prompt_submission / continue_session, serialised   *)
(*     by prompt_submission_lock, so one program counter `host` is enough; *)
(*   - the canceller: cancel_session and cancel take no such lock;         *)
(*   - the spawned tasks, one per started loop; several can be alive.      *)
(*                                                                         *)
(* A message is its id. The store and the message buffer keep the user     *)
(* messages only: what a turn answers is the subject of AgentTurns.        *)
(***************************************************************************)
EXTENDS Naturals, Sequences, FiniteSets, Functions

CONSTANTS
  Prompts,        \* the message ids frontends submit
  Deliveries,     \* the values config.ui.send_while_busy takes: subset of {"queue", "steer"}
  MaxLoops,       \* bound: tasks ever spawned
  MaxToolRounds,  \* bound: requests, over all loops, that end with tool calls
  MaxCancels,     \* bound: calls to cancel_session and cancel
  MaxFailures     \* bound: failing compactions, store writes and provider turns

ASSUME BoundsAssumption ==
  /\ MaxLoops \in Nat
  /\ MaxToolRounds \in Nat
  /\ MaxCancels \in Nat
  /\ MaxFailures \in Nat
ASSUME DeliveriesAssumption == Deliveries \subseteq {"queue", "steer"}

Loops == 1 .. MaxLoops
None  == 0          \* an absent map entry; loops are numbered from 1

VARIABLES
  host,       \* where the holder of prompt_submission_lock is
  current,    \* the prompt it is submitting: {p}, or {} for continue_session
  loaded,     \* length of the store when start_agent_loop read it
  busy,       \* is the session in busy_sessions?
  token,      \* whose token is in active_loop_cancels
  signal,     \* whose flag is in steer_signals
  handle,     \* whose JoinHandle is in run_loop_handles
  pending,    \* pending_prompts
  store,      \* the session's user messages in SQLite
  buffer,     \* the same in the in-memory message buffer
  started,    \* number of loops claimed so far; the newest one's id
  loop,       \* where each spawned task is
  draining,   \* prompts a task took out of pending and has not stored yet
  filing,     \* stored by a task, not in its buffer yet: {} or {p}
  flag,       \* each loop's steer_signal AtomicBool
  cancelled,  \* loops whose CancellationToken fired
  canceller,  \* between the two halves of cancel_session / cancel
  accepted,   \* prompts whose submission returned a fresh receipt, in order
  dropped,    \* prompts a cancellation removed from pending
  asked,      \* prompts some started request contains
  toolRounds, cancels, failures   \* what has been used of the bounds

hostVars  == <<host, current, loaded>>
tableVars == <<busy, token, signal, handle>>
dataVars  == <<pending, store, buffer>>
taskVars  == <<started, loop, draining, filing, flag>>
histVars  == <<accepted, dropped, asked>>
bounds    == <<toolRounds, cancels, failures>>
vars == <<hostVars, tableVars, dataVars, taskVars, cancelled, canceller,
          histVars, bounds>>

HostStates == {"idle", "push_queue", "push_steer", "persist", "buffer", "load",
               "set_buffer", "claim", "claimed", "armed", "signalled", "spawned"}
LoopStates == {"unused", "outer", "top", "prepare", "append", "file", "request",
               "stream", "tools", "swap", "check", "drop_token", "drop_busy",
               "drop_signal", "gone"}

\* States of a task that SessionLoopGuard still keeps in busy_sessions.
Running == LoopStates \ {"unused", "drop_signal", "gone"}
Active  == {l \in Loops : loop[l] \in Running}

Go(l, state) == loop' = [loop EXCEPT ![l] = state]

Fail == failures < MaxFailures /\ failures' = failures + 1

Init ==
  /\ host = "idle" /\ current = {} /\ loaded = 0
  /\ busy = FALSE /\ token = None /\ signal = None /\ handle = None
  /\ pending = <<>> /\ store = <<>> /\ buffer = <<>>
  /\ started = 0
  /\ loop = [l \in Loops |-> "unused"]
  /\ draining = [l \in Loops |-> <<>>]
  /\ filing = [l \in Loops |-> {}]
  /\ flag = [l \in Loops |-> FALSE]
  /\ cancelled = {} /\ canceller = "no"
  /\ accepted = <<>> /\ dropped = {} /\ asked = {}
  /\ toolRounds = 0 /\ cancels = 0 /\ failures = 0

-----------------------------------------------------------------------------
(* The host: submit_prompt_submission, continue_session, start_agent_loop. *)

\* Frontends draw a fresh id for every prompt. (Submitting a known id again
\* changes nothing while find_existing_prompt_submission sees it, in the buffer
\* or in the queue; the README says when it does not.)
Fresh(p) == p \notin Range(accepted)

\* Bound: the host starts nothing it has no loop number left for.
MayStart == started < MaxLoops

\* The lock is taken, and delivery is decided from busy_sessions before
\* anything is changed.
Submit(p) ==
  /\ host = "idle" /\ Fresh(p)
  /\ current' = {p}
  /\ \/ busy /\ "queue" \in Deliveries /\ host' = "push_queue"
     \/ busy /\ "steer" \in Deliveries /\ host' = "push_steer"
     \/ ~busy /\ MayStart /\ host' = "persist"
  /\ UNCHANGED <<loaded, tableVars, dataVars, taskVars, cancelled, canceller,
                 histVars, bounds>>

\* VecDeque::push_back. (Mutant: push_front.)
Enqueue_Front(q, p) == <<p>> \o q
Enqueue(q, p) == Append(q, p)

\* push_pending_prompt, under the pending_prompts mutex.
PushPending(p) ==
  /\ host \in {"push_queue", "push_steer"} /\ current = {p}
  /\ pending' = Enqueue(pending, p)
  /\ flag' = IF host = "push_steer" /\ signal # None
             THEN [flag EXCEPT ![signal] = TRUE] ELSE flag
  /\ host' = "idle" /\ current' = {}
  /\ accepted' = Append(accepted, p)
  /\ UNCHANGED <<loaded, tableVars, store, buffer, started, loop, draining, filing,
                 cancelled, canceller, dropped, asked, bounds>>

\* persist_user_message, first half: the INSERT, which a known id violates.
PersistStore(p) ==
  /\ host = "persist" /\ current = {p}
  /\ \/ /\ p \notin Range(store)
        /\ store' = Append(store, p)
        /\ accepted' = Append(accepted, p)
        /\ host' = "buffer"
        /\ UNCHANGED <<current, failures>>
     \/ /\ Fail \/ (p \in Range(store) /\ UNCHANGED failures)
        /\ host' = "idle" /\ current' = {}
        /\ UNCHANGED <<store, accepted>>
  /\ UNCHANGED <<loaded, tableVars, pending, buffer, taskVars, cancelled, canceller,
                 dropped, asked, toolRounds, cancels>>

\* append_with_app_data. (Mutant: at the front.)
Shown_First(p) == <<p>> \o buffer
Shown(p) == Append(buffer, p)

\* Mutant of the next action: start_agent_loop is not called.
PersistBuffer_NoStart(p) ==
  /\ host = "buffer" /\ current = {p}
  /\ buffer' = Shown(p)
  /\ host' = "idle" /\ current' = {}
  /\ UNCHANGED <<loaded, tableVars, pending, store, taskVars, cancelled, canceller,
                 histVars, bounds>>

\* persist_user_message, second half: the append under the buffer's write lock.
PersistBuffer(p) ==
  /\ host = "buffer" /\ current = {p}
  /\ buffer' = Shown(p)
  /\ host' = "load" /\ current' = {}
  /\ UNCHANGED <<loaded, tableVars, pending, store, taskVars, cancelled, canceller,
                 histVars, bounds>>

\* continue_session: nothing to do while busy, else reload and start.
Continue ==
  /\ host = "idle" /\ ~busy /\ MayStart
  /\ buffer' = store
  /\ host' = "load"
  /\ UNCHANGED <<current, loaded, tableVars, pending, store, taskVars, cancelled,
                 canceller, histVars, bounds>>

\* start_agent_loop reads the store, or gives up, then awaits the buffer's lock to
\* replace it.
LoadStore ==
  /\ host = "load"
  /\ \/ loaded' = Len(store) /\ host' = "set_buffer" /\ UNCHANGED failures
     \/ Fail /\ host' = "idle" /\ UNCHANGED loaded
  /\ UNCHANGED <<current, tableVars, dataVars, taskVars, cancelled, canceller,
                 histVars, toolRounds, cancels>>

SetBuffer ==
  /\ host = "set_buffer"
  /\ buffer' = SubSeq(store, 1, loaded)
  /\ host' = "claim" /\ loaded' = 0
  /\ UNCHANGED <<current, tableVars, pending, store, taskVars, cancelled, canceller,
                 histVars, bounds>>

\* The check-and-claim under session_start_lock.
Claim ==
  /\ host = "claim"
  /\ \/ busy /\ host' = "idle" /\ UNCHANGED <<busy, started>>
     \/ /\ ~busy
        /\ busy' = TRUE
        /\ started' = started + 1
        /\ host' = "claimed"
  /\ UNCHANGED <<current, loaded, token, signal, handle, dataVars, loop, draining,
                 filing, flag, cancelled, canceller, histVars, bounds>>

InsertToken ==
  /\ host = "claimed"
  /\ token' = started
  /\ host' = "armed"
  /\ UNCHANGED <<current, loaded, busy, signal, handle, dataVars, taskVars,
                 cancelled, canceller, histVars, bounds>>

InsertSignal ==
  /\ host = "armed"
  /\ signal' = started
  /\ host' = "signalled"
  /\ UNCHANGED <<current, loaded, busy, token, handle, dataVars, taskVars,
                 cancelled, canceller, histVars, bounds>>

Spawn ==
  /\ host = "signalled"
  /\ Go(started, "outer")
  /\ host' = "spawned"
  /\ UNCHANGED <<current, loaded, tableVars, dataVars, started, draining, filing,
                 flag, cancelled, canceller, histVars, bounds>>

\* "Store handle, then mark session busy": the task already runs.
MarkBusy ==
  /\ host = "spawned"
  /\ handle' = started
  /\ busy' = TRUE
  /\ host' = "idle"
  /\ UNCHANGED <<current, loaded, token, signal, dataVars, taskVars, cancelled,
                 canceller, histVars, bounds>>

-----------------------------------------------------------------------------
(* Cancellation. Both entry points take one map after the other; between   *)
(* the halves another actor may run.                                       *)

\* The token fires and the session leaves busy_sessions.
CancelToken(kind) ==
  /\ canceller = "no" /\ cancels < MaxCancels
  /\ cancelled' = cancelled \cup ({token} \ {None})
  /\ token' = None
  /\ busy' = FALSE
  /\ canceller' = kind
  /\ cancels' = cancels + 1
  /\ UNCHANGED <<hostVars, signal, handle, dataVars, taskVars, histVars, toolRounds,
                 failures>>

\* Pending prompts are abandoned; only cancel_session clears the steering
\* signal; the task is left to wind down on its own.
CancelPending ==
  /\ canceller # "no"
  /\ dropped' = dropped \cup Range(pending)
  /\ pending' = <<>>
  /\ signal' = IF canceller = "session" THEN None ELSE signal
  /\ handle' = None
  /\ canceller' = "no"
  /\ UNCHANGED <<hostVars, busy, token, store, buffer, taskVars, cancelled, accepted,
                 asked, bounds>>

Cancellation == (\E kind \in {"session", "all"} : CancelToken(kind)) \/ CancelPending

-----------------------------------------------------------------------------
(* The spawned task: the outer loop, run_agent_loop inside it, the guard.  *)

\* "if cancel.is_cancelled() break": the outer loop's only exit besides Check.
Outer(l) ==
  /\ loop[l] = "outer"
  /\ Go(l, IF l \in cancelled THEN "drop_token" ELSE "top")
  /\ UNCHANGED <<hostVars, tableVars, dataVars, started, draining, filing, flag,
                 cancelled, canceller, histVars, bounds>>

\* Leaving run_agent_loop, with Ok or with an error the outer loop records.
Return(l) == Go(l, "check")

\* The head of each request iteration.
Top(l) ==
  /\ loop[l] = "top"
  /\ \/ l \in cancelled /\ Return(l)
     \/ l \notin cancelled /\ Go(l, "prepare")
  /\ UNCHANGED <<hostVars, tableVars, dataVars, started, draining, filing, flag,
                 cancelled, canceller, histVars, bounds>>

\* prepare_request: automatic compaction fails before anything is drained ...
PrepareFails(l) ==
  /\ loop[l] = "prepare" /\ Fail
  /\ Return(l)
  /\ UNCHANGED <<hostVars, tableVars, dataVars, started, draining, filing, flag,
                 cancelled, canceller, histVars, toolRounds, cancels>>

\* ... or materialize_pending_prompts takes the whole queue out of the map.
Drain(l) ==
  /\ loop[l] = "prepare"
  /\ draining' = [draining EXCEPT ![l] = pending]
  /\ pending' = <<>>
  /\ Go(l, IF pending = <<>> THEN "request" ELSE "append")
  /\ UNCHANGED <<hostVars, tableVars, store, buffer, started, filing, flag,
                 cancelled, canceller, histVars, bounds>>

\* One prompt of the queue is inserted into the store.
AppendStore(l) ==
  LET p == Head(draining[l]) IN
  /\ loop[l] = "append" /\ p \notin Range(store)
  /\ store' = Append(store, p)
  /\ draining' = [draining EXCEPT ![l] = Tail(@)]
  /\ filing' = [filing EXCEPT ![l] = {p}]
  /\ Go(l, "file")
  /\ UNCHANGED <<hostVars, tableVars, pending, buffer, started, flag,
                 cancelled, canceller, histVars, bounds>>

\* (Mutant of PutBack: the drained prompts behind the failing one are lost.)
PutBack_LosesRest(p, queue, rest) == <<p>> \o queue
PutBack(p, queue, rest) == <<p>> \o queue \o rest

\* The insert fails: the prompt goes back to the front of the queue, the rest
\* of the drained ones behind whatever was submitted meanwhile.
AppendFails(l) ==
  LET p == Head(draining[l]) IN
  /\ loop[l] = "append"
  /\ Fail \/ (p \in Range(store) /\ UNCHANGED failures)
  /\ pending' = PutBack(p, pending, Tail(draining[l]))
  /\ draining' = [draining EXCEPT ![l] = <<>>]
  /\ Return(l)
  /\ UNCHANGED <<hostVars, tableVars, store, buffer, started, filing, flag, cancelled,
                 canceller, histVars, toolRounds, cancels>>

\* ... and appended to the message buffer under its lock.
AppendBuffer(l) ==
  /\ loop[l] = "file"
  /\ \E p \in filing[l] : buffer' = Shown(p)
  /\ filing' = [filing EXCEPT ![l] = {}]
  /\ Go(l, IF draining[l] = <<>> THEN "request" ELSE "append")
  /\ UNCHANGED <<hostVars, tableVars, pending, store, started, draining, flag,
                 cancelled, canceller, histVars, bounds>>

\* load_messages: an empty context ends the turn with an error, else the
\* request holds the buffer as it is now.
Request(l) ==
  /\ loop[l] = "request"
  /\ \/ buffer = <<>> /\ Return(l) /\ UNCHANGED asked
     \/ /\ buffer # <<>>
        /\ asked' = asked \cup Range(buffer)
        /\ Go(l, "stream")
  /\ UNCHANGED <<hostVars, tableVars, dataVars, started, draining, filing, flag,
                 cancelled, canceller, accepted, dropped, bounds>>

\* stream_turn returns a turn with tool calls.
StreamTools(l) ==
  /\ loop[l] = "stream" /\ toolRounds < MaxToolRounds
  /\ toolRounds' = toolRounds + 1
  /\ Go(l, "tools")
  /\ UNCHANGED <<hostVars, tableVars, dataVars, started, draining, filing, flag,
                 cancelled, canceller, histVars, cancels, failures>>

\* stream_turn returns a turn without tool calls.
StreamAnswer(l) ==
  /\ loop[l] = "stream"
  /\ Go(l, "swap")
  /\ UNCHANGED <<hostVars, tableVars, dataVars, started, draining, filing, flag,
                 cancelled, canceller, histVars, bounds>>

\* stream_turn fails: cancelled, or a provider error.
StreamFails(l) ==
  /\ loop[l] = "stream"
  /\ Fail \/ (l \in cancelled /\ UNCHANGED failures)
  /\ Return(l)
  /\ UNCHANGED <<hostVars, tableVars, dataVars, started, draining, filing, flag,
                 cancelled, canceller, histVars, toolRounds, cancels>>

\* The tool results are saved; the turn goes on unless it is cancelled.
ToolsDone(l) ==
  /\ loop[l] = "tools"
  /\ \/ l \in cancelled /\ Return(l)
     \/ l \notin cancelled /\ Go(l, "top")
  /\ UNCHANGED <<hostVars, tableVars, dataVars, started, draining, filing, flag,
                 cancelled, canceller, histVars, bounds>>

\* steer_signal.swap(false). (Mutant: a load.)
Consumed_Load(l) == flag
Consumed(l) == [flag EXCEPT ![l] = FALSE]

\* The end of a turn: a steered prompt keeps run_agent_loop going.
Swap(l) ==
  /\ loop[l] = "swap"
  /\ flag' = Consumed(l)
 
  /\ Go(l, IF flag[l] THEN "top" ELSE "check")
  /\ UNCHANGED <<hostVars, tableVars, dataVars, started, draining, filing, cancelled,
                 canceller, histVars, bounds>>

\* Mutant of the next action: the guard lives as long as a turn, not the task.
Check_GuardPerTurn(l) ==
  /\ loop[l] = "check"
  /\ Go(l, IF pending = <<>> THEN "drop_token" ELSE "outer")
  /\ busy' = FALSE
  /\ UNCHANGED <<hostVars, token, signal, handle, dataVars, started, draining, filing,
                 flag, cancelled, canceller, histVars, bounds>>

\* has_pending_prompts: another turn, or the end of the task.
Check(l) ==
  /\ loop[l] = "check"
  /\ Go(l, IF pending = <<>> THEN "drop_token" ELSE "outer")
  /\ UNCHANGED <<hostVars, tableVars, dataVars, started, draining, filing, flag,
                 cancelled, canceller, histVars, bounds>>

\* SessionLoopGuard::drop, one mutex after the other: whatever the maps hold
\* for the session is removed, this task's entry or not.
DropToken(l) ==
  /\ loop[l] = "drop_token"
  /\ handle' = None /\ token' = None
  /\ Go(l, "drop_busy")
  /\ UNCHANGED <<hostVars, busy, signal, dataVars, started, draining, filing, flag,
                 cancelled, canceller, histVars, bounds>>

DropBusy(l) ==
  /\ loop[l] = "drop_busy"
  /\ busy' = FALSE
  /\ Go(l, "drop_signal")
  /\ UNCHANGED <<hostVars, token, signal, handle, dataVars, started, draining, filing,
                 flag, cancelled, canceller, histVars, bounds>>

DropSignal(l) ==
  /\ loop[l] = "drop_signal"
  /\ signal' = None
  /\ Go(l, "gone")
  /\ UNCHANGED <<hostVars, busy, token, handle, dataVars, started, draining, filing,
                 flag, cancelled, canceller, histVars, bounds>>

-----------------------------------------------------------------------------
HostStep ==
  \/ \E p \in Prompts : PushPending(p) \/ PersistStore(p) \/ PersistBuffer(p)
  \/ LoadStore \/ SetBuffer \/ Claim \/ InsertToken \/ InsertSignal \/ Spawn \/ MarkBusy

Task(l) ==
  \/ Outer(l) \/ Top(l) \/ PrepareFails(l) \/ Drain(l) \/ AppendStore(l)
  \/ AppendFails(l) \/ AppendBuffer(l) \/ Request(l) \/ StreamTools(l)
  \/ StreamAnswer(l) \/ StreamFails(l) \/ ToolsDone(l) \/ Swap(l) \/ Check(l)
  \/ DropToken(l) \/ DropBusy(l) \/ DropSignal(l)

Next ==
  \/ \E p \in Prompts : Submit(p)
  \/ Continue
  \/ HostStep
  \/ Cancellation
  \/ \E l \in Loops : Task(l)

\* Users may stop submitting and cancelling; what the Runtime has begun, its
\* tokio tasks and a provider that answers or fails carry on.
Fairness ==
  /\ WF_vars(HostStep)
  /\ WF_vars(CancelPending)
  /\ \A l \in Loops : WF_vars(Task(l))

Spec == Init /\ [][Next]_vars /\ Fairness

-----------------------------------------------------------------------------
(* Type correctness of the module's state. *)
TypeOK ==
  /\ host \in HostStates
  /\ current \in SUBSET Prompts
  /\ loaded \in Nat
  /\ busy \in BOOLEAN
  /\ token \in Loops \cup {None}
  /\ signal \in Loops \cup {None}
  /\ handle \in Loops \cup {None}
  /\ pending \in Seq(Prompts) /\ store \in Seq(Prompts) /\ buffer \in Seq(Prompts)
  /\ started \in 0 .. MaxLoops
  /\ loop \in [Loops -> LoopStates]
  /\ draining \in [Loops -> Seq(Prompts)]
  /\ filing \in [Loops -> SUBSET Prompts]
  /\ flag \in [Loops -> BOOLEAN]
  /\ cancelled \in SUBSET Loops
  /\ canceller \in {"no", "session", "all"}
  /\ accepted \in Seq(Prompts)
  /\ dropped \in SUBSET Prompts /\ asked \in SUBSET Prompts
  /\ toolRounds \in Nat /\ cancels \in Nat /\ failures \in Nat

(* Until somebody cancels, one task at most works on the session, and the  *)
(* session is busy as long as it does: the busy check of a submission and  *)
(* the claim under session_start_lock, with the guard's removals, exclude  *)
(* a second loop however the host, the task and its guard interleave.      *)
OneLoop ==
  cancels = 0 => /\ \A k, l \in Active : k = l
                 /\ Active # {} => busy

(* Until somebody cancels, the message buffer every request is built from  *)
(* holds exactly the stored messages in the stored order, except for the   *)
(* one its writer has inserted into the store and not yet appended:        *)
(* start_agent_loop replacing the buffer never races an append.            *)
InFlight(p) == (host = "buffer" /\ current = {p}) \/ \E l \in Loops : filing[l] = {p}

BufferFollowsStore ==
  cancels = 0 =>
    \/ buffer = store
    \/ \E p \in Prompts : InFlight(p) /\ store = Append(buffer, p)

(* As long as nothing fails, the prompts waiting in the queue, those a     *)
(* task has drained before those still pending, are in submission order:   *)
(* "persists all pending prompts in submission order" (runtime.rs:185).    *)
Before(p, q) == \E i, j \in DOMAIN accepted : i < j /\ accepted[i] = p /\ accepted[j] = q

SubmissionOrder ==
  failures = 0 =>
    \A l \in Loops : LET w == draining[l] \o pending IN
      \A i, j \in DOMAIN w : i < j => Before(w[i], w[j])

(* Through failed writes, re-queueing and cancellation, every accepted     *)
(* prompt is waiting, stored or abandoned by a cancellation, never two of  *)
(* these and never none: the abstract ledger.                              *)
Waiting == Range(pending) \cup UNION {Range(draining[l]) : l \in Loops}

Ledger == INSTANCE PromptLedger WITH waiting <- Waiting, log <- store
LedgerSpec == Ledger!Spec

(* Every spawned task ends, with prompts arriving while it works, failing  *)
(* turns and cancellation: the outer loop cannot spin for ever.            *)
EveryTaskEnds == \A l \in Loops : loop[l] = "outer" ~> loop[l] = "gone"

(* A prompt that reached the store becomes part of a request, unless a     *)
(* cancellation or a failure intervenes.                                   *)
StoredIsAsked ==
  \A p \in Prompts :
    p \in Range(store) ~> p \in asked \/ cancels > 0 \/ failures > 0
=============================================================================
