----------------------------- MODULE AgentTurns -----------------------------
(***************************************************************************)
(* What one session's agent loop writes into the conversation:             *)
(* run_agent_loop (crates/tidev-agent/src/loop_.rs) over CoreContext       *)
(* (crates/tidev-core/src/agent_ctx.rs) with its StreamRecorder, which     *)
(* journals the assistant message while it streams, the approval of tool   *)
(* calls, and the messages saved around their execution.                   *)
(*                                                                         *)
(* The loop interleaves with frontends that submit and answer approvals,   *)
(* with cancellation, with failing writes, tools and providers, and with   *)
(* the death of the process, after which the next submission recovers the  *)
(* drafts the store still holds. SessionLoop shows when there is only one  *)
(* loop; here there is one by construction. Store and message buffer are   *)
(* written by the same steps and are one sequence here.                    *)
(***************************************************************************)
EXTENDS Naturals, Sequences, FiniteSets, Functions

CONSTANTS
  Shapes,       \* the kinds of the tool calls a turn may come with, in order
  MaxRounds,    \* bound: turns that come with tool calls
  MaxPrompts,   \* bound: prompts submitted, idle or busy
  MaxFailures,  \* bound: failing writes, requests and tool batches
  MaxCrashes    \* bound: deaths of the process

\* "plain" calls need no approval; "ask" calls go to a frontend; an error of a
\* "risky" one (Code Mode, a subagent) fails the whole batch.
Kinds == {"plain", "ask", "risky"}

ASSUME ShapesAssumption == Shapes \subseteq Seq(Kinds)
ASSUME BoundsAssumption ==
  MaxRounds \in Nat /\ MaxPrompts \in Nat /\ MaxFailures \in Nat /\ MaxCrashes \in Nat

VARIABLES
  pc,        \* where the loop is; "off" when the session has no task
  store,     \* the session's messages in conversation order
  active,    \* StreamRecorder.active: {} or {[at, done]}, at an index of store
  calls,     \* the tool calls of the turn
  approved,  \* those the scheduler will run
  results,   \* (call, result) pairs in the order execute_tools collects them
  asking,    \* calls an approval request is open for
  fired,     \* has the loop's CancellationToken fired?
  pending,   \* prompts submitted while busy
  steered,   \* the loop's steer_signal
  retried,   \* was the loop started by retry_session?
  sent,      \* the messages of the latest request
  lapsed,    \* history: calls that a cancellation left without a result
  rounds, prompts, failures, crashes   \* what has been used of the bounds

loopVars == <<pc, active, calls, approved, results, asking>>
histVars == <<sent, lapsed>>
bounds   == <<rounds, prompts, failures, crashes>>
waitVars == <<fired, pending, steered, retried>>
vars     == <<loopVars, store, waitVars, histVars, bounds>>

\* A message: "live" while it streams, "cut" when that was interrupted; both
\* keep the protocol's streaming flag. `call` is what a tool result answers.
User         == [role |-> "user", state |-> "final", text |-> TRUE, calls |-> <<>>, call |-> {}]
Notice       == [User EXCEPT !.role = "error"]
Failure      == [User EXCEPT !.role = "failure"]
Draft        == [User EXCEPT !.role = "assistant", !.state = "live", !.text = FALSE]
Answer(cs)   == [User EXCEPT !.role = "assistant", !.calls = cs]
Result(c)    == [User EXCEPT !.role = "tool", !.call = {c}]

Roles == {"user", "assistant", "tool", "error", "failure"}
\* the id of a call is the turn that came with it and its place there
Call    == [turn : Nat, at : Nat, kind : Kinds]
Message == [role : Roles, state : {"final", "live", "cut"}, text : BOOLEAN,
            calls : Seq(Call), call : SUBSET Call]

Live  == {i \in DOMAIN store : store[i].state = "live"}

\* what of a sequence is in S, in its order
Of(s, S) ==
  LET Taken[n \in 0 .. Len(s)] ==
        IF n = 0 THEN <<>>
        ELSE IF s[n] \in S THEN Append(Taken[n - 1], s[n]) ELSE Taken[n - 1]
  IN  Taken[Len(s)]

\* build_request_messages_raw: streaming messages and notices stay out.
Requestable == {m \in Message : m.state = "final" /\ m.role \notin {"error", "failure"}}
View == Of(store, Requestable)

\* recover_interrupted_streams.
Recovered(s) == [i \in DOMAIN s |->
                   IF s[i].state = "live" THEN [s[i] EXCEPT !.state = "cut"] ELSE s[i]]

Fail == failures < MaxFailures /\ failures' = failures + 1

Init ==
  /\ pc = "off" /\ store = <<>> /\ active = {} /\ calls = <<>>
  /\ approved = {} /\ results = <<>> /\ asking = {}
  /\ fired = FALSE /\ pending = 0 /\ steered = FALSE /\ retried = FALSE
  /\ sent = <<>> /\ lapsed = {}
  /\ rounds = 0 /\ prompts = 0 /\ failures = 0 /\ crashes = 0

-----------------------------------------------------------------------------
(* Prompts: a submission starts a loop with a new CoreContext, or waits.   *)

Submit ==
  /\ pc = "off" /\ prompts < MaxPrompts
  /\ store' = Append(Recovered(store), User)
  /\ pc' = "top" /\ active' = {} /\ fired' = FALSE
  /\ steered' = FALSE /\ retried' = FALSE
  /\ prompts' = prompts + 1
  /\ UNCHANGED <<calls, approved, results, asking, pending, histVars, rounds, failures,
                 crashes>>

\* retry_session takes the retryable provider failures of the latest prompt out
\* of the conversation and continues it in a new CoreContext.
Retry ==
  /\ pc = "off"
  /\ \E u \in DOMAIN store :
       LET turn == SubSeq(store, u + 1, Len(store))
           rest == Of(turn, {m \in Message : m.role # "failure"})
       IN /\ store[u].role = "user"
          /\ \A i \in DOMAIN turn : turn[i].role # "user"
          /\ rest # turn
          /\ store' = SubSeq(store, 1, u) \o rest
  /\ pc' = "top" /\ active' = {} /\ fired' = FALSE
  /\ steered' = FALSE /\ retried' = TRUE
  /\ UNCHANGED <<calls, approved, results, asking, pending, histVars, bounds>>

\* Queued, or steered: push_pending_prompt then sets the loop's signal.
SubmitBusy ==
  /\ pc # "off" /\ ~fired /\ prompts < MaxPrompts
  /\ pending' = pending + 1
  /\ steered' \in {steered, TRUE}
  /\ prompts' = prompts + 1
  /\ UNCHANGED <<loopVars, store, fired, retried, histVars, rounds, failures, crashes>>

\* run_agent_loop returns, Ok or Err: the session's outer loop runs it again, in
\* the same CoreContext, for a waiting prompt.
LeaveWith(waiting) ==
  /\ pc' = IF waiting > 0 /\ ~fired THEN "top" ELSE "off"
  /\ calls' = <<>> /\ approved' = {} /\ results' = <<>> /\ asking' = {}
Leave == LeaveWith(pending)

Go(state) == pc' = state /\ UNCHANGED <<calls, approved, results, asking>>

\* The head of the request loop.
Top ==
  /\ pc = "top"
  /\ IF fired THEN Leave ELSE Go("prepare")
  /\ UNCHANGED <<store, active, waitVars, histVars, bounds>>

\* prepare_request stores the waiting prompts one by one, and load_messages reads
\* them back; an error of either ends the run.
Prepare ==
  /\ pc = "prepare"
  /\ \E n \in 0 .. pending :
       /\ store' = store \o [i \in 1 .. n |-> User]
       /\ pending' = pending - n
       /\ \/ n = pending /\ Go("start") /\ UNCHANGED failures
          \/ Fail /\ LeaveWith(pending - n)
  /\ UNCHANGED <<active, fired, steered, retried, histVars, rounds, prompts, crashes>>

\* TurnStarting: the recorder refuses a second draft, else it appends one. The
\* request then goes out with what load_messages saw. (Mutant: no refusal.)
Start_Again ==
  /\ pc = "start"
  /\ \/ /\ store' = Append(store, Draft)
        /\ active' = {[at |-> Len(store) + 1, done |-> FALSE]}
        /\ sent' = View
        /\ Go("stream")
        /\ UNCHANGED failures
     \/ Fail /\ Leave /\ UNCHANGED <<store, active, sent>>
  /\ UNCHANGED <<waitVars, lapsed, rounds, prompts, crashes>>

Start ==
  /\ pc = "start"
  /\ \/ /\ active = {}
        /\ store' = Append(store, Draft)
        /\ active' = {[at |-> Len(store) + 1, done |-> FALSE]}
        /\ sent' = View
        /\ Go("stream")
        /\ UNCHANGED failures
     \/ /\ Fail \/ (active # {} /\ UNCHANGED failures)
        /\ Leave
        /\ UNCHANGED <<store, active, sent>>
  /\ UNCHANGED <<waitVars, lapsed, rounds, prompts, crashes>>

\* Delta, ReasoningDelta, ToolCallUpdated: persist_draft. (UsageStats alone does not
\* make a draft worth keeping.)
Delta ==
  /\ pc = "stream"
  /\ \E d \in active : /\ ~store[d.at].text
                       /\ store' = [store EXCEPT ![d.at].text = TRUE]
  /\ UNCHANGED <<loopVars, waitVars, histVars, bounds>>

\* The provider's turn is complete ...
StreamDone ==
  /\ pc = "stream"
  /\ \E shape \in Shapes :
       /\ shape # <<>> => rounds < MaxRounds
       /\ calls' = [i \in DOMAIN shape |-> [turn |-> rounds + 1, at |-> i, kind |-> shape[i]]]
       /\ rounds' = IF shape = <<>> THEN rounds ELSE rounds + 1
  /\ pc' = "save"
  /\ UNCHANGED <<active, approved, results, asking, store, waitVars, histVars,
                 prompts, failures, crashes>>

\* ... or it fails, or a draft write does, and persist_provider_error tries to say
\* so behind the draft, retryable or not; or the select sees the cancellation.
StreamFails ==
  /\ pc = "stream"
  /\ \/ ~fired /\ Fail /\ store' \in {Append(store, Failure), Append(store, Notice), store}
     \/ fired /\ UNCHANGED <<store, failures>>
  /\ Go("abort")
  /\ UNCHANGED <<active, waitVars, histVars, rounds, prompts, crashes>>

\* finalize_interrupted_stream keeps what was streamed, drops an empty draft,
\* and says so. (Mutant: keeps nothing.)
Finalized_Discard(s, i) == SubSeq(s, 1, i - 1) \o SubSeq(s, i + 1, Len(s)) \o <<Notice>>
Finalized(s, i) ==
  IF s[i].text
  THEN Append([s EXCEPT ![i].state = "cut"], Notice)
  ELSE SubSeq(s, 1, i - 1) \o SubSeq(s, i + 1, Len(s)) \o <<Notice>>

\* StreamEnd Cancelled or Failed of an unfinished draft. When its own write
\* fails the draft stays active.
Abort ==
  /\ pc = "abort"
  /\ \/ /\ \E d \in active :
             store' = IF fired THEN Finalized(store, d.at)
                      ELSE [store EXCEPT ![d.at].state = "cut"]
        /\ active' = {}
        /\ UNCHANGED failures
     \/ Fail /\ UNCHANGED <<store, active>>
  /\ Leave
  /\ UNCHANGED <<waitVars, histVars, rounds, prompts, crashes>>

-----------------------------------------------------------------------------
(* A finished turn: its message, its tool calls, its end.                  *)

\* save_messages of the assistant: complete_assistant puts the final message in
\* the draft's place.
SaveAssistant ==
  /\ pc = "save"
  /\ \/ /\ \E d \in active :
             /\ store' = [store EXCEPT ![d.at] = Answer(calls)]
             /\ active' = {[d EXCEPT !.done = TRUE]}
        /\ Go(IF calls = <<>> THEN "end" ELSE "approve")
        /\ UNCHANGED failures
     \/ Fail /\ Leave /\ UNCHANGED <<store, active>>
  /\ UNCHANGED <<waitVars, histVars, rounds, prompts, crashes>>

\* request_tool_approval: calls within bounds are approved at once; the others
\* open a request at the broker.
Approve ==
  /\ pc = "approve"
  /\ approved' = {c \in Range(calls) : c.kind # "ask"}
  /\ asking' = Range(calls) \ approved'
  /\ pc' = IF asking' = {} THEN "execute" ELSE "asking"
  /\ UNCHANGED <<active, calls, results, store, waitVars, histVars, bounds>>

\* The first frontend to answer approves some and rejects the others, whose
\* results come first.
Respond ==
  /\ pc = "asking"
  /\ \E yes \in SUBSET asking :
       /\ approved' = approved \cup yes
       /\ results' = Of(calls, asking \ yes)
  /\ asking' = {} /\ pc' = "execute"
  /\ UNCHANGED <<active, calls, store, waitVars, histVars, bounds>>

\* Mutant of the next action: the broker does not watch the token.
ApprovalCancelled_Never == FALSE /\ UNCHANGED vars

\* Cancellation closes the request; `Err(_) => Vec::new()` forgets its calls.
ApprovalCancelled ==
  /\ pc = "asking" /\ fired
  /\ lapsed' = lapsed \cup asking
  /\ asking' = {} /\ pc' = "execute"
  /\ UNCHANGED <<active, calls, approved, results, store, waitVars, sent, bounds>>

\* order_tool_results. (Mutant: completion order.)
OrderToolResults_AsRun(cs, rs) == rs
OrderToolResults(cs, rs) == Of(cs, Range(rs))

\* Mutant of the next action: the guard that stores results for aborted subagents
\* is not disarmed.
Execute_Armed ==
  /\ pc = "execute"
  /\ LET Risky == {c \in approved : c.kind = "risky"} IN
     /\ results' = OrderToolResults(calls,
                     results \o Of(calls, approved \ Risky) \o Of(calls, Risky))
     /\ store' = store \o [i \in DOMAIN Of(calls, Risky) |-> Result(Of(calls, Risky)[i])]
     /\ pc' = "results"
  /\ UNCHANGED <<calls, approved, asking, active, waitVars, histVars, bounds>>

\* What a batch may leave without a result: the join error of an aborted or a
\* panicking task is charged to the first pending call, whose own result replaces
\* it (ToolScheduler). One of the ordinary calls has a result, and one of the
\* others. (Code Mode calls run alone; they are lost here as subagents are.)
Missable(group) == {lost \in SUBSET group : group # {} => lost # group}

\* execute_tools after approval: ordinary calls, then Code Mode, then subagents;
\* the results are put in call order. An error of the batch discards every result.
Execute ==
  /\ pc = "execute"
  /\ \/ LET Risky == {c \in approved : c.kind = "risky"} IN
        \E lost \in Missable(approved \ Risky), gone \in Missable(Risky) :
          /\ \/ (lost \cup gone = {} \/ fired) /\ UNCHANGED failures
             \/ lost \cup gone # {} /\ Fail
          /\ results' = OrderToolResults(calls,
                          results \o Of(calls, approved \ (Risky \cup lost)) \o Of(calls, Risky \ gone))
          /\ lapsed' = lapsed \cup lost \cup gone
          /\ pc' = "results"
          /\ UNCHANGED <<calls, approved, asking>>
     \/ Fail /\ Leave /\ UNCHANGED lapsed
  /\ UNCHANGED <<active, store, waitVars, sent, rounds, prompts, crashes>>

\* save_messages of the results: one transaction.
SaveResults ==
  /\ pc = "results"
  /\ \/ /\ store' = store \o [i \in DOMAIN results |-> Result(results[i])]
        /\ Go("end")
        /\ UNCHANGED failures
     \/ Fail /\ Leave /\ UNCHANGED store
  /\ UNCHANGED <<active, waitVars, histVars, rounds, prompts, crashes>>

\* StreamEnd of a finished turn. Without tool calls the request loop goes on if a
\* prompt was steered, with them unless the token has fired; then it records the
\* interruption.
GoesOn == pc' = "top" /\ calls' = <<>> /\ approved' = {} /\ results' = <<>> /\ asking' = {}

EndTurn ==
  /\ pc = "end"
  /\ steered' = (steered /\ calls # <<>>)
  /\ \/ /\ ~(fired /\ calls # <<>>)
        /\ active' = {}
        /\ IF calls # <<>> \/ steered THEN GoesOn ELSE Leave
        /\ UNCHANGED <<store, failures>>
     \/ /\ fired /\ calls # <<>>
        /\ \/ store' = Append(store, Notice) /\ active' = {} /\ UNCHANGED failures
           \/ Fail /\ UNCHANGED <<store, active>>
        /\ Leave
  /\ UNCHANGED <<fired, pending, retried, histVars, rounds, prompts, crashes>>

-----------------------------------------------------------------------------
\* cancel_session: the token, then the waiting prompts (SessionLoop splits it).
Cancel ==
  /\ pc # "off" /\ ~fired
  /\ fired' = TRUE /\ pending' = 0
  /\ UNCHANGED <<loopVars, store, steered, retried, histVars, bounds>>

\* The process dies; only the store is left.
Crash ==
  /\ pc # "off" /\ crashes < MaxCrashes
  /\ crashes' = crashes + 1
  /\ pc' = "off" /\ active' = {} /\ calls' = <<>> /\ approved' = {} /\ results' = <<>>
  /\ asking' = {} /\ fired' = FALSE /\ pending' = 0 /\ steered' = FALSE /\ retried' = FALSE
  /\ UNCHANGED <<store, histVars, rounds, prompts, failures>>

LoopStep ==
  \/ Top \/ Prepare \/ Start \/ StreamDone \/ StreamFails \/ Abort \/ SaveAssistant
  \/ Approve \/ ApprovalCancelled \/ Execute \/ SaveResults \/ EndTurn

Next == Submit \/ Retry \/ SubmitBusy \/ Delta \/ Respond \/ Cancel \/ Crash \/ LoopStep

\* The task runs, a provider answers or fails. Nobody need answer an approval.
Fairness == WF_vars(LoopStep)

Spec == Init /\ [][Next]_vars /\ Fairness

-----------------------------------------------------------------------------
(* Type correctness. *)
TypeOK ==
  /\ pc \in {"off", "top", "prepare", "start", "stream", "abort", "save", "approve",
             "asking", "execute", "results", "end"}
  /\ store \in Seq(Message) /\ sent \in Seq(Message)
  /\ active \in SUBSET [at : DOMAIN store, done : BOOLEAN]
  /\ calls \in Seq(Call) /\ results \in Seq(Call)
  /\ approved \in SUBSET Call /\ asking \in SUBSET Call /\ lapsed \in SUBSET Call
  /\ fired \in BOOLEAN /\ steered \in BOOLEAN /\ retried \in BOOLEAN
  /\ pending \in Nat /\ rounds \in Nat /\ prompts \in Nat
  /\ failures \in Nat /\ crashes \in Nat

(* While a request streams, its draft is the newest message that can still *)
(* change, and unless retry_session started the loop it is the only one:   *)
(* whatever failed writes, a second run in the same context or a crash     *)
(* left behind has been refused or recovered first.                        *)
OneLiveDraft ==
  pc = "stream" => \E d \in active : /\ d.at \in Live /\ d.at = Len(store) /\ ~d.done
                                    /\ ~retried => Live = {d.at}

(* Every tool call in a request is answered right behind its message, in   *)
(* the order the assistant made the calls - except for the calls whose     *)
(* approval request was cancelled, those a cancelled batch lost, and what  *)
(* failures (a panicking tool is one) and crashes leave unanswered.        *)
AnswersOf(s, i) ==
  LET cs == s[i].calls
      n  == Cardinality({k \in DOMAIN cs : cs[k] \notin lapsed}) IN
  /\ i + n <= Len(s)
  /\ [k \in 1 .. n |-> s[i + k].call] =
     [k \in 1 .. n |-> {Of(cs, Range(cs) \ lapsed)[k]}]

CallsAnswered ==
  failures = 0 /\ crashes = 0 =>
    \A i \in DOMAIN sent : sent[i].calls # <<>> => AnswersOf(sent, i)

(* No result is ever stored twice, nor without the call it answers before  *)
(* it, failures and crashes included.                                      *)
ResultsHaveCalls ==
  \A j \in DOMAIN store : store[j].role = "tool" =>
    /\ \E i \in 1 .. j - 1 : /\ store[i].state = "final"
                             /\ store[j].call \subseteq Range(store[i].calls)
    /\ \A k \in DOMAIN store : store[k].call = store[j].call => k = j

(* What was streamed or saved stays, in its place: a step drops an empty   *)
(* draft or a failure to be retried at most, and changes no final message  *)
(* ("already streamed content is kept", D-008-cancellation.md:209).        *)
Lasting == {m \in Message : m.text /\ m.role # "failure"}
History(s) == Of(s, Lasting)

Kept(m, n) == n.role = m.role /\ (m.state = "final" => n = m)
              /\ (m.state = "cut" => n.state = "cut")

Continues(before, after) ==
  \A i \in DOMAIN before : i \in DOMAIN after /\ Kept(before[i], after[i])

HistoryIsKept == [][Continues(History(store), History(store'))]_vars

(* A cancelled loop ends although nobody answers its approval request.     *)
CancelEndsTask == fired ~> pc = "off"
=============================================================================
