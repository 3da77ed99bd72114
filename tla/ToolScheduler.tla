---------------------------- MODULE ToolScheduler ----------------------------
(***************************************************************************)
(* execute_tool_calls (crates/tidev-agent/src/scheduler.rs): one batch of  *)
(* authorized tool calls. The read-only ones run as tasks of a JoinSet,    *)
(* which the scheduler joins while it watches the cancellation token; the  *)
(* others run one after the other. Frontends hear of a call's start and    *)
(* completion as they happen; what is returned is in call order.           *)
(*                                                                         *)
(* The tasks run on other threads of the executor: they are polled, finish *)
(* and are aborted between any two steps of the scheduler, and a task that *)
(* is in the middle of a poll when it is aborted may still finish.         *)
(***************************************************************************)
EXTENDS Naturals, Sequences, FiniteSets, Functions

CONSTANTS
  N,          \* the calls are 1 .. N, in the assistant's order
  ReadOnly,   \* those the executor calls read-only
  MaxPanics   \* bound: tasks that panic

ASSUME NAssumption == N \in Nat
ASSUME ReadOnlyAssumption == ReadOnly \subseteq 1 .. N
ASSUME PanicsAssumption == MaxPanics \in Nat

Calls  == 1 .. N
Writes == Calls \ ReadOnly

VARIABLES
  pc,        \* "start", "skip", "select", "drain", "write", "done"
  task,      \* each read-only call's task
  finished,  \* ended tasks the scheduler has not joined, in the order they ended
  pending,   \* indices the scheduler takes for unfinished
  told,      \* each call's completion_state
  started,   \* calls a ToolStarting was sent for
  completed, \* the calls ToolCompleted was sent for, in order
  result,    \* results[index]: "none", "real", "cancelled" or "failed"
  writing,   \* the write call that runs: {} or {c}
  fired,     \* the CancellationToken
  panics

vars == <<pc, task, finished, pending, told, started, completed, result, writing, fired,
          panics>>
TaskStates == {"none", "queued", "running", "ok", "err", "joined"}

Init ==
  /\ pc = "start"
  /\ task = [c \in Calls |-> "none"]
  /\ finished = <<>> /\ pending = {}
  /\ told = [c \in Calls |-> FALSE]
  /\ started = {} /\ completed = <<>>
  /\ result = [c \in Calls |-> "none"]
  /\ writing = {} /\ fired \in BOOLEAN /\ panics = 0

IsFirst(c, S) == c \in S /\ \A d \in S : c <= d
Open(S) == {c \in S : result[c] = "none"}

-----------------------------------------------------------------------------
(* The read-only calls. *)

\* A token that has already fired answers all of them, else they are spawned.
Start ==
  /\ pc = "start"
  /\ \/ /\ fired \/ ReadOnly = {}
        /\ pc' = "skip"
        /\ UNCHANGED <<task, pending, started>>
     \/ /\ ~fired /\ ReadOnly # {}
        /\ task' = [c \in Calls |-> IF c \in ReadOnly THEN "queued" ELSE "none"]
        /\ pending' = ReadOnly
        /\ started' = ReadOnly
        /\ pc' = "select"
  /\ UNCHANGED <<finished, told, completed, result, writing, fired, panics>>

Skip ==
  /\ pc = "skip"
  /\ \/ \E c \in Open(ReadOnly) :
          /\ IsFirst(c, Open(ReadOnly))
          /\ completed' = Append(completed, c)
          /\ result' = [result EXCEPT ![c] = "cancelled"]
          /\ UNCHANGED pc
     \/ /\ Open(ReadOnly) = {}
        /\ pc' = "write"
        /\ UNCHANGED <<completed, result>>
  /\ UNCHANGED <<task, finished, pending, told, started, writing, fired, panics>>

\* emit_completed_once.
TellOnce(c) ==
  /\ told' = [told EXCEPT ![c] = TRUE]
  /\ completed' = IF told[c] THEN completed ELSE Append(completed, c)

End(c, state) ==
  /\ task' = [task EXCEPT ![c] = state]
  /\ finished' = Append(finished, c)

\* The first poll creates the task's ToolCompletionGuard ...
Poll(c) ==
  /\ task[c] = "queued" /\ pc # "drain"
  /\ task' = [task EXCEPT ![c] = "running"]
  /\ UNCHANGED <<pc, finished, pending, told, started, completed, result, writing, fired,
                 panics>>

\* ... which the end of the tool, with a result or an error, disarms ...
Finish(c) ==
  /\ task[c] = "running"
  /\ End(c, "ok")
  /\ UNCHANGED <<pc, pending, told, started, completed, result, writing, fired, panics>>

\* ... and which reports the call when the task panics or is aborted.
Panic(c) ==
  /\ task[c] = "running" /\ panics < MaxPanics
  /\ panics' = panics + 1
  /\ End(c, "err") /\ TellOnce(c)
  /\ UNCHANGED <<pc, pending, started, result, writing, fired>>

\* (Mutant: a task that has been polled is not aborted.)
Abort_Queued(c) ==
  /\ pc = "drain" /\ task[c] = "queued"
  /\ End(c, "err")
  /\ UNCHANGED <<pc, told, completed, pending, started, result, writing, fired, panics>>

Abort(c) ==
  /\ pc = "drain" /\ task[c] \in {"queued", "running"}
  /\ End(c, "err")
  /\ IF task[c] = "running" THEN TellOnce(c) ELSE UNCHANGED <<told, completed>>
  /\ UNCHANGED <<pc, pending, started, result, writing, fired, panics>>

\* select!: the token has fired; abort_all.
SeeCancel ==
  /\ pc = "select" /\ fired
  /\ pc' = "drain"
  /\ UNCHANGED <<task, finished, pending, told, started, completed, result, writing,
                 fired, panics>>

Joined(c) == finished' = Tail(finished) /\ task' = [task EXCEPT ![c] = "joined"]

\* join_next returns a task's own index and result.
JoinOk ==
  LET c == Head(finished) IN
  /\ pc \in {"select", "drain"} /\ finished # <<>> /\ task[c] = "ok"
  /\ Joined(c)
  /\ pending' = pending \ {c}
  /\ completed' = Append(completed, c)
  /\ result' = [result EXCEPT ![c] = "real"]
  /\ UNCHANGED <<pc, told, started, writing, fired, panics>>

\* A join error names no index: the first pending one is taken to have failed.
\* (Mutant: it is only counted as joined.)
JoinErr_Skip ==
  LET c == Head(finished) IN
  /\ pc \in {"select", "drain"} /\ finished # <<>> /\ task[c] = "err"
  /\ Joined(c)
  /\ UNCHANGED <<pc, pending, told, started, completed, result, writing, fired, panics>>

JoinErr ==
  LET c == Head(finished) IN
  /\ pc \in {"select", "drain"} /\ finished # <<>> /\ task[c] = "err"
  /\ Joined(c)
  /\ \/ pending = {} /\ UNCHANGED <<pending, told, completed, result>>
     \/ \E i \in pending :
          /\ IsFirst(i, pending)
          /\ pending' = pending \ {i}
          /\ TellOnce(i)
          /\ result' = [result EXCEPT ![i] = IF pc = "drain" THEN "cancelled" ELSE "failed"]
  /\ UNCHANGED <<pc, started, writing, fired, panics>>

\* join_next returns None. (Mutant: try_join_next, which does not wait for a task.)
JoinNone_Try ==
  /\ pc \in {"select", "drain"}
  /\ finished = <<>>
  /\ pc' = "write"
  /\ UNCHANGED <<task, finished, pending, told, started, completed, result, writing,
                 fired, panics>>

JoinNone ==
  /\ pc \in {"select", "drain"}
  /\ \A c \in ReadOnly : task[c] = "joined"
  /\ pc' = "write"
  /\ UNCHANGED <<task, finished, pending, told, started, completed, result, writing,
                 fired, panics>>

-----------------------------------------------------------------------------
(* The other calls, in order, and the end of the batch.                    *)

Write ==
  /\ pc = "write" /\ writing = {}
  /\ \E c \in Open(Writes) :
       /\ IsFirst(c, Open(Writes))
       /\ \/ /\ fired
             /\ completed' = Append(completed, c)
             /\ result' = [result EXCEPT ![c] = "cancelled"]
             /\ UNCHANGED <<started, writing>>
          \/ /\ ~fired
             /\ started' = started \cup {c}
             /\ writing' = {c}
             /\ UNCHANGED <<completed, result>>
  /\ UNCHANGED <<pc, task, finished, pending, told, fired, panics>>

WriteEnds ==
  /\ \E c \in writing : /\ completed' = Append(completed, c)
                        /\ result' = [result EXCEPT ![c] = "real"]
  /\ writing' = {}
  /\ UNCHANGED <<pc, task, finished, pending, told, started, fired, panics>>

Return ==
  /\ pc = "write" /\ writing = {} /\ Open(Writes) = {}
  /\ pc' = "done"
  /\ UNCHANGED <<task, finished, pending, told, started, completed, result, writing,
                 fired, panics>>

Cancel ==
  /\ ~fired /\ pc # "done"
  /\ fired' = TRUE
  /\ UNCHANGED <<pc, task, finished, pending, told, started, completed, result, writing,
                 panics>>

Scheduler == Start \/ Skip \/ SeeCancel \/ JoinOk \/ JoinErr \/ JoinNone \/ Write \/ Return

Next ==
  \/ Scheduler \/ WriteEnds \/ Cancel
  \/ \E c \in ReadOnly : Poll(c) \/ Finish(c) \/ Panic(c) \/ Abort(c)

\* The executor aborts what it is told to abort, tools being asynchronous, and a
\* write call ends, having the token itself; a read-only tool may wait for ever.
Fairness ==
  /\ WF_vars(Scheduler) /\ WF_vars(WriteEnds)
  /\ \A c \in ReadOnly : WF_vars(Abort(c))

Spec == Init /\ [][Next]_vars /\ Fairness

-----------------------------------------------------------------------------
(* Type correctness. *)
TypeOK ==
  /\ pc \in {"start", "skip", "select", "drain", "write", "done"}
  /\ task \in [Calls -> TaskStates]
  /\ finished \in Seq(ReadOnly)
  /\ pending \in SUBSET ReadOnly
  /\ told \in [Calls -> BOOLEAN]
  /\ started \in SUBSET Calls
  /\ completed \in Seq(Calls)
  /\ result \in [Calls -> {"none", "real", "cancelled", "failed"}]
  /\ writing \in SUBSET Writes
  /\ fired \in BOOLEAN /\ panics \in Nat

(* A call that may change files runs alone: no read-only tool is still     *)
(* running, aborted or not, and the writes go in the assistant's order.    *)
WritesRunAlone ==
  /\ writing # {} => \A c \in ReadOnly : task[c] \in {"none", "joined"}
  /\ \A c, d \in Writes : c < d /\ d \in started => result[c] # "none"

Times(c) == Cardinality({i \in DOMAIN completed : completed[i] = c})

(* A join error is charged to the first unfinished call, which may be     *)
(* another one's. Still, as many calls at most are left without a result   *)
(* as were reported twice, and none is reported three times: cancellation  *)
(* and panics move answers between the calls, they do not lose count.      *)
MixupsAreCounted ==
  pc = "done" =>
    /\ \A c \in Calls : Times(c) <= 2
    /\ Cardinality({c \in Calls : result[c] = "none"}) <=
         Cardinality({c \in Calls : Times(c) = 2})

(* When the batch is returned its tasks are over: no event of it reaches a *)
(* frontend afterwards.                                                    *)
QuietAfterReturn == [][pc = "done" => UNCHANGED <<task, completed, started>>]_vars

(* Cancellation ends the batch even when a read-only tool never returns.   *)
CancelEndsBatch == fired ~> pc = "done"
=============================================================================
