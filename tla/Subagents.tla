----------------------------- MODULE Subagents -----------------------------
(***************************************************************************)
(* The task calls of one batch: execute_subagent_calls                     *)
(* (crates/tidev-agent/src/subagent.rs) over the executor of the core      *)
(* (execute_task_tool, crates/tidev-core/src/agent_ctx.rs), which creates  *)
(* a child session, links the parent's message to it and runs its loop.    *)
(*                                                                         *)
(* The tasks run on other threads.  The first poll of one goes as far as   *)
(* the seeded child session without a point where it can be aborted.       *)
(***************************************************************************)
EXTENDS Naturals, Sequences, FiniteSets

CONSTANTS
  N,         \* the task calls are 1 .. N
  Refused,   \* those whose arguments, type or mode are refused, or whose child cannot be made
  MaxPanics  \* bound

ASSUME CallsAreRefused == N \in Nat /\ Refused \subseteq 1 .. N /\ MaxPanics \in Nat

Calls == 1 .. N
Nobody == 0

VARIABLES
  pc,         \* "start", "select", "drain", "returned", "failed"
  enabled,    \* the configuration lets subagents run
  fired,      \* the parent's token, and with it the children's
  task,       \* each call's task
  ended,      \* ended tasks that are not joined, in the order they ended
  pending,    \* indices taken for unfinished
  told,       \* completion_states
  events,     \* ToolCompleted as sent: [call, how]
  result,     \* results[index]
  children,   \* calls whose child session exists ...
  seeded,     \* ... with the prompt in it
  bufferLink, \* child_session_id of the parent's message: in the buffer ...
  storeLink,  \* ... and in the store
  crossed,    \* history: two calls linked the message at the same time
  unsaved,    \* history: the store refused the last link, and nobody was told
  mixups,     \* history: join errors charged to another call
  panics

batch == <<pc, enabled, fired, pending, result, mixups>>
links == <<children, seeded, bufferLink, storeLink, crossed, unsaved>>
vars == <<batch, task, ended, told, events, links, panics>>

Alive == {"queued", "seeded", "linking", "running"}
Aborting == pc \in {"drain", "failed"}

Init ==
  /\ pc = "start" /\ enabled \in BOOLEAN /\ fired \in BOOLEAN
  /\ task = [c \in Calls |-> "none"] /\ ended = <<>> /\ pending = {}
  /\ told = [c \in Calls |-> FALSE] /\ events = <<>>
  /\ result = [c \in Calls |-> "none"]
  /\ children = {} /\ seeded = {} /\ bufferLink = Nobody /\ storeLink = Nobody
  /\ crossed = FALSE /\ unsaved = FALSE /\ mixups = 0 /\ panics = 0

\* emit_completed_once (mutant: told is read and not set)
TellAgain(c, how) ==
  /\ events' = IF told[c] THEN events ELSE Append(events, [call |-> c, how |-> how])
  /\ UNCHANGED told

Tell(c, how) ==
  /\ told' = [told EXCEPT ![c] = TRUE]
  /\ events' = IF told[c] THEN events ELSE Append(events, [call |-> c, how |-> how])

End(c, how) ==
  /\ task' = [task EXCEPT ![c] = how]
  /\ ended' = Append(ended, c)

-----------------------------------------------------------------------------
(* The scheduler *)

\* disabled, or cancelled before the start: all are answered at once
AnswerAll ==
  /\ pc = "start" /\ (~enabled \/ fired)
  /\ LET how == IF enabled THEN "cancelled" ELSE "disabled"
     IN  /\ events' = [i \in Calls |-> [call |-> i, how |-> how]]
         /\ result' = [c \in Calls |-> how]
  /\ pc' = "returned"
  /\ UNCHANGED <<enabled, fired, pending, mixups, task, ended, told, links, panics>>

Spawn ==
  /\ pc = "start" /\ enabled /\ ~fired
  /\ task' = [c \in Calls |-> "queued"] /\ pending' = Calls
  /\ pc' = "select"
  /\ UNCHANGED <<enabled, fired, result, mixups, ended, told, events, links, panics>>

SeeCancel ==
  /\ pc = "select" /\ fired
  /\ pc' = "drain"
  /\ UNCHANGED <<enabled, fired, pending, result, mixups, task, ended, told, events, links, panics>>

First == Head(ended)
Joins(how) == ended # <<>> /\ task[First] = how
Join == task' = [task EXCEPT ![First] = "joined"] /\ ended' = Tail(ended)

Answer(c, how) == Tell(c, how) /\ result' = [result EXCEPT ![c] = how]

\* a child that ended; its answer counts unless the token has fired
JoinOk ==
  /\ pc \in {"select", "drain"} /\ Joins("ok") /\ Join
  /\ pending' = pending \ {First}
  /\ Answer(First, IF pc = "drain" \/ fired THEN "cancelled" ELSE "real")
  /\ UNCHANGED <<pc, enabled, fired, mixups, links, panics>>

\* the first refused call or join error ends the batch with an error
JoinFails ==
  /\ pc = "select" /\ (Joins("refused") \/ Joins("gone")) /\ Join
  /\ pc' = "failed"
  /\ UNCHANGED <<enabled, fired, pending, result, mixups, told, events, links, panics>>

\* while it drains, a refused call is cancelled like the others
DrainRefused ==
  /\ pc = "drain" /\ Joins("refused") /\ Join
  /\ pending' = pending \ {First}
  /\ Answer(First, "cancelled")
  /\ UNCHANGED <<pc, enabled, fired, mixups, links, panics>>

\* a join error names no call: the first pending one is taken
DrainGone ==
  /\ pc = "drain" /\ Joins("gone") /\ Join
  /\ \/ pending = {} /\ UNCHANGED <<pending, told, events, result, mixups>>
     \/ \E c \in pending :
          /\ \A d \in pending : c <= d
          /\ pending' = pending \ {c}
          /\ Answer(c, "cancelled")
          /\ mixups' = IF c = First THEN mixups ELSE mixups + 1
  /\ UNCHANGED <<pc, enabled, fired, links, panics>>

JoinNone ==
  /\ pc \in {"select", "drain"} /\ \A c \in Calls : task[c] = "joined"
  /\ pc' = "returned"
  /\ UNCHANGED <<enabled, fired, pending, result, mixups, task, ended, told, events, links, panics>>

Cancel ==
  /\ ~fired /\ fired' = TRUE
  /\ UNCHANGED <<pc, enabled, pending, result, mixups, task, ended, told, events, links, panics>>

-----------------------------------------------------------------------------
(* A call's task; its guard exists from the first poll on and reports the  *)
(* call when the task is aborted or panics.                                *)

\* the arguments are checked, the child session is created and seeded
Poll(c) ==
  /\ task[c] = "queued" /\ ~Aborting
  /\ \/ /\ c \notin Refused
        /\ task' = [task EXCEPT ![c] = "seeded"]
        /\ children' = children \union {c} /\ seeded' = seeded \union {c}
        /\ UNCHANGED ended
     \/ /\ c \in Refused
        /\ children' \in {children, children \union {c}}
        /\ End(c, "refused") /\ UNCHANGED seeded
  /\ UNCHANGED <<batch, told, events, bufferLink, storeLink, crossed, unsaved, panics>>

\* the parent's message: first in the buffer, then in the store, as the last
\* call to come leaves it; what the store says to the write is dropped
\* (mutant: the store has the first)
LinkBuffer(c) ==
  /\ task[c] = "seeded"
  /\ task' = [task EXCEPT ![c] = "linking"]
  /\ bufferLink' = c
  /\ crossed' = (crossed \/ \E d \in Calls : task[d] = "linking")
  /\ UNCHANGED <<batch, ended, told, events, children, seeded, storeLink, unsaved, panics>>

LinkStoreOnce(c) ==
  /\ task[c] = "linking"
  /\ task' = [task EXCEPT ![c] = "running"]
  /\ \/ storeLink' = (IF storeLink = Nobody THEN c ELSE storeLink) /\ unsaved' = FALSE
     \/ unsaved' = TRUE /\ UNCHANGED storeLink
  /\ UNCHANGED <<batch, ended, told, events, children, seeded, bufferLink, crossed, panics>>

LinkStore(c) ==
  /\ task[c] = "linking"
  /\ task' = [task EXCEPT ![c] = "running"]
  /\ \/ storeLink' = c /\ unsaved' = FALSE
     \/ unsaved' = TRUE /\ UNCHANGED storeLink
  /\ UNCHANGED <<batch, ended, told, events, children, seeded, bufferLink, crossed, panics>>

\* the child's loop ends, with its last message or its failure as the answer
Finish(c) ==
  /\ task[c] = "running" /\ End(c, "ok")
  /\ UNCHANGED <<batch, told, events, links, panics>>

Panic(c) ==
  /\ task[c] \in {"seeded", "running"} /\ panics < MaxPanics
  /\ panics' = panics + 1
  /\ End(c, "gone") /\ Tell(c, "cancelled")
  /\ UNCHANGED <<batch, links>>

\* a task never polled has no guard
Abort(c) ==
  /\ Aborting /\ task[c] \in Alive \ {"linking"}
  /\ End(c, "gone")
  /\ IF task[c] = "queued" THEN UNCHANGED <<told, events>> ELSE Tell(c, "cancelled")
  /\ UNCHANGED <<batch, links, panics>>

-----------------------------------------------------------------------------
Scheduler == AnswerAll \/ Spawn \/ SeeCancel \/ JoinOk \/ JoinFails \/ DrainRefused \/ DrainGone \/ JoinNone

Next ==
  \/ Scheduler \/ Cancel
  \/ \E c \in Calls : Poll(c) \/ LinkBuffer(c) \/ LinkStore(c) \/ Finish(c) \/ Panic(c) \/ Abort(c)

Spec == Init /\ [][Next]_vars

-----------------------------------------------------------------------------
\* Type invariant of a batch.
TypeOK ==
  /\ pc \in {"start", "select", "drain", "returned", "failed"}
  /\ {enabled, fired, crossed, unsaved} \subseteq BOOLEAN
  /\ task \in [Calls -> Alive \union {"none", "ok", "refused", "gone", "joined"}]
  /\ ended \in Seq(Calls) /\ pending \subseteq Calls
  /\ told \in [Calls -> BOOLEAN]
  /\ events \in Seq([call : Calls, how : {"real", "cancelled", "disabled"}])
  /\ result \in [Calls -> {"none", "real", "cancelled", "disabled"}]
  /\ children \subseteq Calls /\ seeded \subseteq Calls
  /\ {bufferLink, storeLink} \subseteq Calls \union {Nobody}
  /\ mixups \in Nat /\ panics \in Nat

Told(c) == {i \in DOMAIN events : events[i].call = c}

\* No call is reported twice, and what is returned for a call is what was
\* reported.  A batch that returns leaves no child running, and every call has
\* been reported and answered, but for one per join error charged to another
\* call.  A batch that fails promises nothing: its answers are dropped.
ToldAsAnswered ==
  /\ \A c \in Calls : Cardinality(Told(c)) <= 1
  /\ \A c \in Calls : result[c] # "none" => \E i \in Told(c) : events[i].how = result[c]
  /\ pc = "returned" =>
       /\ \A c \in Calls : task[c] \in {"none", "joined"}
       /\ Cardinality({c \in Calls : result[c] = "none"}) <= mixups
       /\ Cardinality({c \in Calls : Told(c) = {}}) <= mixups

\* The parent's message leads to a child session that exists and holds its
\* prompt, and to the same one after a reload unless two calls of the message
\* crossed between the buffer and the store, or the store refused the last
\* call's link, which the code does not look at.
LinksLeadToChildren ==
  /\ {bufferLink, storeLink} \ {Nobody} \subseteq seeded \intersect children
  /\ ~crossed /\ ~unsaved /\ (\A c \in Calls : task[c] # "linking") => bufferLink = storeLink
=============================================================================
