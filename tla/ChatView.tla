------------------------------ MODULE ChatView ------------------------------
(***************************************************************************)
(* What the web page shows of the conversations                            *)
(* (web/src/hooks/useChatRuntime.ts) beside what the runtime stores: the   *)
(* page applies a stream of events in order, and reads the messages of a   *)
(* session with requests whose responses come back in any order.           *)
(*                                                                         *)
(* The event stream is taken to lose nothing here (EventStream has the     *)
(* losses).  Live text of a turn is left out: it is drawn beside the       *)
(* messages until the turn's end loads them.                               *)
(***************************************************************************)
EXTENDS Naturals, Sequences, FiniteSets, Functions, SequencesExt, FiniteSetsExt

CONSTANTS
  Sessions,
  MaxMessages,  \* bounds: prompts and replies,
  MaxSelects,   \*   sessions selected in the page,
  MaxReverts,   \*   reverts and redos asked for in the page,
  MaxMishaps,   \*   cancelled loops and requests that fail,
  MaxCalls      \*   requests of the page under way at once

ASSUME Bounds == {MaxMessages, MaxSelects, MaxReverts, MaxMishaps, MaxCalls} \subseteq Nat

VARIABLES
  stored,    \* per session: the messages, numbered as they were made
  queued,    \* per session: prompts that wait for the next request
  cut,       \* revert_message_id (0: none)
  loop,      \* "idle", "busy", "next" (a turn ended, the queue is next), "ending"
  prompts,   \* the messages that are prompts
  events,    \* the events on their way to the page
  selected,  \* the page: the session shown
  cache,     \* messagesCacheRef
  view,      \* messages
  announced, \* pendingBackendMessageSessionsRef, per session
  target,    \* revert_message_id of the session in the page
  calls,     \* requests under way: [id, kind, s, m, got, at]; m: the new cut
  version,   \* history: changes of stored, per session
  fresh,     \* history: the newest version a response has shown
  overtaken, \* history: sessions where an older response came after a newer one
  failed,    \* history: sessions with a load that failed, and none begun since
  used       \* counters of the bounds

server == <<stored, queued, cut, loop, prompts, version>>
page == <<selected, cache, view, announced, target>>
viewVars == <<server, page, events, calls, fresh, overtaken, failed, used>>

None == 0
NoSession == "none"
ASSUME NoSessionIsNone == NoSession \notin Sessions

ViewInit ==
  /\ stored = [s \in Sessions |-> <<>>] /\ queued = [s \in Sessions |-> <<>>]
  /\ cut = [s \in Sessions |-> None] /\ loop = [s \in Sessions |-> "idle"] /\ prompts = {}
  /\ events = <<>>
  /\ selected = NoSession /\ view = <<>>
  /\ cache = [s \in Sessions |-> <<>>] /\ announced = [s \in Sessions |-> {}]
  /\ target = [s \in Sessions |-> None]
  /\ calls = {}
  /\ version = [s \in Sessions |-> 0] /\ fresh = [s \in Sessions |-> 0] /\ overtaken = {} /\ failed = {}
  /\ used = [made |-> 0, selects |-> 0, reverts |-> 0, mishaps |-> 0]

Count(what) == used' = [used EXCEPT ![what] = @ + 1]
Store(s, messages) ==
  /\ stored' = [stored EXCEPT ![s] = messages]
  /\ version' = [version EXCEPT ![s] = @ + 1]
Event(kind, s, m) == [kind |-> kind, s |-> s, m |-> m]
EmitEvents(new) == events' = events \o new

\* the messages before m
Before(messages, m) ==
  LET at == {i \in DOMAIN messages : messages[i] = m}
  IN  IF at = {} THEN messages ELSE SubSeq(messages, 1, Min(at) - 1)

-----------------------------------------------------------------------------
(* The runtime *)

\* submit_prompt: an idle session stores it, after what an undo hides is
\* discarded; a busy one queues it.  While a cancelled loop winds down no prompt
\* is submitted here (SessionLoop has those).
Submit(s) ==
  /\ used.made < MaxMessages /\ loop[s] # "ending"
  /\ LET m == used.made + 1 IN
     /\ prompts' = prompts \union {m}
     /\ \/ /\ loop[s] = "idle"
           /\ Store(s, Append(Before(stored[s], cut[s]), m))
           /\ cut' = [cut EXCEPT ![s] = None]
           /\ loop' = [loop EXCEPT ![s] = "busy"]
           /\ EmitEvents((IF cut[s] = None THEN <<>> ELSE <<Event("truncated", s, None)>>)
                   \o <<Event("created", s, m)>>)
           /\ UNCHANGED queued
        \/ /\ loop[s] \in {"busy", "next"}
           /\ queued' = [queued EXCEPT ![s] = Append(@, m)]
           /\ EmitEvents(<<Event("created", s, m)>>)
           /\ UNCHANGED <<stored, version, cut, loop>>
  /\ Count("made")
  /\ UNCHANGED <<page, calls, fresh, overtaken, failed>>

\* the next request stores the queue
Materialize(s) ==
  /\ loop[s] \in {"busy", "next"} /\ queued[s] # <<>>
  /\ Store(s, stored[s] \o queued[s])
  /\ queued' = [queued EXCEPT ![s] = <<>>]
  /\ loop' = [loop EXCEPT ![s] = "busy"]
  /\ UNCHANGED <<cut, prompts, page, events, calls, fresh, overtaken, failed, used>>

Reply(s) ==
  /\ loop[s] \in {"busy", "ending"} /\ used.made < MaxMessages
  /\ Store(s, Append(stored[s], used.made + 1))
  /\ Count("made")
  /\ UNCHANGED <<queued, cut, loop, prompts, page, events, calls, fresh, overtaken, failed>>

\* StreamEnd; the loop goes on when prompts are queued
EndTurn(s) ==
  /\ loop[s] \in {"busy", "ending"}
  /\ loop' = [loop EXCEPT ![s] = IF queued[s] = <<>> THEN "idle" ELSE "next"]
  /\ EmitEvents(<<Event("end", s, None)>>)
  /\ UNCHANGED <<stored, version, queued, cut, prompts, page, calls, fresh, overtaken, failed, used>>

StopLoop(s) ==
  /\ loop' = [loop EXCEPT ![s] = IF @ = "idle" THEN @ ELSE "ending"]
  /\ queued' = [queued EXCEPT ![s] = <<>>]

Cancel(s) ==
  /\ loop[s] \in {"busy", "next"} /\ used.mishaps < MaxMishaps
  /\ StopLoop(s) /\ Count("mishaps")
  /\ UNCHANGED <<stored, version, cut, prompts, page, events, calls, fresh, overtaken, failed>>

\* the next prompt after the cut, where redo moves it
NextCut(s) ==
  LET later == {p \in prompts \intersect ToSet(stored[s]) : p > cut[s]}
  IN  IF cut[s] = None \/ later = {} THEN None ELSE Min(later)

MoveCut(s, m) ==
  /\ cut' = [cut EXCEPT ![s] = m]
  /\ EmitEvents(<<Event("undone", s, m)>>)

-----------------------------------------------------------------------------
(* Requests of the page *)

FreeId(cs) == Min((1 .. Cardinality(cs) + 1) \ {c.id : c \in cs})
Call(cs, kind, s, m) ==
  cs \union {[id |-> FreeId(cs), kind |-> kind, s |-> s, m |-> m, got |-> <<>>, at |-> None]}
Load(s, cs) == calls' = Call(cs, "load", s, None) /\ failed' = failed \ {s}

\* the server answers a request for the messages
Serve(c) ==
  /\ c.kind \in {"load", "list"} /\ c.at = None
  /\ calls' = (calls \ {c}) \union {[c EXCEPT !.got = stored[c.s], !.at = version[c.s] + 1]}
  /\ UNCHANGED <<server, page, events, fresh, overtaken, failed, used>>

\* ... and carries out a revert or a redo: both cancel the loop first
ServeRevert(c) ==
  /\ c.kind \in {"revert", "redo"} /\ c.at = None
  /\ StopLoop(c.s)
  /\ LET m == IF c.kind = "revert" THEN c.m ELSE NextCut(c.s) IN
     /\ calls' = (calls \ {c}) \union {[c EXCEPT !.at = 1, !.m = m]}
     /\ \/ c.kind = "revert" /\ m \in ToSet(stored[c.s]) /\ MoveCut(c.s, m)
        \/ c.kind = "redo" /\ cut[c.s] # None /\ MoveCut(c.s, m)
        \/ c.kind = "redo" /\ cut[c.s] = None /\ UNCHANGED <<cut, events>>
  /\ UNCHANGED <<stored, version, prompts, page, fresh, overtaken, failed, used>>

\* a revert whose target is not stored fails, after the cancellation
RefuseRevert(c) ==
  /\ c.kind = "revert" /\ c.at = None /\ c.m \notin ToSet(stored[c.s])
  /\ StopLoop(c.s)
  /\ calls' = calls \ {c}
  /\ UNCHANGED <<stored, version, cut, prompts, page, events, fresh, overtaken, failed, used>>

\* Array.filter
Keep(messages, S) ==
  LET Kept[i \in 0 .. Len(messages)] ==
        IF i = 0 THEN <<>>
        ELSE IF messages[i] \in S THEN Append(Kept[i - 1], messages[i]) ELSE Kept[i - 1]
  IN  Kept[Len(messages)]

\* mergeMessageRecords; no list of the page holds a message twice, so what it does
\* about duplicates within pending is left out
Merge(loaded, pending) == loaded \o Keep(pending, ToSet(pending) \ ToSet(loaded))

Age(c) ==
  /\ fresh' = [fresh EXCEPT ![c.s] = IF c.at > @ THEN c.at ELSE @]
  /\ overtaken' = IF c.at < fresh[c.s] THEN overtaken \union {c.s} ELSE overtaken

\* loadMessages, after the response: what is announced and not loaded is kept
\* (mutant: the response replaces what is shown)
ReceiveAndReplace(c) ==
  /\ c.kind = "load" /\ c.at # None
  /\ announced' = [announced EXCEPT ![c.s] = @ \ ToSet(c.got)]
  /\ cache' = [cache EXCEPT ![c.s] = c.got]
  /\ view' = IF selected = c.s THEN c.got ELSE view
  /\ Age(c) /\ calls' = calls \ {c}
  /\ UNCHANGED <<server, events, selected, target, failed, used>>

ReceiveLoad(c) ==
  /\ c.kind = "load" /\ c.at # None
  /\ LET merged == Merge(c.got, Keep(cache[c.s], announced[c.s])) IN
     /\ announced' = [announced EXCEPT ![c.s] = @ \ ToSet(c.got)]
     /\ cache' = [cache EXCEPT ![c.s] = merged]
     /\ view' = IF selected = c.s THEN Merge(merged, Keep(view, announced[c.s])) ELSE view
  /\ Age(c) /\ calls' = calls \ {c}
  /\ UNCHANGED <<server, events, selected, target, failed, used>>

\* the list read when a turn of a session that is not shown ends
ReceiveList(c) ==
  /\ c.kind = "list" /\ c.at # None
  /\ cache' = [cache EXCEPT ![c.s] = c.got]
  /\ Age(c) /\ calls' = calls \ {c}
  /\ UNCHANGED <<server, events, selected, view, announced, target, failed, used>>

\* handleRevert and handleRedo, after the response (which does not say where a
\* redo has moved to)
ReceiveRevert(c) ==
  /\ c.kind \in {"revert", "redo"} /\ c.at # None
  /\ target' = IF selected # c.s THEN target
               ELSE [target EXCEPT ![c.s] = IF c.kind = "revert" THEN c.m ELSE None]
  /\ Load(c.s, calls \ {c})
  /\ UNCHANGED <<server, events, selected, cache, view, announced, fresh, overtaken, used>>

\* A request fails, before or after it was carried out: loadMessages reports it and
\* leaves what is shown, handleRevert and handleRedo do not load.
Fail(c) ==
  /\ used.mishaps < MaxMishaps /\ Count("mishaps")
  /\ calls' = calls \ {c}
  /\ failed' = IF c.kind = "load" THEN failed \union {c.s} ELSE failed
  /\ UNCHANGED <<server, page, events, fresh, overtaken>>

-----------------------------------------------------------------------------
(* applyEvent *)

Put(messages, m) == IF m \in ToSet(messages) THEN messages ELSE Append(messages, m)

LoadIfShown(s) == IF selected = s THEN Load(s, calls) ELSE UNCHANGED <<calls, failed>>

OnCreated(s, m) ==
  /\ announced' = [announced EXCEPT ![s] = @ \union {m}]
  /\ cache' = [cache EXCEPT ![s] = Put(@, m)]
  /\ view' = IF selected = s THEN Put(view, m) ELSE view
  /\ UNCHANGED <<target, calls, failed>>

OnUndone(s, m) ==
  /\ target' = [target EXCEPT ![s] = m]
  /\ LoadIfShown(s)
  /\ UNCHANGED <<announced, cache, view>>

OnTruncated(s) ==
  /\ target' = [target EXCEPT ![s] = None]
  /\ LoadIfShown(s)
  /\ UNCHANGED <<announced, cache, view>>

OnEndElsewhere(s) ==  \* mutant: the shown session is not loaded again
  /\ calls' = IF selected = s THEN calls ELSE Call(calls, "list", s, None)
  /\ UNCHANGED <<failed, announced, cache, view, target>>

OnEnd(s) ==
  /\ \/ selected = s /\ LoadIfShown(s)
     \/ selected # s /\ calls' = Call(calls, "list", s, None) /\ UNCHANGED failed
  /\ UNCHANGED <<announced, cache, view, target>>

Deliver ==
  /\ events # <<>> /\ events' = Tail(events) /\ Cardinality(calls) < MaxCalls
  /\ LET e == Head(events) IN
     \/ e.kind = "created" /\ OnCreated(e.s, e.m)
     \/ e.kind = "undone" /\ OnUndone(e.s, e.m)
     \/ e.kind = "truncated" /\ OnTruncated(e.s)
     \/ e.kind = "end" /\ OnEnd(e.s)
  /\ UNCHANGED <<server, selected, fresh, overtaken, used>>

-----------------------------------------------------------------------------
(* The user of the page *)

Select(s) ==
  /\ used.selects < MaxSelects /\ Count("selects") /\ Cardinality(calls) < MaxCalls
  /\ selected' = s
  /\ view' = cache[s]
  /\ Load(s, calls)
  /\ UNCHANGED <<server, cache, announced, target, events, fresh, overtaken>>

\* createSession: the welcome screen
Welcome ==
  /\ used.selects < MaxSelects /\ Count("selects")
  /\ selected # NoSession /\ selected' = NoSession /\ view' = <<>>
  /\ UNCHANGED <<server, cache, announced, target, events, calls, fresh, overtaken, failed>>

Visible(messages, m) == Before(messages, m)

\* one revert at a time, of a prompt that is shown
AskRevert ==
  /\ used.reverts < MaxReverts /\ Count("reverts") /\ Cardinality(calls) < MaxCalls
  /\ selected \in Sessions
  /\ \/ /\ \A c \in calls : c.kind # "revert"
        /\ \E m \in ToSet(Visible(view, target[selected])) \intersect prompts :
             calls' = Call(calls, "revert", selected, m)
     \/ calls' = Call(calls, "redo", selected, None)
  /\ UNCHANGED <<server, page, events, fresh, overtaken, failed>>

Runtime == \E s \in Sessions : Submit(s) \/ Materialize(s) \/ Reply(s) \/ EndTurn(s) \/ Cancel(s)

Responses ==
  \E c \in calls :
    \/ Serve(c) \/ ServeRevert(c) \/ RefuseRevert(c)
    \/ ReceiveLoad(c) \/ ReceiveList(c) \/ ReceiveRevert(c) \/ Fail(c)

ViewNext == Runtime \/ Responses \/ Deliver \/ (\E s \in Sessions : Select(s)) \/ Welcome \/ AskRevert

ViewSpec == ViewInit /\ [][ViewNext]_viewVars

-----------------------------------------------------------------------------
\* Type invariant of the conversations, the page and what is under way between them.
ViewTypeOK ==
  /\ {stored, queued, cache} \subseteq [Sessions -> Seq(Nat)]
  /\ {cut, target, version, fresh} \subseteq [Sessions -> Nat]
  /\ loop \in [Sessions -> {"idle", "busy", "next", "ending"}]
  /\ prompts \subseteq Nat
  /\ events \in Seq([kind : {"created", "undone", "truncated", "end"}, s : Sessions, m : Nat])
  /\ selected \in Sessions \union {NoSession} /\ view \in Seq(Nat)
  /\ announced \in [Sessions -> SUBSET Nat]
  /\ IsFiniteSet(calls)
  /\ calls \subseteq [id : Nat, kind : {"load", "list", "revert", "redo"}, s : Sessions, m : Nat,
                      got : Seq(Nat), at : Nat]
  /\ overtaken \subseteq Sessions /\ failed \subseteq Sessions
  /\ used \in [made : Nat, selects : Nat, reverts : Nat, mishaps : Nat]

Quiet(s) == selected = s /\ loop[s] = "idle" /\ events = <<>> /\ calls = {}

\* When the turns of the session that is shown are over and nothing is under
\* way, the page shows what is stored, in its order; anything else it shows is
\* a prompt it was told of and never found stored.  Only a response that came
\* after a newer one, or a load that failed and was not begun anew, can leave the
\* page behind.
ViewIsStored ==
  \A s \in Sessions : Quiet(s) /\ s \notin overtaken \union failed =>
    /\ Keep(view, ToSet(stored[s])) = stored[s]
    /\ ToSet(view) \subseteq ToSet(stored[s]) \union announced[s]

\* While a session stays shown, no message that the runtime still has leaves
\* the page: a load that was answered before a prompt was stored, or while it
\* is queued, does not hide it again.
ShownStays ==
  [][\A s \in Sessions : selected = s /\ selected' = s /\ s \notin overtaken' =>
       \/ used'.selects > used.selects
       \/ \A m \in ToSet(view) \ ToSet(view') : m \notin ToSet(stored[s]) \union ToSet(queued[s])]_viewVars
=============================================================================
