----------------------------- MODULE Approvals -----------------------------
(***************************************************************************)
(* Approval requests: agent loops that wait, the ApprovalBroker, and the   *)
(* frontends that see a request and answer it.                             *)
(*                                                                         *)
(* One process serves one kind of frontend: browser tabs that come and go, *)
(* an editor behind the ACP bridge, or the terminal, whose dialogs are the *)
(* module ApprovalDialogs.                                                 *)
(***************************************************************************)
EXTENDS Integers, Sequences, FiniteSets, Functions

CONSTANTS
  Requests,   \* approval requests, each made once
  Sessions,
  SessionOf,  \* the session that makes a request
  Nested,     \* requests made by a script in Code Mode
  Unheard,    \* requests of subagents, in a broker of their own that nobody hears
  Tabs, Bridge, Terminal,  \* frontends
  MaxConnects, \* bound: connections of tabs
  Asked        \* bound: the requests made under each command

Frontends == Tabs \union {Bridge, Terminal}
Nobody == "nobody"
Commands == {"tui", "web", "acp"}

ASSUME RequestsHaveSessions ==
  /\ SessionOf \in [Requests -> Sessions] /\ Nested \subseteq Requests /\ Unheard \subseteq Requests
  /\ MaxConnects \in Nat /\ Asked \in [Commands -> SUBSET Requests]
ASSUME FrontendsDiffer == Bridge # Terminal /\ Tabs \intersect {Bridge, Terminal} = {} /\ Nobody \notin Frontends

VARIABLES
  process,    \* the command that was started
  state,      \* where the call of ApprovalBroker::request is
  cancelled,  \* requests whose session was cancelled
  pending,    \* the broker's map
  channel,    \* request_tx
  slot,       \* the oneshot of each request: whose response is in it
  conn,       \* a frontend's subscription
  inbox,      \* what a subscription has still to deliver
  cards,      \* requests a tab shows, or the bridge is asking about
  connects,   \* counter
  heard       \* history: the frontends whose response was accepted

broker == <<state, cancelled, pending, channel, slot>>
clients == <<conn, inbox, cards, connects>>
vars == <<process, broker, clients, heard>>

Over == {"answered", "cancelled", "dropped", "closed"}

Init ==
  /\ process \in Commands
  /\ state = [r \in Requests |-> "new"]
  /\ cancelled = {} /\ pending = {} /\ channel = <<>>
  /\ slot = [r \in Requests |-> Nobody]
  /\ conn = [f \in Frontends |->
       IF <<process, f>> \in {<<"tui", Terminal>>, <<"acp", Bridge>>} THEN "on" ELSE "off"]
  /\ inbox = [f \in Frontends |-> <<>>]
  /\ cards = [f \in Frontends |-> {}]
  /\ connects = 0
  /\ heard = [r \in Requests |-> {}]

Become(r, where) == state' = [state EXCEPT ![r] = where]

-----------------------------------------------------------------------------
(* ApprovalBroker::request; a session's calls ask one after the other *)

Insert(r) ==
  /\ r \in Asked[process] /\ state[r] = "new"
  /\ \A q \in Requests : SessionOf[q] = SessionOf[r] => state[q] \in Over \union {"new"}
  /\ pending' = IF r \in Unheard THEN pending ELSE pending \union {r}
  /\ Become(r, "inserted")
  /\ UNCHANGED <<process, cancelled, channel, slot, clients, heard>>

Publish(r) ==
  /\ state[r] = "inserted"
  /\ \/ r \in Unheard /\ Become(r, "closed") /\ UNCHANGED channel
     \/ r \notin Unheard /\ Become(r, "waiting") /\ channel' = Append(channel, r)
  /\ UNCHANGED <<process, cancelled, pending, slot, clients, heard>>

\* the two branches of the select
TakeResponse(r) ==
  /\ state[r] = "waiting" /\ slot[r] # Nobody
  /\ Become(r, "answered")
  /\ UNCHANGED <<process, cancelled, pending, channel, slot, clients, heard>>

TakeCancel(r) ==
  /\ state[r] = "waiting" /\ r \in cancelled
  /\ Become(r, "cancelled")
  /\ pending' = pending \ {r}
  /\ UNCHANGED <<process, cancelled, channel, slot, clients, heard>>

\* cancel_session: the loop's token
Cancel(s) ==
  /\ cancelled' = cancelled \union
       {r \in Requests : SessionOf[r] = s /\ state[r] \in {"inserted", "waiting"}}
  /\ UNCHANGED <<process, state, pending, channel, slot, clients, heard>>

\* Code Mode drops the call when its time is over or its select sees the
\* cancellation first: the entry stays in the map
Drop(r) ==
  /\ r \in Nested /\ state[r] = "waiting"
  /\ Become(r, "dropped")
  /\ UNCHANGED <<process, cancelled, pending, channel, slot, clients, heard>>

\* ApprovalBroker::respond; the mutant leaves the entry in the map
RespondAndKeep(f, r) ==
  /\ UNCHANGED <<process, state, cancelled, channel, pending>>
  /\ slot' = IF r \in pending THEN [slot EXCEPT ![r] = f] ELSE slot
  /\ heard' = IF r \in pending THEN [heard EXCEPT ![r] = @ \union {f}] ELSE heard

Respond(f, r) ==
  LET accepted == r \in pending /\ state[r] \in {"inserted", "waiting"}
  IN  /\ pending' = pending \ {r}
      /\ slot' = IF accepted THEN [slot EXCEPT ![r] = f] ELSE slot
      /\ heard' = IF accepted THEN [heard EXCEPT ![r] = @ \union {f}] ELSE heard
      /\ UNCHANGED <<process, state, cancelled, channel>>

-----------------------------------------------------------------------------
(* The task that hands requests to the subscribers, and the subscribers *)

FanOut ==
  /\ channel # <<>>
  /\ channel' = Tail(channel)
  /\ inbox' = [f \in Frontends |-> IF conn[f] = "off" THEN inbox[f] ELSE Append(inbox[f], Head(channel))]
  /\ UNCHANGED <<process, state, cancelled, pending, slot, conn, cards, connects, heard>>

Take(f) == inbox' = [inbox EXCEPT ![f] = Tail(@)]

\* a tab subscribes first and reads the map afterwards
Connect(t) ==
  /\ process = "web" /\ conn[t] = "off" /\ connects < MaxConnects
  /\ connects' = connects + 1
  /\ conn' = [conn EXCEPT ![t] = "subscribed"]
  /\ UNCHANGED <<process, broker, inbox, cards, heard>>

Listings(S) == {s \in [1 .. Cardinality(S) -> S] : Range(s) = S}

\* mutant: nothing is replayed
SubscribeOnly(t) ==
  /\ conn[t] = "subscribed" /\ conn' = [conn EXCEPT ![t] = "on"]
  /\ UNCHANGED <<process, broker, inbox, cards, connects, heard>>

Snapshot(t) ==
  /\ conn[t] = "subscribed"
  /\ \E s \in Listings(pending) : inbox' = [inbox EXCEPT ![t] = s \o @]
  /\ conn' = [conn EXCEPT ![t] = "on"]
  /\ UNCHANGED <<process, broker, cards, connects, heard>>

\* the tab keeps what it shows and connects again
Disconnect(t) ==
  /\ t \in Tabs /\ conn[t] # "off"
  /\ conn' = [conn EXCEPT ![t] = "off"]
  /\ inbox' = [inbox EXCEPT ![t] = <<>>]
  /\ UNCHANGED <<process, broker, cards, connects, heard>>

\* a request that is shown already is shown once
Show(t) ==
  /\ t \in Tabs /\ conn[t] = "on" /\ inbox[t] # <<>>
  /\ cards' = [cards EXCEPT ![t] = @ \union {Head(inbox[t])}]
  /\ Take(t)
  /\ UNCHANGED <<process, broker, conn, connects, heard>>

\* accepted or refused (409), the card goes
Answer(t, r) ==
  /\ t \in Tabs /\ r \in cards[t]
  /\ Respond(t, r)
  /\ cards' = [cards EXCEPT ![t] = @ \ {r}]
  /\ UNCHANGED <<conn, inbox, connects>>

\* the bridge asks the editor about one request at a time
Ask ==
  /\ inbox[Bridge] # <<>> /\ cards[Bridge] = {}
  /\ cards' = [cards EXCEPT ![Bridge] = {Head(inbox[Bridge])}]
  /\ Take(Bridge)
  /\ UNCHANGED <<process, broker, conn, connects, heard>>

EditorAnswers ==
  \E r \in cards[Bridge] :
    /\ Respond(Bridge, r)
    /\ cards' = [cards EXCEPT ![Bridge] = {}]
    /\ UNCHANGED <<conn, inbox, connects>>

\* the terminal, whose dialogs ApprovalDialogs has
TerminalTakes ==
  /\ inbox[Terminal] # <<>> /\ Take(Terminal)
  /\ UNCHANGED <<process, broker, conn, cards, connects, heard>>

TerminalAnswers == \E r \in Requests : Respond(Terminal, r) /\ UNCHANGED clients

-----------------------------------------------------------------------------
Loops ==
  \/ \E r \in Requests : Publish(r) \/ TakeResponse(r) \/ TakeCancel(r) \/ Drop(r)
  \/ \E s \in Sessions : Cancel(s)

Web ==
  \E t \in Tabs :
    \/ Connect(t) \/ Snapshot(t) \/ Disconnect(t) \/ Show(t)
    \/ \E r \in Requests : Answer(t, r)

Next ==
  \/ (\E r \in Requests : Insert(r)) \/ Loops \/ FanOut
  \/ Web \/ Ask \/ EditorAnswers \/ TerminalTakes \/ TerminalAnswers

Spec == Init /\ [][Next]_vars

-----------------------------------------------------------------------------
\* Type invariant of the broker and of the subscriptions.
TypeOK ==
  /\ process \in Commands
  /\ state \in [Requests -> Over \union {"new", "inserted", "waiting"}]
  /\ cancelled \subseteq Requests /\ pending \subseteq Requests
  /\ channel \in Seq(Requests)
  /\ slot \in [Requests -> Frontends \union {Nobody}]
  /\ conn \in [Frontends -> {"off", "subscribed", "on"}]
  /\ inbox \in [Frontends -> Seq(Requests)]
  /\ cards \in [Frontends -> SUBSET Requests]
  /\ connects \in Nat
  /\ heard \in [Requests -> SUBSET Frontends]

\* A tab that is connected shows every request that still waits in the map, or
\* is about to: it is in its stream, in the channel or not yet published.  The
\* order of `requests` matters: subscribe, then read the map.
NothingMissed ==
  \A t \in Tabs, r \in pending :
    conn[t] = "on" =>
      \/ r \in cards[t] \union Range(inbox[t]) \union Range(channel)
      \/ state[r] = "inserted"

\* At most one response of a request is accepted, and the loop that waits gets
\* it, unless it was cancelled meanwhile or its script gave up.
FirstResponseWins ==
  \A r \in Requests :
    /\ Cardinality(heard[r]) <= 1
    /\ state[r] = "answered" => heard[r] = {slot[r]}
    /\ heard[r] # {} => r \in cancelled \union Nested \/ state[r] \in {"inserted", "waiting", "answered"}
=============================================================================
