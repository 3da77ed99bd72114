----------------------------- MODULE EventStream -----------------------------
(***************************************************************************)
(* How events reach a web frontend: the EventHub                           *)
(* (crates/tidev-core/src/event_hub.rs) numbers what the sessions' event   *)
(* buses forward, keeps a bounded window of it and answers subscriptions;  *)
(* /api/events (crates/tidev-web/src/api.rs) streams the answer; a browser *)
(* tab (web/src/api/events.ts, web/src/hooks/useChatRuntime.ts) applies it *)
(* and remembers its cursor.                                               *)
(*                                                                         *)
(* Connections break, tabs are reloaded, the server process is restarted.  *)
(* An EventSource that breaks reconnects to its URL without the page's     *)
(* doing. Events are numbered from 1 over all processes; a process numbers *)
(* its own from 1 again.                                                   *)
(***************************************************************************)
EXTENDS Naturals, Sequences

CONSTANTS
  Tabs,         \* browser tabs
  Capacity,     \* REPLAY_CAPACITY
  MaxEvents,    \* bound: events ever emitted
  MaxBreaks,    \* bound: connections that end, of all tabs
  MaxRestarts   \* bound: restarts of the server process

ASSUME CapacityAssumption == Capacity \in Nat \ {0}
ASSUME BoundsAssumption == MaxEvents \in Nat /\ MaxBreaks \in Nat /\ MaxRestarts \in Nat

VARIABLES
  emitted,   \* events emitted on the buses, in all processes
  base,      \* how many of them are older than this process
  next,      \* next_cursor
  oldest,    \* the window's first cursor, 0 while it is empty; its last is next - 1
  link,      \* each tab's EventSource: "none", "open" or "broken"
  after,     \* the `after` parameter of its URL, 0 for none
  stream,    \* what its open connection still has to deliver
  cursor,    \* the tab's cursorRef and sessionStorage, 0 for none
  last,      \* the event the tab applied last; 0 at first and after a resync
  skipped,   \* has a tab ever missed an event without a resync?
  repeated,  \* has it ever applied an event it had applied before?
  retried,   \* has one of its EventSources ever reconnected by itself?
  blind,     \* ... with no cursor in its URL?
  breaks, restarts   \* what has been used of the bounds

hub  == <<emitted, base, next, oldest>>
tab  == <<link, after, stream, cursor, last>>
hist == <<skipped, repeated, retried, blind>>
vars == <<hub, tab, hist, breaks, restarts>>

Resync  == 0
Latest  == next - 1

Init ==
  /\ emitted = 0 /\ base = 0 /\ next = 1 /\ oldest = 0
  /\ link = [t \in Tabs |-> "none"]
  /\ after = [t \in Tabs |-> 0]
  /\ stream = [t \in Tabs |-> <<>>]
  /\ cursor = [t \in Tabs |-> 0]
  /\ last = [t \in Tabs |-> 0]
  /\ skipped = {} /\ repeated = {} /\ retried = {} /\ blind = {}
  /\ breaks = 0 /\ restarts = 0

-----------------------------------------------------------------------------
(* The host.                                                               *)

\* Something durable has happened, and its event is put on a bus.
Emit ==
  /\ emitted < MaxEvents
  /\ emitted' = emitted + 1
  /\ UNCHANGED <<base, next, oldest, tab, hist, breaks, restarts>>

\* The window after push_back, and pop_front when it was full.
Oldest == IF oldest = 0 THEN next
          ELSE IF next - oldest = Capacity THEN oldest + 1 ELSE oldest

\* Mutant of the next action: an event waits for the one behind it.
Publish_Late ==
  /\ base + Latest + 1 < emitted
  /\ oldest' = Oldest
  /\ next' = next + 1
  /\ stream' = [t \in Tabs |-> IF link[t] = "open" THEN Append(stream[t], next)
                               ELSE stream[t]]
  /\ UNCHANGED <<emitted, base, link, after, cursor, last, hist, breaks, restarts>>

\* EventHub::publish, under the state's lock.
Publish ==
  /\ base + Latest < emitted
  /\ oldest' = Oldest
  /\ next' = next + 1
  /\ stream' = [t \in Tabs |-> IF link[t] = "open" THEN Append(stream[t], next)
                               ELSE stream[t]]
  /\ UNCHANGED <<emitted, base, link, after, cursor, last, hist, breaks, restarts>>

\* EventHub::subscribe, under the same lock: nothing, the window's events after
\* the cursor, or a marker. (Mutants: the newest event is too late for it; the
\* cursor is included; a cursor that has left the window is not noticed.)
From_Stale(n) == [i \in 1 .. Latest - n |-> n + i - 1]
From(n) == [i \in 1 .. next - n |-> n + i - 1]

Answer_Inclusive(a) ==
  IF a = 0 THEN <<>>
  ELSE IF a + 1 < oldest \/ a > Latest THEN <<Resync>> ELSE From(a)

Answer_Window(a) ==
  IF a = 0 THEN <<>>
  ELSE IF a > Latest THEN <<Resync>> ELSE From(IF a < oldest THEN oldest ELSE a + 1)

Answer(a) ==
  IF a = 0 THEN <<>>
  ELSE IF a + 1 < oldest \/ a > Latest THEN <<Resync>> ELSE From(a + 1)

\* The process ends, with the buses, the hub and all connections, and a new one
\* takes its place.
Restart ==
  /\ restarts < MaxRestarts
  /\ restarts' = restarts + 1
  /\ base' = emitted /\ next' = 1 /\ oldest' = 0
  /\ link' = [t \in Tabs |-> IF link[t] = "open" THEN "broken" ELSE link[t]]
  /\ stream' = [t \in Tabs |-> <<>>]
  /\ UNCHANGED <<emitted, after, cursor, last, hist, breaks>>

-----------------------------------------------------------------------------
(* A tab.                                                                  *)

\* The page subscribes with the cursor it remembers.
Open(t) ==
  /\ link[t] = "none"
  /\ link' = [link EXCEPT ![t] = "open"]
  /\ after' = [after EXCEPT ![t] = cursor[t]]
  /\ stream' = [stream EXCEPT ![t] = Answer(cursor[t])]
  /\ UNCHANGED <<hub, cursor, last, hist, breaks, restarts>>

\* The next SSE event. Resync reloads what the page shows; an event moves the
\* cursor.
Apply(t) ==
  /\ link[t] = "open" /\ stream[t] # <<>>
  /\ stream' = [stream EXCEPT ![t] = Tail(@)]
  /\ LET c == Head(stream[t])
         e == base + c
     IN \/ /\ c = Resync
           /\ last' = [last EXCEPT ![t] = 0]
           /\ UNCHANGED <<cursor, skipped, repeated>>
        \/ /\ c # Resync
           /\ cursor' = [cursor EXCEPT ![t] = c]
           /\ last' = [last EXCEPT ![t] = e]
           /\ skipped' = skipped \cup {u \in {t} : last[t] # 0 /\ e > last[t] + 1}
           /\ repeated' = repeated \cup {u \in {t} : e <= last[t]}
  /\ UNCHANGED <<hub, link, after, retried, blind, breaks, restarts>>

\* The connection breaks, with what is on its way.
Break(t) ==
  /\ link[t] = "open" /\ breaks < MaxBreaks
  /\ breaks' = breaks + 1
  /\ link' = [link EXCEPT ![t] = "broken"]
  /\ stream' = [stream EXCEPT ![t] = <<>>]
  /\ UNCHANGED <<hub, after, cursor, last, hist, restarts>>

\* The browser's EventSource tries its URL again.
Reconnect(t) ==
  /\ link[t] = "broken"
  /\ link' = [link EXCEPT ![t] = "open"]
  /\ stream' = [stream EXCEPT ![t] = Answer(after[t])]
  /\ retried' = retried \cup {t}
  /\ blind' = IF after[t] = 0 THEN blind \cup {t} ELSE blind
  /\ UNCHANGED <<hub, after, cursor, last, skipped, repeated, breaks, restarts>>

\* The tab is reloaded: the EventSource is closed, sessionStorage stays.
Reload(t) ==
  /\ link[t] # "none" /\ breaks < MaxBreaks
  /\ breaks' = breaks + 1
  /\ link' = [link EXCEPT ![t] = "none"]
  /\ stream' = [stream EXCEPT ![t] = <<>>]
  /\ UNCHANGED <<hub, after, cursor, last, hist, restarts>>

Next ==
  \/ Emit \/ Publish \/ Restart
  \/ \E t \in Tabs : Open(t) \/ Apply(t) \/ Break(t) \/ Reconnect(t) \/ Reload(t)

\* The forwarding tasks run, and a page and its browser go on.
Fairness ==
  /\ WF_vars(Publish)
  /\ \A t \in Tabs : WF_vars(Open(t) \/ Apply(t) \/ Reconnect(t))

Spec == Init /\ [][Next]_vars /\ Fairness

-----------------------------------------------------------------------------
(* Type correctness. *)
TypeOK ==
  /\ emitted \in Nat /\ base \in Nat /\ next \in Nat \ {0} /\ oldest \in Nat
  /\ link \in [Tabs -> {"none", "open", "broken"}]
  /\ after \in [Tabs -> Nat]
  /\ stream \in [Tabs -> Seq(Nat)]
  /\ cursor \in [Tabs -> Nat]
  /\ last \in [Tabs -> Nat]
  /\ skipped \in SUBSET Tabs /\ repeated \in SUBSET Tabs
  /\ retried \in SUBSET Tabs /\ blind \in SUBSET Tabs
  /\ breaks \in Nat /\ restarts \in Nat

(* "The returned replay result and live receiver are captured atomically": *)
(* what a connection still delivers ends with the latest event and has no  *)
(* hole before it, back to where the tab is, or to a marker.               *)
WholeStream ==
  \A t \in Tabs : \A i \in 1 .. Len(stream[t]) :
    \/ stream[t][i] + Len(stream[t]) = Latest + i
    \/ i = 1 /\ stream[t][i] = Resync

(* As long as the process lives, a tab misses no event without being told  *)
(* to resync, however its connections break and its page is reloaded and   *)
(* however far it falls behind the window - unless an EventSource without  *)
(* a cursor in its URL reconnects by itself.                               *)
GapsExplained == restarts = 0 => skipped \subseteq blind

(* A tab applies an event twice only after an EventSource of its own has   *)
(* reconnected by itself, with the cursor it was opened with.              *)
RepeatsExplained == repeated \subseteq retried

(* An open tab catches up with what has been emitted, or loses its         *)
(* connection.                                                             *)
CaughtUp(t) == stream[t] = <<>> /\ base + Latest = emitted

CatchesUp == \A t \in Tabs : link[t] = "open" ~> CaughtUp(t) \/ link[t] # "open"
=============================================================================
