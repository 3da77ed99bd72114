--------------------------- MODULE ApprovalsProofs ---------------------------
(***************************************************************************)
(* Proofs about Approvals and ApprovalDialogs, for every set of requests,  *)
(* sessions, frontends, tools and paths: types, one response for each      *)
(* request, tabs that miss nothing, the dialogs as a frontend of the       *)
(* broker, and what they answer and show.                                  *)
(***************************************************************************)
EXTENDS ApprovalDialogs, SequenceTheorems, FiniteSetTheorems, WellFoundedInduction, TLAPS

-----------------------------------------------------------------------------
(* Sequences and what they hold. *)

LEMMA RangeOfTail ==
  ASSUME NEW S, NEW s \in Seq(S), s # <<>>
  PROVE  Range(s) = {Head(s)} \union Range(Tail(s))
  <1>1. /\ Tail(s) \in Seq(S) /\ Len(Tail(s)) = Len(s) - 1 /\ Len(s) \in Nat \ {0}
        /\ \A i \in 1 .. Len(Tail(s)) : Tail(s)[i] = s[i + 1]
        /\ Head(s) = s[1]
    BY HeadTailProperties, LenProperties, EmptySeq
  <1>2. DOMAIN s = 1 .. Len(s) /\ DOMAIN Tail(s) = 1 .. Len(Tail(s))
    BY <1>1, LenProperties
  <1>3. ASSUME NEW x \in Range(s) PROVE x = Head(s) \/ x \in Range(Tail(s))
    <2>1. PICK i \in 1 .. Len(s) : s[i] = x
      BY <1>2 DEF Range
    <2>2. CASE i = 1
      BY <2>1, <2>2, <1>1
    <2>3. CASE i # 1
      <3>1. i - 1 \in 1 .. Len(Tail(s)) /\ Tail(s)[i - 1] = s[i]
        BY <2>3, <1>1
      <3>2. QED
        BY <3>1, <2>1, <1>2 DEF Range
    <2>4. QED
      BY <2>2, <2>3
  <1>4. ASSUME NEW x \in Range(Tail(s)) PROVE x \in Range(s)
    <2>1. PICK i \in 1 .. Len(Tail(s)) : Tail(s)[i] = x
      BY <1>2 DEF Range
    <2>2. i + 1 \in 1 .. Len(s) /\ s[i + 1] = x
      BY <2>1, <1>1
    <2>3. QED
      BY <2>2, <1>2 DEF Range
  <1>5. Head(s) \in Range(s)
    <2>1. 1 \in DOMAIN s
      BY <1>1, <1>2
    <2>2. QED
      BY <2>1, <1>1 DEF Range
  <1>6. QED
    BY <1>3, <1>4, <1>5

LEMMA RangeOfAppend ==
  ASSUME NEW S, NEW s \in Seq(S), NEW e \in S
  PROVE  Range(Append(s, e)) = Range(s) \union {e}
  <1>1. /\ Append(s, e) \in Seq(S) /\ Len(Append(s, e)) = Len(s) + 1 /\ Len(s) \in Nat
        /\ \A i \in 1 .. Len(s) : Append(s, e)[i] = s[i]
        /\ Append(s, e)[Len(s) + 1] = e
    BY AppendProperties, LenProperties
  <1>2. DOMAIN s = 1 .. Len(s) /\ DOMAIN Append(s, e) = 1 .. Len(s) + 1
    BY <1>1, LenProperties
  <1>3. QED
    BY <1>1, <1>2 DEF Range

-----------------------------------------------------------------------------
(* Type correctness. *)


\* What Listings needs: the map holds finitely many requests.
TypeInv == TypeOK /\ IsFiniteSet(pending)

LEMMA TypeInit == Init => TypeInv
  BY EmptySeq, FS_EmptySet DEF Init, TypeInv, TypeOK, Over, Frontends

\* A response touches the broker only.
LEMMA RespondType ==
  ASSUME TypeInv, NEW f \in Frontends, NEW r \in Requests, Respond(f, r), UNCHANGED <<conn, connects>>,
         inbox' \in [Frontends -> Seq(Requests)], cards' \in [Frontends -> SUBSET Requests]
  PROVE  TypeInv'
  <1>1. IsFiniteSet(pending')
    BY FS_RemoveElement DEF TypeInv, Respond
  <1>2. QED
    BY <1>1 DEF TypeInv, TypeOK, Respond

\* Taking the oldest request of a subscription.
LEMMA TakeType ==
  ASSUME TypeInv, NEW f \in Frontends, inbox[f] # <<>>, Take(f)
  PROVE  /\ inbox' \in [Frontends -> Seq(Requests)]
         /\ Head(inbox[f]) \in Requests /\ Tail(inbox[f]) \in Seq(Requests)
  <1>1. inbox[f] \in Seq(Requests)
    BY DEF TypeInv, TypeOK
  <1>2. Head(inbox[f]) \in Requests /\ Tail(inbox[f]) \in Seq(Requests)
    BY <1>1, HeadTailProperties
  <1>3. QED
    BY <1>2 DEF Take, TypeInv, TypeOK

LEMMA TypeNext == TypeInv /\ [Next]_vars => TypeInv'
  <1> SUFFICES ASSUME TypeInv, [Next]_vars PROVE TypeInv'
    OBVIOUS
  <1> USE DEF TypeInv, TypeOK, Over, Become
  <1>1. ASSUME NEW r \in Requests, Insert(r) PROVE TypeInv'
    BY <1>1, FS_AddElement DEF Insert, clients
  <1>2. ASSUME NEW r \in Requests, Publish(r) PROVE TypeInv'
    <2>1. channel' \in Seq(Requests)
      <3>1. Append(channel, r) \in Seq(Requests)
        BY AppendProperties
      <3>2. QED
        BY <1>2, <3>1 DEF Publish
    <2>2. QED
      BY <1>2, <2>1 DEF Publish, clients
  <1>3. ASSUME NEW r \in Requests, TakeResponse(r) PROVE TypeInv'
    BY <1>3 DEF TakeResponse, clients
  <1>4. ASSUME NEW r \in Requests, TakeCancel(r) PROVE TypeInv'
    BY <1>4, FS_RemoveElement DEF TakeCancel, clients
  <1>5. ASSUME NEW r \in Requests, Drop(r) PROVE TypeInv'
    BY <1>5 DEF Drop, clients
  <1>6. ASSUME NEW s \in Sessions, Cancel(s) PROVE TypeInv'
    BY <1>6 DEF Cancel, clients
  <1>7. ASSUME FanOut PROVE TypeInv'
    <2>1. Head(channel) \in Requests /\ channel' \in Seq(Requests)
      BY <1>7, HeadTailProperties DEF FanOut
    <2>2. inbox' \in [Frontends -> Seq(Requests)]
      BY <1>7, <2>1, AppendProperties DEF FanOut
    <2>3. QED
      BY <1>7, <2>1, <2>2 DEF FanOut
  <1>8. ASSUME NEW t \in Tabs, Connect(t) PROVE TypeInv'
    <2>1. conn' \in [Frontends -> {"off", "subscribed", "on"}]
      BY <1>8 DEF Connect
    <2>2. connects' \in Nat
      BY <1>8 DEF Connect
    <2>3. QED
      BY <1>8, <2>1, <2>2 DEF Connect, broker
  <1>9. ASSUME NEW t \in Tabs, Snapshot(t) PROVE TypeInv'
    <2>1. PICK s \in Listings(pending) : inbox' = [inbox EXCEPT ![t] = s \o @]
      BY <1>9 DEF Snapshot
    <2>2. s \in Seq(Requests)
      <3>1. Cardinality(pending) \in Nat
        BY FS_CardinalityType
      <3>2. s \in [1 .. Cardinality(pending) -> Requests]
        BY <2>1 DEF Listings
      <3>3. QED
        BY ONLY <3>1, <3>2
    <2>3. s \o inbox[t] \in Seq(Requests)
      BY <2>2, ConcatProperties DEF Frontends
    <2>4. QED
      BY <1>9, <2>1, <2>3 DEF Snapshot, broker, Frontends
  <1>10. ASSUME NEW t \in Tabs, Disconnect(t) PROVE TypeInv'
    BY <1>10, EmptySeq DEF Disconnect, broker
  <1>11. ASSUME NEW t \in Tabs, Show(t) PROVE TypeInv'
    BY <1>11, TakeType DEF Show, broker, Frontends
  <1>12. ASSUME NEW t \in Tabs, NEW r \in Requests, Answer(t, r) PROVE TypeInv'
    <2>1. inbox' \in [Frontends -> Seq(Requests)] /\ cards' \in [Frontends -> SUBSET Requests]
      BY <1>12 DEF Answer
    <2>2. QED
      BY <1>12, <2>1, RespondType DEF Answer, Frontends
  <1>13. ASSUME Ask PROVE TypeInv'
    BY <1>13, TakeType DEF Ask, broker, Frontends
  <1>14. ASSUME EditorAnswers PROVE TypeInv'
    <2>1. PICK r \in cards[Bridge] : Respond(Bridge, r) /\ cards' = [cards EXCEPT ![Bridge] = {}]
                                     /\ UNCHANGED <<conn, inbox, connects>>
      BY <1>14 DEF EditorAnswers
    <2>2. r \in Requests
      BY <2>1 DEF Frontends
    <2>3. QED
      BY <2>1, <2>2, RespondType DEF Frontends
  <1>15. ASSUME TerminalTakes PROVE TypeInv'
    BY <1>15, TakeType DEF TerminalTakes, broker, Frontends
  <1>16. ASSUME TerminalAnswers PROVE TypeInv'
    BY <1>16, RespondType DEF TerminalAnswers, clients, Frontends
  <1>17. CASE UNCHANGED vars
    BY <1>17 DEF vars, broker, clients
  <1>18. QED
    BY <1>1, <1>2, <1>3, <1>4, <1>5, <1>6, <1>7, <1>8, <1>9, <1>10, <1>11, <1>12, <1>13,
       <1>14, <1>15, <1>16, <1>17 DEF Next, Loops, Web

(* Type correctness: the broker and every subscription keep to their       *)
(* types, with any frontends coming and going.                             *)
THEOREM TypeCorrect == Spec => []TypeOK
  <1>1. Spec => []TypeInv
    BY TypeInit, TypeNext, PTL DEF Spec
  <1>2. TypeInv => TypeOK
    BY DEF TypeInv
  <1>3. QED
    BY <1>1, <1>2, PTL

-----------------------------------------------------------------------------
(* Responses. *)

\* FirstResponseWins is not inductive: a request in the map has an empty oneshot,
\* and what is in a oneshot is all that was ever accepted.
Settled(r) ==
  /\ r \in pending => state[r] \in {"inserted", "waiting", "dropped"} /\ slot[r] = Nobody
  /\ r \in pending => r \notin Unheard
  /\ state[r] = "new" \/ r \in Unheard => slot[r] = Nobody
  /\ heard[r] = IF slot[r] = Nobody THEN {} ELSE {slot[r]}
  /\ state[r] = "answered" => slot[r] # Nobody
  /\ slot[r] # Nobody =>
       r \in cancelled \union Nested \/ state[r] \in {"inserted", "waiting", "answered"}

ResponseInv == TypeInv /\ \A r \in Requests : Settled(r)

LEMMA ResponseInit == Init => ResponseInv
  BY TypeInit DEF Init, ResponseInv, Settled

\* A response is accepted once, into an empty oneshot.
LEMMA RespondSettles ==
  ASSUME ResponseInv, NEW f \in Frontends, NEW r \in Requests, Respond(f, r)
  PROVE  \A q \in Requests : Settled(q)'
  <1> SUFFICES ASSUME NEW q \in Requests PROVE Settled(q)'
    OBVIOUS
  <1>1. f # Nobody
    BY FrontendsDiffer
  <1>2. Settled(q)
    BY DEF ResponseInv
  <1>3. CASE q = r
    BY <1>1, <1>2, <1>3 DEF Respond, Settled, ResponseInv, TypeInv, TypeOK
  <1>4. CASE q # r
    <2>1. slot'[q] = slot[q] /\ heard'[q] = heard[q] /\ (q \in pending' <=> q \in pending)
      BY <1>4 DEF Respond, ResponseInv, TypeInv, TypeOK
    <2>2. QED
      BY <1>2, <2>1 DEF Respond, Settled
  <1>5. QED
    BY <1>3, <1>4

LEMMA ResponseNext == ResponseInv /\ [Next]_vars => ResponseInv'
  <1> SUFFICES ASSUME ResponseInv, [Next]_vars PROVE ResponseInv'
    OBVIOUS
  <1>a. TypeInv'
    BY TypeNext DEF ResponseInv
  <1>b. SUFFICES \A q \in Requests : Settled(q)'
    BY <1>a DEF ResponseInv
  <1> USE DEF ResponseInv, TypeInv, TypeOK, Settled, Become
  <1>1. ASSUME NEW r \in Requests, Insert(r) PROVE \A q \in Requests : Settled(q)'
    BY <1>1 DEF Insert
  <1>2. ASSUME NEW r \in Requests, Publish(r) PROVE \A q \in Requests : Settled(q)'
    BY <1>2 DEF Publish
  <1>3. ASSUME NEW r \in Requests, TakeResponse(r) PROVE \A q \in Requests : Settled(q)'
    BY <1>3 DEF TakeResponse
  <1>4. ASSUME NEW r \in Requests, TakeCancel(r) PROVE \A q \in Requests : Settled(q)'
    BY <1>4 DEF TakeCancel
  <1>5. ASSUME NEW r \in Requests, Drop(r) PROVE \A q \in Requests : Settled(q)'
    BY <1>5 DEF Drop
  <1>6. ASSUME NEW s \in Sessions, Cancel(s) PROVE \A q \in Requests : Settled(q)'
    BY <1>6 DEF Cancel
  <1>7. ASSUME UNCHANGED broker, UNCHANGED heard PROVE \A q \in Requests : Settled(q)'
    BY <1>7 DEF broker
  <1>8. ASSUME FanOut PROVE \A q \in Requests : Settled(q)'
    BY <1>8 DEF FanOut
  <1>9. ASSUME NEW t \in Tabs, NEW r \in Requests, Answer(t, r) PROVE \A q \in Requests : Settled(q)'
    BY <1>9, RespondSettles DEF Answer, Frontends
  <1>10. ASSUME EditorAnswers PROVE \A q \in Requests : Settled(q)'
    <2>1. PICK r \in cards[Bridge] : Respond(Bridge, r)
      BY <1>10 DEF EditorAnswers
    <2>2. r \in Requests
      BY <2>1 DEF Frontends
    <2>3. QED
      BY <2>1, <2>2, RespondSettles DEF Frontends
  <1>11. ASSUME TerminalAnswers PROVE \A q \in Requests : Settled(q)'
    BY <1>11, RespondSettles DEF TerminalAnswers, Frontends
  <1>12. ASSUME NEW t \in Tabs, Connect(t) \/ Snapshot(t) \/ Disconnect(t) \/ Show(t)
         PROVE  UNCHANGED broker /\ UNCHANGED heard
    BY <1>12 DEF Connect, Snapshot, Disconnect, Show
  <1>13. ASSUME Ask \/ TerminalTakes \/ UNCHANGED vars PROVE UNCHANGED broker /\ UNCHANGED heard
    BY <1>13 DEF Ask, TerminalTakes, vars
  <1>14. QED
    BY ONLY <1>1, <1>2, <1>3, <1>4, <1>5, <1>6, <1>7, <1>8, <1>9, <1>10, <1>11, <1>12, <1>13,
            [Next]_vars DEF Next, Loops, Web

LEMMA ResponsesAlways == Spec => []ResponseInv
  BY ResponseInit, ResponseNext, PTL DEF Spec

(* At most one response of a request is accepted, and a loop that goes on  *)
(* with a response goes on with that one, whatever the frontends, the      *)
(* cancellations and the scripts that give up do.                          *)
THEOREM OneResponse == Spec => []FirstResponseWins
  <1>1. ResponseInv => FirstResponseWins
    <2> SUFFICES ASSUME ResponseInv, NEW r \in Requests
                 PROVE  /\ Cardinality(heard[r]) <= 1
                        /\ state[r] = "answered" => heard[r] = {slot[r]}
                        /\ heard[r] # {} =>
                             r \in cancelled \union Nested \/ state[r] \in {"inserted", "waiting", "answered"}
      BY DEF FirstResponseWins
    <2>1. Settled(r)
      BY DEF ResponseInv
    <2>2. Cardinality({}) = 0 /\ Cardinality({slot[r]}) = 1
      BY FS_EmptySet, FS_Singleton
    <2>3. QED
      BY <2>1, <2>2 DEF Settled
  <1>2. QED
    BY <1>1, ResponsesAlways, PTL

-----------------------------------------------------------------------------
(* What the tabs see. *)

SeenInv == ResponseInv /\ NothingMissed

LEMMA SeenNext == SeenInv /\ [Next]_vars => SeenInv'
  <1> SUFFICES ASSUME SeenInv, [Next]_vars PROVE NothingMissed'
    BY ResponseNext DEF SeenInv
  <1>t. TypeInv /\ TypeOK /\ ResponseInv /\ NothingMissed
    BY DEF SeenInv, ResponseInv, TypeInv
  <1>f. \A t \in Tabs : t \in Frontends /\ t # Bridge /\ t # Terminal
    BY FrontendsDiffer DEF Frontends
  <1>1. ASSUME NEW r \in Requests, Insert(r) PROVE NothingMissed'
    <2>1. state'[r] = "inserted" /\ pending' \subseteq pending \union {r}
      BY <1>1, <1>t DEF Insert, Become, TypeOK
    <2>2. \A q \in pending : q # r => state'[q] = state[q]
      BY <1>1, <1>t DEF Insert, Become, TypeOK
    <2>3. QED
      BY <1>1, <1>t, <2>1, <2>2 DEF Insert, NothingMissed, clients
  <1>2. ASSUME NEW r \in Requests, Publish(r) PROVE NothingMissed'
    <2>1. pending' = pending /\ conn' = conn /\ cards' = cards /\ inbox' = inbox
      BY <1>2 DEF Publish, clients
    <2>2. \A q \in pending : q # r => state'[q] = state[q]
      BY <1>2, <1>t DEF Publish, Become, TypeOK
    <2>3. r \in pending => channel' = Append(channel, r)
      BY <1>2, <1>t DEF Publish, ResponseInv, Settled
    <2>4. Range(channel) \subseteq Range(channel') /\ (r \in pending => r \in Range(channel'))
      <3>1. Range(Append(channel, r)) = Range(channel) \union {r}
        BY <1>t, RangeOfAppend DEF TypeOK
      <3>2. QED
        BY <1>2, <2>3, <3>1 DEF Publish
    <2>5. QED
      BY <1>t, <2>1, <2>2, <2>4 DEF NothingMissed
  <1>3. ASSUME NEW r \in Requests, TakeResponse(r) \/ TakeCancel(r) \/ Drop(r) PROVE NothingMissed'
    <2>1. /\ pending' \subseteq pending /\ conn' = conn /\ cards' = cards /\ inbox' = inbox
          /\ channel' = channel
      BY <1>3 DEF TakeResponse, TakeCancel, Drop, clients
    <2>2. \A q \in Requests : state[q] = "inserted" => state'[q] = "inserted"
      BY <1>3, <1>t DEF TakeResponse, TakeCancel, Drop, Become, TypeOK
    <2>3. QED
      BY <1>t, <2>1, <2>2 DEF NothingMissed, TypeOK
  <1>4. ASSUME NEW s \in Sessions, Cancel(s) PROVE NothingMissed'
    BY <1>4, <1>t DEF Cancel, NothingMissed, clients
  <1>5. ASSUME FanOut PROVE NothingMissed'
    <2>1. Range(channel) = {Head(channel)} \union Range(channel')
      BY <1>5, <1>t, RangeOfTail DEF FanOut, TypeOK
    <2>2. ASSUME NEW t \in Tabs, conn[t] = "on"
          PROVE  Range(inbox'[t]) = Range(inbox[t]) \union {Head(channel)}
      <3>1. Head(channel) \in Requests
        BY <1>5, <1>t, HeadTailProperties DEF FanOut, TypeOK
      <3>2. inbox'[t] = Append(inbox[t], Head(channel)) /\ inbox[t] \in Seq(Requests)
        BY <1>5, <1>t, <1>f, <2>2 DEF FanOut, TypeOK
      <3>3. QED
        BY <3>1, <3>2, RangeOfAppend
    <2>3. QED
      BY <1>5, <1>t, <2>1, <2>2 DEF FanOut, NothingMissed
  <1>6. ASSUME NEW t \in Tabs, Connect(t) \/ Disconnect(t) PROVE NothingMissed'
    <2>1. \A u \in Tabs : conn'[u] = "on" => u # t /\ conn[u] = "on" /\ inbox'[u] = inbox[u]
      BY <1>6, <1>t, <1>f DEF Connect, Disconnect, TypeOK
    <2>2. /\ pending' = pending /\ state' = state /\ channel' = channel /\ cards' = cards
      BY <1>6 DEF Connect, Disconnect, broker
    <2>3. QED
      BY <1>t, <2>1, <2>2 DEF NothingMissed
  <1>7. ASSUME NEW t \in Tabs, Snapshot(t) PROVE NothingMissed'
    <2>1. PICK s \in Listings(pending) : inbox' = [inbox EXCEPT ![t] = s \o @]
      BY <1>7 DEF Snapshot
    <2>2. s \in Seq(Requests) /\ Range(s) = pending
      <3>1. Cardinality(pending) \in Nat /\ pending \subseteq Requests
        BY <1>t, FS_CardinalityType DEF TypeInv, TypeOK
      <3>2. s \in [1 .. Cardinality(pending) -> Requests] /\ Range(s) = pending
        BY <2>1, <3>1 DEF Listings
      <3>3. QED
        BY ONLY <3>1, <3>2
    <2>3. Range(s \o inbox[t]) = Range(s) \union Range(inbox[t])
      <3>1. inbox[t] \in Seq(Requests)
        BY <1>t, <1>f DEF TypeOK
      <3>2. QED
        BY <2>2, <3>1, RangeConcatenation
    <2>4. pending \subseteq Range(inbox'[t])
      BY <1>t, <1>f, <2>1, <2>2, <2>3 DEF TypeOK
    <2>5. \A u \in Tabs : u # t => inbox'[u] = inbox[u] /\ conn'[u] = conn[u]
      BY <1>7, <1>t, <1>f, <2>1 DEF Snapshot, TypeOK
    <2>6. pending' = pending /\ state' = state /\ channel' = channel /\ cards' = cards
      BY <1>7 DEF Snapshot, broker
    <2>7. QED
      BY <1>t, <2>4, <2>5, <2>6 DEF NothingMissed
  <1>8. ASSUME NEW t \in Tabs, Show(t) PROVE NothingMissed'
    <2>1. Range(inbox[t]) = {Head(inbox[t])} \union Range(Tail(inbox[t]))
      BY <1>8, <1>t, <1>f, RangeOfTail DEF Show, TypeOK
    <2>2. inbox'[t] = Tail(inbox[t]) /\ cards'[t] = cards[t] \union {Head(inbox[t])}
      BY <1>8, <1>t, <1>f DEF Show, Take, TypeOK
    <2>3. \A u \in Tabs : u # t => inbox'[u] = inbox[u] /\ cards'[u] = cards[u]
      BY <1>8, <1>t, <1>f DEF Show, Take, TypeOK
    <2>4. pending' = pending /\ state' = state /\ channel' = channel /\ conn' = conn
      BY <1>8 DEF Show, broker
    <2>5. QED
      BY <1>t, <2>1, <2>2, <2>3, <2>4 DEF NothingMissed
  <1>9. ASSUME NEW t \in Tabs, NEW r \in Requests, Answer(t, r) PROVE NothingMissed'
    <2>1. /\ pending' = pending \ {r} /\ state' = state /\ channel' = channel
          /\ conn' = conn /\ inbox' = inbox
      BY <1>9 DEF Answer, Respond
    <2>2. \A u \in Tabs : cards[u] \ {r} \subseteq cards'[u]
      BY <1>9, <1>t, <1>f DEF Answer, TypeOK
    <2>3. QED
      BY <1>t, <2>1, <2>2 DEF NothingMissed
  <1>10. ASSUME Ask \/ TerminalTakes PROVE NothingMissed'
    <2>1. \A u \in Tabs : inbox'[u] = inbox[u] /\ cards'[u] = cards[u]
      BY <1>10, <1>t, <1>f DEF Ask, TerminalTakes, Take, TypeOK
    <2>2. pending' = pending /\ state' = state /\ channel' = channel /\ conn' = conn
      BY <1>10 DEF Ask, TerminalTakes, broker
    <2>3. QED
      BY <1>t, <2>1, <2>2 DEF NothingMissed
  <1>11. ASSUME EditorAnswers \/ TerminalAnswers PROVE NothingMissed'
    <2>1. \A u \in Tabs : cards'[u] = cards[u]
      BY <1>11, <1>t, <1>f DEF EditorAnswers, TerminalAnswers, TypeOK, clients
    <2>2. /\ pending' \subseteq pending /\ state' = state /\ channel' = channel
          /\ conn' = conn /\ inbox' = inbox
      BY <1>11 DEF EditorAnswers, TerminalAnswers, Respond, clients
    <2>3. QED
      BY <1>t, <2>1, <2>2 DEF NothingMissed
  <1>12. CASE UNCHANGED vars
    BY <1>12, <1>t DEF vars, broker, clients, NothingMissed
  <1>13. QED
    BY ONLY <1>1, <1>2, <1>3, <1>4, <1>5, <1>6, <1>7, <1>8, <1>9, <1>10, <1>11, <1>12,
            [Next]_vars DEF Next, Loops, Web

(* A connected tab never misses a request that waits: subscribing before   *)
(* reading the map leaves no gap, for any tabs and requests.               *)
THEOREM TabsMissNothing == Spec => []NothingMissed
  <1>1. Init => SeenInv
    BY ResponseInit DEF SeenInv, Init, NothingMissed
  <1>2. SeenInv => NothingMissed
    BY DEF SeenInv
  <1>3. QED
    BY <1>1, SeenNext, <1>2, PTL DEF Spec

-----------------------------------------------------------------------------
(* The dialogs of the terminal. *)

\* What the terminal keeps: answered tools, waiting requests, open dialogs.
Answers == [verdict : {"approved", "rejected", "answered"},
            shown : {<<>>} \union (Requests \X Nat)]
Entries == [req : Requests, given : Seq(Answers)]
Shown   == [kind : Kinds \union {"question"}, req : Requests, index : Nat]

TerminalType ==
  /\ TypeInv
  /\ active \in Sessions \union {NoSession}
  /\ entries \in [Sessions -> Entries \union {None}]
  /\ dialogs \in Seq(Shown)
  /\ cache \in [Kinds -> [Paths -> {"unknown", "allow", "deny"}]]
  /\ processing \in BOOLEAN

Waits(s) == entries[s] # None

LEMMA EntryIsSome ==
  /\ \A e \in Entries : e # None
  /\ \A r \in Requests : [req |-> r, given |-> <<>>] \in Entries
  <1>1. ASSUME NEW e \in Entries PROVE e # None
    <2>1. "given" \in DOMAIN e
      BY DEF Entries
    <2>2. "given" \notin DOMAIN None
      BY DEF None
    <2>3. QED
      BY <2>1, <2>2
  <1>2. \A r \in Requests : [req |-> r, given |-> <<>>] \in Entries
    BY EmptySeq DEF Entries
  <1>3. QED
    BY <1>1, <1>2

LEMMA WaitingEntry ==
  ASSUME TerminalType, NEW s \in Sessions, Waits(s)
  PROVE  /\ entries[s] \in Entries /\ entries[s].req \in Requests
         /\ entries[s].given \in Seq(Answers) /\ Len(entries[s].given) \in Nat
  <1>1. entries[s] \in Entries
    BY DEF TerminalType, Waits
  <1>2. entries[s].req \in Requests /\ entries[s].given \in Seq(Answers)
    BY <1>1 DEF Entries
  <1>3. QED
    BY <1>1, <1>2, LenProperties

\* An entry whose answers have changed.
LEMMA NewAnswers ==
  ASSUME TerminalType, NEW s \in Sessions, Waits(s), NEW g \in Seq(Answers),
         entries' = [entries EXCEPT ![s].given = g]
  PROVE  /\ entries' \in [Sessions -> Entries \union {None}]
         /\ entries'[s] \in Entries /\ entries'[s].req = entries[s].req
         /\ entries'[s].given = g
         /\ \A u \in Sessions : u # s => entries'[u] = entries[u]
  <1>1. entries[s] \in Entries
    BY WaitingEntry
  <1>2. [entries[s] EXCEPT !.given = g] \in Entries
    BY <1>1 DEF Entries
  <1>3. entries' = [entries EXCEPT ![s] = [entries[s] EXCEPT !.given = g]]
    OBVIOUS
  <1>4. [entries[s] EXCEPT !.given = g].req = entries[s].req
        /\ [entries[s] EXCEPT !.given = g].given = g
    BY <1>1 DEF Entries
  <1>5. QED
    BY <1>2, <1>3, <1>4 DEF TerminalType

\* A non-empty set of numbers has a least element.
LEMMA LeastOf ==
  ASSUME NEW S \in SUBSET Nat, S # {}
  PROVE  \E x \in S : \A y \in S : x <= y
  <1>1. PICK x \in S : \A y \in S : ~(<<y, x>> \in OpToRel(<, Nat))
    BY NatLessThanWellFounded, WFMin
  <1>2. \A y \in S : ~(y < x)
    BY <1>1 DEF OpToRel
  <1>3. QED
    BY <1>2

\* A tool that is approved without a dialog stays on allowed paths.
Covered(k, p) == p = <<>> \/ \E q \in Paths : IsPrefix(q, p) /\ cache[k][q] = "allow"

LEMMA KnownFacts ==
  ASSUME TerminalType, NEW k \in Kinds, NEW p \in Paths
  PROVE  /\ Known(k, p) \in {"unknown", "allow", "deny"}
         /\ Known(k, p) = "allow" => \E q \in Paths : IsPrefix(q, p) /\ cache[k][q] = "allow"
  <1> DEFINE decided == {q \in Paths : cache[k][q] # "unknown" /\ IsPrefix(q, p)}
  <1>1. CASE decided = {}
    BY <1>1 DEF Known
  <1>2. CASE decided # {}
    <2>1. \A q \in Paths : Len(q) \in Nat
      BY PathsAreSequences, LenProperties
    <2>2. \A q \in decided : Len(q) <= Len(p)
      BY DEF IsPrefix
    <2> DEFINE above == {Len(p) - Len(q) : q \in decided}
    <2>3. above \in SUBSET Nat /\ above # {}
      BY <1>2, <2>1, <2>2
    <2>4. PICK x \in above : \A y \in above : x <= y
      BY <2>3, LeastOf
    <2>5. PICK q \in decided : x = Len(p) - Len(q)
      OBVIOUS
    <2>6. ASSUME NEW o \in decided PROVE Len(o) <= Len(q)
      <3>1. x <= Len(p) - Len(o)
        BY <2>4
      <3>2. Len(p) \in Nat /\ Len(o) \in Nat /\ Len(q) \in Nat
        BY <2>1
      <3>3. QED
        BY <2>5, <3>1, <3>2
    <2> DEFINE c == CHOOSE d \in decided : \A o \in decided : Len(o) <= Len(d)
    <2>7. c \in decided
      BY <2>6
    <2>8. Known(k, p) = cache[k][c]
      BY <1>2 DEF Known
    <2>9. QED
      BY <2>7, <2>8 DEF TerminalType
  <1>3. QED
    BY <1>1, <1>2

LEMMA StageFacts ==
  ASSUME TerminalType,
         NEW tool \in [boundary : Paths, sensitive : Paths, question : BOOLEAN]
  PROVE  /\ Stage(tool) \in Kinds \union {"question", "approved", "rejected"}
         /\ Stage(tool) = "question" => tool.question
         /\ Stage(tool) = "approved" =>
              Covered("boundary", tool.boundary) /\ Covered("sensitive", tool.sensitive)
  <1> DEFINE b == Standing("boundary", tool.boundary)
             s == Standing("sensitive", tool.sensitive)
  <1>1. b = "allow" => Covered("boundary", tool.boundary)
    BY KnownFacts DEF Standing, Covered, Kinds
  <1>2. s = "allow" => Covered("sensitive", tool.sensitive)
    BY KnownFacts DEF Standing, Covered, Kinds
  <1>3. b \in {"unknown", "allow", "deny"} /\ s \in {"unknown", "allow", "deny"}
    BY KnownFacts DEF Standing, Kinds
  <1>4. Stage(tool) = CASE b = "unknown" -> "boundary"
                        [] b = "deny" \/ (b = "allow" /\ s = "deny") -> "rejected"
                        [] b = "allow" /\ s = "unknown" -> "sensitive"
                        [] OTHER -> IF tool.question THEN "question" ELSE "approved"
    BY DEF Stage
  <1> HIDE DEF b, s
  <1>5. CASE b = "unknown"
    BY <1>4, <1>5 DEF Kinds
  <1>6. CASE b = "deny" \/ (b = "allow" /\ s = "deny")
    BY <1>4, <1>6
  <1>7. CASE b = "allow" /\ s = "unknown"
    BY <1>4, <1>7 DEF Kinds
  <1>8. CASE b = "allow" /\ s = "allow"
    <2>1. Stage(tool) = IF tool.question THEN "question" ELSE "approved"
      BY <1>4, <1>8
    <2>2. QED
      BY <1>1, <1>2, <1>8, <2>1
  <1>9. QED
    BY <1>3, <1>5, <1>6, <1>7, <1>8

LEMMA ToolFacts ==
  ASSUME NEW r \in Requests
  PROVE  /\ Len(Tools[r]) \in Nat \ {0}
         /\ \A i \in 1 .. Len(Tools[r]) :
              Tools[r][i] \in [boundary : Paths, sensitive : Paths, question : BOOLEAN]
  <1>1. Tools[r] # <<>> /\ Tools[r] \in Seq([boundary : Paths, sensitive : Paths, question : BOOLEAN])
    BY ToolsAreListed
  <1>2. QED
    BY <1>1, EmptySeq, ElementOfSeq

LEMMA FunctionIsSeq ==
  ASSUME NEW S, NEW n \in Nat, NEW f \in [1 .. n -> S]
  PROVE  f \in Seq(S) /\ Len(f) = n
  OBVIOUS

\* process_next_tool goes on to the first tool that needs a dialog: `to`.
Settles(to, g) ==
  LET e == entries[active]
      n == Len(e.given)
      tools == Tools[e.req]
  IN  /\ n < to /\ to <= Len(tools) + 1 /\ n < Len(tools) /\ Len(g) = to - 1
      /\ \A i \in 1 .. n : g[i] = e.given[i]
      /\ \A i \in n + 1 .. to - 1 : /\ g[i] = Decided(Stage(tools[i]))
                                    /\ Stage(tools[i]) \in {"approved", "rejected"}
      /\ to <= Len(tools) => Stage(tools[to]) \in Kinds \union {"question"}
      /\ entries' = [entries EXCEPT ![active].given = g]
      /\ dialogs' = IF to > Len(tools) THEN dialogs
           ELSE Append(dialogs, [kind |-> Stage(tools[to]), req |-> e.req, index |-> to])
      /\ (to > Len(tools) => processing' = TRUE) /\ (to <= Len(tools) => processing' = FALSE)

LEMMA SettleFacts ==
  ASSUME TerminalType, Settle
  PROVE  /\ active \in Sessions /\ Waits(active) /\ processing
         /\ \E to \in Nat, g \in Seq(Answers) : Settles(to, g)
  <1>1. active \in Sessions /\ Waits(active) /\ processing
    BY DEF Settle, TerminalType, Entry, Waits
  <1> DEFINE e == entries[active]
             n == Len(e.given)
             tools == Tools[e.req]
             to == NextShown(tools, n + 1)
             settled == [i \in 1 .. to - (n + 1) |-> Decided(Stage(tools[n + 1 + i - 1]))]
             g == e.given \o settled
  <1>2. e.req \in Requests /\ e.given \in Seq(Answers) /\ n \in Nat
    BY <1>1, WaitingEntry
  <1>3. /\ Len(tools) \in Nat
        /\ \A i \in 1 .. Len(tools) :
             /\ Stage(tools[i]) \in Kinds \union {"question", "approved", "rejected"}
             /\ tools[i] \in [boundary : Paths, sensitive : Paths, question : BOOLEAN]
    BY <1>2, ToolFacts, StageFacts
  <1>4. /\ n + 1 <= Len(tools)
        /\ entries' = [entries EXCEPT ![active].given = g]
        /\ dialogs' = IF to > Len(tools) THEN dialogs
             ELSE Append(dialogs, [kind |-> Stage(tools[to]), req |-> e.req, index |-> to])
        /\ processing' = (to > Len(tools))
    <2>1. entries' = [entries EXCEPT ![active].given = @ \o settled]
      BY DEF Settle, Entry
    <2>2. n + 1 <= Len(tools)
      BY DEF Settle, Entry
    <2>3. processing' = (to > Len(tools))
      BY DEF Settle, Entry
    <2>4. dialogs' = IF to > Len(tools) THEN dialogs
             ELSE Append(dialogs, [kind |-> Stage(tools[to]), req |-> e.req, index |-> to])
      BY DEF Settle, Entry
    <2>5. QED
      BY <2>1, <2>2, <2>3, <2>4
  <1>5. /\ to \in n + 1 .. Len(tools) + 1
        /\ to <= Len(tools) => Stage(tools[to]) \notin {"approved", "rejected"}
        /\ \A i \in n + 1 .. to - 1 : Stage(tools[i]) \in {"approved", "rejected"}
    <2> DEFINE shown == {j \in n + 1 .. Len(tools) : Stage(tools[j]) \notin {"approved", "rejected"}}
    <2>1. to = IF shown = {} THEN Len(tools) + 1 ELSE Min(shown)
      BY DEF NextShown
    <2>2. CASE shown = {}
      <3>1. to = Len(tools) + 1
        BY <2>1, <2>2
      <3>2. \A i \in n + 1 .. Len(tools) : Stage(tools[i]) \in {"approved", "rejected"}
        BY <2>2
      <3> HIDE DEF to
      <3>3. QED
        BY <1>2, <1>3, <1>4, <3>1, <3>2
    <2>3. CASE shown # {}
      <3>1. shown \in SUBSET Nat
        BY <1>2, <1>3
      <3>2. \E x \in shown : \A y \in shown : x <= y
        BY <2>3, <3>1, LeastOf
      <3>3. to \in shown /\ \A y \in shown : to <= y
        BY <2>1, <2>3, <3>2 DEF Min
      <3> HIDE DEF to
      <3>4. ASSUME NEW i \in n + 1 .. to - 1 PROVE Stage(tools[i]) \in {"approved", "rejected"}
        <4>1. to \in Nat /\ to <= Len(tools) /\ i < to
          BY <1>2, <1>3, <3>3
        <4>2. i \notin shown
          BY <1>2, <3>3, <4>1
        <4>3. QED
          BY <1>2, <1>3, <4>1, <4>2
      <3>5. QED
        BY <1>2, <1>3, <3>3, <3>4
    <2>4. QED
      BY <2>2, <2>3
  <1>6. /\ settled \in Seq(Answers) /\ Len(settled) = to - (n + 1)
        /\ \A i \in 1 .. to - (n + 1) : settled[i] = Decided(Stage(tools[n + 1 + i - 1]))
    <2> HIDE DEF to
    <2>1. to - (n + 1) \in Nat
      BY <1>2, <1>3, <1>5
    <2>2. \A i \in 1 .. to - (n + 1) : Decided(Stage(tools[n + 1 + i - 1])) \in Answers
      <3> SUFFICES ASSUME NEW i \in 1 .. to - (n + 1)
                   PROVE  Decided(Stage(tools[n + 1 + i - 1])) \in Answers
        OBVIOUS
      <3>1. n + 1 + i - 1 \in n + 1 .. to - 1
        BY <1>2, <1>3, <1>5
      <3>2. QED
        BY <1>5, <3>1 DEF Decided, Answers
    <2>3. settled \in [1 .. to - (n + 1) -> Answers]
      BY <2>2
    <2>4. \A i \in 1 .. to - (n + 1) : settled[i] = Decided(Stage(tools[n + 1 + i - 1]))
      OBVIOUS
    <2> HIDE DEF settled
    <2>5. QED
      BY <2>1, <2>3, <2>4, FunctionIsSeq
  <1>7. g \in Seq(Answers) /\ Len(g) = to - 1
    <2> HIDE DEF to, settled
    <2>1. g \in Seq(Answers) /\ Len(g) = n + Len(settled)
      BY <1>2, <1>6, ConcatProperties
    <2>2. QED
      BY <1>2, <1>3, <1>5, <1>6, <2>1
  <1>8. \A i \in 1 .. n : g[i] = e.given[i]
    <2> HIDE DEF to, settled
    <2>1. \A i \in 1 .. n + Len(settled) :
            g[i] = IF i <= n THEN e.given[i] ELSE settled[i - n]
      BY <1>2, <1>6, ConcatProperties
    <2>2. QED
      BY <1>2, <1>3, <1>5, <1>6, <2>1
  <1>9. \A i \in n + 1 .. to - 1 : g[i] = Decided(Stage(tools[i]))
    <2> HIDE DEF to, settled
    <2> SUFFICES ASSUME NEW i \in n + 1 .. to - 1 PROVE g[i] = Decided(Stage(tools[i]))
      OBVIOUS
    <2>1. g[i] = settled[i - n]
      <3>1. \A j \in 1 .. n + Len(settled) :
              g[j] = IF j <= n THEN e.given[j] ELSE settled[j - n]
        BY <1>2, <1>6, ConcatProperties
      <3>2. i \in 1 .. n + Len(settled) /\ ~(i <= n)
        BY <1>2, <1>3, <1>5, <1>6
      <3>3. QED
        BY <3>1, <3>2
    <2>2. i - n \in 1 .. to - (n + 1) /\ n + 1 + (i - n) - 1 = i
      <3>1. n \in Nat /\ to \in n + 1 .. Len(tools) + 1 /\ i \in n + 1 .. to - 1
        BY <1>2, <1>5
      <3> HIDE DEF n, tools
      <3>2. QED
        BY <3>1
    <2>3. QED
      BY <1>6, <2>1, <2>2
  <1>10. to \in Nat
    <2>1. n \in Nat /\ to \in n + 1 .. Len(tools) + 1
      BY <1>2, <1>5
    <2> HIDE DEF to, n, tools
    <2>2. QED
      BY <2>1
  <1>11. Settles(to, g)
    <2> HIDE DEF to, g
    <2>1. n < to /\ to <= Len(tools) + 1 /\ n < Len(tools)
      BY <1>2, <1>3, <1>4, <1>5
    <2>2. to <= Len(tools) => Stage(tools[to]) \in Kinds \union {"question"}
      <3> SUFFICES ASSUME to <= Len(tools) PROVE Stage(tools[to]) \in Kinds \union {"question"}
        OBVIOUS
      <3>1. to \in 1 .. Len(tools)
        BY <1>2, <1>3, <1>10, <2>1
      <3>2. QED
        BY <1>3, <1>5, <3>1
    <2>3. (to > Len(tools) => processing' = TRUE) /\ (to <= Len(tools) => processing' = FALSE)
      <3>1. to <= Len(tools) => ~(to > Len(tools))
        BY <1>2, <1>3, <1>10
      <3>2. processing' = (to > Len(tools))
        BY <1>4
      <3> DEFINE b == to > Len(tools)
      <3>3. processing' = b /\ (to <= Len(tools) => ~b) /\ b \in BOOLEAN
        BY <3>1, <3>2
      <3> HIDE DEF b
      <3>4. (b => processing' = TRUE) /\ (~b => processing' = FALSE)
        BY <3>3
      <3>5. QED
        BY <3>3, <3>4 DEF b
    <2>4. QED
      BY <1>4, <1>5, <1>7, <1>8, <1>9, <2>1, <2>2, <2>3 DEF Settles
  <1>12. QED
    BY <1>1, <1>7, <1>10, <1>11

LEMMA ActiveEntry ==
  ASSUME TerminalType, active # NoSession, entries[active] # None
  PROVE  active \in Sessions /\ Waits(active) /\ entries[active].req \in Requests
  BY WaitingEntry DEF TerminalType, Waits

LEMMA TopDialog ==
  ASSUME TerminalType, dialogs # <<>>
  PROVE  /\ Len(dialogs) \in Nat \ {0} /\ DOMAIN dialogs = 1 .. Len(dialogs)
         /\ Top = dialogs[Len(dialogs)] /\ Top \in Shown
         /\ Front(dialogs) \in Seq(Shown) /\ Len(Front(dialogs)) = Len(dialogs) - 1
         /\ DOMAIN Front(dialogs) = 1 .. Len(dialogs) - 1
         /\ \A i \in 1 .. Len(dialogs) - 1 : Front(dialogs)[i] = dialogs[i]
  <1>1. dialogs \in Seq(Shown)
    BY DEF TerminalType
  <1>2. Len(dialogs) \in Nat \ {0} /\ DOMAIN dialogs = 1 .. Len(dialogs)
    BY <1>1, EmptySeq, LenProperties
  <1>3. Top = dialogs[Len(dialogs)] /\ \A i \in 1 .. Len(dialogs) : dialogs[i] \in Shown
    BY <1>1, ElementOfSeq DEF Top, Last
  <1>4. /\ SubSeq(dialogs, 1, Len(dialogs) - 1) \in Seq(Shown)
        /\ Len(SubSeq(dialogs, 1, Len(dialogs) - 1)) =
             IF 1 <= Len(dialogs) - 1 THEN Len(dialogs) - 1 - 1 + 1 ELSE 0
        /\ \A i \in 1 .. Len(dialogs) - 1 - 1 + 1 :
             SubSeq(dialogs, 1, Len(dialogs) - 1)[i] = dialogs[1 + i - 1]
    BY <1>2, <1>3, SubSeqProperties
  <1>5. /\ Front(dialogs) \in Seq(Shown) /\ Len(Front(dialogs)) = Len(dialogs) - 1
        /\ \A i \in 1 .. Len(dialogs) - 1 : Front(dialogs)[i] = dialogs[i]
    BY <1>2, <1>4 DEF Front
  <1>6. DOMAIN Front(dialogs) = 1 .. Len(dialogs) - 1
    BY <1>5, LenProperties
  <1>7. QED
    BY <1>2, <1>3, <1>5, <1>6

\* A dialog on top of the others.
LEMMA OneMoreDialog ==
  ASSUME TerminalType, NEW d \in Shown
  PROVE  /\ Append(dialogs, d) \in Seq(Shown) /\ Append(dialogs, d) # <<>>
         /\ Len(dialogs) \in Nat /\ Len(Append(dialogs, d)) = Len(dialogs) + 1
         /\ DOMAIN dialogs = 1 .. Len(dialogs)
         /\ DOMAIN Append(dialogs, d) = 1 .. Len(dialogs) + 1
         /\ \A i \in 1 .. Len(dialogs) : Append(dialogs, d)[i] = dialogs[i]
         /\ Append(dialogs, d)[Len(dialogs) + 1] = d
  <1>1. dialogs \in Seq(Shown)
    BY DEF TerminalType
  <1>2. QED
    BY <1>1, AppendProperties, LenProperties

\* The user's answer to a question goes to the active entry.
AnswerFrom(d) == [verdict |-> "answered", shown |-> <<d.req, d.index>>]

LEMMA AnswerFacts ==
  ASSUME TerminalType, AnswerQuestion, ~UNCHANGED entries
  PROVE  /\ active \in Sessions /\ Waits(active) /\ processing' /\ Top.kind = "question"
         /\ LET g == Append(entries[active].given, AnswerFrom(Top))
                n == Len(entries[active].given)
            IN  /\ g \in Seq(Answers) /\ n \in Nat /\ Len(g) = n + 1
                /\ \A i \in 1 .. n : g[i] = entries[active].given[i]
                /\ g[n + 1] = AnswerFrom(Top)
                /\ entries' = [entries EXCEPT ![active].given = g]
  <1>1. active # NoSession /\ entries[active] # None
    BY DEF AnswerQuestion
  <1>2. active \in Sessions /\ Waits(active)
    BY <1>1, ActiveEntry
  <1>3. entries[active].given \in Seq(Answers) /\ Len(entries[active].given) \in Nat
    BY <1>2, WaitingEntry
  <1>4. AnswerFrom(Top) \in Answers
    <2>1. Top.req \in Requests /\ Top.index \in Nat
      BY TopDialog DEF AnswerQuestion, Shown
    <2>2. QED
      BY <2>1 DEF AnswerFrom, Answers
  <1>5. /\ entries' = [entries EXCEPT ![active].given = Append(@, AnswerFrom(Top))]
        /\ processing' /\ Top.kind = "question"
    BY <1>1 DEF AnswerQuestion, AnswerFrom
  <1>6. QED
    BY <1>2, <1>3, <1>4, <1>5, AppendProperties

LEMMA TerminalInit == InitAll => TerminalType
  BY TypeInit, EmptySeq DEF InitAll, TerminalType

\* The terminal is a frontend like any other: its steps are steps of Approvals.
LEMMA DialogsStep == TerminalType /\ [NextAll]_allVars => [Next]_vars
  <1> SUFFICES ASSUME TerminalType, [NextAll]_allVars PROVE [Next]_vars
    OBVIOUS
  <1>1. CASE Elsewhere
    BY <1>1 DEF Elsewhere, Next, Loops
  <1>2. CASE Arrive
    BY <1>2 DEF Arrive, Next, TerminalTakes
  <1>3. CASE SendResponse
    <2>1. Respond(Terminal, Entry.req) /\ UNCHANGED clients
      BY <1>3 DEF SendResponse
    <2>2. Entry.req \in Requests
      BY <1>3, ActiveEntry DEF SendResponse, Entry
    <2>3. QED
      BY <2>1, <2>2 DEF Next, TerminalAnswers
  <1>4. CASE Idle \/ Settle \/ UNCHANGED allVars
    BY <1>4 DEF Idle, Settle, allVars
  <1>5. CASE User
    BY <1>5 DEF User, Decide, AnswerQuestion, Abort, DeleteCurrent, UndoCurrent, Forget, Next, Loops
  <1>6. QED
    BY <1>1, <1>2, <1>3, <1>4, <1>5 DEF NextAll

LEMMA TerminalNext == TerminalType /\ [NextAll]_allVars => TerminalType'
  <1> SUFFICES ASSUME TerminalType, [NextAll]_allVars PROVE TerminalType'
    OBVIOUS
  <1>t. TypeInv'
    BY DialogsStep, TypeNext DEF TerminalType
  <1>y. /\ active \in Sessions \union {NoSession}
        /\ entries \in [Sessions -> Entries \union {None}]
        /\ dialogs \in Seq(Shown)
        /\ cache \in [Kinds -> [Paths -> {"unknown", "allow", "deny"}]]
        /\ processing \in BOOLEAN
    BY DEF TerminalType
  <1>1. CASE UNCHANGED <<entries, active, dialogs, cache, processing>>
    BY <1>t, <1>y, <1>1 DEF TerminalType
  <1>2. CASE Arrive
    <2>1. Head(inbox[Terminal]) \in Requests
      BY <1>2, TakeType DEF Arrive, Frontends, TerminalType
    <2>2. SessionOf[Head(inbox[Terminal])] \in Sessions
      BY <2>1, RequestsHaveSessions
    <2>3. [req |-> Head(inbox[Terminal]), given |-> <<>>] \in Entries
      BY <2>1, EntryIsSome
    <2>4. QED
      BY <1>t, <1>y, <1>2, <2>2, <2>3 DEF Arrive, TerminalType
  <1>3. CASE Idle
    BY <1>t, <1>y, <1>3 DEF Idle, TerminalType
  <1>4. CASE Settle
    <2>1. active \in Sessions /\ Waits(active) /\ UNCHANGED <<active, cache>>
      BY <1>4, SettleFacts DEF Settle
    <2>2. PICK to \in Nat, g \in Seq(Answers) : Settles(to, g)
      BY <1>4, SettleFacts
    <2>3. entries' \in [Sessions -> Entries \union {None}]
      BY <2>1, <2>2, NewAnswers DEF Settles
    <2>4. dialogs' \in Seq(Shown)
      <3>1. CASE to > Len(Tools[entries[active].req])
        BY <1>y, <2>2, <3>1 DEF Settles
      <3>2. CASE ~(to > Len(Tools[entries[active].req]))
        <4> DEFINE d == [kind |-> Stage(Tools[entries[active].req][to]),
                         req |-> entries[active].req, index |-> to]
        <4>1. entries[active].req \in Requests
          BY <2>1, WaitingEntry
        <4>2. Len(Tools[entries[active].req]) \in Nat
          BY <4>1, ToolFacts
        <4>3. d.kind \in Kinds \union {"question"}
          BY <2>2, <3>2, <4>2 DEF Settles
        <4>4. d \in Shown
          BY <4>1, <4>3 DEF Shown
        <4>5. dialogs' = Append(dialogs, d)
          BY <2>2, <3>2 DEF Settles
        <4>6. QED
          BY <4>4, <4>5, OneMoreDialog
      <3>3. QED
        BY <3>1, <3>2
    <2>5. processing' \in BOOLEAN
      <3>1. Len(Tools[entries[active].req]) \in Nat
        BY <2>1, WaitingEntry, ToolFacts
      <3>2. to > Len(Tools[entries[active].req]) \/ to <= Len(Tools[entries[active].req])
        BY <3>1
      <3>3. processing' = TRUE \/ processing' = FALSE
        BY <2>2, <3>2 DEF Settles
      <3>4. QED
        BY <3>3
    <2>6. QED
      BY <1>t, <1>y, <2>1, <2>3, <2>4, <2>5 DEF TerminalType
  <1>5. CASE SendResponse
    BY <1>t, <1>y, <1>5 DEF SendResponse, Without, TerminalType
  <1>6. ASSUME NEW v \in {"allow", "deny"}, Decide(v) PROVE TerminalType'
    <2>1. dialogs' \in Seq(Shown)
      BY <1>6, TopDialog DEF Decide, Close
    <2>2. PICK k, p : cache' = [cache EXCEPT ![k][p] = v]
      BY <1>6 DEF Decide
    <2>3. cache' \in [Kinds -> [Paths -> {"unknown", "allow", "deny"}]]
      BY <1>y, <2>2
    <2>4. QED
      BY <1>t, <1>y, <1>6, <2>1, <2>3 DEF Decide, TerminalType
  <1>7. CASE AnswerQuestion
    <2>1. dialogs' \in Seq(Shown)
      BY <1>7, TopDialog DEF AnswerQuestion, Close
    <2>2. entries' \in [Sessions -> Entries \union {None}]
      <3>1. CASE UNCHANGED entries
        BY <1>y, <3>1
      <3>2. CASE ~UNCHANGED entries
        BY <1>7, <3>2, AnswerFacts, NewAnswers
      <3>3. QED
        BY <3>1, <3>2
    <2>3. QED
      BY <1>t, <1>y, <1>7, <2>1, <2>2 DEF AnswerQuestion, TerminalType
  <1>8. ASSUME NEW s \in Sessions, Abort(s) \/ DeleteCurrent(s) PROVE TerminalType'
    BY <1>t, <1>y, <1>8 DEF Abort, DeleteCurrent, Forget, Without, TerminalType
  <1>9. ASSUME NEW s \in Sessions, UndoCurrent(s) PROVE TerminalType'
    BY <1>1, <1>9 DEF UndoCurrent, terminal
  <1>10. CASE (Elsewhere /\ UNCHANGED terminal) \/ UNCHANGED allVars
    BY <1>1, <1>10 DEF terminal, allVars
  <1>11. QED
    BY <1>2, <1>3, <1>4, <1>5, <1>6, <1>7, <1>8, <1>9, <1>10 DEF NextAll, User

(* The terminal's dialogs implement the frontend that Approvals leaves     *)
(* open, so that what holds of the broker holds beneath the dialogs too.   *)
THEOREM DialogsAreAFrontend == SpecAll => Spec
  <1>1. InitAll => Init /\ TerminalType
    BY TerminalInit DEF InitAll
  <1>2. QED
    BY <1>1, DialogsStep, TerminalNext, PTL DEF SpecAll, Spec

(* The properties of the broker, of the specification the run checks.      *)
THEOREM BrokerBeneathDialogs == SpecAll => [](NothingMissed /\ FirstResponseWins)
  BY DialogsAreAFrontend, TabsMissNothing, OneResponse, PTL

-----------------------------------------------------------------------------
(* The requests the terminal has and will have. Only one frontend answers  *)
(* in its process, a session's requests come one after the other, and each *)
(* is over before the next is made.                                        *)

OthersIdle ==
  process = "tui" =>
    /\ conn[Terminal] = "on"
    /\ \A f \in Frontends \ {Terminal} : conn[f] = "off" /\ inbox[f] = <<>> /\ cards[f] = {}

NoTerminal ==
  process # "tui" =>
    /\ conn[Terminal] = "off" /\ inbox[Terminal] = <<>>
    /\ \A s \in Sessions : ~Waits(s)
    /\ dialogs = <<>> /\ ~processing /\ active = NoSession

OneAtATime ==
  /\ \A r \in Requests : /\ state[r] = "cancelled" => r \in cancelled
                         /\ state[r] = "dropped" => r \in Nested
  /\ \A q, r \in Requests :
       q # r /\ SessionOf[q] = SessionOf[r] =>
         state[q] \in Over \union {"new"} \/ state[r] \in Over \union {"new"}

\* What the terminal has still to hear of, oldest first.
Queue == inbox[Terminal] \o channel

UnansweredIn(st, sl, r) ==
  /\ st[r] \in {"waiting", "cancelled", "dropped"}
  /\ st[r] = "waiting" => sl[r] = Nobody

Unanswered(r) == UnansweredIn(state, slot, r)

Filed == \A s \in Sessions : Waits(s) => SessionOf[entries[s].req] = s

QueueInv ==
  process = "tui" =>
    /\ \A r \in Requests : state[r] \in {"new", "inserted"} => slot[r] = Nobody
    /\ \A i \in DOMAIN Queue : Unanswered(Queue[i])
    /\ \A i, j \in DOMAIN Queue :
         i < j /\ SessionOf[Queue[i]] = SessionOf[Queue[j]] => state[Queue[i]] \in Over
    /\ \A s \in Sessions : Waits(s) =>
         /\ Unanswered(entries[s].req)
         /\ \A i \in DOMAIN Queue : SessionOf[Queue[i]] = s => state[entries[s].req] \in Over

LEMMA ProcessStays == [Next]_vars => process' = process
  <1> SUFFICES ASSUME [Next]_vars PROVE process' = process
    OBVIOUS
  <1>1. CASE UNCHANGED vars
    BY <1>1 DEF vars
  <1>2. CASE Loops \/ FanOut \/ \E r \in Requests : Insert(r)
    BY <1>2 DEF Loops, Insert, Publish, TakeResponse, TakeCancel, Drop, Cancel, FanOut
  <1>3. CASE Web
    BY <1>3 DEF Web, Connect, Snapshot, Disconnect, Show, Answer, Respond
  <1>4. CASE Ask \/ EditorAnswers \/ TerminalTakes \/ TerminalAnswers
    BY <1>4 DEF Ask, EditorAnswers, TerminalTakes, TerminalAnswers, Respond
  <1>5. QED
    BY <1>1, <1>2, <1>3, <1>4 DEF Next

LEMMA OneAtATimeNext == TypeInv /\ OneAtATime /\ [Next]_vars => OneAtATime'
  <1> SUFFICES ASSUME TypeInv, OneAtATime, [Next]_vars PROVE OneAtATime'
    OBVIOUS
  <1>t. state \in [Requests -> Over \union {"new", "inserted", "waiting"}]
    BY DEF TypeInv, TypeOK
  <1>1. ASSUME NEW r \in Requests, Insert(r) PROVE OneAtATime'
    BY <1>t, <1>1 DEF Insert, Become, OneAtATime, Over
  <1>2. ASSUME NEW r \in Requests, Publish(r) PROVE OneAtATime'
    BY <1>t, <1>2 DEF Publish, Become, OneAtATime, Over
  <1>3. ASSUME NEW r \in Requests, TakeResponse(r) \/ TakeCancel(r) \/ Drop(r) PROVE OneAtATime'
    BY <1>t, <1>3 DEF TakeResponse, TakeCancel, Drop, Become, OneAtATime, Over
  <1>4. ASSUME NEW s \in Sessions, Cancel(s) PROVE OneAtATime'
    BY <1>4 DEF Cancel, OneAtATime
  <1>5. CASE UNCHANGED <<state, cancelled>>
    BY <1>5 DEF OneAtATime
  <1>6. CASE FanOut \/ Web \/ Ask \/ EditorAnswers \/ TerminalTakes \/ TerminalAnswers \/ UNCHANGED vars
    <2>1. UNCHANGED <<state, cancelled>>
      BY <1>6 DEF FanOut, Web, Connect, Snapshot, Disconnect, Show, Answer, Respond, Ask,
                  EditorAnswers, TerminalTakes, TerminalAnswers, vars, broker
    <2>2. QED
      BY <1>5, <2>1
  <1>7. QED
    BY <1>1, <1>2, <1>3, <1>4, <1>6 DEF Next, Loops

\* In the terminal's process the other frontends do nothing.
LEMMA OthersStay ==
  ASSUME TypeInv, OthersIdle, process = "tui"
  PROVE  ~Web /\ ~Ask /\ ~EditorAnswers
  <1>1. \A t \in Tabs : t \in Frontends \ {Terminal}
    BY FrontendsDiffer DEF Frontends
  <1>2. Bridge \in Frontends \ {Terminal}
    BY FrontendsDiffer DEF Frontends
  <1>3. ~Web
    BY <1>1 DEF OthersIdle, Web, Connect, Snapshot, Disconnect, Show, Answer
  <1>4. ~Ask /\ ~EditorAnswers
    BY <1>2 DEF OthersIdle, Ask, EditorAnswers
  <1>5. QED
    BY <1>3, <1>4

LEMMA OthersIdleNext == TypeInv /\ OthersIdle /\ [Next]_vars => OthersIdle'
  <1> SUFFICES ASSUME TypeInv, OthersIdle, [Next]_vars, process = "tui"
               PROVE  OthersIdle'
    BY ProcessStays DEF OthersIdle
  <1>t. inbox \in [Frontends -> Seq(Requests)] /\ Terminal \in Frontends
    BY DEF TypeInv, TypeOK, Frontends
  <1>1. CASE UNCHANGED <<conn, inbox, cards>>
    BY <1>1 DEF OthersIdle
  <1>2. CASE FanOut
    BY <1>2 DEF FanOut, OthersIdle
  <1>3. CASE TerminalTakes
    BY <1>t, <1>3 DEF TerminalTakes, Take, OthersIdle
  <1>4. CASE Loops \/ TerminalAnswers \/ UNCHANGED vars \/ \E r \in Requests : Insert(r)
    <2>1. UNCHANGED <<conn, inbox, cards>>
      BY <1>4 DEF Loops, Insert, Publish, TakeResponse, TakeCancel, Drop, Cancel,
                  TerminalAnswers, vars, clients
    <2>2. QED
      BY <1>1, <2>1
  <1>5. QED
    BY <1>2, <1>3, <1>4, OthersStay DEF Next

LEMMA NoTerminalNext == TerminalType /\ NoTerminal /\ [NextAll]_allVars => NoTerminal'
  <1> SUFFICES ASSUME TerminalType, NoTerminal, [NextAll]_allVars, process # "tui"
               PROVE  NoTerminal'
    BY DialogsStep, ProcessStays DEF NoTerminal
  <1>t. /\ inbox \in [Frontends -> Seq(Requests)] /\ Terminal \in Frontends
        /\ conn \in [Frontends -> {"off", "subscribed", "on"}]
    BY DEF TerminalType, TypeInv, TypeOK, Frontends
  <1>s. \A u \in Tabs : u # Terminal /\ Bridge # Terminal
    BY FrontendsDiffer
  <1>1. CASE Elsewhere /\ UNCHANGED terminal
    <2>1. conn'[Terminal] = "off" /\ inbox'[Terminal] = <<>>
      <3>1. CASE FanOut
        BY <1>t, <3>1 DEF FanOut, NoTerminal
      <3>2. CASE Web
        <4>1. PICK t \in Tabs : \/ Connect(t) \/ Snapshot(t) \/ Disconnect(t) \/ Show(t)
                                \/ \E r \in Requests : Answer(t, r)
          BY <3>2 DEF Web
        <4>2. CASE Connect(t) \/ Disconnect(t)
          BY <1>t, <1>s, <4>2 DEF Connect, Disconnect, NoTerminal
        <4>3. CASE Snapshot(t)
          BY <1>t, <1>s, <4>3 DEF Snapshot, NoTerminal
        <4>4. CASE Show(t)
          BY <1>t, <1>s, <4>4 DEF Show, Take, NoTerminal
        <4>5. CASE \E r \in Requests : Answer(t, r)
          BY <4>5 DEF Answer, NoTerminal
        <4>6. QED
          BY <4>1, <4>2, <4>3, <4>4, <4>5
      <3>3. CASE Ask
        BY <1>t, <1>s, <3>3 DEF Ask, Take, NoTerminal
      <3>4. CASE UNCHANGED <<conn, inbox>>
        BY <3>4 DEF NoTerminal
      <3>5. CASE EditorAnswers
        BY <3>4, <3>5 DEF EditorAnswers
      <3>6. CASE ~FanOut /\ ~Web /\ ~Ask /\ ~EditorAnswers
        <4>1. UNCHANGED <<conn, inbox>>
          BY <1>1, <3>6 DEF Elsewhere, Insert, Publish, TakeResponse, TakeCancel, Drop, Cancel, clients
        <4>2. QED
          BY <3>4, <4>1
      <3>7. QED
        BY <3>1, <3>2, <3>3, <3>5, <3>6
    <2>2. UNCHANGED <<entries, dialogs, processing, active>>
      BY <1>1 DEF terminal
    <2>3. QED
      BY <2>1, <2>2 DEF NoTerminal, Waits
  <1>2. ~Arrive /\ ~Idle /\ ~Settle /\ ~SendResponse /\ ~User
    BY DEF NoTerminal, Arrive, Idle, Settle, SendResponse, User, Decide, AnswerQuestion, Abort,
           DeleteCurrent, Forget, UndoCurrent
  <1>3. CASE UNCHANGED allVars
    BY <1>3 DEF allVars, vars, clients, terminal, NoTerminal, Waits
  <1>4. QED
    BY <1>1, <1>2, <1>3 DEF NextAll

\* How the queue changes: it hands a request on, loses its oldest, gets one more.
LEMMA QueueMoves ==
  ASSUME TypeInv
  PROVE  /\ Queue \in Seq(Requests)
         /\ Len(Queue) \in Nat /\ DOMAIN Queue = 1 .. Len(Queue)
         /\ \A i \in DOMAIN Queue : Queue[i] \in Requests
         /\ conn[Terminal] = "on" /\ FanOut => Queue' = Queue
         /\ inbox[Terminal] # <<>> /\ Take(Terminal) /\ UNCHANGED channel =>
              Queue # <<>> /\ Queue' = Tail(Queue) /\ Head(Queue) = Head(inbox[Terminal])
         /\ \A r \in Requests : UNCHANGED inbox /\ channel' = Append(channel, r) =>
              Queue' = Append(Queue, r)
  <1>1. /\ inbox[Terminal] \in Seq(Requests) /\ channel \in Seq(Requests)
        /\ inbox \in [Frontends -> Seq(Requests)] /\ Terminal \in Frontends
    BY DEF TypeInv, TypeOK, Frontends
  <1>2. /\ Queue \in Seq(Requests) /\ Len(Queue) \in Nat /\ DOMAIN Queue = 1 .. Len(Queue)
        /\ \A i \in DOMAIN Queue : Queue[i] \in Requests
    <2>1. Queue \in Seq(Requests)
      BY <1>1, ConcatProperties DEF Queue
    <2>2. QED
      BY <2>1, LenProperties, ElementOfSeq
  <1>3. ASSUME conn[Terminal] = "on", FanOut PROVE Queue' = Queue
    <2>1. channel # <<>> /\ channel' = Tail(channel) /\ inbox'[Terminal] = Append(inbox[Terminal], Head(channel))
      BY <1>1, <1>3 DEF FanOut
    <2>2. Head(channel) \in Requests /\ Tail(channel) \in Seq(Requests)
      BY <1>1, <2>1, HeadTailProperties
    <2>3. Append(inbox[Terminal], Head(channel)) = inbox[Terminal] \o <<Head(channel)>>
      BY <1>1, <2>2, AppendIsConcat
    <2>4. (inbox[Terminal] \o <<Head(channel)>>) \o Tail(channel)
            = inbox[Terminal] \o (<<Head(channel)>> \o Tail(channel))
      <3>1. <<Head(channel)>> \in Seq(Requests)
        BY <2>2
      <3>2. QED
        BY <1>1, <2>2, <3>1, ConcatAssociative
    <2>5. <<Head(channel)>> \o Tail(channel) = channel
      <3>1. Len(channel) \in Nat \ {0}
        BY <1>1, <2>1, EmptySeq
      <3>2. SubSeq(channel, 1, Len(channel)) = <<channel[1]>> \o SubSeq(channel, 2, Len(channel))
        BY <1>1, <3>1, SubSeqRecursiveFirst
      <3>3. SubSeq(channel, 1, Len(channel)) = channel /\ Tail(channel) = SubSeq(channel, 2, Len(channel))
        BY <1>1, <2>1, SubSeqFull, TailIsSubSeq
      <3>4. Head(channel) = channel[1]
        BY <1>1, <2>1
      <3>5. QED
        BY <3>2, <3>3, <3>4
    <2>6. QED
      BY <2>1, <2>3, <2>4, <2>5 DEF Queue
  <1>4. ASSUME inbox[Terminal] # <<>>, Take(Terminal), UNCHANGED channel
        PROVE  Queue # <<>> /\ Queue' = Tail(Queue) /\ Head(Queue) = Head(inbox[Terminal])
    <2> DEFINE s == inbox[Terminal]
    <2>1. Queue' = Tail(s) \o channel
      BY <1>1, <1>4 DEF Take, Queue
    <2>2. /\ Tail(s) \in Seq(Requests) /\ Len(Tail(s)) = Len(s) - 1 /\ Len(s) \in Nat \ {0}
          /\ \A i \in 1 .. Len(Tail(s)) : Tail(s)[i] = s[i + 1]
          /\ Head(s) = s[1]
      BY <1>1, <1>4, HeadTailProperties, EmptySeq
    <2>3. Len(channel) \in Nat
      BY <1>1, LenProperties
    <2>4. /\ Len(Queue) = Len(s) + Len(channel)
          /\ \A i \in 1 .. Len(s) + Len(channel) :
               Queue[i] = IF i <= Len(s) THEN s[i] ELSE channel[i - Len(s)]
      BY <1>1, ConcatProperties DEF Queue
    <2>5. Queue # <<>> /\ Queue[1] = Head(s)
      <3>1. Len(Queue) # 0
        BY <2>2, <2>3, <2>4
      <3>2. Queue # <<>>
        BY <3>1, EmptySeq
      <3>3. 1 \in 1 .. Len(s) + Len(channel) /\ 1 <= Len(s)
        BY <2>2, <2>3
      <3>4. QED
        BY <2>2, <2>4, <3>2, <3>3
    <2>6. /\ Tail(Queue) \in Seq(Requests) /\ Len(Tail(Queue)) = Len(Queue) - 1
          /\ \A i \in 1 .. Len(Tail(Queue)) : Tail(Queue)[i] = Queue[i + 1]
          /\ Head(Queue) = Queue[1]
      BY <1>2, <2>5, HeadTailProperties
    <2>7. /\ Tail(s) \o channel \in Seq(Requests)
          /\ Len(Tail(s) \o channel) = Len(Tail(s)) + Len(channel)
          /\ \A i \in 1 .. Len(Tail(s)) + Len(channel) :
               (Tail(s) \o channel)[i] = IF i <= Len(Tail(s)) THEN Tail(s)[i] ELSE channel[i - Len(Tail(s))]
      BY <1>1, <2>2, ConcatProperties
    <2>8. Tail(s) \o channel = Tail(Queue)
      <3> DEFINE m == Len(s)  k == Len(channel)  v == Tail(s) \o channel  w == Tail(Queue)
      <3>1. /\ m \in Nat \ {0} /\ k \in Nat /\ Len(v) = m - 1 + k /\ Len(w) = m + k - 1
            /\ v \in Seq(Requests) /\ w \in Seq(Requests)
        BY <2>2, <2>3, <2>4, <2>6, <2>7
      <3>2. ASSUME NEW i \in 1 .. m - 1 + k PROVE v[i] = w[i]
        <4>1. v[i] = IF i <= m - 1 THEN s[i + 1] ELSE channel[i - (m - 1)]
          <5>1. Len(Tail(s)) = m - 1
            BY <2>2
          <5>2. \A j \in 1 .. m - 1 + k :
                  v[j] = IF j <= m - 1 THEN Tail(s)[j] ELSE channel[j - (m - 1)]
            BY <2>7, <5>1
          <5>3. \A j \in 1 .. m - 1 : Tail(s)[j] = s[j + 1]
            BY <2>2, <5>1
          <5> HIDE DEF v, w, m, k
          <5>4. i \in 1 .. m - 1 + k /\ (i <= m - 1 => i \in 1 .. m - 1)
            BY <3>1
          <5>5. QED
            BY <5>2, <5>3, <5>4
        <4>2. w[i] = IF i + 1 <= m THEN s[i + 1] ELSE channel[i + 1 - m]
          <5>1. \A j \in 1 .. m + k : Queue[j] = IF j <= m THEN s[j] ELSE channel[j - m]
            BY <2>4
          <5>2. Len(w) = m + k - 1 /\ \A j \in 1 .. Len(w) : w[j] = Queue[j + 1]
            BY <2>6, <3>1
          <5> DEFINE j == i + 1
          <5> HIDE DEF v, w, m, k
          <5>3. i \in 1 .. m + k - 1 /\ j \in 1 .. m + k
            BY <3>1
          <5>4. w[i] = Queue[j]
            BY <5>2, <5>3
          <5> HIDE DEF j
          <5>5. Queue[j] = IF j <= m THEN s[j] ELSE channel[j - m]
            BY <5>1, <5>3
          <5>6. QED
            BY <3>1, <5>3, <5>4, <5>5 DEF j
        <4> HIDE DEF v, w, m, k
        <4>3. (i <= m - 1 <=> i + 1 <= m) /\ i - (m - 1) = i + 1 - m
          BY <3>1
        <4>4. QED
          BY <4>1, <4>2, <4>3
      <3> HIDE DEF v, w, m, k
      <3>3. QED
        <4>1. Len(v) = Len(w) /\ \A i \in 1 .. Len(v) : v[i] = w[i]
          BY <3>1, <3>2
        <4>2. v = w
          BY <3>1, <4>1, SeqEqual
        <4>3. QED
          BY <4>2 DEF v, w
    <2>9. QED
      BY <2>1, <2>5, <2>6, <2>8
  <1>5. ASSUME NEW r \in Requests, UNCHANGED inbox, channel' = Append(channel, r)
        PROVE  Queue' = Append(Queue, r)
    <2>1. /\ Append(channel, r) = channel \o <<r>> /\ Append(Queue, r) = Queue \o <<r>>
          /\ <<r>> \in Seq(Requests)
      BY <1>1, <1>2, AppendIsConcat
    <2>2. (inbox[Terminal] \o channel) \o <<r>> = inbox[Terminal] \o (channel \o <<r>>)
      BY <1>1, <2>1, ConcatAssociative
    <2>3. QED
      BY <1>5, <2>1, <2>2 DEF Queue
  <1>6. QED
    BY <1>2, <1>3, <1>4, <1>5

\* What is left of the entries is there already.
Keeps(es, other) ==
  \A s \in Sessions : other[s] # None => es[s] # None /\ other[s].req = es[s].req

LEMMA EntriesKept ==
  ASSUME TerminalType, [NextAll]_allVars
  PROVE  Arrive \/ Keeps(entries, entries')
  <1>1. CASE UNCHANGED entries
    BY <1>1 DEF Keeps
  <1>2. CASE Settle
    <2>1. /\ active \in Sessions /\ Waits(active)
          /\ \E g \in Seq(Answers) : entries' = [entries EXCEPT ![active].given = g]
      BY <1>2, SettleFacts DEF Settles
    <2>2. QED
      BY <2>1, NewAnswers DEF Keeps, Waits
  <1>3. CASE SendResponse
    BY <1>3 DEF SendResponse, Without, Keeps, TerminalType
  <1>4. CASE AnswerQuestion
    <2>1. CASE ~UNCHANGED entries
      BY <1>4, <2>1, AnswerFacts, NewAnswers DEF Keeps, Waits
    <2>2. QED
      BY <1>1, <2>1
  <1>5. ASSUME NEW s \in Sessions, Abort(s) \/ DeleteCurrent(s) PROVE Keeps(entries, entries')
    BY <1>5 DEF Abort, DeleteCurrent, Forget, Without, Keeps, TerminalType
  <1>6. CASE \/ (Elsewhere /\ UNCHANGED terminal) \/ Idle \/ UNCHANGED allVars
             \/ (\E v \in {"allow", "deny"} : Decide(v)) \/ \E s \in Sessions : UndoCurrent(s)
    <2>1. UNCHANGED entries
      BY <1>6 DEF Idle, Decide, UndoCurrent, allVars, terminal
    <2>2. QED
      BY <1>1, <2>1
  <1>7. QED
    BY <1>2, <1>3, <1>4, <1>5, <1>6 DEF NextAll, User

LEMMA FiledNext == TerminalType /\ Filed /\ [NextAll]_allVars => Filed'
  <1> SUFFICES ASSUME TerminalType, Filed, [NextAll]_allVars PROVE Filed'
    OBVIOUS
  <1>1. CASE Arrive
    <2> DEFINE r == Head(inbox[Terminal])
    <2>1. r \in Requests
      BY <1>1, TakeType DEF Arrive, Frontends, TerminalType
    <2>2. entries' = [entries EXCEPT ![SessionOf[r]] = [req |-> r, given |-> <<>>]]
      BY <1>1 DEF Arrive
    <2> HIDE DEF r
    <2>3. QED
      BY <2>1, <2>2, RequestsHaveSessions DEF Filed, Waits, TerminalType
  <1>2. CASE Keeps(entries, entries')
    BY <1>2 DEF Keeps, Filed, Waits
  <1>3. QED
    BY <1>1, <1>2, EntriesKept

\* Steps that leave the queue alone and forget entries at most.
LEMMA QueueKept ==
  ASSUME QueueInv, process' = process, Queue' = Queue, Keeps(entries, entries'),
         \A s \in Sessions : Waits(s) => entries[s].req \in Requests,
         \A i \in DOMAIN Queue : Queue[i] \in Requests,
         \A r \in Requests :
           /\ Unanswered(r) => Unanswered(r)'
           /\ state[r] \in Over => state'[r] \in Over
           /\ state'[r] \in {"new", "inserted"} => slot'[r] = Nobody
  PROVE  QueueInv'
  BY DEF QueueInv, Waits, Keeps

LEMMA QueueNext ==
  TerminalType /\ Filed /\ OthersIdle /\ OneAtATime /\ QueueInv /\ [NextAll]_allVars => QueueInv'
  <1> SUFFICES ASSUME TerminalType, Filed, OthersIdle, OneAtATime, QueueInv,
                      [NextAll]_allVars, process = "tui"
               PROVE  QueueInv'
    BY DialogsStep, ProcessStays DEF QueueInv
  <1>t. /\ TypeInv /\ process' = process
        /\ state \in [Requests -> Over \union {"new", "inserted", "waiting"}]
        /\ slot \in [Requests -> Frontends \union {Nobody}]
        /\ conn[Terminal] = "on" /\ Terminal \in Frontends
    BY DialogsStep, ProcessStays DEF TerminalType, TypeInv, TypeOK, OthersIdle, Frontends
  <1>q. /\ Queue \in Seq(Requests) /\ Len(Queue) \in Nat /\ DOMAIN Queue = 1 .. Len(Queue)
        /\ \A i \in DOMAIN Queue : Queue[i] \in Requests
    BY <1>t, QueueMoves
  <1>e. \A s \in Sessions : Waits(s) => entries[s].req \in Requests
    BY WaitingEntry
  <1>i. /\ \A r \in Requests : state[r] \in {"new", "inserted"} => slot[r] = Nobody
        /\ \A i \in DOMAIN Queue : Unanswered(Queue[i])
        /\ \A i, j \in DOMAIN Queue :
             i < j /\ SessionOf[Queue[i]] = SessionOf[Queue[j]] => state[Queue[i]] \in Over
        /\ \A s \in Sessions : Waits(s) =>
             /\ Unanswered(entries[s].req)
             /\ \A i \in DOMAIN Queue : SessionOf[Queue[i]] = s => state[entries[s].req] \in Over
    BY DEF QueueInv
  <1>k. UNCHANGED entries => Keeps(entries, entries')
    BY DEF Keeps
  <1>1. ASSUME Keeps(entries, entries'), Queue' = Queue, UNCHANGED <<state, slot>>
        PROVE  QueueInv'
    BY <1>1, <1>t, <1>q, <1>e, <1>i, QueueKept DEF Unanswered, UnansweredIn
  <1>2. ASSUME NEW r \in Requests, NEW where \in Over \union {"inserted"},
               Become(r, where), UNCHANGED <<slot, entries, inbox, channel>>,
               \/ state[r] = "new" /\ where = "inserted"
               \/ state[r] = "inserted" /\ where = "closed"
               \/ state[r] = "waiting" /\ where \in {"cancelled", "dropped"}
               \/ state[r] = "waiting" /\ slot[r] # Nobody /\ where = "answered"
        PROVE  QueueInv'
    <2>1. /\ state'[r] = where /\ \A q \in Requests : q # r => state'[q] = state[q]
          /\ slot' = slot
      BY <1>2, <1>t DEF Become
    <2>2. ASSUME NEW q \in Requests
          PROVE  /\ Unanswered(q) => Unanswered(q)'
                 /\ state[q] \in Over => state'[q] \in Over
                 /\ state'[q] \in {"new", "inserted"} => slot'[q] = Nobody
      <3>1. CASE q = r
        BY <1>2, <1>i, <2>1, <3>1 DEF Unanswered, UnansweredIn, Over
      <3>2. CASE q # r
        BY <1>i, <2>1, <3>2 DEF Unanswered, UnansweredIn
      <3>3. QED
        BY <3>1, <3>2
    <2>3. Queue' = Queue
      BY <1>2 DEF Queue
    <2>4. QED
      BY <1>2, <1>k, <1>t, <1>q, <1>e, <2>2, <2>3, QueueKept
  <1>3. CASE Elsewhere /\ UNCHANGED terminal
    <2>1. UNCHANGED entries
      BY <1>3 DEF terminal
    <2>2. ASSUME NEW r \in Requests, Insert(r) PROVE QueueInv'
      BY <1>2, <2>1, <2>2 DEF Insert, clients
    <2>3. ASSUME NEW r \in Requests, Publish(r) PROVE QueueInv'
      <3>1. state[r] = "inserted" /\ UNCHANGED <<inbox, slot>>
        BY <2>3 DEF Publish, clients
      <3>2. CASE Become(r, "closed") /\ UNCHANGED channel
        BY <1>2, <2>1, <3>1, <3>2 DEF Over
      <3>3. CASE Become(r, "waiting") /\ channel' = Append(channel, r)
        <4>1. Queue' = Append(Queue, r)
          BY <1>t, <3>1, <3>3, QueueMoves
        <4> DEFINE n == Len(Queue)
        <4>2. /\ DOMAIN Queue' = 1 .. n + 1 /\ Queue'[n + 1] = r /\ n \in Nat
              /\ \A i \in 1 .. n : Queue'[i] = Queue[i]
          <5>1. /\ Append(Queue, r) \in Seq(Requests) /\ Len(Append(Queue, r)) = n + 1
                /\ Append(Queue, r)[n + 1] = r /\ \A i \in 1 .. n : Append(Queue, r)[i] = Queue[i]
            BY <1>q, AppendProperties
          <5>2. DOMAIN Append(Queue, r) = 1 .. n + 1
            BY <5>1, LenProperties
          <5>3. QED
            BY <1>q, <4>1, <5>1, <5>2
        <4> HIDE DEF n
        <4>3. /\ state'[r] = "waiting" /\ slot' = slot /\ entries' = entries
              /\ \A q \in Requests : q # r => state'[q] = state[q]
          BY <1>t, <2>1, <3>1, <3>3 DEF Become
        <4>4. UnansweredIn(state', slot', r) /\ slot[r] = Nobody
          BY <1>i, <3>1, <4>3 DEF Unanswered, UnansweredIn
        <4>5. \A q \in Requests : Unanswered(q) => q # r /\ UnansweredIn(state', slot', q)
          BY <3>1, <4>3 DEF Unanswered, UnansweredIn
        \* a request of the same session that the terminal has heard of is over
        <4>6. \A q \in Requests : Unanswered(q) /\ SessionOf[q] = SessionOf[r] => state'[q] \in Over
          BY <3>1, <4>3 DEF Unanswered, UnansweredIn, OneAtATime, Over
        <4>7. \A i \in 1 .. n : Queue[i] \in Requests /\ Unanswered(Queue[i])
          BY <1>q, <1>i DEF n
        <4>8. \A q \in Requests : state[q] \in Over => state'[q] \in Over
          BY <3>1, <4>3 DEF Over
        <4>9. \A q \in Requests : state'[q] \in {"new", "inserted"} => slot'[q] = Nobody
          BY <1>i, <4>3
        <4>10. \A i \in DOMAIN Queue' : UnansweredIn(state', slot', Queue'[i])
          <5> SUFFICES ASSUME NEW i \in DOMAIN Queue' PROVE UnansweredIn(state', slot', Queue'[i])
            OBVIOUS
          <5>1. CASE i = n + 1
            BY <4>2, <4>4, <5>1 DEF Unanswered, UnansweredIn
          <5>2. CASE i \in 1 .. n
            BY <4>2, <4>5, <4>7, <5>2 DEF Unanswered, UnansweredIn
          <5>3. QED
            BY <4>2, <5>1, <5>2
        <4>11. ASSUME NEW i \in DOMAIN Queue', NEW j \in DOMAIN Queue',
                      i < j, SessionOf[Queue'[i]] = SessionOf[Queue'[j]]
               PROVE  state'[Queue'[i]] \in Over
          <5>1. i \in 1 .. n /\ Queue'[i] = Queue[i]
            BY <4>2, <4>11
          <5>2. CASE j = n + 1
            BY <4>2, <4>6, <4>7, <4>11, <5>1, <5>2
          <5>3. CASE j \in 1 .. n
            <6>1. state[Queue[i]] \in Over
              BY <1>q, <1>i, <4>2, <4>11, <5>1, <5>3 DEF n
            <6>2. QED
              BY <4>7, <4>8, <5>1, <6>1
          <5>4. QED
            BY <4>2, <5>2, <5>3
        <4>12. ASSUME NEW s \in Sessions, Waits(s)'
               PROVE  /\ UnansweredIn(state', slot', entries'[s].req)
                      /\ \A i \in DOMAIN Queue' :
                           SessionOf[Queue'[i]] = s => state'[entries'[s].req] \in Over
          <5>1. Waits(s) /\ entries'[s] = entries[s] /\ entries[s].req \in Requests
            BY <1>e, <4>3, <4>12 DEF Waits
          <5>2. Unanswered(entries[s].req)
            BY <1>i, <5>1
          <5>3. UnansweredIn(state', slot', entries'[s].req)
            BY <4>5, <5>1, <5>2 DEF Unanswered, UnansweredIn
          <5>4. ASSUME NEW i \in DOMAIN Queue', SessionOf[Queue'[i]] = s
                PROVE  state'[entries[s].req] \in Over
            <6>1. CASE i \in 1 .. n
              <7>1. state[entries[s].req] \in Over
                BY <1>q, <1>i, <4>2, <5>1, <5>4, <6>1 DEF n
              <7>2. QED
                BY <4>8, <5>1, <7>1
            <6>2. CASE i = n + 1
              <7>1. SessionOf[r] = s
                BY <4>2, <5>4, <6>2
              <7>2. SessionOf[entries[s].req] = s
                BY <5>1 DEF Filed
              <7>3. QED
                BY <4>6, <5>1, <5>2, <7>1, <7>2
            <6>3. QED
              BY <4>2, <6>1, <6>2
          <5>5. QED
            BY <5>1, <5>3, <5>4
        <4>13. QED
          BY <1>t, <4>9, <4>10, <4>11, <4>12 DEF QueueInv, Unanswered
      <3>4. QED
        BY <2>3, <3>2, <3>3 DEF Publish
    <2>4. ASSUME NEW r \in Requests, TakeResponse(r) \/ TakeCancel(r) \/ Drop(r) PROVE QueueInv'
      BY <1>2, <2>1, <2>4 DEF TakeResponse, TakeCancel, Drop, clients, Over
    <2>5. CASE (\E s \in Sessions : Cancel(s)) \/ FanOut
      <3>1. UNCHANGED <<state, slot>>
        BY <2>5 DEF Cancel, FanOut
      <3>2. Queue' = Queue
        <4>1. CASE FanOut
          BY <1>t, <4>1, QueueMoves
        <4>2. CASE \E s \in Sessions : Cancel(s)
          BY <4>2 DEF Cancel, clients, Queue
        <4>3. QED
          BY <2>5, <4>1, <4>2
      <3>3. QED
        BY <1>1, <1>k, <2>1, <3>1, <3>2
    <2>6. QED
      BY <1>3, <1>t, <2>2, <2>3, <2>4, <2>5, OthersStay DEF Elsewhere
  <1>4. CASE Arrive
    <2> DEFINE r == Head(inbox[Terminal])
    <2>1. /\ inbox[Terminal] # <<>> /\ Take(Terminal) /\ UNCHANGED <<channel, state, slot>>
          /\ entries' = [entries EXCEPT ![SessionOf[r]] = [req |-> r, given |-> <<>>]]
      BY <1>4 DEF Arrive, broker
    <2>2. Queue # <<>> /\ Queue' = Tail(Queue) /\ Head(Queue) = r
      BY <1>t, <2>1, QueueMoves
    <2> DEFINE n == Len(Queue)
    <2>3. /\ n \in Nat \ {0} /\ r = Queue[1] /\ DOMAIN Queue' = 1 .. n - 1
          /\ \A i \in 1 .. n - 1 : Queue'[i] = Queue[i + 1]
      <3>1. /\ Tail(Queue) \in Seq(Requests) /\ Len(Tail(Queue)) = n - 1 /\ n \in Nat \ {0}
            /\ \A i \in 1 .. n - 1 : Tail(Queue)[i] = Queue[i + 1]
        BY <1>q, <2>2, HeadTailProperties, EmptySeq
      <3>2. r = Queue[1]
        BY <1>q, <2>2
      <3>3. DOMAIN Tail(Queue) = 1 .. n - 1
        BY <3>1, LenProperties
      <3>4. QED
        BY <2>2, <3>1, <3>2, <3>3
    <2>4. /\ r \in Requests /\ SessionOf[r] \in Sessions /\ DOMAIN Queue = 1 .. n
          /\ 1 \in 1 .. n /\ \A i \in 1 .. n - 1 : i \in 1 .. n /\ i + 1 \in 1 .. n
      BY <1>q, <2>3, RequestsHaveSessions
    <2> HIDE DEF r, n
    <2>5. \A i \in DOMAIN Queue' : UnansweredIn(state', slot', Queue'[i])
      BY <1>i, <2>1, <2>3, <2>4 DEF Unanswered
    <2>6. ASSUME NEW i \in DOMAIN Queue', NEW j \in DOMAIN Queue', i < j,
                 SessionOf[Queue'[i]] = SessionOf[Queue'[j]]
          PROVE  state'[Queue'[i]] \in Over
      <3>1. i + 1 \in 1 .. n /\ j + 1 \in 1 .. n /\ i + 1 < j + 1
        BY <2>3, <2>4, <2>6
      <3>2. Queue'[i] = Queue[i + 1] /\ Queue'[j] = Queue[j + 1]
        BY <2>3, <2>6
      <3>3. state[Queue[i + 1]] \in Over
        BY <1>i, <2>4, <2>6, <3>1, <3>2
      <3>4. QED
        BY <2>1, <3>2, <3>3
    <2>7. ASSUME NEW s \in Sessions, Waits(s)'
          PROVE  /\ UnansweredIn(state', slot', entries'[s].req)
                 /\ \A i \in DOMAIN Queue' : SessionOf[Queue'[i]] = s => state'[entries'[s].req] \in Over
      <3>1. CASE s = SessionOf[r]
        <4>1. entries'[s].req = r
          BY <2>1, <3>1 DEF TerminalType
        <4>2. UnansweredIn(state', slot', r)
          BY <1>i, <2>1, <2>3, <2>4 DEF Unanswered
        <4>3. ASSUME NEW i \in DOMAIN Queue', SessionOf[Queue'[i]] = s PROVE state'[r] \in Over
          <5>1. i + 1 \in 1 .. n /\ 1 < i + 1 /\ Queue'[i] = Queue[i + 1]
            BY <2>3, <2>4
          <5>2. SessionOf[Queue[1]] = SessionOf[Queue[i + 1]]
            BY <2>3, <3>1, <4>3, <5>1
          <5>3. state[Queue[1]] \in Over
            BY <1>i, <2>4, <5>1, <5>2
          <5>4. QED
            BY <2>1, <2>3, <5>3
        <4>4. QED
          BY <4>1, <4>2, <4>3
      <3>2. CASE s # SessionOf[r]
        <4>1. Waits(s) /\ entries'[s] = entries[s]
          BY <2>1, <2>4, <2>7, <3>2 DEF Waits, TerminalType
        <4>2. UnansweredIn(state', slot', entries[s].req)
          BY <1>i, <2>1, <4>1 DEF Unanswered
        <4>3. ASSUME NEW i \in DOMAIN Queue', SessionOf[Queue'[i]] = s
              PROVE  state'[entries[s].req] \in Over
          <5>1. i + 1 \in 1 .. n /\ Queue'[i] = Queue[i + 1]
            BY <2>3, <2>4
          <5>2. state[entries[s].req] \in Over
            BY <1>i, <2>4, <4>1, <4>3, <5>1
          <5>3. QED
            BY <2>1, <5>2
        <4>4. QED
          BY <4>1, <4>2, <4>3
      <3>3. QED
        BY <3>1, <3>2
    <2>8. \A q \in Requests : state'[q] \in {"new", "inserted"} => slot'[q] = Nobody
      BY <1>i, <2>1
    <2>9. QED
      BY <1>t, <2>5, <2>6, <2>7, <2>8 DEF QueueInv, Unanswered
  <1>5. CASE SendResponse
    <2> DEFINE r == entries[active].req
    <2>1. /\ Respond(Terminal, r) /\ entries' = [entries EXCEPT ![active] = None]
          /\ UNCHANGED clients /\ active \in Sessions /\ Waits(active) /\ r \in Requests
      BY <1>5, ActiveEntry DEF SendResponse, Without, Entry
    <2>2. /\ state' = state /\ Queue' = Queue
          /\ \A q \in Requests : slot'[q] # slot[q] => q = r /\ state[r] \in {"inserted", "waiting"}
      BY <1>t, <2>1 DEF Respond, clients, Queue
    <2> HIDE DEF r
    <2>3. SessionOf[r] = active /\ Unanswered(r)
      BY <1>i, <2>1 DEF Filed, r
    <2>4. \A i \in DOMAIN Queue : UnansweredIn(state', slot', Queue'[i])
      <3> SUFFICES ASSUME NEW i \in DOMAIN Queue PROVE UnansweredIn(state', slot', Queue'[i])
        OBVIOUS
      <3>1. Unanswered(Queue[i]) /\ Queue'[i] = Queue[i] /\ Queue[i] \in Requests
        BY <1>q, <1>i, <2>2
      <3>2. CASE Queue[i] = r
        <4>1. state[r] \in Over
          BY <1>i, <2>1, <2>3, <3>2 DEF r
        <4>2. QED
          BY <2>2, <3>1, <3>2, <4>1 DEF Unanswered, UnansweredIn, Over
      <3>3. CASE Queue[i] # r
        BY <2>2, <3>1, <3>3 DEF Unanswered, UnansweredIn
      <3>4. QED
        BY <3>2, <3>3
    <2>5. ASSUME NEW s \in Sessions, Waits(s)'
          PROVE  /\ Waits(s) /\ entries'[s] = entries[s]
                 /\ UnansweredIn(state', slot', entries'[s].req)
      <3>1. s # active /\ entries'[s] = entries[s] /\ Waits(s)
        BY <2>1, <2>5 DEF Waits, TerminalType
      <3>2. entries[s].req \in Requests /\ entries[s].req # r /\ Unanswered(entries[s].req)
        BY <1>e, <1>i, <2>3, <3>1 DEF Filed
      <3>3. QED
        BY <2>2, <3>1, <3>2 DEF Unanswered, UnansweredIn
    <2>6. \A q \in Requests : state'[q] \in {"new", "inserted"} => slot'[q] = Nobody
      BY <1>i, <2>2, <2>3 DEF Unanswered, UnansweredIn
    <2>7. QED
      BY <1>t, <1>i, <2>2, <2>4, <2>5, <2>6 DEF QueueInv, Unanswered
  <1>6. CASE (Settle \/ Idle \/ User \/ UNCHANGED allVars) /\ ~Arrive
    <2>1. UNCHANGED <<state, slot>> /\ Queue' = Queue
      BY <1>6 DEF Settle, Idle, User, Decide, AnswerQuestion, Abort, DeleteCurrent, UndoCurrent,
                  Forget, Cancel, allVars, vars, broker, clients, Queue
    <2>2. QED
      BY <1>1, <1>6, <2>1, EntriesKept
  <1>7. QED
    BY <1>3, <1>4, <1>5, <1>6 DEF NextAll

-----------------------------------------------------------------------------
(* The entries and the dialogs. An entry that is not being worked on has a *)
(* tool without an answer, and a dialog that is not of such a tool belongs *)
(* to a request that was cancelled, or given up by its script.             *)

GivenInv ==
  \A s \in Sessions : Waits(s) =>
    /\ Len(entries[s].given) <= Len(Tools[entries[s].req])
    /\ ~processing \/ s # active => Len(entries[s].given) < Len(Tools[entries[s].req])

LEMMA GivenNext == TerminalType /\ GivenInv /\ [NextAll]_allVars => GivenInv'
  <1> SUFFICES ASSUME TerminalType, GivenInv, [NextAll]_allVars PROVE GivenInv'
    OBVIOUS
  <1>t. entries \in [Sessions -> Entries \union {None}] /\ processing \in BOOLEAN
    BY DEF TerminalType
  <1>n. \A s \in Sessions : Waits(s) =>
          Len(entries[s].given) \in Nat /\ Len(Tools[entries[s].req]) \in Nat
    BY WaitingEntry, ToolFacts
  <1>1. CASE UNCHANGED <<entries, active, processing>>
    BY <1>1 DEF GivenInv, Waits
  <1>2. ASSUME ~processing, \A s \in Sessions : Waits(s)' => Waits(s) /\ entries'[s] = entries[s]
        PROVE  GivenInv'
    BY <1>2, <1>n DEF GivenInv, Waits
  <1>3. CASE Arrive
    <2> DEFINE r == Head(inbox[Terminal])
    <2>1. r \in Requests /\ ~processing
      BY <1>3, TakeType DEF Arrive, Frontends, TerminalType
    <2>2. entries' = [entries EXCEPT ![SessionOf[r]] = [req |-> r, given |-> <<>>]]
      BY <1>3 DEF Arrive
    <2> HIDE DEF r
    <2>3. ASSUME NEW s \in Sessions, Waits(s)'
          PROVE  Len(entries'[s].given) < Len(Tools[entries'[s].req])
      <3>1. CASE s = SessionOf[r]
        <4>1. entries'[s].given = <<>> /\ entries'[s].req = r
          BY <1>t, <2>2, <3>1
        <4>2. Len(<<>>) = 0 /\ Len(Tools[r]) \in Nat \ {0}
          BY <2>1, ToolFacts, EmptySeq
        <4>3. QED
          BY <4>1, <4>2
      <3>2. CASE s # SessionOf[r]
        BY <1>t, <2>1, <2>2, <2>3, <3>2 DEF GivenInv, Waits
      <3>3. QED
        BY <3>1, <3>2
    <2>4. \A s \in Sessions : Waits(s)' =>
            Len(entries'[s].given) \in Nat /\ Len(Tools[entries'[s].req]) \in Nat
      <3>1. TerminalType'
        BY TerminalNext
      <3>2. ASSUME NEW s \in Sessions, Waits(s)'
            PROVE  Len(entries'[s].given) \in Nat /\ Len(Tools[entries'[s].req]) \in Nat
        <4>1. entries'[s] \in Entries
          BY <3>1, <3>2 DEF TerminalType, Waits
        <4>2. entries'[s].given \in Seq(Answers) /\ entries'[s].req \in Requests
          BY <4>1 DEF Entries
        <4>3. QED
          BY <4>2, LenProperties, ToolFacts
      <3>3. QED
        BY <3>2
    <2>5. QED
      BY <2>3, <2>4 DEF GivenInv
  <1>4. CASE Idle
    <2>1. UNCHANGED entries /\ \A s \in Sessions : Waits(s) => s # active
      BY <1>4 DEF Idle, Waits
    <2>2. QED
      BY <2>1 DEF GivenInv, Waits
  <1>5. CASE Settle
    <2>1. active \in Sessions /\ Waits(active) /\ active' = active
      BY <1>5, SettleFacts DEF Settle
    <2>2. PICK to \in Nat, g \in Seq(Answers) : Settles(to, g)
      BY <1>5, SettleFacts
    <2>3. /\ entries'[active].req = entries[active].req /\ entries'[active].given = g
          /\ \A u \in Sessions : u # active => entries'[u] = entries[u]
      BY <2>1, <2>2, NewAnswers DEF Settles
    <2> DEFINE m == Len(Tools[entries[active].req])
    <2>4. to <= m + 1 /\ Len(g) = to - 1 /\ (to > m => processing' = TRUE) /\ m \in Nat
      BY <1>n, <2>1, <2>2 DEF Settles
    <2>5. Len(g) <= m /\ (~processing' => Len(g) < m)
      <3> HIDE DEF m
      <3>1. to \in Nat /\ Len(g) = to - 1 /\ m \in Nat /\ to <= m + 1
        BY <2>4
      <3>2. Len(g) <= m
        BY ONLY <3>1
      <3>3. ~processing' => to <= m
        BY <2>4, <3>1
      <3>4. QED
        BY <3>1, <3>2, <3>3
    <2>6. ASSUME NEW s \in Sessions, Waits(s)'
          PROVE  /\ Len(entries'[s].given) <= Len(Tools[entries'[s].req])
                 /\ ~processing' \/ s # active' => Len(entries'[s].given) < Len(Tools[entries'[s].req])
      <3>1. CASE s = active
        BY <2>1, <2>3, <2>5, <3>1
      <3>2. CASE s # active
        BY <2>3, <2>6, <3>2 DEF GivenInv, Waits
      <3>3. QED
        BY <3>1, <3>2
    <2>7. QED
      BY <2>6 DEF GivenInv
  <1>6. CASE SendResponse
    <2>1. entries' = [entries EXCEPT ![active] = None] /\ active \in Sessions
      BY <1>6, ActiveEntry DEF SendResponse, Without, Entry
    <2>2. \A s \in Sessions : Waits(s)' => s # active /\ Waits(s) /\ entries'[s] = entries[s]
      BY <1>t, <2>1 DEF Waits
    <2>3. QED
      BY <1>n, <2>2 DEF GivenInv
  <1>7. ASSUME NEW v \in {"allow", "deny"}, Decide(v) PROVE GivenInv'
    BY <1>2, <1>7 DEF Decide, Waits
  <1>8. CASE AnswerQuestion
    <2>1. CASE UNCHANGED entries
      BY <1>2, <1>8, <2>1 DEF AnswerQuestion, Waits
    <2>2. CASE ~UNCHANGED entries
      <3> DEFINE g == Append(entries[active].given, AnswerFrom(Top))
                 n == Len(entries[active].given)
                 m == Len(Tools[entries[active].req])
      <3>1. /\ active \in Sessions /\ Waits(active) /\ processing'
            /\ g \in Seq(Answers) /\ n \in Nat /\ Len(g) = n + 1
            /\ entries' = [entries EXCEPT ![active].given = g]
        BY <1>8, <2>2, AnswerFacts
      <3>2. ~processing /\ active' = active
        BY <1>8 DEF AnswerQuestion
      <3>3. /\ entries'[active].req = entries[active].req /\ entries'[active].given = g
            /\ \A u \in Sessions : u # active => entries'[u] = entries[u]
        BY <3>1, NewAnswers
      <3>4. n < m /\ m \in Nat
        BY <1>n, <3>1, <3>2 DEF GivenInv
      <3>5. Len(g) <= m
        <4>1. n + 1 <= m
          <5> HIDE DEF n, m
          <5>1. QED
            BY <3>1, <3>4
        <4>2. QED
          BY <3>1, <4>1
      <3> HIDE DEF g, n, m
      <3>6. ASSUME NEW s \in Sessions, Waits(s)'
            PROVE  /\ Len(entries'[s].given) <= Len(Tools[entries'[s].req])
                   /\ ~processing' \/ s # active' => Len(entries'[s].given) < Len(Tools[entries'[s].req])
        <4>1. CASE s = active
          BY <3>1, <3>2, <3>3, <3>5, <4>1 DEF m
        <4>2. CASE s # active
          BY <1>n, <3>2, <3>3, <3>6, <4>2 DEF GivenInv, Waits
        <4>3. QED
          BY <4>1, <4>2
      <3>7. QED
        BY <3>6 DEF GivenInv
    <2>3. QED
      BY <2>1, <2>2
  <1>9. ASSUME NEW s \in Sessions, Abort(s) \/ DeleteCurrent(s) PROVE GivenInv'
    <2>1. ~processing /\ entries' = [entries EXCEPT ![s] = None]
      BY <1>9 DEF Abort, DeleteCurrent, Forget, Without
    <2>2. \A u \in Sessions : Waits(u)' => Waits(u) /\ entries'[u] = entries[u]
      BY <1>t, <2>1 DEF Waits
    <2>3. QED
      BY <1>2, <2>1, <2>2
  <1>10. CASE (Elsewhere /\ UNCHANGED terminal) \/ UNCHANGED allVars \/ \E s \in Sessions : UndoCurrent(s)
    BY <1>1, <1>10 DEF terminal, allVars, UndoCurrent
  <1>11. QED
    BY <1>3, <1>4, <1>5, <1>6, <1>7, <1>8, <1>9, <1>10 DEF NextAll, User

\* A dialog shown for a tool, and the dialog of the tool the terminal has reached.
Sound(d) ==
  /\ d.index \in 1 .. Len(Tools[d.req])
  /\ d.kind = "question" => Tools[d.req][d.index].question

LiveIn(d, es, act, working) ==
  /\ ~working /\ act # NoSession /\ es[act] # None
  /\ es[act].req = d.req /\ d.index = Len(es[act].given) + 1

DialogInv ==
  \A i \in DOMAIN dialogs :
    /\ Sound(dialogs[i])
    /\ \/ dialogs[i].req \in cancelled \union Nested
       \/ i = Len(dialogs) /\ LiveIn(dialogs[i], entries, active, processing)

LEMMA CancelledGrows == [Next]_vars => cancelled \subseteq cancelled'
  <1> SUFFICES ASSUME [Next]_vars PROVE cancelled \subseteq cancelled'
    OBVIOUS
  <1>1. CASE Loops \/ FanOut \/ (\E r \in Requests : Insert(r)) \/ UNCHANGED vars
    BY <1>1 DEF Loops, Insert, Publish, TakeResponse, TakeCancel, Drop, Cancel, FanOut, vars, broker
  <1>2. CASE Web
    BY <1>2 DEF Web, Connect, Snapshot, Disconnect, Show, Answer, Respond, broker
  <1>3. CASE Ask \/ EditorAnswers \/ TerminalTakes \/ TerminalAnswers
    BY <1>3 DEF Ask, EditorAnswers, TerminalTakes, TerminalAnswers, Respond, broker
  <1>4. QED
    BY <1>1, <1>2, <1>3 DEF Next

\* The request of an entry is waiting, or was cancelled or given up.
LEMMA EntryOver ==
  ASSUME TerminalType, NoTerminal, OneAtATime, QueueInv, NEW s \in Sessions, Waits(s)
  PROVE  /\ process = "tui" /\ entries[s].req \in Requests
         /\ state[entries[s].req] \in {"inserted", "waiting"} \/ entries[s].req \in cancelled \union Nested
         /\ state[entries[s].req] \in Over => entries[s].req \in cancelled \union Nested
  <1>1. process = "tui" /\ entries[s].req \in Requests
    BY WaitingEntry DEF NoTerminal
  <1>2. state[entries[s].req] \in {"waiting", "cancelled", "dropped"}
    BY <1>1 DEF QueueInv, Unanswered, UnansweredIn
  <1>3. QED
    BY <1>1, <1>2 DEF OneAtATime, Over

LEMMA DialogNext ==
  TerminalType /\ NoTerminal /\ OneAtATime /\ QueueInv /\ Filed /\ DialogInv /\ [NextAll]_allVars
    => DialogInv'
  <1> SUFFICES ASSUME TerminalType, NoTerminal, OneAtATime, QueueInv, Filed, DialogInv,
                      [NextAll]_allVars
               PROVE  DialogInv'
    OBVIOUS
  <1>t. entries \in [Sessions -> Entries \union {None}] /\ processing \in BOOLEAN
    BY DEF TerminalType
  <1>c. cancelled \subseteq cancelled'
    BY DialogsStep, CancelledGrows
  <1>1. ASSUME UNCHANGED dialogs,
               \A d : LiveIn(d, entries, active, processing) =>
                 LiveIn(d, entries', active', processing') \/ d.req \in cancelled' \union Nested
        PROVE  DialogInv'
    BY <1>1, <1>c DEF DialogInv
  <1>2. ASSUME UNCHANGED <<dialogs, entries, active, processing>> PROVE DialogInv'
    BY <1>1, <1>2
  <1>3. ASSUME UNCHANGED dialogs, processing PROVE DialogInv'
    BY <1>1, <1>3 DEF LiveIn
  <1>4. ASSUME dialogs # <<>>, dialogs' = Front(dialogs) PROVE DialogInv'
    <2>1. /\ Len(dialogs) \in Nat /\ DOMAIN dialogs' = 1 .. Len(dialogs) - 1
          /\ DOMAIN dialogs = 1 .. Len(dialogs)
          /\ \A i \in 1 .. Len(dialogs) - 1 : dialogs'[i] = dialogs[i]
      BY <1>4, TopDialog
    <2> SUFFICES ASSUME NEW i \in DOMAIN dialogs'
                 PROVE  Sound(dialogs'[i]) /\ dialogs'[i].req \in cancelled' \union Nested
      BY DEF DialogInv
    <2>2. i \in DOMAIN dialogs /\ i # Len(dialogs) /\ dialogs'[i] = dialogs[i]
      BY <2>1
    <2>3. QED
      BY <1>c, <2>2 DEF DialogInv
  <1>5. CASE Arrive
    <2> DEFINE r == Head(inbox[Terminal])
    <2>1. /\ inbox[Terminal] # <<>> /\ Take(Terminal) /\ UNCHANGED <<channel, dialogs>> /\ ~processing
          /\ entries' = [entries EXCEPT ![SessionOf[r]] = [req |-> r, given |-> <<>>]]
          /\ active' = (IF active = NoSession THEN SessionOf[r] ELSE active)
          /\ processing' = (active = NoSession)
      BY <1>5 DEF Arrive, broker
    <2>2. TypeInv /\ process = "tui"
      BY <2>1 DEF TerminalType, NoTerminal
    <2>3. Queue # <<>> /\ Head(Queue) = r /\ Queue \in Seq(Requests) /\ DOMAIN Queue = 1 .. Len(Queue)
      BY <2>1, <2>2, QueueMoves
    <2>4. 1 \in DOMAIN Queue /\ Queue[1] = r
      <3>1. Len(Queue) \in Nat \ {0}
        BY <2>3, EmptySeq
      <3>2. QED
        BY <2>3, <3>1
    <2> HIDE DEF r
    <2>5. ASSUME NEW d, LiveIn(d, entries, active, processing)
          PROVE  LiveIn(d, entries', active', processing') \/ d.req \in cancelled' \union Nested
      <3>1. active \in Sessions /\ Waits(active) /\ active # NoSession /\ entries[active].req = d.req
        BY <2>5, ActiveEntry DEF LiveIn
      <3>2. CASE active = SessionOf[r]
        <4>1. state[entries[active].req] \in Over
          BY <2>2, <2>4, <3>1, <3>2 DEF QueueInv
        <4>2. QED
          BY <1>c, <3>1, <4>1, EntryOver
      <3>3. CASE active # SessionOf[r]
        <4>1. entries'[active] = entries[active] /\ active' = active /\ processing' = FALSE
          BY <1>t, <2>1, <3>1, <3>3
        <4>2. QED
          BY <2>5, <4>1 DEF LiveIn
      <3>4. QED
        BY <3>2, <3>3
    <2>6. QED
      BY <1>1, <2>1, <2>5
  <1>6. CASE Idle \/ SendResponse
    BY <1>3, <1>6 DEF Idle, SendResponse
  <1>7. CASE Settle
    <2>1. active \in Sessions /\ Waits(active) /\ processing /\ active' = active
      BY <1>7, SettleFacts DEF Settle
    <2>2. PICK to \in Nat, g \in Seq(Answers) : Settles(to, g)
      BY <1>7, SettleFacts
    <2> DEFINE r == entries[active].req
               m == Len(Tools[r])
               d == [kind |-> Stage(Tools[r][to]), req |-> r, index |-> to]
    <2>3. r \in Requests /\ m \in Nat /\ Len(entries[active].given) \in Nat
      BY <2>1, WaitingEntry, ToolFacts
    <2>4. CASE to > m
      <3>1. UNCHANGED dialogs
        BY <2>2, <2>4 DEF Settles
      <3>2. QED
        BY <1>3, <2>1, <3>1
    <2>5. CASE to <= m
      <3>1. /\ dialogs' = Append(dialogs, d) /\ processing' = FALSE /\ Len(g) = to - 1
            /\ Stage(Tools[r][to]) \in Kinds \union {"question"}
            /\ Len(entries[active].given) < to
        <4>1. ~(to > m)
          BY <2>3, <2>5
        <4>2. QED
          BY <2>2, <2>5, <4>1 DEF Settles
      <3>2. to \in 1 .. m
        BY <2>3, <2>5, <3>1
      <3>3. Sound(d)
        <4>1. Stage(Tools[r][to]) = "question" => Tools[r][to].question
          BY <2>3, <3>2, ToolFacts, StageFacts
        <4>2. QED
          BY <3>2, <4>1 DEF Sound
      <3>4. d \in Shown
        BY <2>3, <3>1 DEF Shown
      <3>5. LiveIn(d, entries', active', processing')
        <4>1. entries'[active] \in Entries /\ entries'[active].req = r /\ entries'[active].given = g
          BY <2>1, <2>2, NewAnswers DEF Settles
        <4>2. entries'[active] # None /\ active # NoSession
          BY <2>1, <4>1, EntryIsSome, NoSessionIsNone
        <4>3. to = Len(g) + 1
          BY <3>1
        <4>4. QED
          BY <2>1, <3>1, <4>1, <4>2, <4>3 DEF LiveIn
      <3> HIDE DEF d
      <3>6. /\ Len(dialogs) \in Nat /\ Len(dialogs') = Len(dialogs) + 1
            /\ DOMAIN dialogs = 1 .. Len(dialogs) /\ DOMAIN dialogs' = 1 .. Len(dialogs) + 1
            /\ \A i \in 1 .. Len(dialogs) : dialogs'[i] = dialogs[i]
            /\ dialogs'[Len(dialogs) + 1] = d
        BY <3>1, <3>4, OneMoreDialog
      <3>7. ASSUME NEW i \in DOMAIN dialogs'
            PROVE  /\ Sound(dialogs'[i])
                   /\ \/ dialogs'[i].req \in cancelled' \union Nested
                      \/ i = Len(dialogs') /\ LiveIn(dialogs'[i], entries', active', processing')
        <4>1. CASE i = Len(dialogs) + 1
          BY <3>3, <3>5, <3>6, <4>1
        <4>2. CASE i \in 1 .. Len(dialogs)
          <5>1. Sound(dialogs[i]) /\ dialogs[i].req \in cancelled \union Nested
            BY <2>1, <3>6, <4>2 DEF DialogInv, LiveIn
          <5>2. QED
            BY <1>c, <3>6, <4>2, <5>1
        <4>3. QED
          BY <3>6, <4>1, <4>2
      <3>8. QED
        BY <3>7 DEF DialogInv
    <2>6. QED
      BY <2>3, <2>4, <2>5
  <1>8. CASE AnswerQuestion \/ \E v \in {"allow", "deny"} : Decide(v)
    BY <1>4, <1>8 DEF AnswerQuestion, Decide, Close
  <1>9. ASSUME NEW s \in Sessions, Abort(s) \/ DeleteCurrent(s) PROVE DialogInv'
    <2>1. /\ Cancel(s) /\ entries' = [entries EXCEPT ![s] = None] /\ UNCHANGED <<dialogs, processing>>
          /\ active' = IF active = s THEN NoSession ELSE active
      BY <1>9 DEF Abort, DeleteCurrent, Forget, Without
    <2>2. ASSUME NEW d, LiveIn(d, entries, active, processing)
          PROVE  LiveIn(d, entries', active', processing') \/ d.req \in cancelled' \union Nested
      <3>1. active \in Sessions /\ Waits(active) /\ active # NoSession /\ entries[active].req = d.req
        BY <2>2, ActiveEntry DEF LiveIn
      <3>2. CASE active = s
        <4>1. d.req \in Requests /\ SessionOf[d.req] = s
          BY <3>1, <3>2, WaitingEntry DEF Filed
        <4>2. state[d.req] \in {"inserted", "waiting"} \/ d.req \in cancelled \union Nested
          BY <3>1, EntryOver
        <4>3. QED
          BY <1>c, <2>1, <4>1, <4>2 DEF Cancel
      <3>3. CASE active # s
        <4>1. entries'[active] = entries[active] /\ active' = active /\ processing' = processing
          BY <1>t, <2>1, <3>1, <3>3
        <4>2. QED
          BY <2>2, <4>1 DEF LiveIn
      <3>4. QED
        BY <3>2, <3>3
    <2>3. QED
      BY <1>1, <2>1, <2>2
  <1>10. CASE (Elsewhere /\ UNCHANGED terminal) \/ UNCHANGED allVars \/ \E s \in Sessions : UndoCurrent(s)
    BY <1>2, <1>10 DEF terminal, allVars, UndoCurrent
  <1>11. QED
    BY <1>5, <1>6, <1>7, <1>8, <1>9, <1>10 DEF NextAll, User

-----------------------------------------------------------------------------
(* What the terminal answers is what the user decided.                     *)

CacheInv == \A k \in Kinds, p \in Paths : cache[k][p] = "allow" =>
  \E d \in allowed : d[1] = k /\ d[2] = p

LEMMA CacheNext ==
  TerminalType /\ CacheInv /\ [NextAll]_allVars => CacheInv' /\ allowed \subseteq allowed'
  <1> SUFFICES ASSUME TerminalType, CacheInv, [NextAll]_allVars
               PROVE  CacheInv' /\ allowed \subseteq allowed'
    OBVIOUS
  <1>1. CASE UNCHANGED <<cache, allowed>>
    BY <1>1 DEF CacheInv
  <1>2. ASSUME NEW v \in {"allow", "deny"}, Decide(v) PROVE CacheInv' /\ allowed \subseteq allowed'
    <2>1. PICK k, p, until :
            /\ cache' = [cache EXCEPT ![k][p] = v]
            /\ allowed' = IF v = "allow" THEN allowed \union {<<k, p, until>>} ELSE allowed
      BY <1>2 DEF Decide
    <2>2. ASSUME NEW j \in Kinds, NEW q \in Paths, cache'[j][q] = "allow"
          PROVE  \E d \in allowed' : d[1] = j /\ d[2] = q
      <3>1. CASE cache[j][q] = "allow"
        BY <2>1, <3>1 DEF CacheInv
      <3>2. CASE cache[j][q] # "allow"
        <4>1. j = k /\ q = p /\ v = "allow"
          BY <2>1, <2>2, <3>2 DEF TerminalType
        <4>2. <<k, p, until>> \in allowed'
          BY <2>1, <4>1
        <4>3. QED
          BY <4>1, <4>2
      <3>3. QED
        BY <3>1, <3>2
    <2>3. QED
      BY <2>1, <2>2 DEF CacheInv
  <1>3. CASE ~\E v \in {"allow", "deny"} : Decide(v)
    <2>1. UNCHANGED <<cache, allowed>>
      BY <1>3 DEF NextAll, User, Arrive, Idle, Settle, SendResponse, AnswerQuestion, Abort,
                  DeleteCurrent, UndoCurrent, Forget, allVars, terminal
    <2>2. QED
      BY <1>1, <2>1
  <1>4. QED
    BY <1>2, <1>3

\* The answer g to the i-th tool of request r.
Fits(g, r, i, canc, alw) ==
  /\ g.verdict = "answered" => g.shown = <<r, i>> \/ g.shown[1] \in canc
  /\ g.verdict = "approved" =>
       /\ AllowedBy("boundary", Tools[r][i].boundary, alw)
       /\ AllowedBy("sensitive", Tools[r][i].sensitive, alw)

FitInv ==
  \A s \in Sessions : Waits(s) =>
    \A i \in 1 .. Len(entries[s].given) :
      Fits(entries[s].given[i], entries[s].req, i, cancelled, allowed)

\* The dialog an answer comes from: of the tool the active entry has reached,
\* or of a request that was cancelled.
LEMMA AnswerFits ==
  ASSUME TerminalType, DialogInv, AnswerQuestion, ~UNCHANGED entries
  PROVE  Fits(AnswerFrom(Top), entries[active].req, Len(entries[active].given) + 1, cancelled, allowed)
  <1> DEFINE r == entries[active].req
             n == Len(entries[active].given)
  <1>1. dialogs # <<>> /\ Top.kind = "question"
    BY DEF AnswerQuestion
  <1>2. Top = dialogs[Len(dialogs)] /\ Len(dialogs) \in DOMAIN dialogs /\ Top \in Shown
    BY <1>1, TopDialog
  <1>3. /\ Sound(Top)
        /\ Top.req \in cancelled \union Nested \/ LiveIn(Top, entries, active, processing)
    BY <1>2 DEF DialogInv
  <1>4. Top.req \notin Nested
    <2>1. Tools[Top.req][Top.index].question /\ Top.index \in 1 .. Len(Tools[Top.req])
      BY <1>1, <1>3 DEF Sound
    <2>2. QED
      BY <2>1, ToolsAreListed
  <1>5. AnswerFrom(Top) = [verdict |-> "answered", shown |-> <<Top.req, Top.index>>]
    BY DEF AnswerFrom
  <1>6. CASE Top.req \in cancelled
    BY <1>5, <1>6 DEF Fits
  <1>7. CASE LiveIn(Top, entries, active, processing)
    <2>1. Top.req = r /\ Top.index = n + 1
      BY <1>7 DEF LiveIn
    <2>2. QED
      BY <1>5, <2>1 DEF Fits
  <1>8. QED
    BY <1>3, <1>4, <1>6, <1>7

LEMMA FitNext ==
  TerminalType /\ DialogInv /\ CacheInv /\ FitInv /\ [NextAll]_allVars => FitInv'
  <1> SUFFICES ASSUME TerminalType, DialogInv, CacheInv, FitInv, [NextAll]_allVars PROVE FitInv'
    OBVIOUS
  <1>t. entries \in [Sessions -> Entries \union {None}]
    BY DEF TerminalType
  <1>g. \A g, r, i : Fits(g, r, i, cancelled, allowed) => Fits(g, r, i, cancelled', allowed')
    <2>1. cancelled \subseteq cancelled' /\ allowed \subseteq allowed'
      BY DialogsStep, CancelledGrows, CacheNext
    <2>2. QED
      BY <2>1 DEF Fits, AllowedBy
  <1>0. ASSUME \A s \in Sessions : Waits(s)' => Waits(s) /\ entries'[s] = entries[s]
        PROVE  FitInv'
    BY <1>0, <1>g DEF FitInv, Waits
  <1>1. CASE Arrive
    <2> DEFINE r == Head(inbox[Terminal])
    <2>1. entries' = [entries EXCEPT ![SessionOf[r]] = [req |-> r, given |-> <<>>]]
      BY <1>1 DEF Arrive
    <2> HIDE DEF r
    <2>2. ASSUME NEW s \in Sessions, Waits(s)', NEW i \in 1 .. Len(entries'[s].given)
          PROVE  Fits(entries'[s].given[i], entries'[s].req, i, cancelled', allowed')
      <3>1. CASE s = SessionOf[r]
        <4>1. entries'[s].given = <<>>
          BY <1>t, <2>1, <3>1
        <4>2. QED
          BY <2>2, <4>1
      <3>2. CASE s # SessionOf[r]
        <4>1. entries'[s] = entries[s]
          BY <1>t, <2>1, <3>2
        <4>2. QED
          BY <1>g, <2>2, <4>1 DEF FitInv, Waits
      <3>3. QED
        BY <3>1, <3>2
    <2>3. QED
      BY <2>2 DEF FitInv
  <1>2. CASE Settle
    <2>1. active \in Sessions /\ Waits(active)
      BY <1>2, SettleFacts
    <2>2. PICK to \in Nat, g \in Seq(Answers) : Settles(to, g)
      BY <1>2, SettleFacts
    <2>3. /\ entries'[active].req = entries[active].req /\ entries'[active].given = g
          /\ \A u \in Sessions : u # active => entries'[u] = entries[u]
      BY <2>1, <2>2, NewAnswers DEF Settles
    <2> DEFINE r == entries[active].req
               n == Len(entries[active].given)
               m == Len(Tools[r])
    <2>4. /\ r \in Requests /\ n \in Nat /\ m \in Nat
          /\ \A i \in 1 .. m : Tools[r][i] \in [boundary : Paths, sensitive : Paths, question : BOOLEAN]
      BY <2>1, WaitingEntry, ToolFacts
    <2>5. /\ to <= m + 1 /\ Len(g) = to - 1 /\ \A i \in 1 .. n : g[i] = entries[active].given[i]
          /\ \A i \in n + 1 .. to - 1 : g[i] = Decided(Stage(Tools[r][i]))
                                        /\ Stage(Tools[r][i]) \in {"approved", "rejected"}
      BY <2>2 DEF Settles
    <2>6. ASSUME NEW i \in n + 1 .. to - 1 PROVE Fits(g[i], r, i, cancelled, allowed)
      <3>1. i \in 1 .. m
        <4> HIDE DEF n, m
        <4>1. QED
          BY <2>4, <2>5, <2>6
      <3>2. g[i].verdict = Stage(Tools[r][i]) /\ g[i].verdict \in {"approved", "rejected"}
        <4>1. g[i] = Decided(Stage(Tools[r][i])) /\ Stage(Tools[r][i]) \in {"approved", "rejected"}
          BY <2>5, <2>6
        <4>2. Decided(Stage(Tools[r][i])).verdict = Stage(Tools[r][i])
          BY DEF Decided
        <4>3. QED
          BY <4>1, <4>2
      <3>3. ASSUME g[i].verdict = "approved"
            PROVE  /\ AllowedBy("boundary", Tools[r][i].boundary, allowed)
                   /\ AllowedBy("sensitive", Tools[r][i].sensitive, allowed)
        <4>1. Covered("boundary", Tools[r][i].boundary) /\ Covered("sensitive", Tools[r][i].sensitive)
          BY <2>4, <3>1, <3>2, <3>3, StageFacts
        <4>2. QED
          BY <4>1 DEF Covered, AllowedBy, CacheInv, Kinds
      <3>4. QED
        BY <3>2, <3>3 DEF Fits
    <2>7. ASSUME NEW i \in 1 .. Len(g) PROVE Fits(g[i], r, i, cancelled, allowed)
      <3>1. i \in 1 .. n \/ i \in n + 1 .. to - 1
        <4> HIDE DEF n, m
        <4>1. QED
          BY <2>4, <2>5, <2>7
      <3>2. CASE i \in 1 .. n
        BY <2>1, <2>5, <3>2 DEF FitInv
      <3>3. QED
        BY <2>6, <3>1, <3>2
    <2> HIDE DEF r, n, m
    <2>8. ASSUME NEW s \in Sessions, Waits(s)', NEW i \in 1 .. Len(entries'[s].given)
          PROVE  Fits(entries'[s].given[i], entries'[s].req, i, cancelled', allowed')
      <3>1. CASE s = active
        BY <1>g, <2>3, <2>7, <2>8, <3>1 DEF r
      <3>2. CASE s # active
        BY <1>g, <2>3, <2>8, <3>2 DEF FitInv, Waits
      <3>3. QED
        BY <3>1, <3>2
    <2>9. QED
      BY <2>8 DEF FitInv
  <1>3. CASE AnswerQuestion /\ ~UNCHANGED entries
    <2> DEFINE g == Append(entries[active].given, AnswerFrom(Top))
               n == Len(entries[active].given)
               r == entries[active].req
    <2>1. /\ active \in Sessions /\ Waits(active)
          /\ g \in Seq(Answers) /\ n \in Nat /\ Len(g) = n + 1
          /\ \A i \in 1 .. n : g[i] = entries[active].given[i]
          /\ g[n + 1] = AnswerFrom(Top)
          /\ entries' = [entries EXCEPT ![active].given = g]
      BY <1>3, AnswerFacts
    <2>2. /\ entries'[active].req = r /\ entries'[active].given = g
          /\ \A u \in Sessions : u # active => entries'[u] = entries[u]
      BY <2>1, NewAnswers
    <2>3. Fits(g[n + 1], r, n + 1, cancelled, allowed)
      BY <1>3, <2>1, AnswerFits
    <2>4. \A i \in 1 .. n : Fits(g[i], r, i, cancelled, allowed)
      BY <2>1 DEF FitInv
    <2> HIDE DEF g, n, r
    <2>5. \A i \in 1 .. Len(g) : Fits(g[i], r, i, cancelled, allowed)
      <3>1. \A i \in 1 .. Len(g) : i \in 1 .. n \/ i = n + 1
        BY <2>1
      <3>2. QED
        BY <2>3, <2>4, <3>1
    <2>6. ASSUME NEW s \in Sessions, Waits(s)', NEW i \in 1 .. Len(entries'[s].given)
          PROVE  Fits(entries'[s].given[i], entries'[s].req, i, cancelled', allowed')
      <3>1. CASE s = active
        BY <1>g, <2>2, <2>5, <2>6, <3>1
      <3>2. CASE s # active
        BY <1>g, <2>2, <2>6, <3>2 DEF FitInv, Waits
      <3>3. QED
        BY <3>1, <3>2
    <2>7. QED
      BY <2>6 DEF FitInv
  <1>4. CASE SendResponse \/ \E s \in Sessions : Abort(s) \/ DeleteCurrent(s)
    <2>1. PICK s \in Sessions : entries' = [entries EXCEPT ![s] = None]
      BY <1>4, ActiveEntry DEF SendResponse, Abort, DeleteCurrent, Forget, Without, Entry
    <2>2. QED
      BY <1>0, <1>t, <2>1 DEF Waits
  <1>5. CASE UNCHANGED entries
    BY <1>0, <1>5 DEF Waits
  <1>6. CASE \/ (Elsewhere /\ UNCHANGED terminal) \/ Idle \/ UNCHANGED allVars
             \/ (\E v \in {"allow", "deny"} : Decide(v)) \/ \E s \in Sessions : UndoCurrent(s)
    <2>1. UNCHANGED entries
      BY <1>6 DEF Idle, Decide, UndoCurrent, allVars, terminal
    <2>2. QED
      BY <1>5, <2>1
  <1>7. QED
    BY <1>1, <1>2, <1>3, <1>4, <1>5, <1>6 DEF NextAll, User

\* The invariant behind DecisionsFit.
FittingInv ==
  /\ TerminalType /\ OthersIdle /\ NoTerminal /\ OneAtATime /\ Filed /\ QueueInv
  /\ GivenInv /\ DialogInv /\ CacheInv /\ FitInv

LEMMA FittingInit == InitAll => FittingInv
  <1> SUFFICES ASSUME InitAll PROVE FittingInv
    OBVIOUS
  <1>1. TerminalType
    BY TerminalInit
  <1>2. /\ \A r \in Requests : state[r] = "new" /\ slot[r] = Nobody
        /\ \A s \in Sessions : ~Waits(s)
        /\ dialogs = <<>> /\ active = NoSession /\ ~processing
        /\ \A k \in Kinds, p \in Paths : cache[k][p] = "unknown"
    BY DEF InitAll, Init, Waits
  <1>3. Terminal \in Frontends /\ Terminal # Bridge
    BY FrontendsDiffer DEF Frontends
  <1>4. /\ \A f \in Frontends : inbox[f] = <<>> /\ cards[f] = {}
        /\ process = "tui" => conn[Terminal] = "on" /\ \A f \in Frontends \ {Terminal} : conn[f] = "off"
        /\ process # "tui" => conn[Terminal] = "off"
        /\ channel = <<>>
    BY <1>3 DEF InitAll, Init
  <1>5. OthersIdle /\ NoTerminal
    BY <1>2, <1>3, <1>4 DEF OthersIdle, NoTerminal
  <1>6. OneAtATime /\ Filed
    BY <1>2 DEF OneAtATime, Filed, Over
  <1>7. QueueInv
    <2>1. Queue = <<>>
      BY <1>3, <1>4 DEF Queue
    <2>2. QED
      BY <1>2, <2>1 DEF QueueInv
  <1>8. GivenInv /\ DialogInv /\ CacheInv /\ FitInv
    BY <1>2 DEF GivenInv, DialogInv, CacheInv, FitInv
  <1>9. QED
    BY <1>1, <1>5, <1>6, <1>7, <1>8 DEF FittingInv

LEMMA FittingNext == FittingInv /\ [NextAll]_allVars => FittingInv'
  <1> SUFFICES ASSUME FittingInv, [NextAll]_allVars PROVE FittingInv'
    OBVIOUS
  <1>1. TerminalType' /\ TypeInv /\ [Next]_vars
    BY TerminalNext, DialogsStep DEF FittingInv, TerminalType
  <1>2. OthersIdle' /\ NoTerminal' /\ OneAtATime'
    BY <1>1, OthersIdleNext, NoTerminalNext, OneAtATimeNext DEF FittingInv
  <1>3. Filed' /\ QueueInv' /\ GivenInv'
    BY FiledNext, QueueNext, GivenNext DEF FittingInv
  <1>4. DialogInv' /\ CacheInv' /\ FitInv'
    BY DialogNext, CacheNext, FitNext DEF FittingInv
  <1>5. QED
    BY <1>1, <1>2, <1>3, <1>4 DEF FittingInv

(* What the terminal answers is what the user decided, though dialogs stay *)
(* open when their request is cancelled or replaced, an answer goes to the *)
(* tool the active request has reached, and one decision covers the paths  *)
(* beneath it: a question is answered from its own dialog, or from one of  *)
(* a request that was cancelled, and an approved tool stays on paths the   *)
(* user allowed in this process, be it only once and for another tool, for *)
(* any requests, tools and paths.                                          *)
THEOREM DecisionsAreTheUsers == SpecAll => []DecisionsFit
  <1>1. FittingInv => DecisionsFit
    BY DEF FittingInv, GivenInv, FitInv, Fits, AllowedBy, DecisionsFit, Waits
  <1>2. QED
    BY FittingInit, FittingNext, <1>1, PTL DEF SpecAll

-----------------------------------------------------------------------------
(* A request that waits is shown.                                          *)

\* While no session was deleted, the terminal works on a request or shows one
\* dialog of it, and rests only when nothing waits.
ShownInv ==
  deleted = {} =>
    /\ Len(dialogs) <= 1
    /\ processing \/ dialogs # <<>> => active # NoSession /\ Waits(active)
    /\ processing => dialogs = <<>>
    /\ ~processing /\ dialogs = <<>> => active = NoSession /\ \A s \in Sessions : ~Waits(s)
    /\ dialogs # <<>> => SessionOf[dialogs[1].req] = active

LEMMA ShownNext == TerminalType /\ Filed /\ ShownInv /\ [NextAll]_allVars => ShownInv'
  <1> SUFFICES ASSUME TerminalType, Filed, ShownInv, [NextAll]_allVars, deleted' = {}
               PROVE  ShownInv'
    BY DEF ShownInv
  <1>t. /\ entries \in [Sessions -> Entries \union {None}] /\ processing \in BOOLEAN
        /\ active \in Sessions \union {NoSession} /\ NoSession \notin Sessions
        /\ Len(<<>>) = 0 /\ <<>> \in Seq(Shown)
    BY NoSessionIsNone, EmptySeq DEF TerminalType
  <1>d. deleted = {} /\ ~\E s \in Sessions : DeleteCurrent(s)
    BY DEF NextAll, User, Decide, AnswerQuestion, Abort, DeleteCurrent, UndoCurrent, Arrive, Idle,
           Settle, SendResponse, allVars, terminal
  <1>i. /\ Len(dialogs) <= 1
        /\ processing \/ dialogs # <<>> => active # NoSession /\ Waits(active)
        /\ processing => dialogs = <<>>
        /\ ~processing /\ dialogs = <<>> => active = NoSession /\ \A s \in Sessions : ~Waits(s)
        /\ dialogs # <<>> => SessionOf[dialogs[1].req] = active
    BY <1>d DEF ShownInv
  <1>1. CASE UNCHANGED <<entries, active, dialogs, processing>>
    BY <1>i, <1>1 DEF ShownInv, Waits
  <1>2. CASE Arrive
    <2>0. PICK r : r = Head(inbox[Terminal])
      OBVIOUS
    <2>1. /\ ~processing /\ dialogs' = dialogs
          /\ entries' = [entries EXCEPT ![SessionOf[r]] = [req |-> r, given |-> <<>>]]
          /\ active' = (IF active = NoSession THEN SessionOf[r] ELSE active)
          /\ processing' = (active = NoSession)
      BY <1>2, <2>0 DEF Arrive
    <2>2. r \in Requests
      BY <1>2, <2>0, TakeType DEF Arrive, Frontends, TerminalType
    <2>3. SessionOf[r] \in Sessions /\ entries'[SessionOf[r]] # None
      <3>1. SessionOf[r] \in Sessions
        BY <2>2, RequestsHaveSessions
      <3>2. entries'[SessionOf[r]] = [req |-> r, given |-> <<>>]
        BY <1>t, <2>1, <3>1
      <3>3. entries'[SessionOf[r]] \in Entries
        BY <2>2, <3>2, EntryIsSome
      <3>4. QED
        BY <3>1, <3>3, EntryIsSome
    <2>4. CASE active = NoSession
      <3>1. dialogs' = <<>> /\ active' = SessionOf[r] /\ processing' = TRUE
        BY <1>i, <2>1, <2>4
      <3>2. QED
        BY <1>t, <2>3, <3>1 DEF ShownInv, Waits
    <2>5. CASE active # NoSession
      <3>1. dialogs # <<>> /\ active' = active /\ processing' = FALSE /\ active \in Sessions
        BY <1>t, <1>i, <2>1, <2>5
      <3>2. Waits(active)'
        BY <1>t, <1>i, <2>1, <2>3, <3>1 DEF Waits
      <3>3. QED
        BY <1>i, <2>1, <2>5, <3>1, <3>2 DEF ShownInv, Waits
    <2>6. QED
      BY <2>4, <2>5
  <1>3. ~Idle
    BY <1>t, <1>i DEF Idle, Waits
  <1>4. CASE Settle
    <2>1. active \in Sessions /\ Waits(active) /\ processing /\ active' = active
      BY <1>4, SettleFacts DEF Settle
    <2>2. PICK to \in Nat, g \in Seq(Answers) : Settles(to, g)
      BY <1>4, SettleFacts
    <2> DEFINE r == entries[active].req
               m == Len(Tools[r])
               d == [kind |-> Stage(Tools[r][to]), req |-> r, index |-> to]
    <2>3. r \in Requests /\ m \in Nat
      BY <2>1, WaitingEntry, ToolFacts
    <2>4. Waits(active)'
      <3>1. entries'[active] \in Entries
        BY <2>1, <2>2, NewAnswers DEF Settles
      <3>2. QED
        BY <2>1, <3>1, EntryIsSome DEF Waits
    <2>5. CASE to > m
      <3>1. dialogs' = <<>> /\ processing' = TRUE
        BY <1>i, <2>1, <2>2, <2>5 DEF Settles
      <3>2. QED
        BY <1>t, <2>1, <2>4, <3>1 DEF ShownInv, Waits
    <2>6. CASE to <= m
      <3>1. dialogs' = Append(<<>>, d) /\ processing' = FALSE
        <4>1. ~(to > m)
          BY <2>3, <2>6
        <4>2. QED
          BY <1>i, <2>1, <2>2, <2>6, <4>1 DEF Settles
      <3>2. d.req = r /\ SessionOf[r] = active
        BY <2>1 DEF Filed
      <3> HIDE DEF d
      <3>3. dialogs' = <<d>> /\ Len(dialogs') = 1 /\ dialogs'[1] = d /\ dialogs' # <<>>
        BY <3>1
      <3>4. QED
        BY <1>t, <2>1, <2>4, <3>1, <3>2, <3>3 DEF ShownInv, Waits
    <2>7. QED
      BY <2>3, <2>5, <2>6
  <1>5. CASE SendResponse
    <2>1. /\ processing /\ active \in Sessions
          /\ entries' = [entries EXCEPT ![active] = None] /\ dialogs' = dialogs
          /\ LET waiting == {s \in Sessions \ {active} : entries[s] # None}
             IN  \/ waiting = {} /\ active' = NoSession /\ processing' = FALSE
                 \/ active' \in waiting /\ UNCHANGED processing
      BY <1>5, ActiveEntry DEF SendResponse, Without, Entry
    <2>2. dialogs' = <<>>
      BY <1>i, <2>1
    <2>3. CASE active' = NoSession /\ processing' = FALSE /\ \A s \in Sessions \ {active} : entries[s] = None
      BY <1>t, <2>1, <2>2, <2>3 DEF ShownInv, Waits
    <2>4. CASE active' \in {s \in Sessions \ {active} : entries[s] # None} /\ processing' = processing
      BY <1>t, <2>1, <2>2, <2>4 DEF ShownInv, Waits
    <2>5. QED
      BY <2>1, <2>3, <2>4
  <1>6. ASSUME dialogs # <<>>, dialogs' = Front(dialogs), processing' = TRUE, active' = active, Waits(active)'
        PROVE  ShownInv'
    <2>1. dialogs' = <<>>
      <3>1. Front(dialogs) \in Seq(Shown) /\ Len(Front(dialogs)) = Len(dialogs) - 1 /\ Len(dialogs) \in Nat \ {0}
        BY <1>6, TopDialog
      <3>2. Len(Front(dialogs)) = 0
        BY <1>i, <3>1
      <3>3. QED
        BY <1>6, <3>1, <3>2, EmptySeq
    <2>2. QED
      BY <1>t, <1>i, <1>6, <2>1 DEF ShownInv, Waits
  <1>7. ASSUME NEW v \in {"allow", "deny"}, Decide(v) PROVE ShownInv'
    BY <1>i, <1>6, <1>7 DEF Decide, Close, Waits
  <1>8. CASE AnswerQuestion
    <2>1. dialogs # <<>> /\ dialogs' = Front(dialogs) /\ active # NoSession /\ Waits(active) /\ active' = active
      BY <1>i, <1>8 DEF AnswerQuestion, Close
    <2>2. entries' # entries
      <3>1. PICK g : g = Append(entries[active].given, AnswerFrom(Top))
        OBVIOUS
      <3>2. entries' = [entries EXCEPT ![active].given = g]
        BY <1>8, <2>1, <3>1 DEF AnswerQuestion, Waits, AnswerFrom
      <3>3. active \in Sessions /\ entries[active] \in Entries /\ entries[active].given \in Seq(Answers)
        BY <1>t, <2>1, WaitingEntry
      <3>4. entries'[active].given = g
        BY <1>t, <3>2, <3>3 DEF Entries
      <3>5. g # entries[active].given
        BY <3>1, <3>3
      <3>6. QED
        BY <3>4, <3>5
    <2>3. Waits(active)' /\ processing' = TRUE
      <3>1. /\ active \in Sessions /\ Waits(active) /\ processing'
            /\ \E g \in Seq(Answers) : entries' = [entries EXCEPT ![active].given = g]
        BY <1>8, <2>2, AnswerFacts
      <3>2. entries'[active] \in Entries
        BY <3>1, NewAnswers
      <3>3. processing' = TRUE
        BY <1>8, <2>1 DEF AnswerQuestion, Waits
      <3>4. QED
        BY <2>1, <3>2, <3>3, EntryIsSome DEF Waits
    <2>4. QED
      BY <1>6, <2>1, <2>3
  <1>9. ASSUME NEW s \in Sessions, Abort(s) PROVE ShownInv'
    <2>1. /\ dialogs = <<>> /\ ~processing /\ UNCHANGED <<dialogs, processing>>
          /\ entries' = [entries EXCEPT ![s] = None]
          /\ active' = IF active = s THEN NoSession ELSE active
      BY <1>9 DEF Abort, Forget, Without
    <2>2. QED
      BY <1>t, <1>i, <2>1 DEF ShownInv, Waits
  <1>10. CASE (Elsewhere /\ UNCHANGED terminal) \/ UNCHANGED allVars \/ \E s \in Sessions : UndoCurrent(s)
    BY <1>1, <1>10 DEF terminal, allVars, UndoCurrent
  <1>11. QED
    BY <1>d, <1>2, <1>3, <1>4, <1>5, <1>7, <1>8, <1>9, <1>10 DEF NextAll, User

(* While a request waits, a dialog of the active session is on top: nobody *)
(* waits for an answer the user cannot give, unless a session was deleted  *)
(* while it was open. For any requests, tools and order of their arrival.  *)
THEOREM WaitingAlwaysShown == SpecAll => []WaitingIsShown
  <1>1. InitAll => TerminalType /\ Filed /\ ShownInv
    <2>1. InitAll => Len(dialogs) <= 1 /\ \A s \in Sessions : ~Waits(s)
      BY EmptySeq DEF InitAll, Waits
    <2>2. QED
      BY <2>1, TerminalInit DEF InitAll, Filed, ShownInv
  <1>2. TerminalType /\ Filed /\ ShownInv /\ [NextAll]_allVars => (TerminalType /\ Filed /\ ShownInv)'
    BY TerminalNext, FiledNext, ShownNext
  <1>3. TerminalType /\ ShownInv => WaitingIsShown
    <2> SUFFICES ASSUME TerminalType, ShownInv, \E s \in Sessions : Waits(s), ~processing, deleted = {}
                 PROVE  active # NoSession /\ Waits(active) /\ dialogs # <<>> /\ SessionOf[Top.req] = active
      BY DEF WaitingIsShown, Waits
    <2>1. /\ dialogs # <<>> /\ active # NoSession /\ Waits(active) /\ Len(dialogs) <= 1
          /\ SessionOf[dialogs[1].req] = active
      BY DEF ShownInv
    <2>2. Top = dialogs[1]
      <3>1. Top = dialogs[Len(dialogs)] /\ Len(dialogs) \in Nat \ {0}
        BY <2>1, TopDialog
      <3>2. Len(dialogs) = 1
        <4>1. PICK n : n = Len(dialogs)
          OBVIOUS
        <4>2. n \in Nat /\ n # 0 /\ n <= 1
          BY <2>1, <3>1, <4>1
        <4>3. n = 1
          BY ONLY <4>2
        <4>4. QED
          BY <4>1, <4>3
      <3>3. QED
        BY <3>1, <3>2
    <2>3. QED
      BY <2>1, <2>2
  <1>4. QED
    BY <1>1, <1>2, <1>3, PTL DEF SpecAll
=============================================================================
