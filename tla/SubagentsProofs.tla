--------------------------- MODULE SubagentsProofs ---------------------------
(***************************************************************************)
(* Proofs about Subagents, for any number of task calls, any refused ones  *)
(* and any number of panics.                                               *)
(***************************************************************************)
EXTENDS Subagents, SequenceTheorems, FiniteSetTheorems, TLAPS

-----------------------------------------------------------------------------
(* The inductive invariants. *)

\* Where the parent's message leads while calls link it.
LinkInv ==
  /\ pc = "start" => \A c \in Calls : task[c] = "none"
  /\ \A c \in Calls : task[c] \in {"seeded", "linking"} => c \in seeded \intersect children
  /\ {bufferLink, storeLink} \ {Nobody} \subseteq seeded \intersect children
  /\ ~crossed =>
       /\ \A c \in Calls : task[c] = "linking" => bufferLink = c
       /\ bufferLink = storeLink \/ unsaved \/ \E c \in Calls : task[c] = "linking"

\* A call of a running batch: it is pending as long as it has no result, its
\* guard and its completions agree, and a real answer was never told otherwise.
Reported(c) == \E i \in DOMAIN events : events[i].call = c

CallInv(c) ==
  /\ task[c] # "none"
  /\ told[c] <=> Reported(c)
  /\ c \in pending <=> result[c] = "none"
  /\ result[c] = "real" => task[c] = "joined"
  /\ result[c] # "disabled"
  /\ \A i \in DOMAIN events : events[i].call = c => events[i].how \in {"cancelled", result[c]}
  /\ pc = "select" => (told[c] => task[c] \in {"gone", "joined"})

Running == pc \in {"select", "drain", "failed"}
Once == \A i, j \in DOMAIN events : events[i].call = events[j].call => i = j
Agree == \A c \in Calls : result[c] # "none" =>
           \E i \in DOMAIN events : events[i].call = c /\ events[i].how = result[c]
Unanswered == {c \in Calls : result[c] = "none"}
Lost == {c \in Unanswered : task[c] = "joined"}

ToldInv ==
  /\ Once /\ Agree
  /\ pc = "start" =>
       /\ events = <<>>
       /\ \A c \in Calls : task[c] = "none" /\ ~told[c] /\ result[c] = "none"
  /\ Running => \A c \in Calls : CallInv(c)
  /\ pc \in {"select", "drain"} => Cardinality(Lost) <= mixups
  /\ pc = "returned" =>
       /\ \A c \in Calls : task[c] \in {"none", "joined"}
       /\ Cardinality(Unanswered) <= mixups

Inv == TypeOK /\ LinkInv /\ ToldInv

-----------------------------------------------------------------------------
(* Type correctness. *)

LEMMA TypeInit == Init => TypeOK
  <1> SUFFICES ASSUME Init PROVE TypeOK
    OBVIOUS
  <1>1. /\ <<>> \in Seq(Calls)
        /\ <<>> \in Seq([call : Calls, how : {"real", "cancelled", "disabled"}])
    BY EmptySeq
  <1>2. /\ ended \in Seq(Calls)
        /\ events \in Seq([call : Calls, how : {"real", "cancelled", "disabled"}])
    BY <1>1 DEF Init
  <1>3. /\ task \in [Calls -> Alive \union {"none", "ok", "refused", "gone", "joined"}]
        /\ told \in [Calls -> BOOLEAN]
        /\ result \in [Calls -> {"none", "real", "cancelled", "disabled"}]
    BY DEF Init
  <1>4. QED
    BY <1>2, <1>3 DEF Init, TypeOK

\* The oldest ended task, when one is joined.
LEMMA JoinType ==
  ASSUME TypeOK, ended # <<>>
  PROVE  First \in Calls /\ Tail(ended) \in Seq(Calls)
  BY HeadTailProperties DEF TypeOK, First

LEMMA TellType ==
  ASSUME TypeOK, NEW c \in Calls, NEW answer \in {"real", "cancelled", "disabled"}, Tell(c, answer)
  PROVE  /\ told' \in [Calls -> BOOLEAN]
         /\ events' \in Seq([call : Calls, how : {"real", "cancelled", "disabled"}])
  <1>1. Append(events, [call |-> c, how |-> answer]) \in Seq([call : Calls, how : {"real", "cancelled", "disabled"}])
    BY AppendProperties DEF TypeOK
  <1>2. QED
    BY <1>1 DEF Tell, TypeOK

LEMMA EndType ==
  ASSUME TypeOK, NEW c \in Calls, NEW how \in {"ok", "refused", "gone"}, End(c, how)
  PROVE  /\ task' \in [Calls -> Alive \union {"none", "ok", "refused", "gone", "joined"}]
         /\ ended' \in Seq(Calls)
  <1>1. Append(ended, c) \in Seq(Calls)
    BY AppendProperties DEF TypeOK
  <1>2. QED
    BY <1>1 DEF End, TypeOK

LEMMA TypeNext == TypeOK /\ [Next]_vars => TypeOK'
  <1> SUFFICES ASSUME TypeOK, [Next]_vars PROVE TypeOK'
    OBVIOUS
  <1>1. CASE AnswerAll
    <2>1. \A answer \in {"cancelled", "disabled"} : [i \in Calls |-> [call |-> i, how |-> answer]]
             \in Seq([call : Calls, how : {"real", "cancelled", "disabled"}])
      <3> SUFFICES ASSUME NEW answer \in {"cancelled", "disabled"}
                   PROVE  [i \in Calls |-> [call |-> i, how |-> answer]]
                            \in Seq([call : Calls, how : {"real", "cancelled", "disabled"}])
        OBVIOUS
      <3>1. \A S : \A n \in Nat : \A f \in [1 .. n -> S] : f \in Seq(S)
        OBVIOUS
      <3>2. [i \in Calls |-> [call |-> i, how |-> answer]]
              \in [Calls -> [call : Calls, how : {"real", "cancelled", "disabled"}]]
        OBVIOUS
      <3>3. QED
        BY <3>1, <3>2, CallsAreRefused DEF Calls
    <2>2. QED
      BY <1>1, <2>1 DEF AnswerAll, TypeOK, links
  <1>2. CASE Spawn
    BY <1>2 DEF Spawn, TypeOK, links, Alive
  <1>3. CASE SeeCancel
    BY <1>3 DEF SeeCancel, TypeOK, links
  <1>4. CASE JoinOk
    <2>1. First \in Calls /\ Tail(ended) \in Seq(Calls)
      BY <1>4, JoinType DEF JoinOk, Joins
    <2>2. /\ told' \in [Calls -> BOOLEAN]
          /\ events' \in Seq([call : Calls, how : {"real", "cancelled", "disabled"}])
      BY <1>4, <2>1, TellType DEF JoinOk, Answer
    <2>3. QED
      BY <1>4, <2>1, <2>2 DEF JoinOk, Join, Answer, TypeOK, links, Alive
  <1>5. CASE JoinFails
    BY <1>5, JoinType DEF JoinFails, Joins, Join, TypeOK, links, Alive
  <1>6. CASE DrainRefused
    <2>1. First \in Calls /\ Tail(ended) \in Seq(Calls)
      BY <1>6, JoinType DEF DrainRefused, Joins
    <2>2. /\ told' \in [Calls -> BOOLEAN]
          /\ events' \in Seq([call : Calls, how : {"real", "cancelled", "disabled"}])
      BY <1>6, <2>1, TellType DEF DrainRefused, Answer
    <2>3. QED
      BY <1>6, <2>1, <2>2 DEF DrainRefused, Join, Answer, TypeOK, links, Alive
  <1>7. CASE DrainGone
    <2>1. First \in Calls /\ Tail(ended) \in Seq(Calls)
      BY <1>7, JoinType DEF DrainGone, Joins
    <2>2. CASE pending = {} /\ UNCHANGED <<pending, told, events, result, mixups>>
      BY <1>7, <2>1, <2>2 DEF DrainGone, Join, TypeOK, links, Alive
    <2>3. ASSUME NEW c \in pending, pending' = pending \ {c}, Answer(c, "cancelled"),
                 mixups' = IF c = First THEN mixups ELSE mixups + 1
          PROVE  TypeOK'
      <3>1. c \in Calls
        BY DEF TypeOK
      <3>2. /\ told' \in [Calls -> BOOLEAN]
            /\ events' \in Seq([call : Calls, how : {"real", "cancelled", "disabled"}])
        BY <2>3, <3>1, TellType DEF Answer
      <3>3. mixups' \in Nat
        BY <2>3 DEF TypeOK
      <3>4. QED
        BY <1>7, <2>1, <2>3, <3>1, <3>2, <3>3 DEF DrainGone, Join, Answer, TypeOK, links, Alive
    <2>4. QED
      BY <1>7, <2>2, <2>3 DEF DrainGone
  <1>8. CASE JoinNone
    BY <1>8 DEF JoinNone, TypeOK, links
  <1>9. CASE Cancel
    BY <1>9 DEF Cancel, TypeOK, links
  <1>10. ASSUME NEW c \in Calls, Poll(c) PROVE TypeOK'
    <2>1. CASE c \in Refused
      BY <1>10, <2>1, EndType DEF Poll, TypeOK, batch
    <2>2. CASE c \notin Refused
      BY <1>10, <2>2 DEF Poll, TypeOK, batch, Alive
    <2>3. QED
      BY <2>1, <2>2
  <1>11. ASSUME NEW c \in Calls, LinkBuffer(c) PROVE TypeOK'
    BY <1>11 DEF LinkBuffer, TypeOK, batch, Alive
  <1>12. ASSUME NEW c \in Calls, LinkStore(c) PROVE TypeOK'
    BY <1>12 DEF LinkStore, TypeOK, batch, Alive
  <1>13. ASSUME NEW c \in Calls, Finish(c) PROVE TypeOK'
    BY <1>13, EndType DEF Finish, TypeOK, batch, links
  <1>14. ASSUME NEW c \in Calls, Panic(c) PROVE TypeOK'
    <2>1. /\ task' \in [Calls -> Alive \union {"none", "ok", "refused", "gone", "joined"}]
          /\ ended' \in Seq(Calls)
      BY <1>14, EndType DEF Panic
    <2>2. /\ told' \in [Calls -> BOOLEAN]
          /\ events' \in Seq([call : Calls, how : {"real", "cancelled", "disabled"}])
      BY <1>14, TellType DEF Panic
    <2>3. panics' \in Nat
      BY <1>14 DEF Panic, TypeOK
    <2>4. QED
      BY <1>14, <2>1, <2>2, <2>3 DEF Panic, TypeOK, batch, links
  <1>15. ASSUME NEW c \in Calls, Abort(c) PROVE TypeOK'
    BY <1>15, EndType, TellType DEF Abort, TypeOK, batch, links
  <1>16. CASE UNCHANGED vars
    BY <1>16 DEF vars, batch, links, TypeOK
  <1>17. QED
    BY <1>1, <1>2, <1>3, <1>4, <1>5, <1>6, <1>7, <1>8, <1>9, <1>10, <1>11, <1>12, <1>13,
       <1>14, <1>15, <1>16 DEF Next, Scheduler

-----------------------------------------------------------------------------
(* Links. *)

LEMMA LinkInit == Init => LinkInv
  BY DEF Init, LinkInv

LEMMA LinkNext == TypeOK /\ LinkInv /\ [Next]_vars => LinkInv'
  <1> SUFFICES ASSUME TypeOK, LinkInv, [Next]_vars PROVE LinkInv'
    OBVIOUS
  <1>t. task \in [Calls -> Alive \union {"none", "ok", "refused", "gone", "joined"}]
    BY DEF TypeOK
  \* A step that links nothing, and makes no task seeded or linking.
  <1>1. ASSUME UNCHANGED <<seeded, bufferLink, storeLink, crossed, unsaved>>, children \subseteq children',
               pc' = "start" => pc = "start" /\ UNCHANGED task,
               \A c \in Calls : task'[c] = task[c] \/ (task[c] # "linking" /\ task'[c] \notin {"seeded", "linking"})
        PROVE  LinkInv'
    BY <1>1 DEF LinkInv
  <1>2. CASE Scheduler \/ Cancel \/ UNCHANGED vars
    <2>1. ended # <<>> => First \in Calls
      BY JoinType
    <2>2. UNCHANGED links
      BY <1>2 DEF Scheduler, AnswerAll, Spawn, SeeCancel, JoinOk, JoinFails, DrainRefused, DrainGone,
                  JoinNone, Cancel, vars
    <2>3. CASE Spawn
      BY <2>2, <2>3 DEF Spawn, LinkInv, links, TypeOK
    <2>4. CASE ~Spawn
      <3>1. UNCHANGED task \/ \E how \in {"ok", "refused", "gone"} : Joins(how) /\ Join
        BY <1>2, <2>4 DEF Scheduler, AnswerAll, SeeCancel, JoinOk, JoinFails, DrainRefused, DrainGone,
                  JoinNone, Cancel, vars
      <3>2. ASSUME NEW how \in {"ok", "refused", "gone"}, Joins(how), Join, NEW c \in Calls
            PROVE  task'[c] = task[c] \/ (task[c] # "linking" /\ task'[c] \notin {"seeded", "linking"})
        <4>1. CASE c = First
          BY <1>t, <3>2, <4>1 DEF Joins, Join
        <4>2. CASE c # First
          BY <1>t, <3>2, <4>2 DEF Join
        <4>3. QED
          BY <4>1, <4>2
      <3>3. pc' = "start" => pc = "start" /\ UNCHANGED task
        BY <1>2, <2>4 DEF Scheduler, AnswerAll, SeeCancel, JoinOk, JoinFails, DrainRefused, DrainGone,
                  JoinNone, Cancel, vars, batch
      <3>4. QED
        BY <1>1, <2>2, <3>1, <3>2, <3>3 DEF links
    <2>5. QED
      BY <2>3, <2>4
  <1>3. ASSUME NEW c \in Calls, Poll(c) PROVE LinkInv'
    <2>1. CASE c \in Refused
      <3>1. task[c] = "queued" /\ task' = [task EXCEPT ![c] = "refused"] /\ pc' = pc
        BY <1>3, <2>1 DEF Poll, End, batch
      <3>2. pc # "start"
        BY <3>1 DEF LinkInv
      <3>3. QED
        BY <1>t, <1>1, <1>3, <2>1, <3>1, <3>2 DEF Poll
    <2>2. CASE c \notin Refused
      BY <1>t, <1>3, <2>2 DEF Poll, LinkInv, batch
    <2>3. QED
      BY <2>1, <2>2
  <1>4. ASSUME NEW c \in Calls, LinkBuffer(c) PROVE LinkInv'
    BY <1>t, <1>4 DEF LinkBuffer, LinkInv, batch
  <1>5. ASSUME NEW c \in Calls, LinkStore(c) PROVE LinkInv'
    BY <1>t, <1>5 DEF LinkStore, LinkInv, batch
  <1>6. ASSUME NEW c \in Calls, Finish(c) \/ Panic(c) \/ Abort(c) PROVE LinkInv'
    <2>1. task[c] # "linking" /\ UNCHANGED links
      BY <1>6 DEF Finish, Panic, Abort, Alive
    <2>2. PICK how \in {"ok", "gone"} : task' = [task EXCEPT ![c] = how]
      BY <1>6 DEF Finish, Panic, Abort, End
    <2>3. pc' = pc /\ pc # "start"
      BY <1>6 DEF Finish, Panic, Abort, batch, Alive, Aborting, LinkInv
    <2>4. QED
      BY <1>t, <1>1, <2>1, <2>2, <2>3 DEF links
  <1>7. QED
    BY <1>2, <1>3, <1>4, <1>5, <1>6 DEF Next

(* The parent's message leads to a child session that exists and holds its *)
(* prompt, and the buffer's link is the store's unless two calls crossed   *)
(* or the store refused the last link.                                     *)
THEOREM LinksAreSound == Spec => []LinksLeadToChildren
  <1>1. Init => TypeOK /\ LinkInv
    BY TypeInit, LinkInit
  <1>2. (TypeOK /\ LinkInv) /\ [Next]_vars => (TypeOK /\ LinkInv)'
    BY TypeNext, LinkNext
  <1>3. LinkInv => LinksLeadToChildren
    BY DEF LinkInv, LinksLeadToChildren
  <1>4. QED
    BY <1>1, <1>2, <1>3, PTL DEF Spec

-----------------------------------------------------------------------------
(* Completions and results. *)

LEMMA CallsFinite ==
  /\ IsFiniteSet(Calls)
  /\ \A S \in SUBSET Calls : IsFiniteSet(S) /\ Cardinality(S) \in Nat
  /\ \A S \in SUBSET Calls : \A T \in SUBSET S : Cardinality(T) <= Cardinality(S)
  /\ \A S \in SUBSET Calls, c \in Calls : Cardinality(S \union {c}) <= Cardinality(S) + 1
  <1>1. IsFiniteSet(Calls)
    BY CallsAreRefused, FS_Interval DEF Calls
  <1>2. \A S \in SUBSET Calls : IsFiniteSet(S) /\ Cardinality(S) \in Nat
    BY <1>1, FS_Subset, FS_CardinalityType
  <1>3. \A S \in SUBSET Calls : \A T \in SUBSET S : Cardinality(T) <= Cardinality(S)
    BY <1>2, FS_Subset
  <1>4. ASSUME NEW S \in SUBSET Calls, NEW c \in Calls
        PROVE  Cardinality(S \union {c}) <= Cardinality(S) + 1
    BY <1>2, FS_AddElement
  <1>5. QED
    BY <1>1, <1>2, <1>3, <1>4

\* What one report changes: at most one event, about its call.
LEMMA TellFacts ==
  ASSUME TypeOK, Once, NEW c \in Calls, NEW answer \in {"real", "cancelled"},
         Tell(c, answer), told[c] <=> Reported(c)
  PROVE  /\ Once'
         /\ \A i \in DOMAIN events : i \in DOMAIN events' /\ events'[i] = events[i]
         /\ \A i \in DOMAIN events' :
              \/ i \in DOMAIN events /\ events'[i] = events[i]
              \/ ~told[c] /\ events'[i].call = c /\ events'[i].how = answer
         /\ told[c] \/ \E i \in DOMAIN events' : events'[i].call = c /\ events'[i].how = answer
         /\ told' = [told EXCEPT ![c] = TRUE]
  <1> DEFINE E == [call : Calls, how : {"real", "cancelled", "disabled"}]
             e == [call |-> c, how |-> answer]
  <1> HIDE DEF E, e
  <1>1. CASE told[c]
    BY <1>1 DEF Tell, Once
  <1>2. CASE ~told[c]
    <2>1. events \in Seq(E) /\ e \in E /\ events' = Append(events, e)
      BY <1>2 DEF TypeOK, Tell, E, e
    <2>2. /\ Len(events) \in Nat /\ DOMAIN events = 1 .. Len(events)
          /\ DOMAIN events' = 1 .. Len(events) + 1 /\ events'[Len(events) + 1] = e
          /\ \A i \in 1 .. Len(events) : events'[i] = events[i]
      BY <2>1, AppendProperties, LenProperties
    <2>3. \A i \in DOMAIN events : events[i].call # c
      BY <1>2 DEF Reported
    <2>4. Once'
      <3> SUFFICES ASSUME NEW i \in DOMAIN events', NEW j \in DOMAIN events',
                          events'[i].call = events'[j].call
                   PROVE  i = j
        BY DEF Once
      <3>1. CASE i \in DOMAIN events /\ j \in DOMAIN events
        BY <2>2, <3>1 DEF Once
      <3>2. CASE i = Len(events) + 1 /\ j \in DOMAIN events
        BY <2>2, <2>3, <3>2 DEF e
      <3>3. CASE j = Len(events) + 1 /\ i \in DOMAIN events
        BY <2>2, <2>3, <3>3 DEF e
      <3>4. QED
        BY <2>2, <3>1, <3>2, <3>3
    <2>5. events'[Len(events) + 1].call = c /\ events'[Len(events) + 1].how = answer
      BY <2>2 DEF e
    <2>6. told' = [told EXCEPT ![c] = TRUE]
      BY DEF Tell
    <2>7. \A i \in DOMAIN events : i \in DOMAIN events' /\ events'[i] = events[i]
      BY <2>2
    <2>8. \A i \in DOMAIN events' :
            \/ i \in DOMAIN events /\ events'[i] = events[i]
            \/ events'[i].call = c /\ events'[i].how = answer
      BY <2>2, <2>5
    <2>9. \E i \in DOMAIN events' : events'[i].call = c /\ events'[i].how = answer
      BY <2>2, <2>5
    <2>10. QED
      BY <1>2, <2>4, <2>6, <2>7, <2>8, <2>9
  <1>3. QED
    BY <1>1, <1>2

\* A report about c leaves the other calls alone.
LEMMA TellOthers ==
  ASSUME TypeOK, Once, NEW c \in Calls, NEW answer \in {"real", "cancelled"},
         Tell(c, answer), told[c] <=> Reported(c)
  PROVE  /\ Reported(c)' /\ told'[c]
         /\ \A d \in Calls : d # c => (Reported(d)' <=> Reported(d)) /\ told'[d] = told[d]
         /\ \A d \in Calls, i \in DOMAIN events' :
              d # c /\ events'[i].call = d => i \in DOMAIN events /\ events'[i] = events[i]
  <1>f. /\ \A i \in DOMAIN events : i \in DOMAIN events' /\ events'[i] = events[i]
        /\ \A i \in DOMAIN events' :
             \/ i \in DOMAIN events /\ events'[i] = events[i]
             \/ ~told[c] /\ events'[i].call = c /\ events'[i].how = answer
        /\ told[c] \/ \E i \in DOMAIN events' : events'[i].call = c /\ events'[i].how = answer
    BY TellFacts
  <1>1. told'[c] /\ \A d \in Calls : d # c => told'[d] = told[d]
    BY DEF Tell, TypeOK
  <1>2. Reported(c)'
    BY <1>f DEF Reported
  <1>3. \A d \in Calls, i \in DOMAIN events' :
          d # c /\ events'[i].call = d => i \in DOMAIN events /\ events'[i] = events[i]
    BY <1>f
  <1>4. \A d \in Calls : d # c => (Reported(d)' <=> Reported(d))
    BY <1>f, <1>3 DEF Reported
  <1>5. QED
    BY <1>1, <1>2, <1>3, <1>4

\* A step of a task, with or without the report of its guard.
LEMMA TaskStep ==
  ASSUME TypeOK, ToldInv, Running, UNCHANGED <<pc, pending, result, mixups>>,
         NEW c \in Calls, task[c] \notin {"none", "joined", "gone"},
         NEW how, how \notin {"none", "joined"}, task' = [task EXCEPT ![c] = how],
         UNCHANGED <<told, events>> \/ (Tell(c, "cancelled") /\ how = "gone")
  PROVE  ToldInv'
  <1>t. task \in [Calls -> Alive \union {"none", "ok", "refused", "gone", "joined"}]
    BY DEF TypeOK
  <1>c. \A d \in Calls : CallInv(d)
    BY DEF ToldInv
  <1>1. Lost' = Lost
    BY <1>t DEF Lost, Unanswered
  <1>2. CASE UNCHANGED <<told, events>>
    <2>1. \A d \in Calls : CallInv(d)'
      BY <1>c, <1>t, <1>2 DEF CallInv, Reported
    <2>2. QED
      BY <1>1, <1>2, <2>1 DEF ToldInv, Once, Agree, Running
  <1>3. CASE Tell(c, "cancelled") /\ how = "gone"
    <2>1. told[c] <=> Reported(c)
      BY <1>c DEF CallInv
    <2>2. Once
      BY DEF ToldInv
    <2>3. CallInv(c)'
      BY <1>c, <1>t, <1>3, <2>1, <2>2, TellFacts, TellOthers DEF CallInv
    <2>4. \A d \in Calls : d # c => CallInv(d)'
      BY <1>c, <1>t, <1>3, <2>1, <2>2, TellFacts, TellOthers DEF CallInv
    <2>5. Once' /\ Agree'
      BY <1>3, <2>1, <2>2, TellFacts DEF ToldInv, Agree
    <2>6. QED
      BY <1>1, <2>3, <2>4, <2>5 DEF ToldInv, Running
  <1>4. QED
    BY <1>2, <1>3

\* A joined task: its call is answered, or another pending one.
LEMMA JoinStep ==
  ASSUME TypeOK, ToldInv, pc \in {"select", "drain"}, pc' = pc,
         First \in Calls, task[First] \notin {"none", "joined"}, task' = [task EXCEPT ![First] = "joined"],
         NEW c \in Calls, NEW answer \in {"real", "cancelled"}, Answer(c, answer), pending' = pending \ {c},
         answer = "real" => pc = "select" /\ task[First] = "ok",
         pc = "select" => c = First,
         \/ c = First /\ mixups' = mixups
         \/ c # First /\ c \in pending /\ mixups' = mixups + 1
  PROVE  ToldInv'
  <1>t. /\ task \in [Calls -> Alive \union {"none", "ok", "refused", "gone", "joined"}]
        /\ result \in [Calls -> {"none", "real", "cancelled", "disabled"}]
        /\ mixups \in Nat
    BY DEF TypeOK
  <1>c. /\ \A d \in Calls : CallInv(d)
        /\ Once /\ Agree /\ Cardinality(Lost) <= mixups
    BY DEF ToldInv, Running
  <1>a. Tell(c, answer) /\ result' = [result EXCEPT ![c] = answer]
    BY DEF Answer
  <1>b. told[c] <=> Reported(c)
    BY <1>c DEF CallInv
  <1>1. result[c] \in {"none", "cancelled"}
    BY <1>c, <1>t DEF CallInv
  <1>2. \A i \in DOMAIN events : events[i].call = c => events[i].how = "cancelled"
    <2>1. ASSUME NEW i \in DOMAIN events PROVE events[i].how # "none"
      <3>1. events[i] \in [call : Calls, how : {"real", "cancelled", "disabled"}]
        <4>1. events \in Seq([call : Calls, how : {"real", "cancelled", "disabled"}])
          BY DEF TypeOK
        <4>2. i \in 1 .. Len(events)
          BY <4>1, LenProperties
        <4>3. QED
          BY <4>1, <4>2, ElementOfSeq
      <3>2. QED
        BY <3>1
    <2>2. QED
      BY <1>c, <1>1, <2>1 DEF CallInv
  <1>3. answer = "real" => ~told[c]
    BY <1>c DEF CallInv
  <1>4. CallInv(c)'
    <2>1. task'[c] # "none" /\ (answer = "real" => task'[c] = "joined") /\ (pc = "select" => task'[c] = "joined")
      BY <1>t, <1>c DEF CallInv
    <2>2. \A i \in DOMAIN events' : events'[i].call = c => events'[i].how \in {"cancelled", answer}
      BY <1>a, <1>b, <1>c, <1>2, TellFacts
    <2>3. result'[c] = answer
      BY <1>a, <1>t
    <2>4. QED
      BY <1>a, <1>b, <1>c, <2>1, <2>2, <2>3, TellOthers DEF CallInv
  <1>5. ASSUME NEW d \in Calls, d # c PROVE CallInv(d)'
    <2>1. result'[d] = result[d] /\ (d \in pending' <=> d \in pending) /\ task'[d] \in {task[d], "joined"}
      BY <1>a, <1>t, <1>5
    <2>2. QED
      BY <1>a, <1>b, <1>c, <1>5, <2>1, TellOthers DEF CallInv
  <1>6. Once'
    BY <1>a, <1>b, <1>c, TellFacts
  <1>7. Agree'
    <2> SUFFICES ASSUME NEW d \in Calls, result'[d] # "none"
                 PROVE  \E i \in DOMAIN events' : events'[i].call = d /\ events'[i].how = result'[d]
      BY DEF Agree
    <2>1. CASE d # c
      <3>1. PICK i \in DOMAIN events : events[i].call = d /\ events[i].how = result[d]
        BY <1>a, <1>c, <1>t, <2>1 DEF Agree
      <3>2. QED
        BY <1>a, <1>b, <1>c, <1>t, <2>1, <3>1, TellFacts
    <2>2. CASE d = c /\ told[c]
      <3>1. answer = "cancelled" /\ result'[c] = answer
        BY <1>3, <1>a, <1>t, <2>2
      <3>2. PICK i \in DOMAIN events : events[i].call = c
        BY <1>b, <2>2 DEF Reported
      <3>3. QED
        BY <1>a, <1>b, <1>c, <1>2, <2>2, <3>1, <3>2, TellFacts
    <2>3. CASE d = c /\ ~told[c]
      <3>1. result'[c] = answer
        BY <1>a, <1>t
      <3>2. PICK i \in DOMAIN events' : events'[i].call = c /\ events'[i].how = answer
        BY <1>a, <1>b, <1>c, <2>3, TellFacts
      <3>3. QED
        BY <2>3, <3>1, <3>2
    <2>4. QED
      BY <2>1, <2>2, <2>3
  <1>8. Cardinality(Lost') <= mixups'
    <2>1. Lost \subseteq Calls /\ Cardinality(Lost) \in Nat
      BY CallsFinite DEF Lost, Unanswered
    <2>2. CASE c = First
      <3>1. Lost' \subseteq Lost
        BY <1>a, <1>t, <2>2 DEF Lost, Unanswered
      <3>2. Cardinality(Lost') <= Cardinality(Lost)
        BY <2>1, <3>1, CallsFinite
      <3>3. Lost' \in SUBSET Calls /\ Cardinality(Lost') \in Nat
        BY <2>1, <3>1, CallsFinite
      <3>4. QED
        BY <1>c, <1>t, <2>1, <2>2, <3>2, <3>3
    <2>3. CASE c # First
      <3>1. Lost' \subseteq Lost \union {First}
        BY <1>a, <1>t, <2>3 DEF Lost, Unanswered
      <3>2. Lost \union {First} \in SUBSET Calls
        BY <2>1
      <3>3. /\ Cardinality(Lost') <= Cardinality(Lost \union {First})
            /\ Cardinality(Lost \union {First}) <= Cardinality(Lost) + 1
            /\ Cardinality(Lost') \in Nat /\ Cardinality(Lost \union {First}) \in Nat
        BY <2>1, <3>1, <3>2, CallsFinite
      <3>4. QED
        BY <1>c, <1>t, <2>1, <2>3, <3>3
    <2>4. QED
      BY <2>2, <2>3
  <1>9. QED
    BY <1>4, <1>5, <1>6, <1>7, <1>8 DEF ToldInv, Running

\* A joined task whose call keeps what it has.
LEMMA JoinOnly ==
  ASSUME TypeOK, ToldInv, Running, Running', UNCHANGED <<told, events, pending, result, mixups>>,
         First \in Calls, task[First] # "none", task' = [task EXCEPT ![First] = "joined"],
         pc' = "select" => pc = "select",
         pc' \in {"select", "drain"} => pc \in {"select", "drain"} /\ First \notin pending
  PROVE  ToldInv'
  <1>t. task \in [Calls -> Alive \union {"none", "ok", "refused", "gone", "joined"}]
    BY DEF TypeOK
  <1>c. \A d \in Calls : CallInv(d)
    BY DEF ToldInv
  <1>1. \A d \in Calls : task'[d] \in {task[d], "joined"} /\ task'[d] # "none"
    BY <1>c, <1>t DEF CallInv
  <1>2. \A d \in Calls : CallInv(d)'
    BY <1>c, <1>1 DEF CallInv, Reported
  <1>3. First \notin pending => Lost' = Lost
    <2>1. First \notin pending => result[First] # "none"
      BY <1>c DEF CallInv
    <2>2. QED
      BY <1>t, <2>1 DEF Lost, Unanswered
  <1>4. QED
    BY <1>2, <1>3 DEF ToldInv, Once, Agree, Running

LEMMA ToldInit == Init => ToldInv
  BY DEF Init, ToldInv, Once, Agree, Running

LEMMA ToldNext == TypeOK /\ ToldInv /\ [Next]_vars => ToldInv'
  <1> SUFFICES ASSUME TypeOK, ToldInv, [Next]_vars PROVE ToldInv'
    OBVIOUS
  <1>t. /\ task \in [Calls -> Alive \union {"none", "ok", "refused", "gone", "joined"}]
        /\ result \in [Calls -> {"none", "real", "cancelled", "disabled"}]
        /\ mixups \in Nat
    BY DEF TypeOK
  <1>r. ASSUME NEW c \in Calls, task[c] \notin {"none", "joined"} PROVE Running
    BY <1>r DEF ToldInv, TypeOK, Running
  <1>j. ended # <<>> => First \in Calls
    BY JoinType
  <1>1. CASE AnswerAll
    <2>1. PICK how \in {"cancelled", "disabled"} :
            events' = [i \in Calls |-> [call |-> i, how |-> how]] /\ result' = [c \in Calls |-> how]
      BY <1>1 DEF AnswerAll
    <2>2. DOMAIN events' = Calls /\ \A c \in Calls : events'[c].call = c /\ events'[c].how = result'[c]
      BY <2>1
    <2>3. Once' /\ Agree'
      BY <2>2 DEF Once, Agree
    <2>4. Cardinality(Unanswered') <= mixups'
      <3>1. Unanswered' = {}
        BY <2>1 DEF Unanswered
      <3>2. QED
        BY <1>1, <1>t, <3>1, FS_EmptySet DEF AnswerAll
    <2>5. QED
      BY <1>1, <2>3, <2>4 DEF AnswerAll, ToldInv, Running
  <1>2. CASE Spawn
    <2>1. events = <<>> /\ \A c \in Calls : task[c] = "none" /\ ~told[c] /\ result[c] = "none"
      BY <1>2 DEF Spawn, ToldInv
    <2>2. \A c \in Calls : CallInv(c)'
      BY <1>2, <2>1 DEF Spawn, CallInv, Reported
    <2>3. Cardinality(Lost') <= mixups'
      <3>1. Lost' = {}
        BY <1>2 DEF Spawn, Lost, Unanswered
      <3>2. QED
        BY <1>2, <1>t, <3>1, FS_EmptySet DEF Spawn
    <2>4. QED
      BY <1>2, <2>2, <2>3 DEF Spawn, ToldInv, Once, Agree, Running
  <1>3. CASE SeeCancel
    BY <1>3 DEF SeeCancel, ToldInv, Once, Agree, Running, CallInv, Reported, Lost, Unanswered
  <1>4. CASE JoinOk
    <2> DEFINE answer == IF pc = "drain" \/ fired THEN "cancelled" ELSE "real"
    <2>1. First \in Calls /\ task[First] = "ok" /\ task' = [task EXCEPT ![First] = "joined"]
      BY <1>4, <1>j DEF JoinOk, Joins, Join
    <2>2. answer \in {"real", "cancelled"} /\ (answer = "real" => pc = "select")
      BY <1>4 DEF JoinOk
    <2>3. Answer(First, answer) /\ pending' = pending \ {First} /\ mixups' = mixups
          /\ pc' = pc /\ pc \in {"select", "drain"}
      BY <1>4 DEF JoinOk
    <2> HIDE DEF answer
    <2>4. QED
      BY <2>1, <2>2, <2>3, JoinStep
  <1>5. CASE JoinFails
    <2>1. First \in Calls /\ task[First] # "none" /\ task' = [task EXCEPT ![First] = "joined"]
      BY <1>5, <1>j DEF JoinFails, Joins, Join
    <2>2. QED
      BY <1>5, <2>1, JoinOnly DEF JoinFails, Running
  <1>6. CASE DrainRefused
    <2>1. First \in Calls /\ task[First] = "refused" /\ task' = [task EXCEPT ![First] = "joined"]
      BY <1>6, <1>j DEF DrainRefused, Joins, Join
    <2>2. QED
      BY <1>6, <2>1, JoinStep DEF DrainRefused
  <1>7. CASE DrainGone
    <2>1. /\ First \in Calls /\ task[First] = "gone" /\ task' = [task EXCEPT ![First] = "joined"]
          /\ pc = "drain" /\ pc' = pc
      BY <1>7, <1>j DEF DrainGone, Joins, Join
    <2>2. CASE pending = {} /\ UNCHANGED <<pending, told, events, result, mixups>>
      BY <2>1, <2>2, JoinOnly DEF Running
    <2>3. ASSUME NEW c \in pending, pending' = pending \ {c}, Answer(c, "cancelled"),
                 mixups' = IF c = First THEN mixups ELSE mixups + 1
          PROVE  ToldInv'
      <3>1. c \in Calls
        BY DEF TypeOK
      <3>2. QED
        BY <2>1, <2>3, <3>1, JoinStep
    <2>4. QED
      BY <1>7, <2>2, <2>3 DEF DrainGone
  <1>8. CASE JoinNone
    <2>1. Lost = Unanswered
      BY <1>8 DEF JoinNone, Lost, Unanswered
    <2>2. Cardinality(Unanswered') <= mixups'
      BY <1>8, <2>1 DEF JoinNone, ToldInv, Unanswered
    <2>3. QED
      BY <1>8, <2>2 DEF JoinNone, ToldInv, Once, Agree, Running
  <1>9. CASE Cancel \/ UNCHANGED vars
    <2>1. UNCHANGED <<pc, pending, result, mixups, task, told, events>>
      BY <1>9 DEF Cancel, vars, batch
    <2>2. QED
      BY <2>1 DEF ToldInv, Once, Agree, Running, CallInv, Reported, Lost, Unanswered
  <1>10. ASSUME NEW c \in Calls, NEW how \in {"seeded", "linking", "running", "ok", "refused", "gone"},
                task[c] \in Alive, task' = [task EXCEPT ![c] = how], UNCHANGED batch,
                UNCHANGED <<told, events>> \/ (Tell(c, "cancelled") /\ how = "gone")
         PROVE  ToldInv'
    BY <1>10, <1>r, TaskStep DEF Alive, batch
  <1>11. ASSUME NEW c \in Calls, Poll(c) PROVE ToldInv'
    BY <1>10, <1>11 DEF Poll, End, Alive
  <1>12. ASSUME NEW c \in Calls, LinkBuffer(c) \/ LinkStore(c) \/ Finish(c) PROVE ToldInv'
    BY <1>10, <1>12 DEF LinkBuffer, LinkStore, Finish, End, Alive
  <1>13. ASSUME NEW c \in Calls, Panic(c) \/ Abort(c) PROVE ToldInv'
    BY <1>10, <1>13 DEF Panic, Abort, End, Alive
  <1>14. QED
    BY <1>1, <1>2, <1>3, <1>4, <1>5, <1>6, <1>7, <1>8, <1>9, <1>11, <1>12, <1>13 DEF Next, Scheduler

(* No call is reported twice, a result is what was reported, and a batch   *)
(* that returns has stopped every child and answered every call, but for   *)
(* as many as join errors were charged to another call.                    *)
THEOREM ToldCorrectly == Spec => []ToldAsAnswered
  <1>1. Init => TypeOK /\ ToldInv
    BY TypeInit, ToldInit
  <1>2. (TypeOK /\ ToldInv) /\ [Next]_vars => (TypeOK /\ ToldInv)'
    BY TypeNext, ToldNext
  <1>3. TypeOK /\ ToldInv => ToldAsAnswered
    <2> SUFFICES ASSUME TypeOK, ToldInv PROVE ToldAsAnswered
      OBVIOUS
    <2>1. ASSUME NEW c \in Calls PROVE Cardinality(Told(c)) <= 1
      <3>1. CASE Told(c) = {}
        BY <3>1, FS_EmptySet
      <3>2. ASSUME NEW i \in Told(c) PROVE Cardinality(Told(c)) <= 1
        <4>1. Told(c) = {i}
          BY <3>2 DEF Told, ToldInv, Once
        <4>2. Cardinality({i}) = 1
          BY FS_Singleton
        <4>3. QED
          BY <4>1, <4>2
      <3>3. QED
        BY <3>1, <3>2
    <2>2. \A c \in Calls : result[c] # "none" => \E i \in Told(c) : events[i].how = result[c]
      BY DEF ToldInv, Agree, Told
    <2>3. ASSUME pc = "returned"
          PROVE  Cardinality({c \in Calls : Told(c) = {}}) <= mixups
      <3>1. {c \in Calls : Told(c) = {}} \subseteq Unanswered /\ Unanswered \subseteq Calls
        BY <2>2 DEF Unanswered
      <3>2. Cardinality({c \in Calls : Told(c) = {}}) <= Cardinality(Unanswered)
        BY <3>1, CallsFinite
      <3>3. Cardinality({c \in Calls : Told(c) = {}}) \in Nat /\ Cardinality(Unanswered) \in Nat
        BY <3>1, CallsFinite
      <3>4. QED
        BY <2>3, <3>2, <3>3 DEF ToldInv, TypeOK
    <2>4. QED
      BY <2>1, <2>2, <2>3 DEF ToldAsAnswered, ToldInv, Unanswered
  <1>4. QED
    BY <1>1, <1>2, <1>3, PTL DEF Spec
=============================================================================
