----------------------------- MODULE ToolProofs -----------------------------
(***************************************************************************)
(* Proofs about the tools of a round and about the files they write.       *)
(*                                                                         *)
(* ToolScheduler, for batches of any length, any split into read-only and  *)
(* other calls and any number of panics: type correctness, the isolation   *)
(* of writing calls, silence after the return, and the count of the calls  *)
(* reported twice against those left without a result.                     *)
(*                                                                         *)
(* Worktree, for any files, contents, users and bounds: undo takes the     *)
(* files that only tools wrote back to the prompt at the cursor, redo      *)
(* brings back what was there, and no command touches what only the user   *)
(* wrote; all with the exceptions that the properties name.                *)
(***************************************************************************)
EXTENDS ToolScheduler, Worktree, SequenceTheorems, FiniteSetTheorems, WellFoundedInduction, TLAPS

-----------------------------------------------------------------------------
(* The inductive invariant: writing begins when every task has been joined,*)
(* and the answered calls are those before the one that is written.        *)

Phases ==
  /\ pc = "start" => started = {} /\ \A c \in Calls : task[c] = "none"
  /\ pc = "skip" => \A c \in Calls : task[c] = "none"
  /\ pc \in {"write", "done"} => \A c \in ReadOnly : task[c] \in {"none", "joined"}
  /\ writing # {} => pc = "write"

WriteOrder ==
  \A c, d \in Writes : c < d /\ d \in started => result[c] # "none"

Inv == TypeOK /\ Phases /\ WriteOrder

-----------------------------------------------------------------------------
LEMMA InvInit == Init => Inv
  <1> SUFFICES ASSUME Init PROVE Inv
    OBVIOUS
  <1>1. <<>> \in Seq(ReadOnly) /\ <<>> \in Seq(Calls)
    BY EmptySeq
  <1>2. TypeOK
    BY <1>1 DEF Init, TypeOK, TaskStates
  <1>3. Phases /\ WriteOrder
    BY DEF Init, Phases, WriteOrder, Writes
  <1>4. QED
    BY <1>2, <1>3 DEF Inv

\* emit_completed_once, at a call of the batch.
LEMMA TellType ==
  ASSUME TypeOK, NEW c \in Calls, TellOnce(c)
  PROVE  told' \in [Calls -> BOOLEAN] /\ completed' \in Seq(Calls)
  <1>1. completed \in Seq(Calls) /\ told \in [Calls -> BOOLEAN]
    BY DEF TypeOK
  <1>2. Append(completed, c) \in Seq(Calls)
    BY <1>1, AppendProperties
  <1>3. QED
    BY <1>1, <1>2 DEF TellOnce

\* The end of a task, at a read-only call.
LEMMA EndType ==
  ASSUME TypeOK, NEW c \in ReadOnly, NEW state \in TaskStates, End(c, state)
  PROVE  task' \in [Calls -> TaskStates] /\ finished' \in Seq(ReadOnly)
  <1>1. finished \in Seq(ReadOnly) /\ task \in [Calls -> TaskStates]
    BY DEF TypeOK
  <1>2. Append(finished, c) \in Seq(ReadOnly)
    BY <1>1, AppendProperties
  <1>3. QED
    BY <1>1, <1>2 DEF End

\* Joining the task that ended first.
LEMMA JoinType ==
  ASSUME TypeOK, finished # <<>>, Joined(Head(finished))
  PROVE  /\ Head(finished) \in ReadOnly /\ Head(finished) \in Calls
         /\ task' \in [Calls -> TaskStates] /\ finished' \in Seq(ReadOnly)
         /\ task' = [task EXCEPT ![Head(finished)] = "joined"]
  <1>1. finished \in Seq(ReadOnly) /\ task \in [Calls -> TaskStates]
    BY DEF TypeOK
  <1>2. Head(finished) \in ReadOnly /\ Tail(finished) \in Seq(ReadOnly)
    BY <1>1, HeadTailProperties
  <1>3. Head(finished) \in Calls
    BY <1>2, ReadOnlyAssumption DEF Calls
  <1>4. "joined" \in TaskStates
    BY DEF TaskStates
  <1>5. QED
    BY <1>1, <1>2, <1>3, <1>4 DEF Joined

LEMMA InvNext == Inv /\ [Next]_vars => Inv'
  <1> SUFFICES ASSUME Inv, [Next]_vars PROVE Inv'
    OBVIOUS
  <1> USE ReadOnlyAssumption DEF Inv
  <1>0. /\ ReadOnly \subseteq Calls /\ Writes \cap ReadOnly = {} /\ Writes \subseteq Calls
        /\ {"none", "queued", "running", "ok", "err", "joined"} \subseteq TaskStates
    BY DEF Calls, Writes, TaskStates
  <1>1. CASE Start
    <2>1. TypeOK'
      BY <1>0, <1>1 DEF Start, TypeOK
    <2>2. Phases' /\ WriteOrder'
      BY <1>0, <1>1 DEF Start, Phases, WriteOrder, TypeOK
    <2>3. QED
      BY <2>1, <2>2
  <1>2. CASE Skip
    <2>1. CASE pc' = pc
      <3>1. PICK c \in Open(ReadOnly) : /\ completed' = Append(completed, c)
                                       /\ result' = [result EXCEPT ![c] = "cancelled"]
        BY <1>2, <2>1 DEF Skip
      <3>2. c \in Calls
        BY <1>0 DEF Open
      <3>3. completed' \in Seq(Calls)
        BY <3>1, <3>2, AppendProperties DEF TypeOK
      <3>4. TypeOK'
        BY <1>2, <2>1, <3>1, <3>2, <3>3 DEF Skip, TypeOK
      <3>5. Phases' /\ WriteOrder'
        BY <1>0, <1>2, <2>1, <3>1, <3>2 DEF Skip, Phases, WriteOrder, TypeOK
      <3>6. QED
        BY <3>4, <3>5
    <2>2. CASE pc' # pc
      <3>1. TypeOK'
        BY <1>2, <2>2 DEF Skip, TypeOK
      <3>2. Phases' /\ WriteOrder'
        BY <1>0, <1>2, <2>2 DEF Skip, Phases, WriteOrder
      <3>3. QED
        BY <3>1, <3>2
    <2>3. QED
      BY <2>1, <2>2
  <1>3. ASSUME NEW c \in ReadOnly, Poll(c) PROVE Inv'
    <2>1. TypeOK'
      BY <1>0, <1>3 DEF Poll, TypeOK
    <2>2. Phases' /\ WriteOrder'
      BY <1>0, <1>3 DEF Poll, Phases, WriteOrder, TypeOK
    <2>3. QED
      BY <2>1, <2>2
  <1>4. ASSUME NEW c \in ReadOnly, Finish(c) PROVE Inv'
    <2>1. task' \in [Calls -> TaskStates] /\ finished' \in Seq(ReadOnly)
      BY <1>0, <1>4, EndType DEF Finish
    <2>2. TypeOK'
      BY <1>4, <2>1 DEF Finish, TypeOK
    <2>3. Phases' /\ WriteOrder'
      BY <1>0, <1>4 DEF Finish, Phases, WriteOrder, TypeOK, End
    <2>4. QED
      BY <2>2, <2>3
  <1>5. ASSUME NEW c \in ReadOnly, Panic(c) PROVE Inv'
    <2>1. task' \in [Calls -> TaskStates] /\ finished' \in Seq(ReadOnly)
      BY <1>0, <1>5, EndType DEF Panic
    <2>2. told' \in [Calls -> BOOLEAN] /\ completed' \in Seq(Calls)
      BY <1>0, <1>5, TellType DEF Panic
    <2>3. panics' \in Nat
      BY <1>5 DEF Panic, TypeOK
    <2>4. TypeOK'
      BY <1>5, <2>1, <2>2, <2>3 DEF Panic, TypeOK
    <2>5. Phases' /\ WriteOrder'
      BY <1>0, <1>5 DEF Panic, Phases, WriteOrder, TypeOK, End
    <2>6. QED
      BY <2>4, <2>5
  <1>6. ASSUME NEW c \in ReadOnly, Abort(c) PROVE Inv'
    <2>1. task' \in [Calls -> TaskStates] /\ finished' \in Seq(ReadOnly)
      BY <1>0, <1>6, EndType DEF Abort
    <2>2. told' \in [Calls -> BOOLEAN] /\ completed' \in Seq(Calls)
      BY <1>0, <1>6, TellType DEF Abort, TypeOK
    <2>3. TypeOK'
      BY <1>6, <2>1, <2>2 DEF Abort, TypeOK
    <2>4. Phases' /\ WriteOrder'
      BY <1>0, <1>6 DEF Abort, Phases, WriteOrder, TypeOK, End
    <2>5. QED
      BY <2>3, <2>4
  <1>7. CASE SeeCancel
    <2>1. TypeOK'
      BY <1>7 DEF SeeCancel, TypeOK
    <2>2. Phases' /\ WriteOrder'
      BY <1>0, <1>7 DEF SeeCancel, Phases, WriteOrder
    <2>3. QED
      BY <2>1, <2>2
  <1>8. CASE JoinOk
    <2> DEFINE c == Head(finished)
    <2>1. /\ c \in ReadOnly /\ c \in Calls
          /\ task' \in [Calls -> TaskStates] /\ finished' \in Seq(ReadOnly)
          /\ task' = [task EXCEPT ![c] = "joined"]
      BY <1>8, JoinType DEF JoinOk
    <2>2. completed' \in Seq(Calls)
      BY <1>8, <2>1, AppendProperties DEF JoinOk, TypeOK
    <2>3. result' = [result EXCEPT ![c] = "real"] /\ pending' = pending \ {c}
      BY <1>8 DEF JoinOk
    <2>4. UNCHANGED <<pc, told, started, writing, fired, panics>> /\ pc \in {"select", "drain"}
      BY <1>8 DEF JoinOk
    <2> HIDE DEF c
    <2>5. TypeOK'
      BY <2>1, <2>2, <2>3, <2>4 DEF TypeOK
    <2>6. Phases' /\ WriteOrder'
      BY <1>0, <2>1, <2>3, <2>4 DEF Phases, WriteOrder, TypeOK
    <2>7. QED
      BY <2>5, <2>6
  <1>9. CASE JoinErr
    <2> DEFINE c == Head(finished)
    <2>1. /\ c \in ReadOnly /\ c \in Calls
          /\ task' \in [Calls -> TaskStates] /\ finished' \in Seq(ReadOnly)
          /\ task' = [task EXCEPT ![c] = "joined"]
      BY <1>9, JoinType DEF JoinErr
    <2>2. UNCHANGED <<pc, started, writing, fired, panics>> /\ pc \in {"select", "drain"}
      BY <1>9 DEF JoinErr
    <2>3. CASE UNCHANGED <<pending, told, completed, result>>
      <3>1. TypeOK'
        BY <2>1, <2>2, <2>3 DEF TypeOK
      <3>2. Phases' /\ WriteOrder'
        BY <1>0, <2>2, <2>3 DEF Phases, WriteOrder
      <3>3. QED
        BY <3>1, <3>2
    <2>4. ASSUME NEW i \in pending,
                 pending' = pending \ {i}, TellOnce(i),
                 result' = [result EXCEPT ![i] = IF pc = "drain" THEN "cancelled" ELSE "failed"]
          PROVE  Inv'
      <3>1. i \in Calls
        BY <1>0 DEF TypeOK
      <3>2. told' \in [Calls -> BOOLEAN] /\ completed' \in Seq(Calls)
        BY <2>4, <3>1, TellType
      <3>3. TypeOK'
        BY <2>1, <2>2, <2>4, <3>1, <3>2 DEF TypeOK
      <3>4. Phases' /\ WriteOrder'
        BY <1>0, <2>2, <2>4, <3>1 DEF Phases, WriteOrder, TypeOK
      <3>5. QED
        BY <3>3, <3>4
    <2>5. QED
      BY <1>9, <2>3, <2>4 DEF JoinErr
  <1>10. CASE JoinNone
    <2>1. TypeOK'
      BY <1>10 DEF JoinNone, TypeOK
    <2>2. Phases' /\ WriteOrder'
      BY <1>0, <1>10 DEF JoinNone, Phases, WriteOrder
    <2>3. QED
      BY <2>1, <2>2
  <1>11. CASE Write
    <2>1. PICK c \in Open(Writes) :
            /\ IsFirst(c, Open(Writes))
            /\ \/ /\ completed' = Append(completed, c)
                  /\ result' = [result EXCEPT ![c] = "cancelled"]
                  /\ UNCHANGED <<started, writing>>
               \/ /\ started' = started \cup {c}
                  /\ writing' = {c}
                  /\ UNCHANGED <<completed, result>>
      BY <1>11 DEF Write
    <2>2. c \in Writes /\ c \in Calls /\ result[c] = "none"
      BY <1>0 DEF Open
    <2>3. /\ UNCHANGED <<pc, task, finished, pending, told, fired, panics>>
          /\ pc = "write" /\ writing = {}
      BY <1>11 DEF Write
    <2>4. \A d \in Writes : d < c => result[d] # "none"
      <3>1. c \in Nat /\ \A d \in Writes : d \in Nat
        BY <1>0, <2>2, NAssumption DEF Calls
      <3>2. QED
        BY <2>1, <3>1 DEF IsFirst, Open
    <2>5. Append(completed, c) \in Seq(Calls)
      BY <2>2, AppendProperties DEF TypeOK
    <2>6. TypeOK'
      BY <2>1, <2>2, <2>3, <2>5 DEF TypeOK
    <2>7. Phases'
      BY <1>0, <2>1, <2>3 DEF Phases
    <2>8. WriteOrder'
      <3> SUFFICES ASSUME NEW a \in Writes, NEW d \in Writes, a < d, d \in started'
                   PROVE  result'[a] # "none"
        BY DEF WriteOrder
      <3>1. a \in Calls /\ result[a] # "none" => result'[a] # "none"
        BY <1>0, <2>1, <2>2 DEF TypeOK
      <3>2. CASE d \in started
        BY <1>0, <3>1, <3>2 DEF WriteOrder
      <3>3. CASE d \notin started
        BY <2>1, <2>4, <3>1, <3>3
      <3>4. QED
        BY <3>2, <3>3
    <2>9. QED
      BY <2>6, <2>7, <2>8
  <1>12. CASE WriteEnds
    <2>1. PICK c \in writing : /\ completed' = Append(completed, c)
                               /\ result' = [result EXCEPT ![c] = "real"]
      BY <1>12 DEF WriteEnds
    <2>2. c \in Calls
      BY <1>0 DEF TypeOK
    <2>3. completed' \in Seq(Calls)
      BY <2>1, <2>2, AppendProperties DEF TypeOK
    <2>4. TypeOK'
      BY <1>12, <2>1, <2>2, <2>3 DEF WriteEnds, TypeOK
    <2>5. Phases' /\ WriteOrder'
      BY <1>0, <1>12, <2>1, <2>2 DEF WriteEnds, Phases, WriteOrder, TypeOK
    <2>6. QED
      BY <2>4, <2>5
  <1>13. CASE Return
    <2>1. TypeOK'
      BY <1>13 DEF Return, TypeOK
    <2>2. Phases' /\ WriteOrder'
      BY <1>0, <1>13 DEF Return, Phases, WriteOrder
    <2>3. QED
      BY <2>1, <2>2
  <1>14. CASE Cancel
    <2>1. TypeOK'
      BY <1>14 DEF Cancel, TypeOK
    <2>2. Phases' /\ WriteOrder'
      BY <1>0, <1>14 DEF Cancel, Phases, WriteOrder
    <2>3. QED
      BY <2>1, <2>2
  <1>15. CASE UNCHANGED vars
    BY <1>15 DEF vars, TypeOK, Phases, WriteOrder
  <1>16. QED
    BY <1>1, <1>2, <1>3, <1>4, <1>5, <1>6, <1>7, <1>8, <1>9, <1>10, <1>11, <1>12, <1>13,
       <1>14, <1>15 DEF Next, Scheduler

(* Every state of a batch is well typed. *)
THEOREM TypeCorrect == Spec => []TypeOK
  <1>1. Inv => TypeOK
    BY DEF Inv
  <1>2. QED
    BY InvInit, InvNext, <1>1, PTL DEF Spec

(* A call that may change files never runs next to a read-only one, started *)
(* or aborted, nor before the writing calls in front of it are answered.   *)
THEOREM WritesIsolated == Spec => []WritesRunAlone
  <1>1. Inv => WritesRunAlone
    BY DEF Inv, Phases, WriteOrder, WritesRunAlone
  <1>2. QED
    BY InvInit, InvNext, <1>1, PTL DEF Spec

(* Nothing of a batch happens after its results have been returned. *)
THEOREM Quiet == Spec => QuietAfterReturn
  <1>1. Inv /\ [Next]_vars => [pc = "done" => UNCHANGED <<task, completed, started>>]_vars
    <2> SUFFICES ASSUME Inv, Next, pc = "done"
                 PROVE  UNCHANGED <<task, completed, started>>
      OBVIOUS
    <2>1. /\ \A c \in ReadOnly : task[c] \notin {"queued", "running"}
          /\ writing = {}
      BY DEF Inv, Phases
    <2>2. ~Scheduler /\ ~WriteEnds /\ ~Cancel
      BY <2>1 DEF Scheduler, Start, Skip, SeeCancel, JoinOk, JoinErr, JoinNone, Write,
                  Return, WriteEnds, Cancel
    <2>3. \A c \in ReadOnly : ~(Poll(c) \/ Finish(c) \/ Panic(c) \/ Abort(c))
      BY <2>1 DEF Poll, Finish, Panic, Abort
    <2>4. QED
      BY <2>2, <2>3 DEF Next
  <1>2. QED
    BY InvInit, InvNext, <1>1, PTL DEF Spec, QuietAfterReturn

-----------------------------------------------------------------------------
(* Reports and results. A call is reported once for its completion guard   *)
(* or a join error charged to it (told) and once for a result of its own;  *)
(* every error charged to the wrong call leaves one call owed a result     *)
(* and, once the other is joined, one call reported twice.                 *)

Own(c) == result[c] = "real" \/ (task[c] = "none" /\ result[c] # "none")

Unjoined == {c \in ReadOnly : task[c] \notin {"none", "joined"}}
Twice    == {c \in ReadOnly : told[c] /\ result[c] = "real"}

ToldInv ==
  \A c \in Calls :
    /\ told[c] => task[c] # "none"
    /\ task[c] # "none" /\ result[c] \in {"cancelled", "failed"} => told[c]

ResultInv ==
  /\ pc = "start" => \A c \in Calls : result[c] = "none"
  /\ \A c \in Writes : task[c] = "none"
  /\ \A c \in ReadOnly : task[c] # "none" /\ result[c] = "real" => task[c] = "joined"
  /\ \A c \in ReadOnly : pc \in {"write", "done"} /\ task[c] = "none" => result[c] # "none"
  /\ \A c \in writing : result[c] = "none"
  /\ pc = "done" => \A c \in Writes : result[c] # "none"
  /\ pending = {c \in ReadOnly : task[c] # "none" /\ result[c] = "none"}

Tally ==
  \A c \in Calls :
    Times(c) = (IF told[c] THEN 1 ELSE 0) + (IF Own(c) THEN 1 ELSE 0)

Owed == Cardinality(pending) <= Cardinality(Unjoined) + Cardinality(Twice)

CountInv == ToldInv /\ ResultInv /\ Tally /\ Owed

LEMMA CallsFinite ==
  /\ \A S \in SUBSET Calls : IsFiniteSet(S) /\ Cardinality(S) \in Nat
  /\ \A S \in SUBSET Calls : \A T \in SUBSET S : Cardinality(T) <= Cardinality(S)
  /\ \A S \in SUBSET Calls : \A c \in S : Cardinality(S \ {c}) = Cardinality(S) - 1
  /\ \A S \in SUBSET Calls : \A c \in Calls \ S :
       Cardinality(S \union {c}) = Cardinality(S) + 1
  <1>1. IsFiniteSet(Calls)
    BY NAssumption, FS_Interval DEF Calls
  <1>2. \A S \in SUBSET Calls : IsFiniteSet(S) /\ Cardinality(S) \in Nat
    BY <1>1, FS_Subset, FS_CardinalityType
  <1>3. \A S \in SUBSET Calls : \A T \in SUBSET S : Cardinality(T) <= Cardinality(S)
    BY <1>2, FS_Subset
  <1>4. \A S \in SUBSET Calls : \A c \in S : Cardinality(S \ {c}) = Cardinality(S) - 1
    BY <1>2, FS_RemoveElement
  <1>5. \A S \in SUBSET Calls : \A c \in Calls \ S :
          Cardinality(S \union {c}) = Cardinality(S) + 1
    BY <1>2, FS_AddElement
  <1>6. QED
    BY <1>2, <1>3, <1>4, <1>5

\* Where a call's reports stand.
Places(s, c) == {i \in DOMAIN s : s[i] = c}

\* One more report is one more for its call, and for no other.
LEMMA OneMoreReport ==
  ASSUME NEW s \in Seq(Calls), NEW c \in Calls, NEW d \in Calls
  PROVE  /\ Cardinality(Places(s, d)) \in Nat
         /\ Cardinality(Places(Append(s, c), d)) =
              Cardinality(Places(s, d)) + (IF d = c THEN 1 ELSE 0)
  <1> DEFINE n == Len(s)  t == Append(s, c)
  <1>1. /\ n \in Nat /\ DOMAIN s = 1 .. n /\ DOMAIN t = 1 .. n + 1
        /\ t[n + 1] = c /\ \A i \in 1 .. n : t[i] = s[i]
    BY AppendProperties, LenProperties
  <1> HIDE DEF n, t
  <1>2. Places(s, d) \subseteq 1 .. n
    BY <1>1 DEF Places
  <1>3. IsFiniteSet(Places(s, d)) /\ Cardinality(Places(s, d)) \in Nat
    <2>1. IsFiniteSet(1 .. n)
      BY <1>1, FS_Interval
    <2>2. IsFiniteSet(Places(s, d))
      BY <1>2, <2>1, FS_Subset
    <2>3. QED
      BY <2>2, FS_CardinalityType
  <1>4. CASE d = c
    <2>1. Places(t, d) = Places(s, d) \union {n + 1} /\ n + 1 \notin Places(s, d)
      BY <1>1, <1>4 DEF Places
    <2>2. QED
      BY <1>3, <1>4, <2>1, FS_AddElement DEF t
  <1>5. CASE d # c
    <2>1. Places(t, d) = Places(s, d)
      BY <1>1, <1>5 DEF Places
    <2>2. QED
      BY <1>3, <1>5, <2>1 DEF t
  <1>6. QED
    BY <1>4, <1>5

LEMMA Reports ==
  ASSUME TypeOK, NEW c \in Calls, completed' = Append(completed, c)
  PROVE  \A d \in Calls : /\ Times(d) \in Nat
                          /\ Times(d)' = Times(d) + (IF d = c THEN 1 ELSE 0)
  <1>1. \A s \in Seq(Calls), d \in Calls :
          /\ Cardinality(Places(s, d)) \in Nat
          /\ Cardinality(Places(Append(s, c), d)) =
               Cardinality(Places(s, d)) + (IF d = c THEN 1 ELSE 0)
    BY OneMoreReport
  <1>2. \A d \in Calls : /\ Times(d) = Cardinality(Places(completed, d))
                         /\ Times(d)' = Cardinality(Places(completed', d))
    BY DEF Times, Places
  <1>3. QED
    BY <1>1, <1>2 DEF TypeOK

LEMMA NoReport ==
  ASSUME UNCHANGED completed
  PROVE  \A d \in Calls : Times(d)' = Times(d)
  BY DEF Times

\* A completion guard's report, or that of a join error, keeps the tally.
LEMMA TellKeepsTally ==
  ASSUME TypeOK, Tally, NEW c \in Calls, TellOnce(c), \A d \in Calls : Own(d)' <=> Own(d)
  PROVE  Tally'
  <1>1. told \in [Calls -> BOOLEAN]
    BY DEF TypeOK
  <1>2. CASE told[c]
    <2>1. told' = told /\ UNCHANGED completed
      BY <1>1, <1>2 DEF TellOnce
    <2>2. QED
      BY <2>1, NoReport DEF Tally
  <1>3. CASE ~told[c]
    <2>1. completed' = Append(completed, c) /\ told' = [told EXCEPT ![c] = TRUE]
      BY <1>3 DEF TellOnce
    <2>2. \A d \in Calls : /\ Times(d) \in Nat
                           /\ Times(d)' = Times(d) + (IF d = c THEN 1 ELSE 0)
      BY <2>1, Reports
    <2> SUFFICES ASSUME NEW d \in Calls
                 PROVE  Times(d)' = (IF told'[d] THEN 1 ELSE 0) + (IF Own(d)' THEN 1 ELSE 0)
      BY DEF Tally
    <2>3. Times(d) = (IF told[d] THEN 1 ELSE 0) + (IF Own(d) THEN 1 ELSE 0)
      BY DEF Tally
    <2>4. CASE d = c
      <3>1. told'[d] = TRUE /\ told[d] = FALSE
        BY <1>1, <1>3, <2>1, <2>4
      <3>2. QED
        BY <2>2, <2>3, <2>4, <3>1
    <2>5. CASE d # c
      <3>1. told'[d] = told[d]
        BY <1>1, <2>1, <2>5
      <3>2. QED
        BY <2>2, <2>3, <2>5, <3>1
    <2>6. QED
      BY <2>4, <2>5
  <1>4. QED
    BY <1>2, <1>3

\* So does a result of the call's own.
LEMMA ResultKeepsTally ==
  ASSUME TypeOK, Tally, UNCHANGED told, NEW c \in Calls, completed' = Append(completed, c),
         ~Own(c), Own(c)', \A d \in Calls \ {c} : Own(d)' <=> Own(d)
  PROVE  Tally'
  <1>1. \A d \in Calls : /\ Times(d) \in Nat
                         /\ Times(d)' = Times(d) + (IF d = c THEN 1 ELSE 0)
    BY Reports
  <1> SUFFICES ASSUME NEW d \in Calls
               PROVE  Times(d)' = (IF told'[d] THEN 1 ELSE 0) + (IF Own(d)' THEN 1 ELSE 0)
    BY DEF Tally
  <1>2. Times(d) = (IF told[d] THEN 1 ELSE 0) + (IF Own(d) THEN 1 ELSE 0)
    BY DEF Tally
  <1>3. QED
    BY <1>1, <1>2

LEMMA StillOwed ==
  ASSUME Owed, pending' \subseteq pending, pending \subseteq ReadOnly,
         Unjoined \subseteq Unjoined', Twice \subseteq Twice'
  PROVE  Owed'
  <1>1. ReadOnly \subseteq Calls
    BY ReadOnlyAssumption DEF Calls
  <1>2. Unjoined' \subseteq ReadOnly /\ Twice' \subseteq ReadOnly
    BY DEF Unjoined, Twice
  <1>3. /\ Cardinality(pending') <= Cardinality(pending)
        /\ Cardinality(Unjoined) <= Cardinality(Unjoined')
        /\ Cardinality(Twice) <= Cardinality(Twice')
    BY <1>1, <1>2, CallsFinite
  <1>4. \A S \in {pending, pending', Unjoined, Unjoined', Twice, Twice'} :
          Cardinality(S) \in Nat
    BY <1>1, <1>2, CallsFinite
  <1>5. Cardinality(pending) <= Cardinality(Unjoined) + Cardinality(Twice)
    BY DEF Owed
  <1>6. QED
    BY <1>3, <1>4, <1>5 DEF Owed

LEMMA CountInit == Init => CountInv
  <1> SUFFICES ASSUME Init PROVE CountInv
    OBVIOUS
  <1>1. \A c \in Calls : Times(c) = 0
    <2> SUFFICES ASSUME NEW c \in Calls PROVE Times(c) = 0
      OBVIOUS
    <2>1. {i \in DOMAIN completed : completed[i] = c} = {}
      BY DEF Init
    <2>2. QED
      BY <2>1, FS_EmptySet DEF Times
  <1>2. ToldInv /\ ResultInv
    BY ReadOnlyAssumption DEF Init, ToldInv, ResultInv, Calls, Writes
  <1>3. Tally
    BY <1>1 DEF Init, Tally, Own
  <1>4. Owed
    <2>1. pending = {} /\ Unjoined = {} /\ Twice = {}
      BY ReadOnlyAssumption DEF Init, Unjoined, Twice, Calls
    <2>2. QED
      BY <2>1, FS_EmptySet DEF Owed
  <1>5. QED
    BY <1>2, <1>3, <1>4 DEF CountInv

LEMMA CountNext == Inv /\ CountInv /\ [Next]_vars => CountInv'
  <1> SUFFICES ASSUME Inv, CountInv, [Next]_vars PROVE CountInv'
    OBVIOUS
  <1>0. /\ ReadOnly \subseteq Calls /\ Writes \cap ReadOnly = {} /\ Writes \subseteq Calls
        /\ Calls \subseteq ReadOnly \union Writes
    BY ReadOnlyAssumption DEF Calls, Writes
  <1>t. TypeOK /\ Phases /\ ToldInv /\ ResultInv /\ Tally /\ Owed
    BY DEF Inv, CountInv
  <1>y. /\ task \in [Calls -> TaskStates] /\ told \in [Calls -> BOOLEAN]
        /\ result \in [Calls -> {"none", "real", "cancelled", "failed"}]
        /\ pending \subseteq ReadOnly /\ writing \subseteq Writes
    BY <1>t DEF TypeOK
  <1>1. CASE Start
    <2>1. CASE UNCHANGED <<task, pending>>
      <3>1. UNCHANGED <<told, completed, result, writing>> /\ pc' = "skip" /\ pc = "start"
        BY <1>1, <1>t, <1>y, <2>1 DEF Start, ResultInv, Phases
      <3>2. ToldInv' /\ ResultInv'
        BY <1>t, <2>1, <3>1 DEF ToldInv, ResultInv
      <3>3. Tally'
        BY <1>t, <2>1, <3>1, NoReport DEF Tally, Own
      <3>4. Owed'
        BY <1>t, <1>y, <2>1, <3>1, StillOwed DEF Unjoined, Twice
      <3>5. QED
        BY <3>2, <3>3, <3>4 DEF CountInv
    <2>2. CASE ~UNCHANGED <<task, pending>>
      <3>1. /\ task' = [c \in Calls |-> IF c \in ReadOnly THEN "queued" ELSE "none"]
            /\ pending' = ReadOnly /\ pc = "start" /\ pc' = "select"
            /\ UNCHANGED <<told, completed, result, writing>>
        BY <1>1, <2>2 DEF Start
      <3>2. \A c \in Calls : result[c] = "none" /\ task[c] = "none" /\ ~told[c]
        BY <1>t, <3>1 DEF Phases, ResultInv, ToldInv
      <3>3. ToldInv'
        BY <3>1, <3>2 DEF ToldInv
      <3>4. ResultInv'
        BY <1>0, <1>t, <3>1, <3>2 DEF ResultInv
      <3>5. Tally'
        BY <1>t, <3>1, <3>2, NoReport DEF Tally, Own
      <3>6. Owed'
        <4>1. Unjoined' = ReadOnly /\ Twice' = {}
          BY <1>0, <3>1, <3>2 DEF Unjoined, Twice
        <4>2. Cardinality(ReadOnly) \in Nat /\ Cardinality({}) = 0
          BY <1>0, CallsFinite, FS_EmptySet
        <4>3. QED
          BY <3>1, <4>1, <4>2 DEF Owed
      <3>7. QED
        BY <3>3, <3>4, <3>5, <3>6 DEF CountInv
    <2>3. QED
      BY <2>1, <2>2
  <1>2. CASE Skip
    <2>1. /\ UNCHANGED <<task, pending, told, writing>> /\ pc = "skip"
          /\ \A c \in Calls : task[c] = "none"
      BY <1>2, <1>t DEF Skip, Phases
    <2>2. CASE pc' = pc
      <3>1. PICK c \in Open(ReadOnly) : /\ completed' = Append(completed, c)
                                       /\ result' = [result EXCEPT ![c] = "cancelled"]
        BY <1>2, <2>1, <2>2 DEF Skip
      <3>2. c \in ReadOnly /\ c \in Calls /\ result[c] = "none"
        BY <1>0 DEF Open
      <3>3. ToldInv' /\ ResultInv'
        BY <1>0, <1>t, <1>y, <2>1, <2>2, <3>1, <3>2 DEF ToldInv, ResultInv
      <3>4. Tally'
        <4>1. ~Own(c) /\ Own(c)' /\ \A d \in Calls \ {c} : Own(d)' <=> Own(d)
          BY <1>y, <2>1, <3>1, <3>2 DEF Own
        <4>2. QED
          BY <1>t, <2>1, <3>1, <3>2, <4>1, ResultKeepsTally
      <3>5. Owed'
        BY <1>0, <1>t, <1>y, <2>1, <3>1, <3>2, StillOwed DEF Unjoined, Twice
      <3>6. QED
        BY <3>3, <3>4, <3>5 DEF CountInv
    <2>3. CASE pc' # pc
      <3>1. /\ UNCHANGED <<completed, result>> /\ pc' = "write"
            /\ \A c \in ReadOnly : result[c] # "none"
        BY <1>2, <2>3 DEF Skip, Open
      <3>2. ToldInv' /\ ResultInv'
        BY <1>t, <2>1, <3>1 DEF ToldInv, ResultInv
      <3>3. Tally'
        BY <1>t, <2>1, <3>1, NoReport DEF Tally, Own
      <3>4. Owed'
        BY <1>t, <1>y, <2>1, <3>1, StillOwed DEF Unjoined, Twice
      <3>5. QED
        BY <3>2, <3>3, <3>4 DEF CountInv
    <2>4. QED
      BY <2>2, <2>3
  <1>3. ASSUME NEW c \in ReadOnly, NEW s \in {"running", "ok"}, task[c] \in {"queued", "running"},
               task' = [task EXCEPT ![c] = s],
               UNCHANGED <<pc, pending, told, completed, result, writing>>
        PROVE  CountInv'
    <2>1. ToldInv' /\ ResultInv'
      BY <1>0, <1>t, <1>y, <1>3 DEF ToldInv, ResultInv
    <2>2. Tally'
      BY <1>0, <1>t, <1>y, <1>3, NoReport DEF Tally, Own
    <2>3. Owed'
      BY <1>0, <1>t, <1>y, <1>3, StillOwed DEF Unjoined, Twice
    <2>4. QED
      BY <2>1, <2>2, <2>3 DEF CountInv
  <1>4. ASSUME NEW c \in ReadOnly, task[c] \in {"queued", "running"},
               task' = [task EXCEPT ![c] = "err"],
               TellOnce(c) \/ UNCHANGED <<told, completed>>,
               UNCHANGED <<pc, pending, result, writing>>
        PROVE  CountInv'
    <2>1. \A d \in Calls : told[d] => told'[d]
      BY <1>y, <1>4 DEF TellOnce
    <2>2. \A d \in Calls : d # c => told'[d] = told[d]
      BY <1>0, <1>y, <1>4 DEF TellOnce
    <2>3. ToldInv' /\ ResultInv'
      BY <1>0, <1>t, <1>y, <1>4, <2>1, <2>2 DEF ToldInv, ResultInv
    <2>4. \A d \in Calls : Own(d)' <=> Own(d)
      BY <1>0, <1>t, <1>y, <1>4 DEF Own
    <2>5. Tally'
      <3>1. CASE TellOnce(c)
        BY <1>0, <1>t, <2>4, <3>1, TellKeepsTally
      <3>2. CASE UNCHANGED <<told, completed>>
        BY <1>t, <2>4, <3>2, NoReport DEF Tally
      <3>3. QED
        BY <1>4, <3>1, <3>2
    <2>6. Owed'
      BY <1>0, <1>t, <1>y, <1>4, <2>1, StillOwed DEF Unjoined, Twice
    <2>7. QED
      BY <2>3, <2>5, <2>6 DEF CountInv
  <1>5. ASSUME NEW c \in ReadOnly, Poll(c) \/ Finish(c) \/ Panic(c) \/ Abort(c)
        PROVE  CountInv'
    <2>1. CASE Poll(c)
      BY <1>3, <2>1 DEF Poll
    <2>2. CASE Finish(c)
      BY <1>3, <2>2 DEF Finish, End
    <2>3. CASE Panic(c)
      BY <1>4, <2>3 DEF Panic, End
    <2>4. CASE Abort(c)
      BY <1>4, <2>4 DEF Abort, End
    <2>5. QED
      BY <1>5, <2>1, <2>2, <2>3, <2>4
  <1>6. CASE JoinOk
    <2>c. PICK c : c = Head(finished)
      OBVIOUS
    <2>1. c \in ReadOnly /\ c \in Calls /\ task' = [task EXCEPT ![c] = "joined"]
      BY <2>c, <1>6, <1>t, JoinType DEF JoinOk
    <2>2. /\ task[c] = "ok" /\ pending' = pending \ {c} /\ pc \in {"select", "drain"}
          /\ completed' = Append(completed, c) /\ result' = [result EXCEPT ![c] = "real"]
          /\ UNCHANGED <<pc, told, writing>>
      BY <2>c, <1>6 DEF JoinOk
    <2>3. writing = {} /\ result[c] # "real"
      BY <1>t, <2>1, <2>2 DEF Phases, ResultInv
    <2>4. ToldInv'
      BY <1>t, <1>y, <2>1, <2>2 DEF ToldInv
    <2>5. ResultInv'
      BY <1>0, <1>t, <1>y, <2>1, <2>2, <2>3 DEF ResultInv
    <2>6. Tally'
      <3>1. ~Own(c) /\ Own(c)' /\ \A d \in Calls \ {c} : Own(d)' <=> Own(d)
        BY <1>y, <2>1, <2>2, <2>3 DEF Own
      <3>2. QED
        BY <1>t, <2>1, <2>2, <3>1, ResultKeepsTally
    <2>7. Owed'
      <3>1. Unjoined' = Unjoined \ {c} /\ c \in Unjoined
        BY <1>0, <1>y, <2>1, <2>2 DEF Unjoined
      <3>2. Twice' = IF told[c] THEN Twice \union {c} ELSE Twice
        BY <1>0, <1>y, <2>1, <2>2 DEF Twice
      <3>3. c \notin Twice /\ (c \notin pending => told[c])
        BY <1>t, <1>y, <2>1, <2>2, <2>3 DEF Twice, ResultInv, ToldInv
      <3>4. pending \subseteq Calls /\ Unjoined \subseteq Calls /\ Twice \subseteq Calls
        BY <1>0, <1>y DEF Unjoined, Twice
      <3> DEFINE p == Cardinality(pending)  u == Cardinality(Unjoined)  w == Cardinality(Twice)
      <3>5. p \in Nat /\ u \in Nat /\ w \in Nat /\ p <= u + w
        BY <1>t, <3>4, CallsFinite DEF Owed
      <3>6. Cardinality(Unjoined') = u - 1
        BY <3>1, <3>4, CallsFinite
      <3>7. Cardinality(Twice \union {c}) = w + 1
        BY <2>1, <3>3, <3>4, CallsFinite
      <3>8. CASE c \in pending
        <4>1. Cardinality(pending') = p - 1
          BY <2>2, <3>4, <3>8, CallsFinite
        <4>2. Cardinality(Twice') \in {w, w + 1}
          BY <3>2, <3>7
        <4>3. QED
          BY <3>5, <3>6, <4>1, <4>2 DEF Owed
      <3>9. CASE c \notin pending
        <4>1. pending' = pending /\ Twice' = Twice \union {c}
          BY <2>2, <3>2, <3>3, <3>9
        <4>2. QED
          BY <3>5, <3>6, <3>7, <4>1 DEF Owed
      <3>10. QED
        BY <3>8, <3>9
    <2>8. QED
      BY <2>4, <2>5, <2>6, <2>7 DEF CountInv
  <1>7. CASE JoinErr
    <2>c. PICK c : c = Head(finished)
      OBVIOUS
    <2>1. c \in ReadOnly /\ c \in Calls /\ task' = [task EXCEPT ![c] = "joined"]
      BY <2>c, <1>7, <1>t, JoinType DEF JoinErr
    <2>2. /\ task[c] = "err" /\ pc \in {"select", "drain"} /\ UNCHANGED <<pc, writing>>
          /\ \/ pending = {} /\ UNCHANGED <<pending, told, completed, result>>
             \/ \E i \in pending :
                  /\ pending' = pending \ {i} /\ TellOnce(i)
                  /\ result' = [result EXCEPT ![i] =
                                 IF pc = "drain" THEN "cancelled" ELSE "failed"]
      BY <2>c, <1>7 DEF JoinErr
    <2>3. writing = {}
      BY <1>t, <2>2 DEF Phases
    <2>4. /\ Unjoined' = Unjoined \ {c} /\ c \in Unjoined
          /\ pending \subseteq Calls /\ Unjoined \subseteq Calls /\ Twice \subseteq Calls
      BY <1>0, <1>y, <2>1, <2>2 DEF Unjoined, Twice
    <2> DEFINE p == Cardinality(pending)  u == Cardinality(Unjoined)  w == Cardinality(Twice)
    <2>5. /\ p \in Nat /\ u \in Nat /\ w \in Nat /\ p <= u + w
          /\ Cardinality(Unjoined') = u - 1 /\ Cardinality(Unjoined') \in Nat
      BY <1>t, <2>4, CallsFinite DEF Owed
    <2>6. CASE pending = {} /\ UNCHANGED <<pending, told, completed, result>>
      <3>1. ToldInv' /\ ResultInv'
        BY <1>0, <1>t, <1>y, <2>1, <2>2, <2>3, <2>6 DEF ToldInv, ResultInv
      <3>2. Tally'
        BY <1>t, <1>y, <2>1, <2>2, <2>6, NoReport DEF Tally, Own
      <3>3. Owed'
        <4>1. Cardinality(pending') = 0 /\ Twice' = Twice
          BY <2>6, FS_EmptySet DEF Twice
        <4>2. QED
          BY <2>5, <4>1 DEF Owed
      <3>4. QED
        BY <3>1, <3>2, <3>3 DEF CountInv
    <2>7. ASSUME NEW i \in pending, pending' = pending \ {i}, TellOnce(i),
                 NEW r \in {"cancelled", "failed"}, result' = [result EXCEPT ![i] = r]
          PROVE  CountInv'
      <3>1. /\ i \in ReadOnly /\ i \in Calls /\ task[i] # "none" /\ result[i] = "none"
            /\ told' = [told EXCEPT ![i] = TRUE]
        BY <1>0, <1>t, <1>y, <2>7 DEF ResultInv, TellOnce
      <3>2. ToldInv'
        BY <1>t, <1>y, <2>1, <2>2, <2>7, <3>1 DEF ToldInv
      <3>3. ResultInv'
        BY <1>0, <1>t, <1>y, <2>1, <2>2, <2>3, <2>7, <3>1 DEF ResultInv
      <3>4. \A d \in Calls : Own(d)' <=> Own(d)
        BY <1>0, <1>y, <2>1, <2>2, <2>7, <3>1 DEF Own
      <3>5. Tally'
        BY <1>t, <2>7, <3>1, <3>4, TellKeepsTally
      <3>6. Owed'
        <4>1. Twice' = Twice
          BY <1>0, <1>y, <2>7, <3>1 DEF Twice
        <4>2. Cardinality(pending') = p - 1
          BY <2>4, <2>7, CallsFinite
        <4>3. QED
          BY <2>5, <4>1, <4>2 DEF Owed
      <3>7. QED
        BY <3>2, <3>3, <3>5, <3>6 DEF CountInv
    <2>8. QED
      BY <2>2, <2>6, <2>7
  <1>8. CASE SeeCancel \/ Cancel
    <2>1. /\ UNCHANGED <<task, pending, told, completed, result, writing>>
          /\ pc' = pc \/ (pc = "select" /\ pc' = "drain")
      BY <1>8 DEF SeeCancel, Cancel
    <2>2. ToldInv' /\ ResultInv'
      BY <1>t, <2>1 DEF ToldInv, ResultInv
    <2>3. Tally' /\ Owed'
      BY <1>t, <2>1, NoReport DEF Tally, Own, Owed, Unjoined, Twice
    <2>4. QED
      BY <2>2, <2>3 DEF CountInv
  <1>9. CASE JoinNone
    <2>1. /\ UNCHANGED <<task, pending, told, completed, result, writing>>
          /\ pc' = "write" /\ \A c \in ReadOnly : task[c] = "joined"
      BY <1>9 DEF JoinNone
    <2>2. ToldInv' /\ ResultInv'
      BY <1>t, <2>1 DEF ToldInv, ResultInv
    <2>3. Tally' /\ Owed'
      BY <1>t, <2>1, NoReport DEF Tally, Own, Owed, Unjoined, Twice
    <2>4. QED
      BY <2>2, <2>3 DEF CountInv
  <1>10. CASE Write
    <2>1. PICK c \in Open(Writes) :
            \/ /\ completed' = Append(completed, c)
               /\ result' = [result EXCEPT ![c] = "cancelled"]
               /\ UNCHANGED writing
            \/ writing' = {c} /\ UNCHANGED <<completed, result>>
      BY <1>10 DEF Write
    <2>2. c \in Writes /\ c \in Calls /\ c \notin ReadOnly /\ result[c] = "none"
      BY <1>0 DEF Open
    <2>3. UNCHANGED <<pc, task, pending, told>> /\ pc = "write" /\ writing = {}
      BY <1>10 DEF Write
    <2>4. task[c] = "none"
      BY <1>t, <2>2 DEF ResultInv
    <2>5. CASE completed' = Append(completed, c) /\ result' = [result EXCEPT ![c] = "cancelled"]
               /\ UNCHANGED writing
      <3>1. ToldInv' /\ ResultInv'
        BY <1>0, <1>t, <1>y, <2>2, <2>3, <2>4, <2>5 DEF ToldInv, ResultInv
      <3>2. Tally'
        <4>1. ~Own(c) /\ Own(c)' /\ \A d \in Calls \ {c} : Own(d)' <=> Own(d)
          BY <1>y, <2>2, <2>3, <2>4, <2>5 DEF Own
        <4>2. QED
          BY <1>t, <2>2, <2>3, <2>5, <4>1, ResultKeepsTally
      <3>3. Owed'
        BY <1>0, <1>t, <1>y, <2>2, <2>3, <2>5, StillOwed DEF Unjoined, Twice
      <3>4. QED
        BY <3>1, <3>2, <3>3 DEF CountInv
    <2>6. CASE writing' = {c} /\ UNCHANGED <<completed, result>>
      <3>1. ToldInv' /\ ResultInv'
        BY <1>t, <2>2, <2>3, <2>6 DEF ToldInv, ResultInv
      <3>2. Tally' /\ Owed'
        BY <1>t, <2>3, <2>6, NoReport DEF Tally, Own, Owed, Unjoined, Twice
      <3>3. QED
        BY <3>1, <3>2 DEF CountInv
    <2>7. QED
      BY <2>1, <2>5, <2>6
  <1>11. CASE WriteEnds
    <2>1. PICK c \in writing : /\ completed' = Append(completed, c)
                               /\ result' = [result EXCEPT ![c] = "real"]
      BY <1>11 DEF WriteEnds
    <2>2. UNCHANGED <<pc, task, pending, told>> /\ writing' = {} /\ pc = "write"
      BY <1>11, <1>t, <2>1 DEF WriteEnds, Phases
    <2>3. /\ c \in Writes /\ c \in Calls /\ c \notin ReadOnly
          /\ result[c] = "none" /\ task[c] = "none"
      BY <1>0, <1>t, <1>y DEF ResultInv
    <2>4. ToldInv' /\ ResultInv'
      BY <1>0, <1>t, <1>y, <2>1, <2>2, <2>3 DEF ToldInv, ResultInv
    <2>5. Tally'
      <3>1. ~Own(c) /\ Own(c)' /\ \A d \in Calls \ {c} : Own(d)' <=> Own(d)
        BY <1>y, <2>1, <2>2, <2>3 DEF Own
      <3>2. QED
        BY <1>t, <2>1, <2>2, <2>3, <3>1, ResultKeepsTally
    <2>6. Owed'
      BY <1>0, <1>t, <1>y, <2>1, <2>2, <2>3, StillOwed DEF Unjoined, Twice
    <2>7. QED
      BY <2>4, <2>5, <2>6 DEF CountInv
  <1>12. CASE Return
    <2>1. /\ UNCHANGED <<task, pending, told, completed, result, writing>>
          /\ pc = "write" /\ pc' = "done" /\ \A c \in Writes : result[c] # "none"
      BY <1>12 DEF Return, Open
    <2>2. ToldInv' /\ ResultInv'
      BY <1>t, <2>1 DEF ToldInv, ResultInv
    <2>3. Tally' /\ Owed'
      BY <1>t, <2>1, NoReport DEF Tally, Own, Owed, Unjoined, Twice
    <2>4. QED
      BY <2>2, <2>3 DEF CountInv
  <1>13. CASE UNCHANGED vars
    <2>1. ToldInv' /\ ResultInv'
      BY <1>13, <1>t DEF vars, ToldInv, ResultInv
    <2>2. Tally' /\ Owed'
      BY <1>13, <1>t, NoReport DEF vars, Tally, Own, Owed, Unjoined, Twice
    <2>3. QED
      BY <2>1, <2>2 DEF CountInv
  <1>14. QED
    BY <1>1, <1>2, <1>5, <1>6, <1>7, <1>8, <1>9, <1>10, <1>11, <1>12, <1>13 DEF Next, Scheduler

(* A join error names no call and is charged to the first unfinished one,   *)
(* so reports and results move between the calls of a batch; but no call    *)
(* is reported three times, and for each one that is returned without a     *)
(* result another was reported twice.                                       *)
THEOREM MixupsCounted == Spec => []MixupsAreCounted
  <1>1. Inv /\ CountInv => MixupsAreCounted
    <2> SUFFICES ASSUME Inv, CountInv, pc = "done"
                 PROVE  /\ \A c \in Calls : Times(c) <= 2
                        /\ Cardinality({c \in Calls : result[c] = "none"}) <=
                             Cardinality({c \in Calls : Times(c) = 2})
      BY DEF MixupsAreCounted
    <2>0. ReadOnly \subseteq Calls /\ Calls \subseteq ReadOnly \union Writes
      BY ReadOnlyAssumption DEF Calls, Writes
    <2>1. \A c \in Calls : Times(c) = (IF told[c] THEN 1 ELSE 0) + (IF Own(c) THEN 1 ELSE 0)
      BY DEF CountInv, Tally
    <2>2. {c \in Calls : result[c] = "none"} = pending
      BY <2>0 DEF Inv, TypeOK, CountInv, ResultInv
    <2>3. Unjoined = {}
      BY DEF Inv, Phases, Unjoined
    <2> DEFINE D == {c \in Calls : Times(c) = 2}
    <2>4. Twice \subseteq D
      BY <2>0, <2>1 DEF Twice, Own
    <2>5. /\ Cardinality(pending) \in Nat /\ Cardinality(Twice) \in Nat
          /\ Cardinality(D) \in Nat /\ Cardinality(Twice) <= Cardinality(D)
      <3>1. pending \in SUBSET Calls /\ D \in SUBSET Calls /\ Twice \in SUBSET D
        BY <2>0, <2>4 DEF Inv, TypeOK
      <3>2. QED
        BY <3>1, CallsFinite
    <2>6. Cardinality(pending) <= 0 + Cardinality(Twice)
      BY <2>3, FS_EmptySet DEF CountInv, Owed
    <2>7. Cardinality(pending) <= Cardinality(D)
      BY <2>5, <2>6
    <2>8. \A c \in Calls : Times(c) <= 2
      BY <2>1
    <2>9. QED
      BY <2>2, <2>7, <2>8
  <1>2. Init => Inv /\ CountInv
    BY InvInit, CountInit
  <1>3. (Inv /\ CountInv) /\ [Next]_vars => (Inv /\ CountInv)'
    BY InvNext, CountNext
  <1>4. QED
    BY <1>1, <1>2, <1>3, PTL DEF Spec

-----------------------------------------------------------------------------
(* Worktree: the patches of several turns, in their order. *)

\* Induction: a set of numbers that is not empty has a least element.
LEMMA LeastOf ==
  ASSUME NEW S \in SUBSET Nat, S # {}
  PROVE  \E n \in S : \A m \in S : n <= m
  <1>1. PICK n \in S : \A m \in S : ~(<<m, n>> \in OpToRel(<, Nat))
    BY NatLessThanWellFounded, WFMin
  <1>2. \A m \in S : ~(m < n)
    BY <1>1 DEF OpToRel
  <1>3. QED
    BY <1>2

LEMMA ConcatAppend ==
  ASSUME NEW X, NEW s \in Seq(X), NEW t \in Seq(X), NEW m \in X
  PROVE  s \o Append(t, m) = Append(s \o t, m)
  <1>1. Append(t, m) = t \o <<m>> /\ Append(s \o t, m) = (s \o t) \o <<m>>
    BY AppendIsConcat, ConcatProperties
  <1>2. <<m>> \in Seq(X)
    OBVIOUS
  <1>3. QED
    BY <1>1, <1>2, ConcatAssociative

\* the recursive function of PatchesFrom, as far as the k-th turn
Collects(f, ts, n, k) ==
  f = [i \in 0 .. k |-> IF i < n THEN <<>> ELSE f[i - 1] \o ts[i].patches]

LEMMA CollectsMore ==
  ASSUME NEW ts, NEW n \in Nat \ {0}, NEW k \in Nat, NEW f, Collects(f, ts, n, k)
  PROVE  \E g : Collects(g, ts, n, k + 1)
  <1> DEFINE g == [i \in 0 .. k + 1 |->
                     IF i = k + 1 THEN IF i < n THEN <<>> ELSE f[k] \o ts[i].patches ELSE f[i]]
  <1>1. \A i \in 0 .. k : g[i] = f[i]
    OBVIOUS
  <1>2. ASSUME NEW i \in 0 .. k + 1
        PROVE  g[i] = IF i < n THEN <<>> ELSE g[i - 1] \o ts[i].patches
    <2>1. CASE i = k + 1
      <3>1. i - 1 = k /\ i - 1 \in 0 .. k
        BY <2>1
      <3>2. g[i - 1] = f[k]
        BY <3>1, <1>1
      <3>3. QED
        BY <2>1, <3>1, <3>2
    <2>2. CASE i \in 0 .. k
      <3>1. f[i] = IF i < n THEN <<>> ELSE f[i - 1] \o ts[i].patches
        BY <2>2 DEF Collects
      <3>2. i >= n => i - 1 \in 0 .. k
        BY <2>2
      <3>3. i >= n => g[i - 1] = f[i - 1]
        BY <3>2, <1>1
      <3>4. QED
        BY <3>1, <3>3, <1>1, <2>2
    <2>3. QED
      BY <2>1, <2>2
  <1>3. g = [i \in 0 .. k + 1 |-> IF i < n THEN <<>> ELSE g[i - 1] \o ts[i].patches]
    BY <1>2
  <1>4. QED
    BY <1>3 DEF Collects

LEMMA CollectsExists ==
  ASSUME NEW ts, NEW n \in Nat \ {0}, NEW k \in Nat
  PROVE  \E f : Collects(f, ts, n, k)
  <1> DEFINE S == {i \in Nat : ~ \E f : Collects(f, ts, n, i)}
  <1>1. SUFFICES ASSUME S # {} PROVE FALSE
    OBVIOUS
  <1>2. PICK i \in S : \A j \in S : i <= j
    BY <1>1, LeastOf
  <1>3. CASE i = 0
    <2>1. Collects([j \in 0 .. 0 |-> <<>>], ts, n, 0)
      BY DEF Collects
    <2>2. QED
      BY <2>1, <1>3, <1>2
  <1>4. CASE i # 0
    <2>1. i - 1 \in Nat /\ i - 1 \notin S /\ (i - 1) + 1 = i
      BY <1>4, <1>2
    <2>2. PICK f : Collects(f, ts, n, i - 1)
      BY <2>1
    <2>3. \E g : Collects(g, ts, n, i)
      BY <2>1, <2>2, CollectsMore
    <2>4. QED
      BY <2>3, <1>2
  <1>5. QED
    BY <1>3, <1>4

Same(ts, us, h) == \A i \in 1 .. h : ts[i].patches = us[i].patches

\* What it is at i depends on the first i turns only, whatever comes behind.
LEMMA CollectsSame ==
  ASSUME NEW ts, NEW us, NEW n \in Nat \ {0}, NEW k \in Nat, NEW m \in Nat, NEW f, NEW g,
         Collects(f, ts, n, k), Collects(g, us, n, m), NEW h \in 0 .. k, h <= m,
         Same(ts, us, h)
  PROVE  f[h] = g[h]
  <1> DEFINE S == {i \in 0 .. h : f[i] # g[i]}
  <1>1. SUFFICES ASSUME S # {} PROVE FALSE
    OBVIOUS
  <1>2. PICK i \in S : \A j \in S : i <= j
    <2>1. S \in SUBSET Nat
      OBVIOUS
    <2>2. QED
      BY <1>1, <2>1, LeastOf
  <1>3. i \in 0 .. k /\ i \in 0 .. m /\ i \in 0 .. h
    BY <1>2
  <1>4. f[i] = IF i < n THEN <<>> ELSE f[i - 1] \o ts[i].patches
    BY <1>3 DEF Collects
  <1>5. g[i] = IF i < n THEN <<>> ELSE g[i - 1] \o us[i].patches
    BY <1>3 DEF Collects
  <1>6. i >= n => i - 1 \in 0 .. h /\ i - 1 \notin S /\ i \in 1 .. h
    BY <1>2, <1>3
  <1>7. i >= n => f[i - 1] = g[i - 1] /\ ts[i].patches = us[i].patches
    BY <1>6 DEF Same
  <1>8. QED
    BY <1>2, <1>3, <1>4, <1>5, <1>7

LEMMA FromCollects ==
  ASSUME NEW ts, Len(ts) \in Nat, NEW n \in Nat \ {0}, NEW f, Collects(f, ts, n, Len(ts))
  PROVE  PatchesFrom(ts, n) = f[Len(ts)]
  <1> DEFINE g == CHOOSE c : c = [i \in 0 .. Len(ts) |->
                              IF i < n THEN <<>> ELSE c[i - 1] \o ts[i].patches]
  <1>1. PatchesFrom(ts, n) = g[Len(ts)]
    BY DEF PatchesFrom
  <1>2. g = [i \in 0 .. Len(ts) |-> IF i < n THEN <<>> ELSE g[i - 1] \o ts[i].patches]
    BY DEF Collects
  <1>3. Collects(g, ts, n, Len(ts))
    BY <1>2 DEF Collects
  <1> HIDE DEF g
  <1>4. Len(ts) \in 0 .. Len(ts) /\ Len(ts) <= Len(ts)
    OBVIOUS
  <1>5. Same(ts, ts, Len(ts))
    BY DEF Same
  <1>6. f[Len(ts)] = g[Len(ts)]
    BY <1>3, <1>4, <1>5, CollectsSame
  <1>7. QED
    BY <1>1, <1>6

\* Behind the first c - 1 turns.
Splits(f, g, c, h) ==
  /\ f[h] = f[c - 1] \o g[h]
  /\ f[h] \in Seq(Patches) /\ g[h] \in Seq(Patches) /\ f[c - 1] \in Seq(Patches)

LEMMA CollectsSplit ==
  ASSUME NEW ts \in Seq(Turns), NEW n \in Nat \ {0}, NEW c \in Nat, n <= c, c <= Len(ts) + 1,
         NEW f, NEW g, Collects(f, ts, n, Len(ts)), Collects(g, ts, c, Len(ts)),
         NEW h \in c - 1 .. Len(ts)
  PROVE  Splits(f, g, c, h)
  <1>0. Len(ts) \in Nat /\ \A i \in 1 .. Len(ts) : ts[i].patches \in Seq(Patches)
    <2>1. \A i \in 1 .. Len(ts) : ts[i] \in Turns
      OBVIOUS
    <2>2. \A t \in Turns : t.patches \in Seq(Patches)
      BY DEF Turns
    <2>3. QED
      BY <2>1, <2>2
  <1>00. n >= 1 /\ c >= 1 /\ c - 1 \in Nat
    OBVIOUS
  <1>1. \A i \in 0 .. Len(ts) : f[i] = IF i < n THEN <<>> ELSE f[i - 1] \o ts[i].patches
    BY DEF Collects
  <1>2. \A i \in 0 .. Len(ts) : g[i] = IF i < c THEN <<>> ELSE g[i - 1] \o ts[i].patches
    BY DEF Collects
  <1>3. \A i \in 0 .. Len(ts) : f[i] \in Seq(Patches)
    <2> DEFINE S == {i \in 0 .. Len(ts) : f[i] \notin Seq(Patches)}
    <2>1. SUFFICES ASSUME S # {} PROVE FALSE
      OBVIOUS
    <2>2. S \in SUBSET Nat
      OBVIOUS
    <2>3. PICK i \in S : \A j \in S : i <= j
      BY <2>1, <2>2, LeastOf
    <2>4. i >= n => i - 1 \in 0 .. Len(ts) /\ i - 1 \notin S /\ i \in 1 .. Len(ts)
      BY <2>3, <1>0
    <2>5. i >= n => f[i - 1] \in Seq(Patches) /\ ts[i].patches \in Seq(Patches)
      BY <2>4, <1>0
    <2>6. i >= n => f[i - 1] \o ts[i].patches \in Seq(Patches)
      BY <2>5
    <2>7. <<>> \in Seq(Patches)
      OBVIOUS
    <2>8. i \in 0 .. Len(ts) /\ f[i] \notin Seq(Patches)
      BY <2>3
    <2>9. f[i] = IF i < n THEN <<>> ELSE f[i - 1] \o ts[i].patches
      BY <1>1, <2>8
    <2>10. QED
      BY <2>6, <2>7, <2>8, <2>9
  <1>4. \A i \in 0 .. Len(ts) : g[i] \in Seq(Patches)
    <2> DEFINE S == {i \in 0 .. Len(ts) : g[i] \notin Seq(Patches)}
    <2>1. SUFFICES ASSUME S # {} PROVE FALSE
      OBVIOUS
    <2>2. S \in SUBSET Nat
      OBVIOUS
    <2>3. PICK i \in S : \A j \in S : i <= j
      BY <2>1, <2>2, LeastOf
    <2>4. i >= c => i - 1 \in 0 .. Len(ts) /\ i - 1 \notin S /\ i \in 1 .. Len(ts)
      BY <2>3, <1>0
    <2>5. i >= c => g[i - 1] \in Seq(Patches) /\ ts[i].patches \in Seq(Patches)
      BY <2>4, <1>0
    <2>6. i >= c => g[i - 1] \o ts[i].patches \in Seq(Patches)
      BY <2>5
    <2>7. <<>> \in Seq(Patches)
      OBVIOUS
    <2>8. i \in 0 .. Len(ts) /\ g[i] \notin Seq(Patches)
      BY <2>3
    <2>9. g[i] = IF i < c THEN <<>> ELSE g[i - 1] \o ts[i].patches
      BY <1>2, <2>8
    <2>10. QED
      BY <2>6, <2>7, <2>8, <2>9
  <1>5. c - 1 \in 0 .. Len(ts) /\ h \in 0 .. Len(ts)
    BY <1>0
  <1>6. f[h] = f[c - 1] \o g[h]
    <2> DEFINE S == {i \in c - 1 .. Len(ts) : f[i] # f[c - 1] \o g[i]}
    <2>1. SUFFICES ASSUME S # {} PROVE FALSE
      OBVIOUS
    <2>0. c - 1 .. Len(ts) \subseteq Nat
      BY <1>0, <1>00
    <2>2. S \in SUBSET Nat
      BY <2>0, Zenon
    <2>3. PICK i \in S : \A j \in S : i <= j
      BY <2>1, <2>2, LeastOf
    <2>4. CASE i = c - 1
      <3>1. g[i] = <<>>
        BY <2>4, <1>2, <1>5
      <3>2. f[c - 1] \in Seq(Patches)
        BY <1>3, <1>5
      <3>3. f[c - 1] \o <<>> = f[c - 1]
        BY <3>2
      <3>4. QED
        BY <3>1, <3>3, <2>3, <2>4
    <2>5. CASE i # c - 1
      <3>1. /\ i - 1 \in c - 1 .. Len(ts) /\ i - 1 \notin S /\ i \in 1 .. Len(ts)
            /\ i - 1 \in 0 .. Len(ts) /\ ~(i < n) /\ ~(i < c)
        <4>1. i \in c - 1 .. Len(ts) /\ i - 1 \in c - 1 .. Len(ts)
          BY <2>3, <2>5, <1>0, <1>00
        <4>2. i - 1 \notin S
          <5>1. i \in Nat /\ i - 1 \in Nat /\ ~(i <= i - 1)
            BY <4>1, <1>0, <1>00
          <5>2. QED
            BY <5>1, <2>3, Zenon
        <4>3. i \in 1 .. Len(ts) /\ i - 1 \in 0 .. Len(ts) /\ ~(i < n) /\ ~(i < c)
          <5>1. n \in Nat /\ c \in Nat /\ i \in Nat /\ i - 1 >= c - 1 /\ i <= Len(ts) /\ n >= 1
            BY <4>1, <1>0, <1>00
          <5>2. QED
            BY <5>1, <1>0
        <4>4. QED
          BY <4>1, <4>2, <4>3, Zenon
      <3>2. f[i] = f[i - 1] \o ts[i].patches /\ g[i] = g[i - 1] \o ts[i].patches
        <4>1. i \in 0 .. Len(ts)
          BY <3>1
        <4>2. QED
          BY <3>1, <4>1, <1>1, <1>2
      <3>3. f[i - 1] = f[c - 1] \o g[i - 1]
        BY <3>1
      <3>4. PICK p \in Seq(Patches), q \in Seq(Patches), r \in Seq(Patches) :
              p = f[c - 1] /\ q = g[i - 1] /\ r = ts[i].patches
        BY <3>1, <1>0, <1>3, <1>4, <1>5
      <3>5. (p \o q) \o r = p \o (q \o r)
        <4>1. \A u, v, x \in Seq(Patches) : (u \o v) \o x = u \o (v \o x)
          BY ONLY ConcatAssociative, SMTT(60)
        <4>2. QED
          BY ONLY <4>1, p \in Seq(Patches), q \in Seq(Patches), r \in Seq(Patches), Zenon
      <3>6. f[i] = f[c - 1] \o g[i]
        BY <3>2, <3>3, <3>4, <3>5
      <3>7. QED
        BY <3>6, <2>3
    <2>6. QED
      BY <2>4, <2>5
  <1>7. QED
    BY <1>3, <1>4, <1>5, <1>6 DEF Splits

\* PatchesFrom is a sequence of patches; from the c-th turn on it is the end of what
\* it is from an earlier turn on.
LEMMA PatchesSplit ==
  ASSUME NEW ts \in Seq(Turns), NEW n \in Nat \ {0}, NEW c \in Nat, n <= c, c <= Len(ts) + 1
  PROVE  /\ PatchesFrom(ts, n) \in Seq(Patches) /\ PatchesFrom(ts, c) \in Seq(Patches)
         /\ \E ps \in Seq(Patches) : PatchesFrom(ts, n) = ps \o PatchesFrom(ts, c)
  <1>0. Len(ts) \in Nat /\ c \in Nat \ {0} /\ Len(ts) \in c - 1 .. Len(ts)
    OBVIOUS
  <1>1. PICK f : Collects(f, ts, n, Len(ts))
    BY <1>0, CollectsExists
  <1>2. PICK g : Collects(g, ts, c, Len(ts))
    BY <1>0, CollectsExists
  <1>3. PatchesFrom(ts, n) = f[Len(ts)]
    BY <1>0, <1>1, FromCollects
  <1>4. PatchesFrom(ts, c) = g[Len(ts)]
    BY <1>0, <1>2, FromCollects
  <1>5. /\ f[Len(ts)] = f[c - 1] \o g[Len(ts)]
        /\ f[Len(ts)] \in Seq(Patches) /\ g[Len(ts)] \in Seq(Patches) /\ f[c - 1] \in Seq(Patches)
    <2>1. Splits(f, g, c, Len(ts))
      BY <1>0, <1>1, <1>2, CollectsSplit
    <2>2. QED
      BY <2>1 DEF Splits
  <1>6. QED
    BY <1>3, <1>4, <1>5

\* A new turn behind the first c - 1: the patches of those come before the rest.
LEMMA PatchesTurn ==
  ASSUME NEW ts \in Seq(Turns), NEW c \in Nat, NEW n \in Nat \ {0}, n < c, c <= Len(ts) + 1,
         NEW us, Len(us) = c, us[c].patches = <<>>, \A i \in 1 .. c - 1 : us[i] = ts[i]
  PROVE  /\ PatchesFrom(us, n) \in Seq(Patches)
         /\ PatchesFrom(ts, n) = PatchesFrom(us, n) \o PatchesFrom(ts, c)
  <1>0. /\ Len(ts) \in Nat /\ c \in Nat \ {0} /\ Len(ts) \in c - 1 .. Len(ts)
        /\ Len(us) \in Nat /\ c - 1 \in 0 .. Len(us) /\ c - 1 <= Len(ts) /\ c - 1 \in Nat
        /\ n <= c /\ c - 1 \in 0 .. Len(ts) /\ c - 1 <= Len(us) /\ c \in 0 .. Len(us) /\ ~(c < n)
    OBVIOUS
  <1>00. \A i \in 1 .. c - 1 : ts[i].patches = us[i].patches
    OBVIOUS
  <1>1. PICK f : Collects(f, ts, n, Len(ts))
    BY <1>0, CollectsExists
  <1>2. PICK g : Collects(g, ts, c, Len(ts))
    BY <1>0, CollectsExists
  <1>3. PICK h : Collects(h, us, n, Len(us))
    BY <1>0, CollectsExists
  <1>4. PatchesFrom(ts, n) = f[Len(ts)]
    BY <1>0, <1>1, FromCollects
  <1>5. PatchesFrom(ts, c) = g[Len(ts)]
    BY <1>0, <1>2, FromCollects
  <1>6. PatchesFrom(us, n) = h[c]
    BY <1>0, <1>3, FromCollects
  <1>7. f[Len(ts)] = f[c - 1] \o g[Len(ts)] /\ f[c - 1] \in Seq(Patches)
    <2>1. PICK k : k = Len(ts)
      OBVIOUS
    <2>2. k \in c - 1 .. Len(ts) /\ n <= c
      BY <1>0, <2>1
    <2>3. Splits(f, g, c, k)
      BY <2>2, <1>1, <1>2, CollectsSplit
    <2>4. QED
      BY <2>1, <2>3 DEF Splits
  <1>8. h[c - 1] = f[c - 1]
    <2>1. PICK k : k = c - 1
      OBVIOUS
    <2>2. k \in 0 .. Len(ts) /\ k <= Len(us) /\ Len(us) \in Nat /\ Len(ts) \in Nat
      BY <1>0, <2>1
    <2>3. Same(ts, us, k)
      BY <1>00, <2>1 DEF Same
    <2>4. f[k] = h[k]
      BY <2>2, <2>3, <1>1, <1>3, CollectsSame
    <2>5. QED
      BY <2>1, <2>4
  <1>9. h[c] = h[c - 1] \o us[c].patches
    BY <1>0, <1>3 DEF Collects
  <1>10. f[c - 1] \o <<>> = f[c - 1]
    BY <1>7
  <1>11. h[c] = f[c - 1]
    BY <1>8, <1>9, <1>10
  <1>12. QED
    BY <1>4, <1>5, <1>6, <1>7, <1>11

\* From the new turn on there is none.
LEMMA PatchesNone ==
  ASSUME NEW us, NEW c \in Nat \ {0}, Len(us) = c, us[c].patches = <<>>
  PROVE  PatchesFrom(us, c) = <<>>
  <1>0. Len(us) \in Nat /\ c \in 0 .. Len(us) /\ c - 1 \in 0 .. Len(us) /\ c - 1 < c /\ ~(c < c)
    OBVIOUS
  <1>1. PICK f : Collects(f, us, c, Len(us))
    BY <1>0, CollectsExists
  <1>2. f[c] = f[c - 1] \o us[c].patches /\ f[c - 1] = <<>>
    BY <1>0, <1>1 DEF Collects
  <1>3. <<>> \o <<>> = <<>>
    OBVIOUS
  <1>4. QED
    BY <1>0, <1>1, <1>2, <1>3, FromCollects

LEMMA PatchesBehind ==
  ASSUME NEW ts \in Seq(Turns)
  PROVE  PatchesFrom(ts, Len(ts) + 1) = <<>>
  <1>0. Len(ts) \in Nat /\ Len(ts) + 1 \in Nat \ {0} /\ Len(ts) \in 0 .. Len(ts) /\ Len(ts) < Len(ts) + 1
    OBVIOUS
  <1>1. PICK f : Collects(f, ts, Len(ts) + 1, Len(ts))
    BY <1>0, CollectsExists
  <1>2. f[Len(ts)] = <<>>
    BY <1>0, <1>1 DEF Collects
  <1>3. QED
    BY <1>0, <1>1, <1>2, FromCollects

\* A patch behind those of the last turn.
LEMMA PatchesMore ==
  ASSUME NEW ts \in Seq(Turns), NEW n \in Nat \ {0}, n <= Len(ts), NEW p \in Patches,
         NEW us, Len(us) = Len(ts), \A i \in 1 .. Len(ts) - 1 : us[i] = ts[i],
         us[Len(ts)].patches = Append(ts[Len(ts)].patches, p)
  PROVE  PatchesFrom(us, n) = Append(PatchesFrom(ts, n), p)
  <1>0. /\ Len(ts) \in Nat /\ Len(us) \in Nat /\ Len(ts) - 1 \in 0 .. Len(ts)
        /\ Len(ts) \in 0 .. Len(ts) /\ Len(ts) \in 1 .. Len(ts) /\ ~(Len(ts) < n) /\ Len(ts) - 1 \in Nat
        /\ Len(ts) - 1 <= Len(ts) /\ Len(ts) \in Nat \ {0}
    OBVIOUS
  <1>00. \A i \in 1 .. Len(ts) - 1 : ts[i].patches = us[i].patches
    OBVIOUS
  <1>1. PICK f : Collects(f, ts, n, Len(ts))
    BY <1>0, CollectsExists
  <1>2. PICK g : Collects(g, us, n, Len(ts))
    BY <1>0, CollectsExists
  <1>3. f[Len(ts) - 1] = g[Len(ts) - 1]
    <2>1. PICK k : k = Len(ts) - 1
      OBVIOUS
    <2>2. k \in 0 .. Len(ts) /\ k <= Len(ts) /\ Len(ts) \in Nat
      BY <1>0, <2>1
    <2>3. Same(ts, us, k)
      BY <1>00, <2>1 DEF Same
    <2>4. f[k] = g[k]
      BY <2>2, <2>3, <1>1, <1>2, CollectsSame
    <2>5. QED
      BY <2>1, <2>4
  <1>4. f[Len(ts)] = f[Len(ts) - 1] \o ts[Len(ts)].patches
    BY <1>0, <1>1 DEF Collects
  <1>5. g[Len(ts)] = g[Len(ts) - 1] \o us[Len(ts)].patches
    BY <1>0, <1>2 DEF Collects
  <1>6. Len(ts) + 1 \in Nat /\ n <= Len(ts) + 1 /\ Len(ts) + 1 <= Len(ts) + 1
    BY <1>0
  <1>7. ts[Len(ts)] \in Turns
    BY <1>0
  <1>8. ts[Len(ts)].patches \in Seq(Patches)
    BY <1>7 DEF Turns
  <1>9. f[Len(ts) - 1] \in Seq(Patches)
    <2>1. PICK h : Collects(h, ts, Len(ts), Len(ts))
      BY <1>0, CollectsExists
    <2>2. Len(ts) \in Nat /\ n <= Len(ts) /\ Len(ts) <= Len(ts) + 1 /\ Len(ts) \in Len(ts) - 1 .. Len(ts)
      BY <1>0
    <2>3. Splits(f, h, Len(ts), Len(ts))
      BY <1>1, <2>1, <2>2, CollectsSplit
    <2>4. QED
      BY <2>3 DEF Splits
  <1>10. PICK r, q : r = f[Len(ts) - 1] /\ q = ts[Len(ts)].patches
    OBVIOUS
  <1>11. r \in Seq(Patches) /\ q \in Seq(Patches)
    BY <1>8, <1>9, <1>10
  <1>12. r \o Append(q, p) = Append(r \o q, p)
    BY <1>11, ConcatAppend
  <1>13. g[Len(ts)] = Append(f[Len(ts)], p)
    BY <1>3, <1>4, <1>5, <1>10, <1>12
  <1>14. PatchesFrom(ts, n) = f[Len(ts)]
    BY <1>0, <1>1, FromCollects
  <1>15. PatchesFrom(us, n) = g[Len(ts)]
    BY <1>0, <1>2, FromCollects
  <1>16. QED
    BY <1>13, <1>14, <1>15

-----------------------------------------------------------------------------
(* What reverting a sequence of patches makes of a file. *)

\* f after reverting ps, if it was b
Value(ps, f, b) == IF f \in Named(ps) THEN ps[FirstNaming(ps, f)].tree[f] ELSE b

LEMMA FirstNames ==
  ASSUME NEW ps \in Seq(Patches), NEW f, f \in Named(ps)
  PROVE  /\ FirstNaming(ps, f) \in DOMAIN ps /\ f \in ps[FirstNaming(ps, f)].files
         /\ \A j \in DOMAIN ps : f \in ps[j].files => FirstNaming(ps, f) <= j
  <1> DEFINE S == {i \in DOMAIN ps : f \in ps[i].files}
  <1>1. S # {}
    BY DEF Named
  <1>2. S \in SUBSET Nat
    OBVIOUS
  <1>3. PICK i \in S : \A j \in S : i <= j
    BY <1>1, <1>2, LeastOf
  <1>4. i \in DOMAIN ps /\ f \in ps[i].files /\ \A j \in DOMAIN ps : f \in ps[j].files => i <= j
    BY <1>3
  <1>5. QED
    BY <1>4 DEF FirstNaming

LEMMA FirstIs ==
  ASSUME NEW ps \in Seq(Patches), NEW f, NEW i \in DOMAIN ps, f \in ps[i].files,
         \A j \in DOMAIN ps : f \in ps[j].files => i <= j
  PROVE  f \in Named(ps) /\ FirstNaming(ps, f) = i
  <1>1. f \in Named(ps)
    BY DEF Named
  <1>2. /\ FirstNaming(ps, f) \in DOMAIN ps /\ f \in ps[FirstNaming(ps, f)].files
        /\ \A j \in DOMAIN ps : f \in ps[j].files => FirstNaming(ps, f) <= j
    BY <1>1, FirstNames
  <1>3. FirstNaming(ps, f) <= i /\ i <= FirstNaming(ps, f) /\ i \in Nat /\ FirstNaming(ps, f) \in Nat
    BY <1>2
  <1>4. QED
    BY <1>1, <1>3

LEMMA NamedConcat ==
  ASSUME NEW ps \in Seq(Patches), NEW qs \in Seq(Patches)
  PROVE  Named(ps \o qs) = Named(ps) \union Named(qs)
  <1>0. ps \o qs \in Seq(Patches)
    BY ConcatProperties
  <1>1. PICK rs \in Seq(Patches) : rs = ps \o qs
    BY <1>0, Zenon
  <1>2. /\ Len(rs) = Len(ps) + Len(qs) /\ Len(ps) \in Nat /\ Len(qs) \in Nat
        /\ DOMAIN rs = 1 .. Len(rs) /\ DOMAIN ps = 1 .. Len(ps) /\ DOMAIN qs = 1 .. Len(qs)
        /\ \A i \in 1 .. Len(ps) : rs[i] = ps[i]
        /\ \A i \in 1 .. Len(qs) : rs[Len(ps) + i] = qs[i]
    BY <1>1, ConcatProperties
  <1>3. ASSUME NEW f, f \in Named(ps) PROVE f \in Named(rs)
    <2>1. PICK i \in DOMAIN ps : f \in ps[i].files
      BY <1>3 DEF Named
    <2>2. i \in DOMAIN rs /\ rs[i] = ps[i]
      BY <1>2, <2>1
    <2>3. QED
      BY <2>1, <2>2 DEF Named
  <1>4. ASSUME NEW f, f \in Named(qs) PROVE f \in Named(rs)
    <2>1. PICK i \in DOMAIN qs : f \in qs[i].files
      BY <1>4 DEF Named
    <2>2. Len(ps) + i \in DOMAIN rs /\ rs[Len(ps) + i] = qs[i]
      BY <1>2, <2>1
    <2>3. QED
      BY <2>1, <2>2 DEF Named
  <1>5. ASSUME NEW f, f \in Named(rs) PROVE f \in Named(ps) \/ f \in Named(qs)
    <2>1. PICK i \in DOMAIN rs : f \in rs[i].files
      BY <1>5 DEF Named
    <2>2. CASE i <= Len(ps)
      <3>1. i \in DOMAIN ps /\ rs[i] = ps[i]
        BY <1>2, <2>1, <2>2
      <3>2. QED
        BY <2>1, <3>1 DEF Named
    <2>3. CASE i > Len(ps)
      <3>1. i - Len(ps) \in DOMAIN qs /\ Len(ps) + (i - Len(ps)) = i
        BY <1>2, <2>1, <2>3
      <3>2. rs[i] = qs[i - Len(ps)]
        BY <1>2, <3>1
      <3>3. QED
        BY <2>1, <3>1, <3>2 DEF Named
    <2>4. QED
      BY <2>1, <2>2, <2>3, <1>2
  <1>6. QED
    BY <1>1, <1>3, <1>4, <1>5

LEMMA ValueConcat ==
  ASSUME NEW ps \in Seq(Patches), NEW qs \in Seq(Patches), NEW f, NEW b
  PROVE  Value(ps \o qs, f, b) = Value(ps, f, Value(qs, f, b))
  <1>0. ps \o qs \in Seq(Patches)
    BY ConcatProperties
  <1>1. PICK rs \in Seq(Patches) : rs = ps \o qs
    BY <1>0, Zenon
  <1>2. /\ Len(rs) = Len(ps) + Len(qs) /\ Len(ps) \in Nat /\ Len(qs) \in Nat
        /\ DOMAIN rs = 1 .. Len(rs) /\ DOMAIN ps = 1 .. Len(ps) /\ DOMAIN qs = 1 .. Len(qs)
        /\ \A i \in 1 .. Len(ps) : rs[i] = ps[i]
        /\ \A i \in 1 .. Len(qs) : rs[Len(ps) + i] = qs[i]
    BY <1>1, ConcatProperties
  <1>3. Named(rs) = Named(ps) \union Named(qs)
    BY <1>1, NamedConcat
  <1>4. \A i \in DOMAIN rs : i \in DOMAIN ps \/ (i - Len(ps) \in DOMAIN qs /\ rs[i] = qs[i - Len(ps)])
    <2> SUFFICES ASSUME NEW i \in DOMAIN rs, i \notin DOMAIN ps
                 PROVE  i - Len(ps) \in DOMAIN qs /\ rs[i] = qs[i - Len(ps)]
      OBVIOUS
    <2>1. i - Len(ps) \in 1 .. Len(qs) /\ Len(ps) + (i - Len(ps)) = i
      BY <1>2
    <2>2. QED
      BY <2>1, <1>2
  <1>5. CASE f \in Named(ps)
    <2>1. PICK k : k = FirstNaming(ps, f)
      OBVIOUS
    <2>2. k \in DOMAIN ps /\ f \in ps[k].files /\ \A j \in DOMAIN ps : f \in ps[j].files => k <= j
      BY <1>5, <2>1, FirstNames
    <2>3. k \in DOMAIN rs /\ rs[k] = ps[k]
      BY <2>2, <1>2
    <2>4. ASSUME NEW j \in DOMAIN rs, f \in rs[j].files PROVE k <= j
      <3>1. CASE j \in DOMAIN ps
        BY <3>1, <2>2, <2>4, <1>2
      <3>2. CASE j \notin DOMAIN ps
        BY <3>2, <2>2, <1>2
      <3>3. QED
        BY <3>1, <3>2
    <2>5. FirstNaming(rs, f) = k
      BY <2>2, <2>3, <2>4, FirstIs
    <2>6. QED
      BY <1>1, <1>3, <1>5, <2>1, <2>3, <2>5 DEF Value
  <1>6. CASE f \notin Named(ps) /\ f \in Named(qs)
    <2>1. PICK k : k = FirstNaming(qs, f)
      OBVIOUS
    <2>2. k \in DOMAIN qs /\ f \in qs[k].files /\ \A j \in DOMAIN qs : f \in qs[j].files => k <= j
      BY <1>6, <2>1, FirstNames
    <2>3. Len(ps) + k \in DOMAIN rs /\ rs[Len(ps) + k] = qs[k]
      BY <2>2, <1>2
    <2>4. ASSUME NEW j \in DOMAIN rs, f \in rs[j].files PROVE Len(ps) + k <= j
      <3>1. j \notin DOMAIN ps
        BY <1>2, <1>6, <2>4 DEF Named
      <3>2. j - Len(ps) \in DOMAIN qs /\ rs[j] = qs[j - Len(ps)]
        BY <3>1, <1>4
      <3>3. k <= j - Len(ps)
        BY <3>2, <2>2, <2>4
      <3>4. QED
        BY <3>3, <2>2, <1>2
    <2>5. FirstNaming(rs, f) = Len(ps) + k
      <3>1. PICK m : m = Len(ps) + k
        OBVIOUS
      <3>2. m \in DOMAIN rs /\ f \in rs[m].files /\ \A j \in DOMAIN rs : f \in rs[j].files => m <= j
        BY <3>1, <2>2, <2>3, <2>4
      <3>3. QED
        BY <3>1, <3>2, FirstIs
    <2>6. QED
      BY <1>1, <1>3, <1>6, <2>1, <2>3, <2>5 DEF Value
  <1>7. CASE f \notin Named(ps) /\ f \notin Named(qs)
    BY <1>1, <1>3, <1>7 DEF Value
  <1>8. QED
    BY <1>5, <1>6, <1>7

LEMMA ValueAppend ==
  ASSUME NEW ps \in Seq(Patches), NEW p \in Patches, NEW f, NEW b
  PROVE  /\ Value(Append(ps, p), f, b) = Value(ps, f, IF f \in p.files THEN p.tree[f] ELSE b)
         /\ Named(Append(ps, p)) = Named(ps) \union p.files
  <1>1. PICK qs : qs = <<p>>
    OBVIOUS
  <1>2. qs \in Seq(Patches) /\ DOMAIN qs = {1} /\ qs[1] = p
    BY <1>1
  <1>3. Append(ps, p) = ps \o qs
    BY <1>1, AppendIsConcat
  <1>4. Named(qs) = p.files
    BY <1>2 DEF Named
  <1>5. f \in p.files => FirstNaming(qs, f) = 1
    BY <1>2, FirstIs
  <1>6. Value(qs, f, b) = IF f \in p.files THEN p.tree[f] ELSE b
    BY <1>2, <1>4, <1>5 DEF Value
  <1>7. QED
    BY <1>2, <1>3, <1>4, <1>6, ValueConcat, NamedConcat

\* Reverting ps and qs, from the same files, and files that differ in what is not named.
LEMMA ValueNamed ==
  ASSUME NEW ps, NEW f, NEW b, NEW c, f \in Named(ps) \/ b = c
  PROVE  Value(ps, f, b) = Value(ps, f, c)
  BY DEF Value

LEMMA ValueNone == ASSUME NEW f, NEW b PROVE Value(<<>>, f, b) = b /\ f \notin Named(<<>>)
  BY DEF Value, Named

LEMMA RevertedIs ==
  ASSUME NEW ps, NEW files, NEW f \in Files
  PROVE  Reverted(ps, files)[f] = Value(ps, f, files[f])
  BY DEF Reverted, Value
-----------------------------------------------------------------------------
(* Snapshots. *)

\* A snapshot has every file as it is that is small, not excluded and not missed.
LEMMA TrackExact ==
  ASSUME NEW r, NEW files, NEW missed, NEW f \in Files \ missed, f \notin r.exclude,
         files[f] \notin Large
  PROVE  Track(r, files, missed).index[f] = files[f]
  <1>1. f \notin Ignored(r, files) /\ f \notin TooLarge(r, files)
    BY DEF Ignored, TooLarge
  <1>2. f \notin Changed(r, files) => files[f] = r.index[f]
    BY DEF Changed
  <1>3. Staged(r, files)[f] = files[f]
    BY <1>1, <1>2 DEF Staged
  <1>4. QED
    BY <1>3 DEF Track, But

\* It excludes what is large, and finds no tree gone that was not.
LEMMA TrackExcludes ==
  ASSUME NEW r, NEW files, NEW missed
  PROVE  /\ Track(r, files, missed).exclude \subseteq {f \in Files : files[f] \in Large}
         /\ Track(r, files, missed).pruned \subseteq r.pruned
  BY DEF Track, TooLarge, Changed

LEMMA ButType ==
  ASSUME NEW missed, NEW before \in Trees, NEW after \in Trees
  PROVE  But(missed, before, after) \in Trees
  BY DEF But, Trees

LEMMA TrackType ==
  ASSUME NEW r \in Repositories, NEW files \in Trees, NEW missed
  PROVE  Track(r, files, missed) \in Repositories
  <1>1. r.index \in Trees /\ r.pruned \in SUBSET Trees
    BY DEF Repositories
  <1>2. \A f \in Files : files[f] \in Contents \union {Absent} /\ r.index[f] \in Contents \union {Absent}
    BY <1>1 DEF Trees
  <1>3. TooLarge(r, files) \in SUBSET Files
    BY DEF TooLarge, Changed
  <1>4. Staged(r, files) \in Trees
    BY <1>2 DEF Staged, Trees
  <1>5. But(missed, r.index, Staged(r, files)) \in Trees
    BY <1>1, <1>4, ButType
  <1>6. QED
    BY <1>1, <1>3, <1>5 DEF Track, Repositories

LEMMA RestoredType ==
  ASSUME NEW tree \in Trees, NEW files \in Trees
  PROVE  Restored(tree, files) \in Trees
  BY DEF Restored, Trees

LEMMA RevertedType ==
  ASSUME NEW ps \in Seq(Patches), NEW files \in Trees
  PROVE  Reverted(ps, files) \in Trees /\ RevertedIndex(ps, files) \in Trees
  <1>1. \A f \in Named(ps) : FirstNaming(ps, f) \in DOMAIN ps
    BY FirstNames
  <1>2. \A i \in DOMAIN ps : ps[i] \in Patches
    OBVIOUS
  <1>3. \A p \in Patches : p.tree \in Trees
    BY DEF Patches
  <1>4. \A f \in Named(ps) \intersect Files : ps[FirstNaming(ps, f)].tree[f] \in Contents \union {Absent}
    BY <1>1, <1>2, <1>3 DEF Trees
  <1>5. \A f \in Files : files[f] \in Contents \union {Absent}
    BY DEF Trees
  <1>6. QED
    BY <1>4, <1>5 DEF Reverted, RevertedIndex, Trees

LEMMA NothingType == Nothing \in Trees
  BY DEF Nothing, Trees

\* What git still has of the patches names the same files; if nothing was collected,
\* it is the patches.
LEMMA UsablePatches ==
  ASSUME NEW r, NEW ps \in Seq(Patches)
  PROVE  /\ Usable(r, ps) \in Seq(Patches)
         /\ Named(Usable(r, ps)) = Named(ps)
         /\ r.pruned = {} => Usable(r, ps) = ps
  <1> DEFINE q(i) == [ps[i] EXCEPT !.tree = IF @ \in r.pruned THEN Nothing ELSE @]
  <1>1. DOMAIN ps = 1 .. Len(ps) /\ Len(ps) \in Nat /\ \A i \in DOMAIN ps : ps[i] \in Patches
    OBVIOUS
  <1>2. ASSUME NEW i \in DOMAIN ps
        PROVE  q(i) \in Patches /\ q(i).files = ps[i].files /\ (r.pruned = {} => q(i) = ps[i])
    <2>1. ps[i] \in Patches
      BY <1>1
    <2>2. QED
      BY <2>1, NothingType DEF Patches
  <1> HIDE DEF q
  <1>3. Usable(r, ps) = [i \in DOMAIN ps |-> q(i)]
    BY DEF Usable, q
  <1>4. PICK us : us = [i \in DOMAIN ps |-> q(i)]
    OBVIOUS
  <1>5. us \in [1 .. Len(ps) -> Patches]
    BY <1>1, <1>2, <1>4
  <1>6. us \in Seq(Patches) /\ DOMAIN us = DOMAIN ps
    BY <1>1, <1>5
  <1>7. Named(us) = Named(ps)
    BY <1>2, <1>4, <1>6 DEF Named
  <1>8. r.pruned = {} => us = ps
    BY <1>1, <1>2, <1>4
  <1>9. QED
    BY <1>3, <1>4, <1>6, <1>7, <1>8

-----------------------------------------------------------------------------
(* The inductive invariant of Worktree.  The files may be anything once    *)
(* the history went astray, but for those that nobody but the user wrote:  *)
(* what holds until then is said of Now, the only command in progress.     *)

Active(c) == IF \E u \in Users : c[u].at # "none"
             THEN c[CHOOSE u \in Users : c[u].at # "none"] ELSE NoCmd
Alone(c) == \A u, v \in Users : c[u].at # "none" /\ c[v].at # "none" => u = v

Now == Active(cmd)

\* An idle slot is empty, and a command that moves the cursor has a target.
Tidy(c) == /\ c.at = "none" => c = NoCmd
           /\ c.at \in {"checkpoint", "revert", "save"} => c.target # 0

\* Where the commands, the loop and the cursor can be.
Shape ==
  /\ Len(turns) <= MaxTurns
  /\ loop.at # "none" => turns # <<>>
  /\ cursor = 0 => checkpoint = NoTree
  /\ \A u \in Users : Tidy(cmd[u])

\* One command at a time, none with a loop; what it has read holds until it ends, and
\* it goes forwards from a snapshot.
Straight ==
  ~hist.astray =>
    /\ Alone(cmd) /\ repo.pruned = {}
    /\ cursor <= Len(turns)
    /\ loop.at # "none" => cursor = 0 /\ Now.at = "none"
    /\ Now.at \in {"checkpoint", "revert", "save"} =>
         Now.target \in 1 .. Len(turns) /\ Now.patches = PatchesFrom(turns, Now.target)
    /\ Now.at = "checkpoint" /\ cursor # 0 =>
         Now.target < cursor \/ (checkpoint # NoTree /\ hist.redone)
    /\ Now.at = "restore" =>
         cursor # 0 /\ Now.check = checkpoint /\ checkpoint # NoTree /\ hist.redone

Undone == cursor # 0 \/ Now.at \in {"revert", "save", "restore"}

\* f as the last patch left it
Base(f) == IF Undone THEN hist.kept[f]
           ELSE IF loop.at = "round" /\ loop.pre # NoTree THEN loop.pre[f] ELSE work[f]

\* The snapshot before a round has what no tool has written since.
RoundOK(f) ==
  loop.at # "none" /\ loop.pre # NoTree /\ (loop.at = "ask" \/ f \notin hist.round) =>
    loop.pre[f] = work[f]

\* Reverting the patches from any turn on takes f back to that turn's prompt.
Chain(ts, f, b) ==
  \A n \in 1 .. Len(ts) : Value(PatchesFrom(ts, n), f, b) = ts[n].start[f]

ChainOK(f) ==
  (loop.at = "round" /\ loop.pre = NoTree => f \notin hist.round) => Chain(turns, f, Base(f))

\* The snapshot for redo has what was kept.
CheckOK(f) ==
  /\ checkpoint # NoTree => checkpoint[f] = hist.kept[f]
  /\ Now.at \in {"revert", "save"} /\ Now.check # NoTree => Now.check[f] = hist.kept[f]

\* f is as it was kept, or came back; and as it was at the n-th prompt.
Unchanged(f) == work[f] = hist.kept[f] \/ (hist.redone /\ hist.kept[f] = Absent)
Back(f, n) ==
  IF f \in Named(PatchesFrom(turns, n)) THEN work[f] = turns[n].start[f] ELSE Unchanged(f)

UndoneOK(f) ==
  /\ cursor # 0 /\ Now.at \in {"none", "checkpoint", "restore"} => Back(f, cursor)
  /\ Now.at = "revert" => f \in Named(PatchesFrom(turns, Now.target)) \/ Unchanged(f)
  /\ Now.at = "save" => Back(f, Now.target)

FileOK(f) == RoundOK(f) /\ ChainOK(f) /\ CheckOK(f) /\ UndoneOK(f)

\* What is excluded was too large.
ExcludeOK == repo.exclude \subseteq hist.spoilt

FilesOK == \A f \in Files : Sound(f) => FileOK(f)

\* No patch names, and every snapshot has, what only the user writes.
UserCmds(f) ==
  \A u \in Users : /\ f \notin Named(cmd[u].patches)
                   /\ cmd[u].check # NoTree => cmd[u].check[f] = work[f]

UserOK(f) ==
  /\ \A n \in 1 .. Len(turns) : f \notin Named(turns[n].patches)
  /\ loop.at = "round" /\ loop.pre # NoTree => loop.pre[f] = work[f]
  /\ ghost.at = "round" /\ ghost.pre # NoTree => ghost.pre[f] = work[f]
  /\ checkpoint # NoTree => checkpoint[f] = work[f]
  /\ UserCmds(f)

UsersOK == \A f \in Files \ (hist.touched \union hist.spoilt) : UserOK(f)

FilesInv == FilesTypeOK /\ Shape /\ Straight /\ ExcludeOK /\ FilesOK /\ UsersOK

-----------------------------------------------------------------------------
(* The commands. *)

\* While all commands but u's are idle, the active one is u's.
LEMMA ActiveSet ==
  ASSUME NEW d, NEW u \in Users, d[u].at = "none" => d[u] = NoCmd,
         \A v \in Users \ {u} : d[v].at = "none"
  PROVE  Alone(d) /\ Active(d) = d[u]
  <1>1. \A v \in Users : d[v].at # "none" => v = u
    OBVIOUS
  <1>2. CASE d[u].at = "none"
    <2>1. ~ \E v \in Users : d[v].at # "none"
      BY <1>1, <1>2
    <2>2. QED
      BY <1>1, <1>2, <2>1 DEF Active, Alone
  <1>3. CASE d[u].at # "none"
    <2>1. \E v \in Users : d[v].at # "none"
      BY <1>3
    <2>2. PICK w : w = CHOOSE v \in Users : d[v].at # "none"
      OBVIOUS
    <2>3. w \in Users /\ d[w].at # "none"
      BY <2>1, <2>2, Zenon
    <2>4. w = u
      BY <1>1, <2>3
    <2>5. Active(d) = d[u]
      BY <2>1, <2>2, <2>4 DEF Active
    <2>6. QED
      BY <1>1, <2>5 DEF Alone
  <1>4. QED
    BY <1>2, <1>3

LEMMA ActiveIs ==
  ASSUME NEW c, Alone(c), NEW u \in Users, c[u].at # "none"
  PROVE  Active(c) = c[u] /\ \A v \in Users \ {u} : c[v].at = "none"
  <1>1. PICK w : w = CHOOSE v \in Users : c[v].at # "none"
    OBVIOUS
  <1>2. w \in Users /\ c[w].at # "none"
    BY <1>1, Zenon
  <1>3. w = u
    BY <1>2 DEF Alone
  <1>4. QED
    BY <1>1, <1>3 DEF Active, Alone

LEMMA ActiveNone ==
  ASSUME NEW c, \A u \in Users : c[u].at = "none"
  PROVE  Active(c) = NoCmd /\ Active(c).at = "none" /\ Alone(c)
  BY DEF Active, Alone, NoCmd

\* What u's command does to the commands in progress.
LEMMA CommandSet ==
  ASSUME FilesTypeOK, Shape, NEW u \in Users, NEW x \in Commands, Tidy(x), cmd' = [cmd EXCEPT ![u] = x]
  PROVE  /\ cmd' \in [Users -> Commands] /\ \A v \in Users : Tidy(cmd'[v])
         /\ cmd'[u] = x /\ \A v \in Users \ {u} : cmd'[v] = cmd[v]
         /\ ~Busy => Alone(cmd') /\ Now' = x
         /\ Alone(cmd) /\ cmd[u].at # "none" => Now = cmd[u] /\ Alone(cmd') /\ Now' = x
  <1>1. /\ cmd \in [Users -> Commands] /\ DOMAIN cmd = Users
        /\ cmd'[u] = x /\ \A v \in Users \ {u} : cmd'[v] = cmd[v]
    BY DEF FilesTypeOK
  <1>2. cmd' \in [Users -> Commands]
    BY <1>1
  <1>3. \A v \in Users : Tidy(cmd'[v])
    BY <1>1 DEF Shape
  <1>4. x.at = "none" => x = NoCmd
    BY DEF Tidy
  <1>5. ASSUME ~Busy PROVE Alone(cmd') /\ Now' = x
    <2>1. \A v \in Users \ {u} : cmd[v].at = "none"
      BY <1>5 DEF Busy
    <2>2. \A v \in Users \ {u} : cmd'[v].at = "none"
      BY <1>1, <2>1
    <2>3. Alone(cmd') /\ Active(cmd') = x
      BY <1>1, <1>4, <2>2, ActiveSet
    <2>4. QED
      BY <2>3 DEF Now
  <1>6. ASSUME Alone(cmd), cmd[u].at # "none" PROVE Now = cmd[u] /\ Alone(cmd') /\ Now' = x
    <2>1. Active(cmd) = cmd[u] /\ \A v \in Users \ {u} : cmd[v].at = "none"
      BY <1>6, ActiveIs
    <2>2. \A v \in Users \ {u} : cmd'[v].at = "none"
      BY <1>1, <2>1
    <2>3. Alone(cmd') /\ Active(cmd') = x
      BY <1>1, <1>4, <2>2, ActiveSet
    <2>4. QED
      BY <2>1, <2>3 DEF Now
  <1>7. QED
    BY <1>1, <1>2, <1>3, <1>5, <1>6

LEMMA NowIdle == ~Busy => Now = NoCmd /\ Now.at = "none" /\ Alone(cmd)
  BY ActiveNone DEF Busy, Now

-----------------------------------------------------------------------------
(* Types. *)

LEMMA PatchesType ==
  ASSUME NEW ts \in Seq(Turns), NEW n \in 1 .. Len(ts)
  PROVE  PatchesFrom(ts, n) \in Seq(Patches)
  <1>1. n \in Nat \ {0} /\ n <= n /\ n <= Len(ts) + 1 /\ Len(ts) \in Nat
    OBVIOUS
  <1>2. QED
    BY <1>1, PatchesSplit

\* From a turn that is not there, none.
LEMMA PatchesBeyond ==
  ASSUME NEW ts \in Seq(Turns), NEW n \in Nat, n > Len(ts)
  PROVE  PatchesFrom(ts, n) = <<>>
  <1>0. Len(ts) \in Nat /\ n \in Nat \ {0} /\ Len(ts) \in 0 .. Len(ts)
    OBVIOUS
  <1>1. PICK f : Collects(f, ts, n, Len(ts))
    BY <1>0, CollectsExists
  <1>2. f[Len(ts)] = <<>>
    BY <1>0, <1>1 DEF Collects
  <1>3. QED
    BY <1>0, <1>1, <1>2, FromCollects

LEMMA PatchesTyped ==
  ASSUME NEW ts \in Seq(Turns), NEW n \in Nat \ {0}
  PROVE  PatchesFrom(ts, n) \in Seq(Patches)
  <1>1. CASE n \in 1 .. Len(ts)
    BY <1>1, PatchesType
  <1>2. CASE n > Len(ts)
    <2>1. PatchesFrom(ts, n) = <<>> /\ <<>> \in Seq(Patches)
      BY <1>2, PatchesBeyond
    <2>2. QED
      BY <2>1
  <1>3. QED
    BY <1>1, <1>2

\* A patch more in the last turn.
WithPatch(ts, p) == [ts EXCEPT ![Len(ts)].patches = Append(@, p)]
Saved(ts, us, p) ==
  /\ us \in Seq(Turns) /\ Len(us) = Len(ts) /\ us # <<>>
  /\ \A i \in 1 .. Len(ts) - 1 : us[i] = ts[i]
  /\ \A i \in 1 .. Len(ts) : us[i].start = ts[i].start
  /\ us[Len(ts)].patches = Append(ts[Len(ts)].patches, p)

LEMMA SavedType ==
  ASSUME NEW ts \in Seq(Turns), ts # <<>>, NEW p \in Patches
  PROVE  Saved(ts, WithPatch(ts, p), p)
  <1>0. PICK us : us = WithPatch(ts, p)
    OBVIOUS
  <1>1. Len(ts) \in Nat \ {0} /\ DOMAIN ts = 1 .. Len(ts) /\ ts[Len(ts)] \in Turns
    OBVIOUS
  <1>2. ts[Len(ts)].patches \in Seq(Patches) /\ ts[Len(ts)].start \in Trees
    BY <1>1 DEF Turns
  <1>3. PICK q \in Seq(Patches) : q = Append(ts[Len(ts)].patches, p)
    <2>1. Append(ts[Len(ts)].patches, p) \in Seq(Patches)
      BY <1>2
    <2>2. QED
      BY <2>1, Zenon
  <1>4. PICK t : t = [ts[Len(ts)] EXCEPT !.patches = q]
    OBVIOUS
  <1>5. t \in Turns /\ t.patches = q /\ t.start = ts[Len(ts)].start
    BY <1>1, <1>2, <1>4 DEF Turns
  <1>6. us = [ts EXCEPT ![Len(ts)] = t]
    BY <1>0, <1>3, <1>4 DEF WithPatch
  <1>7. DOMAIN us = DOMAIN ts /\ \A i \in 1 .. Len(ts) : us[i] = IF i = Len(ts) THEN t ELSE ts[i]
    BY <1>1, <1>6
  <1>8. us \in Seq(Turns) /\ Len(us) = Len(ts) /\ us # <<>>
    <2>1. \A i \in 1 .. Len(ts) : ts[i] \in Turns
      BY <1>1
    <2>2. \A i \in 1 .. Len(ts) : us[i] \in Turns
      BY <1>5, <1>7, <2>1, Zenon
    <2>3. us \in [1 .. Len(ts) -> Turns]
      BY <1>1, <1>6, <1>7, <2>2
    <2>4. QED
      BY <1>1, <2>3
  <1>9. us[Len(ts)] = t /\ \A i \in 1 .. Len(ts) - 1 : us[i] = ts[i]
    <2>0. \A n \in Nat \ {0} : n \in 1 .. n /\ \A i \in 1 .. n - 1 : i \in 1 .. n /\ i # n
      OBVIOUS
    <2>1. Len(ts) \in 1 .. Len(ts) /\ \A i \in 1 .. Len(ts) - 1 : i \in 1 .. Len(ts) /\ i # Len(ts)
      BY <1>1, <2>0, Zenon
    <2>2. QED
      BY <1>7, <2>1, Zenon
  <1>10. \A i \in 1 .. Len(ts) : us[i].start = ts[i].start
    BY <1>5, <1>7, Zenon
  <1>11. us[Len(ts)].patches = Append(ts[Len(ts)].patches, p)
    BY <1>3, <1>5, <1>9
  <1>12. QED
    BY <1>0, <1>8, <1>9, <1>10, <1>11 DEF Saved

\* A file that was there and one that is written.
LEMMA WriteType ==
  ASSUME FilesTypeOK, NEW g \in Files, WriteFile(g)
  PROVE  work' \in Trees /\ \A f \in Files : f # g => work'[f] = work[f]
  BY DEF WriteFile, FilesTypeOK, Trees

LEMMA HistFields ==
  ASSUME FilesTypeOK
  PROVE  /\ hist.kept \in Trees
         /\ hist.round \in SUBSET Files /\ hist.touched \in SUBSET Files
         /\ hist.foreign \in SUBSET Files /\ hist.spoilt \in SUBSET Files /\ hist.left \in SUBSET Files
         /\ hist.redone \in BOOLEAN /\ hist.astray \in BOOLEAN
         /\ Unsaved \in SUBSET Files /\ SincePre \in SUBSET Files
         /\ \A m \in SUBSET Files : Unseen(m) \in SUBSET Files /\ hist.spoilt \union m \in SUBSET Files
         /\ \A other : StillOpen(other) \in SUBSET Files
         /\ \A s, t : hist.left \union Extra(s, t) \in SUBSET Files
  BY DEF FilesTypeOK, Hist, Unseen, Unsaved, StillOpen, SincePre, Diff, Extra

\* What the actions do with the history keeps its type.
LEMMA HistTypes ==
  ASSUME FilesTypeOK
  PROVE  /\ \A s \in SUBSET Files : [hist EXCEPT !.spoilt = s] \in Hist
         /\ \A r, s \in SUBSET Files : [hist EXCEPT !.round = r, !.spoilt = s] \in Hist
         /\ \A r, s \in SUBSET Files : [hist EXCEPT !.spoilt = s, !.round = r] \in Hist
         /\ \A r, s \in SUBSET Files : [hist EXCEPT !.spoilt = s, !.astray = TRUE, !.round = r] \in Hist
         /\ \A k \in Trees, s \in SUBSET Files : [hist EXCEPT !.kept = k, !.spoilt = s] \in Hist
         /\ \A k \in Trees, a \in BOOLEAN, l \in SUBSET Files :
              [hist EXCEPT !.redone = FALSE, !.kept = k, !.astray = a, !.left = l] \in Hist
         /\ \A l \in SUBSET Files : [hist EXCEPT !.redone = FALSE, !.left = l] \in Hist
         /\ \A r, t \in SUBSET Files, a \in BOOLEAN :
              [hist EXCEPT !.round = r, !.touched = t, !.astray = a] \in Hist
         /\ \A t, s \in SUBSET Files : [hist EXCEPT !.foreign = t, !.spoilt = s] \in Hist
         /\ \A s \in SUBSET Files, b, a \in BOOLEAN :
              /\ [hist EXCEPT !.spoilt = s, !.astray = a] \in Hist
              /\ [hist EXCEPT !.spoilt = s, !.redone = b, !.astray = a] \in Hist
              /\ [hist EXCEPT !.redone = b, !.spoilt = s, !.astray = a] \in Hist
         /\ [hist EXCEPT !.astray = TRUE] \in Hist
  BY DEF FilesTypeOK, Hist

LEMMA BudgetType ==
  ASSUME FilesTypeOK,
         \/ \E things : UseAll(things) \/ Begins(things)
         \/ \E what : Use(what)
         \/ \E missed, as : Counted(missed, as)
         \/ UNCHANGED budget
         \/ SnapshotFails
  PROVE  budget' \in [Things -> Nat]
  <1>1. ASSUME NEW things, UseAll(things) PROVE budget' \in [Things -> Nat]
    <2>1. budget \in [Things -> Nat]
      BY DEF FilesTypeOK
    <2>2. budget' = [what \in Things |-> IF what \in things THEN budget[what] - 1 ELSE budget[what]]
      BY <1>1 DEF UseAll
    <2>3. \A what \in Things : what \in things => budget[what] > 0
      BY <1>1 DEF UseAll
    <2>4. \A what \in Things : (IF what \in things THEN budget[what] - 1 ELSE budget[what]) \in Nat
      BY <2>1, <2>3
    <2>5. QED
      BY <2>2, <2>4
  <1>2. CASE UNCHANGED budget
    BY <1>2 DEF FilesTypeOK
  <1>3. \A what : Use(what) => budget' \in [Things -> Nat]
    BY <1>1 DEF Use
  <1>4. \A missed, as : Counted(missed, as) => budget' \in [Things -> Nat]
    BY <1>2, <1>3 DEF Counted
  <1>5. QED
    BY <1>1, <1>2, <1>3, <1>4 DEF Begins, SnapshotFails

LEMMA SnapshotType ==
  ASSUME FilesTypeOK, NEW missed, Snapshot(missed)
  PROVE  repo' \in Repositories /\ repo'.index \in Trees /\ repo'.index \in Hashes
  <1>1. repo' \in Repositories
    BY TrackType DEF FilesTypeOK, Snapshot
  <1>2. QED
    BY <1>1 DEF Repositories, Hashes

LEMMA SnapshotFailsType ==
  ASSUME FilesTypeOK, SnapshotFails
  PROVE  repo' \in Repositories
  <1>1. repo \in Repositories /\ repo.index \in Trees
    BY DEF FilesTypeOK, Repositories
  <1>2. But(Ignored(repo, work), Nothing, repo.index) \in Trees
    BY <1>1, ButType, NothingType
  <1>3. [repo EXCEPT !.index = But(Ignored(repo, work), Nothing, @)] \in Repositories
    BY <1>1, <1>2 DEF Repositories
  <1>4. QED
    BY <1>1, <1>3, SnapshotType DEF SnapshotFails

LEMMA RestoreType ==
  ASSUME FilesTypeOK, NEW tree \in Hashes, Restore(tree)
  PROVE  work' \in Trees /\ repo' \in Repositories
  <1>1. CASE tree = NoTree
    BY <1>1 DEF Restore, disk, FilesTypeOK
  <1>2. CASE tree # NoTree
    <2>1. tree \in Trees
      BY <1>2 DEF Hashes
    <2>2. QED
      BY <1>2, <2>1, RestoredType DEF Restore, FilesTypeOK, Repositories
  <1>3. QED
    BY <1>1, <1>2

LEMMA RestoreFailsType ==
  ASSUME FilesTypeOK, NEW u \in Users, NEW tree \in Hashes, RestoreFails(u, tree)
  PROVE  work' \in Trees /\ repo' \in Repositories
  <1>1. CASE UNCHANGED disk
    BY <1>1 DEF disk, FilesTypeOK
  <1>2. ASSUME tree \in Trees, NEW missed, work' = But(missed, work, Restored(tree, work)),
               repo' = [repo EXCEPT !.index = tree]
        PROVE  work' \in Trees /\ repo' \in Repositories
    <2>1. Restored(tree, work) \in Trees
      BY <1>2, RestoredType DEF FilesTypeOK
    <2>2. QED
      BY <1>2, <2>1, ButType DEF FilesTypeOK, Repositories
  <1>3. QED
    BY <1>1, <1>2 DEF RestoreFails

LEMMA RollBackType ==
  ASSUME FilesTypeOK, NEW ps \in Seq(Patches), NEW missed, RollBack(ps, missed)
  PROVE  work' \in Trees /\ repo' \in Repositories
  <1>1. work \in Trees /\ repo.index \in Trees
    BY DEF FilesTypeOK, Repositories
  <1>2. But(missed, work, Reverted(ps, work)) \in Trees
    BY <1>1, RevertedType, ButType
  <1>3. But(missed, repo.index, RevertedIndex(ps, repo.index)) \in Trees
    BY <1>1, RevertedType, ButType
  <1>4. QED
    BY <1>2, <1>3 DEF RollBack, FilesTypeOK, Repositories

LEMMA SaveType ==
  ASSUME FilesTypeOK, NEW pre \in Trees, NEW files \in SUBSET Files, SavePatch(pre, files)
  PROVE  /\ turns' \in Seq(Turns) /\ Len(turns') = Len(turns) /\ (turns # <<>> => turns' # <<>>)
  <1>1. CASE turns = <<>> \/ files = {}
    BY <1>1 DEF SavePatch, FilesTypeOK
  <1>2. CASE turns # <<>> /\ files # {}
    <2>1. PICK p : p = [tree |-> pre, files |-> files]
      OBVIOUS
    <2>2. p \in Patches
      BY <2>1 DEF Patches
    <2>3. turns' = WithPatch(turns, p)
      BY <1>2, <2>1 DEF SavePatch, WithPatch
    <2>4. turns \in Seq(Turns)
      BY DEF FilesTypeOK
    <2>5. Saved(turns, turns', p)
      BY <1>2, <2>2, <2>3, <2>4, SavedType, Zenon
    <2>6. QED
      BY <2>5 DEF Saved
  <1>3. QED
    BY <1>1, <1>2

LEMMA NoCmdType == NoCmd \in Commands /\ Tidy(NoCmd) /\ NoCmd.at = "none" /\ NoCmd.target = 0
                   /\ NoCmd.patches = <<>> /\ NoCmd.check = NoTree
  <1>1. <<>> \in Seq(Patches) /\ 0 \in 0 .. Gone
    BY BoundsAreNaturals DEF Gone
  <1>2. QED
    BY <1>1 DEF NoCmd, Commands, Tidy, Hashes

\* What a command begins with.
LEMMA BeginType ==
  ASSUME FilesTypeOK, Shape, NEW u \in Users, NEW target \in Nat, NEW at, Begin(u, at, target),
         \/ at = "checkpoint" /\ target # 0 /\ target <= Gone
         \/ at = "restore" /\ target = 0
  PROVE  \E x \in Commands :
           /\ Tidy(x) /\ cmd' = [cmd EXCEPT ![u] = x]
           /\ x.at = at /\ x.target = target /\ x.check = IF at = "restore" THEN checkpoint ELSE NoTree
           /\ x.patches = IF target = 0 THEN <<>> ELSE PatchesFrom(turns, target)
  <1>1. PICK ps : ps = IF target = 0 THEN <<>> ELSE PatchesFrom(turns, target)
    OBVIOUS
  <1>2. ps \in Seq(Patches)
    <2>1. CASE target = 0
      BY <1>1, <2>1
    <2>2. CASE target # 0
      BY <1>1, <2>2, PatchesTyped DEF FilesTypeOK
    <2>3. QED
      BY <2>1, <2>2
  <1>3. PICK c : c = IF at = "restore" THEN checkpoint ELSE NoTree
    OBVIOUS
  <1>4. c \in Hashes
    BY <1>3 DEF FilesTypeOK, Hashes
  <1>5. PICK x : x = [at |-> at, target |-> target, check |-> c, patches |-> ps]
    OBVIOUS
  <1>6. x.at = at /\ x.target = target /\ x.check = c /\ x.patches = ps
    BY <1>5
  <1>7. target \in 0 .. Gone
    BY BoundsAreNaturals DEF Gone
  <1>8. x \in Commands
    BY <1>2, <1>4, <1>5, <1>7 DEF Commands
  <1>9. Tidy(x)
    BY <1>6 DEF Tidy
  <1>10. cmd' = [cmd EXCEPT ![u] = x]
    BY <1>1, <1>3, <1>5 DEF Begin
  <1>11. QED
    BY <1>1, <1>3, <1>6, <1>8, <1>9, <1>10

\* A command that goes on.
Going(c, at, tree) == [c EXCEPT !.at = at, !.check = tree]

LEMMA StepType ==
  ASSUME FilesTypeOK, Shape, NEW u \in Users, cmd[u].at \in {"checkpoint", "revert"}, NEW tree \in Hashes,
         NEW at, at = "revert" \/ at = "save", NEW x, x = Going(cmd[u], at, tree)
  PROVE  /\ x \in Commands /\ Tidy(x)
         /\ x.at = at /\ x.target = cmd[u].target /\ x.check = tree /\ x.patches = cmd[u].patches
  <1>1. cmd[u] \in Commands /\ cmd[u].target # 0
    BY DEF FilesTypeOK, Shape, Tidy
  <1>2. x \in Commands /\ x.at = at /\ x.target = cmd[u].target /\ x.check = tree /\ x.patches = cmd[u].patches
    BY <1>1 DEF Commands, Going
  <1>3. QED
    BY <1>1, <1>2 DEF Tidy

\* RevertFiles leaves the checkpoint.
LEMMA GoingOn ==
  ASSUME NEW c \in Commands, NEW at
  PROVE  [c EXCEPT !.at = at] = Going(c, at, c.check)
  BY DEF Commands, Going

LEMMA FilesTypeInit == FilesInit => FilesTypeOK /\ Shape /\ ExcludeOK
  <1> SUFFICES ASSUME FilesInit PROVE FilesTypeOK /\ Shape /\ ExcludeOK
    OBVIOUS
  <1>1. Nothing \in Trees /\ EmptyRepository \in Repositories /\ work \in Trees
    BY LargeIsContent DEF FilesInit, Nothing, EmptyRepository, Repositories, Trees
  <1>2. hist \in Hist
    BY <1>1 DEF FilesInit, Hist
  <1>3. <<>> \in Seq(Turns) /\ Len(<<>>) = 0
    OBVIOUS
  <1>4. MaxTurns \in Nat /\ budget \in [Things -> Nat]
    BY BoundsAreNaturals DEF FilesInit
  <1>5. cmd \in [Users -> Commands] /\ \A u \in Users : cmd[u] = NoCmd
    BY NoCmdType DEF FilesInit
  <1>6. FilesTypeOK
    BY <1>1, <1>2, <1>3, <1>4, <1>5 DEF FilesInit, FilesTypeOK, NoLoop, Hashes, Gone
  <1>7. Shape
    BY <1>3, <1>4, <1>5, NoCmdType DEF FilesInit, Shape, NoLoop
  <1>8. QED
    BY <1>1, <1>6, <1>7 DEF FilesInit, ExcludeOK, EmptyRepository

\* A command of u's that has begun, goes on or has ended, whatever it left of the cursor.
LEMMA CommandType ==
  ASSUME FilesTypeOK, Shape, NEW u \in Users, NEW x \in Commands, Tidy(x), cmd' = [cmd EXCEPT ![u] = x],
         work' \in Trees, repo' \in Repositories, hist' \in Hist, budget' \in [Things -> Nat],
         turns' = turns, cursor' \in 0 .. Gone, checkpoint' \in Hashes, cursor' = 0 => checkpoint' = NoTree,
         UNCHANGED <<loop, ghost>> \/ CancelLoop
  PROVE  FilesTypeOK' /\ Shape'
  <1>1. cmd' \in [Users -> Commands] /\ \A v \in Users : Tidy(cmd'[v])
    BY CommandSet
  <1>2. /\ loop' \in [at : {"none", "ask", "round"}, pre : Hashes]
        /\ ghost' \in [at : {"none", "round"}, pre : Hashes]
        /\ loop'.at # "none" => loop.at # "none"
    BY DEF CancelLoop, NoLoop, FilesTypeOK, Hashes
  <1>3. FilesTypeOK'
    BY <1>1, <1>2 DEF FilesTypeOK
  <1>4. Shape'
    BY <1>1, <1>2 DEF Shape
  <1>5. QED
    BY <1>3, <1>4

LEMMA TurnsType ==
  ASSUME FilesTypeOK, Shape, Prompt
  PROVE  FilesTypeOK' /\ Shape'
  <1>0. MaxTurns \in Nat /\ Len(turns) \in Nat /\ turns \in Seq(Turns) /\ Gone \in Nat
    BY BoundsAreNaturals DEF FilesTypeOK, Gone
  <1>1. PICK visible : /\ visible = IF cursor \in DOMAIN turns THEN SubSeq(turns, 1, cursor - 1) ELSE turns
                       /\ Len(visible) < MaxTurns
                       /\ turns' = Append(visible, [patches |-> <<>>, start |-> work])
                       /\ cmd' = [u \in Users |-> IF cmd[u].target > Len(visible)
                                    THEN [cmd[u] EXCEPT !.target = Gone] ELSE cmd[u]]
    BY DEF Prompt
  <1>2. visible \in Seq(Turns)
    BY <1>0, <1>1
  <1>3. [patches |-> <<>>, start |-> work] \in Turns
    BY DEF FilesTypeOK, Turns
  <1>4. turns' \in Seq(Turns) /\ Len(turns') <= MaxTurns /\ Len(turns') \in Nat /\ turns' # <<>>
    <2>1. PICK t \in Turns : t = [patches |-> <<>>, start |-> work]
      BY <1>3, Zenon
    <2>2. PICK v \in Seq(Turns) : v = visible
      BY <1>2, Zenon
    <2>3. Append(v, t) \in Seq(Turns) /\ Len(Append(v, t)) = Len(v) + 1 /\ Len(v) \in Nat
      BY ONLY <2>1, <2>2
    <2>4. turns' = Append(v, t)
      BY <1>1, <2>1, <2>2
    <2>5. Len(v) < MaxTurns
      BY <1>1, <2>2
    <2>6. QED
      BY <1>0, <2>3, <2>4, <2>5
  <1>5. hist' \in Hist
    <2>1. PICK l \in SUBSET Files :
            l = hist.left \union IF cursor \in DOMAIN turns THEN Extra(turns[cursor].start, work) ELSE {}
      <3>1. hist.left \subseteq Files
        BY HistFields
      <3>2. \A s : Extra(s, work) \subseteq Files
        BY Zenon DEF Extra
      <3> QED
        BY <3>1, <3>2
    <2>2. (hist.astray \/ Busy) \in BOOLEAN
      OBVIOUS
    <2>3. hist' = [hist EXCEPT !.redone = FALSE, !.kept = Nothing, !.astray = hist.astray \/ Busy, !.left = l]
      BY <2>1 DEF Prompt
    <2>4. QED
      BY <2>2, <2>3, NothingType, HistTypes
  <1>6. budget' \in [Things -> Nat]
    BY BudgetType DEF Prompt
  <1>7. \A u \in Users : cmd'[u] \in Commands /\ Tidy(cmd'[u])
    <2> SUFFICES ASSUME NEW u \in Users PROVE cmd'[u] \in Commands /\ Tidy(cmd'[u])
      OBVIOUS
    <2>1. cmd[u] \in Commands /\ Tidy(cmd[u])
      BY DEF FilesTypeOK, Shape
    <2>2. cmd'[u] = cmd[u] \/ (cmd[u].target > Len(visible) /\ cmd'[u] = [cmd[u] EXCEPT !.target = Gone])
      BY <1>1
    <2>3. ASSUME cmd[u].target > Len(visible), cmd'[u] = [cmd[u] EXCEPT !.target = Gone]
          PROVE  cmd'[u] \in Commands /\ Tidy(cmd'[u])
      <3>1. cmd'[u] \in Commands /\ cmd'[u].at = cmd[u].at /\ cmd'[u].target = Gone
        BY <1>0, <2>1, <2>3 DEF Commands
      <3>2. cmd[u].at # "none"
        <4>1. Len(visible) \in Nat
          BY <1>2
        <4>2. NoCmd.target = 0
          BY NoCmdType
        <4>3. QED
          BY <2>1, <2>3, <4>1, <4>2 DEF Tidy
      <3>3. Gone # 0
        BY BoundsAreNaturals DEF Gone
      <3>4. QED
        BY <3>1, <3>2, <3>3 DEF Tidy
    <2>4. QED
      BY <2>1, <2>2, <2>3
  <1>8. cmd' \in [Users -> Commands]
    BY <1>1, <1>7
  <1>9. /\ cursor' = 0 /\ checkpoint' = NoTree /\ work' = work /\ repo' = repo /\ ghost' = ghost
        /\ loop' = [at |-> "ask", pre |-> NoTree]
    BY DEF Prompt, disk, NoLoop
  <1>10. /\ loop' \in [at : {"none", "ask", "round"}, pre : Hashes] /\ checkpoint' \in Hashes
         /\ cursor' \in 0 .. Gone
    BY <1>0, <1>9 DEF Hashes
  <1>11. FilesTypeOK'
    BY <1>4, <1>5, <1>6, <1>8, <1>9, <1>10 DEF FilesTypeOK
  <1>12. Shape'
    BY <1>4, <1>7, <1>9 DEF Shape
  <1>13. QED
    BY <1>11, <1>12

LEMMA RoundsType ==
  ASSUME FilesTypeOK, Shape,
         \/ OpenRound \/ ReadOnlyRound \/ ToolWrites \/ SomebodyWrites
         \/ CloseRound \/ EndTurn \/ GhostCloses \/ CollectGarbage
  PROVE  FilesTypeOK' /\ Shape'
  <1> USE DEF disk, session
  <1>0. MaxTurns \in Nat /\ Len(turns) \in Nat /\ turns \in Seq(Turns)
    BY BoundsAreNaturals DEF FilesTypeOK
  <1>s. ASSUME work' \in Trees, repo' \in Repositories, hist' \in Hist, budget' \in [Things -> Nat],
               turns' \in Seq(Turns), Len(turns') = Len(turns), turns # <<>> => turns' # <<>>,
               loop' \in [at : {"none", "ask", "round"}, pre : Hashes], loop'.at # "none" => loop.at # "none",
               ghost' \in [at : {"none", "round"}, pre : Hashes], UNCHANGED <<cursor, checkpoint, cmd>>
        PROVE  FilesTypeOK' /\ Shape'
    <2>1. FilesTypeOK'
      BY <1>s DEF FilesTypeOK
    <2>2. Shape'
      BY <1>s DEF Shape
    <2>3. QED
      BY <2>1, <2>2
  <1>f. /\ work \in Trees /\ repo \in Repositories /\ hist \in Hist /\ budget \in [Things -> Nat]
        /\ loop \in [at : {"none", "ask", "round"}, pre : Hashes]
        /\ ghost \in [at : {"none", "round"}, pre : Hashes]
    BY DEF FilesTypeOK
  <1>n. NoLoop \in [at : {"none", "round"}, pre : Hashes] /\ NoLoop.at = "none"
        /\ NoLoop \in [at : {"none", "ask", "round"}, pre : Hashes]
    BY DEF NoLoop, Hashes
  <1>p. ASSUME NEW other, NoPatch(other) PROVE hist' \in Hist /\ turns' = turns
    <2>1. PICK r \in SUBSET Files : r = StillOpen(other)
      BY HistFields, Zenon
    <2>2. PICK s \in SUBSET Files : s = Unseen(hist.round)
      BY HistFields
    <2>3. hist' = [hist EXCEPT !.spoilt = s, !.round = r]
      BY <1>p, <2>1, <2>2 DEF NoPatch
    <2>4. [hist EXCEPT !.spoilt = s, !.round = r] \in Hist
      BY HistTypes, Zenon
    <2>5. QED
      BY <1>p, <2>3, <2>4, Zenon DEF NoPatch
  <1>1. CASE OpenRound
    <2>1. budget' \in [Things -> Nat]
      BY <1>1, BudgetType DEF OpenRound
    <2>2. PICK missed \in SUBSET Files :
            /\ \/ /\ Snapshot(missed) /\ loop' = [at |-> "round", pre |-> repo'.index]
                  /\ hist' = [hist EXCEPT !.round = StillOpen(ghost), !.spoilt = Unseen(missed)]
               \/ /\ SnapshotFails /\ loop' = [loop EXCEPT !.at = "round"]
                  /\ hist' = [hist EXCEPT !.round = StillOpen(ghost), !.spoilt = Unseen(SincePre)]
      BY <1>1 DEF OpenRound
    <2>3. repo' \in Repositories /\ (Snapshot(missed) => repo'.index \in Hashes)
      BY <2>2, SnapshotType, SnapshotFailsType
    <2>4. hist' \in Hist
      <3>1. PICK r \in SUBSET Files : r = StillOpen(ghost)
        BY HistFields, Zenon
      <3>2. PICK s \in SUBSET Files : s = Unseen(missed)
        BY HistFields
      <3>3. PICK t \in SUBSET Files : t = Unseen(SincePre)
        BY HistFields
      <3>4. \/ hist' = [hist EXCEPT !.round = r, !.spoilt = s]
            \/ hist' = [hist EXCEPT !.round = r, !.spoilt = t]
        BY <2>2, <3>1, <3>2, <3>3
      <3>5. /\ [hist EXCEPT !.round = r, !.spoilt = s] \in Hist
            /\ [hist EXCEPT !.round = r, !.spoilt = t] \in Hist
        BY HistTypes, Zenon
      <3>6. QED
        BY <3>4, <3>5, Zenon
    <2>5. loop' \in [at : {"none", "ask", "round"}, pre : Hashes]
      BY <1>f, <2>2, <2>3
    <2>6. QED
      BY <1>s, <1>f, <1>0, <1>1, <2>1, <2>3, <2>4, <2>5 DEF OpenRound
  <1>2. CASE ReadOnlyRound
    <2>1. budget' \in [Things -> Nat]
      BY <1>2, BudgetType DEF ReadOnlyRound
    <2>2. loop' \in [at : {"none", "ask", "round"}, pre : Hashes]
      BY <1>f, <1>2 DEF ReadOnlyRound, Hashes
    <2>3. QED
      BY <1>s, <1>f, <1>0, <1>2, <2>1, <2>2 DEF ReadOnlyRound
  <1>3. CASE ToolWrites
    <2>1. budget' \in [Things -> Nat]
      BY <1>3, BudgetType DEF ToolWrites
    <2>2. work' \in Trees /\ hist' \in Hist
      <3>1. PICK f \in Files : /\ WriteFile(f)
                               /\ hist' = [hist EXCEPT !.round = @ \union {f}, !.touched = @ \union {f},
                                                       !.astray = @ \/ loop.at # "round"]
        BY <1>3 DEF ToolWrites
      <3>2. hist.round \union {f} \in SUBSET Files /\ hist.touched \union {f} \in SUBSET Files
        BY <3>1, HistFields
      <3>3. (hist.astray \/ loop.at # "round") \in BOOLEAN
        OBVIOUS
      <3>4. QED
        BY <3>1, <3>2, <3>3, WriteType, HistTypes
    <2>3. QED
      BY <1>s, <1>f, <1>0, <1>3, <2>1, <2>2 DEF ToolWrites
  <1>4. CASE SomebodyWrites
    <2>1. budget' \in [Things -> Nat]
      BY <1>4, BudgetType DEF SomebodyWrites
    <2>2. work' \in Trees /\ hist' \in Hist
      <3>1. PICK f \in Files :
               /\ WriteFile(f)
               /\ hist' = [hist EXCEPT
                    !.foreign = @ \union {f},
                    !.spoilt = IF Reverting \/ "round" \in {loop.at, ghost.at} THEN @ \union {f} ELSE @]
        BY <1>4 DEF SomebodyWrites
      <3>2. PICK s : s = IF Reverting \/ "round" \in {loop.at, ghost.at}
                         THEN hist.spoilt \union {f} ELSE hist.spoilt
        OBVIOUS
      <3>3. hist.foreign \union {f} \in SUBSET Files /\ s \in SUBSET Files
        BY <3>1, <3>2, HistFields
      <3>4. hist' = [hist EXCEPT !.foreign = @ \union {f}, !.spoilt = s]
        BY <3>1, <3>2
      <3>5. PICK g \in SUBSET Files : g = hist.foreign \union {f}
        BY <3>3, Zenon
      <3>6. [hist EXCEPT !.foreign = g, !.spoilt = s] \in Hist
        BY <3>3, HistTypes, Zenon
      <3>7. hist' = [hist EXCEPT !.foreign = g, !.spoilt = s]
        BY <3>4, <3>5
      <3>8. QED
        BY <3>1, <3>6, <3>7, WriteType
    <2>3. QED
      BY <1>s, <1>f, <1>0, <1>4, <2>1, <2>2 DEF SomebodyWrites
  <1>5. CASE CloseRound
    <2>1. budget' \in [Things -> Nat]
      BY <1>5, BudgetType DEF CloseRound
    <2>2. PICK missed \in SUBSET Files :
            \/ /\ loop.pre # NoTree /\ Snapshot(missed)
               /\ SavePatch(loop.pre, Diff(loop.pre, repo'.index))
               /\ loop' = [at |-> "ask", pre |-> repo'.index]
               /\ hist' = [hist EXCEPT !.spoilt = Unseen(missed), !.round = StillOpen(ghost)]
            \/ /\ SnapshotFails \/ UNCHANGED repo
               /\ loop' = [loop EXCEPT !.at = "ask"] /\ NoPatch(ghost)
      BY <1>5 DEF CloseRound
    <2>3. repo' \in Repositories /\ (Snapshot(missed) => repo'.index \in Hashes)
      BY <1>f, <2>2, SnapshotType, SnapshotFailsType
    <2>4. hist' \in Hist
      <3>1. PICK r \in SUBSET Files : r = StillOpen(ghost)
        BY HistFields, Zenon
      <3>2. PICK s \in SUBSET Files : s = Unseen(missed)
        BY HistFields
      <3>3. hist' = [hist EXCEPT !.spoilt = s, !.round = r] \/ NoPatch(ghost)
        BY <2>2, <3>1, <3>2
      <3>4. [hist EXCEPT !.spoilt = s, !.round = r] \in Hist
        BY HistTypes, Zenon
      <3>5. QED
        BY <1>p, <3>3, <3>4, Zenon
    <2>5. loop' \in [at : {"none", "ask", "round"}, pre : Hashes]
      BY <1>f, <2>2, <2>3
    <2>6. turns' \in Seq(Turns) /\ Len(turns') = Len(turns) /\ (turns # <<>> => turns' # <<>>)
      <3>1. CASE turns' = turns
        BY <3>1, <1>0
      <3>2. CASE loop.pre # NoTree /\ SavePatch(loop.pre, Diff(loop.pre, repo'.index))
        <4>1. loop.pre \in Trees /\ Diff(loop.pre, repo'.index) \in SUBSET Files
          BY <3>2, <1>f DEF Diff, Hashes
        <4>2. QED
          BY <3>2, <4>1, SaveType
      <3>3. QED
        BY <1>p, <2>2, <3>1, <3>2
    <2>7. loop.at # "none"
      BY <1>5 DEF CloseRound
    <2>8. QED
      BY <1>s, <1>f, <1>5, <2>1, <2>3, <2>4, <2>5, <2>6, <2>7 DEF CloseRound
  <1>6. CASE EndTurn
    <2>1. hist' \in Hist /\ turns' = turns
      BY <1>f, <1>p, <1>6 DEF EndTurn
    <2>2. repo' \in Repositories
      BY <1>f, <1>6, SnapshotType DEF EndTurn
    <2>3. QED
      BY <1>s, <1>f, <1>n, <1>0, <1>6, <2>1, <2>2 DEF EndTurn
  <1>7. CASE GhostCloses
    <2>1. budget' \in [Things -> Nat]
      BY <1>7, BudgetType DEF GhostCloses
    <2>2. PICK missed \in SUBSET Files :
            \/ /\ ghost.pre # NoTree /\ Snapshot(missed)
               /\ SavePatch(ghost.pre, Diff(ghost.pre, repo'.index))
               /\ hist' = [hist EXCEPT !.spoilt = Unseen(missed), !.astray = TRUE, !.round = StillOpen(loop)]
            \/ NoPatch(loop) /\ (UNCHANGED repo \/ Snapshot({}))
      BY <1>7 DEF GhostCloses
    <2>3. repo' \in Repositories
      BY <1>f, <2>2, SnapshotType
    <2>4. hist' \in Hist
      <3>1. PICK r \in SUBSET Files : r = StillOpen(loop)
        BY HistFields, Zenon
      <3>2. PICK s \in SUBSET Files : s = Unseen(missed)
        BY HistFields
      <3>3. hist' = [hist EXCEPT !.spoilt = s, !.astray = TRUE, !.round = r] \/ NoPatch(loop)
        BY <2>2, <3>1, <3>2
      <3>4. [hist EXCEPT !.spoilt = s, !.astray = TRUE, !.round = r] \in Hist
        BY HistTypes, Zenon
      <3>5. QED
        BY <1>p, <3>3, <3>4, Zenon
    <2>5. turns' \in Seq(Turns) /\ Len(turns') = Len(turns) /\ (turns # <<>> => turns' # <<>>)
      <3>1. CASE turns' = turns
        BY <3>1, <1>0
      <3>2. CASE ghost.pre # NoTree /\ SavePatch(ghost.pre, Diff(ghost.pre, repo'.index))
        <4>1. ghost.pre \in Trees /\ Diff(ghost.pre, repo'.index) \in SUBSET Files
          BY <3>2, <1>f DEF Diff, Hashes
        <4>2. QED
          BY <3>2, <4>1, SaveType
      <3>3. QED
        BY <1>p, <2>2, <3>1, <3>2
    <2>6. QED
      BY <1>s, <1>f, <1>n, <1>7, <2>1, <2>3, <2>4, <2>5 DEF GhostCloses
  <1>8. CASE CollectGarbage
    <2>1. budget' \in [Things -> Nat]
      BY <1>8, BudgetType DEF CollectGarbage
    <2>2. PICK old \in SUBSET Remembered : repo' = [repo EXCEPT !.pruned = @ \union old]
      BY <1>8 DEF CollectGarbage
    <2>3. Remembered \subseteq Trees
      <3>1. checkpoint # NoTree => checkpoint \in Trees
        BY DEF FilesTypeOK, Hashes
      <3>2. ASSUME NEW i \in DOMAIN turns, NEW j \in DOMAIN turns[i].patches
            PROVE  turns[i].patches[j].tree \in Trees
        <4>1. turns[i] \in Turns
          BY <1>0
        <4>2. turns[i].patches \in Seq(Patches)
          BY <4>1 DEF Turns
        <4>3. turns[i].patches[j] \in Patches
          BY <4>2
        <4>4. QED
          BY <4>3 DEF Patches
      <3>3. QED
        BY <3>1, <3>2 DEF Remembered
    <2>4. repo' \in Repositories
      BY <1>f, <2>2, <2>3 DEF Repositories
    <2>5. hist' \in Hist
      BY <1>8, HistTypes DEF CollectGarbage
    <2>6. QED
      BY <1>s, <1>f, <1>0, <1>8, <2>1, <2>4, <2>5 DEF CollectGarbage
  <1>9. QED
    BY <1>1, <1>2, <1>3, <1>4, <1>5, <1>6, <1>7, <1>8

\* A command that ends, or one that is not begun.
LEMMA SlotType ==
  ASSUME FilesTypeOK, Shape, NEW u \in Users
  PROVE  /\ NoCmd \in Commands /\ Tidy(NoCmd)
         /\ cmd[u] \in Commands /\ Tidy(cmd[u]) /\ cmd = [cmd EXCEPT ![u] = cmd[u]]
  BY NoCmdType DEF FilesTypeOK, Shape

LEMMA BeginsType ==
  ASSUME FilesTypeOK, Shape, NEW u \in Users, Undo(u) \/ Revert(u) \/ Redo(u)
  PROVE  FilesTypeOK' /\ Shape'
  <1> USE DEF disk, session
  <1>0. MaxTurns \in Nat /\ Len(turns) \in Nat /\ Len(turns) <= MaxTurns /\ Gone = MaxTurns + 1
        /\ DOMAIN turns = 1 .. Len(turns) /\ cursor \in 0 .. Gone
    BY BoundsAreNaturals DEF FilesTypeOK, Shape, Gone
  <1>s. ASSUME hist' \in Hist, budget' \in [Things -> Nat], UNCHANGED <<disk, session>>,
               UNCHANGED <<loop, ghost>> \/ CancelLoop,
               \/ UNCHANGED cmd
               \/ \E target \in Nat \ {0} : target <= Gone /\ Begin(u, "checkpoint", target)
               \/ Begin(u, "restore", 0)
        PROVE  FilesTypeOK' /\ Shape'
    <2>1. PICK x \in Commands : Tidy(x) /\ cmd' = [cmd EXCEPT ![u] = x]
      <3>1. CASE UNCHANGED cmd
        BY <3>1, SlotType
      <3>2. ASSUME NEW target \in Nat \ {0}, target <= Gone, Begin(u, "checkpoint", target)
            PROVE  \E x \in Commands : Tidy(x) /\ cmd' = [cmd EXCEPT ![u] = x]
        BY <3>2, BeginType
      <3>3. CASE Begin(u, "restore", 0)
        BY <3>3, BeginType
      <3>4. QED
        BY <1>s, <3>1, <3>2, <3>3
    <2>2. /\ work' \in Trees /\ repo' \in Repositories /\ cursor' \in 0 .. Gone /\ checkpoint' \in Hashes
          /\ cursor' = 0 => checkpoint' = NoTree
      BY <1>s DEF FilesTypeOK, Shape
    <2>3. turns' = turns
      BY <1>s
    <2>4. QED
      BY <1>s, <2>1, <2>2, <2>3, CommandType
  <1>1. budget' \in [Things -> Nat]
    BY BudgetType DEF Undo, Revert, Redo
  <1>b. PICK s \in SUBSET Files : s = hist.spoilt \union Unsaved
    BY HistFields, Zenon
  <1>2. CASE Undo(u)
    <2>1. PICK a \in BOOLEAN : a = (hist.astray \/ Busy)
      OBVIOUS
    <2>2. hist' = [hist EXCEPT !.spoilt = s, !.astray = a]
      BY <1>2, <1>b, <2>1 DEF Undo
    <2>3. hist' \in Hist
      BY <2>2, HistTypes
    <2>4. PICK target : /\ target = CASE cursor = 0 -> Len(turns) [] cursor = Gone -> 0 [] OTHER -> cursor - 1
                        /\ target = 0 \/ Begin(u, "checkpoint", target)
                        /\ target = 0 => UNCHANGED cmd
      BY <1>2 DEF Undo
    <2>5. target \in Nat /\ target <= Gone
      BY <1>0, <2>4
    <2>6. QED
      BY <1>s, <1>1, <1>2, <2>3, <2>4, <2>5 DEF Undo
  <1>3. CASE Revert(u)
    <2>1. PICK target \in DOMAIN turns :
            /\ Begin(u, "checkpoint", target)
            /\ \E b, a \in BOOLEAN : hist' = [hist EXCEPT !.spoilt = @ \union Unsaved, !.redone = b, !.astray = a]
      <3>1. PICK target \in DOMAIN turns :
              /\ Begin(u, "checkpoint", target)
              /\ hist' = [hist EXCEPT !.spoilt = @ \union Unsaved, !.redone = @ \/ cursor \in 1 .. target,
                            !.astray = @ \/ Busy \/ (cursor \in 1 .. target /\ checkpoint = NoTree)]
        BY <1>3 DEF Revert
      <3>2. PICK b, a \in BOOLEAN : /\ b = (hist.redone \/ cursor \in 1 .. target)
                                    /\ a = (hist.astray \/ Busy \/ (cursor \in 1 .. target /\ checkpoint = NoTree))
        BY HistFields
      <3>3. hist' = [hist EXCEPT !.spoilt = @ \union Unsaved, !.redone = b, !.astray = a]
        BY <3>1, <3>2
      <3>4. QED
        BY <3>1, <3>3
    <2>2. PICK b, a \in BOOLEAN : hist' = [hist EXCEPT !.spoilt = s, !.redone = b, !.astray = a]
      BY <1>b, <2>1
    <2>3. [hist EXCEPT !.spoilt = s, !.redone = b, !.astray = a] \in Hist
      BY HistTypes, Zenon
    <2>4. target \in Nat \ {0} /\ target <= Gone
      BY <1>0
    <2>5. QED
      BY <1>s, <1>1, <1>3, <2>1, <2>2, <2>3, <2>4 DEF Revert
  <1>4. CASE Redo(u)
    <2>1. PICK a \in BOOLEAN : a = (hist.astray \/ Busy \/ checkpoint = NoTree)
      OBVIOUS
    <2>2. hist' = [hist EXCEPT !.redone = TRUE, !.spoilt = s, !.astray = a]
      BY <1>4, <1>b, <2>1 DEF Redo
    <2>3. hist' \in Hist
      <3>1. [hist EXCEPT !.redone = TRUE, !.spoilt = s, !.astray = a] \in Hist
        BY HistTypes, Zenon
      <3>2. QED
        BY <2>2, <3>1
    <2>4. \/ cursor + 1 \in Nat \ {0} /\ cursor + 1 <= Gone /\ Begin(u, "checkpoint", cursor + 1)
          \/ Begin(u, "restore", 0)
      BY <1>0, <1>4 DEF Redo
    <2>5. QED
      BY <1>s, <1>1, <1>4, <2>3, <2>4 DEF Redo
  <1>5. QED
    BY <1>2, <1>3, <1>4

\* A command that gives up leaves no trace but in the files.
LEMMA GivesUpType ==
  ASSUME FilesTypeOK, Shape, NEW u \in Users, GivesUp(u), work' \in Trees, repo' \in Repositories,
         budget' \in [Things -> Nat], UNCHANGED <<loop, ghost>>
  PROVE  FilesTypeOK' /\ Shape'
  <1>1. hist' \in Hist
    BY HistTypes DEF GivesUp
  <1>2. turns' = turns /\ cursor' \in 0 .. Gone /\ checkpoint' \in Hashes /\ (cursor' = 0 => checkpoint' = NoTree)
    BY DEF GivesUp, session, FilesTypeOK, Shape
  <1>3. QED
    BY <1>1, <1>2, SlotType, CommandType DEF GivesUp

LEMMA CheckpointType ==
  ASSUME FilesTypeOK, Shape, NEW u \in Users, TakeCheckpoint(u)
  PROVE  FilesTypeOK' /\ Shape'
  <1>1. /\ work \in Trees /\ repo \in Repositories /\ hist \in Hist /\ checkpoint \in Hashes
        /\ cursor \in 0 .. Gone /\ (cursor = 0 => checkpoint = NoTree)
    BY DEF FilesTypeOK, Shape
  <1>2. cmd[u].at = "checkpoint" /\ UNCHANGED <<loop, ghost>>
    BY DEF TakeCheckpoint
  <1>3. ASSUME NEW tree \in Hashes, Keep(u, tree), work' \in Trees, repo' \in Repositories, hist' \in Hist,
               budget' \in [Things -> Nat], UNCHANGED session
        PROVE  FilesTypeOK' /\ Shape'
    <2>1. PICK x : x = Going(cmd[u], "revert", tree)
      OBVIOUS
    <2>2. x \in Commands /\ Tidy(x) /\ cmd' = [cmd EXCEPT ![u] = x]
      <3>1. x \in Commands /\ Tidy(x)
        BY <1>2, <2>1, StepType
      <3>2. QED
        BY <1>3, <2>1, <3>1 DEF Keep, Going
    <2>3. turns' = turns /\ cursor' \in 0 .. Gone /\ checkpoint' \in Hashes /\ (cursor' = 0 => checkpoint' = NoTree)
      BY <1>1, <1>3 DEF session
    <2>4. QED
      BY <1>2, <1>3, <2>2, <2>3, CommandType
  <1>4. CASE Restore(checkpoint) /\ Keep(u, checkpoint) /\ UNCHANGED <<session, budget, hist>>
    <2>1. work' \in Trees /\ repo' \in Repositories
      BY <1>1, <1>4, RestoreType
    <2>2. QED
      BY <1>1, <1>3, <1>4, <2>1, BudgetType
  <1>5. CASE RestoreFails(u, checkpoint)
    <2>1. work' \in Trees /\ repo' \in Repositories
      BY <1>1, <1>5, RestoreFailsType
    <2>2. budget' \in [Things -> Nat] /\ GivesUp(u)
      BY <1>5, BudgetType DEF RestoreFails
    <2>3. QED
      BY <1>2, <2>1, <2>2, GivesUpType
  <1>6. ASSUME NEW missed \in SUBSET Files, Counted(missed, "nothing"), Snapshot(missed), Keep(u, repo'.index),
               hist' = [hist EXCEPT !.kept = work, !.spoilt = Unseen(missed)], UNCHANGED <<work, session>>
        PROVE  FilesTypeOK' /\ Shape'
    <2>1. budget' \in [Things -> Nat] /\ repo' \in Repositories /\ repo'.index \in Hashes
      BY <1>6, BudgetType, SnapshotType
    <2>2. PICK s \in SUBSET Files : s = Unseen(missed)
      BY HistFields
    <2>3. hist' \in Hist
      BY <1>1, <1>6, <2>2, HistTypes
    <2>4. QED
      BY <1>1, <1>3, <1>6, <2>1, <2>3
  <1>7. CASE /\ SnapshotFails /\ Keep(u, NoTree) /\ UNCHANGED <<work, session>>
             /\ hist' = [hist EXCEPT !.kept = work, !.spoilt = Unseen({})]
    <2>1. budget' \in [Things -> Nat] /\ repo' \in Repositories /\ NoTree \in Hashes
      BY <1>7, BudgetType, SnapshotFailsType DEF Hashes
    <2>2. PICK s \in SUBSET Files : s = Unseen({})
      BY HistFields
    <2>3. hist' \in Hist
      BY <1>1, <1>7, <2>2, HistTypes
    <2>4. QED
      BY <1>1, <1>3, <1>7, <2>1, <2>3
  <1>8. QED
    BY <1>4, <1>5, <1>6, <1>7 DEF TakeCheckpoint

LEMMA RevertType ==
  ASSUME FilesTypeOK, Shape, NEW u \in Users, RevertFiles(u)
  PROVE  FilesTypeOK' /\ Shape'
  <1>1. PICK ps : ps = Usable(repo, cmd[u].patches)
    OBVIOUS
  <1>2. cmd[u] \in Commands /\ cmd[u].check \in Hashes /\ cmd[u].patches \in Seq(Patches)
    BY DEF FilesTypeOK, Commands
  <1>3. ps \in Seq(Patches)
    BY <1>1, <1>2, UsablePatches
  <1>4. cmd[u].at = "revert" /\ UNCHANGED <<loop, ghost>>
    BY DEF RevertFiles
  <1>5. ASSUME NEW missed \in SUBSET HadBy(ps), Counted(missed, "nothing"), RollBack(ps, missed),
               cmd' = [cmd EXCEPT ![u].at = "save"], hist' = [hist EXCEPT !.spoilt = @ \union missed],
               UNCHANGED session
        PROVE  FilesTypeOK' /\ Shape'
    <2>1. work' \in Trees /\ repo' \in Repositories /\ budget' \in [Things -> Nat]
      BY <1>3, <1>5, RollBackType, BudgetType
    <2>2. PICK x : x = Going(cmd[u], "save", cmd[u].check)
      OBVIOUS
    <2>3. x \in Commands /\ Tidy(x) /\ cmd' = [cmd EXCEPT ![u] = x]
      <3>1. x \in Commands /\ Tidy(x)
        BY <1>2, <1>4, <2>2, StepType
      <3>2. [cmd[u] EXCEPT !.at = "save"] = x
        BY <1>2, <2>2, GoingOn
      <3>3. QED
        BY <1>5, <3>1, <3>2
    <2>4. hist' \in Hist
      <3>1. HadBy(ps) \subseteq Files
        <4>1. \A i \in DOMAIN ps : ps[i] \in Patches
          BY <1>3
        <4>2. \A i \in DOMAIN ps : ps[i].files \subseteq Files
          BY <4>1 DEF Patches
        <4>3. QED
          BY <4>2 DEF HadBy, Named
      <3>2. PICK s \in SUBSET Files : s = hist.spoilt \union missed
        BY <3>1, HistFields
      <3>3. QED
        BY <1>5, <3>2, HistTypes
    <2>5. turns' = turns /\ cursor' \in 0 .. Gone /\ checkpoint' \in Hashes /\ (cursor' = 0 => checkpoint' = NoTree)
      BY <1>5 DEF session, FilesTypeOK, Shape
    <2>6. QED
      BY <1>4, <2>1, <2>3, <2>4, <2>5, CommandType
  <1>6. ASSUME NEW missed, Use("mishaps"), RollBack(ps, missed), GivesUp(u)
        PROVE  FilesTypeOK' /\ Shape'
    <2>1. work' \in Trees /\ repo' \in Repositories /\ budget' \in [Things -> Nat]
      BY <1>3, <1>6, RollBackType, BudgetType
    <2>2. QED
      BY <1>4, <1>6, <2>1, GivesUpType
  <1>7. QED
    BY <1>1, <1>5, <1>6 DEF RevertFiles

LEMMA EndsType ==
  ASSUME FilesTypeOK, Shape, NEW u \in Users, SaveCursor(u) \/ Unrevert(u)
  PROVE  FilesTypeOK' /\ Shape'
  <1>1. cmd[u] \in Commands /\ Tidy(cmd[u])
    BY DEF FilesTypeOK, Shape
  <1>2. cmd[u].target \in 0 .. Gone /\ cmd[u].check \in Hashes
    BY <1>1 DEF Commands
  <1>3. work \in Trees /\ repo \in Repositories /\ hist \in Hist /\ 0 \in 0 .. Gone /\ NoTree \in Hashes
    BY BoundsAreNaturals DEF FilesTypeOK, Gone, Hashes
  <1>4. CASE SaveCursor(u)
    <2>1. CASE Use("mishaps") /\ GivesUp(u)
      BY <1>3, <1>4, <2>1, GivesUpType, BudgetType DEF SaveCursor, disk
    <2>2. CASE /\ cmd' = [cmd EXCEPT ![u] = NoCmd] /\ cursor' = cmd[u].target /\ checkpoint' = cmd[u].check
               /\ UNCHANGED <<turns, budget, hist>>
      <3>1. cmd[u].target # 0
        BY <1>1, <1>4 DEF SaveCursor, Tidy
      <3>2. budget' \in [Things -> Nat] /\ work' \in Trees /\ repo' \in Repositories /\ hist' \in Hist
            /\ turns' = turns /\ UNCHANGED <<loop, ghost>>
        BY <1>3, <1>4, <2>2, BudgetType DEF SaveCursor, disk
      <3>3. cursor' \in 0 .. Gone /\ checkpoint' \in Hashes /\ cursor' # 0
        BY <1>2, <2>2, <3>1
      <3>4. QED
        BY <2>2, <3>2, <3>3, SlotType, CommandType
    <2>3. QED
      BY <1>4, <2>1, <2>2 DEF SaveCursor
  <1>5. CASE Unrevert(u)
    <2>0. UNCHANGED <<loop, ghost>>
      BY <1>5 DEF Unrevert
    <2>1. CASE RestoreFails(u, cmd[u].check)
      <3>1. work' \in Trees /\ repo' \in Repositories
        BY <1>2, <2>1, RestoreFailsType
      <3>2. budget' \in [Things -> Nat] /\ GivesUp(u)
        BY <2>1, BudgetType DEF RestoreFails
      <3>3. QED
        BY <2>0, <3>1, <3>2, GivesUpType
    <2>2. CASE /\ cmd' = [cmd EXCEPT ![u] = NoCmd] /\ Restore(cmd[u].check)
               /\ cursor' = 0 /\ checkpoint' = NoTree /\ UNCHANGED <<turns, budget>>
               /\ hist' = [hist EXCEPT !.redone = FALSE, !.left = @ \union Extra(hist.kept, work')]
      <3>1. work' \in Trees /\ repo' \in Repositories /\ budget' \in [Things -> Nat]
        BY <1>2, <2>2, RestoreType, BudgetType
      <3>2. PICK l \in SUBSET Files : l = hist.left \union Extra(hist.kept, work')
        BY HistFields
      <3>3. hist' \in Hist
        BY <2>2, <3>2, HistTypes
      <3>4. QED
        BY <1>3, <2>0, <2>2, <3>1, <3>3, SlotType, CommandType
    <2>3. QED
      BY <1>5, <2>1, <2>2 DEF Unrevert
  <1>6. QED
    BY <1>4, <1>5

LEMMA TypeStep ==
  ASSUME FilesTypeOK, Shape, [FilesNext]_filesVars
  PROVE  FilesTypeOK' /\ Shape'
  <1>1. CASE UNCHANGED filesVars
    BY <1>1 DEF filesVars, FilesTypeOK, Shape
  <1>2. ASSUME NEW u \in Users, Command(u) PROVE FilesTypeOK' /\ Shape'
    BY <1>2, BeginsType, CheckpointType, RevertType, EndsType DEF Command
  <1>3. QED
    BY <1>1, <1>2, TurnsType, RoundsType DEF FilesNext

-----------------------------------------------------------------------------
(* What is excluded, and what a file is not yet spoilt by. *)

\* The history only grows.
LEMMA HistGrows ==
  ASSUME FilesTypeOK, [FilesNext]_filesVars
  PROVE  /\ hist.spoilt \subseteq hist'.spoilt /\ hist.foreign \subseteq hist'.foreign
         /\ hist.left \subseteq hist'.left /\ hist.touched \subseteq hist'.touched
         /\ (hist.astray => hist'.astray)
  <1>0. DOMAIN hist = {"kept", "round", "touched", "foreign", "spoilt", "left", "redone", "astray"}
    BY DEF FilesTypeOK, Hist
  <1>1. CASE Prompt
    BY <1>0, <1>1 DEF Prompt
  <1>2. CASE OpenRound
    BY <1>0, <1>2 DEF OpenRound, Unseen
  <1>3. CASE UNCHANGED hist
    BY <1>3
  <1>4. CASE ToolWrites
    BY <1>4 DEF ToolWrites, FilesTypeOK, Hist
  <1>5. CASE SomebodyWrites
    BY <1>0, <1>5 DEF SomebodyWrites
  <1>6. \A other : NoPatch(other) =>
          /\ hist.spoilt \subseteq hist'.spoilt /\ hist'.foreign = hist.foreign /\ hist'.left = hist.left
          /\ hist'.touched = hist.touched /\ hist'.astray = hist.astray
    BY <1>0 DEF NoPatch, Unseen
  <1>7. CASE CloseRound
    BY <1>0, <1>6, <1>7 DEF CloseRound, Unseen
  <1>8. CASE EndTurn
    BY <1>6, <1>8 DEF EndTurn
  <1>9. CASE GhostCloses
    BY <1>0, <1>6, <1>9 DEF GhostCloses, Unseen
  <1>10. CASE CollectGarbage
    BY <1>0, <1>10 DEF CollectGarbage
  <1>11. ASSUME NEW u \in Users, GivesUp(u)
         PROVE  /\ hist.spoilt \subseteq hist'.spoilt /\ hist.foreign \subseteq hist'.foreign
                /\ hist.left \subseteq hist'.left /\ hist.touched \subseteq hist'.touched /\ hist'.astray
    BY <1>0, <1>11 DEF GivesUp
  <1>12. ASSUME NEW u \in Users, Undo(u)
         PROVE  /\ hist.spoilt \subseteq hist'.spoilt /\ hist.foreign \subseteq hist'.foreign
                /\ hist.left \subseteq hist'.left /\ hist.touched \subseteq hist'.touched
                /\ (hist.astray => hist'.astray)
    BY <1>0, <1>12 DEF Undo
  <1>13. ASSUME NEW u \in Users, Revert(u)
         PROVE  /\ hist.spoilt \subseteq hist'.spoilt /\ hist.foreign \subseteq hist'.foreign
                /\ hist.left \subseteq hist'.left /\ hist.touched \subseteq hist'.touched
                /\ (hist.astray => hist'.astray)
    BY <1>13 DEF Revert, FilesTypeOK, Hist
  <1>14. ASSUME NEW u \in Users, Redo(u)
         PROVE  /\ hist.spoilt \subseteq hist'.spoilt /\ hist.foreign \subseteq hist'.foreign
                /\ hist.left \subseteq hist'.left /\ hist.touched \subseteq hist'.touched
                /\ (hist.astray => hist'.astray)
    BY <1>0, <1>14 DEF Redo
  <1>15. ASSUME NEW u \in Users, TakeCheckpoint(u) \/ RevertFiles(u) \/ SaveCursor(u) \/ Unrevert(u), ~GivesUp(u)
         PROVE  /\ hist.spoilt \subseteq hist'.spoilt /\ hist.foreign \subseteq hist'.foreign
                /\ hist.left \subseteq hist'.left /\ hist.touched \subseteq hist'.touched
                /\ (hist.astray => hist'.astray)
    BY <1>0, <1>15 DEF TakeCheckpoint, RevertFiles, SaveCursor, Unrevert, RestoreFails, Unseen
  <1>16. QED
    BY <1>1, <1>2, <1>3, <1>4, <1>5, <1>7, <1>8, <1>9, <1>10, <1>11, <1>12, <1>13, <1>14, <1>15
    DEF FilesNext, filesVars, ReadOnlyRound, Command

LEMMA SoundBefore ==
  ASSUME FilesTypeOK, [FilesNext]_filesVars, NEW f, Sound(f)'
  PROVE  Sound(f) /\ ~hist.astray /\ ~hist'.astray
  BY HistGrows DEF Sound

\* A snapshot that counts what it missed, and finds too large, as spoilt.
LEMMA SnapshotExact ==
  ASSUME ExcludeOK, NEW missed, Snapshot(missed), hist.spoilt \subseteq hist'.spoilt,
         {f \in Files : work[f] \in Large} \subseteq hist'.spoilt
  PROVE  ExcludeOK' /\ \A f \in Files \ hist'.spoilt : f \notin missed => repo'.index[f] = work[f]
  <1>1. Track(repo, work, missed).exclude \subseteq {f \in Files : work[f] \in Large}
    BY TrackExcludes
  <1>2. ASSUME NEW f \in Files \ hist'.spoilt, f \notin missed PROVE repo'.index[f] = work[f]
    <2>1. f \notin repo.exclude /\ work[f] \notin Large
      BY <1>2 DEF ExcludeOK
    <2>2. QED
      BY <1>2, <2>1, TrackExact DEF Snapshot
  <1>3. QED
    BY <1>1, <1>2 DEF Snapshot, ExcludeOK

\* In the actions: all that is unseen is spoilt.
LEMMA SnapshotSeen ==
  ASSUME FilesTypeOK, ExcludeOK, NEW missed, Snapshot(missed), hist'.spoilt = Unseen(missed)
  PROVE  ExcludeOK' /\ \A f \in Files \ hist'.spoilt : repo'.index[f] = work[f]
  <1>1. hist.spoilt \subseteq hist'.spoilt /\ {f \in Files : work[f] \in Large} \subseteq hist'.spoilt
        /\ missed \subseteq hist'.spoilt
    BY DEF Unseen
  <1>2. QED
    BY <1>1, SnapshotExact

LEMMA SnapshotLost ==
  ASSUME FilesTypeOK, ExcludeOK, NEW m, hist'.spoilt = Unseen(m),
         SnapshotFails \/ UNCHANGED repo \/ Snapshot({})
  PROVE  ExcludeOK'
  <1>1. hist.spoilt \subseteq hist'.spoilt /\ {f \in Files : work[f] \in Large} \subseteq hist'.spoilt
    BY DEF Unseen
  <1>2. \A missed : Snapshot(missed) => ExcludeOK'
    BY <1>1, SnapshotExact
  <1>3. CASE repo' = [repo EXCEPT !.index = But(Ignored(repo, work), Nothing, @)] \/ repo' = repo
    <2>1. repo'.exclude = repo.exclude
      BY <1>3 DEF FilesTypeOK, Repositories
    <2>2. QED
      BY <1>1, <2>1 DEF ExcludeOK
  <1>4. QED
    BY <1>2, <1>3 DEF SnapshotFails

LEMMA ExcludeStep ==
  ASSUME FilesTypeOK, ExcludeOK, [FilesNext]_filesVars
  PROVE  ExcludeOK'
  <1>h. DOMAIN hist = {"kept", "round", "touched", "foreign", "spoilt", "left", "redone", "astray"}
    BY DEF FilesTypeOK, Hist
  <1>1. CASE repo'.exclude = repo.exclude
    BY <1>1, HistGrows DEF ExcludeOK
  <1>2. CASE UNCHANGED repo
    BY <1>1, <1>2
  <1>3. \A tree : Restore(tree) => repo'.exclude = repo.exclude
    BY DEF Restore, disk, FilesTypeOK, Repositories
  <1>4. \A u, tree : RestoreFails(u, tree) => repo'.exclude = repo.exclude
    BY DEF RestoreFails, disk, FilesTypeOK, Repositories
  <1>5. \A ps, missed : RollBack(ps, missed) => repo'.exclude = repo.exclude
    BY DEF RollBack, FilesTypeOK, Repositories
  <1>6. \A other : NoPatch(other) => hist'.spoilt = Unseen(hist.round)
    BY <1>h DEF NoPatch
  <1>7. CASE OpenRound
    <2>1. PICK missed : /\ \/ Snapshot(missed) /\ hist' = [hist EXCEPT !.round = StillOpen(ghost), !.spoilt = Unseen(missed)]
                           \/ /\ SnapshotFails
                              /\ hist' = [hist EXCEPT !.round = StillOpen(ghost), !.spoilt = Unseen(SincePre)]
      BY <1>7 DEF OpenRound
    <2>2. (Snapshot(missed) /\ hist'.spoilt = Unseen(missed)) \/ (SnapshotFails /\ hist'.spoilt = Unseen(SincePre))
      BY <1>h, <2>1
    <2>3. QED
      BY <2>2, SnapshotSeen, SnapshotLost
  <1>8. CASE CloseRound
    <2>1. \/ \E missed : /\ Snapshot(missed)
                         /\ hist' = [hist EXCEPT !.spoilt = Unseen(missed), !.round = StillOpen(ghost)]
          \/ (SnapshotFails \/ UNCHANGED repo) /\ NoPatch(ghost)
      BY <1>8 DEF CloseRound
    <2>2. \/ \E missed : Snapshot(missed) /\ hist'.spoilt = Unseen(missed)
          \/ (SnapshotFails \/ UNCHANGED repo) /\ hist'.spoilt = Unseen(hist.round)
      BY <1>h, <1>6, <2>1
    <2>3. QED
      BY <2>2, SnapshotSeen, SnapshotLost
  <1>9. CASE EndTurn
    BY <1>2, <1>6, <1>9, SnapshotLost DEF EndTurn
  <1>10. CASE GhostCloses
    <2>1. \/ \E missed : /\ Snapshot(missed)
                         /\ hist' = [hist EXCEPT !.spoilt = Unseen(missed), !.astray = TRUE, !.round = StillOpen(loop)]
          \/ (UNCHANGED repo \/ Snapshot({})) /\ NoPatch(loop)
      BY <1>10 DEF GhostCloses
    <2>2. \/ \E missed : Snapshot(missed) /\ hist'.spoilt = Unseen(missed)
          \/ (UNCHANGED repo \/ Snapshot({})) /\ hist'.spoilt = Unseen(hist.round)
      BY <1>h, <1>6, <2>1
    <2>3. QED
      BY <2>2, SnapshotSeen, SnapshotLost
  <1>11. CASE CollectGarbage
    BY <1>1, <1>11 DEF CollectGarbage, FilesTypeOK, Repositories
  <1>12. ASSUME NEW u \in Users, TakeCheckpoint(u) PROVE ExcludeOK'
    <2>1. \/ Restore(checkpoint) \/ RestoreFails(u, checkpoint)
          \/ \E missed : Snapshot(missed) /\ hist' = [hist EXCEPT !.kept = work, !.spoilt = Unseen(missed)]
          \/ SnapshotFails /\ hist' = [hist EXCEPT !.kept = work, !.spoilt = Unseen({})]
      BY <1>12 DEF TakeCheckpoint
    <2>2. \/ Restore(checkpoint) \/ RestoreFails(u, checkpoint)
          \/ \E missed : Snapshot(missed) /\ hist'.spoilt = Unseen(missed)
          \/ SnapshotFails /\ hist'.spoilt = Unseen({})
      BY <1>h, <2>1
    <2>3. QED
      BY <1>1, <1>3, <1>4, <2>2, SnapshotSeen, SnapshotLost
  <1>13. ASSUME NEW u \in Users, RevertFiles(u) PROVE ExcludeOK'
    BY <1>1, <1>5, <1>13 DEF RevertFiles
  <1>14. ASSUME NEW u \in Users, Unrevert(u) PROVE ExcludeOK'
    BY <1>1, <1>3, <1>4, <1>14 DEF Unrevert
  <1>15. QED
    BY <1>2, <1>7, <1>8, <1>9, <1>10, <1>11, <1>12, <1>13, <1>14
    DEF FilesNext, filesVars, disk, Prompt, ReadOnlyRound, ToolWrites, SomebodyWrites, Command, Undo,
        Revert, Redo, SaveCursor

-----------------------------------------------------------------------------
(* One command at a time. *)

\* While a loop runs, nothing is undone and no command is in progress.
LEMMA LoopShape ==
  ASSUME Shape, Straight, ~hist.astray, loop.at # "none"
  PROVE  cursor = 0 /\ Now.at = "none" /\ checkpoint = NoTree /\ ~Undone /\ turns # <<>>
  BY DEF Shape, Straight, Undone

\* In a command's step, it is the one in progress.
LEMMA CommandIs ==
  ASSUME FilesTypeOK, Shape, Straight, ~hist.astray, NEW u \in Users, cmd[u].at # "none"
  PROVE  /\ Now = cmd[u] /\ Alone(cmd) /\ Now \in Commands /\ Tidy(Now) /\ loop.at = "none" /\ repo.pruned = {}
  <1>1. Alone(cmd) /\ repo.pruned = {} /\ cmd[u] \in Commands /\ Tidy(cmd[u])
    BY DEF Straight, FilesTypeOK, Shape
  <1>2. Now = cmd[u]
    BY <1>1, ActiveIs DEF Now
  <1>3. QED
    BY <1>1, <1>2 DEF Straight

\* What its step makes of it.
LEMMA CommandGoes ==
  ASSUME FilesTypeOK, Shape, Straight, ~hist.astray, NEW u \in Users, cmd[u].at # "none",
         NEW x \in Commands, Tidy(x), cmd' = [cmd EXCEPT ![u] = x]
  PROVE  Alone(cmd') /\ Now' = x
  BY CommandIs, CommandSet

\* Only the first undo, a later one and redo begin, and none while another is in progress.
LEMMA NowBegins ==
  ASSUME FilesTypeOK, Shape, Straight, NEW u \in Users, Undo(u) \/ Revert(u) \/ Redo(u), ~hist'.astray, ~hist.astray
  PROVE  /\ ~Busy /\ Now = NoCmd /\ Now.at = "none"
         /\ UNCHANGED <<work, repo, turns, cursor, checkpoint>> /\ hist'.kept = hist.kept
         /\ Unsaved \subseteq hist'.spoilt /\ (hist.redone => hist'.redone)
         /\ loop'.at = "none" /\ Alone(cmd')
         /\ \/ UNCHANGED cmd /\ Now' = NoCmd
            \/ /\ Now'.at = "checkpoint" /\ Now'.target \in 1 .. Len(turns)
               /\ Now'.patches = PatchesFrom(turns, Now'.target) /\ Now'.check = NoTree
               /\ cursor # 0 => Now'.target < cursor \/ (checkpoint # NoTree /\ hist'.redone)
            \/ Now'.at = "restore" /\ Now'.check = checkpoint /\ cursor # 0 /\ checkpoint # NoTree /\ hist'.redone
  <1>h. DOMAIN hist = {"kept", "round", "touched", "foreign", "spoilt", "left", "redone", "astray"}
    BY DEF FilesTypeOK, Hist
  <1>0. /\ Len(turns) \in Nat /\ cursor \in Nat /\ cursor <= Len(turns) /\ DOMAIN turns = 1 .. Len(turns)
        /\ Len(turns) < Gone
    BY BoundsAreNaturals DEF FilesTypeOK, Shape, Straight, Gone
  <1>1. ~Busy
    BY <1>h DEF Undo, Revert, Redo
  <1>2. Now = NoCmd /\ Now.at = "none" /\ Alone(cmd)
    BY <1>1, NowIdle
  <1>3. UNCHANGED <<work, repo, turns, cursor, checkpoint>>
    BY DEF Undo, Revert, Redo, disk, session
  <1>4. hist'.kept = hist.kept /\ Unsaved \subseteq hist'.spoilt /\ (hist.redone => hist'.redone)
    <2>1. CASE Undo(u)
      BY <1>h, <2>1 DEF Undo
    <2>2. CASE Revert(u)
      <3>1. PICK b, a : hist' = [hist EXCEPT !.spoilt = @ \union Unsaved, !.redone = b, !.astray = a]
                        /\ (hist.redone => b)
        BY <2>2, HistFields DEF Revert
      <3>2. hist'.kept = hist.kept /\ hist'.spoilt = hist.spoilt \union Unsaved /\ hist'.redone = b
        BY <1>h, <3>1
      <3>3. QED
        BY <3>1, <3>2
    <2>3. CASE Redo(u)
      BY <1>h, <2>3 DEF Redo
    <2>4. QED
      BY <2>1, <2>2, <2>3
  <1>5. loop'.at = "none"
    <2>1. CASE Undo(u) \/ Revert(u)
      <3>1. CancelLoop
        BY <2>1 DEF Undo, Revert
      <3>2. QED
        BY <3>1 DEF CancelLoop, NoLoop
    <2>2. CASE Redo(u)
      <3>1. cursor # 0 /\ loop' = loop
        BY <2>2 DEF Redo
      <3>2. QED
        BY <3>1 DEF Straight
    <2>3. QED
      BY <2>1, <2>2
  <1>6. ASSUME NEW target \in Nat \ {0}, target <= Len(turns), Begin(u, "checkpoint", target)
        PROVE  /\ Alone(cmd') /\ Now'.at = "checkpoint" /\ Now'.target = target
               /\ Now'.patches = PatchesFrom(turns, target) /\ Now'.check = NoTree
    <2>1. target <= Gone
      <3>1. Gone \in Nat
        BY BoundsAreNaturals DEF Gone
      <3>2. QED
        BY <1>0, <1>6, <3>1
    <2>2. PICK x \in Commands :
            /\ Tidy(x) /\ cmd' = [cmd EXCEPT ![u] = x]
            /\ x.at = "checkpoint" /\ x.target = target /\ x.check = NoTree /\ x.patches = PatchesFrom(turns, target)
      BY <1>6, <2>1, BeginType
    <2>3. Alone(cmd') /\ Now' = x
      BY <1>1, <2>2, CommandSet
    <2>4. QED
      BY <2>2, <2>3
  <1>7. CASE Undo(u)
    <2>1. PICK target : /\ target = CASE cursor = 0 -> Len(turns) [] cursor = Gone -> 0 [] OTHER -> cursor - 1
                        /\ target = 0 \/ Begin(u, "checkpoint", target)
                        /\ target = 0 => UNCHANGED cmd
      BY <1>7 DEF Undo
    <2>2. CASE target = 0
      BY <1>1, <1>2, <1>3, <1>4, <1>5, <2>1, <2>2 DEF Now
    <2>3. CASE target # 0
      <3>1. target \in Nat \ {0} /\ target <= Len(turns) /\ (cursor # 0 => target < cursor)
        BY <1>0, <2>1, <2>3
      <3>2. Begin(u, "checkpoint", target)
        BY <2>1, <2>3
      <3>3. target \in 1 .. Len(turns)
        BY <1>0, <3>1
      <3>4. QED
        BY <1>1, <1>2, <1>3, <1>4, <1>5, <1>6, <3>1, <3>2, <3>3
    <2>4. QED
      BY <2>2, <2>3
  <1>8. CASE Revert(u)
    <2>1. PICK target \in DOMAIN turns :
            /\ Begin(u, "checkpoint", target)
            /\ hist' = [hist EXCEPT !.spoilt = @ \union Unsaved, !.redone = @ \/ cursor \in 1 .. target,
                          !.astray = @ \/ Busy \/ (cursor \in 1 .. target /\ checkpoint = NoTree)]
      BY <1>8 DEF Revert
    <2>2. cursor \in 1 .. target => hist'.redone /\ checkpoint # NoTree
      BY <1>h, <2>1
    <2>3. target \in 1 .. Len(turns) /\ target \in Nat \ {0} /\ target <= Len(turns)
      BY <1>0
    <2>4. cursor # 0 => target < cursor \/ cursor \in 1 .. target
      BY <1>0, <2>3
    <2>5. QED
      BY <1>1, <1>2, <1>3, <1>4, <1>5, <1>6, <2>1, <2>2, <2>3, <2>4
  <1>9. CASE Redo(u)
    <2>1. hist'.redone /\ checkpoint # NoTree /\ cursor # 0
      BY <1>9, <1>h DEF Redo
    <2>2. CASE cursor < Len(turns)
      <3>1. /\ cursor + 1 \in Nat \ {0} /\ cursor + 1 <= Len(turns) /\ cursor + 1 \in 1 .. Len(turns)
            /\ Begin(u, "checkpoint", cursor + 1)
        BY <1>0, <1>9, <2>2 DEF Redo
      <3>2. QED
        BY <1>1, <1>2, <1>3, <1>4, <1>5, <1>6, <2>1, <3>1
    <2>3. CASE ~(cursor < Len(turns))
      <3>1. Begin(u, "restore", 0)
        BY <1>9, <2>3 DEF Redo
      <3>2. PICK x \in Commands : /\ Tidy(x) /\ cmd' = [cmd EXCEPT ![u] = x]
                                  /\ x.at = "restore" /\ x.check = checkpoint
        BY <3>1, BeginType
      <3>3. Alone(cmd') /\ Now' = x
        BY <1>1, <3>2, CommandSet
      <3>4. QED
        BY <1>1, <1>2, <1>3, <1>4, <1>5, <2>1, <3>2, <3>3
    <2>4. QED
      BY <2>2, <2>3
  <1>10. QED
    BY <1>7, <1>8, <1>9

\* What the next step of an undo finds and leaves.
LEMMA NowKeeps ==
  ASSUME FilesTypeOK, Shape, Straight, NEW u \in Users, TakeCheckpoint(u), ~hist'.astray, ~hist.astray
  PROVE  /\ Now.at = "checkpoint" /\ Now.target \in 1 .. Len(turns) /\ loop.at = "none"
         /\ UNCHANGED <<turns, cursor, checkpoint, loop>> /\ repo'.pruned = {} /\ hist'.redone = hist.redone
         /\ Alone(cmd') /\ Now'.at = "revert" /\ Now'.target = Now.target /\ Now'.patches = Now.patches
         /\ \/ cursor # 0 /\ Restore(checkpoint) /\ Now'.check = checkpoint /\ hist' = hist
            \/ /\ cursor = 0 /\ work' = work /\ hist'.kept = work
               /\ \/ Now'.check = NoTree
                  \/ \E missed : Snapshot(missed) /\ Now'.check = repo'.index /\ hist'.spoilt = Unseen(missed)
  <1>h. DOMAIN hist = {"kept", "round", "touched", "foreign", "spoilt", "left", "redone", "astray"}
    BY DEF FilesTypeOK, Hist
  <1>1. cmd[u].at = "checkpoint" /\ loop' = loop
    BY DEF TakeCheckpoint
  <1>2. Now = cmd[u] /\ loop.at = "none" /\ repo.pruned = {} /\ Now.target \in 1 .. Len(turns)
    BY <1>1, CommandIs DEF Straight
  <1>3. ~GivesUp(u)
    BY <1>h DEF GivesUp
  <1>4. ASSUME NEW tree \in Hashes, Keep(u, tree)
        PROVE  /\ Alone(cmd') /\ Now'.at = "revert" /\ Now'.target = Now.target /\ Now'.patches = Now.patches
               /\ Now'.check = tree
    <2>1. PICK x : x = Going(cmd[u], "revert", tree)
      OBVIOUS
    <2>2. /\ x \in Commands /\ Tidy(x) /\ x.at = "revert" /\ x.target = cmd[u].target /\ x.check = tree
          /\ x.patches = cmd[u].patches
      BY <1>1, <2>1, StepType
    <2>3. cmd' = [cmd EXCEPT ![u] = x]
      BY <1>4, <2>1 DEF Keep, Going
    <2>4. Alone(cmd') /\ Now' = x
      BY <1>1, <2>2, <2>3, CommandGoes
    <2>5. QED
      BY <1>2, <2>2, <2>4
  <1>5. checkpoint \in Hashes /\ NoTree \in Hashes
    BY DEF FilesTypeOK, Hashes
  <1>6. \A missed : Snapshot(missed) => repo'.pruned = {}
    BY <1>2, TrackExcludes DEF Snapshot
  <1>7. ASSUME cursor # 0, Restore(checkpoint), Keep(u, checkpoint), UNCHANGED <<session, budget, hist>>
        PROVE  /\ UNCHANGED <<turns, cursor, checkpoint>> /\ repo'.pruned = {} /\ hist' = hist
               /\ Alone(cmd') /\ Now'.at = "revert" /\ Now'.target = Now.target /\ Now'.patches = Now.patches
               /\ Now'.check = checkpoint
    <2>1. repo'.pruned = {}
      BY <1>2, <1>7 DEF Restore, disk, FilesTypeOK, Repositories
    <2>2. QED
      BY <1>4, <1>5, <1>7, <2>1 DEF session
  <1>8. ASSUME NEW missed, cursor = 0, Snapshot(missed), Keep(u, repo'.index),
               hist' = [hist EXCEPT !.kept = work, !.spoilt = Unseen(missed)], UNCHANGED <<work, session>>
        PROVE  /\ UNCHANGED <<turns, cursor, checkpoint, work>> /\ repo'.pruned = {} /\ hist'.redone = hist.redone
               /\ Alone(cmd') /\ Now'.at = "revert" /\ Now'.target = Now.target /\ Now'.patches = Now.patches
               /\ hist'.kept = work /\ Now'.check = repo'.index /\ hist'.spoilt = Unseen(missed)
    <2>1. repo'.index \in Hashes
      BY <1>8, SnapshotType
    <2>2. hist'.kept = work /\ hist'.spoilt = Unseen(missed) /\ hist'.redone = hist.redone
      BY <1>h, <1>8
    <2>3. QED
      BY <1>4, <1>6, <1>8, <2>1, <2>2 DEF session
  <1>9. ASSUME cursor = 0, SnapshotFails, Keep(u, NoTree), UNCHANGED <<work, session>>,
               hist' = [hist EXCEPT !.kept = work, !.spoilt = Unseen({})]
        PROVE  /\ UNCHANGED <<turns, cursor, checkpoint, work>> /\ repo'.pruned = {} /\ hist'.redone = hist.redone
               /\ Alone(cmd') /\ Now'.at = "revert" /\ Now'.target = Now.target /\ Now'.patches = Now.patches
               /\ hist'.kept = work /\ Now'.check = NoTree
    <2>1. repo'.pruned = {}
      BY <1>2, <1>6, <1>9 DEF SnapshotFails, FilesTypeOK, Repositories
    <2>2. hist'.kept = work /\ hist'.redone = hist.redone
      BY <1>h, <1>9
    <2>3. QED
      BY <1>4, <1>5, <1>9, <2>1, <2>2 DEF session
  <1>10. \/ /\ cursor # 0 /\ Restore(checkpoint) /\ Keep(u, checkpoint) /\ UNCHANGED <<session, budget, hist>>
         \/ \E missed : /\ cursor = 0 /\ Snapshot(missed) /\ Keep(u, repo'.index)
                         /\ hist' = [hist EXCEPT !.kept = work, !.spoilt = Unseen(missed)]
                         /\ UNCHANGED <<work, session>>
         \/ /\ cursor = 0 /\ SnapshotFails /\ Keep(u, NoTree) /\ UNCHANGED <<work, session>>
            /\ hist' = [hist EXCEPT !.kept = work, !.spoilt = Unseen({})]
    BY <1>3 DEF TakeCheckpoint, RestoreFails
  <1>11. Now.at = "checkpoint"
    BY <1>1, <1>2
  <1>12. QED
    BY <1>1, <1>2, <1>7, <1>8, <1>9, <1>10, <1>11

LEMMA NowReverts ==
  ASSUME FilesTypeOK, Shape, Straight, NEW u \in Users, RevertFiles(u), ~hist'.astray, ~hist.astray
  PROVE  /\ Now.at = "revert" /\ Now.target \in 1 .. Len(turns) /\ Now.patches = PatchesFrom(turns, Now.target)
         /\ loop.at = "none" /\ UNCHANGED <<turns, cursor, checkpoint, loop>> /\ repo'.pruned = {}
         /\ Alone(cmd') /\ Now'.at = "save" /\ Now'.target = Now.target /\ Now'.patches = Now.patches
         /\ Now'.check = Now.check
         /\ hist'.kept = hist.kept /\ hist'.redone = hist.redone
         /\ \A f \in Files \ hist'.spoilt : work'[f] = Value(Now.patches, f, work[f])
  <1>h. DOMAIN hist = {"kept", "round", "touched", "foreign", "spoilt", "left", "redone", "astray"}
    BY DEF FilesTypeOK, Hist
  <1>1. cmd[u].at = "revert" /\ loop' = loop
    BY DEF RevertFiles
  <1>2. /\ Now = cmd[u] /\ loop.at = "none" /\ repo.pruned = {} /\ Now.target \in 1 .. Len(turns)
        /\ Now.patches = PatchesFrom(turns, Now.target) /\ cmd[u] \in Commands
    BY <1>1, CommandIs DEF Straight
  <1>3. ~GivesUp(u)
    BY <1>h DEF GivesUp
  <1>4. cmd[u].patches \in Seq(Patches) /\ cmd[u].check \in Hashes
    BY <1>2 DEF Commands
  <1>5. Usable(repo, cmd[u].patches) = cmd[u].patches
    BY <1>2, <1>4, UsablePatches
  <1>6. PICK missed : /\ RollBack(cmd[u].patches, missed) /\ cmd' = [cmd EXCEPT ![u].at = "save"]
                      /\ hist' = [hist EXCEPT !.spoilt = @ \union missed] /\ UNCHANGED session
    BY <1>3, <1>5 DEF RevertFiles
  <1>7. PICK x : x = Going(cmd[u], "save", cmd[u].check)
    OBVIOUS
  <1>8. /\ x \in Commands /\ Tidy(x) /\ x.at = "save" /\ x.target = cmd[u].target /\ x.check = cmd[u].check
        /\ x.patches = cmd[u].patches
    <2>1. cmd[u].at \in {"checkpoint", "revert"} /\ cmd[u].check \in Hashes
      BY <1>1, <1>4
    <2>2. QED
      BY <1>7, <2>1, StepType
  <1>9. [cmd[u] EXCEPT !.at = "save"] = x
    BY <1>2, <1>7, GoingOn
  <1>10. Alone(cmd') /\ Now' = x
    BY <1>1, <1>6, <1>8, <1>9, CommandGoes
  <1>11. hist'.spoilt = hist.spoilt \union missed /\ hist'.kept = hist.kept /\ hist'.redone = hist.redone
    BY <1>h, <1>6
  <1>12. ASSUME NEW f \in Files \ hist'.spoilt PROVE work'[f] = Value(Now.patches, f, work[f])
    <2>1. work'[f] = Reverted(cmd[u].patches, work)[f]
      BY <1>6, <1>11, <1>12 DEF RollBack, But
    <2>2. QED
      BY <1>2, <2>1, RevertedIs
  <1>13. repo'.pruned = {}
    BY <1>2, <1>6 DEF RollBack, FilesTypeOK, Repositories
  <1>14. QED
    BY <1>1, <1>2, <1>6, <1>8, <1>10, <1>11, <1>12, <1>13 DEF session

LEMMA NowSaves ==
  ASSUME FilesTypeOK, Shape, Straight, NEW u \in Users, SaveCursor(u), ~hist'.astray, ~hist.astray
  PROVE  /\ Now.at = "save" /\ Now.target \in 1 .. Len(turns) /\ loop.at = "none"
         /\ UNCHANGED <<turns, loop, work, repo, hist>>
         /\ cursor' = Now.target /\ checkpoint' = Now.check
         /\ Alone(cmd') /\ Now' = NoCmd /\ Now'.at = "none"
  <1>h. DOMAIN hist = {"kept", "round", "touched", "foreign", "spoilt", "left", "redone", "astray"}
    BY DEF FilesTypeOK, Hist
  <1>1. cmd[u].at = "save" /\ ~GivesUp(u)
    BY <1>h DEF SaveCursor, GivesUp
  <1>2. Now = cmd[u] /\ loop.at = "none" /\ Now.target \in 1 .. Len(turns)
    BY <1>1, CommandIs DEF Straight
  <1>3. cmd' = [cmd EXCEPT ![u] = NoCmd] /\ cursor' = cmd[u].target /\ checkpoint' = cmd[u].check
        /\ UNCHANGED <<turns, hist, loop, work, repo>>
    BY <1>1 DEF SaveCursor, disk
  <1>4. Alone(cmd') /\ Now' = NoCmd
    BY <1>1, <1>3, NoCmdType, CommandGoes
  <1>5. QED
    BY <1>1, <1>2, <1>3, <1>4, NoCmdType

LEMMA NowUnreverts ==
  ASSUME FilesTypeOK, Shape, Straight, NEW u \in Users, Unrevert(u), ~hist'.astray, ~hist.astray
  PROVE  /\ Now.at = "restore" /\ loop.at = "none" /\ checkpoint # NoTree /\ Restore(checkpoint)
         /\ cursor' = 0 /\ checkpoint' = NoTree /\ UNCHANGED <<turns, loop>> /\ repo'.pruned = {}
         /\ hist'.left = hist.left \union Extra(hist.kept, work')
         /\ Alone(cmd') /\ Now' = NoCmd /\ Now'.at = "none"
  <1>h. DOMAIN hist = {"kept", "round", "touched", "foreign", "spoilt", "left", "redone", "astray"}
    BY DEF FilesTypeOK, Hist
  <1>1. cmd[u].at = "restore" /\ ~GivesUp(u)
    BY <1>h DEF Unrevert, GivesUp
  <1>2. /\ Now = cmd[u] /\ loop.at = "none" /\ repo.pruned = {}
        /\ checkpoint # NoTree /\ cmd[u].check = checkpoint
    BY <1>1, CommandIs DEF Straight
  <1>3. /\ cmd' = [cmd EXCEPT ![u] = NoCmd] /\ Restore(checkpoint) /\ cursor' = 0 /\ checkpoint' = NoTree
        /\ hist' = [hist EXCEPT !.redone = FALSE, !.left = @ \union Extra(hist.kept, work')]
        /\ UNCHANGED <<turns, loop>>
    BY <1>1, <1>2 DEF Unrevert, RestoreFails
  <1>4. Alone(cmd') /\ Now' = NoCmd
    BY <1>1, <1>3, NoCmdType, CommandGoes
  <1>5. repo'.pruned = {} /\ hist'.left = hist.left \union Extra(hist.kept, work')
    BY <1>h, <1>2, <1>3 DEF Restore, disk, FilesTypeOK, Repositories
  <1>6. QED
    BY <1>1, <1>2, <1>3, <1>4, <1>5, NoCmdType

-----------------------------------------------------------------------------
(* ... and what it has read holds. *)

\* A prompt that crosses no command finds all slots empty.
LEMMA PromptAlone ==
  ASSUME FilesTypeOK, Shape, Prompt, ~hist'.astray
  PROVE  ~Busy /\ cmd' = cmd /\ Now = NoCmd /\ Now.at = "none" /\ Alone(cmd) /\ Now' = NoCmd
  <1>h. DOMAIN hist = {"kept", "round", "touched", "foreign", "spoilt", "left", "redone", "astray"}
    BY DEF FilesTypeOK, Hist
  <1>1. ~Busy
    BY <1>h DEF Prompt
  <1>2. PICK k : cmd' = [u \in Users |-> IF cmd[u].target > Len(k) THEN [cmd[u] EXCEPT !.target = Gone] ELSE cmd[u]]
                 /\ k = IF cursor \in DOMAIN turns THEN SubSeq(turns, 1, cursor - 1) ELSE turns
    BY DEF Prompt
  <1>3. Len(k) \in Nat
    BY <1>2 DEF FilesTypeOK
  <1>4. \A u \in Users : cmd[u].target = 0
    BY <1>1, NoCmdType DEF Busy, Shape, Tidy
  <1>5. \A u \in Users : ~(cmd[u].target > Len(k))
    BY <1>3, <1>4
  <1>6. cmd' = [u \in Users |-> cmd[u]]
    BY <1>2, <1>5
  <1>7. cmd' = cmd
    BY <1>6 DEF FilesTypeOK
  <1>8. QED
    BY <1>1, <1>7, NowIdle DEF Now

\* The steps of a round, and what somebody else does.
RoundStep ==
  OpenRound \/ ReadOnlyRound \/ ToolWrites \/ SomebodyWrites \/ CloseRound \/ EndTurn \/ GhostCloses

LEMMA RoundKeeps ==
  ASSUME FilesTypeOK, RoundStep \/ UNCHANGED filesVars, ~hist'.astray
  PROVE  /\ UNCHANGED <<cmd, cursor, checkpoint>> /\ repo'.pruned \subseteq repo.pruned
         /\ hist'.redone = hist.redone /\ hist'.kept = hist.kept
         /\ loop'.at # "none" => loop.at # "none"
         /\ turns' # turns => loop.at # "none"
         /\ Now' = Now
  <1>h. DOMAIN hist = {"kept", "round", "touched", "foreign", "spoilt", "left", "redone", "astray"}
    BY DEF FilesTypeOK, Hist
  <1>1. UNCHANGED <<cmd, cursor, checkpoint>>
    BY DEF RoundStep, filesVars, OpenRound, ReadOnlyRound, ToolWrites, SomebodyWrites, CloseRound, EndTurn,
           GhostCloses, session
  <1>2. \A missed : Snapshot(missed) => repo'.pruned \subseteq repo.pruned
    BY TrackExcludes DEF Snapshot
  <1>3. SnapshotFails => repo'.pruned \subseteq repo.pruned
    BY <1>2 DEF SnapshotFails, FilesTypeOK, Repositories
  <1>4. repo'.pruned \subseteq repo.pruned
    BY <1>2, <1>3 DEF RoundStep, filesVars, OpenRound, ReadOnlyRound, ToolWrites, SomebodyWrites, CloseRound,
                      EndTurn, GhostCloses, disk
  <1>5. \A other : NoPatch(other) => turns' = turns /\ hist'.redone = hist.redone /\ hist'.kept = hist.kept
    BY <1>h DEF NoPatch
  <1>6. hist'.redone = hist.redone /\ hist'.kept = hist.kept
    <2>1. CASE OpenRound
      <3>1. \E r, s : hist' = [hist EXCEPT !.round = r, !.spoilt = s]
        BY <2>1 DEF OpenRound
      <3>2. QED
        BY <1>h, <3>1
    <2>2. CASE CloseRound
      <3>1. NoPatch(ghost) \/ \E r, s : hist' = [hist EXCEPT !.spoilt = s, !.round = r]
        BY <2>2 DEF CloseRound
      <3>2. QED
        BY <1>h, <1>5, <3>1
    <2>3. CASE ToolWrites \/ SomebodyWrites
      BY <1>h, <2>3 DEF ToolWrites, SomebodyWrites
    <2>4. CASE EndTurn \/ GhostCloses
      BY <1>h, <1>5, <2>4 DEF EndTurn, GhostCloses
    <2>5. CASE ReadOnlyRound \/ UNCHANGED filesVars
      BY <2>5 DEF ReadOnlyRound, filesVars
    <2>6. QED
      BY <2>1, <2>2, <2>3, <2>4, <2>5 DEF RoundStep
  <1>7. loop'.at # "none" => loop.at # "none"
    BY DEF RoundStep, filesVars, OpenRound, ReadOnlyRound, ToolWrites, SomebodyWrites, CloseRound, EndTurn,
           GhostCloses, NoLoop
  <1>8. turns' # turns => loop.at # "none"
    <2>1. CASE GhostCloses
      BY <1>h, <1>5, <2>1 DEF GhostCloses
    <2>2. CASE OpenRound \/ ReadOnlyRound \/ ToolWrites \/ SomebodyWrites \/ UNCHANGED filesVars
      BY <2>2 DEF filesVars, OpenRound, ReadOnlyRound, ToolWrites, SomebodyWrites, session
    <2>3. CASE CloseRound \/ EndTurn
      BY <2>3 DEF CloseRound, EndTurn
    <2>4. QED
      BY <2>1, <2>2, <2>3 DEF RoundStep
  <1>9. QED
    BY <1>1, <1>4, <1>6, <1>7, <1>8 DEF Now

LEMMA StraightStep ==
  ASSUME FilesTypeOK, Shape, Straight, [FilesNext]_filesVars
  PROVE  Straight'
  <1> SUFFICES ASSUME ~hist'.astray PROVE Straight'
    BY DEF Straight
  <1>1. ~hist.astray
    BY HistGrows
  <1>2. /\ Alone(cmd) /\ repo.pruned = {} /\ cursor <= Len(turns) /\ Len(turns) \in Nat /\ cursor \in Nat
        /\ loop.at # "none" => cursor = 0 /\ Now.at = "none"
    BY <1>1 DEF Straight, FilesTypeOK
  <1>3. CASE Prompt
    <2>1. cmd' = cmd /\ Now' = NoCmd /\ Alone(cmd)
      BY <1>3, PromptAlone
    <2>2. cursor' = 0 /\ repo' = repo
      BY <1>3 DEF Prompt, disk
    <2>3. Len(turns') \in Nat
      <3>1. FilesTypeOK'
        BY <1>3, TypeStep
      <3>2. QED
        BY <3>1 DEF FilesTypeOK
    <2>4. QED
      BY <1>2, <2>1, <2>2, <2>3, NoCmdType DEF Straight
  <1>4. CASE RoundStep \/ UNCHANGED filesVars
    <2>1. /\ UNCHANGED <<cmd, cursor, checkpoint>> /\ repo'.pruned = {} /\ hist'.redone = hist.redone
          /\ loop'.at # "none" => loop.at # "none"
          /\ turns' # turns => loop.at # "none"
          /\ Now' = Now
      BY <1>2, <1>4, RoundKeeps
    <2>2. CASE turns' = turns
      BY <1>1, <2>1, <2>2 DEF Straight
    <2>3. CASE turns' # turns
      <3>1. cursor' = 0 /\ Now'.at = "none"
        BY <1>2, <2>1, <2>3
      <3>2. Len(turns') \in Nat
        <4>1. FilesTypeOK'
          BY TypeStep
        <4>2. QED
          BY <4>1 DEF FilesTypeOK
      <3>3. QED
        BY <1>2, <2>1, <3>1, <3>2 DEF Straight
    <2>4. QED
      BY <2>2, <2>3
  <1>5. ~CollectGarbage
    <2>1. DOMAIN hist = {"kept", "round", "touched", "foreign", "spoilt", "left", "redone", "astray"}
      BY DEF FilesTypeOK, Hist
    <2>2. QED
      BY <2>1 DEF CollectGarbage
  <1>6. ASSUME NEW u \in Users, Undo(u) \/ Revert(u) \/ Redo(u) PROVE Straight'
    <2>1. /\ Now = NoCmd /\ Now.at = "none"
          /\ UNCHANGED <<work, repo, turns, cursor, checkpoint>>
          /\ loop'.at = "none" /\ Alone(cmd')
          /\ \/ Now' = NoCmd
             \/ /\ Now'.at = "checkpoint" /\ Now'.target \in 1 .. Len(turns)
                /\ Now'.patches = PatchesFrom(turns, Now'.target)
                /\ cursor # 0 => Now'.target < cursor \/ (checkpoint # NoTree /\ hist'.redone)
             \/ Now'.at = "restore" /\ Now'.check = checkpoint /\ cursor # 0 /\ checkpoint # NoTree /\ hist'.redone
      BY <1>1, <1>6, NowBegins
    <2>2. CASE Now' = NoCmd
      BY <1>2, <2>1, <2>2, NoCmdType DEF Straight
    <2>3. CASE Now'.at = "checkpoint"
      BY <1>2, <2>1, <2>3, NoCmdType DEF Straight
    <2>4. CASE Now'.at = "restore"
      BY <1>2, <2>1, <2>4, NoCmdType DEF Straight
    <2>5. QED
      BY <2>1, <2>2, <2>3, <2>4
  <1>7. ASSUME NEW u \in Users, TakeCheckpoint(u) PROVE Straight'
    <2>1. /\ Now.at = "checkpoint" /\ Now.target \in 1 .. Len(turns) /\ loop.at = "none"
          /\ UNCHANGED <<turns, cursor, checkpoint, loop>> /\ repo'.pruned = {}
          /\ Alone(cmd') /\ Now'.at = "revert" /\ Now'.target = Now.target /\ Now'.patches = Now.patches
      BY <1>1, <1>7, NowKeeps
    <2>2. Now.patches = PatchesFrom(turns, Now.target)
      BY <1>1, <2>1 DEF Straight
    <2>3. QED
      BY <1>2, <2>1, <2>2 DEF Straight
  <1>8. ASSUME NEW u \in Users, RevertFiles(u) PROVE Straight'
    <2>1. /\ Now.at = "revert" /\ Now.target \in 1 .. Len(turns) /\ Now.patches = PatchesFrom(turns, Now.target)
          /\ loop.at = "none" /\ UNCHANGED <<turns, cursor, checkpoint, loop>> /\ repo'.pruned = {}
          /\ Alone(cmd') /\ Now'.at = "save" /\ Now'.target = Now.target /\ Now'.patches = Now.patches
      BY <1>1, <1>8, NowReverts
    <2>2. QED
      BY <1>2, <2>1 DEF Straight
  <1>9. ASSUME NEW u \in Users, SaveCursor(u) PROVE Straight'
    <2>1. /\ Now.at = "save" /\ Now.target \in 1 .. Len(turns) /\ loop.at = "none"
          /\ UNCHANGED <<turns, loop, work, repo, hist>> /\ cursor' = Now.target
          /\ Alone(cmd') /\ Now'.at = "none"
      BY <1>1, <1>9, NowSaves
    <2>2. cursor' <= Len(turns')
      BY <1>2, <2>1
    <2>3. QED
      BY <1>2, <2>1, <2>2 DEF Straight
  <1>10. ASSUME NEW u \in Users, Unrevert(u) PROVE Straight'
    <2>1. /\ loop.at = "none" /\ cursor' = 0 /\ UNCHANGED <<turns, loop>> /\ repo'.pruned = {}
          /\ Alone(cmd') /\ Now'.at = "none"
      BY <1>1, <1>10, NowUnreverts
    <2>2. QED
      BY <1>2, <2>1 DEF Straight
  <1>11. QED
    BY <1>3, <1>4, <1>5, <1>6, <1>7, <1>8, <1>9, <1>10 DEF FilesNext, Command, RoundStep

-----------------------------------------------------------------------------
(* The chain of the patches. *)

\* From a later turn on, no more files are named.
LEMMA NamedLater ==
  ASSUME NEW ts \in Seq(Turns), NEW n \in 1 .. Len(ts), NEW m \in n .. Len(ts)
  PROVE  Named(PatchesFrom(ts, m)) \subseteq Named(PatchesFrom(ts, n))
  <1>1. n \in Nat \ {0} /\ m \in Nat /\ n <= m /\ m <= Len(ts) + 1
    OBVIOUS
  <1>2. PatchesFrom(ts, m) \in Seq(Patches)
    BY <1>1, PatchesSplit
  <1>3. PICK ps \in Seq(Patches) : PatchesFrom(ts, n) = ps \o PatchesFrom(ts, m)
    BY <1>1, PatchesSplit
  <1>4. QED
    BY <1>2, <1>3, NamedConcat

\* A new turn behind the first c - 1 turns.
LEMMA ChainTurn ==
  ASSUME NEW ts \in Seq(Turns), NEW f, NEW b, Chain(ts, f, b), NEW c \in 1 .. Len(ts) + 1,
         NEW us \in Seq(Turns), Len(us) = c, us[c].patches = <<>>,
         \A i \in 1 .. c - 1 : us[i] = ts[i],
         us[c].start[f] = IF c = Len(ts) + 1 THEN b ELSE ts[c].start[f]
  PROVE  Chain(us, f, us[c].start[f])
  <1>0. c \in Nat \ {0} /\ c <= Len(ts) + 1 /\ Len(ts) \in Nat
    OBVIOUS
  <1>1. PICK x : x = us[c].start[f]
    OBVIOUS
  <1>2. Value(PatchesFrom(ts, c), f, b) = x
    <2>1. CASE c = Len(ts) + 1
      BY <1>1, <2>1, PatchesBehind, ValueNone
    <2>2. CASE c # Len(ts) + 1
      BY <1>0, <1>1, <2>2 DEF Chain
    <2>3. QED
      BY <2>1, <2>2
  <1>3. ASSUME NEW n \in 1 .. c PROVE Value(PatchesFrom(us, n), f, x) = us[n].start[f]
    <2>1. CASE n = c
      BY <1>0, <1>1, <2>1, PatchesNone, ValueNone
    <2>2. CASE n # c
      <3>1. n \in Nat \ {0} /\ n < c /\ n \in 1 .. Len(ts) /\ n \in 1 .. c - 1
        BY <1>0, <2>2
      <3>2. PatchesFrom(us, n) \in Seq(Patches) /\ PatchesFrom(ts, n) = PatchesFrom(us, n) \o PatchesFrom(ts, c)
        BY <1>0, <3>1, PatchesTurn
      <3>3. PatchesFrom(ts, c) \in Seq(Patches)
        BY <1>0, <3>1, PatchesSplit
      <3>4. Value(PatchesFrom(ts, n), f, b) = Value(PatchesFrom(us, n), f, x)
        BY <1>2, <3>2, <3>3, ValueConcat
      <3>5. Value(PatchesFrom(ts, n), f, b) = ts[n].start[f]
        BY <3>1 DEF Chain
      <3>6. QED
        BY <3>1, <3>4, <3>5
    <2>3. QED
      BY <2>1, <2>2
  <1>4. QED
    BY <1>1, <1>3 DEF Chain

\* A patch of what differs from its tree.
LEMMA ChainPatch ==
  ASSUME NEW ts \in Seq(Turns), ts # <<>>, NEW p \in Patches, NEW f,
         Chain(ts, f, p.tree[f]), NEW b, f \in p.files \/ b = p.tree[f],
         NEW us, Saved(ts, us, p)
  PROVE  Chain(us, f, b)
  <1>1. /\ Len(us) = Len(ts) /\ \A i \in 1 .. Len(ts) - 1 : us[i] = ts[i]
        /\ \A i \in 1 .. Len(ts) : us[i].start = ts[i].start
        /\ us[Len(ts)].patches = Append(ts[Len(ts)].patches, p)
    BY DEF Saved
  <1>2. ASSUME NEW n \in 1 .. Len(ts) PROVE Value(PatchesFrom(us, n), f, b) = us[n].start[f]
    <2>1. n \in Nat \ {0} /\ n <= Len(ts)
      OBVIOUS
    <2>2. PatchesFrom(us, n) = Append(PatchesFrom(ts, n), p)
      BY <1>1, <2>1, PatchesMore
    <2>3. PICK ps \in Seq(Patches) : ps = PatchesFrom(ts, n)
      BY PatchesType, Zenon
    <2>4. Value(Append(ps, p), f, b) = Value(ps, f, IF f \in p.files THEN p.tree[f] ELSE b)
      BY <2>3, ValueAppend
    <2>5. (IF f \in p.files THEN p.tree[f] ELSE b) = p.tree[f]
      OBVIOUS
    <2>6. Value(Append(ps, p), f, b) = Value(ps, f, p.tree[f])
      BY <2>4, <2>5, Zenon
    <2>7. Value(ps, f, p.tree[f]) = ts[n].start[f]
      BY <2>3 DEF Chain
    <2>8. QED
      BY <1>1, <2>2, <2>3, <2>6, <2>7
  <1>3. QED
    BY <1>1, <1>2 DEF Chain

-----------------------------------------------------------------------------
(* What only the tools changed. *)

\* If no tool of an open round wrote f, the patches take f back from where it is.
LEMMA ChainWork ==
  ASSUME NEW f, RoundOK(f), ChainOK(f), loop.at = "round" => f \notin hist.round
  PROVE  Chain(turns, f, IF Undone THEN hist.kept[f] ELSE work[f])
  BY DEF RoundOK, ChainOK, Base

\* What Back says goes for earlier turns.
LEMMA BackEarlier ==
  ASSUME FilesTypeOK, NEW f, NEW n \in 1 .. Len(turns), NEW m \in n .. Len(turns),
         Back(f, m), f \notin Named(PatchesFrom(turns, n))
  PROVE  Unchanged(f)
  <1>1. f \notin Named(PatchesFrom(turns, m))
    BY NamedLater DEF FilesTypeOK
  <1>2. QED
    BY <1>1 DEF Back

LEMMA FilePrompt ==
  ASSUME FilesTypeOK, Shape, Straight, FilesTypeOK', NEW f \in Files, FileOK(f), Sound(f), Sound(f)', Prompt
  PROVE  FileOK(f)'
  <1>0. ~hist.astray /\ ~hist'.astray
    BY DEF Sound
  <1>1. /\ cursor' = 0 /\ Now'.at = "none" /\ Now.at = "none" /\ loop.at = "none" /\ loop'.at = "ask"
        /\ loop'.pre = NoTree /\ checkpoint' = NoTree /\ work' = work
    BY <1>0, PromptAlone DEF Prompt, NoLoop, NoCmd, disk
  <1>2. PICK c : c = IF cursor = 0 THEN Len(turns) + 1 ELSE cursor
    OBVIOUS
  <1>3. /\ Len(turns) \in Nat /\ turns \in Seq(Turns) /\ cursor \in Nat /\ cursor <= Len(turns)
        /\ c \in 1 .. Len(turns) + 1 /\ DOMAIN turns = 1 .. Len(turns)
        /\ cursor \in DOMAIN turns <=> cursor # 0
    BY <1>0, <1>2 DEF FilesTypeOK, Straight
  <1>4. PICK visible : /\ visible = IF cursor \in DOMAIN turns THEN SubSeq(turns, 1, cursor - 1) ELSE turns
                       /\ turns' = Append(visible, [patches |-> <<>>, start |-> work])
    BY DEF Prompt
  <1>5. /\ visible \in Seq(Turns) /\ Len(visible) = c - 1
        /\ \A i \in 1 .. c - 1 : visible[i] = turns[i]
    BY <1>2, <1>3, <1>4
  <1>6. /\ turns' \in Seq(Turns) /\ Len(turns') = c /\ turns'[c] = [patches |-> <<>>, start |-> work]
        /\ \A i \in 1 .. c - 1 : turns'[i] = turns[i]
    <2>1. turns' \in Seq(Turns)
      BY DEF FilesTypeOK
    <2>2. QED
      BY <1>3, <1>4, <1>5, <2>1
  <1>7. PICK b : b = IF Undone THEN hist.kept[f] ELSE work[f]
    OBVIOUS
  <1>8. Chain(turns, f, b)
    BY <1>1, <1>7, ChainWork DEF FileOK
  <1>9. work[f] = IF c = Len(turns) + 1 THEN b ELSE turns[c].start[f]
    <2>1. CASE cursor = 0
      BY <1>1, <1>2, <1>7, <2>1 DEF Undone
    <2>2. CASE cursor # 0
      <3>1. c = cursor /\ c \in 1 .. Len(turns) /\ b = hist.kept[f]
        BY <1>2, <1>3, <1>7, <2>2 DEF Undone
      <3>2. Value(PatchesFrom(turns, c), f, b) = turns[c].start[f]
        BY <1>8, <3>1 DEF Chain
      <3>3. Back(f, c)
        BY <1>1, <2>2, <3>1 DEF FileOK, UndoneOK
      <3>4. CASE f \in Named(PatchesFrom(turns, c))
        BY <1>3, <3>1, <3>3, <3>4 DEF Back
      <3>5. CASE f \notin Named(PatchesFrom(turns, c))
        <4>1. turns[c].start[f] = b
          BY <3>2, <3>5 DEF Value
        <4>2. hist'.left = hist.left \union Extra(turns[c].start, work)
          BY <1>3, <2>2, <3>1 DEF Prompt, FilesTypeOK, Hist
        <4>3. ~(turns[c].start[f] = Absent /\ work[f] # Absent)
          BY <4>2 DEF Sound, Extra
        <4>4. QED
          BY <1>3, <3>1, <3>3, <3>5, <4>1, <4>3 DEF Back, Unchanged
      <3>6. QED
        BY <3>4, <3>5
    <2>3. QED
      BY <2>1, <2>2
  <1>10. turns'[c].patches = <<>> /\ turns'[c].start[f] = work[f]
    BY <1>6
  <1>11. Chain(turns', f, work[f])
    <2>1. PICK us : us = turns'
      OBVIOUS
    <2>2. us \in Seq(Turns) /\ Len(us) = c /\ us[c].patches = <<>> /\ us[c].start[f] = work[f]
      BY <1>6, <1>10, <2>1
    <2>3. \A i \in 1 .. c - 1 : us[i] = turns[i]
      BY <1>6, <2>1
    <2>4. us[c].start[f] = IF c = Len(turns) + 1 THEN b ELSE turns[c].start[f]
      BY <1>9, <2>2
    <2>5. Chain(us, f, us[c].start[f])
      BY <1>3, <1>8, <2>2, <2>3, <2>4, ChainTurn
    <2>6. QED
      BY <2>1, <2>2, <2>5
  <1>12. Base(f)' = work[f]
    BY <1>1 DEF Base, Undone
  <1>13. ChainOK(f)'
    BY <1>11, <1>12 DEF ChainOK
  <1>14. QED
    BY <1>1, <1>13 DEF FileOK, RoundOK, CheckOK, UndoneOK

LEMMA FileCloses ==
  ASSUME FilesTypeOK, Shape, Straight, ExcludeOK, FilesTypeOK', NEW f \in Files, FileOK(f), Sound(f),
         Sound(f)', CloseRound
  PROVE  FileOK(f)'
  <1>0. ~hist.astray /\ ~hist'.astray /\ loop.at = "round" /\ work' = work
    BY DEF Sound, CloseRound
  <1>1. /\ cursor = 0 /\ Now.at = "none" /\ checkpoint = NoTree /\ turns # <<>>
        /\ cursor' = 0 /\ checkpoint' = checkpoint /\ Now' = Now /\ ~Undone /\ ~Undone'
    BY <1>0, LoopShape, RoundKeeps DEF RoundStep, Undone
  <1>2. loop'.at = "ask" /\ Base(f)' = work[f]
    <2>1. DOMAIN loop = {"at", "pre"}
      BY DEF FilesTypeOK
    <2>2. (\E pre : loop' = [at |-> "ask", pre |-> pre]) \/ loop' = [loop EXCEPT !.at = "ask"]
      BY DEF CloseRound
    <2>3. loop'.at = "ask"
      BY <2>1, <2>2
    <2>4. QED
      BY <1>0, <1>1, <2>3 DEF Base
  <1>3. ASSUME NEW missed, loop.pre # NoTree, Snapshot(missed), hist'.spoilt = Unseen(missed),
               loop'.pre = repo'.index, SavePatch(loop.pre, Diff(loop.pre, repo'.index))
        PROVE  FileOK(f)'
    <2>1. repo'.index[f] = work[f]
      BY <1>3, SnapshotSeen DEF Sound
    <2>2. Chain(turns, f, loop.pre[f])
      BY <1>0, <1>1, <1>3 DEF FileOK, ChainOK, Base
    <2>3. Chain(turns', f, work[f])
      <3>1. CASE Diff(loop.pre, repo'.index) = {}
        <4>1. turns' = turns /\ loop.pre[f] = work[f]
          BY <1>3, <2>1, <3>1 DEF SavePatch, Diff
        <4>2. QED
          BY <2>2, <4>1
      <3>2. CASE Diff(loop.pre, repo'.index) # {}
        <4>1. PICK p : p = [tree |-> loop.pre, files |-> Diff(loop.pre, repo'.index)]
          OBVIOUS
        <4>2. p \in Patches
          BY <1>3, <4>1 DEF Patches, Diff, FilesTypeOK, Hashes
        <4>3. f \in p.files \/ work[f] = p.tree[f]
          BY <2>1, <4>1 DEF Diff
        <4>4. turns' = WithPatch(turns, p)
          BY <1>1, <1>3, <3>2, <4>1 DEF SavePatch, WithPatch
        <4>5. turns \in Seq(Turns)
          BY DEF FilesTypeOK
        <4>6. Saved(turns, turns', p)
          BY <1>1, <4>2, <4>4, <4>5, SavedType, Zenon
        <4>7. Chain(turns, f, p.tree[f])
          BY <2>2, <4>1
        <4>8. QED
          BY <1>1, <4>2, <4>3, <4>5, <4>6, <4>7, ChainPatch
      <3>3. QED
        BY <3>1, <3>2
    <2>4. ChainOK(f)'
      BY <1>2, <2>3 DEF ChainOK
    <2>5. QED
      BY <1>0, <1>1, <1>2, <1>3, <2>1, <2>4 DEF FileOK, RoundOK, CheckOK, UndoneOK
  <1>4. CASE NoPatch(ghost) /\ loop'.pre = loop.pre
    <2>1. f \notin hist.round /\ turns' = turns
      BY <1>4 DEF NoPatch, Sound, Unseen, FilesTypeOK, Hist
    <2>2. Chain(turns, f, work[f])
      BY <1>1, <2>1, ChainWork DEF FileOK
    <2>3. loop.pre # NoTree => loop.pre[f] = work[f]
      BY <1>0, <2>1 DEF FileOK, RoundOK
    <2>4. ChainOK(f)'
      BY <1>2, <2>1, <2>2 DEF ChainOK
    <2>5. QED
      BY <1>0, <1>1, <1>2, <1>4, <2>3, <2>4 DEF FileOK, RoundOK, CheckOK, UndoneOK
  <1>5. DOMAIN hist = {"kept", "round", "touched", "foreign", "spoilt", "left", "redone", "astray"}
    BY DEF FilesTypeOK, Hist
  <1>6. DOMAIN loop = {"at", "pre"}
    BY DEF FilesTypeOK
  <1>7. ASSUME NEW missed, loop.pre # NoTree, Snapshot(missed), SavePatch(loop.pre, Diff(loop.pre, repo'.index)),
               loop' = [at |-> "ask", pre |-> repo'.index],
               hist' = [hist EXCEPT !.spoilt = Unseen(missed), !.round = StillOpen(ghost)]
        PROVE  FileOK(f)'
    <2>1. hist'.spoilt = Unseen(missed) /\ loop'.pre = repo'.index
      BY <1>5, <1>7
    <2>2. QED
      BY <1>3, <1>7, <2>1
  <1>8. CASE loop' = [loop EXCEPT !.at = "ask"] /\ NoPatch(ghost)
    BY <1>4, <1>6, <1>8
  <1>9. QED
    BY <1>7, <1>8 DEF CloseRound

LEMMA FileBegins ==
  ASSUME FilesTypeOK, Shape, Straight, NEW f \in Files, FileOK(f), Sound(f), Sound(f)',
         NEW u \in Users, Undo(u) \/ Revert(u) \/ Redo(u)
  PROVE  FileOK(f)'
  <1>0. ~hist.astray /\ ~hist'.astray
    BY DEF Sound
  <1>b. /\ Now = NoCmd /\ Now.at = "none"
        /\ UNCHANGED <<work, turns, cursor, checkpoint>> /\ hist'.kept = hist.kept
        /\ Unsaved \subseteq hist'.spoilt /\ (hist.redone => hist'.redone)
        /\ loop'.at = "none"
        /\ \/ UNCHANGED cmd /\ Now' = NoCmd
           \/ Now'.at = "checkpoint"
           \/ Now'.at = "restore" /\ cursor # 0
    BY <1>0, NowBegins
  <1>1. loop.at = "round" => f \notin hist.round
    BY <1>b DEF Sound, Unsaved
  <1>2. Chain(turns, f, IF Undone THEN hist.kept[f] ELSE work[f])
    BY <1>1, ChainWork DEF FileOK
  <1>3. Undone' = Undone
    BY <1>b DEF Undone
  <1>4. Base(f)' = IF Undone THEN hist.kept[f] ELSE work[f]
    BY <1>b, <1>3 DEF Base
  <1>5. ChainOK(f)'
    BY <1>2, <1>4, <1>b DEF ChainOK
  <1>6. cursor # 0 => Back(f, cursor)'
    BY <1>b DEF FileOK, UndoneOK, Back, Unchanged
  <1>7. CheckOK(f)'
    BY <1>b DEF FileOK, CheckOK
  <1>8. UndoneOK(f)'
    BY <1>6, <1>b DEF UndoneOK
  <1>9. QED
    BY <1>5, <1>7, <1>8, <1>b DEF FileOK, RoundOK

LEMMA FileCheckpoint ==
  ASSUME FilesTypeOK, Shape, Straight, ExcludeOK, FilesTypeOK', NEW f \in Files, FileOK(f), Sound(f),
         Sound(f)', NEW u \in Users, TakeCheckpoint(u)
  PROVE  FileOK(f)'
  <1>0. ~hist.astray /\ ~hist'.astray
    BY DEF Sound
  <1>1. /\ Now.at = "checkpoint" /\ Now.target \in 1 .. Len(turns) /\ loop.at = "none"
        /\ UNCHANGED <<turns, cursor, checkpoint, loop>> /\ hist'.redone = hist.redone
        /\ Now'.at = "revert" /\ Now'.target = Now.target /\ Now'.patches = Now.patches
        /\ \/ cursor # 0 /\ Restore(checkpoint) /\ Now'.check = checkpoint /\ hist' = hist
           \/ /\ cursor = 0 /\ work' = work /\ hist'.kept = work
              /\ \/ Now'.check = NoTree
                 \/ \E missed : Snapshot(missed) /\ Now'.check = repo'.index /\ hist'.spoilt = Unseen(missed)
    BY <1>0, NowKeeps
  <1>2. CASE cursor # 0
    <2>1. Restore(checkpoint) /\ Now'.check = checkpoint /\ hist' = hist
      BY <1>1, <1>2
    <2>2. Now.target < cursor \/ (checkpoint # NoTree /\ hist.redone)
      BY <1>0, <1>1, <1>2 DEF Straight
    <2>3. Back(f, cursor) /\ cursor \in 1 .. Len(turns)
      BY <1>0, <1>1, <1>2 DEF FileOK, UndoneOK, Straight, FilesTypeOK
    <2>4. ASSUME f \notin Named(PatchesFrom(turns, Now.target)) PROVE Unchanged(f)'
      <3>1. Now.target < cursor => Unchanged(f)
        <4> SUFFICES ASSUME Now.target < cursor PROVE Unchanged(f)
          OBVIOUS
        <4>1. cursor \in Now.target .. Len(turns)
          BY <1>1, <2>3
        <4>2. QED
          BY <1>1, <2>3, <2>4, <4>1, BackEarlier
      <3>2. CASE checkpoint = NoTree
        <4>1. work' = work
          BY <2>1, <3>2 DEF Restore, disk
        <4>2. QED
          BY <2>1, <2>2, <3>1, <3>2, <4>1 DEF Unchanged
      <3>3. CASE checkpoint # NoTree
        <4>1. work'[f] = IF checkpoint[f] = Absent THEN work[f] ELSE checkpoint[f]
          BY <2>1, <3>3 DEF Restore, Restored
        <4>2. checkpoint[f] = hist.kept[f]
          BY <3>3 DEF FileOK, CheckOK
        <4>3. QED
          BY <2>1, <2>2, <3>1, <4>1, <4>2 DEF Unchanged
      <3>4. QED
        BY <3>2, <3>3
    <2>5. f \in Named(PatchesFrom(turns, Now.target)) \/ Unchanged(f)'
      BY <2>4
    <2>6. Base(f)' = Base(f)
      BY <1>1, <1>2, <2>1 DEF Base, Undone
    <2>7. QED
      BY <1>1, <1>2, <2>1, <2>5, <2>6 DEF FileOK, RoundOK, ChainOK, CheckOK, UndoneOK
  <1>3. CASE cursor = 0
    <2>1. work' = work /\ hist'.kept = work
      BY <1>1, <1>3
    <2>2. Now'.check # NoTree => Now'.check[f] = work[f]
      BY <1>1, <1>3, SnapshotSeen DEF Sound
    <2>3. ~Undone /\ checkpoint = NoTree
      BY <1>1, <1>3 DEF Undone, Shape
    <2>4. Base(f) = work[f] /\ Base(f)' = work[f]
      BY <1>1, <2>1, <2>3 DEF Base, Undone
    <2>5. Unchanged(f)'
      BY <2>1 DEF Unchanged
    <2>6. QED
      BY <1>1, <1>3, <2>1, <2>2, <2>3, <2>4, <2>5 DEF FileOK, RoundOK, ChainOK, CheckOK, UndoneOK
  <1>4. QED
    BY <1>2, <1>3

LEMMA FileReverts ==
  ASSUME FilesTypeOK, Shape, Straight, FilesTypeOK', NEW f \in Files, FileOK(f), Sound(f), Sound(f)',
         NEW u \in Users, RevertFiles(u)
  PROVE  FileOK(f)'
  <1>0. ~hist.astray /\ ~hist'.astray
    BY DEF Sound
  <1>1. /\ Now.at = "revert" /\ Now.target \in 1 .. Len(turns) /\ Now.patches = PatchesFrom(turns, Now.target)
        /\ loop.at = "none" /\ UNCHANGED <<turns, cursor, checkpoint, loop>>
        /\ Now'.at = "save" /\ Now'.target = Now.target /\ Now'.check = Now.check
        /\ hist'.kept = hist.kept /\ hist'.redone = hist.redone
        /\ \A g \in Files \ hist'.spoilt : work'[g] = Value(Now.patches, g, work[g])
    BY <1>0, NowReverts
  <1>2. PICK ps : ps = PatchesFrom(turns, Now.target)
    OBVIOUS
  <1>3. Now.patches = ps
    BY <1>1, <1>2
  <1>4. work'[f] = Value(ps, f, work[f])
    BY <1>1, <1>3 DEF Sound
  <1>5. Value(ps, f, hist.kept[f]) = turns[Now.target].start[f]
    BY <1>1, <1>2 DEF FileOK, ChainOK, Chain, Base, Undone
  <1>6. f \in Named(ps) => work'[f] = turns[Now.target].start[f]
    BY <1>4, <1>5, ValueNamed
  <1>7. f \notin Named(ps) => Unchanged(f)'
    <2> SUFFICES ASSUME f \notin Named(ps) PROVE Unchanged(f)'
      OBVIOUS
    <2>1. work'[f] = work[f]
      BY <1>4 DEF Value
    <2>2. Unchanged(f)
      BY <1>1, <1>2 DEF FileOK, UndoneOK
    <2>3. QED
      BY <1>1, <2>1, <2>2 DEF Unchanged
  <1>8. Back(f, Now.target)'
    BY <1>1, <1>2, <1>6, <1>7 DEF Back
  <1>9. Base(f)' = Base(f)
    BY <1>1 DEF Base, Undone
  <1>10. QED
    BY <1>1, <1>8, <1>9 DEF FileOK, RoundOK, ChainOK, CheckOK, UndoneOK

LEMMA FileSaved ==
  ASSUME FilesTypeOK, Shape, Straight, NEW f \in Files, FileOK(f), Sound(f), Sound(f)',
         NEW u \in Users, SaveCursor(u)
  PROVE  FileOK(f)'
  <1>0. ~hist.astray /\ ~hist'.astray
    BY DEF Sound
  <1>1. /\ Now.at = "save" /\ Now'.at = "none" /\ cursor' = Now.target /\ checkpoint' = Now.check
        /\ turns' = turns /\ loop' = loop /\ work' = work /\ hist' = hist
        /\ loop.at = "none" /\ Now.target # 0
    <2>1. \A n \in 1 .. Len(turns) : n # 0
      OBVIOUS
    <2>2. QED
      BY <1>0, <2>1, NowSaves
  <1>2. Back(f, Now.target)
    BY <1>1 DEF FileOK, UndoneOK
  <1>3. Back(f, cursor)'
    BY <1>1, <1>2 DEF Back, Unchanged
  <1>4. Base(f)' = Base(f)
    BY <1>1 DEF Base, Undone
  <1>5. QED
    BY <1>1, <1>3, <1>4 DEF FileOK, RoundOK, ChainOK, CheckOK, UndoneOK

\* What a redo brings back at the end of the history.
LEMMA Returns ==
  ASSUME NEW f \in Files, FileOK(f), checkpoint # NoTree, Restore(checkpoint)
  PROVE  work'[f] = IF hist.kept[f] = Absent THEN work[f] ELSE hist.kept[f]
  <1>1. work'[f] = IF checkpoint[f] = Absent THEN work[f] ELSE checkpoint[f]
    BY DEF Restore, Restored
  <1>2. QED
    BY <1>1 DEF FileOK, CheckOK

LEMMA FileUnreverts ==
  ASSUME FilesTypeOK, Shape, Straight, FilesTypeOK', NEW f \in Files, FileOK(f), Sound(f), Sound(f)',
         NEW u \in Users, Unrevert(u)
  PROVE  FileOK(f)'
  <1>0. ~hist.astray /\ ~hist'.astray
    BY DEF Sound
  <1>1. /\ Now.at = "restore" /\ Now'.at = "none" /\ cursor' = 0 /\ checkpoint' = NoTree
        /\ turns' = turns /\ loop' = loop /\ loop.at = "none" /\ checkpoint # NoTree /\ Restore(checkpoint)
        /\ hist'.left = hist.left \union Extra(hist.kept, work')
    BY <1>0, NowUnreverts
  <1>2. work'[f] = IF hist.kept[f] = Absent THEN work[f] ELSE hist.kept[f]
    BY <1>1, Returns
  <1>4. work'[f] = hist.kept[f]
    BY <1>1, <1>2 DEF Sound, Extra
  <1>5. Base(f)' = Base(f)
    BY <1>1, <1>4 DEF Base, Undone
  <1>6. QED
    BY <1>1, <1>5 DEF FileOK, RoundOK, ChainOK, CheckOK, UndoneOK

\* An action keeps what is true of every file that is still sound after it.
LEMMA FileStep ==
  ASSUME FilesTypeOK, Shape, Straight, ExcludeOK, FilesOK, [FilesNext]_filesVars, FilesTypeOK'
  PROVE  FilesOK'
  <1> SUFFICES ASSUME NEW f \in Files, Sound(f)' PROVE FileOK(f)'
    BY DEF FilesOK
  <1>1. Sound(f) /\ ~hist.astray /\ ~hist'.astray /\ FileOK(f)
    BY SoundBefore DEF FilesOK
  <1>h. DOMAIN hist = {"kept", "round", "touched", "foreign", "spoilt", "left", "redone", "astray"}
    BY DEF FilesTypeOK, Hist
  <1>r. RoundStep \/ UNCHANGED filesVars =>
          /\ UNCHANGED <<cmd, cursor, checkpoint>> /\ hist'.redone = hist.redone /\ hist'.kept = hist.kept
          /\ Now' = Now /\ Undone' = Undone
    BY <1>1, RoundKeeps DEF Undone
  <1>2. CASE Prompt
    BY <1>1, <1>2, FilePrompt
  <1>3. CASE OpenRound
    <2>0. loop.at = "ask" /\ work' = work /\ turns' = turns
      BY <1>3 DEF OpenRound, session
    <2>1. DOMAIN loop = {"at", "pre"}
      BY DEF FilesTypeOK
    <2>2. PICK m : \/ /\ Snapshot(m) /\ loop' = [at |-> "round", pre |-> repo'.index]
                      /\ hist' = [hist EXCEPT !.round = StillOpen(ghost), !.spoilt = Unseen(m)]
                   \/ loop' = [loop EXCEPT !.at = "round"]
      BY <1>3 DEF OpenRound
    <2>3. /\ loop'.at = "round"
          /\ \/ Snapshot(m) /\ loop'.pre = repo'.index /\ hist'.spoilt = Unseen(m)
             \/ loop'.pre = loop.pre
      <3>1. CASE loop' = [loop EXCEPT !.at = "round"]
        BY <2>1, <3>1
      <3>2. CASE /\ Snapshot(m) /\ loop' = [at |-> "round", pre |-> repo'.index]
                 /\ hist' = [hist EXCEPT !.round = StillOpen(ghost), !.spoilt = Unseen(m)]
        <4>1. hist'.spoilt = Unseen(m)
          BY <1>h, <3>2
        <4>2. loop'.at = "round" /\ loop'.pre = repo'.index
          BY <3>2
        <4>3. QED
          BY <3>2, <4>1, <4>2
      <3>3. QED
        BY <2>2, <3>1, <3>2
    <2>4. Chain(turns, f, work[f])
      BY <1>1, <2>0, LoopShape, ChainWork DEF FileOK
    <2>5. loop'.pre # NoTree => loop'.pre[f] = work[f]
      <3>1. CASE Snapshot(m) /\ loop'.pre = repo'.index /\ hist'.spoilt = Unseen(m)
        BY <3>1, SnapshotSeen DEF Sound
      <3>2. CASE loop'.pre = loop.pre
        BY <1>1, <2>0, <3>2 DEF FileOK, RoundOK
      <3>3. QED
        BY <2>3, <3>1, <3>2
    <2>6. checkpoint = NoTree /\ Now.at = "none" /\ cursor = 0 /\ ~Undone
      BY <1>1, <2>0, LoopShape
    <2>7. Now' = Now /\ cursor' = 0 /\ checkpoint' = NoTree /\ ~Undone'
      BY <1>3, <1>r, <2>6 DEF RoundStep
    <2>8. Base(f)' = work[f]
      BY <2>0, <2>3, <2>5, <2>7 DEF Base
    <2>9. ChainOK(f)'
      BY <2>0, <2>4, <2>8 DEF ChainOK
    <2>10. QED
      BY <2>0, <2>3, <2>5, <2>6, <2>7, <2>9 DEF FileOK, RoundOK, CheckOK, UndoneOK
  <1>4. CASE ReadOnlyRound
    <2>1. /\ loop.at = "ask" /\ loop'.at = "ask" /\ loop'.pre = NoTree /\ work' = work /\ turns' = turns
          /\ hist' = hist
      BY <1>4 DEF ReadOnlyRound, disk, session, FilesTypeOK
    <2>2. /\ Now' = Now /\ Undone' = Undone /\ cursor' = cursor /\ checkpoint' = checkpoint
      BY <1>4, <1>r DEF RoundStep
    <2>3. Base(f)' = Base(f)
      BY <2>1, <2>2 DEF Base
    <2>4. checkpoint = NoTree /\ Now.at = "none" /\ cursor = 0
      BY <1>1, <2>1, LoopShape
    <2>5. QED
      BY <1>1, <2>1, <2>2, <2>3, <2>4 DEF FileOK, RoundOK, ChainOK, CheckOK, UndoneOK
  <1>5. CASE ToolWrites
    <2>1. PICK g \in Files : /\ WriteFile(g)
                             /\ hist' = [hist EXCEPT !.round = @ \union {g}, !.touched = @ \union {g},
                                                     !.astray = @ \/ loop.at # "round"]
      BY <1>5 DEF ToolWrites
    <2>2. hist'.round = hist.round \union {g} /\ loop.at = "round"
      BY <1>1, <1>h, <2>1
    <2>3. f # g => work'[f] = work[f]
      BY <2>1, WriteType
    <2>4. /\ turns' = turns /\ loop' = loop /\ Now' = Now /\ Undone' = Undone
          /\ cursor' = cursor /\ checkpoint' = checkpoint /\ hist'.kept = hist.kept
      BY <1>5, <1>r DEF ToolWrites, RoundStep, session
    <2>5. checkpoint = NoTree /\ Now.at = "none" /\ cursor = 0 /\ ~Undone
      BY <1>1, <2>2, LoopShape
    <2>6. loop.pre # NoTree \/ f \notin hist'.round => Base(f)' = Base(f)
      BY <2>2, <2>3, <2>4, <2>5 DEF Base
    <2>7. ChainOK(f)'
      BY <1>1, <2>2, <2>4, <2>6 DEF FileOK, ChainOK
    <2>8. QED
      BY <1>1, <2>2, <2>3, <2>4, <2>5, <2>7 DEF FileOK, RoundOK, CheckOK, UndoneOK
  <1>6. CASE SomebodyWrites
    <2>1. PICK g \in Files :
             /\ WriteFile(g)
             /\ hist' = [hist EXCEPT
                  !.foreign = @ \union {g},
                  !.spoilt = IF Reverting \/ "round" \in {loop.at, ghost.at} THEN @ \union {g} ELSE @]
      BY <1>6 DEF SomebodyWrites
    <2>2. hist'.foreign = hist.foreign \union {g} /\ hist'.round = hist.round
      BY <1>h, <2>1
    <2>3. f # g
      BY <2>2 DEF Sound
    <2>4. work'[f] = work[f]
      BY <2>1, <2>3, WriteType
    <2>5. /\ turns' = turns /\ loop' = loop /\ Now' = Now /\ Undone' = Undone
          /\ cursor' = cursor /\ checkpoint' = checkpoint /\ hist'.kept = hist.kept
          /\ hist'.redone = hist.redone
      BY <1>6, <1>r DEF SomebodyWrites, RoundStep, session
    <2>6. Base(f)' = Base(f)
      BY <2>4, <2>5 DEF Base
    <2>7. QED
      BY <1>1, <2>2, <2>4, <2>5, <2>6
      DEF FileOK, RoundOK, ChainOK, CheckOK, UndoneOK, Back, Unchanged
  <1>7. CASE CloseRound
    BY <1>1, <1>7, FileCloses
  <1>8. CASE EndTurn
    <2>1. turns' = turns /\ work' = work /\ loop'.at = "none" /\ loop.at # "none"
      BY <1>8 DEF EndTurn, NoPatch, NoLoop
    <2>2. loop.at = "round" => f \notin hist.round
      BY <1>8, <1>h DEF EndTurn, NoPatch, Sound, Unseen
    <2>3. checkpoint = NoTree /\ Now.at = "none" /\ cursor = 0 /\ ~Undone
      BY <1>1, <2>1, LoopShape
    <2>4. Now' = Now /\ Undone' = Undone /\ cursor' = cursor /\ checkpoint' = checkpoint
      BY <1>8, <1>r DEF RoundStep
    <2>5. Chain(turns, f, work[f])
      BY <1>1, <2>2, <2>3, ChainWork DEF FileOK
    <2>6. Base(f)' = work[f]
      BY <2>1, <2>3, <2>4 DEF Base
    <2>7. ChainOK(f)'
      BY <2>1, <2>5, <2>6 DEF ChainOK
    <2>8. QED
      BY <2>1, <2>3, <2>4, <2>7 DEF FileOK, RoundOK, CheckOK, UndoneOK
  <1>9. CASE GhostCloses
    <2>1. NoPatch(loop)
      BY <1>1, <1>9, <1>h DEF GhostCloses
    <2>2. turns' = turns /\ work' = work /\ loop' = loop
      BY <1>9, <2>1 DEF GhostCloses, NoPatch
    <2>3. f \notin hist.round
      BY <1>h, <2>1 DEF NoPatch, Sound, Unseen
    <2>4. /\ Now' = Now /\ Undone' = Undone /\ cursor' = cursor /\ checkpoint' = checkpoint
          /\ hist'.kept = hist.kept /\ hist'.redone = hist.redone
      BY <1>9, <1>r DEF RoundStep
    <2>5. Base(f)' = Base(f)
      BY <2>2, <2>4 DEF Base
    <2>6. QED
      BY <1>1, <2>2, <2>3, <2>4, <2>5
      DEF FileOK, RoundOK, ChainOK, CheckOK, UndoneOK, Back, Unchanged
  <1>10. ~CollectGarbage
    BY <1>1, <1>h DEF CollectGarbage
  <1>11. ASSUME NEW u \in Users, Command(u) PROVE FileOK(f)'
    BY <1>1, <1>11, FileBegins, FileCheckpoint, FileReverts, FileSaved, FileUnreverts DEF Command
  <1>12. CASE UNCHANGED filesVars
    <2>1. Now' = Now /\ Undone' = Undone
      BY <1>r, <1>12
    <2>2. QED
      BY <1>1, <1>12, <2>1
      DEF filesVars, FileOK, RoundOK, ChainOK, CheckOK, UndoneOK, Back, Unchanged, Base
  <1>13. QED
    BY <1>2, <1>3, <1>4, <1>5, <1>6, <1>7, <1>8, <1>9, <1>10, <1>11, <1>12 DEF FilesNext

-----------------------------------------------------------------------------
(* What only the user writes. *)

Free(ps, x) == ps \in Seq(Patches) /\ x \notin Named(ps)

LEMMA CollectsFree ==
  ASSUME NEW ts \in Seq(Turns), NEW n \in Nat \ {0}, NEW x, NEW g, Collects(g, ts, n, Len(ts)),
         \A i \in 1 .. Len(ts) : Free(ts[i].patches, x), NEW h \in 0 .. Len(ts)
  PROVE  Free(g[h], x)
  <1> DEFINE S == {i \in 0 .. h : ~Free(g[i], x)}
  <1>0. Len(ts) \in Nat
    OBVIOUS
  <1>1. SUFFICES ASSUME S # {} PROVE FALSE
    BY <1>0
  <1>2. PICK i \in S : \A j \in S : i <= j
    <2>1. S \in SUBSET Nat
      OBVIOUS
    <2>2. QED
      BY <1>1, <2>1, LeastOf
  <1>3. i \in 0 .. h /\ i \in 0 .. Len(ts) /\ i \in Nat /\ n \in Nat /\ h \in Nat
    BY <1>0, <1>2
  <1>4. g[i] = IF i < n THEN <<>> ELSE g[i - 1] \o ts[i].patches
    BY <1>3 DEF Collects
  <1>5. CASE i < n
    <2>1. <<>> \in Seq(Patches) /\ x \notin Named(<<>>)
      BY DEF Named
    <2>2. QED
      BY <1>2, <1>4, <1>5, <2>1 DEF Free
  <1>6. CASE ~(i < n)
    <2>1. i - 1 \in 0 .. h /\ i \in 1 .. Len(ts)
      BY <1>0, <1>3, <1>6
    <2>2. Free(g[i - 1], x)
      <3>1. i - 1 \notin S
        BY <1>2, <1>3
      <3>2. QED
        BY <2>1, <3>1
    <2>3. Free(ts[i].patches, x)
      BY <2>1
    <2>4. PICK ps, qs : ps = g[i - 1] /\ qs = ts[i].patches
      OBVIOUS
    <2>5. ps \in Seq(Patches) /\ qs \in Seq(Patches) /\ x \notin Named(ps) /\ x \notin Named(qs)
      BY <2>2, <2>3, <2>4 DEF Free
    <2>6. Named(ps \o qs) = Named(ps) \union Named(qs)
      BY <2>5, NamedConcat
    <2>7. Free(ps \o qs, x)
      BY <2>5, <2>6 DEF Free
    <2>8. QED
      BY <1>2, <1>4, <1>6, <2>4, <2>7
  <1>7. QED
    BY <1>5, <1>6

\* A file that no turn's patches name is in no patch from any turn on.
LEMMA PatchesFree ==
  ASSUME NEW ts \in Seq(Turns), NEW n \in Nat \ {0}, NEW x,
         \A i \in 1 .. Len(ts) : x \notin Named(ts[i].patches)
  PROVE  x \notin Named(PatchesFrom(ts, n))
  <1>0. Len(ts) \in Nat /\ n \in Nat \ {0} /\ Len(ts) \in 0 .. Len(ts)
    OBVIOUS
  <1>1. \A i \in 1 .. Len(ts) : Free(ts[i].patches, x)
    <2>1. \A i \in 1 .. Len(ts) : ts[i] \in Turns
      OBVIOUS
    <2>2. \A t \in Turns : t.patches \in Seq(Patches)
      BY DEF Turns
    <2>3. QED
      BY <2>1, <2>2 DEF Free
  <1>2. PICK g : Collects(g, ts, n, Len(ts))
    BY <1>0, CollectsExists
  <1>3. Free(g[Len(ts)], x)
    BY <1>0, <1>1, <1>2, CollectsFree
  <1>4. PatchesFrom(ts, n) = g[Len(ts)]
    BY <1>0, <1>2, FromCollects
  <1>5. QED
    BY <1>3, <1>4 DEF Free

\* A file that u's command and what it read leave alone.
LEMMA UserCommand ==
  ASSUME FilesTypeOK, NEW f \in Files, UserOK(f), NEW u \in Users
  PROVE  /\ f \notin Named(cmd[u].patches) /\ f \notin Named(Usable(repo, cmd[u].patches))
         /\ cmd[u].check # NoTree => cmd[u].check[f] = work[f]
  <1>1. cmd[u].patches \in Seq(Patches)
    BY DEF FilesTypeOK, Commands
  <1>2. QED
    BY <1>1, UsablePatches DEF UserOK, UserCmds

\* A tree that has f as it is takes it nowhere, however far its checkout comes.
LEMMA UserRestore ==
  ASSUME FilesTypeOK, NEW f \in Files, NEW u, NEW tree, tree # NoTree => tree[f] = work[f],
         Restore(tree) \/ RestoreFails(u, tree)
  PROVE  work'[f] = work[f]
  <1>1. CASE UNCHANGED disk
    BY <1>1 DEF disk
  <1>2. CASE Restore(tree)
    BY <1>1, <1>2 DEF Restore, Restored
  <1>3. ASSUME NEW missed, tree \in Trees, work' = But(missed, work, Restored(tree, work))
        PROVE  work'[f] = work[f]
    <2>1. tree[f] = work[f]
      BY <1>3, NoTreeIsNoHash DEF Trees
    <2>2. QED
      BY <1>3, <2>1 DEF But, Restored
  <1>4. QED
    BY <1>1, <1>2, <1>3 DEF RestoreFails

LEMMA UserRolls ==
  ASSUME NEW f \in Files, NEW ps, f \notin Named(ps), NEW missed, RollBack(ps, missed)
  PROVE  work'[f] = work[f]
  BY DEF RollBack, But, Reverted

\* No action but somebody's writing, and a tool's, changes it.
LEMMA UserWork ==
  ASSUME FilesTypeOK, Shape, UsersOK, [FilesNext]_filesVars, ~SomebodyWrites,
         NEW f \in Files \ (hist'.touched \union hist.spoilt)
  PROVE  work'[f] = work[f]
  <1>1. UserOK(f)
    BY HistGrows DEF UsersOK
  <1>2. CASE UNCHANGED work
    BY <1>2
  <1>3. CASE ToolWrites
    <2>0. DOMAIN hist = {"kept", "round", "touched", "foreign", "spoilt", "left", "redone", "astray"}
      BY DEF FilesTypeOK, Hist
    <2>1. PICK g \in Files : /\ WriteFile(g)
                             /\ hist' = [hist EXCEPT !.round = @ \union {g}, !.touched = @ \union {g},
                                                     !.astray = @ \/ loop.at # "round"]
      BY <1>3 DEF ToolWrites
    <2>2. f # g
      BY <2>0, <2>1
    <2>3. QED
      BY <2>1, <2>2, WriteType
  <1>4. ASSUME NEW u \in Users, TakeCheckpoint(u) PROVE work'[f] = work[f]
    <2>1. Restore(checkpoint) \/ RestoreFails(u, checkpoint) \/ UNCHANGED work
      BY <1>4 DEF TakeCheckpoint
    <2>2. QED
      BY <1>1, <1>2, <2>1, UserRestore DEF UserOK, UserCmds
  <1>5. ASSUME NEW u \in Users, RevertFiles(u) PROVE work'[f] = work[f]
    <2>1. PICK missed : RollBack(Usable(repo, cmd[u].patches), missed)
      BY <1>5 DEF RevertFiles
    <2>2. QED
      BY <1>1, <2>1, UserCommand, UserRolls
  <1>6. ASSUME NEW u \in Users, Unrevert(u) PROVE work'[f] = work[f]
    BY <1>1, <1>6, UserCommand, UserRestore DEF Unrevert
  <1>7. QED
    BY <1>2, <1>3, <1>4, <1>5, <1>6
    DEF FilesNext, filesVars, disk, Prompt, OpenRound, ReadOnlyRound, CloseRound, EndTurn, GhostCloses,
        CollectGarbage, Command, Undo, Revert, Redo, SaveCursor

\* Saving a patch of what differs, when f does not.
LEMMA UserPatch ==
  ASSUME FilesTypeOK, NEW f \in Files, \A n \in 1 .. Len(turns) : f \notin Named(turns[n].patches),
         NEW pre \in Trees, SavePatch(pre, Diff(pre, repo'.index)), repo'.index[f] = pre[f]
  PROVE  \A n \in 1 .. Len(turns') : f \notin Named(turns'[n].patches)
  <1>1. CASE turns' = turns
    BY <1>1
  <1>2. CASE turns' # turns
    <2>1. PICK p : p = [tree |-> pre, files |-> Diff(pre, repo'.index)]
      OBVIOUS
    <2>2. p \in Patches /\ f \notin p.files
      BY <2>1 DEF Patches, Diff
    <2>3. PICK us : us = WithPatch(turns, p)
      OBVIOUS
    <2>4. turns # <<>> /\ turns' = us /\ turns \in Seq(Turns)
      BY <1>2, <2>1, <2>3 DEF SavePatch, WithPatch, FilesTypeOK
    <2>s. Saved(turns, us, p)
      BY <2>2, <2>3, <2>4, SavedType, Zenon
    <2>5. /\ Len(us) = Len(turns) /\ \A i \in 1 .. Len(turns) - 1 : us[i] = turns[i]
          /\ us[Len(turns)].patches = Append(turns[Len(turns)].patches, p)
      BY <2>s DEF Saved
    <2>6. Len(turns) \in 1 .. Len(turns) /\ turns[Len(turns)].patches \in Seq(Patches)
      <3>1. Len(turns) \in 1 .. Len(turns) /\ turns[Len(turns)] \in Turns
        BY <2>4
      <3>2. QED
        BY <3>1 DEF Turns
    <2>7. PICK ps \in Seq(Patches) : ps = turns[Len(turns)].patches
      BY <2>6, Zenon
    <2>8. Named(Append(ps, p)) = Named(ps) \union p.files
      BY <2>2, <2>7, ValueAppend
    <2>9. f \notin Named(us[Len(turns)].patches)
      BY <2>2, <2>5, <2>6, <2>7, <2>8
    <2>10. \A n \in 1 .. Len(turns) : n = Len(turns) \/ n \in 1 .. Len(turns) - 1
      BY <2>6
    <2>11. QED
      BY <2>4, <2>5, <2>9, <2>10
  <1>3. QED
    BY <1>1, <1>2

\* After a prompt the patches are those of turns before it.
LEMMA UserPrompt ==
  ASSUME FilesTypeOK, Prompt, NEW f \in Files, \A n \in 1 .. Len(turns) : f \notin Named(turns[n].patches)
  PROVE  \A n \in 1 .. Len(turns') : f \notin Named(turns'[n].patches)
  <1>1. PICK visible : /\ visible = IF cursor \in DOMAIN turns THEN SubSeq(turns, 1, cursor - 1) ELSE turns
                       /\ turns' = Append(visible, [patches |-> <<>>, start |-> work])
    BY DEF Prompt
  <1>2. Len(turns) \in Nat /\ turns \in Seq(Turns) /\ cursor \in Nat /\ DOMAIN turns = 1 .. Len(turns)
    BY DEF FilesTypeOK
  <1>3. /\ visible \in Seq(Turns) /\ Len(visible) \in 0 .. Len(turns)
        /\ \A i \in 1 .. Len(visible) : visible[i] = turns[i]
    <2>1. CASE cursor \in DOMAIN turns
      BY <1>1, <1>2, <2>1
    <2>2. CASE cursor \notin DOMAIN turns
      BY <1>1, <1>2, <2>2
    <2>3. QED
      BY <2>1, <2>2
  <1>4. PICK t : t = [patches |-> <<>>, start |-> work]
    OBVIOUS
  <1>5. t.patches = <<>> /\ t \in Turns
    BY <1>4 DEF FilesTypeOK, Turns
  <1>6. /\ Len(turns') = Len(visible) + 1 /\ turns'[Len(visible) + 1] = t
        /\ \A i \in 1 .. Len(visible) : turns'[i] = visible[i]
    BY <1>1, <1>3, <1>4, <1>5
  <1>7. f \notin Named(<<>>)
    BY ValueNone
  <1>8. ASSUME NEW n \in 1 .. Len(turns') PROVE f \notin Named(turns'[n].patches)
    <2>1. CASE n = Len(visible) + 1
      BY <1>5, <1>6, <1>7, <2>1
    <2>2. CASE n # Len(visible) + 1
      <3>1. n \in 1 .. Len(visible) /\ n \in 1 .. Len(turns)
        BY <1>2, <1>3, <1>6, <2>2
      <3>2. turns'[n] = turns[n]
        BY <1>3, <1>6, <3>1
      <3>3. QED
        BY <3>1, <3>2
    <2>3. QED
      BY <2>1, <2>2
  <1>9. QED
    BY <1>8

\* ... and what the commands have read they keep, though its prompt is gone.
LEMMA UserCommands ==
  ASSUME FilesTypeOK, Prompt, NEW u \in Users
  PROVE  cmd'[u].patches = cmd[u].patches /\ cmd'[u].check = cmd[u].check
  <1>1. PICK k : cmd' = [v \in Users |-> IF cmd[v].target > k THEN [cmd[v] EXCEPT !.target = Gone] ELSE cmd[v]]
    BY DEF Prompt
  <1>2. cmd'[u] = cmd[u] \/ cmd'[u] = [cmd[u] EXCEPT !.target = Gone]
    BY <1>1
  <1>3. DOMAIN cmd[u] = {"at", "target", "patches", "check"}
    BY DEF FilesTypeOK, Commands
  <1>4. QED
    BY <1>2, <1>3

\* u's command, with nothing of f in it, leaves those of the others.
LEMMA UserSet ==
  ASSUME FilesTypeOK, NEW f \in Files, UserOK(f), work'[f] = work[f], NEW u \in Users, NEW x,
         cmd' = [cmd EXCEPT ![u] = x], f \notin Named(x.patches), x.check # NoTree => x.check[f] = work[f]
  PROVE  UserCmds(f)'
  <1>1. \A v \in Users : cmd'[v] = IF v = u THEN x ELSE cmd[v]
    BY DEF FilesTypeOK
  <1>2. QED
    BY <1>1 DEF UserOK, UserCmds

\* A command changes no turn; it may cancel the loop.
LEMMA UserStill ==
  ASSUME NEW f \in Files, UserOK(f), work'[f] = work[f], turns' = turns,
         loop' = loop \/ loop'.at = "none", ghost' = ghost \/ ghost' = loop,
         checkpoint' # NoTree => checkpoint'[f] = work[f],
         UserCmds(f)'
  PROVE  UserOK(f)'
  <1>1. \A n \in 1 .. Len(turns') : f \notin Named(turns'[n].patches)
    BY DEF UserOK, UserCmds
  <1>2. loop'.at = "round" /\ loop'.pre # NoTree => loop'.pre[f] = work'[f]
    BY DEF UserOK, UserCmds
  <1>3. ghost'.at = "round" /\ ghost'.pre # NoTree => ghost'.pre[f] = work'[f]
    BY DEF UserOK, UserCmds
  <1>4. QED
    BY <1>1, <1>2, <1>3 DEF UserOK, UserCmds

LEMMA UserBegins ==
  ASSUME FilesTypeOK, Shape, NEW f \in Files, UserOK(f), NEW u \in Users, Undo(u) \/ Revert(u) \/ Redo(u)
  PROVE  UserOK(f)'
  <1>0. /\ MaxTurns \in Nat /\ Len(turns) \in Nat /\ Len(turns) <= MaxTurns /\ Gone = MaxTurns + 1
        /\ DOMAIN turns = 1 .. Len(turns) /\ cursor \in 0 .. Gone
    BY BoundsAreNaturals DEF FilesTypeOK, Shape, Gone
  <1>1. UNCHANGED <<work, turns, checkpoint>>
    BY DEF Undo, Revert, Redo, disk, session
  <1>2. (ghost' = loop \/ ghost' = ghost) /\ (loop' = loop \/ loop'.at = "none")
    <2>1. CASE CancelLoop
      BY <2>1 DEF CancelLoop, NoLoop
    <2>2. QED
      BY <2>1 DEF Undo, Revert, Redo
  <1>3. \/ UNCHANGED cmd
        \/ \E target \in Nat \ {0} : target <= Gone /\ Begin(u, "checkpoint", target)
        \/ Begin(u, "restore", 0)
    <2>1. CASE Undo(u)
      <3>1. PICK target : /\ target = CASE cursor = 0 -> Len(turns) [] cursor = Gone -> 0 [] OTHER -> cursor - 1
                          /\ target = 0 \/ Begin(u, "checkpoint", target)
                          /\ target = 0 => UNCHANGED cmd
        BY <2>1 DEF Undo
      <3>2. target = 0 \/ (target \in Nat \ {0} /\ target <= Gone)
        BY <1>0, <3>1
      <3>3. QED
        BY <3>1, <3>2
    <2>2. CASE Revert(u)
      <3>1. PICK target \in DOMAIN turns : Begin(u, "checkpoint", target)
        BY <2>2 DEF Revert
      <3>2. target \in Nat \ {0} /\ target <= Gone
        BY <1>0, <3>1
      <3>3. QED
        BY <3>1, <3>2
    <2>3. CASE Redo(u)
      <3>1. cursor < Len(turns) => cursor + 1 \in Nat \ {0} /\ cursor + 1 <= Gone
        BY <1>0
      <3>2. QED
        BY <2>3, <3>1 DEF Redo
    <2>4. QED
      BY <2>1, <2>2, <2>3
  <1>4. ASSUME NEW target \in Nat, NEW at, Begin(u, at, target),
               \/ at = "checkpoint" /\ target # 0 /\ target <= Gone
               \/ at = "restore" /\ target = 0
        PROVE  UserCmds(f)'
    <2>1. PICK x \in Commands :
            /\ Tidy(x) /\ cmd' = [cmd EXCEPT ![u] = x]
            /\ x.at = at /\ x.target = target /\ x.check = IF at = "restore" THEN checkpoint ELSE NoTree
            /\ x.patches = IF target = 0 THEN <<>> ELSE PatchesFrom(turns, target)
      BY <1>4, BeginType
    <2>2. target # 0 => f \notin Named(PatchesFrom(turns, target))
      <3>1. turns \in Seq(Turns) /\ \A i \in 1 .. Len(turns) : f \notin Named(turns[i].patches)
        BY DEF FilesTypeOK, UserOK
      <3>2. QED
        BY <3>1, PatchesFree
    <2>3. f \notin Named(x.patches)
      BY <2>1, <2>2, ValueNone
    <2>4. x.check # NoTree => x.check[f] = work[f]
      BY <2>1 DEF UserOK, UserCmds
    <2>5. QED
      BY <1>1, <2>1, <2>3, <2>4, UserSet
  <1>5. UserCmds(f)'
    <2>1. CASE UNCHANGED cmd
      BY <1>1, <2>1 DEF UserOK, UserCmds
    <2>2. CASE Begin(u, "restore", 0)
      BY <1>4, <2>2
    <2>3. ASSUME NEW target \in Nat \ {0}, target <= Gone, Begin(u, "checkpoint", target)
          PROVE  UserCmds(f)'
      BY <1>4, <2>3
    <2>4. QED
      BY <1>3, <2>1, <2>2, <2>3
  <1>6. checkpoint' # NoTree => checkpoint'[f] = work[f]
    BY <1>1 DEF UserOK, UserCmds
  <1>7. QED
    BY <1>1, <1>2, <1>5, <1>6, UserStill

LEMMA UserCheckpoint ==
  ASSUME FilesTypeOK, ExcludeOK, NEW f \in Files, UserOK(f), work'[f] = work[f], f \notin hist'.spoilt,
         NEW u \in Users, TakeCheckpoint(u)
  PROVE  UserOK(f)'
  <1>h. DOMAIN hist = {"kept", "round", "touched", "foreign", "spoilt", "left", "redone", "astray"}
    BY DEF FilesTypeOK, Hist
  <1>1. UNCHANGED <<turns, checkpoint, loop, ghost>>
    BY DEF TakeCheckpoint, RestoreFails, GivesUp, session
  <1>2. ASSUME NEW tree, Keep(u, tree), tree # NoTree => tree[f] = work[f] PROVE UserOK(f)'
    <2>1. PICK x : x = [cmd[u] EXCEPT !.at = "revert", !.check = tree]
      OBVIOUS
    <2>2. x.check = tree /\ x.patches = cmd[u].patches
      BY <2>1 DEF FilesTypeOK, Commands
    <2>3. cmd' = [cmd EXCEPT ![u] = x]
      BY <1>2, <2>1 DEF Keep
    <2>4. UserCmds(f)'
      BY <1>2, <2>2, <2>3, UserCommand, UserSet
    <2>5. checkpoint' # NoTree => checkpoint'[f] = work[f]
      BY <1>1 DEF UserOK, UserCmds
    <2>6. QED
      BY <1>1, <2>4, <2>5, UserStill
  <1>3. CASE GivesUp(u)
    <2>1. UserCmds(f)'
      BY <1>3, UserSet, NoCmdType, ValueNone DEF GivesUp
    <2>2. checkpoint' # NoTree => checkpoint'[f] = work[f]
      BY <1>1 DEF UserOK, UserCmds
    <2>3. QED
      BY <1>1, <2>1, <2>2, UserStill
  <1>4. CASE Keep(u, checkpoint)
    BY <1>2, <1>4 DEF UserOK, UserCmds
  <1>5. ASSUME NEW missed, Snapshot(missed), Keep(u, repo'.index),
               hist' = [hist EXCEPT !.kept = work, !.spoilt = Unseen(missed)]
        PROVE  UserOK(f)'
    <2>1. hist'.spoilt = Unseen(missed)
      BY <1>h, <1>5
    <2>2. repo'.index[f] = work[f]
      BY <1>5, <2>1, SnapshotSeen
    <2>3. QED
      BY <1>2, <1>5, <2>2
  <1>6. CASE Keep(u, NoTree)
    BY <1>2, <1>6
  <1>7. QED
    BY <1>3, <1>4, <1>5, <1>6 DEF TakeCheckpoint, RestoreFails

\* The end of a command, however it ends.
LEMMA UserEnds ==
  ASSUME FilesTypeOK, NEW f \in Files, UserOK(f), work'[f] = work[f], NEW u \in Users,
         RevertFiles(u) \/ SaveCursor(u) \/ Unrevert(u)
  PROVE  UserOK(f)'
  <1>1. UNCHANGED <<turns, loop, ghost>>
    BY DEF RevertFiles, SaveCursor, Unrevert, RestoreFails, GivesUp, session
  <1>2. checkpoint' \in {checkpoint, NoTree, cmd[u].check}
    BY DEF RevertFiles, SaveCursor, Unrevert, RestoreFails, GivesUp, session
  <1>3. checkpoint' # NoTree => checkpoint'[f] = work'[f]
    BY <1>2, UserCommand DEF UserOK, UserCmds
  <1>4. CASE cmd' = [cmd EXCEPT ![u] = NoCmd]
    <2>1. UserCmds(f)'
      BY <1>4, UserSet, NoCmdType, ValueNone
    <2>2. QED
      BY <1>1, <1>3, <2>1, UserStill
  <1>5. CASE cmd' = [cmd EXCEPT ![u].at = "save"]
    <2>1. PICK x : x = [cmd[u] EXCEPT !.at = "save"]
      OBVIOUS
    <2>2. x.check = cmd[u].check /\ x.patches = cmd[u].patches
      BY <2>1 DEF FilesTypeOK, Commands
    <2>3. cmd' = [cmd EXCEPT ![u] = x]
      BY <1>5, <2>1
    <2>4. f \notin Named(x.patches) /\ (x.check # NoTree => x.check[f] = work[f])
      BY <2>2, UserCommand
    <2>5. UserCmds(f)'
      BY <2>3, <2>4, UserSet
    <2>6. QED
      BY <1>1, <1>3, <2>5, UserStill
  <1>6. QED
    BY <1>4, <1>5 DEF RevertFiles, SaveCursor, Unrevert, RestoreFails, GivesUp

\* The rounds.
LEMMA UserRounds ==
  ASSUME FilesTypeOK, Shape, ExcludeOK, NEW f \in Files, UserOK(f), f \notin hist'.spoilt, work'[f] = work[f],
         OpenRound \/ ReadOnlyRound \/ CloseRound \/ EndTurn \/ GhostCloses
  PROVE  UserOK(f)'
  <1>h. DOMAIN hist = {"kept", "round", "touched", "foreign", "spoilt", "left", "redone", "astray"}
    BY DEF FilesTypeOK, Hist
  <1>d. DOMAIN loop = {"at", "pre"}
    BY DEF FilesTypeOK
  <1>s. ASSUME UNCHANGED <<cmd, checkpoint>>,
               \A n \in 1 .. Len(turns') : f \notin Named(turns'[n].patches),
               loop'.at = "round" /\ loop'.pre # NoTree => loop'.pre[f] = work[f],
               ghost' = ghost \/ ghost'.at = "none"
        PROVE  UserOK(f)'
    BY <1>s DEF UserOK, UserCmds
  <1>n. \A n \in 1 .. Len(turns) : f \notin Named(turns[n].patches)
    BY DEF UserOK, UserCmds
  <1>1. CASE OpenRound
    <2>1. UNCHANGED <<turns, cmd, checkpoint, ghost>>
      BY <1>1 DEF OpenRound, session
    <2>2. loop'.pre # NoTree => loop'.pre[f] = work[f]
      <3>1. ASSUME NEW missed, Snapshot(missed), loop' = [at |-> "round", pre |-> repo'.index],
                   hist' = [hist EXCEPT !.round = StillOpen(ghost), !.spoilt = Unseen(missed)]
            PROVE  loop'.pre[f] = work[f]
        <4>1. hist'.spoilt = Unseen(missed)
          BY <1>h, <3>1
        <4>2. repo'.index[f] = work[f]
          BY <3>1, <4>1, SnapshotSeen
        <4>3. QED
          BY <3>1, <4>2
      <3>2. CASE /\ loop' = [loop EXCEPT !.at = "round"]
                 /\ hist' = [hist EXCEPT !.round = StillOpen(ghost), !.spoilt = Unseen(SincePre)]
        <4>1. f \notin SincePre /\ loop'.pre = loop.pre
          BY <1>h, <1>d, <3>2 DEF Unseen
        <4>2. QED
          BY <4>1 DEF SincePre, Diff
      <3>3. QED
        BY <1>1, <3>1, <3>2 DEF OpenRound
    <2>3. QED
      BY <1>n, <1>s, <2>1, <2>2
  <1>2. CASE ReadOnlyRound
    <2>1. UNCHANGED <<turns, cmd, checkpoint, ghost>> /\ loop'.pre = NoTree
      BY <1>2, <1>d DEF ReadOnlyRound, disk, session
    <2>2. QED
      BY <1>n, <1>s, <2>1
  <1>3. CASE CloseRound
    <2>1. UNCHANGED <<cmd, checkpoint, ghost>> /\ loop.at = "round"
      BY <1>3 DEF CloseRound
    <2>2. ASSUME NEW missed, loop.pre # NoTree, Snapshot(missed), SavePatch(loop.pre, Diff(loop.pre, repo'.index)),
                 loop' = [at |-> "ask", pre |-> repo'.index],
                 hist' = [hist EXCEPT !.spoilt = Unseen(missed), !.round = StillOpen(ghost)]
          PROVE  UserOK(f)'
      <3>1. hist'.spoilt = Unseen(missed)
        BY <1>h, <2>2
      <3>2. repo'.index[f] = work[f]
        BY <2>2, <3>1, SnapshotSeen
      <3>3. loop.pre[f] = work[f]
        BY <2>1, <2>2 DEF UserOK, UserCmds
      <3>4. loop.pre \in Trees
        BY <2>2 DEF FilesTypeOK, Hashes
      <3>5. \A n \in 1 .. Len(turns') : f \notin Named(turns'[n].patches)
        BY <1>n, <2>2, <3>2, <3>3, <3>4, UserPatch
      <3>6. loop'.at = "ask"
        BY <2>2
      <3>7. QED
        BY <1>s, <2>1, <3>5, <3>6
    <2>3. CASE loop' = [loop EXCEPT !.at = "ask"] /\ NoPatch(ghost)
      <3>1. turns' = turns /\ loop'.at = "ask"
        BY <1>d, <2>3 DEF NoPatch
      <3>2. QED
        BY <1>n, <1>s, <2>1, <3>1
    <2>4. QED
      BY <1>3, <2>2, <2>3 DEF CloseRound
  <1>4. CASE EndTurn
    <2>1. UNCHANGED <<turns, cmd, checkpoint, ghost>> /\ loop'.at = "none"
      BY <1>4 DEF EndTurn, NoPatch, NoLoop
    <2>2. QED
      BY <1>n, <1>s, <2>1
  <1>5. CASE GhostCloses
    <2>1. UNCHANGED <<cmd, checkpoint, loop>> /\ ghost.at = "round" /\ ghost'.at = "none"
      BY <1>5 DEF GhostCloses, NoLoop
    <2>2. ASSUME NEW missed, ghost.pre # NoTree, Snapshot(missed), SavePatch(ghost.pre, Diff(ghost.pre, repo'.index)),
                 hist' = [hist EXCEPT !.spoilt = Unseen(missed), !.astray = TRUE, !.round = StillOpen(loop)]
          PROVE  UserOK(f)'
      <3>1. hist'.spoilt = Unseen(missed)
        BY <1>h, <2>2
      <3>2. repo'.index[f] = work[f]
        BY <2>2, <3>1, SnapshotSeen
      <3>3. ghost.pre[f] = work[f]
        BY <2>1, <2>2 DEF UserOK, UserCmds
      <3>4. ghost.pre \in Trees
        BY <2>2 DEF FilesTypeOK, Hashes
      <3>5. \A n \in 1 .. Len(turns') : f \notin Named(turns'[n].patches)
        BY <1>n, <2>2, <3>2, <3>3, <3>4, UserPatch
      <3>6. QED
        BY <1>s, <2>1, <3>5 DEF UserOK, UserCmds
    <2>3. CASE NoPatch(loop)
      <3>1. turns' = turns
        BY <2>3 DEF NoPatch
      <3>2. QED
        BY <1>n, <1>s, <2>1, <3>1 DEF UserOK, UserCmds
    <2>4. QED
      BY <1>5, <2>2, <2>3 DEF GhostCloses
  <1>6. QED
    BY <1>1, <1>2, <1>3, <1>4, <1>5

LEMMA UserStep ==
  ASSUME FilesTypeOK, Shape, ExcludeOK, UsersOK, [FilesNext]_filesVars
  PROVE  UsersOK'
  <1> SUFFICES ASSUME NEW f \in Files, f \notin hist'.touched, f \notin hist'.spoilt
               PROVE  UserOK(f)'
    BY DEF UsersOK
  <1>1. UserOK(f) /\ f \notin hist.spoilt /\ f \notin hist.touched
    BY HistGrows DEF UsersOK
  <1>2. ~SomebodyWrites => work'[f] = work[f]
    BY <1>1, UserWork
  <1>h. DOMAIN hist = {"kept", "round", "touched", "foreign", "spoilt", "left", "redone", "astray"}
    BY DEF FilesTypeOK, Hist
  <1>3. CASE Prompt
    <2>1. /\ loop'.at = "ask" /\ checkpoint' = NoTree /\ work' = work /\ ghost' = ghost
      BY <1>3 DEF Prompt, NoLoop, disk
    <2>2. \A n \in 1 .. Len(turns') : f \notin Named(turns'[n].patches)
      BY <1>1, <1>3, UserPrompt DEF UserOK, UserCmds
    <2>3. \A u \in Users : cmd'[u].patches = cmd[u].patches /\ cmd'[u].check = cmd[u].check
      BY <1>3, UserCommands
    <2>4. QED
      BY <1>1, <2>1, <2>2, <2>3 DEF UserOK, UserCmds
  <1>4. CASE SomebodyWrites
    <2>1. PICK g \in Files :
             /\ WriteFile(g)
             /\ hist' = [hist EXCEPT
                  !.foreign = @ \union {g},
                  !.spoilt = IF Reverting \/ "round" \in {loop.at, ghost.at} THEN @ \union {g} ELSE @]
      BY <1>4 DEF SomebodyWrites
    <2>2. UNCHANGED <<turns, checkpoint, ghost, cmd, loop>>
      BY <1>4 DEF SomebodyWrites, session
    <2>3. CASE f = g
      <3>1. hist'.spoilt = IF Reverting \/ "round" \in {loop.at, ghost.at} THEN hist.spoilt \union {g}
                           ELSE hist.spoilt
        BY <1>h, <2>1
      <3>2. ~Busy /\ cursor = 0 /\ loop.at # "round" /\ ghost.at # "round"
        BY <2>3, <3>1 DEF Reverting
      <3>3. checkpoint = NoTree /\ \A u \in Users : cmd[u].check = NoTree
        BY <3>2, NoCmdType DEF Shape, Busy, Tidy
      <3>4. QED
        BY <1>1, <2>2, <3>2, <3>3 DEF UserOK, UserCmds
    <2>4. CASE f # g
      <3>1. work'[f] = work[f]
        BY <2>1, <2>4, WriteType
      <3>2. QED
        BY <1>1, <2>2, <3>1 DEF UserOK, UserCmds
    <2>5. QED
      BY <2>3, <2>4
  <1>5. CASE ToolWrites \/ CollectGarbage \/ UNCHANGED filesVars
    <2>1. UNCHANGED <<turns, checkpoint, ghost, cmd, loop>>
      BY <1>5 DEF ToolWrites, CollectGarbage, filesVars, session
    <2>2. work'[f] = work[f]
      <3>1. CASE ToolWrites
        <4>1. PICK g \in Files : /\ WriteFile(g)
                                 /\ hist' = [hist EXCEPT !.round = @ \union {g}, !.touched = @ \union {g},
                                                         !.astray = @ \/ loop.at # "round"]
          BY <3>1 DEF ToolWrites
        <4>2. f # g
          BY <1>h, <4>1
        <4>3. QED
          BY <4>1, <4>2, WriteType
      <3>2. CASE CollectGarbage \/ UNCHANGED filesVars
        BY <3>2 DEF CollectGarbage, filesVars, disk
      <3>3. QED
        BY <1>5, <3>1, <3>2
    <2>3. QED
      BY <1>1, <2>1, <2>2 DEF UserOK, UserCmds
  <1>6. CASE SomebodyWrites \/ work'[f] = work[f]
    <2>1. SUFFICES ASSUME work'[f] = work[f] PROVE UserOK(f)'
      BY <1>4, <1>6
    <2>2. CASE OpenRound \/ ReadOnlyRound \/ CloseRound \/ EndTurn \/ GhostCloses
      BY <1>1, <2>1, <2>2, UserRounds
    <2>3. ASSUME NEW u \in Users, Command(u) PROVE UserOK(f)'
      BY <1>1, <2>1, <2>3, UserBegins, UserCheckpoint, UserEnds DEF Command
    <2>4. QED
      BY <1>3, <1>4, <1>5, <2>2, <2>3 DEF FilesNext
  <1>7. QED
    BY <1>2, <1>6

-----------------------------------------------------------------------------
(* The theorems. *)

LEMMA FilesInvInit == FilesInit => FilesInv
  <1> SUFFICES ASSUME FilesInit PROVE FilesInv
    OBVIOUS
  <1>1. FilesTypeOK /\ Shape /\ ExcludeOK
    BY FilesTypeInit
  <1>2. /\ turns = <<>> /\ cursor = 0 /\ checkpoint = NoTree /\ loop.at = "none" /\ ghost.at = "none"
        /\ Len(turns) = 0 /\ repo.pruned = {} /\ ~hist.astray /\ \A u \in Users : cmd[u] = NoCmd
    BY DEF FilesInit, NoLoop, EmptyRepository
  <1>3. ~Busy
    BY <1>2, NoCmdType DEF Busy
  <1>4. Now = NoCmd /\ Now.at = "none" /\ Alone(cmd)
    BY <1>3, NowIdle
  <1>5. Straight
    BY <1>2, <1>4 DEF Straight
  <1>6. FilesOK
    BY <1>2, <1>4 DEF FilesOK, FileOK, RoundOK, ChainOK, Chain, CheckOK, UndoneOK
  <1>7. UsersOK
    <2>1. \A f : f \notin Named(<<>>)
      BY ValueNone
    <2>2. QED
      BY <1>2, <2>1, NoCmdType DEF UsersOK, UserOK, UserCmds
  <1>8. QED
    BY <1>1, <1>5, <1>6, <1>7 DEF FilesInv

LEMMA FilesInvStep == FilesInv /\ [FilesNext]_filesVars => FilesInv'
  BY TypeStep, StraightStep, ExcludeStep, FileStep, UserStep DEF FilesInv

LEMMA FilesInvariant == FilesSpec => []FilesInv
  BY FilesInvInit, FilesInvStep, PTL DEF FilesSpec

\* Type correctness, for every set of files, contents, users and bounds.
THEOREM FilesTypeCorrect == FilesSpec => []FilesTypeOK
  BY FilesInvariant, PTL DEF FilesInv

\* Reverting the patches of the hidden turns (revert_to_message, SnapshotService::revert)
\* takes every file that is Sound back to what it was when the prompt at the cursor was
\* sent, after any number of rounds, turns, undos and redos; a failure is excused only
\* where it bites: a file git missed, or a command that ended midway or crossed another.
THEOREM UndoReturns == FilesSpec => []UndoRestores
  <1>1. FilesInv => UndoRestores
    <2> SUFFICES ASSUME FilesInv, cursor # 0, ~Busy, NEW f \in Files, Sound(f)
                 PROVE  \/ work[f] = turns[cursor].start[f]
                        \/ hist.redone /\ turns[cursor].start[f] = Absent
      BY DEF UndoRestores
    <2>0. ~hist.astray /\ Now.at = "none"
      BY NowIdle DEF Sound
    <2>1. FileOK(f)
      BY DEF FilesInv, FilesOK
    <2>2. Back(f, cursor)
      BY <2>0, <2>1 DEF FileOK, UndoneOK
    <2>3. loop.at = "none" /\ cursor \in 1 .. Len(turns)
      BY <2>0 DEF FilesInv, Straight, FilesTypeOK
    <2>4. Value(PatchesFrom(turns, cursor), f, hist.kept[f]) = turns[cursor].start[f]
      BY <2>1, <2>3 DEF FileOK, ChainOK, Chain, Base, Undone
    <2>5. QED
      BY <2>2, <2>4 DEF Back, Unchanged, Value
  <1>2. QED
    BY <1>1, FilesInvariant, PTL

\* No command and no snapshot changes what only the user wrote, whatever fails midway and
\* whatever crosses: no patch names such a file, and every snapshot that is restored has
\* it as it is.
THEOREM UsersFilesStay == FilesSpec => UserFilesAreKept
  <1>1. FilesInv /\ [FilesNext]_filesVars =>
          [SomebodyWrites \/ \A f \in Files \ (hist'.touched \union hist.spoilt) :
                                work'[f] = work[f]]_filesVars
    BY UserWork DEF FilesInv
  <1>2. QED
    BY <1>1, FilesInvariant, PTL DEF FilesSpec, UserFilesAreKept

\* The redo that reaches the end of the history (unrevert_workspace) brings back every
\* file that is Sound and was there when the first undo began, whatever undo and redo
\* did in between.
THEOREM RedoReturns == FilesSpec => RedoRestores
  <1>1. ASSUME FilesInv, [FilesNext]_filesVars, NEW u \in Users, cmd[u].at = "restore", cmd'[u].at = "none",
               cursor' = 0, NEW f \in Files, Sound(f)
        PROVE  hist.kept[f] \in {work'[f], Absent}
    <2>1. /\ Now.at = "restore" /\ Now = cmd[u] /\ loop.at = "none" /\ cursor # 0
          /\ checkpoint # NoTree /\ cmd[u].check = checkpoint /\ ~hist.astray
      BY <1>1, CommandIs DEF FilesInv, Straight, Sound
    <2>2. Unrevert(u)
      <3>1. ~Prompt
        <4>1. CASE Prompt
          <5>1. PICK k : cmd' = [v \in Users |-> IF cmd[v].target > k THEN [cmd[v] EXCEPT !.target = Gone] ELSE cmd[v]]
            BY <4>1 DEF Prompt
          <5>2. cmd'[u] = cmd[u] \/ cmd'[u] = [cmd[u] EXCEPT !.target = Gone]
            BY <5>1
          <5>3. DOMAIN cmd[u] = {"at", "target", "patches", "check"}
            <6>1. cmd[u] \in Commands
              BY <1>1 DEF FilesInv, FilesTypeOK
            <6>2. QED
              BY <6>1 DEF Commands
          <5>4. QED
            BY <1>1, <5>2, <5>3
        <4>2. QED
          BY <4>1
      <3>2. cmd' # cmd
        BY <1>1
      <3>3. PICK v \in Users : Command(v)
        BY <1>1, <3>1, <3>2
        DEF FilesNext, filesVars, OpenRound, ReadOnlyRound, ToolWrites, SomebodyWrites,
            CloseRound, EndTurn, GhostCloses, CollectGarbage
      <3>4. v # u => cmd'[u] = cmd[u]
        <4>1. cmd' = cmd \/ \E x : cmd' = [cmd EXCEPT ![v] = x]
          <5>1. cmd' = [cmd EXCEPT ![v].at = "save"] => cmd' = [cmd EXCEPT ![v] = [cmd[v] EXCEPT !.at = "save"]]
            OBVIOUS
          <5>2. \A tree : Keep(v, tree) => \E x : cmd' = [cmd EXCEPT ![v] = x]
            BY DEF Keep
          <5>3. \A at, target : Begin(v, at, target) => \E x : cmd' = [cmd EXCEPT ![v] = x]
            BY DEF Begin
          <5>4. GivesUp(v) => \E x : cmd' = [cmd EXCEPT ![v] = x]
            BY DEF GivesUp
          <5>5. CASE Undo(v) \/ Revert(v) \/ Redo(v)
            BY <5>3, <5>5 DEF Undo, Revert, Redo
          <5>6. CASE TakeCheckpoint(v) \/ RevertFiles(v) \/ SaveCursor(v) \/ Unrevert(v)
            BY <5>1, <5>2, <5>4, <5>6 DEF TakeCheckpoint, RevertFiles, SaveCursor, Unrevert, RestoreFails
          <5>7. QED
            BY <3>3, <5>5, <5>6 DEF Command
        <4>2. cmd \in [Users -> Commands]
          BY <1>1 DEF FilesInv, FilesTypeOK
        <4>3. QED
          BY <4>1, <4>2
      <3>5. v = u
        BY <1>1, <3>4
      <3>6. QED
        BY <1>1, <3>3, <3>5 DEF Command, Undo, Revert, Redo, TakeCheckpoint, RevertFiles, SaveCursor
    <2>3. FileOK(f)
      BY <1>1 DEF FilesInv, FilesOK
    <2>4. Restore(checkpoint)
      <3>1. ~GivesUp(u)
        BY <1>1, <2>1 DEF GivesUp, session
      <3>2. QED
        BY <2>1, <2>2, <3>1 DEF Unrevert, RestoreFails
    <2>5. work'[f] = IF hist.kept[f] = Absent THEN work[f] ELSE hist.kept[f]
      BY <2>1, <2>3, <2>4, Returns
    <2>6. QED
      BY <2>5
  <1>2. FilesInv /\ [FilesNext]_filesVars =>
          [\A u \in Users : cmd[u].at = "restore" /\ cmd'[u].at = "none" /\ cursor' = 0 =>
             \A f \in Files : Sound(f) => hist.kept[f] \in {work'[f], Absent}]_filesVars
    BY <1>1
  <1>3. QED
    BY <1>2, FilesInvariant, PTL DEF FilesSpec, RedoRestores
=============================================================================
