-------------------------- MODULE SessionLoopProofs --------------------------
(***************************************************************************)
(* Proofs about SessionLoop, for every set of prompts and every bound:     *)
(* type correctness, the mutual exclusion of agent loops and the agreement *)
(* of buffer and store until the first cancellation, the refinement of     *)
(* PromptLedger, and the order of submissions.                             *)
(***************************************************************************)
EXTENDS SessionLoop, SequenceTheorems, TLAPS

-----------------------------------------------------------------------------
(* The inductive invariants. *)

\* The host between deciding to start a loop and claiming the session ...
Starting == {"persist", "buffer", "load", "set_buffer", "claim"}

\* ... and between claiming it and having spawned the task.
Claimed == {"claimed", "armed", "signalled"}

\* What the types of the next state rest on.
Bookkeeping ==
  /\ loaded <= Len(store)
  /\ host \in Starting => started < MaxLoops
  /\ host \in Claimed \cup {"spawned"} => started \in Loops
  /\ \A l \in Loops : loop[l] = "append" => draining[l] # <<>>

TypeInv == TypeOK /\ Bookkeeping

\* OneLoop is not inductive: what excludes a second loop is where the host is.
Exclusion ==
  /\ \A k, l \in Active : k = l
  /\ Active # {} => busy
  /\ host \in Starting => Active = {}
  /\ host \in Claimed => busy /\ Active = {}
  /\ host = "spawned" => Active \subseteq {started}

OneLoopInv == cancels = 0 => Exclusion

-----------------------------------------------------------------------------
(* Type correctness. *)

\* The control states by name, so that the sets need not be expanded.
LEMMA States ==
  /\ {"unused", "outer", "top", "prepare", "append", "file", "request", "stream",
      "tools", "swap", "check", "drop_token", "drop_busy", "drop_signal", "gone"}
       \subseteq LoopStates
  /\ {"idle", "push_queue", "push_steer", "persist", "buffer", "load", "set_buffer",
      "claim", "claimed", "armed", "signalled", "spawned"} \subseteq HostStates
  BY DEF LoopStates, HostStates

\* What a sequence of prompts holds are prompts.
LEMMA RangeOfPrompts ==
  ASSUME NEW s \in Seq(Prompts)
  PROVE  Range(s) \in SUBSET Prompts
  <1>1. \A i \in DOMAIN s : s[i] \in Prompts
    BY ElementOfSeq, LenProperties
  <1>2. QED
    BY <1>1 DEF Range

LEMMA TypeInit == Init => TypeInv
  <1> SUFFICES ASSUME Init PROVE TypeInv
    OBVIOUS
  <1>1. <<>> \in Seq(Prompts) /\ Len(<<>>) = 0
    BY EmptySeq
  <1>2. TypeOK
    <2>1. 0 \in 0 .. MaxLoops
      BY BoundsAssumption
    <2>2. /\ loop \in [Loops -> LoopStates] /\ draining \in [Loops -> Seq(Prompts)]
          /\ filing \in [Loops -> SUBSET Prompts] /\ flag \in [Loops -> BOOLEAN]
      BY <1>1, States DEF Init
    <2>3. QED
      BY <1>1, <2>1, <2>2, States DEF Init, TypeOK, None
  <1>3. Bookkeeping
    BY <1>1 DEF Init, Bookkeeping, Starting, Claimed
  <1>4. QED
    BY <1>2, <1>3 DEF TypeInv

\* A step of a task leaves the host where it is.
LEMMA TypeTask ==
  ASSUME TypeInv, NEW l \in Loops, Task(l)
  PROVE  TypeInv'
  <1> USE States
      DEF TypeInv, TypeOK, Bookkeeping, hostVars, tableVars, dataVars, taskVars,
          histVars, bounds, Go, Fail, Return, None
  <1>1. ASSUME Outer(l) PROVE TypeInv'
    BY <1>1 DEF Outer
  <1>2. ASSUME Top(l) PROVE TypeInv'
    BY <1>2 DEF Top
  <1>3. ASSUME PrepareFails(l) PROVE TypeInv'
    BY <1>3 DEF PrepareFails
  <1>4. ASSUME Drain(l) PROVE TypeInv'
    BY <1>4 DEF Drain
  <1>5. ASSUME AppendStore(l) PROVE TypeInv'
    BY <1>5 DEF AppendStore
  <1>6. ASSUME AppendFails(l) PROVE TypeInv'
    BY <1>6 DEF AppendFails, PutBack
  <1>7. ASSUME AppendBuffer(l) PROVE TypeInv'
    BY <1>7 DEF AppendBuffer, Shown
  <1>8. ASSUME Request(l) PROVE TypeInv'
    <2>1. Range(buffer) \in SUBSET Prompts
      BY RangeOfPrompts
    <2>2. CASE buffer = <<>>
      BY <1>8, <2>2 DEF Request
    <2>3. CASE buffer # <<>>
      BY <1>8, <2>1, <2>3 DEF Request
    <2>4. QED
      BY <2>2, <2>3
  <1>9. ASSUME StreamTools(l) PROVE TypeInv'
    BY <1>9 DEF StreamTools
  <1>10. ASSUME StreamAnswer(l) PROVE TypeInv'
    BY <1>10 DEF StreamAnswer
  <1>11. ASSUME StreamFails(l) PROVE TypeInv'
    BY <1>11 DEF StreamFails
  <1>12. ASSUME ToolsDone(l) PROVE TypeInv'
    BY <1>12 DEF ToolsDone
  <1>13. ASSUME Swap(l) PROVE TypeInv'
    BY <1>13 DEF Swap, Consumed
  <1>14. ASSUME Check(l) PROVE TypeInv'
    BY <1>14 DEF Check
  <1>15. ASSUME DropToken(l) PROVE TypeInv'
    BY <1>15 DEF DropToken
  <1>16. ASSUME DropBusy(l) PROVE TypeInv'
    BY <1>16 DEF DropBusy
  <1>17. ASSUME DropSignal(l) PROVE TypeInv'
    BY <1>17 DEF DropSignal
  <1>18. QED
    BY <1>1, <1>2, <1>3, <1>4, <1>5, <1>6, <1>7, <1>8, <1>9, <1>10, <1>11, <1>12, <1>13, <1>14, <1>15, <1>16, <1>17 DEF Task

\* A step of the host or of a canceller leaves the tasks where they are, but for
\* the one it spawns.
LEMMA TypeHost ==
  ASSUME TypeInv,
         \/ \E p \in Prompts : Submit(p)
         \/ Continue \/ HostStep \/ Cancellation
  PROVE  TypeInv'
  <1> USE States, BoundsAssumption
      DEF TypeInv, TypeOK, Bookkeeping, Starting, Claimed, hostVars, tableVars, dataVars,
          taskVars, histVars, bounds, Go, Fail, None, MayStart
  <1>1. ASSUME NEW p \in Prompts, Submit(p) PROVE TypeInv'
    BY <1>1 DEF Submit, Fresh
  <1>2. ASSUME NEW p \in Prompts, PushPending(p) PROVE TypeInv'
    BY <1>2 DEF PushPending, Enqueue
  <1>3. ASSUME NEW p \in Prompts, PersistStore(p) PROVE TypeInv'
    <2>1. CASE host' = "buffer"
      <3>1. /\ store' = Append(store, p) /\ accepted' = Append(accepted, p)
            /\ UNCHANGED <<current, failures>> /\ host = "persist"
        BY <1>3, <2>1 DEF PersistStore
      <3>2. /\ store' \in Seq(Prompts) /\ accepted' \in Seq(Prompts)
            /\ Len(store') = Len(store) + 1 /\ Len(store) \in Nat
        BY <3>1, AppendProperties, LenProperties
      <3>3. QED
        BY <1>3, <2>1, <3>1, <3>2 DEF PersistStore
    <2>2. CASE host' = "idle"
      BY <1>3, <2>2 DEF PersistStore
    <2>3. QED
      BY <1>3, <2>1, <2>2 DEF PersistStore
  <1>4. ASSUME NEW p \in Prompts, PersistBuffer(p) PROVE TypeInv'
    BY <1>4 DEF PersistBuffer, Shown
  <1>5. ASSUME Continue PROVE TypeInv'
    BY <1>5 DEF Continue
  <1>6. ASSUME LoadStore PROVE TypeInv'
    BY <1>6 DEF LoadStore
  <1>7. ASSUME SetBuffer PROVE TypeInv'
    BY <1>7 DEF SetBuffer
  <1>8. ASSUME Claim PROVE TypeInv'
    <2>1. CASE busy
      BY <1>8, <2>1 DEF Claim
    <2>2. CASE ~busy
      <3>1. started + 1 \in 0 .. MaxLoops /\ started + 1 \in Loops
        BY <1>8 DEF Claim, Loops
      <3>2. QED
        BY <1>8, <2>2, <3>1 DEF Claim
    <2>3. QED
      BY <2>1, <2>2
  <1>9. ASSUME InsertToken PROVE TypeInv'
    BY <1>9 DEF InsertToken
  <1>10. ASSUME InsertSignal PROVE TypeInv'
    BY <1>10 DEF InsertSignal
  <1>11. ASSUME Spawn PROVE TypeInv'
    BY <1>11 DEF Spawn
  <1>12. ASSUME MarkBusy PROVE TypeInv'
    BY <1>12 DEF MarkBusy
  <1>13. ASSUME NEW kind \in {"session", "all"}, CancelToken(kind) PROVE TypeInv'
    <2>1. cancelled' \in SUBSET Loops
      BY <1>13 DEF CancelToken
    <2>2. canceller' \in {"no", "session", "all"} /\ cancels' \in Nat
      BY <1>13 DEF CancelToken
    <2>3. token' \in Loops \cup {None} /\ busy' \in BOOLEAN
      BY <1>13 DEF CancelToken
    <2>4. UNCHANGED <<hostVars, signal, handle, dataVars, taskVars, histVars,
                      toolRounds, failures>>
      BY <1>13 DEF CancelToken
    <2>5. QED
      BY <2>1, <2>2, <2>3, <2>4
  <1>14. ASSUME CancelPending PROVE TypeInv'
    <2>1. Range(pending) \in SUBSET Prompts
      BY RangeOfPrompts
    <2>2. signal' \in Loops \cup {None}
      BY <1>14 DEF CancelPending
    <2>3. <<>> \in Seq(Prompts)
      BY EmptySeq
    <2>4. QED
      BY <1>14, <2>1, <2>2, <2>3 DEF CancelPending
  <1>15. QED
    BY <1>1, <1>2, <1>3, <1>4, <1>5, <1>6, <1>7, <1>8, <1>9, <1>10, <1>11, <1>12, <1>13, <1>14 DEF HostStep, Cancellation

LEMMA TypeNext == TypeInv /\ [Next]_vars => TypeInv'
  <1> SUFFICES ASSUME TypeInv, [Next]_vars PROVE TypeInv'
    OBVIOUS
  <1>1. CASE UNCHANGED vars
    BY <1>1 DEF vars, TypeInv, TypeOK, Bookkeeping, hostVars, tableVars, dataVars,
                taskVars, histVars, bounds
  <1>2. CASE Next
    BY <1>2, TypeTask, TypeHost DEF Next
  <1>3. QED
    BY <1>1, <1>2

(* Every reachable state is well typed, however host, canceller and tasks   *)
(* interleave.                                                             *)
THEOREM TypeCorrect == Spec => []TypeOK
  <1>1. TypeInv => TypeOK
    BY DEF TypeInv
  <1>2. QED
    BY TypeInit, TypeNext, <1>1, PTL DEF Spec

-----------------------------------------------------------------------------
(* Mutual exclusion of the loops of a session. *)

LEMMA RunningStates ==
  /\ {"outer", "top", "prepare", "append", "file", "request", "stream", "tools",
      "swap", "check", "drop_token", "drop_busy"} \subseteq Running
  /\ "unused" \notin Running /\ "drop_signal" \notin Running /\ "gone" \notin Running
  BY DEF Running, LoopStates

\* A task that stays between its spawn and the guard's removal from busy_sessions
\* disturbs nothing.
LEMMA StaysActive ==
  ASSUME TypeInv, OneLoopInv, NEW l \in Loops, loop[l] \in Running,
         NEW state \in Running, Go(l, state),
         UNCHANGED <<host, busy, started, cancels>>
  PROVE  OneLoopInv'
  <1>1. loop \in [Loops -> LoopStates]
    BY DEF TypeInv, TypeOK
  <1>2. Active' = Active
    BY <1>1 DEF Active, Go
  <1>3. QED
    BY <1>2 DEF OneLoopInv, Exclusion

\* Neither does a step of the host or the canceller that starts nothing.
LEMMA SameTasks ==
  ASSUME OneLoopInv, UNCHANGED <<loop, busy, started, cancels>>,
         \/ host' \in {host, "idle", "push_queue", "push_steer"}
         \/ host \in Starting /\ host' \in Starting
         \/ host \in Claimed /\ host' \in Claimed
         \/ ~busy /\ host' \in Starting
  PROVE  OneLoopInv'
  <1>1. Active' = Active
    BY DEF Active
  <1>2. QED
    BY <1>1 DEF OneLoopInv, Exclusion, Starting, Claimed

LEMMA OneLoopTask ==
  ASSUME TypeInv, OneLoopInv, NEW l \in Loops, Task(l)
  PROVE  OneLoopInv'
  <1> USE RunningStates, StaysActive
      DEF hostVars, tableVars, dataVars, taskVars, histVars, bounds, Return
  <1>1. ASSUME Outer(l) PROVE OneLoopInv'
    BY <1>1 DEF Outer
  <1>2. ASSUME Top(l) PROVE OneLoopInv'
    BY <1>2 DEF Top
  <1>3. ASSUME PrepareFails(l) PROVE OneLoopInv'
    BY <1>3 DEF PrepareFails
  <1>4. ASSUME Drain(l) PROVE OneLoopInv'
    BY <1>4 DEF Drain
  <1>5. ASSUME AppendStore(l) PROVE OneLoopInv'
    BY <1>5 DEF AppendStore
  <1>6. ASSUME AppendFails(l) PROVE OneLoopInv'
    BY <1>6 DEF AppendFails
  <1>7. ASSUME AppendBuffer(l) PROVE OneLoopInv'
    BY <1>7 DEF AppendBuffer
  <1>8. ASSUME Request(l) PROVE OneLoopInv'
    BY <1>8 DEF Request
  <1>9. ASSUME StreamTools(l) PROVE OneLoopInv'
    BY <1>9 DEF StreamTools
  <1>10. ASSUME StreamAnswer(l) PROVE OneLoopInv'
    BY <1>10 DEF StreamAnswer
  <1>11. ASSUME StreamFails(l) PROVE OneLoopInv'
    BY <1>11 DEF StreamFails
  <1>12. ASSUME ToolsDone(l) PROVE OneLoopInv'
    BY <1>12 DEF ToolsDone
  <1>13. ASSUME Swap(l) PROVE OneLoopInv'
    BY <1>13 DEF Swap
  <1>14. ASSUME Check(l) PROVE OneLoopInv'
    BY <1>14 DEF Check
  <1>15. ASSUME DropToken(l) PROVE OneLoopInv'
    BY <1>15 DEF DropToken
  <1>16. ASSUME DropBusy(l) PROVE OneLoopInv'
    <2>1. loop \in [Loops -> LoopStates]
      BY DEF TypeInv, TypeOK
    <2>2. Active' = Active \ {l} /\ l \in Active
      BY <1>16, <2>1 DEF DropBusy, Go, Active
    <2>3. cancels = 0 => Active' = {}
      BY <2>2 DEF OneLoopInv, Exclusion
    <2>4. UNCHANGED <<host, cancels, started>>
      BY <1>16 DEF DropBusy
    <2>5. cancels = 0 => host \notin Claimed
      BY <2>2 DEF OneLoopInv, Exclusion
    <2>6. QED
      BY <2>3, <2>4, <2>5 DEF OneLoopInv, Exclusion
  <1>17. ASSUME DropSignal(l) PROVE OneLoopInv'
    <2>1. loop \in [Loops -> LoopStates]
      BY DEF TypeInv, TypeOK
    <2>2. Active' = Active
      BY <1>17, <2>1 DEF DropSignal, Go, Active
    <2>3. UNCHANGED <<host, busy, cancels, started>>
      BY <1>17 DEF DropSignal
    <2>4. QED
      BY <2>2, <2>3 DEF OneLoopInv, Exclusion
  <1>18. QED
    BY <1>1, <1>2, <1>3, <1>4, <1>5, <1>6, <1>7, <1>8, <1>9, <1>10, <1>11, <1>12, <1>13, <1>14, <1>15, <1>16, <1>17 DEF Task

LEMMA OneLoopHost ==
  ASSUME TypeInv, OneLoopInv,
         \/ \E p \in Prompts : Submit(p)
         \/ Continue \/ HostStep \/ Cancellation
  PROVE  OneLoopInv'
  <1> USE SameTasks DEF hostVars, tableVars, dataVars, taskVars, histVars, bounds,
                        Starting, Claimed
  <1>1. ASSUME NEW p \in Prompts, Submit(p) PROVE OneLoopInv'
    BY <1>1 DEF Submit
  <1>2. ASSUME NEW p \in Prompts, PushPending(p) PROVE OneLoopInv'
    BY <1>2 DEF PushPending
  <1>3. ASSUME NEW p \in Prompts, PersistStore(p) PROVE OneLoopInv'
    BY <1>3 DEF PersistStore
  <1>4. ASSUME NEW p \in Prompts, PersistBuffer(p) PROVE OneLoopInv'
    BY <1>4 DEF PersistBuffer
  <1>5. ASSUME Continue PROVE OneLoopInv'
    BY <1>5 DEF Continue
  <1>6. ASSUME LoadStore PROVE OneLoopInv'
    BY <1>6 DEF LoadStore
  <1>7. ASSUME SetBuffer PROVE OneLoopInv'
    BY <1>7 DEF SetBuffer
  <1>8. ASSUME Claim PROVE OneLoopInv'
    <2>1. CASE busy
      BY <1>8, <2>1 DEF Claim
    <2>2. CASE ~busy
      <3>1. Active' = Active /\ busy' /\ host' = "claimed" /\ cancels' = cancels
        BY <1>8, <2>2 DEF Claim, Active
      <3>2. cancels = 0 => Active = {}
        BY <2>2 DEF OneLoopInv, Exclusion
      <3>3. QED
        BY <3>1, <3>2 DEF OneLoopInv, Exclusion
    <2>3. QED
      BY <2>1, <2>2
  <1>9. ASSUME InsertToken PROVE OneLoopInv'
    BY <1>9 DEF InsertToken
  <1>10. ASSUME InsertSignal PROVE OneLoopInv'
    BY <1>10 DEF InsertSignal
  <1>11. ASSUME Spawn PROVE OneLoopInv'
    <2>1. loop \in [Loops -> LoopStates] /\ started \in Loops
      BY <1>11 DEF Spawn, TypeInv, TypeOK, Bookkeeping
    <2>2. Active' = Active \cup {started}
      BY <1>11, <2>1, RunningStates DEF Spawn, Go, Active
    <2>3. cancels = 0 => Active = {} /\ busy
      BY <1>11 DEF Spawn, OneLoopInv, Exclusion
    <2>4. UNCHANGED <<busy, started, cancels>> /\ host' = "spawned"
      BY <1>11 DEF Spawn
    <2>5. QED
      BY <2>2, <2>3, <2>4 DEF OneLoopInv, Exclusion
  <1>12. ASSUME MarkBusy PROVE OneLoopInv'
    <2>1. Active' = Active /\ busy' /\ host' = "idle" /\ cancels' = cancels
      BY <1>12 DEF MarkBusy, Active
    <2>2. QED
      BY <2>1 DEF OneLoopInv, Exclusion
  <1>13. ASSUME NEW kind \in {"session", "all"}, CancelToken(kind) PROVE OneLoopInv'
    BY <1>13 DEF CancelToken, OneLoopInv, TypeInv, TypeOK
  <1>14. ASSUME CancelPending PROVE OneLoopInv'
    BY <1>14 DEF CancelPending
  <1>15. QED
    BY <1>1, <1>2, <1>3, <1>4, <1>5, <1>6, <1>7, <1>8, <1>9, <1>10, <1>11, <1>12, <1>13, <1>14 DEF HostStep, Cancellation

LEMMA OneLoopNext == TypeInv /\ OneLoopInv /\ [Next]_vars => OneLoopInv'
  <1> SUFFICES ASSUME TypeInv, OneLoopInv, [Next]_vars PROVE OneLoopInv'
    OBVIOUS
  <1>1. CASE UNCHANGED vars
    BY <1>1, SameTasks DEF vars, hostVars, tableVars, taskVars, bounds
  <1>2. CASE Next
    BY <1>2, OneLoopTask, OneLoopHost DEF Next
  <1>3. QED
    BY <1>1, <1>2

(* Until the first cancellation, no two tasks work on a session and the     *)
(* session is busy while one does, for any number of prompts and loops.    *)
THEOREM MutualExclusion == Spec => []OneLoop
  <1>1. Init => OneLoopInv
    BY RunningStates DEF Init, OneLoopInv, Exclusion, Active, Starting, Claimed
  <1>2. OneLoopInv => OneLoop
    BY DEF OneLoopInv, Exclusion, OneLoop
  <1>3. QED
    BY TypeInit, TypeNext, OneLoopNext, <1>1, <1>2, PTL DEF Spec
-----------------------------------------------------------------------------
(* The message buffer follows the store.                                   *)

\* A task has something filed exactly while it is between the two writes, and a
\* host that persists knows its prompt.
Filing ==
  /\ \A l \in Loops : loop[l] = "file" => \E p \in Prompts : filing[l] = {p}
  /\ \A l \in Loops : loop[l] # "file" => filing[l] = {}

\* BufferFollowsStore says that a writer may be half-way, not who it is: what
\* makes it inductive is that only the host at "buffer" or a task at "file" is,
\* and that nothing is stored while start_agent_loop reloads.
BehindByOne(p) == store = Append(buffer, p)

Following ==
  /\ host = "buffer" => \A p \in current : BehindByOne(p)
  /\ \A l \in Loops : loop[l] = "file" => \A p \in filing[l] : BehindByOne(p)
  /\ host # "buffer" /\ (\A l \in Loops : loop[l] # "file") => buffer = store
  /\ host = "set_buffer" => loaded = Len(store)

\* The numbers not given to a task yet.
Unspawned ==
  \A l \in Loops : l > started \/ (l = started /\ host \in Claimed) => loop[l] = "unused"

Submitting == host \in {"push_queue", "push_steer", "persist", "buffer"}
              => \E p \in Prompts : current = {p}

FollowInv == Filing /\ Submitting /\ Unspawned /\ (cancels = 0 => Following)

LEMMA FollowInit == Init => FollowInv
  BY DEF Init, FollowInv, Filing, Submitting, Unspawned, Following

\* Steps of a task but for the two writes.
LEMMA FollowOther ==
  ASSUME TypeInv, FollowInv, NEW l \in Loops,
         loop[l] \notin {"file", "unused"}, NEW state \in LoopStates \ {"file", "unused"}, Go(l, state),
         UNCHANGED <<host, current, loaded, started, store, buffer, filing, cancels>>
  PROVE  FollowInv'
  <1>1. loop \in [Loops -> LoopStates]
    BY DEF TypeInv, TypeOK
  <1>2. \A k \in Loops : loop'[k] = "file" <=> loop[k] = "file"
    BY <1>1 DEF Go
  <1>3. Filing' /\ Submitting'
    BY <1>2 DEF FollowInv, Filing, Submitting
  <1>4. Unspawned'
    BY <1>1 DEF FollowInv, Unspawned, Go
  <1>5. Following => Following'
    BY <1>2 DEF Following, BehindByOne
  <1>6. QED
    BY <1>3, <1>4, <1>5 DEF FollowInv

\* While a task writes nobody else does.
LEMMA Alone ==
  ASSUME OneLoopInv, cancels = 0, NEW l \in Loops, loop[l] \in Running
  PROVE  host \notin Starting /\ \A k \in Loops : loop[k] \in Running => k = l
  BY DEF OneLoopInv, Exclusion, Active

LEMMA FollowTask ==
  ASSUME TypeInv, OneLoopInv, FollowInv, NEW l \in Loops, Task(l)
  PROVE  FollowInv'
  <1> USE FollowOther, States
      DEF hostVars, tableVars, dataVars, taskVars, histVars, bounds, Return
  <1>1. ASSUME Outer(l) PROVE FollowInv'
    BY <1>1 DEF Outer
  <1>2. ASSUME Top(l) PROVE FollowInv'
    BY <1>2 DEF Top
  <1>3. ASSUME PrepareFails(l) PROVE FollowInv'
    BY <1>3 DEF PrepareFails
  <1>4. ASSUME Drain(l) PROVE FollowInv'
    BY <1>4 DEF Drain
  <1>5. ASSUME AppendStore(l) PROVE FollowInv'
    <2> DEFINE p == Head(draining[l])
    <2>1. /\ loop[l] = "append" /\ store' = Append(store, p)
          /\ loop' = [loop EXCEPT ![l] = "file"] /\ filing' = [filing EXCEPT ![l] = {p}]
          /\ UNCHANGED <<host, current, loaded, started, buffer, cancels>>
      BY <1>5 DEF AppendStore, Go
    <2>2. loop \in [Loops -> LoopStates] /\ filing \in [Loops -> SUBSET Prompts]
          /\ draining[l] \in Seq(Prompts) /\ draining[l] # <<>>
      BY <2>1 DEF TypeInv, TypeOK, Bookkeeping
    <2>3. p \in Prompts
      BY <2>2, HeadTailProperties
    <2>4. Filing' /\ Submitting' /\ Unspawned'
      BY <2>1, <2>2, <2>3 DEF FollowInv, Filing, Submitting, Unspawned
    <2>5. ASSUME cancels = 0 PROVE Following'
      <3>1. host \notin Starting /\ \A k \in Loops : loop[k] = "file" => k = l
        BY <2>1, <2>5, Alone, RunningStates
      <3>2. buffer = store
        BY <2>1, <2>5, <3>1 DEF FollowInv, Following, Starting
      <3>3. \A k \in Loops : loop'[k] = "file" => k = l
        BY <2>1, <2>2, <3>1
      <3>4. QED
        BY <2>1, <2>2, <3>1, <3>2, <3>3 DEF Following, BehindByOne, Starting
    <2>6. QED
      BY <2>1, <2>4, <2>5 DEF FollowInv
  <1>6. ASSUME AppendFails(l) PROVE FollowInv'
    BY <1>6 DEF AppendFails
  <1>7. ASSUME AppendBuffer(l) PROVE FollowInv'
    <2>1. PICK p \in filing[l] : buffer' = Append(buffer, p)
      BY <1>7 DEF AppendBuffer, Shown
    <2>2. /\ loop[l] = "file" /\ filing' = [filing EXCEPT ![l] = {}]
          /\ UNCHANGED <<host, current, loaded, started, store, cancels>>
      BY <1>7 DEF AppendBuffer
    <2>3. loop' = [loop EXCEPT ![l] = IF draining[l] = <<>> THEN "request" ELSE "append"]
      BY <1>7 DEF AppendBuffer, Go
    <2>4. loop \in [Loops -> LoopStates] /\ filing \in [Loops -> SUBSET Prompts]
      BY DEF TypeInv, TypeOK
    <2>5. \A k \in Loops : loop'[k] = "file" <=> loop[k] = "file" /\ k # l
      BY <2>2, <2>3, <2>4
    <2>6. Filing' /\ Submitting' /\ Unspawned'
      BY <2>2, <2>3, <2>4, <2>5 DEF FollowInv, Filing, Submitting, Unspawned
    <2>7. ASSUME cancels = 0 PROVE Following'
      <3>1. host \notin Starting /\ \A k \in Loops : loop[k] = "file" => k = l
        BY <2>2, <2>7, Alone, RunningStates
      <3>2. buffer' = store
        BY <2>1, <2>2, <2>7 DEF FollowInv, Following, BehindByOne
      <3>3. QED
        BY <2>2, <2>5, <3>1, <3>2 DEF Following, BehindByOne, Starting
    <2>8. QED
      BY <2>2, <2>6, <2>7 DEF FollowInv
  <1>8. ASSUME Request(l) PROVE FollowInv'
    BY <1>8 DEF Request
  <1>9. ASSUME StreamTools(l) PROVE FollowInv'
    BY <1>9 DEF StreamTools
  <1>10. ASSUME StreamAnswer(l) PROVE FollowInv'
    BY <1>10 DEF StreamAnswer
  <1>11. ASSUME StreamFails(l) PROVE FollowInv'
    BY <1>11 DEF StreamFails
  <1>12. ASSUME ToolsDone(l) PROVE FollowInv'
    BY <1>12 DEF ToolsDone
  <1>13. ASSUME Swap(l) PROVE FollowInv'
    BY <1>13 DEF Swap
  <1>14. ASSUME Check(l) PROVE FollowInv'
    BY <1>14 DEF Check
  <1>15. ASSUME DropToken(l) PROVE FollowInv'
    BY <1>15 DEF DropToken
  <1>16. ASSUME DropBusy(l) PROVE FollowInv'
    BY <1>16 DEF DropBusy
  <1>17. ASSUME DropSignal(l) PROVE FollowInv'
    BY <1>17 DEF DropSignal
  <1>18. QED
    BY <1>1, <1>2, <1>3, <1>4, <1>5, <1>6, <1>7, <1>8, <1>9, <1>10, <1>11, <1>12, <1>13, <1>14, <1>15, <1>16, <1>17 DEF Task

\* Until the first cancellation no task writes while the host starts one.
LEMMA Quiet ==
  ASSUME OneLoopInv, cancels = 0, host \in Starting
  PROVE  \A l \in Loops : loop[l] # "file"
  BY RunningStates DEF OneLoopInv, Exclusion, Active

LEMMA FollowHost ==
  ASSUME TypeInv, OneLoopInv, FollowInv,
         \/ \E p \in Prompts : Submit(p)
         \/ Continue \/ HostStep \/ Cancellation
  PROVE  FollowInv'
  <1> USE DEF FollowInv, Filing, Submitting, Unspawned, Claimed, hostVars, tableVars, dataVars, taskVars,
              histVars, bounds
  <1>1. ASSUME NEW p \in Prompts, Submit(p) PROVE FollowInv'
    BY <1>1 DEF Submit, Following, BehindByOne
  <1>2. ASSUME NEW p \in Prompts, PushPending(p) PROVE FollowInv'
    BY <1>2 DEF PushPending, Following, BehindByOne
  <1>3. ASSUME NEW p \in Prompts, PersistStore(p) PROVE FollowInv'
    <2>1. CASE host' = "buffer"
      <3>1. /\ store' = Append(store, p) /\ host = "persist" /\ current = {p}
            /\ UNCHANGED <<started, current, buffer, loaded, loop, filing, cancels>>
        BY <1>3, <2>1 DEF PersistStore
      <3>2. ASSUME cancels = 0 PROVE Following'
        <4>1. \A l \in Loops : loop[l] # "file"
          BY <3>1, <3>2, Quiet DEF Starting
        <4>2. buffer = store
          BY <3>1, <3>2, <4>1 DEF Following
        <4>3. QED
          BY <2>1, <3>1, <4>1, <4>2 DEF Following, BehindByOne
      <3>3. QED
        BY <2>1, <3>1, <3>2
    <2>2. CASE host' = "idle"
      BY <1>3, <2>2 DEF PersistStore, Following, BehindByOne
    <2>3. QED
      BY <1>3, <2>1, <2>2 DEF PersistStore
  <1>4. ASSUME NEW p \in Prompts, PersistBuffer(p) PROVE FollowInv'
    <2>1. /\ host = "buffer" /\ current = {p} /\ buffer' = Append(buffer, p)
          /\ host' = "load" /\ UNCHANGED <<started, store, loop, filing, loaded, cancels>>
      BY <1>4 DEF PersistBuffer, Shown
    <2>2. ASSUME cancels = 0 PROVE Following'
      <3>1. \A l \in Loops : loop[l] # "file"
        BY <2>1, <2>2, Quiet DEF Starting
      <3>2. buffer' = store
        BY <2>1, <2>2 DEF Following, BehindByOne
      <3>3. QED
        BY <2>1, <3>1, <3>2 DEF Following
    <2>3. QED
      BY <2>1, <2>2
  <1>5. ASSUME Continue PROVE FollowInv'
    <2>1. /\ host = "idle" /\ ~busy /\ buffer' = store /\ host' = "load"
          /\ UNCHANGED <<started, current, loaded, store, loop, filing, cancels>>
      BY <1>5 DEF Continue
    <2>2. ASSUME cancels = 0 PROVE Following'
      <3>1. \A l \in Loops : loop[l] # "file"
        BY <2>1, <2>2, RunningStates DEF OneLoopInv, Exclusion, Active
      <3>2. QED
        BY <2>1, <3>1 DEF Following
    <2>3. QED
      BY <2>1, <2>2
  <1>6. ASSUME LoadStore PROVE FollowInv'
    BY <1>6 DEF LoadStore, Following, BehindByOne
  <1>7. ASSUME SetBuffer PROVE FollowInv'
    <2>1. /\ host = "set_buffer" /\ buffer' = SubSeq(store, 1, loaded) /\ host' = "claim"
          /\ UNCHANGED <<started, current, store, loop, filing, cancels>>
      BY <1>7 DEF SetBuffer
    <2>2. ASSUME cancels = 0 PROVE Following'
      <3>1. \A l \in Loops : loop[l] # "file"
        BY <2>1, <2>2, Quiet DEF Starting
      <3>2. loaded = Len(store) /\ store \in Seq(Prompts)
        BY <2>1, <2>2 DEF Following, TypeInv, TypeOK
      <3>3. buffer' = store
        BY <2>1, <3>2, SubSeqFull
      <3>4. QED
        BY <2>1, <3>1, <3>3 DEF Following
    <2>3. QED
      BY <2>1, <2>2
  <1>8. ASSUME Claim PROVE FollowInv'
    <2>1. CASE busy
      BY <1>8, <2>1 DEF Claim, Following, BehindByOne
    <2>2. CASE ~busy
      <3>1. /\ started' = started + 1 /\ host = "claim" /\ host' = "claimed"
            /\ UNCHANGED <<current, loaded, store, buffer, loop, filing, cancels>>
        BY <1>8, <2>2 DEF Claim
      <3>2. started \in Nat /\ Loops \subseteq Nat
        BY DEF TypeInv, TypeOK, Loops
      <3>3. ASSUME NEW l \in Loops, l > started' \/ l = started' PROVE loop'[l] = "unused"
        <4>1. l > started
          BY <3>1, <3>2, <3>3
        <4>2. QED
          BY <3>1, <4>1
      <3>4. Following => Following'
        BY <3>1 DEF Following, BehindByOne
      <3>5. QED
        BY <3>1, <3>3, <3>4
    <2>3. QED
      BY <2>1, <2>2
  <1>9. ASSUME InsertToken PROVE FollowInv'
    BY <1>9 DEF InsertToken, Following, BehindByOne
  <1>10. ASSUME InsertSignal PROVE FollowInv'
    BY <1>10 DEF InsertSignal, Following, BehindByOne
  <1>11. ASSUME Spawn PROVE FollowInv'
    <2>1. started \in Loops /\ loop \in [Loops -> LoopStates]
      BY <1>11 DEF Spawn, TypeInv, TypeOK, Bookkeeping, Claimed
    <2>2. /\ host = "signalled" /\ host' = "spawned"
          /\ loop' = [loop EXCEPT ![started] = "outer"]
          /\ UNCHANGED <<started, current, loaded, store, buffer, filing, cancels>>
      BY <1>11 DEF Spawn, Go
    <2>3. loop[started] = "unused"
      BY <2>1, <2>2
    <2>4. QED
      BY <2>1, <2>2, <2>3 DEF Following, BehindByOne
  <1>12. ASSUME MarkBusy PROVE FollowInv'
    BY <1>12 DEF MarkBusy, Following, BehindByOne
  <1>13. ASSUME NEW kind \in {"session", "all"}, CancelToken(kind) PROVE FollowInv'
    BY <1>13 DEF CancelToken, TypeInv, TypeOK
  <1>14. ASSUME CancelPending PROVE FollowInv'
    BY <1>14 DEF CancelPending, Following, BehindByOne
  <1>15. QED
    BY <1>1, <1>2, <1>3, <1>4, <1>5, <1>6, <1>7, <1>8, <1>9, <1>10, <1>11, <1>12, <1>13, <1>14 DEF HostStep, Cancellation

LEMMA FollowNext == TypeInv /\ OneLoopInv /\ FollowInv /\ [Next]_vars => FollowInv'
  <1> SUFFICES ASSUME TypeInv, OneLoopInv, FollowInv, [Next]_vars PROVE FollowInv'
    OBVIOUS
  <1>1. CASE UNCHANGED vars
    BY <1>1 DEF vars, FollowInv, Filing, Submitting, Unspawned, Following, BehindByOne,
                hostVars, tableVars, dataVars, taskVars, histVars, bounds
  <1>2. CASE Next
    BY <1>2, FollowTask, FollowHost DEF Next
  <1>3. QED
    BY <1>1, <1>2

LEMMA SpecInv == Spec => [](TypeInv /\ OneLoopInv /\ FollowInv)
  <1>1. Init => OneLoopInv
    BY RunningStates DEF Init, OneLoopInv, Exclusion, Active, Starting, Claimed
  <1>2. QED
    BY TypeInit, TypeNext, OneLoopNext, FollowInit, FollowNext, <1>1, PTL DEF Spec

(* Until the first cancellation the buffer every request is built from is  *)
(* the store in the store's order, or one message behind it while a named  *)
(* writer is between its two writes, for any prompts, loops and failures.  *)
THEOREM BufferIsStore == Spec => []BufferFollowsStore
  <1>1. ASSUME TypeInv, OneLoopInv, FollowInv PROVE BufferFollowsStore
    <2> SUFFICES ASSUME cancels = 0, buffer # store
                 PROVE  \E p \in Prompts : InFlight(p) /\ store = Append(buffer, p)
      BY DEF BufferFollowsStore
    <2>1. CASE host = "buffer"
      <3>1. PICK p \in Prompts : current = {p}
        BY <1>1, <2>1 DEF FollowInv, Submitting
      <3>2. store = Append(buffer, p)
        BY <1>1, <2>1, <3>1 DEF FollowInv, Following, BehindByOne
      <3>3. QED
        BY <2>1, <3>1, <3>2 DEF InFlight
    <2>2. CASE host # "buffer"
      <3>1. PICK l \in Loops : loop[l] = "file"
        BY <1>1, <2>2 DEF FollowInv, Following
      <3>2. PICK p \in Prompts : filing[l] = {p}
        BY <1>1, <3>1 DEF FollowInv, Filing
      <3>3. store = Append(buffer, p)
        BY <1>1, <3>1, <3>2 DEF FollowInv, Following, BehindByOne
      <3>4. QED
        BY <3>2, <3>3 DEF InFlight
    <2>3. QED
      BY <2>1, <2>2
  <1>2. QED
    BY SpecInv, <1>1, PTL

-----------------------------------------------------------------------------
(* Queues of prompts: what they hold, and that they hold it once.          *)

Distinct(s) == \A i, j \in DOMAIN s : s[i] = s[j] => i = j

LEMMA Appended ==
  ASSUME NEW s \in Seq(Prompts), NEW p \in Prompts
  PROVE  /\ Append(s, p) \in Seq(Prompts)
         /\ Range(Append(s, p)) = Range(s) \cup {p}
         /\ Distinct(s) /\ p \notin Range(s) => Distinct(Append(s, p))
  <1>1. /\ Append(s, p) \in Seq(Prompts) /\ Len(Append(s, p)) = Len(s) + 1 /\ Len(s) \in Nat
        /\ \A i \in 1 .. Len(s) : Append(s, p)[i] = s[i]
        /\ Append(s, p)[Len(s) + 1] = p
    BY AppendProperties, LenProperties
  <1>2. DOMAIN s = 1 .. Len(s) /\ DOMAIN Append(s, p) = 1 .. Len(s) + 1
    BY <1>1, LenProperties
  <1>3. Range(Append(s, p)) = Range(s) \cup {p}
    BY <1>1, <1>2 DEF Range
  <1>4. ASSUME Distinct(s), p \notin Range(s) PROVE Distinct(Append(s, p))
    BY <1>1, <1>2, <1>4 DEF Distinct, Range
  <1>5. QED
    BY <1>1, <1>3, <1>4

LEMMA Beheaded ==
  ASSUME NEW s \in Seq(Prompts), s # <<>>
  PROVE  /\ Head(s) \in Prompts /\ Tail(s) \in Seq(Prompts)
         /\ Range(s) = Range(Tail(s)) \cup {Head(s)}
         /\ Distinct(s) => Distinct(Tail(s)) /\ Head(s) \notin Range(Tail(s))
  <1>1. /\ Tail(s) \in Seq(Prompts) /\ Len(Tail(s)) = Len(s) - 1 /\ Len(s) \in Nat \ {0}
        /\ \A i \in 1 .. Len(Tail(s)) : Tail(s)[i] = s[i + 1]
        /\ Head(s) = s[1] /\ Head(s) \in Prompts
    BY HeadTailProperties, LenProperties, EmptySeq
  <1>2. DOMAIN s = 1 .. Len(s) /\ DOMAIN Tail(s) = 1 .. Len(s) - 1
    BY <1>1, LenProperties
  <1>3. \A x : x \in Range(s) => x = Head(s) \/ x \in Range(Tail(s))
    <2>1. SUFFICES ASSUME NEW i \in 1 .. Len(s), i # 1 PROVE s[i] \in Range(Tail(s))
      BY <1>1, <1>2 DEF Range
    <2>2. i - 1 \in 1 .. Len(s) - 1 /\ Tail(s)[i - 1] = s[i]
      BY <1>1, <2>1
    <2>3. QED
      BY <1>2, <2>2 DEF Range
  <1>4. \A x : x = Head(s) \/ x \in Range(Tail(s)) => x \in Range(s)
    BY <1>1, <1>2 DEF Range
  <1>5. ASSUME Distinct(s) PROVE Distinct(Tail(s)) /\ Head(s) \notin Range(Tail(s))
    BY <1>1, <1>2, <1>5 DEF Distinct, Range
  <1>6. QED
    BY <1>1, <1>3, <1>4, <1>5

LEMMA Joined ==
  ASSUME NEW s \in Seq(Prompts), NEW t \in Seq(Prompts)
  PROVE  /\ s \o t \in Seq(Prompts)
         /\ Range(s \o t) = Range(s) \cup Range(t)
         /\ Distinct(s) /\ Distinct(t) /\ Range(s) \cap Range(t) = {} => Distinct(s \o t)
  <1>1. /\ s \o t \in Seq(Prompts) /\ Len(s \o t) = Len(s) + Len(t)
        /\ Len(s) \in Nat /\ Len(t) \in Nat
        /\ \A i \in 1 .. Len(s) + Len(t) :
             (s \o t)[i] = IF i <= Len(s) THEN s[i] ELSE t[i - Len(s)]
    BY ConcatProperties, LenProperties
  <1>2. /\ DOMAIN s = 1 .. Len(s) /\ DOMAIN t = 1 .. Len(t)
        /\ DOMAIN (s \o t) = 1 .. Len(s) + Len(t)
    BY <1>1, LenProperties
  <1>3. ASSUME Distinct(s), Distinct(t), Range(s) \cap Range(t) = {} PROVE Distinct(s \o t)
    <2>1. SUFFICES ASSUME NEW i \in 1 .. Len(s) + Len(t), NEW j \in 1 .. Len(s) + Len(t),
                          (s \o t)[i] = (s \o t)[j]
                   PROVE  i = j
      BY <1>2 DEF Distinct
    <2>2. ASSUME NEW k \in 1 .. Len(s), NEW m \in 1 .. Len(t) PROVE s[k] # t[m]
      BY <1>2, <1>3 DEF Range
    <2>3. CASE i <= Len(s) /\ j <= Len(s)
      BY <1>1, <1>2, <1>3, <2>1, <2>3 DEF Distinct
    <2>4. CASE i > Len(s) /\ j > Len(s)
      <3>1. i - Len(s) \in 1 .. Len(t) /\ j - Len(s) \in 1 .. Len(t)
        BY <1>1, <2>4
      <3>2. t[i - Len(s)] = t[j - Len(s)]
        BY <1>1, <2>1, <2>4
      <3>3. i - Len(s) = j - Len(s)
        BY <1>2, <1>3, <3>1, <3>2 DEF Distinct
      <3>4. QED
        BY <1>1, <3>3
    <2>5. CASE i <= Len(s) /\ j > Len(s)
      BY <1>1, <2>1, <2>2, <2>5
    <2>6. CASE i > Len(s) /\ j <= Len(s)
      BY <1>1, <2>1, <2>2, <2>6
    <2>7. QED
      BY <1>1, <2>3, <2>4, <2>5, <2>6
  <1>4. Range(s \o t) = Range(s) \cup Range(t)
    BY RangeConcatenation
  <1>5. QED
    BY <1>1, <1>3, <1>4

LEMMA Single ==
  ASSUME NEW p \in Prompts
  PROVE  <<p>> \in Seq(Prompts) /\ Range(<<p>>) = {p} /\ Distinct(<<p>>)
  BY DEF Range, Distinct

LEMMA EmptyQueue == <<>> \in Seq(Prompts) /\ Range(<<>>) = {} /\ Distinct(<<>>)
  BY EmptySeq DEF Range, Distinct

\* A failed insert puts its prompt back in front.
LEMMA PutBackKeeps ==
  ASSUME NEW s \in Seq(Prompts), NEW d \in Seq(Prompts), d # <<>>
  PROVE  LET back == PutBack(Head(d), s, Tail(d)) IN
         /\ back \in Seq(Prompts)
         /\ Range(back) = Range(s) \cup Range(d)
         /\ Distinct(s) /\ Distinct(d) /\ Range(s) \cap Range(d) = {} => Distinct(back)
  <1> DEFINE one == <<Head(d)>>
             two == one \o s
             back == two \o Tail(d)
  <1>1. /\ Head(d) \in Prompts /\ Tail(d) \in Seq(Prompts)
        /\ Range(d) = Range(Tail(d)) \cup {Head(d)}
        /\ Distinct(d) => Distinct(Tail(d)) /\ Head(d) \notin Range(Tail(d))
    BY Beheaded
  <1>2. one \in Seq(Prompts) /\ Range(one) = {Head(d)} /\ Distinct(one)
    BY <1>1, Single
  <1>3. /\ two \in Seq(Prompts) /\ Range(two) = {Head(d)} \cup Range(s)
        /\ Distinct(s) /\ Head(d) \notin Range(s) => Distinct(two)
    <2>1. {Head(d)} \cap Range(s) = {} <=> Head(d) \notin Range(s)
      OBVIOUS
    <2> HIDE DEF one
    <2>2. QED
      BY <1>2, <2>1, Joined
  <1>4. /\ back \in Seq(Prompts) /\ Range(back) = Range(two) \cup Range(Tail(d))
        /\ Distinct(two) /\ Distinct(Tail(d)) /\ Range(two) \cap Range(Tail(d)) = {}
           => Distinct(back)
    <2> HIDE DEF two
    <2>1. QED
      BY <1>1, <1>3, Joined
  <1>5. PutBack(Head(d), s, Tail(d)) = back
    BY DEF PutBack
  <1> HIDE DEF one, two, back
  <1>6. ASSUME Distinct(s), Distinct(d), Range(s) \cap Range(d) = {} PROVE Distinct(back)
    BY <1>1, <1>3, <1>4, <1>6
  <1>7. QED
    BY <1>1, <1>3, <1>4, <1>5, <1>6

-----------------------------------------------------------------------------
(* The ledger of accepted prompts.                                         *)

\* That every step is one of the ledger's rests on these: nothing is accepted
\* twice, and no two queues hold the same prompt, so that what leaves one of
\* them leaves `waiting`.
NothingUnknown ==
  /\ Waiting \cup Range(store) \cup dropped \subseteq Range(accepted)
  /\ host \in {"push_queue", "push_steer", "persist"} => \A p \in current : Fresh(p)

QueuesDisjoint ==
  /\ Distinct(pending) /\ \A l \in Loops : Distinct(draining[l])
  /\ \A l \in Loops : Range(draining[l]) \cap Range(pending) = {}
  /\ \A k, l \in Loops : k # l => Range(draining[k]) \cap Range(draining[l]) = {}

Drained == \A l \in Loops : loop[l] \notin {"append", "file"} => draining[l] = <<>>

LedgerInv == NothingUnknown /\ QueuesDisjoint /\ Drained

LEMMA InWaiting ==
  /\ \A p : p \in Waiting <=> p \in Range(pending) \/ \E l \in Loops : p \in Range(draining[l])
  /\ \A p : p \in Waiting' <=> p \in Range(pending') \/ \E l \in Loops : p \in Range(draining'[l])
  <1>1. \A p : p \in Waiting <=> p \in Range(pending) \/ \E l \in Loops : p \in Range(draining[l])
    BY DEF Waiting
  <1>2. \A p : p \in Waiting' <=> p \in Range(pending') \/ \E l \in Loops : p \in Range(draining'[l])
    BY DEF Waiting
  <1>3. QED
    BY <1>1, <1>2

\* What a step of the host, a task or a canceller is to the ledger.
LedgerStep == Ledger!Next \/ UNCHANGED Ledger!vars

LEMMA LedgerInit == Init => LedgerInv /\ Ledger!Init
  <1> SUFFICES ASSUME Init PROVE LedgerInv /\ Ledger!Init
    OBVIOUS
  <1>1. Waiting = {}
    BY EmptyQueue, InWaiting DEF Init
  <1>2. QED
    BY <1>1, EmptyQueue DEF Init, LedgerInv, NothingUnknown, QueuesDisjoint, Drained,
                            Ledger!Init

\* Steps that move no prompt.
LEMMA LedgerSame ==
  ASSUME LedgerInv, UNCHANGED <<pending, draining, store, dropped, accepted>>,
         \A l \in Loops : loop'[l] \notin {"append", "file"} => draining[l] = <<>>,
         \/ host' \notin {"push_queue", "push_steer", "persist"}
         \/ UNCHANGED <<host, current>>
         \/ \A p \in current' : Fresh(p)
  PROVE  LedgerInv' /\ LedgerStep
  <1>1. Waiting' = Waiting
    BY DEF Waiting
  <1>2. NothingUnknown'
    BY <1>1 DEF LedgerInv, NothingUnknown, Fresh
  <1>3. QueuesDisjoint' /\ Drained'
    BY DEF LedgerInv, QueuesDisjoint, Distinct, Drained
  <1>4. QED
    BY <1>1, <1>2, <1>3 DEF LedgerInv, LedgerStep, Ledger!vars

\* The same, of a task.
LEMMA LedgerStays ==
  ASSUME TypeInv, LedgerInv, NEW l \in Loops, NEW state \in LoopStates, Go(l, state),
         state \in {"append", "file"} \/ draining[l] = <<>>,
         UNCHANGED <<host, current, pending, draining, store, dropped, accepted>>
  PROVE  LedgerInv' /\ LedgerStep
  <1>1. loop \in [Loops -> LoopStates]
    BY DEF TypeInv, TypeOK
  <1>2. \A k \in Loops : loop'[k] \notin {"append", "file"} => draining[k] = <<>>
    BY <1>1 DEF Go, LedgerInv, Drained
  <1>3. QED
    BY <1>2, LedgerSame

LEMMA LedgerDrain ==
  ASSUME TypeInv, LedgerInv, NEW l \in Loops, Drain(l)
  PROVE  LedgerInv' /\ LedgerStep
  <1>1. /\ loop[l] = "prepare" /\ pending' = <<>>
        /\ draining' = [draining EXCEPT ![l] = pending]
        /\ loop' = [loop EXCEPT ![l] = IF pending = <<>> THEN "request" ELSE "append"]
        /\ UNCHANGED <<host, current, store, dropped, accepted>>
    BY DEF Drain, Go, hostVars, histVars
  <1>2. /\ loop \in [Loops -> LoopStates] /\ draining \in [Loops -> Seq(Prompts)]
        /\ pending \in Seq(Prompts) /\ draining[l] = <<>>
    BY <1>1 DEF TypeInv, TypeOK, LedgerInv, Drained
  <1>3. \A k \in Loops : draining'[k] = IF k = l THEN pending ELSE draining[k]
    BY <1>1, <1>2
  <1>4. \A p : p \in Waiting' <=> p \in Waiting
    BY <1>1, <1>2, <1>3, InWaiting, EmptyQueue
  <1>5. Waiting' = Waiting
    BY <1>4
  <1>6. NothingUnknown'
    BY <1>1, <1>5 DEF LedgerInv, NothingUnknown, Fresh
  <1>7. QueuesDisjoint'
    BY <1>1, <1>3, EmptyQueue DEF LedgerInv, QueuesDisjoint
  <1>8. Drained'
    BY <1>1, <1>2, <1>3 DEF LedgerInv, Drained
  <1>9. QED
    BY <1>1, <1>5, <1>6, <1>7, <1>8 DEF LedgerInv, LedgerStep, Ledger!vars

\* The head of a drained queue is stored: Deliver.
LEMMA LedgerAppend ==
  ASSUME TypeInv, LedgerInv, NEW l \in Loops, AppendStore(l)
  PROVE  LedgerInv' /\ LedgerStep
  <1> DEFINE d == draining[l]
             p == Head(d)
  <1>1. /\ loop[l] = "append" /\ p \notin Range(store) /\ store' = Append(store, p)
        /\ draining' = [draining EXCEPT ![l] = Tail(d)]
        /\ loop' = [loop EXCEPT ![l] = "file"]
        /\ UNCHANGED <<host, current, pending, dropped, accepted>>
    BY DEF AppendStore, Go, hostVars, histVars
  <1>2. /\ loop \in [Loops -> LoopStates] /\ draining \in [Loops -> Seq(Prompts)]
        /\ store \in Seq(Prompts) /\ d \in Seq(Prompts) /\ d # <<>>
    BY <1>1 DEF TypeInv, TypeOK, Bookkeeping
  <1>3. /\ p \in Prompts /\ Range(d) = Range(Tail(d)) \cup {p} /\ p \notin Range(Tail(d))
        /\ Distinct(Tail(d))
    BY <1>2, Beheaded DEF LedgerInv, QueuesDisjoint
  <1>4. \A k \in Loops : draining'[k] = IF k = l THEN Tail(d) ELSE draining[k]
    BY <1>1, <1>2
  <1>5. p \notin Range(pending) /\ \A k \in Loops : k # l => p \notin Range(draining[k])
    BY <1>3 DEF LedgerInv, QueuesDisjoint
  <1>6. \A q : q \in Waiting' <=> q \in Waiting /\ q # p
    BY <1>1, <1>3, <1>4, <1>5, InWaiting
  <1>7. Waiting' = Waiting \ {p} /\ p \in Waiting
    BY <1>3, <1>6, InWaiting
  <1>8. Range(store') = Range(store) \cup {p}
    BY <1>1, <1>2, <1>3, Appended
  <1>9. NothingUnknown'
    BY <1>1, <1>7, <1>8 DEF LedgerInv, NothingUnknown, Fresh
  <1>10. QueuesDisjoint'
    BY <1>1, <1>3, <1>4 DEF LedgerInv, QueuesDisjoint
  <1>11. Drained'
    BY <1>1, <1>2, <1>4 DEF LedgerInv, Drained
  <1>12. Ledger!Deliver(p)
    BY <1>1, <1>7 DEF Ledger!Deliver, Ledger!Range, Range
  <1>13. QED
    BY <1>3, <1>9, <1>10, <1>11, <1>12 DEF LedgerInv, LedgerStep, Ledger!Next

LEMMA LedgerPutBack ==
  ASSUME TypeInv, LedgerInv, NEW l \in Loops, AppendFails(l)
  PROVE  LedgerInv' /\ LedgerStep
  <1> DEFINE d == draining[l]
  <1>1. /\ loop[l] = "append" /\ pending' = PutBack(Head(d), pending, Tail(d))
        /\ draining' = [draining EXCEPT ![l] = <<>>]
        /\ loop' = [loop EXCEPT ![l] = "check"]
        /\ UNCHANGED <<host, current, store, dropped, accepted>>
    BY DEF AppendFails, Return, Go, hostVars, histVars
  <1>2. /\ loop \in [Loops -> LoopStates] /\ draining \in [Loops -> Seq(Prompts)]
        /\ pending \in Seq(Prompts) /\ d \in Seq(Prompts) /\ d # <<>>
    BY <1>1 DEF TypeInv, TypeOK, Bookkeeping
  <1>3. /\ Range(pending') = Range(pending) \cup Range(d)
        /\ Distinct(pending')
    BY <1>1, <1>2, PutBackKeeps DEF LedgerInv, QueuesDisjoint
  <1>4. \A k \in Loops : draining'[k] = IF k = l THEN <<>> ELSE draining[k]
    BY <1>1, <1>2
  <1>5. \A q : q \in Waiting' <=> q \in Waiting
    BY <1>3, <1>4, InWaiting, EmptyQueue
  <1>6. Waiting' = Waiting
    BY <1>5
  <1>7. NothingUnknown'
    BY <1>1, <1>6 DEF LedgerInv, NothingUnknown, Fresh
  <1>8. QueuesDisjoint'
    <2>1. ASSUME NEW k \in Loops PROVE Range(draining'[k]) \cap Range(pending') = {}
      BY <1>3, <1>4, EmptyQueue DEF LedgerInv, QueuesDisjoint
    <2>2. ASSUME NEW k \in Loops PROVE Distinct(draining'[k])
      BY <1>4, EmptyQueue DEF LedgerInv, QueuesDisjoint
    <2>3. ASSUME NEW k \in Loops, NEW m \in Loops, k # m
          PROVE  Range(draining'[k]) \cap Range(draining'[m]) = {}
      BY <1>4, <2>3, EmptyQueue DEF LedgerInv, QueuesDisjoint
    <2>4. QED
      BY <1>3, <2>1, <2>2, <2>3 DEF QueuesDisjoint
  <1>9. Drained'
    BY <1>1, <1>2, <1>4 DEF LedgerInv, Drained
  <1>10. QED
    BY <1>1, <1>6, <1>7, <1>8, <1>9 DEF LedgerInv, LedgerStep, Ledger!vars

LEMMA LedgerTask ==
  ASSUME TypeInv, LedgerInv, NEW l \in Loops, Task(l)
  PROVE  LedgerInv' /\ LedgerStep
  <1> USE LedgerStays, States
      DEF LedgerInv, Drained, hostVars, tableVars, dataVars, taskVars, histVars, bounds, Return
  <1>1. ASSUME Outer(l) PROVE LedgerInv' /\ LedgerStep
    BY <1>1 DEF Outer
  <1>2. ASSUME Top(l) PROVE LedgerInv' /\ LedgerStep
    BY <1>2 DEF Top
  <1>3. ASSUME PrepareFails(l) PROVE LedgerInv' /\ LedgerStep
    BY <1>3 DEF PrepareFails
  <1>4. ASSUME AppendBuffer(l) PROVE LedgerInv' /\ LedgerStep
    BY <1>4 DEF AppendBuffer
  <1>5. ASSUME Request(l) PROVE LedgerInv' /\ LedgerStep
    BY <1>5 DEF Request
  <1>6. ASSUME StreamTools(l) PROVE LedgerInv' /\ LedgerStep
    BY <1>6 DEF StreamTools
  <1>7. ASSUME StreamAnswer(l) PROVE LedgerInv' /\ LedgerStep
    BY <1>7 DEF StreamAnswer
  <1>8. ASSUME StreamFails(l) PROVE LedgerInv' /\ LedgerStep
    BY <1>8 DEF StreamFails
  <1>9. ASSUME ToolsDone(l) PROVE LedgerInv' /\ LedgerStep
    BY <1>9 DEF ToolsDone
  <1>10. ASSUME Swap(l) PROVE LedgerInv' /\ LedgerStep
    BY <1>10 DEF Swap
  <1>11. ASSUME Check(l) PROVE LedgerInv' /\ LedgerStep
    BY <1>11 DEF Check
  <1>12. ASSUME DropToken(l) PROVE LedgerInv' /\ LedgerStep
    BY <1>12 DEF DropToken
  <1>13. ASSUME DropBusy(l) PROVE LedgerInv' /\ LedgerStep
    BY <1>13 DEF DropBusy
  <1>14. ASSUME DropSignal(l) PROVE LedgerInv' /\ LedgerStep
    BY <1>14 DEF DropSignal
  <1>15. QED
    BY <1>1, <1>2, <1>3, <1>4, <1>5, <1>6, <1>7, <1>8, <1>9, <1>10, <1>11, <1>12, <1>13, <1>14, LedgerDrain, LedgerAppend, LedgerPutBack DEF Task

LEMMA LedgerPush ==
  ASSUME TypeInv, LedgerInv, NEW p \in Prompts, PushPending(p)
  PROVE  LedgerInv' /\ LedgerStep
  <1>1. /\ host \in {"push_queue", "push_steer"} /\ current = {p} /\ host' = "idle"
        /\ pending' = Append(pending, p) /\ accepted' = Append(accepted, p)
        /\ UNCHANGED <<store, dropped, draining, loop>>
    BY DEF PushPending, Enqueue
  <1>2. pending \in Seq(Prompts) /\ accepted \in Seq(Prompts)
    BY DEF TypeInv, TypeOK
  <1>3. p \notin Range(accepted) /\ p \notin Waiting /\ p \notin Range(store) \cup dropped
    BY <1>1 DEF LedgerInv, NothingUnknown, Fresh
  <1>4. /\ Range(pending') = Range(pending) \cup {p}
        /\ Range(accepted') = Range(accepted) \cup {p}
        /\ Distinct(pending) /\ p \notin Range(pending) => Distinct(pending')
    BY <1>1, <1>2, Appended
  <1>5. p \notin Range(pending) /\ \A l \in Loops : p \notin Range(draining[l])
    BY <1>3, InWaiting
  <1>6. \A q : q \in Waiting' <=> q \in Waiting \/ q = p
    BY <1>1, <1>4, InWaiting
  <1>7. Waiting' = Waiting \cup {p}
    BY <1>6
  <1>8. NothingUnknown'
    BY <1>1, <1>4, <1>7 DEF LedgerInv, NothingUnknown
  <1>9. QueuesDisjoint'
    BY <1>1, <1>4, <1>5 DEF LedgerInv, QueuesDisjoint
  <1>10. Drained'
    BY <1>1 DEF LedgerInv, Drained
  <1>11. Ledger!Accept(p)
    BY <1>1, <1>3, <1>7 DEF Ledger!Accept, Ledger!Known, Ledger!Range, Range
  <1>12. QED
    BY <1>8, <1>9, <1>10, <1>11 DEF LedgerInv, LedgerStep, Ledger!Next

LEMMA LedgerPersist ==
  ASSUME TypeInv, LedgerInv, NEW p \in Prompts, PersistStore(p)
  PROVE  LedgerInv' /\ LedgerStep
  <1>0. host = "persist" /\ current = {p} /\ UNCHANGED <<pending, dropped, draining, loop>>
    BY DEF PersistStore, taskVars
  <1>1. CASE host' = "buffer"
    <2>1. store' = Append(store, p) /\ accepted' = Append(accepted, p)
      BY <1>1 DEF PersistStore
    <2>2. store \in Seq(Prompts) /\ accepted \in Seq(Prompts)
      BY DEF TypeInv, TypeOK
    <2>3. /\ Range(store') = Range(store) \cup {p}
          /\ Range(accepted') = Range(accepted) \cup {p}
      BY <2>1, <2>2, Appended
    <2>4. Waiting' = Waiting
      BY <1>0 DEF Waiting
    <2>5. p \notin Waiting \cup Range(store) \cup dropped
      BY <1>0 DEF LedgerInv, NothingUnknown, Fresh
    <2>6. LedgerInv'
      BY <1>0, <1>1, <2>3, <2>4
         DEF LedgerInv, NothingUnknown, QueuesDisjoint, Distinct, Drained
    <2>7. Ledger!AcceptNow(p)
      BY <1>0, <2>1, <2>4, <2>5 DEF Ledger!AcceptNow, Ledger!Known, Ledger!Range, Range
    <2>8. QED
      BY <2>6, <2>7 DEF LedgerStep, Ledger!Next
  <1>2. CASE host' = "idle"
    <2>1. UNCHANGED <<store, accepted>>
      BY <1>2 DEF PersistStore
    <2>2. QED
      BY <1>0, <1>2, <2>1, LedgerSame DEF LedgerInv, Drained
  <1>3. QED
    BY <1>1, <1>2 DEF PersistStore

LEMMA LedgerAbandon ==
  ASSUME TypeInv, LedgerInv, CancelPending
  PROVE  LedgerInv' /\ LedgerStep
  <1>1. /\ dropped' = dropped \cup Range(pending) /\ pending' = <<>>
        /\ UNCHANGED <<host, current, store, accepted, draining, loop>>
    BY DEF CancelPending, hostVars, taskVars
  <1>2. \A q : q \in Waiting' <=> q \in Waiting /\ q \notin Range(pending)
    BY <1>1, InWaiting, EmptyQueue DEF LedgerInv, QueuesDisjoint
  <1>3. Waiting' = Waiting \ Range(pending) /\ Range(pending) \subseteq Waiting
    BY <1>2, InWaiting
  <1>4. NothingUnknown'
    BY <1>1, <1>3 DEF LedgerInv, NothingUnknown, Fresh
  <1>5. QueuesDisjoint'
    BY <1>1, EmptyQueue DEF LedgerInv, QueuesDisjoint, Distinct
  <1>6. Drained'
    BY <1>1 DEF LedgerInv, Drained
  <1>7. Ledger!Abandon(Range(pending))
    BY <1>1, <1>3 DEF Ledger!Abandon
  <1>8. Range(pending) \in SUBSET Prompts
    BY RangeOfPrompts DEF TypeInv, TypeOK
  <1>9. QED
    BY <1>4, <1>5, <1>6, <1>7, <1>8 DEF LedgerInv, LedgerStep, Ledger!Next

LEMMA LedgerHost ==
  ASSUME TypeInv, FollowInv, LedgerInv,
         \/ \E p \in Prompts : Submit(p)
         \/ Continue \/ HostStep \/ Cancellation
  PROVE  LedgerInv' /\ LedgerStep
  <1> USE LedgerSame DEF LedgerInv, Drained, hostVars, tableVars, dataVars, taskVars,
                         histVars, bounds
  <1>1. ASSUME NEW p \in Prompts, Submit(p) PROVE LedgerInv' /\ LedgerStep
    BY <1>1 DEF Submit
  <1>2. ASSUME NEW p \in Prompts, PersistBuffer(p) PROVE LedgerInv' /\ LedgerStep
    BY <1>2 DEF PersistBuffer
  <1>3. ASSUME Continue PROVE LedgerInv' /\ LedgerStep
    BY <1>3 DEF Continue
  <1>4. ASSUME LoadStore PROVE LedgerInv' /\ LedgerStep
    BY <1>4 DEF LoadStore
  <1>5. ASSUME SetBuffer PROVE LedgerInv' /\ LedgerStep
    BY <1>5 DEF SetBuffer
  <1>6. ASSUME Claim PROVE LedgerInv' /\ LedgerStep
    BY <1>6 DEF Claim
  <1>7. ASSUME InsertToken PROVE LedgerInv' /\ LedgerStep
    BY <1>7 DEF InsertToken
  <1>8. ASSUME InsertSignal PROVE LedgerInv' /\ LedgerStep
    BY <1>8 DEF InsertSignal
  <1>9. ASSUME Spawn PROVE LedgerInv' /\ LedgerStep
    <2>1. started \in Loops /\ loop \in [Loops -> LoopStates]
      BY <1>9 DEF Spawn, TypeInv, TypeOK, Bookkeeping, Claimed
    <2>2. loop[started] = "unused"
      BY <1>9, <2>1 DEF Spawn, FollowInv, Unspawned, Claimed
    <2>3. \A l \in Loops : loop'[l] \notin {"append", "file"} => draining[l] = <<>>
      BY <1>9, <2>1, <2>2 DEF Spawn, Go
    <2>4. QED
      BY <1>9, <2>3 DEF Spawn
  <1>10. ASSUME MarkBusy PROVE LedgerInv' /\ LedgerStep
    BY <1>10 DEF MarkBusy
  <1>11. ASSUME NEW kind \in {"session", "all"}, CancelToken(kind)
         PROVE  LedgerInv' /\ LedgerStep
    BY <1>11 DEF CancelToken
  <1>12. QED
    BY <1>1, <1>2, <1>3, <1>4, <1>5, <1>6, <1>7, <1>8, <1>9, <1>10, <1>11, LedgerPush, LedgerPersist, LedgerAbandon DEF HostStep, Cancellation

LEMMA LedgerNext ==
  TypeInv /\ FollowInv /\ LedgerInv /\ [Next]_vars => LedgerInv' /\ LedgerStep
  <1> SUFFICES ASSUME TypeInv, FollowInv, LedgerInv, [Next]_vars
               PROVE  LedgerInv' /\ LedgerStep
    OBVIOUS
  <1>1. CASE UNCHANGED vars
    BY <1>1, LedgerSame DEF LedgerInv, Drained, vars, hostVars, taskVars, dataVars, histVars
  <1>2. CASE Next
    BY <1>2, LedgerTask, LedgerHost DEF Next
  <1>3. QED
    BY <1>1, <1>2

LEMMA SpecLedger == Spec => [](TypeInv /\ FollowInv /\ LedgerInv)
  BY SpecInv, LedgerInit, LedgerNext, PTL DEF Spec

(* However host, tasks and cancellation interleave and writes fail, the    *)
(* session keeps the promise of PromptLedger: an accepted prompt waits,    *)
(* then is stored or abandoned; none is lost, duplicated or invented.      *)
THEOREM KeepsTheLedger == Spec => LedgerSpec
  BY SpecLedger, LedgerInit, LedgerNext, PTL DEF Spec, LedgerSpec, Ledger!Spec, LedgerStep

LEMMA SettledStep ==
  ASSUME TypeInv, Ledger!SettledOnce, LedgerStep
  PROVE  Ledger!SettledOnce'
  <1> USE DEF Ledger!SettledOnce, Ledger!Range, Range
  <1>0. store \in Seq(Prompts)
    BY DEF TypeInv, TypeOK
  <1>s. ASSUME NEW p \in Prompts, p \notin Range(store), store' = Append(store, p)
        PROVE  /\ Range(store') = Range(store) \cup {p}
               /\ \A i, j \in DOMAIN store' : store'[i] = store'[j] => i = j
    <2>1. Distinct(store)
      BY DEF Distinct
    <2>2. Range(store') = Range(store) \cup {p} /\ Distinct(store')
      BY <1>0, <1>s, <2>1, Appended
    <2>3. QED
      BY <2>2 DEF Distinct
  <1>1. ASSUME NEW p \in Prompts, Ledger!Accept(p) PROVE Ledger!SettledOnce'
    BY <1>1 DEF Ledger!Accept, Ledger!Known
  <1>2. ASSUME NEW p \in Prompts, Ledger!AcceptNow(p) PROVE Ledger!SettledOnce'
    <2>1. store' = Append(store, p) /\ p \notin Waiting \cup Range(store) \cup dropped
          /\ Waiting' = Waiting /\ dropped' = dropped
      BY <1>2 DEF Ledger!AcceptNow, Ledger!Known
    <2>2. Range(store') = Range(store) \cup {p}
          /\ \A i, j \in DOMAIN store' : store'[i] = store'[j] => i = j
      BY <1>s, <2>1
    <2>3. QED
      BY <2>1, <2>2
  <1>3. ASSUME NEW p \in Prompts, Ledger!Deliver(p) PROVE Ledger!SettledOnce'
    <2>1. store' = Append(store, p) /\ p \in Waiting /\ p \notin Range(store)
          /\ Waiting' = Waiting \ {p} /\ dropped' = dropped
      BY <1>3 DEF Ledger!Deliver
    <2>2. Range(store') = Range(store) \cup {p}
          /\ \A i, j \in DOMAIN store' : store'[i] = store'[j] => i = j
      BY <1>s, <2>1
    <2>3. QED
      BY <2>1, <2>2
  <1>4. ASSUME NEW S \in SUBSET Prompts, Ledger!Abandon(S) PROVE Ledger!SettledOnce'
    BY <1>4 DEF Ledger!Abandon
  <1>5. CASE UNCHANGED Ledger!vars
    BY <1>5 DEF Ledger!vars
  <1>6. QED
    BY <1>1, <1>2, <1>3, <1>4, <1>5 DEF LedgerStep, Ledger!Next

LEMMA SpecSettled == Spec => []Ledger!SettledOnce
  <1>1. Ledger!Init => Ledger!SettledOnce
    BY EmptyQueue DEF Ledger!Init, Ledger!SettledOnce, Ledger!Range, Range
  <1>2. QED
    BY SpecLedger, LedgerInit, LedgerNext, SettledStep, <1>1, PTL DEF Spec

(* No prompt is in the conversation twice, and none both waits, is stored  *)
(* or was abandoned: requeueing after a failed insert and the cancellation *)
(* racing a drain never store a prompt again or answer an abandoned one.   *)
THEOREM StoredOnce ==
  Spec => [](/\ Distinct(store)
             /\ Waiting \cap (Range(store) \cup dropped) = {}
             /\ Range(store) \cap dropped = {})
  <1>1. Ledger!SettledOnce => /\ Distinct(store)
                             /\ Waiting \cap (Range(store) \cup dropped) = {}
                             /\ Range(store) \cap dropped = {}
    BY DEF Ledger!SettledOnce, Ledger!Range, Range, Distinct
  <1>2. QED
    BY SpecSettled, <1>1, PTL

-----------------------------------------------------------------------------
(* The queue keeps the order of submission.                                *)

Earlier(order, p, q) ==
  \E i, j \in DOMAIN order : i < j /\ order[i] = p /\ order[j] = q

Ordered(order, s) == \A i, j \in DOMAIN s : i < j => Earlier(order, s[i], s[j])

\* SubmissionOrder speaks of what a task has drained with what is pending behind
\* it: each part is in order, and so is every prompt of the one with every prompt of
\* the other.
InOrder ==
  /\ Ordered(accepted, pending)
  /\ \A l \in Loops : Ordered(accepted, draining[l])
  /\ \A l \in Loops : \A p \in Range(draining[l]), q \in Range(pending) :
       Earlier(accepted, p, q)

OrderInv == failures = 0 => InOrder

\* A later submission changes nothing between the earlier ones and comes last.
LEMMA EarlierGrows ==
  ASSUME TypeInv, NEW r \in Prompts, accepted' = Append(accepted, r)
  PROVE  /\ \A p, q : Earlier(accepted, p, q) => Earlier(accepted', p, q)
         /\ \A p \in Range(accepted) : Earlier(accepted', p, r)
  <1>1. /\ accepted \in Seq(Prompts) /\ Len(accepted) \in Nat
        /\ DOMAIN accepted = 1 .. Len(accepted) /\ DOMAIN accepted' = 1 .. Len(accepted) + 1
        /\ \A i \in 1 .. Len(accepted) : accepted'[i] = accepted[i]
        /\ accepted'[Len(accepted) + 1] = r
    BY AppendProperties, LenProperties DEF TypeInv, TypeOK
  <1>2. \A p, q : Earlier(accepted, p, q) => Earlier(accepted', p, q)
    BY <1>1 DEF Earlier
  <1>3. ASSUME NEW p \in Range(accepted) PROVE Earlier(accepted', p, r)
    <2>1. PICK i \in 1 .. Len(accepted) : accepted[i] = p
      BY <1>1 DEF Range
    <2>2. i \in DOMAIN accepted' /\ Len(accepted) + 1 \in DOMAIN accepted' /\ i < Len(accepted) + 1
      BY <1>1
    <2>3. QED
      BY <1>1, <2>1, <2>2 DEF Earlier
  <1>4. QED
    BY <1>2, <1>3

\* Steps that move no prompt.
LEMMA OrderSame ==
  ASSUME OrderInv, UNCHANGED <<pending, draining, accepted>>,
         failures' = 0 => failures = 0
  PROVE  OrderInv'
  BY DEF OrderInv, InOrder

LEMMA OrderPush ==
  ASSUME TypeInv, LedgerInv, OrderInv, NEW p \in Prompts, PushPending(p)
  PROVE  OrderInv'
  <1>1. /\ pending' = Append(pending, p) /\ accepted' = Append(accepted, p)
        /\ UNCHANGED <<draining, failures>>
    BY DEF PushPending, Enqueue, bounds
  <1>2. pending \in Seq(Prompts)
    BY DEF TypeInv, TypeOK
  <1>3. /\ Len(pending) \in Nat /\ DOMAIN pending = 1 .. Len(pending)
        /\ DOMAIN pending' = 1 .. Len(pending) + 1
        /\ \A i \in 1 .. Len(pending) : pending'[i] = pending[i]
        /\ pending'[Len(pending) + 1] = p
        /\ Range(pending') = Range(pending) \cup {p}
    BY <1>1, <1>2, AppendProperties, LenProperties, Appended
  <1>4. \A q : q \in Range(pending) \/ (\E l \in Loops : q \in Range(draining[l])) => q \in Range(accepted)
    BY InWaiting DEF LedgerInv, NothingUnknown
  <1>5. /\ \A q, r : Earlier(accepted, q, r) => Earlier(accepted', q, r)
        /\ \A q \in Range(accepted) : Earlier(accepted', q, p)
    BY <1>1, EarlierGrows
  <1>6. ASSUME InOrder PROVE InOrder'
    <2>1. \A l \in Loops : Ordered(accepted', draining'[l])
      BY <1>1, <1>5, <1>6 DEF InOrder, Ordered
    <2>2. ASSUME NEW i \in 1 .. Len(pending) + 1, NEW j \in 1 .. Len(pending) + 1, i < j
          PROVE  Earlier(accepted', pending'[i], pending'[j])
      <3>1. i \in 1 .. Len(pending) /\ pending[i] \in Range(pending)
        BY <1>3, <2>2 DEF Range
      <3>2. CASE j = Len(pending) + 1
        BY <1>3, <1>4, <1>5, <3>1, <3>2
      <3>3. CASE j # Len(pending) + 1
        <4>1. j \in 1 .. Len(pending)
          BY <1>3, <3>3
        <4>2. Earlier(accepted, pending[i], pending[j])
          BY <1>3, <1>6, <2>2, <3>1, <4>1 DEF InOrder, Ordered
        <4>3. QED
          BY <1>3, <1>5, <3>1, <4>1, <4>2
      <3>4. QED
        BY <3>2, <3>3
    <2>3. Ordered(accepted', pending')
      BY <1>3, <2>2 DEF Ordered
    <2>4. \A l \in Loops : \A q \in Range(draining'[l]), r \in Range(pending') : Earlier(accepted', q, r)
      BY <1>1, <1>3, <1>4, <1>5, <1>6 DEF InOrder
    <2>5. QED
      BY <2>1, <2>3, <2>4 DEF InOrder
  <1>7. QED
    BY <1>1, <1>6 DEF OrderInv

LEMMA OrderPersist ==
  ASSUME TypeInv, OrderInv, NEW p \in Prompts, PersistStore(p)
  PROVE  OrderInv'
  <1>1. UNCHANGED <<pending, draining>>
    BY DEF PersistStore, taskVars
  <1>2. CASE accepted' = Append(accepted, p) /\ failures' = failures
    <2>1. \A q, r : Earlier(accepted, q, r) => Earlier(accepted', q, r)
      BY <1>2, EarlierGrows
    <2>2. QED
      BY <1>1, <1>2, <2>1 DEF OrderInv, InOrder, Ordered
  <1>3. CASE accepted' = accepted /\ (Fail \/ failures' = failures)
    <2>1. failures' = 0 => failures = 0
      BY <1>3 DEF Fail, TypeInv, TypeOK
    <2>2. QED
      BY <1>1, <1>3, <2>1, OrderSame
  <1>4. QED
    BY <1>2, <1>3 DEF PersistStore

LEMMA OrderDrain ==
  ASSUME TypeInv, LedgerInv, OrderInv, NEW l \in Loops, Drain(l)
  PROVE  OrderInv'
  <1>1. /\ pending' = <<>> /\ draining' = [draining EXCEPT ![l] = pending]
        /\ UNCHANGED <<accepted, failures>> /\ draining \in [Loops -> Seq(Prompts)]
    BY DEF Drain, histVars, bounds, TypeInv, TypeOK
  <1>2. \A k \in Loops : draining'[k] = IF k = l THEN pending ELSE draining[k]
    BY <1>1
  <1>3. QED
    BY <1>1, <1>2, EmptyQueue DEF OrderInv, InOrder, Ordered

LEMMA OrderAppend ==
  ASSUME TypeInv, LedgerInv, OrderInv, NEW l \in Loops, AppendStore(l)
  PROVE  OrderInv'
  <1> DEFINE d == draining[l]
  <1>1. /\ loop[l] = "append" /\ draining' = [draining EXCEPT ![l] = Tail(d)]
        /\ UNCHANGED <<pending, accepted, failures>> /\ draining \in [Loops -> Seq(Prompts)]
    BY DEF AppendStore, histVars, bounds, TypeInv, TypeOK
  <1>2. d \in Seq(Prompts) /\ d # <<>>
    BY <1>1 DEF TypeInv, Bookkeeping
  <1>3. /\ Range(d) = Range(Tail(d)) \cup {Head(d)} /\ Tail(d) \in Seq(Prompts)
        /\ Len(Tail(d)) = Len(d) - 1 /\ Len(d) \in Nat
        /\ \A i \in 1 .. Len(Tail(d)) : Tail(d)[i] = d[i + 1]
    BY <1>2, Beheaded, HeadTailProperties, LenProperties
  <1>4. DOMAIN d = 1 .. Len(d) /\ DOMAIN Tail(d) = 1 .. Len(d) - 1
    BY <1>2, <1>3, LenProperties
  <1>5. Ordered(accepted, d) => Ordered(accepted, Tail(d))
    BY <1>3, <1>4 DEF Ordered
  <1>6. \A k \in Loops : draining'[k] = IF k = l THEN Tail(d) ELSE draining[k]
    BY <1>1
  <1>7. QED
    BY <1>1, <1>3, <1>5, <1>6 DEF OrderInv, InOrder

\* A prompt goes back only when its insert fails: it is not in the store yet.
LEMMA OrderPutBack ==
  ASSUME TypeInv, LedgerInv, Ledger!SettledOnce, NEW l \in Loops, AppendFails(l)
  PROVE  failures' # 0
  <1> DEFINE d == draining[l]
  <1>1. loop[l] = "append" /\ (Fail \/ Head(d) \in Range(store))
    BY DEF AppendFails
  <1>2. d \in Seq(Prompts) /\ d # <<>>
    BY <1>1 DEF TypeInv, TypeOK, Bookkeeping
  <1>3. Head(d) \in Waiting
    BY <1>2, Beheaded, InWaiting
  <1>4. Head(d) \notin Range(store)
    BY <1>3 DEF Ledger!SettledOnce, Ledger!Range, Range
  <1>5. Fail
    BY <1>1, <1>4
  <1>6. QED
    BY <1>5 DEF Fail, TypeInv, TypeOK

LEMMA OrderAbandon ==
  ASSUME OrderInv, CancelPending
  PROVE  OrderInv'
  <1>1. pending' = <<>> /\ UNCHANGED <<draining, accepted, failures>>
    BY DEF CancelPending, taskVars, bounds
  <1>2. QED
    BY <1>1, EmptyQueue DEF OrderInv, InOrder, Ordered

LEMMA OrderTask ==
  ASSUME TypeInv, LedgerInv, Ledger!SettledOnce, OrderInv, NEW l \in Loops, Task(l)
  PROVE  OrderInv'
  <1> USE OrderSame DEF hostVars, tableVars, dataVars, taskVars, histVars, bounds, Fail,
                        TypeInv, TypeOK
  <1>1. ASSUME Outer(l) \/ Top(l) \/ PrepareFails(l) PROVE OrderInv'
    BY <1>1 DEF Outer, Top, PrepareFails
  <1>2. ASSUME AppendBuffer(l) \/ Request(l) PROVE OrderInv'
    BY <1>2 DEF AppendBuffer, Request
  <1>3. ASSUME StreamTools(l) \/ StreamAnswer(l) \/ StreamFails(l) PROVE OrderInv'
    BY <1>3 DEF StreamTools, StreamAnswer, StreamFails
  <1>4. ASSUME ToolsDone(l) \/ Swap(l) \/ Check(l) PROVE OrderInv'
    BY <1>4 DEF ToolsDone, Swap, Check
  <1>5. ASSUME DropToken(l) \/ DropBusy(l) \/ DropSignal(l) PROVE OrderInv'
    BY <1>5 DEF DropToken, DropBusy, DropSignal
  <1>6. ASSUME AppendFails(l) PROVE OrderInv'
    BY <1>6, OrderPutBack DEF OrderInv
  <1>7. QED
    BY <1>1, <1>2, <1>3, <1>4, <1>5, <1>6, OrderDrain, OrderAppend DEF Task

LEMMA OrderHost ==
  ASSUME TypeInv, LedgerInv, OrderInv,
         \/ \E p \in Prompts : Submit(p)
         \/ Continue \/ HostStep \/ Cancellation
  PROVE  OrderInv'
  <1> USE OrderSame DEF hostVars, tableVars, dataVars, taskVars, histVars, bounds, Fail,
                        TypeInv, TypeOK
  <1>1. ASSUME NEW p \in Prompts, Submit(p) \/ PersistBuffer(p) PROVE OrderInv'
    BY <1>1 DEF Submit, PersistBuffer
  <1>2. ASSUME Continue \/ LoadStore \/ SetBuffer \/ Claim PROVE OrderInv'
    BY <1>2 DEF Continue, LoadStore, SetBuffer, Claim
  <1>3. ASSUME InsertToken \/ InsertSignal \/ Spawn \/ MarkBusy PROVE OrderInv'
    BY <1>3 DEF InsertToken, InsertSignal, Spawn, MarkBusy
  <1>4. ASSUME NEW kind \in {"session", "all"}, CancelToken(kind) PROVE OrderInv'
    BY <1>4 DEF CancelToken
  <1>5. QED
    BY <1>1, <1>2, <1>3, <1>4, OrderPush, OrderPersist, OrderAbandon DEF HostStep, Cancellation

LEMMA OrderNext ==
  TypeInv /\ LedgerInv /\ Ledger!SettledOnce /\ OrderInv /\ [Next]_vars => OrderInv'
  <1> SUFFICES ASSUME TypeInv, LedgerInv, Ledger!SettledOnce, OrderInv, [Next]_vars
               PROVE  OrderInv'
    OBVIOUS
  <1>1. CASE UNCHANGED vars
    BY <1>1, OrderSame DEF vars, taskVars, dataVars, histVars, bounds
  <1>2. CASE Next
    BY <1>2, OrderTask, OrderHost DEF Next
  <1>3. QED
    BY <1>1, <1>2

(* Until something fails, the prompts a task has drained for a request and, *)
(* behind them, those still queued are in the order of their submission:    *)
(* drains, steering, cancellation and submissions in between never let one  *)
(* overtake another, in any number of loops.                                *)
THEOREM QueuedInOrder == Spec => []SubmissionOrder
  <1>1. Init => OrderInv
    BY EmptyQueue DEF Init, OrderInv, InOrder, Ordered
  <1>2. ASSUME TypeInv, OrderInv PROVE SubmissionOrder
    <2> SUFFICES ASSUME failures = 0, NEW l \in Loops,
                        NEW i \in DOMAIN (draining[l] \o pending),
                        NEW j \in DOMAIN (draining[l] \o pending), i < j
                 PROVE  Earlier(accepted, (draining[l] \o pending)[i], (draining[l] \o pending)[j])
      BY DEF SubmissionOrder, Before, Earlier
    <2> DEFINE d == draining[l]
    <2>1. InOrder /\ d \in Seq(Prompts) /\ pending \in Seq(Prompts)
      BY <1>2 DEF OrderInv, TypeInv, TypeOK
    <2>2. /\ Len(d) \in Nat /\ DOMAIN d = 1 .. Len(d)
          /\ Len(pending) \in Nat /\ DOMAIN pending = 1 .. Len(pending)
          /\ DOMAIN (d \o pending) = 1 .. Len(d) + Len(pending)
          /\ \A k \in 1 .. Len(d) + Len(pending) :
               (d \o pending)[k] = IF k <= Len(d) THEN d[k] ELSE pending[k - Len(d)]
      BY <2>1, ConcatProperties, LenProperties
    <2>3. i \in 1 .. Len(d) + Len(pending) /\ j \in 1 .. Len(d) + Len(pending)
      BY <2>2
    <2>4. CASE j <= Len(d)
      BY <2>1, <2>2, <2>3, <2>4 DEF InOrder, Ordered
    <2>5. CASE i > Len(d)
      <3>1. i - Len(d) \in DOMAIN pending /\ j - Len(d) \in DOMAIN pending
            /\ i - Len(d) < j - Len(d)
        BY <2>2, <2>3, <2>5
      <3>2. Earlier(accepted, pending[i - Len(d)], pending[j - Len(d)])
        BY <2>1, <3>1 DEF InOrder, Ordered
      <3>3. ~ (i <= Len(d)) /\ ~ (j <= Len(d))
        BY <2>2, <2>3, <2>5
      <3>4. QED
        BY <2>2, <2>3, <3>2, <3>3
    <2>6. CASE i <= Len(d) /\ j > Len(d)
      <3>1. d[i] \in Range(d) /\ pending[j - Len(d)] \in Range(pending)
        BY <2>2, <2>3, <2>6 DEF Range
      <3>2. Earlier(accepted, d[i], pending[j - Len(d)])
        BY <2>1, <3>1 DEF InOrder
      <3>3. ~ (j <= Len(d))
        BY <2>2, <2>3, <2>6
      <3>4. QED
        BY <2>2, <2>3, <2>6, <3>2, <3>3
    <2>7. QED
      BY <2>2, <2>3, <2>4, <2>5, <2>6
  <1>3. QED
    BY SpecLedger, SpecSettled, OrderNext, <1>1, <1>2, PTL DEF Spec

==============================================================================
