------------------------- MODULE ConversationProofs -------------------------
(***************************************************************************)
(* Proofs about Conversation, for any bounds: its types, what a request    *)
(* begins with, what undo, redo and compaction leave of the context state, *)
(* and what is deleted for good or never.                                  *)
(***************************************************************************)
EXTENDS Conversation, SequenceTheorems, WellFoundedInduction, TLAPS

-----------------------------------------------------------------------------
(* Reading a sequence of messages. *)

LEMMA FirstFacts ==
  ASSUME NEW S \in SUBSET Nat, S # {}
  PROVE  First(S) \in S /\ \A j \in S : First(S) <= j
  <1>1. PICK x \in S : \A y \in S : ~(<<y, x>> \in OpToRel(<, Nat))
    BY NatLessThanWellFounded, WFMin
  <1>2. \A y \in S : ~(y < x)
    BY <1>1 DEF OpToRel
  <1>3. \A y \in S : x <= y
    BY <1>2
  <1>4. QED
    BY <1>3 DEF First

LEMMA LastFacts ==
  ASSUME NEW n \in Nat, NEW S \in SUBSET (1 .. n), S # {}
  PROVE  Last(S) \in S /\ \A j \in S : j <= Last(S)
  <1> DEFINE T == {n - j : j \in S}
  <1>1. T \in SUBSET Nat /\ T # {}
    <2>1. \A j \in 1 .. n : n - j \in Nat
      OBVIOUS
    <2>2. QED
      BY <2>1
  <1>2. First(T) \in T /\ \A t \in T : First(T) <= t
    BY <1>1, FirstFacts
  <1>3. PICK x \in S : First(T) = n - x
    BY <1>2
  <1>4. ASSUME NEW y \in S PROVE y <= x
    <2>1. n - x <= n - y
      BY <1>2, <1>3
    <2>2. x \in 1 .. n /\ y \in 1 .. n
      OBVIOUS
    <2>3. QED
      BY <2>1, <2>2
  <1>5. QED
    BY <1>4 DEF Last

LEMMA PositionFacts ==
  ASSUME NEW s \in Seq(Messages), NEW n
  PROVE  /\ Len(s) \in Nat /\ DOMAIN s = 1 .. Len(s)
         /\ Position(s, n) \in 1 .. Len(s) + 1
         /\ Position(s, n) <= Len(s) =>
              s[Position(s, n)].kind = "prompt" /\ s[Position(s, n)].of = n
         /\ \A i \in 1 .. Len(s) : s[i].kind = "prompt" /\ s[i].of = n => Position(s, n) <= i
  <1> DEFINE at == {i \in Prompts(s) : s[i].of = n}
  <1>1. Len(s) \in Nat /\ DOMAIN s = 1 .. Len(s)
    BY LenProperties
  <1>2. at = {i \in 1 .. Len(s) : s[i].kind = "prompt" /\ s[i].of = n}
    BY <1>1 DEF Prompts
  <1>3. Position(s, n) = IF at = {} THEN Len(s) + 1 ELSE First(at)
    BY DEF Position
  <1> HIDE DEF at
  <1>4. CASE at = {}
    <2>1. Position(s, n) = Len(s) + 1
      BY <1>3, <1>4
    <2>2. \A i \in 1 .. Len(s) : ~(s[i].kind = "prompt" /\ s[i].of = n)
      BY <1>2, <1>4
    <2>3. QED
      BY <1>1, <2>1, <2>2
  <1>5. CASE at # {}
    <2>1. at \in SUBSET Nat
      BY <1>1, <1>2
    <2>2. Position(s, n) \in at /\ \A i \in at : Position(s, n) <= i
      <3>1. First(at) \in at /\ \A i \in at : First(at) <= i
        BY <1>5, <2>1, FirstFacts
      <3>2. QED
        BY <1>3, <1>5, <3>1
    <2>3. QED
      BY <1>1, <1>2, <2>2
  <1>6. QED
    BY <1>4, <1>5

\* A sequence is what lies before a prompt, and the rest.
LEMMA SplitAtPrompt ==
  ASSUME NEW s \in Seq(Messages), NEW n
  PROVE  /\ Before(s, n) \in Seq(Messages) /\ Len(Before(s, n)) = Position(s, n) - 1
         /\ DOMAIN Before(s, n) = 1 .. Position(s, n) - 1
         /\ \A i \in 1 .. Position(s, n) - 1 : Before(s, n)[i] = s[i] /\ i \in 1 .. Len(s)
         /\ From(s, n) \in Seq(Messages)
         /\ s = Before(s, n) \o From(s, n)
  <1> DEFINE p == Position(s, n)
  <1>1. Len(s) \in Nat /\ p \in 1 .. Len(s) + 1 /\ \A i \in 1 .. Len(s) : s[i] \in Messages
    BY PositionFacts, ElementOfSeq
  <1>2. Before(s, n) = SubSeq(s, 1, p - 1) /\ From(s, n) = SubSeq(s, p, Len(s))
    BY DEF Before, From
  <1> HIDE DEF p
  <1>3. /\ SubSeq(s, 1, p - 1) \in Seq(Messages)
        /\ Len(SubSeq(s, 1, p - 1)) = IF 1 <= p - 1 THEN p - 1 - 1 + 1 ELSE 0
        /\ \A i \in 1 .. p - 1 - 1 + 1 : SubSeq(s, 1, p - 1)[i] = s[1 + i - 1]
    <2>1. 1 \in Int /\ p - 1 \in Int /\ \A i \in 1 .. p - 1 : s[i] \in Messages
      BY <1>1
    <2>2. QED
      BY <2>1, SubSeqProperties
  <1>4. /\ Len(SubSeq(s, 1, p - 1)) = p - 1
        /\ \A i \in 1 .. p - 1 : SubSeq(s, 1, p - 1)[i] = s[i] /\ i \in 1 .. Len(s)
    BY <1>1, <1>3
  <1>5. DOMAIN SubSeq(s, 1, p - 1) = 1 .. p - 1
    BY <1>3, <1>4, LenProperties
  <1>6. SubSeq(s, p, Len(s)) \in Seq(Messages)
    <2>1. p \in Int /\ Len(s) \in Int /\ \A i \in p .. Len(s) : s[i] \in Messages
      BY <1>1
    <2>2. QED
      BY <2>1, SubSeqProperties
  <1>7. SubSeq(s, 1, p - 1) \o SubSeq(s, p, Len(s)) = s
    <2>1. 1 \in 1 .. Len(s) + 1 /\ p - 1 \in 0 .. Len(s) /\ Len(s) \in p - 1 .. Len(s) /\ p - 1 + 1 = p
      BY <1>1
    <2>2. PICK k : k = p - 1
      OBVIOUS
    <2>3. k \in 1 - 1 .. Len(s) /\ Len(s) \in k .. Len(s) /\ k + 1 = p
      BY <2>1, <2>2
    <2>4. SubSeq(s, 1, k) \o SubSeq(s, k + 1, Len(s)) = SubSeq(s, 1, Len(s))
      BY <2>1, <2>3, ConcatAdjacentSubSeq
    <2>5. QED
      BY <2>2, <2>3, <2>4, SubSeqFull
  <1>8. QED
    BY <1>2, <1>3, <1>4, <1>5, <1>6, <1>7 DEF p

-----------------------------------------------------------------------------
(* The context state a history ends with. *)

EndAt(s, k) ==
  LET M == {i \in 1 .. k : s[i].kind = "marker"}
  IN  IF M = {} THEN Empty ELSE [summary |-> s[Last(M)].of, retained |-> Last(M) - 1]

LEMMA EndOfPrefix ==
  ASSUME NEW s \in Seq(Messages)
  PROVE  /\ HistoryEnd(s) = EndAt(s, Len(s))
         /\ \A k \in 0 .. Len(s) : HistoryEnd(SubSeq(s, 1, k)) = EndAt(s, k)
  <1>1. Len(s) \in Nat /\ DOMAIN s = 1 .. Len(s) /\ \A i \in 1 .. Len(s) : s[i] \in Messages
    BY LenProperties, ElementOfSeq
  <1>2. HistoryEnd(s) = EndAt(s, Len(s))
    BY <1>1 DEF HistoryEnd, EndAt, Markers
  <1>3. ASSUME NEW k \in 0 .. Len(s) PROVE HistoryEnd(SubSeq(s, 1, k)) = EndAt(s, k)
    <2> DEFINE t == SubSeq(s, 1, k)
               M == {i \in 1 .. k : s[i].kind = "marker"}
    <2>1. t \in Seq(Messages) /\ Len(t) = k /\ \A i \in 1 .. k : t[i] = s[i]
      <3>1. 1 \in Int /\ k \in Int /\ \A i \in 1 .. k : s[i] \in Messages
        BY <1>1
      <3>2. /\ t \in Seq(Messages) /\ Len(t) = IF 1 <= k THEN k - 1 + 1 ELSE 0
            /\ \A i \in 1 .. k - 1 + 1 : t[i] = s[1 + i - 1]
        BY <3>1, SubSeqProperties
      <3> HIDE DEF t
      <3>3. QED
        BY <1>1, <3>2
    <2>2. DOMAIN t = 1 .. k
      BY <2>1, LenProperties
    <2> HIDE DEF t
    <2>3. Markers(t) = M
      BY <2>1, <2>2 DEF Markers
    <2>4. M # {} => t[Last(M)] = s[Last(M)]
      <3>1. k \in Nat /\ M \in SUBSET (1 .. k)
        BY <1>1
      <3>2. M # {} => Last(M) \in 1 .. k
        BY <3>1, LastFacts
      <3>3. QED
        BY <2>1, <3>2
    <2>5. QED
      BY <2>3, <2>4 DEF HistoryEnd, EndAt, t
  <1>4. QED
    BY <1>2, <1>3

LEMMA EndAgrees ==
  ASSUME NEW k \in Nat, NEW s, NEW t, \A i \in 1 .. k : s[i] = t[i]
  PROVE  EndAt(s, k) = EndAt(t, k)
  <1> DEFINE M == {i \in 1 .. k : s[i].kind = "marker"}
  <1>1. M = {i \in 1 .. k : t[i].kind = "marker"}
    OBVIOUS
  <1>2. M # {} => s[Last(M)] = t[Last(M)]
    <2>1. M # {} => Last(M) \in M
      BY LastFacts
    <2>2. QED
      BY <2>1
  <1>3. QED
    BY <1>1, <1>2 DEF EndAt

LEMMA EndSkips ==
  ASSUME NEW k \in Nat, NEW j \in 0 .. k, NEW s, \A i \in j + 1 .. k : s[i].kind # "marker"
  PROVE  EndAt(s, k) = EndAt(s, j)
  <1>1. {i \in 1 .. k : s[i].kind = "marker"} = {i \in 1 .. j : s[i].kind = "marker"}
    OBVIOUS
  <1>2. QED
    BY <1>1 DEF EndAt

LEMMA EndMarker ==
  ASSUME NEW k \in Nat, NEW s, s[k + 1].kind = "marker"
  PROVE  EndAt(s, k + 1) = [summary |-> s[k + 1].of, retained |-> k]
  <1> DEFINE M == {i \in 1 .. k + 1 : s[i].kind = "marker"}
  <1>1. k + 1 \in M /\ M \in SUBSET (1 .. k + 1) /\ k + 1 \in Nat
    OBVIOUS
  <1>2. Last(M) \in M /\ k + 1 <= Last(M)
    <2> HIDE DEF M
    <2>1. QED
      BY <1>1, LastFacts
  <1>3. Last(M) = k + 1 /\ M # {}
    BY <1>1, <1>2
  <1>4. EndAt(s, k + 1) = [summary |-> s[Last(M)].of, retained |-> Last(M) - 1]
    BY <1>3 DEF EndAt
  <1>5. QED
    BY <1>3, <1>4

\* A history end is a valid context state.
LEMMA EndIsValid ==
  ASSUME NEW s \in Seq(Messages)
  PROVE  Valid(EndAt(s, Len(s)), s)
  <1> DEFINE M == {i \in 1 .. Len(s) : s[i].kind = "marker"}
  <1>1. Len(s) \in Nat /\ DOMAIN s = 1 .. Len(s)
    BY LenProperties
  <1>2. CASE M = {}
    BY <1>1, <1>2 DEF EndAt, Valid, Empty
  <1>3. CASE M # {}
    <2>1. Last(M) \in M
      BY <1>1, <1>3, LastFacts
    <2>2. Last(M) \in Markers(s) /\ Last(M) \in 1 .. Len(s)
      BY <1>1, <2>1 DEF Markers
    <2>3. EndAt(s, Len(s)) = [summary |-> s[Last(M)].of, retained |-> Last(M) - 1]
      BY <1>3 DEF EndAt
    <2> HIDE DEF M
    <2>4. QED
      BY <1>1, <2>2, <2>3 DEF Valid
  <1>4. QED
    BY <1>2, <1>3

PriorsFit(s) == \A i \in 1 .. Len(s) : s[i].kind = "marker" => s[i].prior = EndAt(s, i - 1)

\* What an undo, redo or revert to a prompt makes the context state: what it
\* was when that prompt was submitted.
LEMMA ContextOfTarget ==
  ASSUME NEW s \in Seq(Messages), PriorsFit(s), NEW n, Position(s, n) <= Len(s)
  PROVE  ContextFor(s, n) = EndAt(s, Position(s, n) - 1)
  <1> DEFINE p == Position(s, n)
             later == {i \in Markers(s) : i > p}
  <1>1. /\ Len(s) \in Nat /\ DOMAIN s = 1 .. Len(s) /\ p \in 1 .. Len(s)
        /\ s[p].kind = "prompt"
    BY PositionFacts
  <1>2. ContextFor(s, n) = IF later # {} THEN s[First(later)].prior ELSE HistoryEnd(SubSeq(s, 1, p))
    BY DEF ContextFor
  <1>3. later = {i \in 1 .. Len(s) : s[i].kind = "marker" /\ i > p}
    BY <1>1 DEF Markers
  <1> HIDE DEF p, later
  <1>4. CASE later # {}
    <2> DEFINE f == First(later)
    <2>1. f \in later /\ \A j \in later : f <= j
      <3>1. later \in SUBSET Nat
        BY <1>1, <1>3
      <3>2. QED
        BY <1>4, <3>1, FirstFacts
    <2>2. f \in 1 .. Len(s) /\ s[f].kind = "marker" /\ f > p
      BY <1>3, <2>1
    <2>3. s[f].prior = EndAt(s, f - 1)
      BY <2>2 DEF PriorsFit
    <2> HIDE DEF f
    <2>4. \A i \in p .. f - 1 : s[i].kind # "marker"
      <3> SUFFICES ASSUME NEW i \in p .. f - 1, s[i].kind = "marker" PROVE FALSE
        OBVIOUS
      <3>1. i \in 1 .. Len(s) /\ i < f /\ i >= p
        BY <1>1, <2>2
      <3>2. i # p
        BY <1>1
      <3>3. i \in later
        BY <1>1, <1>3, <3>1, <3>2
      <3>4. QED
        BY <2>1, <2>2, <3>1, <3>3
    <2>5. EndAt(s, f - 1) = EndAt(s, p - 1)
      <3>1. f - 1 \in Nat /\ p - 1 \in 0 .. f - 1 /\ p - 1 + 1 = p
        BY <1>1, <2>2
      <3>2. QED
        BY <2>4, <3>1, EndSkips
    <2>6. QED
      BY <1>2, <1>4, <2>3, <2>5 DEF f, p
  <1>5. CASE later = {}
    <2>1. HistoryEnd(SubSeq(s, 1, p)) = EndAt(s, p)
      BY <1>1, EndOfPrefix
    <2>2. EndAt(s, p) = EndAt(s, p - 1)
      <3>1. p \in Nat /\ p - 1 \in 0 .. p /\ \A i \in p - 1 + 1 .. p : s[i].kind # "marker"
        BY <1>1
      <3>2. QED
        BY <3>1, EndSkips
    <2>3. QED
      BY <1>2, <1>5, <2>1, <2>2 DEF p
  <1>6. QED
    BY <1>4, <1>5

-----------------------------------------------------------------------------
(* Type correctness. *)

\* A step behind the counter's guard still has room when the counter grows.
BoundsInv ==
  /\ loop.at = "called" => loop.round < MaxRounds
  /\ ghost.at = "called" => ghost.round < MaxRounds
  /\ cmd.at \in {"delete", "clear", "append"} => prompts < MaxPrompts
  /\ cmd.at = "summary" => compactions < MaxCompactions

TypeInv == TypeOK /\ BoundsInv

LEMMA Bounds ==
  /\ MaxPrompts \in Nat /\ MaxRounds \in Nat /\ MaxCompactions \in Nat
  /\ MaxCommands \in Nat /\ MaxCrashes \in Nat
  BY BoundsAreNaturals

LEMMA EmptyType == Empty \in Contexts
  BY Bounds DEF Empty, Contexts

LEMMA MessageType ==
  /\ \A kind \in Kinds, of \in Nat, round \in Nat : Message(kind, of, round) \in Messages
  /\ \A n \in Nat, prior \in Contexts : Marker(n, prior) \in Messages
  BY EmptyType DEF Message, Marker, Messages, Kinds

Distinct(s) ==
  \A i, j \in 1 .. Len(s) :
    s[i].kind = s[j].kind /\ s[i].of = s[j].of /\ s[i].round = s[j].round => i = j

\* Prompts and markers are numbered by their counters; a loop has written the
\* messages of its former rounds, and of this one its call at most.
Numbered(m, ps, cs) ==
  /\ m.kind = "prompt" => m.round = 0
  /\ m.kind = "marker" => m.of \in 1 .. cs
  /\ m.kind # "marker" => m.of \in 1 .. ps

Written(m, l) ==
  l.at # "none" /\ m.of = l.of /\ m.kind \notin {"prompt", "marker"} =>
    /\ m.kind # "answer"
    /\ m.round < l.round \/ (l.at = "called" /\ m.kind = "call" /\ m.round = l.round)

Traced(s, l, g, ps, cs) ==
  \A i \in 1 .. Len(s) : Numbered(s[i], ps, cs) /\ Written(s[i], l) /\ Written(s[i], g)

\* The loops work on prompts that were submitted, and on different ones.
Owners ==
  /\ loop.at # "none" => loop.of \in 1 .. prompts
  /\ ghost.at # "none" => ghost.of \in 1 .. prompts
  /\ loop.at # "none" /\ ghost.at # "none" => loop.of # ghost.of

\* No message is written twice.
Once ==
  /\ Distinct(store) /\ Traced(store, loop, ghost, prompts, compactions)
  /\ Distinct(buffer) /\ Traced(buffer, loop, ghost, prompts, compactions)
  /\ Owners

\* The store lacks the hidden messages already deleted, and nothing else.
Copies ==
  IF cmd.at = "delete" THEN store = Before(buffer, cursor) \o cmd.left ELSE store = buffer

\* No loop runs during a command or while messages are hidden.
Phases ==
  /\ cmd.at # "none" \/ cursor # 0 => loop.at = "none"
  /\ cmd.at \in {"delete", "clear"} => cursor = cmd.target /\ cursor # 0
  /\ cmd.at = "append" => cursor = 0

LEMMA TypeInit == Init => TypeInv /\ Once /\ Copies /\ Phases
  <1> SUFFICES ASSUME Init PROVE TypeInv /\ Once /\ Copies /\ Phases
    OBVIOUS
  <1>1. <<>> \in Seq(Messages) /\ Len(<<>>) = 0
    BY EmptySeq
  <1>2. None \in Loops /\ NoCmd \in Cmds
    BY <1>1, Bounds, EmptyType DEF None, Loops, NoCmd, Cmds
  <1>3. {late, buried, torn} \subseteq BOOLEAN /\ gone \subseteq 1 .. MaxPrompts
    BY DEF Init
  <1>4. TypeOK
    BY <1>1, <1>2, <1>3, Bounds, EmptyType DEF Init, TypeOK
  <1>5. BoundsInv /\ Phases /\ Copies
    BY DEF Init, BoundsInv, Phases, Copies, None, NoCmd
  <1>6. Once
    BY <1>1 DEF Init, Once, Owners, Distinct, Traced, None
  <1>7. QED
    BY <1>4, <1>5, <1>6 DEF TypeInv

\* Any history end is a context state, and what a target needs.
LEMMA HistoryEndType ==
  ASSUME TypeInv, Once
  PROVE  /\ \A k \in 0 .. Len(buffer) : EndAt(buffer, k) \in Contexts
         /\ \A n : Position(buffer, n) <= Len(buffer) => ContextFor(buffer, n) \in Contexts
  <1>1. /\ buffer \in Seq(Messages) /\ Len(buffer) \in Nat /\ DOMAIN buffer = 1 .. Len(buffer)
        /\ compactions \in 0 .. MaxCompactions
        /\ \A i \in 1 .. Len(buffer) : buffer[i] \in Messages
    BY LenProperties, ElementOfSeq DEF TypeInv, TypeOK
  <1>2. \A i \in 1 .. Len(buffer) : buffer[i].kind = "marker" => buffer[i].of \in 0 .. MaxCompactions
    BY <1>1, Bounds DEF Once, Traced, Numbered
  <1>3. ASSUME NEW k \in 0 .. Len(buffer) PROVE EndAt(buffer, k) \in Contexts
    <2> DEFINE M == {i \in 1 .. k : buffer[i].kind = "marker"}
    <2>1. CASE M = {}
      BY <2>1, EmptyType DEF EndAt
    <2>2. CASE M # {}
      <3>1. k \in Nat /\ M \in SUBSET (1 .. k)
        BY <1>1
      <3>2. Last(M) \in M /\ Last(M) \in 1 .. k
        BY <2>2, <3>1, LastFacts
      <3>3. EndAt(buffer, k) = [summary |-> buffer[Last(M)].of, retained |-> Last(M) - 1]
        BY <2>2 DEF EndAt
      <3>4. buffer[Last(M)].of \in 0 .. MaxCompactions /\ Last(M) - 1 \in Nat
        BY <1>1, <1>2, <3>2
      <3>5. QED
        BY <3>3, <3>4 DEF Contexts
    <2>3. QED
      BY <2>1, <2>2
  <1>4. ASSUME NEW n, Position(buffer, n) <= Len(buffer) PROVE ContextFor(buffer, n) \in Contexts
    <2> DEFINE p == Position(buffer, n)
               later == {i \in Markers(buffer) : i > p}
    <2>1. ContextFor(buffer, n) = IF later # {} THEN buffer[First(later)].prior
                                  ELSE HistoryEnd(SubSeq(buffer, 1, p))
      BY DEF ContextFor
    <2>2. p \in 0 .. Len(buffer)
      <3>1. p \in 1 .. Len(buffer) + 1 /\ p <= Len(buffer)
        BY <1>1, <1>4, PositionFacts
      <3> HIDE DEF p
      <3>2. QED
        BY <1>1, <3>1
    <2>3. CASE later # {}
      <3>1. later \in SUBSET Nat /\ later \subseteq 1 .. Len(buffer)
        BY <1>1 DEF Markers
      <3>2. First(later) \in 1 .. Len(buffer)
        BY <2>3, <3>1, FirstFacts
      <3>3. buffer[First(later)].prior \in Contexts
        BY <1>1, <3>2 DEF Messages
      <3>4. QED
        BY <2>1, <2>3, <3>3
    <2>4. CASE later = {}
      BY <1>1, <1>3, <2>1, <2>2, <2>4, EndOfPrefix
    <2>5. QED
      BY <2>3, <2>4
  <1>5. QED
    BY <1>3, <1>4

\* The copies of the conversation, as sequences.
LEMMA CopyTypes ==
  ASSUME TypeInv
  PROVE  /\ store \in Seq(Messages) /\ Len(store) \in Nat /\ DOMAIN store = 1 .. Len(store)
         /\ buffer \in Seq(Messages) /\ Len(buffer) \in Nat /\ DOMAIN buffer = 1 .. Len(buffer)
         /\ \A i \in 1 .. Len(store) : store[i] \in Messages
         /\ \A i \in 1 .. Len(buffer) : buffer[i] \in Messages
  BY LenProperties, ElementOfSeq DEF TypeInv, TypeOK

LEMMA WriteFacts ==
  ASSUME TypeInv, NEW m \in Messages, Write(m)
  PROVE  /\ store' \in Seq(Messages) /\ Len(store') = Len(store) + 1
         /\ store'[Len(store) + 1] = m /\ \A i \in 1 .. Len(store) : store'[i] = store[i]
         /\ buffer' \in Seq(Messages) /\ Len(buffer') = Len(buffer) + 1
         /\ buffer'[Len(buffer) + 1] = m /\ \A i \in 1 .. Len(buffer) : buffer'[i] = buffer[i]
  BY CopyTypes, AppendProperties DEF Write

\* Undo, revert and redo stop the loop and aim at a prompt, or back at the end.
AimsAt(n) ==
  /\ n \in 1 .. prompts /\ Position(buffer, n) <= Len(buffer)
  /\ cmd' = [NoCmd EXCEPT !.at = "checkpoint", !.target = n, !.ctx = ContextFor(buffer, n)]

LEMMA MoveFacts ==
  ASSUME TypeInv, Once, Undo \/ Revert \/ Redo
  PROVE  /\ cmd.at = "none" /\ commands < MaxCommands /\ commands' = commands + 1
         /\ loop' = None /\ ghost' = (IF loop.at = "none" THEN ghost ELSE loop)
         /\ loop.at # "none" => ghost.at = "none"
         /\ UNCHANGED <<store, buffer, context, saved, cursor, checkpoint,
                        prompts, compactions, crashes, history>>
         /\ \/ \E n : AimsAt(n)
            \/ cursor # 0 /\ cmd' = [NoCmd EXCEPT !.at = "save", !.ctx = checkpoint]
  <1>t. /\ buffer \in Seq(Messages) /\ Len(buffer) \in Nat /\ DOMAIN buffer = 1 .. Len(buffer)
    BY CopyTypes
  <1>1. \A i \in 1 .. Len(buffer) : buffer[i].kind = "prompt" =>
          buffer[i].of \in 1 .. prompts /\ Position(buffer, buffer[i].of) <= Len(buffer)
    <2> SUFFICES ASSUME NEW i \in 1 .. Len(buffer), buffer[i].kind = "prompt"
                 PROVE  buffer[i].of \in 1 .. prompts /\ Position(buffer, buffer[i].of) <= Len(buffer)
      OBVIOUS
    <2>1. buffer[i].of \in 1 .. prompts
      BY DEF Once, Traced, Numbered
    <2>2. Position(buffer, buffer[i].of) <= i /\ Position(buffer, buffer[i].of) \in 1 .. Len(buffer) + 1
      BY <1>t, PositionFacts
    <2>3. QED
      BY <1>t, <2>1, <2>2
  <1>2. ASSUME NEW i \in 1 .. Len(buffer), buffer[i].kind = "prompt", MoveTo(buffer[i].of)
        PROVE  \E n : AimsAt(n)
    BY <1>1, <1>2 DEF MoveTo, AimsAt
  <1>3. ASSUME Undo PROVE \E n : AimsAt(n)
    <2> DEFINE v == Visible(buffer)
               before == Prompts(v)
    <2>1. before # {} /\ MoveTo(buffer[Last(before)].of)
      BY <1>3 DEF Undo
    <2>2. v \in Seq(Messages) /\ Len(v) <= Len(buffer) /\ \A i \in 1 .. Len(v) : v[i] = buffer[i]
      <3>1. CASE cursor = 0
        BY <1>t, <3>1 DEF Visible
      <3>2. CASE cursor # 0
        <4>1. v = Before(buffer, cursor)
          BY <3>2 DEF Visible
        <4>2. Position(buffer, cursor) \in 1 .. Len(buffer) + 1
          BY <1>t, PositionFacts
        <4> HIDE DEF v
        <4>3. v \in Seq(Messages) /\ Len(v) = Position(buffer, cursor) - 1
              /\ \A i \in 1 .. Position(buffer, cursor) - 1 : v[i] = buffer[i]
          BY <1>t, <4>1, SplitAtPrompt
        <4>4. QED
          BY <1>t, <4>2, <4>3
      <3>3. QED
        BY <3>1, <3>2
    <2> HIDE DEF v
    <2>3. DOMAIN v = 1 .. Len(v) /\ Len(v) \in Nat
      BY <2>2, LenProperties
    <2>4. before \in SUBSET (1 .. Len(v))
      BY <2>3 DEF Prompts
    <2>5. Last(before) \in before
      BY <2>1, <2>3, <2>4, LastFacts
    <2>6. Last(before) \in 1 .. Len(buffer) /\ buffer[Last(before)].kind = "prompt"
      <3>1. Last(before) \in 1 .. Len(v) /\ v[Last(before)].kind = "prompt"
        BY <2>4, <2>5 DEF Prompts
      <3> HIDE DEF before
      <3>2. QED
        BY <1>t, <2>2, <2>3, <3>1
    <2>7. QED
      BY <1>2, <2>1, <2>6
  <1>4. ASSUME Revert PROVE \E n : AimsAt(n)
    <2>1. PICK n \in Numbers(Prompts(buffer)) : MoveTo(n)
      BY <1>4 DEF Revert
    <2>2. PICK i \in Prompts(buffer) : n = buffer[i].of
      BY DEF Numbers
    <2>3. i \in 1 .. Len(buffer) /\ buffer[i].kind = "prompt"
      BY <1>t DEF Prompts
    <2>4. QED
      BY <1>2, <2>1, <2>2, <2>3
  <1>5. ASSUME Redo
        PROVE  \/ \E n : AimsAt(n)
               \/ cursor # 0 /\ cmd' = [NoCmd EXCEPT !.at = "save", !.ctx = checkpoint]
    <2> DEFINE after == {i \in Prompts(buffer) : i > Position(buffer, cursor)}
    <2>1. CASE after # {}
      <3>1. MoveTo(buffer[First(after)].of)
        BY <1>5, <2>1 DEF Redo
      <3>2. after \in SUBSET Nat
        BY <1>t DEF Prompts
      <3>3. First(after) \in after
        BY <2>1, <3>2, FirstFacts
      <3>4. First(after) \in 1 .. Len(buffer) /\ buffer[First(after)].kind = "prompt"
        BY <1>t, <3>3 DEF Prompts
      <3>5. QED
        BY <1>2, <3>1, <3>4
    <2>2. CASE after = {}
      BY <1>5, <2>2 DEF Redo
    <2>3. QED
      BY <2>1, <2>2
  <1>6. cmd.at = "none" /\ commands < MaxCommands /\ commands' = commands + 1 /\ Cancel
    BY DEF Undo, Revert, Redo, Ready
  <1>7. UNCHANGED <<store, buffer, context, saved, cursor, checkpoint, prompts, compactions, crashes, history>>
    BY DEF Undo, Revert, Redo
  <1>8. QED
    BY <1>3, <1>4, <1>5, <1>6, <1>7 DEF Cancel

\* Deleting the next hidden message takes it out of the store, and only it.
LEMMA DeleteFacts ==
  ASSUME TypeInv, Once, Copies, Delete
  PROVE  /\ cmd.left \in Seq(Messages) /\ Tail(cmd.left) \in Seq(Messages)
         /\ store' = Before(buffer, cursor) \o Tail(cmd.left)
         /\ store' \in Seq(Messages) /\ Len(store') = Len(store) - 1 /\ Len(store) \in Nat \ {0}
         /\ \E k \in 1 .. Len(store) :
              \A i \in 1 .. Len(store) - 1 : store'[i] = IF i < k THEN store[i] ELSE store[i + 1]
  <1>1. /\ cmd.at = "delete" /\ cmd.left # <<>> /\ cmd.left \in Seq(Messages)
        /\ store' = Without(store, Head(cmd.left))
    BY DEF Delete, TypeInv, TypeOK, Cmds
  <1>2. PICK L : L = cmd.left
    OBVIOUS
  <1>3. PICK B : B = Before(buffer, cursor)
    OBVIOUS
  <1>4. PICK s : s = store
    OBVIOUS
  <1>5. PICK b : b = Len(B)
    OBVIOUS
  <1>6. PICK l : l = Len(L)
    OBVIOUS
  <1>7. /\ L \in Seq(Messages) /\ Tail(L) \in Seq(Messages) /\ Len(Tail(L)) = l - 1
        /\ l \in Nat \ {0} /\ \A i \in 1 .. l - 1 : Tail(L)[i] = L[i + 1]
        /\ Head(L) = L[1]
    <2>1. L \in Seq(Messages) /\ L # <<>>
      BY <1>1, <1>2
    <2>2. /\ Tail(L) \in Seq(Messages) /\ Len(Tail(L)) = Len(L) - 1
          /\ \A i \in 1 .. Len(Tail(L)) : Tail(L)[i] = L[i + 1]
      BY <2>1, HeadTailProperties
    <2>3. Len(L) \in Nat \ {0} /\ Head(L) = L[1]
      BY <2>1, EmptySeq
    <2>4. QED
      BY <1>6, <2>1, <2>2, <2>3
  <1>8. B \in Seq(Messages) /\ b \in Nat
    BY <1>3, <1>5, CopyTypes, SplitAtPrompt, LenProperties
  <1>9. /\ s \in Seq(Messages) /\ Len(s) = b + l /\ s = B \o L /\ DOMAIN s = 1 .. b + l
        /\ \A i \in 1 .. b + l : s[i] \in Messages /\ s[i] = IF i <= b THEN B[i] ELSE L[i - b]
    <2>1. s = B \o L
      BY <1>1, <1>2, <1>3, <1>4 DEF Copies
    <2>2. /\ B \o L \in Seq(Messages) /\ Len(B \o L) = b + l
          /\ \A i \in 1 .. b + l : (B \o L)[i] = IF i <= b THEN B[i] ELSE L[i - b]
      BY <1>5, <1>6, <1>7, <1>8, ConcatProperties
    <2>3. DOMAIN (B \o L) = 1 .. b + l /\ \A i \in 1 .. b + l : (B \o L)[i] \in Messages
      BY <2>2, LenProperties, ElementOfSeq
    <2>4. QED
      BY <2>1, <2>2, <2>3
  <1>10. b + 1 \in 1 .. b + l /\ s[b + 1] = Head(L)
    <2>1. PICK k : k = b + 1
      OBVIOUS
    <2>2. k \in 1 .. b + l /\ ~(k <= b) /\ k - b = 1
      BY <1>7, <1>8, <2>1
    <2>3. s[k] = L[k - b]
      BY <1>9, <2>2
    <2>4. QED
      BY <1>7, <2>1, <2>2, <2>3
  <1>11. \A i \in 1 .. b + l : s[i] = Head(L) => i = b + 1
    <2>1. Distinct(s) /\ Len(s) = b + l
      BY <1>4, <1>9 DEF Once
    <2>2. QED
      BY <1>10, <2>1 DEF Distinct
  <1>12. Without(s, Head(L)) = SubSeq(s, 1, b) \o SubSeq(s, b + 2, b + l)
    <2> DEFINE c == CHOOSE i \in DOMAIN s : s[i] = Head(L)
    <2>1. c \in 1 .. b + l /\ s[c] = Head(L)
      BY <1>9, <1>10
    <2>2. c = b + 1
      BY <1>11, <2>1
    <2>3. Without(s, Head(L)) = SubSeq(s, 1, c - 1) \o SubSeq(s, c + 1, Len(s))
      BY <1>9, <1>10 DEF Without
    <2> HIDE DEF c
    <2>4. c - 1 = b /\ c + 1 = b + 2
      BY <1>8, <2>2
    <2>5. QED
      BY <1>9, <2>3, <2>4
  <1>13. /\ SubSeq(s, 1, b) \in Seq(Messages) /\ Len(SubSeq(s, 1, b)) = b
         /\ \A i \in 1 .. b : SubSeq(s, 1, b)[i] = s[i]
    <2>1. 1 \in Int /\ b \in Int /\ \A i \in 1 .. b : s[i] \in Messages
      BY <1>7, <1>8, <1>9
    <2>2. /\ SubSeq(s, 1, b) \in Seq(Messages)
          /\ Len(SubSeq(s, 1, b)) = IF 1 <= b THEN b - 1 + 1 ELSE 0
          /\ \A i \in 1 .. b - 1 + 1 : SubSeq(s, 1, b)[i] = s[1 + i - 1]
      BY <2>1, SubSeqProperties
    <2>3. QED
      BY <1>8, <2>2
  <1>14. SubSeq(s, 1, b) = B
    BY <1>5, <1>7, <1>8, <1>9, <1>13, SeqEqual
  <1>15. SubSeq(s, b + 2, b + l) = Tail(L)
    <2>0. PICK from, to : from = b + 2 /\ to = b + l
      OBVIOUS
    <2> DEFINE t == SubSeq(s, from, to)
    <2>1. from \in Int /\ to \in Int /\ \A i \in from .. to : s[i] \in Messages
      BY <1>7, <1>8, <1>9, <2>0
    <2>2. /\ t \in Seq(Messages)
          /\ Len(t) = IF from <= to THEN to - from + 1 ELSE 0
          /\ \A i \in 1 .. to - from + 1 : t[i] = s[from + i - 1]
      BY <2>1, SubSeqProperties
    <2> HIDE DEF t
    <2>3. Len(t) = l - 1
      BY <1>7, <1>8, <2>0, <2>2
    <2>4. ASSUME NEW i \in 1 .. l - 1 PROVE t[i] = Tail(L)[i]
      <3>1. PICK k : k = from + i - 1
        OBVIOUS
      <3>2. /\ i \in 1 .. to - from + 1
            /\ k \in 1 .. b + l /\ ~(k <= b) /\ k - b = i + 1
        BY <1>7, <1>8, <2>0, <3>1
      <3>3. t[i] = s[k]
        BY <2>2, <3>1, <3>2
      <3>4. s[k] = L[k - b]
        BY <1>9, <3>2
      <3>5. QED
        BY <1>7, <3>2, <3>3, <3>4
    <2>5. t = Tail(L)
      BY <1>7, <2>2, <2>3, <2>4, SeqEqual
    <2>6. QED
      BY <2>0, <2>5 DEF t
  <1>16. store' = B \o Tail(L)
    BY <1>1, <1>2, <1>4, <1>12, <1>14, <1>15
  <1>17. /\ B \o Tail(L) \in Seq(Messages) /\ Len(B \o Tail(L)) = b + l - 1
         /\ \A i \in 1 .. b + l - 1 :
              (B \o Tail(L))[i] = IF i < b + 1 THEN s[i] ELSE s[i + 1]
    <2>1. /\ B \o Tail(L) \in Seq(Messages) /\ Len(B \o Tail(L)) = b + (l - 1)
          /\ \A i \in 1 .. b + (l - 1) :
               (B \o Tail(L))[i] = IF i <= b THEN B[i] ELSE Tail(L)[i - b]
      <3>1. PICK T : T = Tail(L)
        OBVIOUS
      <3>2. T \in Seq(Messages) /\ Len(T) = l - 1
        BY <1>7, <3>1
      <3>3. /\ B \o T \in Seq(Messages) /\ Len(B \o T) = Len(B) + Len(T)
            /\ \A i \in 1 .. Len(B) + Len(T) : (B \o T)[i] = IF i <= Len(B) THEN B[i] ELSE T[i - Len(B)]
        BY <1>8, <3>2, ConcatProperties
      <3>4. QED
        BY <1>5, <3>1, <3>2, <3>3
    <2>2. ASSUME NEW i \in 1 .. b + l - 1
          PROVE  (B \o Tail(L))[i] = IF i < b + 1 THEN s[i] ELSE s[i + 1]
      <3>1. i \in 1 .. b + (l - 1) /\ i \in 1 .. b + l /\ i + 1 \in 1 .. b + l
        BY <1>7, <1>8
      <3>2. CASE i <= b
        BY <1>8, <1>9, <2>1, <3>1, <3>2
      <3>3. CASE ~(i <= b)
        <4>1. i - b \in 1 .. l - 1 /\ ~(i + 1 <= b) /\ i + 1 - b = i - b + 1 /\ ~(i < b + 1)
          BY <1>7, <1>8, <3>3
        <4>2. (B \o Tail(L))[i] = L[i - b + 1]
          BY <1>7, <2>1, <3>1, <3>3, <4>1
        <4>3. PICK k : k = i + 1
          OBVIOUS
        <4>4. s[k] = L[k - b]
          BY <1>9, <3>1, <4>1, <4>3
        <4>5. k - b = i - b + 1
          BY <1>8, <4>3
        <4>6. s[k] = L[i - b + 1]
          BY <4>4, <4>5
        <4>7. QED
          BY <4>1, <4>2, <4>3, <4>6
      <3>4. QED
        BY <3>2, <3>3
    <2>3. QED
      BY <1>7, <1>8, <2>1, <2>2
  <1>18. b + 1 \in 1 .. Len(store) /\ Len(store) = b + l
    BY <1>4, <1>9, <1>10
  <1>19. /\ Len(store') = Len(store) - 1 /\ Len(store) \in Nat \ {0}
         /\ \A i \in 1 .. Len(store) - 1 : store'[i] = IF i < b + 1 THEN store[i] ELSE store[i + 1]
    BY <1>4, <1>7, <1>8, <1>16, <1>17, <1>18
  <1>20. QED
    BY <1>1, <1>2, <1>3, <1>7, <1>16, <1>17, <1>18, <1>19

LEMMA BooleanType ==
  ASSUME NEW x, NEW p, NEW q, x \in BOOLEAN
  PROVE  (x \/ p) \in BOOLEAN /\ (x \/ p \/ q) \in BOOLEAN
  OBVIOUS

\* What a step does to a counter, a context state and the two copies when it
\* applies a compaction.
LEMMA CompactionFacts ==
  ASSUME TypeInv, NEW prior \in Contexts, NEW retained \in Nat, compactions < MaxCompactions,
         ApplyCompaction(prior, retained)
  PROVE  /\ compactions' = compactions + 1 /\ compactions' \in 1 .. MaxCompactions
         /\ Marker(compactions', prior) \in Messages /\ Write(Marker(compactions', prior))
         /\ saved' = [summary |-> compactions', retained |-> retained]
         /\ saved' \in Contexts /\ context' = saved' /\ buried' \in BOOLEAN
  <1>1. /\ compactions \in 0 .. MaxCompactions /\ buried \in BOOLEAN
        /\ compactions' = compactions + 1 /\ Write(Marker(compactions', prior))
        /\ saved' = [summary |-> compactions', retained |-> retained] /\ context' = saved'
        /\ buried' = (buried \/ cursor # 0)
    BY DEF TypeInv, TypeOK, ApplyCompaction
  <1>2. compactions' \in 1 .. MaxCompactions /\ compactions' \in Nat
    BY <1>1, Bounds
  <1>3. Marker(compactions', prior) \in Messages
    BY <1>2, MessageType
  <1>4. saved' \in Contexts
    BY <1>1, <1>2, Bounds DEF Contexts
  <1>5. buried' \in BOOLEAN
    BY <1>1, BooleanType
  <1>6. QED
    BY <1>1, <1>2, <1>3, <1>4, <1>5

LEMMA TypeNext == TypeInv /\ Once /\ Copies /\ [Next]_vars => TypeInv'
  <1> SUFFICES ASSUME TypeInv, Once, Copies, [Next]_vars PROVE TypeInv'
    OBVIOUS
  <1>t. /\ store \in Seq(Messages) /\ buffer \in Seq(Messages)
        /\ context \in Contexts /\ saved \in Contexts
        /\ cursor \in 0 .. MaxPrompts /\ checkpoint \in Contexts
        /\ loop \in Loops /\ ghost \in Loops /\ cmd \in Cmds
        /\ prompts \in 0 .. MaxPrompts /\ compactions \in 0 .. MaxCompactions
        /\ commands \in 0 .. MaxCommands /\ crashes \in 0 .. MaxCrashes
        /\ gone \subseteq 1 .. MaxPrompts
        /\ late \in BOOLEAN /\ buried \in BOOLEAN /\ torn \in BOOLEAN
    BY DEF TypeInv, TypeOK
  <1>b. BoundsInv
    BY DEF TypeInv
  <1>n. /\ None \in Loops /\ NoCmd \in Cmds /\ None.at = "none" /\ NoCmd.at = "none"
        /\ <<>> \in Seq(Messages)
    BY Bounds, EmptyType, EmptySeq DEF None, Loops, NoCmd, Cmds
  <1>w. \A m \in Messages : Write(m) => store' \in Seq(Messages) /\ buffer' \in Seq(Messages)
    BY WriteFacts
  <1>c. \A at \in {"none", "delete", "clear", "append", "checkpoint", "save", "context", "summary"} :
          Command(at) => cmd' \in Cmds /\ cmd'.at = at
    BY <1>t DEF Command, Cmds
  <1>1. CASE Submit
    <2>1. cmd' \in Cmds
      <3>1. CASE cursor = 0
        BY <1>1, <1>n, <3>1 DEF Submit, Cmds
      <3>2. CASE cursor # 0
        <4>1. From(buffer, cursor) \in Seq(Messages)
          BY <1>t, SplitAtPrompt
        <4>2. QED
          BY <1>1, <1>t, <1>n, <3>2, <4>1 DEF Submit, Cmds
      <3>3. QED
        BY <3>1, <3>2
    <2>2. prompts < MaxPrompts /\ cmd'.at \in {"append", "delete"} /\ loop' = loop /\ ghost' = ghost
      BY <1>1, <1>n DEF Submit, Cmds
    <2>3. QED
      BY <1>1, <1>t, <1>b, <2>1, <2>2 DEF Submit, TypeInv, TypeOK, BoundsInv, counters, history
  <1>2. CASE Delete
    <2>1. store' \in Seq(Messages) /\ Tail(cmd.left) \in Seq(Messages)
      BY <1>2, DeleteFacts
    <2>2. cmd' = [cmd EXCEPT !.left = Tail(cmd.left)] /\ cmd.at = "delete"
      BY <1>2 DEF Delete
    <2>3. cmd' \in Cmds /\ cmd'.at = "delete"
      BY <1>t, <2>1, <2>2 DEF Cmds
    <2>4. QED
      BY <1>2, <1>t, <1>b, <2>1, <2>2, <2>3 DEF Delete, TypeInv, TypeOK, BoundsInv, counters, history
  <1>3. CASE Truncate
    <2>1. buffer' \in Seq(Messages) /\ cmd' \in Cmds /\ cmd'.at = "clear" /\ cmd.at = "delete"
      BY <1>3, <1>t, <1>c, SplitAtPrompt DEF Truncate
    <2>2. gone' \subseteq 1 .. MaxPrompts
      <3>1. \A i \in Prompts(buffer) : buffer[i].of \in 1 .. MaxPrompts
        <4>1. \A i \in Prompts(buffer) : i \in 1 .. Len(buffer) /\ buffer[i].kind = "prompt"
          BY CopyTypes DEF Prompts
        <4>2. QED
          BY <1>t, <4>1, Bounds DEF Once, Traced, Numbered
      <3>2. QED
        BY <1>3, <1>t, <3>1 DEF Truncate
    <2>3. QED
      BY <1>3, <1>t, <1>b, <2>1, <2>2 DEF Truncate, TypeInv, TypeOK, BoundsInv, counters
  <1>4. CASE Clear
    <2>1. cmd' \in Cmds /\ cmd'.at = "append" /\ cmd.at = "clear"
      BY <1>4, <1>c DEF Clear
    <2>2. QED
      BY <1>4, <1>t, <1>b, <2>1, Bounds, EmptyType DEF Clear, TypeInv, TypeOK, BoundsInv, counters, history
  <1>5. CASE AppendPrompt
    <2>1. prompts' = prompts + 1 /\ prompts' \in 1 .. MaxPrompts /\ prompts' \in Nat
      BY <1>5, <1>t, <1>b, Bounds DEF AppendPrompt, BoundsInv
    <2>2. store' \in Seq(Messages) /\ buffer' \in Seq(Messages)
      <3>1. Message("prompt", prompts', 0) \in Messages
        BY <2>1, MessageType DEF Kinds
      <3>2. QED
        BY <1>5, <1>w, <3>1 DEF AppendPrompt
    <2>3. loop' \in Loops /\ loop'.at = "ask"
      BY <1>5, <2>1, Bounds DEF AppendPrompt, Loops
    <2>4. QED
      BY <1>5, <1>t, <1>b, <1>n, <2>1, <2>2, <2>3 DEF AppendPrompt, TypeInv, TypeOK, BoundsInv, history
  <1>6. CASE Stop
    BY <1>6, <1>t, <1>b, <1>n DEF Stop, Cancel, TypeInv, TypeOK, BoundsInv, counters, history
  <1>7. CASE Undo \/ Revert \/ Redo
    <2>1. /\ commands < MaxCommands /\ commands' = commands + 1
          /\ loop' = None /\ ghost' = (IF loop.at = "none" THEN ghost ELSE loop)
          /\ UNCHANGED <<store, buffer, context, saved, cursor, checkpoint,
                         prompts, compactions, crashes, history>>
          /\ \/ \E n : AimsAt(n)
             \/ cursor # 0 /\ cmd' = [NoCmd EXCEPT !.at = "save", !.ctx = checkpoint]
      BY <1>7, MoveFacts
    <2>2. cmd' \in Cmds /\ cmd'.at \in {"checkpoint", "save"}
      <3>1. ASSUME NEW n, AimsAt(n) PROVE cmd' \in Cmds /\ cmd'.at \in {"checkpoint", "save"}
        <4>1. n \in 0 .. MaxPrompts /\ ContextFor(buffer, n) \in Contexts
          BY <1>t, <3>1, Bounds, HistoryEndType DEF AimsAt
        <4>2. QED
          BY <1>n, <3>1, <4>1 DEF AimsAt, Cmds
      <3>2. ASSUME cmd' = [NoCmd EXCEPT !.at = "save", !.ctx = checkpoint]
            PROVE  cmd' \in Cmds /\ cmd'.at \in {"checkpoint", "save"}
        BY <1>t, <1>n, <3>2 DEF Cmds
      <3>3. QED
        BY <2>1, <3>1, <3>2
    <2>3. commands' \in 0 .. MaxCommands
      BY <1>t, <2>1, Bounds
    <2>4. QED
      BY <1>t, <1>b, <1>n, <2>1, <2>2, <2>3 DEF TypeInv, TypeOK, BoundsInv, history
  <1>8. CASE TakeCheckpoint
    <2>1. cmd' \in Cmds /\ cmd'.at = "save"
      BY <1>8, <1>t DEF TakeCheckpoint, Cmds
    <2>2. QED
      BY <1>8, <1>t, <1>b, <2>1 DEF TakeCheckpoint, TypeInv, TypeOK, BoundsInv, counters, history
  <1>9. CASE SaveRevert
    <2>1. cmd' \in Cmds /\ cmd'.at = "context"
      BY <1>9, <1>c DEF SaveRevert
    <2>2. cmd.target \in 0 .. MaxPrompts /\ cmd.check \in Contexts /\ cmd.ctx \in Contexts
      BY <1>t DEF Cmds
    <2>3. QED
      BY <1>9, <1>t, <1>b, <2>1, <2>2 DEF SaveRevert, TypeInv, TypeOK, BoundsInv, counters, history
  <1>10. CASE SetContext
    <2>1. cmd.ctx \in Contexts
      BY <1>t DEF Cmds
    <2>2. QED
      BY <1>10, <1>t, <1>b, <1>n, <2>1 DEF SetContext, TypeInv, TypeOK, BoundsInv, counters, history
  <1>11. CASE Compact
    <2>1. cmd' \in Cmds /\ cmd'.at = "summary"
      <3>1. [summary |-> 0, retained |-> Len(store)] \in Contexts
        BY CopyTypes, Bounds DEF Contexts
      <3>2. QED
        BY <1>11, <1>t, <1>n, <3>1 DEF Compact, Cmds
    <2>2. QED
      BY <1>11, <1>t, <1>b, <2>1 DEF Compact, TypeInv, TypeOK, BoundsInv, counters, history
  <1>12. CASE CompactDone
    <2>1. cmd.check \in Contexts /\ cmd.ctx.retained \in Nat /\ compactions < MaxCompactions
      BY <1>12, <1>t, <1>b DEF CompactDone, Cmds, Contexts, BoundsInv
    <2>2. /\ compactions' \in 1 .. MaxCompactions /\ saved' \in Contexts /\ context' = saved'
          /\ buried' \in BOOLEAN /\ store' \in Seq(Messages) /\ buffer' \in Seq(Messages)
      BY <1>12, <1>w, <2>1, CompactionFacts DEF CompactDone
    <2>3. QED
      BY <1>12, <1>t, <1>b, <1>n, <2>2 DEF CompactDone, TypeInv, TypeOK, BoundsInv
  <1>13. CASE CompactFails
    BY <1>13, <1>t, <1>b, <1>n DEF CompactFails, TypeInv, TypeOK, BoundsInv, counters, history
  <1>14. CASE AutoCompact
    <2>1. /\ compactions' \in 1 .. MaxCompactions /\ saved' \in Contexts /\ context' = saved'
          /\ buried' \in BOOLEAN /\ store' \in Seq(Messages) /\ buffer' \in Seq(Messages)
          /\ cmd.at # "summary"
      BY <1>14, <1>t, <1>w, CopyTypes, CompactionFacts DEF AutoCompact
    <2>2. QED
      BY <1>14, <1>t, <1>b, <2>1 DEF AutoCompact, TypeInv, TypeOK, BoundsInv
  <1>15. CASE Answer
    <2>1. Message("answer", loop.of, loop.round) \in Messages
      BY <1>t, Bounds, MessageType DEF Loops, Kinds
    <2>2. QED
      BY <1>15, <1>t, <1>b, <1>n, <1>w, <2>1 DEF Answer, TypeInv, TypeOK, BoundsInv, counters, history
  <1>16. CASE Call
    <2>1. Message("call", loop.of, loop.round) \in Messages
      BY <1>t, Bounds, MessageType DEF Loops, Kinds
    <2>2. loop' \in Loops /\ loop'.round < MaxRounds
      BY <1>16, <1>t DEF Call, Loops
    <2>3. QED
      BY <1>16, <1>t, <1>b, <1>w, <2>1, <2>2 DEF Call, TypeInv, TypeOK, BoundsInv, counters, history
  <1>17. CASE Results
    <2>1. Message("results", loop.of, loop.round) \in Messages
      BY <1>t, Bounds, MessageType DEF Loops, Kinds
    <2>2. loop' \in Loops /\ loop'.at = "ask"
      <3>1. loop.round < MaxRounds /\ loop.round \in Nat
        BY <1>17, <1>t, <1>b, Bounds DEF Results, BoundsInv, Loops
      <3>2. loop.round + 1 \in 0 .. MaxRounds
        BY <3>1, Bounds
      <3>3. QED
        BY <1>17, <1>t, <3>2 DEF Results, Loops
    <2>3. QED
      BY <1>17, <1>t, <1>b, <1>w, <2>1, <2>2 DEF Results, TypeInv, TypeOK, BoundsInv, counters, history
  <1>18. CASE Fails
    BY <1>18, <1>t, <1>b, <1>n DEF Fails, TypeInv, TypeOK, BoundsInv, counters, history
  <1>19. CASE GhostWrites
    <2>1. /\ Message("results", ghost.of, ghost.round) \in Messages
          /\ Message("answer", ghost.of, ghost.round) \in Messages
      BY <1>t, Bounds, MessageType DEF Loops, Kinds
    <2>2. store' \in Seq(Messages) /\ buffer' \in Seq(Messages)
      <3>1. PICK m \in Messages : Write(m)
        <4>1. CASE ghost.at = "called"
          BY <1>19, <2>1, <4>1 DEF GhostWrites
        <4>2. CASE ghost.at # "called"
          BY <1>19, <2>1, <4>2 DEF GhostWrites
        <4>3. QED
          BY <4>1, <4>2
      <3>2. QED
        BY <1>w, <3>1
    <2>3. late' \in BOOLEAN
      BY <1>19, <1>t, BooleanType DEF GhostWrites, Overtakes
    <2>4. QED
      BY <1>19, <1>t, <1>b, <1>n, <2>2, <2>3 DEF GhostWrites, TypeInv, TypeOK, BoundsInv, counters
  <1>20. CASE GhostCompacts
    <2>1. /\ compactions' \in 1 .. MaxCompactions /\ saved' \in Contexts /\ context' = saved'
          /\ buried' \in BOOLEAN /\ store' \in Seq(Messages) /\ buffer' \in Seq(Messages)
          /\ cmd.at # "summary"
      BY <1>20, <1>t, <1>w, CopyTypes, CompactionFacts DEF GhostCompacts
    <2>2. late' \in BOOLEAN
      BY <1>20, <1>t, BooleanType DEF GhostCompacts, Overtakes
    <2>3. QED
      BY <1>20, <1>t, <1>b, <1>n, <2>1, <2>2 DEF GhostCompacts, TypeInv, TypeOK, BoundsInv
  <1>21. CASE GhostEnds
    BY <1>21, <1>t, <1>b, <1>n DEF GhostEnds, TypeInv, TypeOK, BoundsInv, counters, history
  <1>22. CASE Crash
    <2>1. torn' \in BOOLEAN
      BY <1>22, <1>t, BooleanType DEF Crash
    <2>2. crashes' \in 0 .. MaxCrashes
      BY <1>22, <1>t, Bounds DEF Crash
    <2>3. QED
      BY <1>22, <1>t, <1>b, <1>n, <2>1, <2>2 DEF Crash, TypeInv, TypeOK, BoundsInv
  <1>23. CASE UNCHANGED vars
    BY <1>23, <1>t, <1>b DEF vars, TypeInv, TypeOK, BoundsInv, counters, history
  <1>24. QED
    BY ONLY [Next]_vars, <1>1, <1>2, <1>3, <1>4, <1>5, <1>6, <1>7, <1>8, <1>9, <1>10, <1>11, <1>12,
       <1>13, <1>14, <1>15, <1>16, <1>17, <1>18, <1>19, <1>20, <1>21, <1>22, <1>23
       DEF Next, Commands, Loop, Ghost

LEMMA PhasesNext == TypeInv /\ Once /\ Phases /\ [Next]_vars => Phases'
  <1> SUFFICES ASSUME TypeInv, Once, Phases, [Next]_vars PROVE Phases'
    OBVIOUS
  <1>t. cmd \in Cmds /\ loop \in Loops /\ NoCmd.at = "none" /\ None.at = "none"
    BY DEF TypeInv, TypeOK, NoCmd, None
  <1>c. \A at \in {"none", "delete", "clear", "append", "checkpoint", "save", "context", "summary"} :
          Command(at) => cmd'.at = at /\ cmd'.target = cmd.target
    BY <1>t DEF Command, Cmds
  <1>1. CASE Submit
    <2>1. CASE cursor = 0
      BY <1>1, <1>t, <2>1 DEF Submit, Phases, NoCmd
    <2>2. CASE cursor # 0
      BY <1>1, <1>t, <2>2 DEF Submit, Phases, NoCmd
    <2>3. QED
      BY <2>1, <2>2
  <1>2. CASE Delete
    BY <1>2, <1>t DEF Delete, Phases, Cmds
  <1>3. CASE Truncate
    BY <1>3, <1>c DEF Truncate, Phases
  <1>4. CASE Clear
    BY <1>4, <1>c DEF Clear, Phases
  <1>5. CASE AppendPrompt
    BY <1>5, <1>t DEF AppendPrompt, Phases
  <1>6. CASE Stop
    BY <1>6, <1>t DEF Stop, Cancel, Phases
  <1>7. CASE Undo \/ Revert \/ Redo
    <2>1. loop' = None /\ cursor' = cursor
          /\ (cmd'.at = "checkpoint" \/ cmd'.at = "save")
      BY <1>7, MoveFacts DEF AimsAt, NoCmd
    <2>2. QED
      BY <1>t, <2>1 DEF Phases
  <1>8. CASE TakeCheckpoint
    BY <1>8, <1>t DEF TakeCheckpoint, Phases, Cmds
  <1>9. CASE SaveRevert
    BY <1>9, <1>c DEF SaveRevert, Phases
  <1>10. CASE SetContext
    BY <1>10, <1>t DEF SetContext, Phases
  <1>11. CASE Compact
    BY <1>11, <1>t DEF Compact, Phases, NoCmd
  <1>12. CASE CompactDone
    BY <1>12, <1>t DEF CompactDone, Phases
  <1>13. CASE CompactFails
    BY <1>13, <1>t DEF CompactFails, Phases
  <1>14. CASE AutoCompact
    BY <1>14 DEF AutoCompact, Phases
  <1>15. CASE Answer \/ Call \/ Results \/ Fails
    BY <1>15, <1>t DEF Answer, Call, Results, Fails, Phases
  <1>16. CASE Ghost
    BY <1>16 DEF Ghost, GhostWrites, GhostCompacts, GhostEnds, Phases
  <1>17. CASE Crash
    BY <1>17, <1>t DEF Crash, Phases
  <1>18. CASE UNCHANGED vars
    BY <1>18 DEF vars, Phases
  <1>19. QED
    BY ONLY [Next]_vars, <1>1, <1>2, <1>3, <1>4, <1>5, <1>6, <1>7, <1>8, <1>9, <1>10, <1>11, <1>12,
       <1>13, <1>14, <1>15, <1>16, <1>17, <1>18
       DEF Next, Commands, Loop

\* One message more, with a key of its own; the others keep their properties.
Extended(s, t, m) ==
  Len(t) = Len(s) + 1 /\ t[Len(s) + 1] = m /\ \A i \in 1 .. Len(s) : t[i] = s[i]

Fresh(m, l, g, ps, cs, l2, g2, ps2, cs2) ==
  /\ \A x \in Messages : Numbered(x, ps, cs) /\ Written(x, l) /\ Written(x, g) =>
       /\ Numbered(x, ps2, cs2) /\ Written(x, l2) /\ Written(x, g2)
       /\ ~(x.kind = m.kind /\ x.of = m.of /\ x.round = m.round)
  /\ Numbered(m, ps2, cs2) /\ Written(m, l2) /\ Written(m, g2)

LEMMA TracedAppend ==
  ASSUME NEW s \in Seq(Messages), NEW t, NEW m, Extended(s, t, m),
         NEW l, NEW g, NEW ps, NEW cs, NEW l2, NEW g2, NEW ps2, NEW cs2,
         Distinct(s), Traced(s, l, g, ps, cs), Fresh(m, l, g, ps, cs, l2, g2, ps2, cs2)
  PROVE  Distinct(t) /\ Traced(t, l2, g2, ps2, cs2)
  <1>1. Len(s) \in Nat /\ \A i \in 1 .. Len(s) : s[i] \in Messages
    BY LenProperties, ElementOfSeq
  <1>2. PICK k : k = Len(s) + 1
    OBVIOUS
  <1>3. /\ Len(t) = k /\ t[k] = m
        /\ \A i \in 1 .. k : i # k => i \in 1 .. Len(s) /\ t[i] = s[i]
    BY <1>1, <1>2 DEF Extended
  <1>4. \A i \in 1 .. Len(s) :
          /\ Numbered(s[i], ps2, cs2) /\ Written(s[i], l2) /\ Written(s[i], g2)
          /\ ~(s[i].kind = m.kind /\ s[i].of = m.of /\ s[i].round = m.round)
    BY <1>1 DEF Traced, Fresh
  <1>5. Traced(t, l2, g2, ps2, cs2)
    <2> SUFFICES ASSUME NEW i \in 1 .. k
                 PROVE  Numbered(t[i], ps2, cs2) /\ Written(t[i], l2) /\ Written(t[i], g2)
      BY <1>3 DEF Traced
    <2>1. CASE i = k
      BY <1>3, <2>1 DEF Fresh
    <2>2. CASE i # k
      BY <1>3, <1>4, <2>2
    <2>3. QED
      BY <2>1, <2>2
  <1>6. Distinct(t)
    <2> SUFFICES ASSUME NEW i \in 1 .. k, NEW j \in 1 .. k,
                        t[i].kind = t[j].kind, t[i].of = t[j].of, t[i].round = t[j].round
                 PROVE  i = j
      BY <1>3 DEF Distinct
    <2>1. CASE i # k /\ j # k
      BY <1>3, <2>1 DEF Distinct
    <2>2. CASE i = k /\ j # k
      BY <1>3, <1>4, <2>2
    <2>3. CASE i # k /\ j = k
      BY <1>3, <1>4, <2>3
    <2>4. QED
      BY <2>1, <2>2, <2>3
  <1>7. QED
    BY <1>5, <1>6

\* ... and when messages are taken out: the others come from different positions.
Part(s, t, f) ==
  /\ Len(t) \in Nat
  /\ \A i \in 1 .. Len(t) : f[i] \in 1 .. Len(s) /\ t[i] = s[f[i]]
  /\ \A i, j \in 1 .. Len(t) : f[i] = f[j] => i = j

LEMMA TracedPart ==
  ASSUME NEW s, NEW t, NEW f, Part(s, t, f), NEW l, NEW g, NEW ps, NEW cs,
         Distinct(s), Traced(s, l, g, ps, cs)
  PROVE  Distinct(t) /\ Traced(t, l, g, ps, cs)
  <1>1. Traced(t, l, g, ps, cs)
    BY DEF Part, Traced
  <1>2. Distinct(t)
    <2> SUFFICES ASSUME NEW i \in 1 .. Len(t), NEW j \in 1 .. Len(t),
                        t[i].kind = t[j].kind, t[i].of = t[j].of, t[i].round = t[j].round
                 PROVE  i = j
      BY DEF Distinct
    <2>1. f[i] \in 1 .. Len(s) /\ f[j] \in 1 .. Len(s) /\ t[i] = s[f[i]] /\ t[j] = s[f[j]]
      BY DEF Part
    <2>2. f[i] = f[j]
      BY <2>1 DEF Distinct
    <2>3. QED
      BY <2>2 DEF Part
  <1>3. QED
    BY <1>1, <1>2

\* ... and when the loops change hands.
LEMMA TracedAgain ==
  ASSUME NEW s, NEW l, NEW g, NEW ps, NEW cs, NEW l2, NEW g2, Traced(s, l, g, ps, cs),
         \A x : Written(x, l) /\ Written(x, g) => Written(x, l2) /\ Written(x, g2)
  PROVE  Traced(s, l2, g2, ps, cs)
  BY DEF Traced

LEMMA OnceAppend ==
  ASSUME TypeInv, Once, NEW m \in Messages, Write(m),
         NEW l2, NEW g2, NEW ps2, NEW cs2,
         Fresh(m, loop, ghost, prompts, compactions, l2, g2, ps2, cs2)
  PROVE  /\ Distinct(store') /\ Traced(store', l2, g2, ps2, cs2)
         /\ Distinct(buffer') /\ Traced(buffer', l2, g2, ps2, cs2)
  <1>1. PICK s, t : s = store' /\ t = buffer'
    OBVIOUS
  <1>2. /\ store \in Seq(Messages) /\ buffer \in Seq(Messages)
        /\ Extended(store, s, m) /\ Extended(buffer, t, m)
    BY <1>1, CopyTypes, WriteFacts DEF Extended
  <1>3. /\ Distinct(store) /\ Traced(store, loop, ghost, prompts, compactions)
        /\ Distinct(buffer) /\ Traced(buffer, loop, ghost, prompts, compactions)
    BY DEF Once
  <1>4. Distinct(s) /\ Traced(s, l2, g2, ps2, cs2)
    BY <1>2, <1>3, TracedAppend
  <1>5. Distinct(t) /\ Traced(t, l2, g2, ps2, cs2)
    BY <1>2, <1>3, TracedAppend
  <1>6. QED
    BY <1>1, <1>4, <1>5

\* The steps that write, and what they write.
Writes ==
  \/ AppendPrompt \/ CompactDone \/ AutoCompact \/ Answer \/ Call \/ Results
  \/ GhostWrites \/ GhostCompacts

LEMMA WriteSteps ==
  ASSUME TypeInv, Once, Phases, Writes
  PROVE  /\ cmd.at # "delete" /\ cmd'.at # "delete" /\ Owners'
         /\ \E m \in Messages :
              /\ Write(m) /\ (m.kind = "prompt" => m.of = prompts + 1)
              /\ Fresh(m, loop, ghost, prompts, compactions, loop', ghost', prompts', compactions')
  <1>t. /\ loop \in Loops /\ ghost \in Loops /\ cmd \in Cmds /\ prompts \in Nat /\ compactions \in Nat
        /\ loop.round \in Nat /\ ghost.round \in Nat /\ loop.of \in Nat /\ ghost.of \in Nat
        /\ context \in Contexts /\ None.at = "none" /\ NoCmd.at = "none"
    BY Bounds DEF TypeInv, TypeOK, Loops, None, NoCmd
  <1>m. \A x \in Messages : x.round \in Nat
    BY DEF Messages
  <1>o. Owners /\ BoundsInv
    BY DEF Once, TypeInv
  <1>p. /\ loop.at # "none" => cmd.at = "none"
        /\ \A kind, of, round : Message(kind, of, round).kind = kind
              /\ Message(kind, of, round).of = of /\ Message(kind, of, round).round = round
        /\ \A n, prior : Marker(n, prior).kind = "marker" /\ Marker(n, prior).of = n
    BY DEF Phases, Message, Marker
  <1>1. CASE AppendPrompt
    <2>1. PICK q : q = prompts + 1
      OBVIOUS
    <2>2. PICK m : m = Message("prompt", q, 0)
      OBVIOUS
    <2>3. q \in Nat /\ q \in 1 .. q /\ q > prompts /\ (\A i \in 1 .. prompts : i \in 1 .. q /\ i # q)
      BY <1>t, <2>1
    <2>4. /\ m \in Messages /\ m.kind = "prompt" /\ m.of = q /\ m.round = 0 /\ Write(m)
          /\ prompts' = q /\ compactions' = compactions /\ ghost' = ghost
          /\ loop' = [at |-> "ask", of |-> q, round |-> 0] /\ cmd.at = "append" /\ cmd' = NoCmd
      BY <1>1, <1>p, <2>1, <2>2, <2>3, MessageType DEF AppendPrompt, Kinds
    <2>5. Fresh(m, loop, ghost, prompts, compactions, loop', ghost', prompts', compactions')
      <3>1. ASSUME NEW x \in Messages, Numbered(x, prompts, compactions),
                   Written(x, loop), Written(x, ghost)
            PROVE  /\ Numbered(x, prompts', compactions') /\ Written(x, loop') /\ Written(x, ghost')
                   /\ ~(x.kind = m.kind /\ x.of = m.of /\ x.round = m.round)
        BY <2>3, <2>4, <3>1 DEF Numbered, Written
      <3>2. Numbered(m, prompts', compactions') /\ Written(m, loop') /\ Written(m, ghost')
        BY <2>3, <2>4 DEF Numbered, Written
      <3>3. QED
        BY <3>1, <3>2 DEF Fresh
    <2>6. Owners'
      BY <1>o, <2>3, <2>4 DEF Owners
    <2>7. QED
      BY <1>t, <2>1, <2>4, <2>5, <2>6
  <1>2. ASSUME NEW prior \in Contexts, NEW retained \in Nat, compactions < MaxCompactions,
               ApplyCompaction(prior, retained), cmd.at # "delete", cmd'.at # "delete",
               prompts' = prompts, loop' = loop, ghost' = ghost \/ ghost' = None
        PROVE  /\ cmd.at # "delete" /\ cmd'.at # "delete" /\ Owners'
               /\ \E m \in Messages :
                    /\ Write(m) /\ (m.kind = "prompt" => m.of = prompts + 1)
                    /\ Fresh(m, loop, ghost, prompts, compactions, loop', ghost', prompts', compactions')
    <2>1. PICK q : q = compactions + 1
      OBVIOUS
    <2>2. PICK m : m = Marker(q, prior)
      OBVIOUS
    <2>3. q \in Nat /\ q \in 1 .. q /\ \A i \in 1 .. compactions : i \in 1 .. q /\ i # q
      BY <1>t, <2>1
    <2>4. compactions' = q /\ m \in Messages /\ Write(m) /\ m.kind = "marker" /\ m.of = q
      BY <1>2, <1>p, <2>1, <2>2, CompactionFacts
    <2>5. Fresh(m, loop, ghost, prompts, compactions, loop', ghost', prompts', compactions')
      <3>1. ASSUME NEW x \in Messages, Numbered(x, prompts, compactions),
                   Written(x, loop), Written(x, ghost)
            PROVE  /\ Numbered(x, prompts', compactions') /\ Written(x, loop') /\ Written(x, ghost')
                   /\ ~(x.kind = m.kind /\ x.of = m.of /\ x.round = m.round)
        BY <1>2, <1>t, <2>3, <2>4, <3>1 DEF Numbered, Written
      <3>2. Numbered(m, prompts', compactions') /\ Written(m, loop') /\ Written(m, ghost')
        BY <2>3, <2>4 DEF Numbered, Written
      <3>3. QED
        BY <3>1, <3>2 DEF Fresh
    <2>6. Owners'
      BY <1>2, <1>t, <1>o DEF Owners
    <2>7. QED
      BY <1>2, <2>4, <2>5, <2>6
  <1>3. CASE CompactDone
    <2>1. cmd.check \in Contexts /\ cmd.ctx.retained \in Nat /\ compactions < MaxCompactions
      BY <1>3, <1>t, <1>o DEF CompactDone, Cmds, Contexts, BoundsInv
    <2>2. QED
      BY <1>2, <1>3, <1>t, <2>1 DEF CompactDone
  <1>4. CASE AutoCompact
    BY <1>2, <1>4, <1>t, <1>p, CopyTypes DEF AutoCompact
  <1>5. CASE GhostCompacts
    BY <1>2, <1>5, <1>t, CopyTypes DEF GhostCompacts
  <1>6. ASSUME NEW kind \in {"answer", "call", "results"}, NEW w \in {loop, ghost},
               w.at # "none", Write(Message(kind, w.of, w.round)),
               kind = "results" <=> w.at = "called",
               cmd.at # "delete", cmd'.at # "delete", prompts' = prompts, compactions' = compactions,
               \/ w = loop /\ ghost' = ghost /\
                    \/ kind = "answer" /\ loop' = None
                    \/ kind = "call" /\ loop' = [loop EXCEPT !.at = "called"]
                    \/ kind = "results" /\ loop' = [loop EXCEPT !.at = "ask", !.round = @ + 1]
               \/ w = ghost /\ loop' = loop /\ ghost' = None /\ kind # "call"
        PROVE  /\ cmd.at # "delete" /\ cmd'.at # "delete" /\ Owners'
               /\ \E m \in Messages :
                    /\ Write(m) /\ (m.kind = "prompt" => m.of = prompts + 1)
                    /\ Fresh(m, loop, ghost, prompts, compactions, loop', ghost', prompts', compactions')
    <2>1. PICK m : m = Message(kind, w.of, w.round)
      OBVIOUS
    <2>2. /\ m \in Messages /\ Write(m) /\ m.kind = kind /\ m.of = w.of /\ m.round = w.round
          /\ w.of \in 1 .. prompts /\ w.round \in Nat
      <3>1. w.of \in Nat /\ w.round \in Nat /\ kind \in Kinds
        BY <1>t DEF Kinds
      <3>2. QED
        BY <1>6, <1>o, <1>p, <2>1, <3>1, MessageType DEF Owners
    <2>3. Fresh(m, loop, ghost, prompts, compactions, loop', ghost', prompts', compactions')
      <3>1. ASSUME NEW x \in Messages, Numbered(x, prompts, compactions),
                   Written(x, loop), Written(x, ghost)
            PROVE  /\ Numbered(x, prompts', compactions') /\ Written(x, loop') /\ Written(x, ghost')
                   /\ ~(x.kind = m.kind /\ x.of = m.of /\ x.round = m.round)
        <4>1. Numbered(x, prompts', compactions')
          BY <1>6, <3>1
        <4>2. ~(x.kind = m.kind /\ x.of = m.of /\ x.round = m.round)
          <5> SUFFICES ASSUME x.kind = kind, x.of = w.of, x.round = w.round PROVE FALSE
            BY <2>2
          <5>1. Written(x, w)
            BY <3>1
          <5>2. kind # "answer" /\ (x.round < w.round \/ (w.at = "called" /\ kind = "call"))
            BY <1>6, <5>1 DEF Written
          <5>3. w.at = "called" /\ kind = "call"
            BY <2>2, <5>2
          <5>4. QED
            BY <1>6, <5>3
        <4>3. Written(x, loop') /\ Written(x, ghost')
          <5>1. CASE loop' = loop \/ loop' = None
            BY <1>6, <1>t, <3>1, <5>1 DEF Written
          <5>2. CASE w = loop /\ ghost' = ghost /\ kind = "call" /\ loop' = [loop EXCEPT !.at = "called"]
            BY <1>6, <1>t, <1>m, <3>1, <5>2 DEF Written, Loops
          <5>3. CASE w = loop /\ ghost' = ghost /\ kind = "results"
                     /\ loop' = [loop EXCEPT !.at = "ask", !.round = @ + 1]
            BY <1>6, <1>t, <1>m, <3>1, <5>3 DEF Written, Loops
          <5>4. QED
            BY <1>6, <5>1, <5>2, <5>3
        <4>4. QED
          BY <4>1, <4>2, <4>3
      <3>2. Numbered(m, prompts', compactions')
        BY <1>6, <2>2 DEF Numbered
      <3>3. Written(m, loop') /\ Written(m, ghost')
        <4>1. CASE w = ghost /\ loop' = loop /\ ghost' = None
          BY <1>6, <1>o, <1>t, <2>2, <4>1 DEF Written, Owners
        <4>2. CASE w = loop /\ ghost' = ghost
          <5>1. Written(m, ghost)
            BY <1>6, <1>o, <2>2, <4>2 DEF Written, Owners
          <5>2. Written(m, loop')
            <6>1. CASE loop' = None
              BY <1>t, <6>1 DEF Written
            <6>2. CASE kind = "call" /\ loop' = [loop EXCEPT !.at = "called"]
              BY <1>6, <1>t, <2>2, <4>2, <6>2 DEF Written, Loops
            <6>3. CASE kind = "results" /\ loop' = [loop EXCEPT !.at = "ask", !.round = @ + 1]
              BY <1>6, <1>t, <2>2, <4>2, <6>3 DEF Written, Loops
            <6>4. CASE w = ghost
              BY <1>6, <1>o, <4>2, <6>4 DEF Owners
            <6>5. QED
              BY <1>6, <6>1, <6>2, <6>3, <6>4
          <5>3. QED
            BY <4>2, <5>1, <5>2
        <4>3. QED
          BY <1>6, <4>1, <4>2
      <3>4. QED
        BY <3>1, <3>2, <3>3 DEF Fresh
    <2>4. Owners'
      BY <1>6, <1>o, <1>t DEF Owners, Loops
    <2>5. QED
      BY <1>6, <2>2, <2>3, <2>4
  <1>7. CASE Answer
    <2>1. /\ loop.at = "ask" /\ cmd.at = "none" /\ cmd' = cmd /\ prompts' = prompts
          /\ compactions' = compactions /\ Write(Message("answer", loop.of, loop.round))
          /\ loop' = None /\ ghost' = ghost
      BY <1>7, <1>p DEF Answer, counters
    <2>2. QED
      BY <1>6, <2>1
  <1>8. CASE Call
    <2>1. /\ loop.at = "ask" /\ cmd.at = "none" /\ cmd' = cmd /\ prompts' = prompts
          /\ compactions' = compactions /\ Write(Message("call", loop.of, loop.round))
          /\ loop' = [loop EXCEPT !.at = "called"] /\ ghost' = ghost
      BY <1>8, <1>p DEF Call, counters
    <2>2. QED
      BY <1>6, <2>1
  <1>9. CASE Results
    <2>1. /\ loop.at = "called" /\ cmd.at = "none" /\ cmd' = cmd /\ prompts' = prompts
          /\ compactions' = compactions /\ Write(Message("results", loop.of, loop.round))
          /\ loop' = [loop EXCEPT !.at = "ask", !.round = @ + 1] /\ ghost' = ghost
      BY <1>9, <1>p DEF Results, counters
    <2>2. QED
      BY <1>6, <2>1
  <1>10. CASE GhostWrites
    <2>1. PICK kind : kind = IF ghost.at = "called" THEN "results" ELSE "answer"
      OBVIOUS
    <2>2. /\ ghost.at # "none" /\ cmd.at # "delete" /\ cmd' = cmd /\ prompts' = prompts
          /\ compactions' = compactions /\ Write(Message(kind, ghost.of, ghost.round))
          /\ loop' = loop /\ ghost' = None
      BY <1>10, <2>1 DEF GhostWrites, counters
    <2>3. kind \in {"answer", "call", "results"} /\ kind # "call" /\ (kind = "results" <=> ghost.at = "called")
      BY <2>1
    <2>4. QED
      BY <1>6, <2>2, <2>3
  <1>11. QED
    BY <1>1, <1>3, <1>4, <1>5, <1>7, <1>8, <1>9, <1>10 DEF Writes

\* The steps that neither write nor delete: a loop at most stops.
Still ==
  \/ Submit \/ Clear \/ Stop \/ (Undo \/ Revert \/ Redo) \/ TakeCheckpoint \/ SaveRevert \/ SetContext
  \/ CompactFails \/ Fails \/ GhostEnds \/ UNCHANGED vars

HandOver ==
  /\ prompts' = prompts /\ compactions' = compactions
  /\ \/ loop' = loop /\ (ghost' = ghost \/ ghost' = None)
     \/ loop' = None /\ (ghost' = ghost \/ ghost' = loop \/ ghost' = None)

LEMMA StepKinds ==
  [Next]_vars => Writes \/ Still \/ Delete \/ Truncate \/ Compact \/ Crash
  BY DEF Next, Commands, Loop, Ghost, Writes, Still

LEMMA StillSteps ==
  ASSUME TypeInv, Once, Phases, Still
  PROVE  /\ UNCHANGED <<store, buffer, gone, late, buried, torn>> /\ HandOver
         /\ \/ Submit
            \/ cmd.at # "delete" /\ cmd'.at # "delete"
            \/ cmd' = cmd /\ cursor' = cursor
  <1>t. cmd \in Cmds /\ NoCmd.at = "none"
    BY DEF TypeInv, TypeOK, NoCmd
  <1>1. CASE Undo \/ Revert \/ Redo
    <2>1. /\ cmd.at = "none" /\ loop' = None /\ ghost' = (IF loop.at = "none" THEN ghost ELSE loop)
          /\ UNCHANGED <<store, buffer, prompts, compactions, history>>
          /\ \/ \E n : AimsAt(n)
             \/ cmd' = [NoCmd EXCEPT !.at = "save", !.ctx = checkpoint]
      BY <1>1, MoveFacts
    <2>2. cmd'.at # "delete"
      BY <2>1 DEF AimsAt, NoCmd
    <2>3. QED
      BY <2>1, <2>2 DEF HandOver, history
  <1>2. CASE Submit \/ Stop
    BY <1>2, <1>t DEF Submit, Stop, Cancel, HandOver, counters, history
  <1>3. CASE Clear \/ TakeCheckpoint \/ SaveRevert \/ SetContext
    BY <1>3, <1>t DEF Clear, TakeCheckpoint, SaveRevert, SetContext, Command, Cmds, HandOver, counters, history
  <1>4. CASE CompactFails \/ Fails \/ GhostEnds \/ UNCHANGED vars
    BY <1>4, <1>t DEF CompactFails, Fails, GhostEnds, vars, HandOver, counters, history
  <1>5. QED
    BY <1>1, <1>2, <1>3, <1>4 DEF Still

LEMMA OnceKeeps ==
  ASSUME TypeInv, Once, HandOver, NEW s \in Seq(Messages), NEW t \in Seq(Messages),
         store' = s, buffer' = t,
         Distinct(s), Traced(s, loop, ghost, prompts, compactions),
         Distinct(t), Traced(t, loop, ghost, prompts, compactions)
  PROVE  Once'
  <1>1. None.at = "none"
    BY DEF None
  <1>2. \A x : Written(x, loop) /\ Written(x, ghost) => Written(x, loop') /\ Written(x, ghost')
    BY <1>1 DEF HandOver, Written
  <1>3. Owners'
    BY <1>1 DEF Once, Owners, HandOver
  <1>4. PICK l, g : l = loop' /\ g = ghost'
    OBVIOUS
  <1>5. \A x : Written(x, loop) /\ Written(x, ghost) => Written(x, l) /\ Written(x, g)
    BY <1>2, <1>4
  <1>6. Traced(s, l, g, prompts, compactions) /\ Traced(t, l, g, prompts, compactions)
    BY <1>5, TracedAgain
  <1>7. QED
    BY <1>3, <1>4, <1>6 DEF HandOver, Once

LEMMA OnceNext == TypeInv /\ Once /\ Copies /\ Phases /\ [Next]_vars => Once'
  <1> SUFFICES ASSUME TypeInv, Once, Copies, Phases, [Next]_vars PROVE Once'
    OBVIOUS
  <1>t. /\ store \in Seq(Messages) /\ buffer \in Seq(Messages) /\ Len(store) \in Nat /\ Len(buffer) \in Nat
        /\ Distinct(store) /\ Traced(store, loop, ghost, prompts, compactions)
        /\ Distinct(buffer) /\ Traced(buffer, loop, ghost, prompts, compactions)
    BY CopyTypes DEF Once
  <1>1. CASE Writes
    <2>1. Owners' /\ \E m \in Messages :
            Write(m) /\ Fresh(m, loop, ghost, prompts, compactions, loop', ghost', prompts', compactions')
      BY <1>1, WriteSteps
    <2>2. PICK l, g, ps, cs : l = loop' /\ g = ghost' /\ ps = prompts' /\ cs = compactions'
      OBVIOUS
    <2>3. PICK m \in Messages : Write(m) /\ Fresh(m, loop, ghost, prompts, compactions, l, g, ps, cs)
      BY <2>1, <2>2
    <2>4. /\ Distinct(store') /\ Traced(store', l, g, ps, cs)
          /\ Distinct(buffer') /\ Traced(buffer', l, g, ps, cs)
      BY <2>3, OnceAppend
    <2>5. QED
      BY <2>1, <2>2, <2>4 DEF Once
  <1>2. CASE Still
    BY <1>2, <1>t, StillSteps, OnceKeeps
  <1>3. CASE Delete
    <2>1. PICK k \in 1 .. Len(store) :
            \A i \in 1 .. Len(store) - 1 : store'[i] = IF i < k THEN store[i] ELSE store[i + 1]
      BY <1>3, DeleteFacts
    <2>2. PICK t \in Seq(Messages) : t = store'
      BY <1>3, DeleteFacts
    <2>3. Len(t) = Len(store) - 1 /\ Len(t) \in Nat
      BY <1>3, <2>2, DeleteFacts
    <2>4. PICK f : f = [i \in 1 .. Len(t) |-> IF i < k THEN i ELSE i + 1]
      OBVIOUS
    <2>5. Part(store, t, f)
      <3>1. PICK n, o : n = Len(store) /\ o = Len(t)
        OBVIOUS
      <3>2. n \in Nat /\ o = n - 1 /\ o \in Nat /\ k \in 1 .. n
        BY <1>t, <2>1, <2>3, <3>1
      <3>3. \A i \in 1 .. o : t[i] = IF i < k THEN store[i] ELSE store[i + 1]
        BY <2>1, <2>2, <2>3, <3>1
      <3>4. \A i \in 1 .. o : f[i] = IF i < k THEN i ELSE i + 1
        BY <2>4, <3>1
      <3>5. \A i \in 1 .. o : f[i] \in 1 .. n /\ t[i] = store[f[i]]
        BY <3>2, <3>3, <3>4
      <3>6. \A i, j \in 1 .. o : f[i] = f[j] => i = j
        BY <3>2, <3>4
      <3>7. QED
        BY <3>1, <3>2, <3>5, <3>6 DEF Part
    <2>6. Distinct(t) /\ Traced(t, loop, ghost, prompts, compactions)
      BY <1>t, <2>5, TracedPart
    <2>7. HandOver /\ buffer' = buffer
      BY <1>3 DEF Delete, HandOver, counters
    <2>8. QED
      BY <1>t, <2>2, <2>6, <2>7, OnceKeeps
  <1>4. CASE Truncate
    <2>1. PICK t \in Seq(Messages) : t = buffer' /\ t = Before(buffer, cmd.target)
      BY <1>4, <1>t, SplitAtPrompt DEF Truncate
    <2>2. Len(t) \in Nat /\ \A i \in 1 .. Len(t) : t[i] = buffer[i] /\ i \in 1 .. Len(buffer)
      BY <1>t, <2>1, SplitAtPrompt, LenProperties
    <2>3. PICK f : f = [i \in 1 .. Len(t) |-> i]
      OBVIOUS
    <2>4. Part(buffer, t, f)
      BY <2>2, <2>3 DEF Part
    <2>5. Distinct(t) /\ Traced(t, loop, ghost, prompts, compactions)
      BY <1>t, <2>4, TracedPart
    <2>6. HandOver /\ store' = store
      BY <1>4 DEF Truncate, HandOver, counters
    <2>7. QED
      BY <1>t, <2>1, <2>5, <2>6, OnceKeeps
  <1>5. CASE Compact \/ Crash
    <2>1. HandOver /\ store' = store /\ buffer' = store
      BY <1>5 DEF Compact, Crash, HandOver, counters
    <2>2. QED
      BY <1>t, <2>1, OnceKeeps
  <1>6. QED
    BY <1>1, <1>2, <1>3, <1>4, <1>5, StepKinds

LEMMA CopiesNext == TypeInv /\ Once /\ Copies /\ Phases /\ [Next]_vars => Copies'
  <1> SUFFICES ASSUME TypeInv, Once, Copies, Phases, [Next]_vars PROVE Copies'
    OBVIOUS
  <1>t. buffer \in Seq(Messages) /\ cmd \in Cmds /\ NoCmd.at = "none"
    BY DEF TypeInv, TypeOK, NoCmd
  <1>1. CASE Writes
    <2>1. cmd.at # "delete" /\ cmd'.at # "delete" /\ \E m \in Messages : Write(m)
      BY <1>1, WriteSteps
    <2>2. QED
      BY <2>1 DEF Copies, Write
  <1>2. CASE Submit
    <2>1. CASE cursor = 0
      BY <1>2, <2>1 DEF Submit, Copies, NoCmd
    <2>2. CASE cursor # 0
      <3>1. cmd'.at = "delete" /\ cmd'.left = From(buffer, cursor)
            /\ store' = store /\ buffer' = buffer /\ cursor' = cursor /\ cmd.at = "none"
        BY <1>2, <2>2 DEF Submit, NoCmd
      <3>2. buffer = Before(buffer, cursor) \o From(buffer, cursor)
        BY <1>t, SplitAtPrompt
      <3>3. QED
        BY <3>1, <3>2 DEF Copies
    <2>3. QED
      BY <2>1, <2>2
  <1>3. CASE Still /\ ~Submit
    BY <1>3, StillSteps DEF Copies
  <1>4. CASE Delete
    <2>1. cmd.at = "delete" /\ cmd' = [cmd EXCEPT !.left = Tail(cmd.left)] /\ cursor' = cursor /\ buffer' = buffer
      BY <1>4 DEF Delete
    <2>2. cmd'.at = "delete" /\ cmd'.left = Tail(cmd.left)
      BY <1>t, <2>1 DEF Cmds
    <2>3. QED
      BY <1>4, <2>1, <2>2, DeleteFacts DEF Copies
  <1>5. CASE Truncate
    <2>1. /\ cmd.left = <<>> /\ cmd.target = cursor /\ cmd.at = "delete" /\ cmd'.at = "clear"
          /\ buffer' = Before(buffer, cursor) /\ store' = store
      BY <1>5, <1>t DEF Truncate, Phases, Command, Cmds
    <2>2. store = Before(buffer, cursor) \o <<>>
      BY <2>1 DEF Copies
    <2>3. Before(buffer, cursor) \in Seq(Messages)
      BY <1>t, SplitAtPrompt
    <2>4. store = Before(buffer, cursor)
      BY <2>2, <2>3, ConcatEmptySeq
    <2>5. QED
      BY <2>1, <2>4 DEF Copies
  <1>6. CASE Compact \/ Crash
    <2>1. store' = store /\ buffer' = store /\ cmd'.at # "delete"
      BY <1>6, <1>t DEF Compact, Crash, NoCmd
    <2>2. QED
      BY <2>1 DEF Copies
  <1>7. QED
    BY <1>1, <1>2, <1>3, <1>4, <1>5, <1>6, StepKinds

-----------------------------------------------------------------------------
(* What is deleted for good, and what is never lost. *)

GoneInv ==
  /\ gone \subseteq 1 .. prompts
  /\ ~torn => \A i \in 1 .. Len(buffer) : buffer[i].kind = "prompt" => buffer[i].of \notin gone

LEMMA GoneNext == TypeInv /\ Once /\ Copies /\ Phases /\ GoneInv /\ [Next]_vars => GoneInv'
  <1> SUFFICES ASSUME TypeInv, Once, Copies, Phases, GoneInv, [Next]_vars PROVE GoneInv'
    OBVIOUS
  <1>t. /\ buffer \in Seq(Messages) /\ Len(buffer) \in Nat /\ DOMAIN buffer = 1 .. Len(buffer)
        /\ prompts \in Nat /\ cmd \in Cmds
        /\ \A i \in 1 .. Len(buffer) : buffer[i] \in Messages
    BY CopyTypes, Bounds DEF TypeInv, TypeOK
  <1>1. CASE Writes
    <2>1. UNCHANGED <<gone, torn>> /\ (prompts' = prompts \/ prompts' = prompts + 1)
      BY <1>1 DEF Writes, AppendPrompt, CompactDone, AutoCompact, Answer, Call, Results,
                  GhostWrites, GhostCompacts, counters, history
    <2>2. PICK m \in Messages : Write(m) /\ (m.kind = "prompt" => m.of = prompts + 1)
      BY <1>1, WriteSteps
    <2>3. PICK t, n : t = buffer' /\ n = Len(buffer)
      OBVIOUS
    <2>4. n \in Nat /\ Len(t) = n + 1 /\ t[n + 1] = m /\ \A i \in 1 .. n : t[i] = buffer[i]
      BY <1>t, <2>2, <2>3, WriteFacts
    <2>5. prompts + 1 \notin gone /\ gone \subseteq 1 .. prompts'
      BY <1>t, <2>1 DEF GoneInv
    <2>6. ASSUME ~torn, NEW i \in 1 .. n + 1, t[i].kind = "prompt" PROVE t[i].of \notin gone
      <3>1. CASE i = n + 1
        BY <2>2, <2>4, <2>5, <2>6, <3>1
      <3>2. CASE i # n + 1
        <4>1. i \in 1 .. n
          BY <2>4, <3>2
        <4>2. QED
          BY <2>3, <2>4, <2>6, <4>1 DEF GoneInv
      <3>3. QED
        BY <3>1, <3>2
    <2>7. QED
      BY <2>1, <2>3, <2>4, <2>5, <2>6 DEF GoneInv
  <1>2. CASE Still
    BY <1>2, StillSteps DEF GoneInv, HandOver
  <1>3. CASE Delete
    BY <1>3 DEF Delete, GoneInv, counters, history
  <1>4. CASE Truncate
    <2>1. PICK b : b = Before(buffer, cmd.target)
      OBVIOUS
    <2>2. PICK p : p = Position(buffer, cmd.target)
      OBVIOUS
    <2>3. /\ buffer' = b /\ torn' = torn /\ prompts' = prompts
          /\ gone' = gone \union {buffer[i].of : i \in Prompts(buffer) \ DOMAIN b}
      BY <1>4, <2>1 DEF Truncate, counters
    <2>4. /\ p \in 1 .. Len(buffer) + 1 /\ Len(b) = p - 1 /\ DOMAIN b = 1 .. p - 1
          /\ \A i \in 1 .. p - 1 : b[i] = buffer[i] /\ i \in 1 .. Len(buffer)
      BY <1>t, <2>1, <2>2, PositionFacts, SplitAtPrompt
    <2>5. \A i \in Prompts(buffer) : i \in 1 .. Len(buffer) /\ buffer[i].kind = "prompt"
            /\ buffer[i].of \in 1 .. prompts /\ buffer[i].round = 0
      BY <1>t DEF Prompts, Once, Traced, Numbered
    <2>6. gone' \subseteq 1 .. prompts'
      BY <2>3, <2>5 DEF GoneInv
    <2>7. ASSUME ~torn, NEW i \in 1 .. p - 1, b[i].kind = "prompt" PROVE b[i].of \notin gone'
      <3>1. b[i] = buffer[i] /\ i \in 1 .. Len(buffer) /\ buffer[i].kind = "prompt"
        BY <2>4, <2>7
      <3>2. i \in Prompts(buffer)
        BY <1>t, <3>1 DEF Prompts
      <3>3. buffer[i].of \notin gone
        BY <2>7, <3>1 DEF GoneInv
      <3>4. ASSUME NEW j \in Prompts(buffer) \ DOMAIN b, buffer[j].of = buffer[i].of PROVE FALSE
        <4>1. j \in 1 .. Len(buffer) /\ buffer[j].kind = "prompt" /\ buffer[j].round = buffer[i].round
          BY <2>5, <3>2
        <4>2. j = i
          BY <3>1, <3>4, <4>1 DEF Once, Distinct
        <4>3. QED
          BY <2>4, <4>2
      <3>5. QED
        BY <2>3, <3>1, <3>3, <3>4
    <2>8. QED
      BY <2>3, <2>4, <2>6, <2>7 DEF GoneInv
  <1>5. CASE Compact
    BY <1>5 DEF Compact, Copies, GoneInv, counters, history
  <1>6. CASE Crash
    <2>1. buffer' = store /\ gone' = gone /\ prompts' = prompts
          /\ (~torn' => ~torn /\ store = buffer)
      BY <1>6 DEF Crash
    <2>2. QED
      BY <2>1 DEF GoneInv
  <1>7. QED
    BY <1>1, <1>2, <1>3, <1>4, <1>5, <1>6, StepKinds

LEMMA ElementsFacts ==
  ASSUME NEW s \in Seq(Messages), NEW t \in Seq(Messages), Len(s) <= Len(t),
         \A i \in 1 .. Len(s) : s[i] = t[i]
  PROVE  Elements(s) \subseteq Elements(t)
  <1>1. /\ DOMAIN s = 1 .. Len(s) /\ DOMAIN t = 1 .. Len(t) /\ Len(s) \in Nat /\ Len(t) \in Nat
    BY LenProperties
  <1>2. 1 .. Len(s) \subseteq 1 .. Len(t)
    BY <1>1
  <1>3. QED
    BY <1>1, <1>2 DEF Elements

LEMMA ElementsOfConcat ==
  ASSUME NEW s \in Seq(Messages), NEW t \in Seq(Messages)
  PROVE  Elements(s) \subseteq Elements(s \o t)
  <1>1. /\ s \o t \in Seq(Messages) /\ Len(s \o t) = Len(s) + Len(t)
        /\ \A i \in 1 .. Len(s) + Len(t) : (s \o t)[i] = IF i <= Len(s) THEN s[i] ELSE t[i - Len(s)]
    BY ConcatProperties
  <1>2. Len(s) \in Nat /\ Len(t) \in Nat
    BY LenProperties
  <1>3. PICK u : u = s \o t
    OBVIOUS
  <1>4. Len(s) <= Len(u) /\ \A i \in 1 .. Len(s) : s[i] = u[i]
    BY <1>1, <1>2, <1>3
  <1>5. QED
    BY <1>1, <1>3, <1>4, ElementsFacts

\* The visible messages are in both copies.
LEMMA VisibleFacts ==
  ASSUME TypeInv, Copies, Phases
  PROVE  /\ Visible(buffer) \in Seq(Messages)
         /\ Elements(Visible(buffer)) \subseteq Elements(buffer)
         /\ Elements(Visible(buffer)) \subseteq Elements(store)
         /\ cmd.at = "delete" => Visible(buffer) = Before(buffer, cursor)
  <1>1. buffer \in Seq(Messages) /\ Len(buffer) \in Nat /\ cmd.left \in Seq(Messages)
    BY CopyTypes DEF TypeInv, TypeOK, Cmds
  <1>2. /\ Before(buffer, cursor) \in Seq(Messages)
        /\ Elements(Before(buffer, cursor)) \subseteq Elements(buffer)
    <2>1. PICK b : b = Before(buffer, cursor)
      OBVIOUS
    <2>2. PICK c : c = From(buffer, cursor)
      OBVIOUS
    <2>3. b \in Seq(Messages) /\ c \in Seq(Messages) /\ buffer = b \o c
      BY <1>1, <2>1, <2>2, SplitAtPrompt
    <2>4. Elements(b) \subseteq Elements(b \o c)
      BY <2>3, ElementsOfConcat
    <2>5. QED
      BY <2>1, <2>3, <2>4
  <1>3. cmd.at = "delete" => Visible(buffer) = Before(buffer, cursor)
    BY DEF Phases, Visible
  <1>4. Visible(buffer) \in Seq(Messages) /\ Elements(Visible(buffer)) \subseteq Elements(buffer)
    BY <1>1, <1>2 DEF Visible
  <1>5. Elements(Visible(buffer)) \subseteq Elements(store)
    <2>1. CASE cmd.at = "delete"
      <3>1. store = Before(buffer, cursor) \o cmd.left
        BY <2>1 DEF Copies
      <3>2. PICK b : b = Before(buffer, cursor)
        OBVIOUS
      <3>3. Elements(b) \subseteq Elements(b \o cmd.left)
        BY <1>1, <1>2, <3>2, ElementsOfConcat
      <3>4. QED
        BY <1>3, <2>1, <3>1, <3>2, <3>3
    <2>2. CASE cmd.at # "delete"
      BY <1>4, <2>2 DEF Copies
    <2>3. QED
      BY <2>1, <2>2
  <1>6. QED
    BY <1>3, <1>4, <1>5

LEMMA VisibleStep ==
  ASSUME TypeInv, Once, Copies, Phases, [Next]_vars
  PROVE  [Elements(Visible(buffer)) \subseteq Elements(store') \intersect Elements(buffer')]_<<store, buffer>>
  <1> DEFINE kept == Elements(Visible(buffer))
  <1>1. kept \subseteq Elements(buffer) /\ kept \subseteq Elements(store)
    BY VisibleFacts
  <1>t. /\ store \in Seq(Messages) /\ buffer \in Seq(Messages)
        /\ Len(store) \in Nat /\ Len(buffer) \in Nat
    BY CopyTypes
  <1>2. CASE Writes
    <2>1. PICK m \in Messages : Write(m)
      BY <1>2, WriteSteps
    <2>2. PICK s, t : s = store' /\ t = buffer'
      OBVIOUS
    <2>3. /\ s \in Seq(Messages) /\ Len(store) <= Len(s) /\ \A i \in 1 .. Len(store) : store[i] = s[i]
          /\ t \in Seq(Messages) /\ Len(buffer) <= Len(t) /\ \A i \in 1 .. Len(buffer) : buffer[i] = t[i]
      BY <1>t, <2>1, <2>2, WriteFacts
    <2>4. Elements(store) \subseteq Elements(s) /\ Elements(buffer) \subseteq Elements(t)
      BY <1>t, <2>3, ElementsFacts
    <2>5. QED
      BY <1>1, <2>2, <2>4
  <1>3. CASE Still
    BY <1>3, StillSteps
  <1>4. CASE Delete
    <2>1. cmd.at = "delete" /\ buffer' = buffer
      BY <1>4 DEF Delete
    <2>2. PICK b, l : b = Before(buffer, cursor) /\ l = Tail(cmd.left)
      OBVIOUS
    <2>3. store' = b \o l /\ l \in Seq(Messages) /\ b = Visible(buffer) /\ b \in Seq(Messages)
      BY <1>4, <2>1, <2>2, DeleteFacts, VisibleFacts
    <2>4. Elements(b) \subseteq Elements(b \o l)
      BY <2>3, ElementsOfConcat
    <2>5. QED
      BY <1>1, <2>1, <2>3, <2>4
  <1>5. CASE Truncate
    <2>1. cmd.at = "delete" /\ cmd.target = cursor /\ buffer' = Before(buffer, cursor) /\ store' = store
      BY <1>5 DEF Truncate, Phases
    <2>2. QED
      BY <1>1, <2>1, VisibleFacts
  <1>6. CASE Compact \/ Crash
    BY <1>1, <1>6 DEF Compact, Crash
  <1>7. QED
    BY <1>2, <1>3, <1>4, <1>5, <1>6, StepKinds

-----------------------------------------------------------------------------
(* Where the next request begins. *)

\* The last visible message.
End(s, c) == IF c = 0 THEN Len(s) ELSE Position(s, c) - 1

\* The context state is that of the visible history, the row's at all times and
\* the ContextManager's but for the last step of a command; what a command has
\* read for the session's row is still so when it writes.
HistoryFits ==
  /\ saved = EndAt(buffer, End(buffer, cursor)) /\ PriorsFit(buffer)
  /\ cmd.at # "context" => context = saved

HiddenFits ==
  /\ cmd.at = "clear" => Position(buffer, cursor) = Len(buffer) + 1
  /\ cursor # 0 /\ cmd.at # "clear" =>
       Position(buffer, cursor) <= Len(buffer) /\ checkpoint = EndAt(buffer, Len(buffer))

CommandFits ==
  /\ cmd.at \in {"checkpoint", "save"} =>
       /\ cmd.target # 0 => Position(buffer, cmd.target) <= Len(buffer)
       /\ cmd.ctx = EndAt(buffer, End(buffer, cmd.target))
  /\ cmd.at = "checkpoint" => cmd.target # 0
  /\ cmd.at = "save" /\ cmd.target # 0 => cmd.check = EndAt(buffer, Len(buffer))
  /\ cmd.at = "context" => cmd.ctx = saved
  /\ cmd.at = "summary" => cmd.check = context /\ cmd.ctx.retained = Len(buffer)

ContextInv == Undisturbed => HistoryFits /\ HiddenFits /\ CommandFits

\* A message more leaves the context state alone, a marker moves it to itself.
LEMMA AppendedContext ==
  ASSUME NEW s \in Seq(Messages), NEW t, NEW m, Extended(s, t, m), PriorsFit(s),
         m.kind = "marker" => m.prior = EndAt(s, Len(s))
  PROVE  /\ PriorsFit(t)
         /\ EndAt(t, Len(t)) = IF m.kind = "marker" THEN [summary |-> m.of, retained |-> Len(s)]
                               ELSE EndAt(s, Len(s))
  <1>1. PICK n : n = Len(s)
    OBVIOUS
  <1>2. /\ n \in Nat /\ n + 1 \in Nat /\ Len(t) = n + 1 /\ t[n + 1] = m
        /\ \A i \in 1 .. n : t[i] = s[i]
    BY <1>1, LenProperties DEF Extended
  <1>3. \A k \in 0 .. n : EndAt(t, k) = EndAt(s, k)
    <2> SUFFICES ASSUME NEW k \in 0 .. n PROVE EndAt(t, k) = EndAt(s, k)
      OBVIOUS
    <2>1. k \in Nat /\ \A i \in 1 .. k : t[i] = s[i]
      BY <1>2
    <2>2. QED
      BY <2>1, EndAgrees
  <1>4. PriorsFit(t)
    <2> SUFFICES ASSUME NEW i \in 1 .. n + 1, t[i].kind = "marker" PROVE t[i].prior = EndAt(t, i - 1)
      BY <1>2 DEF PriorsFit
    <2>1. i - 1 \in 0 .. n /\ EndAt(t, i - 1) = EndAt(s, i - 1)
      BY <1>2, <1>3
    <2>2. CASE i = n + 1
      <3>1. i - 1 = n
        BY <1>2, <2>2
      <3>2. QED
        BY <1>1, <1>2, <2>1, <2>2, <3>1
    <2>3. CASE i # n + 1
      <3>1. i \in 1 .. n
        BY <1>2, <2>3
      <3>2. QED
        BY <1>1, <1>2, <2>1, <3>1 DEF PriorsFit
    <2>4. QED
      BY <2>2, <2>3
  <1>5. CASE m.kind = "marker"
    <2>1. EndAt(t, n + 1) = [summary |-> t[n + 1].of, retained |-> n]
      BY <1>2, <1>5, EndMarker
    <2>2. QED
      BY <1>1, <1>2, <1>4, <1>5, <2>1
  <1>6. CASE m.kind # "marker"
    <2>1. n \in 0 .. n + 1 /\ \A i \in n + 1 .. n + 1 : t[i].kind # "marker"
      BY <1>2, <1>6
    <2>2. EndAt(t, n + 1) = EndAt(t, n)
      BY <1>2, <2>1, EndSkips
    <2>3. EndAt(t, n) = EndAt(s, n)
      BY <1>2, <1>3
    <2>4. QED
      BY <1>1, <1>2, <1>4, <1>6, <2>2, <2>3
  <1>7. QED
    BY <1>5, <1>6

LEMMA WrittenContext ==
  ASSUME TypeInv, HistoryFits, NEW m \in Messages, Write(m),
         cursor = 0, cursor' = 0, cmd.at # "context", cmd'.at = "none",
         \/ m.kind # "marker" /\ UNCHANGED <<context, saved>>
         \/ /\ m.kind = "marker" /\ m.prior = context /\ context' = saved'
            /\ saved' = [summary |-> m.of, retained |-> Len(buffer)]
  PROVE  HistoryFits' /\ HiddenFits' /\ CommandFits'
  <1>1. PICK t : t = buffer'
    OBVIOUS
  <1>2. buffer \in Seq(Messages) /\ Extended(buffer, t, m)
    BY <1>1, CopyTypes, WriteFacts DEF Extended
  <1>3. context = saved /\ saved = EndAt(buffer, Len(buffer)) /\ PriorsFit(buffer)
    BY DEF HistoryFits, End
  <1>4. /\ PriorsFit(t)
        /\ EndAt(t, Len(t)) = IF m.kind = "marker" THEN [summary |-> m.of, retained |-> Len(buffer)]
                              ELSE EndAt(buffer, Len(buffer))
    BY <1>2, <1>3, AppendedContext
  <1>5. context' = saved' /\ saved' = EndAt(t, Len(t))
    BY <1>3, <1>4
  <1>6. HistoryFits'
    BY <1>1, <1>4, <1>5 DEF HistoryFits, End
  <1>7. HiddenFits' /\ CommandFits'
    BY DEF HiddenFits, CommandFits
  <1>8. QED
    BY <1>6, <1>7

\* A prompt that is cut away, with what follows it, is no longer there, and the
\* markers before it decide.
LEMMA TruncatedContext ==
  ASSUME NEW s \in Seq(Messages), NEW n, PriorsFit(s)
  PROVE  /\ PriorsFit(Before(s, n))
         /\ Position(Before(s, n), n) = Len(Before(s, n)) + 1
         /\ EndAt(Before(s, n), Len(Before(s, n))) = EndAt(s, Position(s, n) - 1)
  <1>1. PICK b, p : b = Before(s, n) /\ p = Position(s, n)
    OBVIOUS
  <1>2. /\ b \in Seq(Messages) /\ Len(b) = p - 1 /\ p \in 1 .. Len(s) + 1 /\ Len(s) \in Nat
        /\ \A i \in 1 .. p - 1 : b[i] = s[i] /\ i \in 1 .. Len(s)
        /\ \A i \in 1 .. Len(s) : s[i].kind = "prompt" /\ s[i].of = n => p <= i
    BY <1>1, SplitAtPrompt, PositionFacts
  <1>3. \A k \in 0 .. p - 1 : EndAt(b, k) = EndAt(s, k)
    <2> SUFFICES ASSUME NEW k \in 0 .. p - 1 PROVE EndAt(b, k) = EndAt(s, k)
      OBVIOUS
    <2>1. k \in Nat /\ \A i \in 1 .. k : b[i] = s[i]
      BY <1>2
    <2>2. QED
      BY <2>1, EndAgrees
  <1>4. PriorsFit(b)
    <2> SUFFICES ASSUME NEW i \in 1 .. p - 1, b[i].kind = "marker" PROVE b[i].prior = EndAt(b, i - 1)
      BY <1>2 DEF PriorsFit
    <2>1. i - 1 \in 0 .. p - 1 /\ i \in 1 .. Len(s) /\ b[i] = s[i]
      BY <1>2
    <2>2. QED
      BY <1>3, <2>1 DEF PriorsFit
  <1>5. Position(b, n) = Len(b) + 1
    <2>1. PICK q : q = Position(b, n)
      OBVIOUS
    <2>2. q \in 1 .. Len(b) + 1 /\ (q <= Len(b) => b[q].kind = "prompt" /\ b[q].of = n)
      BY <1>2, <2>1, PositionFacts
    <2>3. ~(q <= Len(b))
      <3> SUFFICES ASSUME q <= Len(b) PROVE FALSE
        OBVIOUS
      <3>1. q \in 1 .. p - 1
        BY <1>2, <2>2
      <3>2. s[q].kind = "prompt" /\ s[q].of = n /\ q \in 1 .. Len(s)
        BY <1>2, <2>2, <3>1
      <3>3. p <= q
        BY <1>2, <3>2
      <3>4. QED
        BY <1>2, <3>1, <3>3
    <2>4. QED
      BY <1>2, <2>1, <2>2, <2>3
  <1>6. EndAt(b, Len(b)) = EndAt(s, p - 1)
    <2>1. p - 1 \in 0 .. p - 1
      BY <1>2
    <2>2. QED
      BY <1>2, <1>3, <2>1
  <1>7. QED
    BY <1>1, <1>4, <1>5, <1>6

LEMMA ContextNext == TypeInv /\ Once /\ Copies /\ Phases /\ ContextInv /\ [Next]_vars => ContextInv'
  <1> SUFFICES ASSUME TypeInv, Once, Copies, Phases, ContextInv, [Next]_vars, Undisturbed'
               PROVE  HistoryFits' /\ HiddenFits' /\ CommandFits'
    BY DEF ContextInv
  <1>t. /\ cmd \in Cmds /\ buffer \in Seq(Messages) /\ Len(buffer) \in Nat
        /\ late \in BOOLEAN /\ buried \in BOOLEAN /\ torn \in BOOLEAN
        /\ cmd.check \in Contexts /\ cmd.ctx.retained \in Nat /\ context \in Contexts
        /\ (loop.at # "none" => cmd.at = "none" /\ cursor = 0)
        /\ NoCmd.at = "none"
    BY CopyTypes DEF TypeInv, TypeOK, Cmds, Contexts, Phases, NoCmd
  <1>f. ASSUME Undisturbed PROVE HistoryFits /\ HiddenFits /\ CommandFits
    BY <1>f DEF ContextInv
  <1>c. \A at \in {"none", "delete", "clear", "append", "checkpoint", "save", "context", "summary"} :
          Command(at) => cmd'.at = at /\ cmd'.target = cmd.target /\ cmd'.ctx = cmd.ctx /\ cmd'.check = cmd.check
    BY <1>t DEF Command, Cmds
  <1>n. ASSUME history' = history PROVE HistoryFits /\ HiddenFits /\ CommandFits
    BY <1>f, <1>n DEF Undisturbed, history
  \* the steps of submitting a prompt
  <1>1. CASE Submit
    <2>1. /\ UNCHANGED <<store, buffer, context, saved, cursor, checkpoint, history>> /\ cmd.at = "none"
          /\ (cmd'.at = "append" \/ cmd'.at = "delete")
      BY <1>1 DEF Submit, NoCmd
    <2>2. QED
      BY <1>n, <2>1 DEF HistoryFits, HiddenFits, CommandFits
  <1>2. CASE Delete
    <2>1. /\ UNCHANGED <<buffer, context, saved, cursor, checkpoint, history>>
          /\ cmd.at = "delete" /\ cmd'.at = "delete"
      BY <1>2, <1>t DEF Delete, Cmds
    <2>2. QED
      BY <1>n, <2>1 DEF HistoryFits, HiddenFits, CommandFits
  <1>3. CASE Truncate
    <2>1. /\ UNCHANGED <<context, saved, cursor, checkpoint>> /\ Undisturbed
          /\ cmd.at = "delete" /\ cmd'.at = "clear" /\ cursor # 0
          /\ buffer' = Before(buffer, cursor)
      BY <1>3, <1>c DEF Truncate, Phases, Undisturbed
    <2>2. PICK b : b = Before(buffer, cursor)
      OBVIOUS
    <2>3. /\ PriorsFit(buffer) /\ context = saved
          /\ saved = EndAt(buffer, Position(buffer, cursor) - 1)
      BY <1>f, <2>1 DEF HistoryFits, End
    <2>4. PriorsFit(b) /\ Position(b, cursor) = Len(b) + 1 /\ saved = EndAt(b, Len(b))
      BY <1>t, <2>2, <2>3, TruncatedContext
    <2>5. Position(b, cursor) - 1 = Len(b)
      <3>1. Len(b) \in Nat
        BY <1>t, <2>2, SplitAtPrompt, LenProperties
      <3>2. QED
        BY <2>4, <3>1
    <2>6. HistoryFits'
      BY <2>1, <2>2, <2>3, <2>4, <2>5 DEF HistoryFits, End
    <2>7. HiddenFits' /\ CommandFits'
      BY <2>1, <2>2, <2>4 DEF HiddenFits, CommandFits
    <2>8. QED
      BY <2>6, <2>7
  <1>4. CASE Clear
    <2>1. /\ UNCHANGED <<buffer, context, saved, history>> /\ cursor' = 0
          /\ cmd.at = "clear" /\ cmd'.at = "append" /\ cursor # 0
      BY <1>4, <1>c DEF Clear, Phases
    <2>2. Position(buffer, cursor) = Len(buffer) + 1 /\ context = saved
          /\ PriorsFit(buffer) /\ saved = EndAt(buffer, Position(buffer, cursor) - 1)
      BY <1>n, <2>1 DEF HistoryFits, HiddenFits, End
    <2>3. Position(buffer, cursor) - 1 = Len(buffer)
      BY <1>t, <2>2
    <2>4. QED
      BY <2>1, <2>2, <2>3 DEF HistoryFits, HiddenFits, CommandFits, End
  <1>5. CASE AppendPrompt
    <2>1. PICK m : m = Message("prompt", prompts', 0)
      OBVIOUS
    <2>2. /\ UNCHANGED <<context, saved, cursor, history>> /\ cursor = 0
          /\ cmd.at = "append" /\ cmd'.at = "none" /\ Write(m) /\ m.kind = "prompt"
      BY <1>5, <1>t, <2>1 DEF AppendPrompt, Phases, Message
    <2>3. m \in Messages
      <3>1. prompts' \in Nat
        BY <1>5 DEF AppendPrompt, TypeInv, TypeOK
      <3>2. QED
        BY <2>1, <3>1, MessageType DEF Kinds
    <2>4. HistoryFits
      BY <1>n, <2>2
    <2>5. QED
      BY <2>2, <2>3, <2>4, WrittenContext
  \* undo, revert and redo
  <1>6. CASE Stop \/ CompactFails \/ Fails \/ GhostEnds
    <2>1. (cmd'.at = "none" /\ cmd.at = "summary") \/ cmd' = cmd
      BY <1>6, <1>t DEF Stop, CompactFails, Fails, GhostEnds
    <2>2. UNCHANGED <<buffer, context, saved, cursor, checkpoint, history>>
      BY <1>6 DEF Stop, CompactFails, Fails, GhostEnds
    <2>3. QED
      BY <1>n, <2>1, <2>2 DEF HistoryFits, HiddenFits, CommandFits
  <1>7. CASE Undo \/ Revert \/ Redo
    <2>1. /\ cmd.at = "none" /\ UNCHANGED <<buffer, context, saved, cursor, checkpoint, history>>
          /\ \/ \E n : AimsAt(n)
             \/ cursor # 0 /\ cmd' = [NoCmd EXCEPT !.at = "save", !.ctx = checkpoint]
      BY <1>7, MoveFacts
    <2>2. HistoryFits /\ HiddenFits
      BY <1>n, <2>1
    <2>3. CASE \E n : AimsAt(n)
      <3>1. PICK n : AimsAt(n)
        BY <2>3
      <3>2. /\ n # 0 /\ Position(buffer, n) <= Len(buffer) /\ cmd'.at = "checkpoint"
            /\ cmd'.target = n /\ cmd'.ctx = ContextFor(buffer, n)
        BY <3>1 DEF AimsAt, NoCmd
      <3>3. cmd'.ctx = EndAt(buffer, End(buffer, n))
        BY <1>t, <2>2, <3>2, ContextOfTarget DEF HistoryFits, End
      <3>4. QED
        BY <2>1, <2>2, <3>2, <3>3 DEF HistoryFits, HiddenFits, CommandFits
    <2>4. CASE cursor # 0 /\ cmd' = [NoCmd EXCEPT !.at = "save", !.ctx = checkpoint]
      <3>1. cmd'.at = "save" /\ cmd'.target = 0 /\ cmd'.ctx = checkpoint
        BY <2>4 DEF NoCmd
      <3>2. checkpoint = EndAt(buffer, End(buffer, 0))
        BY <2>1, <2>2, <2>4 DEF HiddenFits, End
      <3>3. QED
        BY <2>1, <2>2, <3>1, <3>2 DEF HistoryFits, HiddenFits, CommandFits
    <2>5. QED
      BY <2>1, <2>3, <2>4
  <1>8. CASE TakeCheckpoint
    <2>1. /\ UNCHANGED <<buffer, context, saved, cursor, checkpoint, history>> /\ cmd.at = "checkpoint"
          /\ cmd'.at = "save" /\ cmd'.target = cmd.target /\ cmd'.ctx = cmd.ctx
          /\ cmd'.check = IF cursor = 0 THEN context ELSE checkpoint
      BY <1>8, <1>t DEF TakeCheckpoint, Cmds
    <2>2. cmd'.check = EndAt(buffer, Len(buffer))
      BY <1>n, <2>1 DEF HistoryFits, HiddenFits, End
    <2>3. QED
      BY <1>n, <2>1, <2>2 DEF HistoryFits, HiddenFits, CommandFits
  <1>9. CASE SaveRevert
    <2>1. /\ UNCHANGED <<buffer, context, history>> /\ cmd.at = "save" /\ cmd'.at = "context"
          /\ cursor' = cmd.target /\ checkpoint' = cmd.check /\ saved' = cmd.ctx /\ cmd'.ctx = cmd.ctx
      BY <1>9, <1>c DEF SaveRevert
    <2>2. QED
      BY <1>n, <2>1 DEF HistoryFits, HiddenFits, CommandFits
  <1>10. CASE SetContext
    <2>1. /\ UNCHANGED <<buffer, saved, cursor, checkpoint, history>> /\ cmd.at = "context"
          /\ context' = cmd.ctx /\ cmd'.at = "none"
      BY <1>10, <1>t DEF SetContext
    <2>2. QED
      BY <1>n, <2>1 DEF HistoryFits, HiddenFits, CommandFits
  \* compaction
  <1>11. CASE Compact
    <2>1. /\ UNCHANGED <<store, context, saved, cursor, checkpoint, history>> /\ cmd.at = "none"
          /\ buffer' = store /\ cmd'.at = "summary" /\ cmd'.check = context
          /\ cmd'.ctx.retained = Len(store)
      BY <1>11 DEF Compact, NoCmd
    <2>2. store = buffer
      BY <2>1 DEF Copies
    <2>3. QED
      BY <1>n, <2>1, <2>2 DEF HistoryFits, HiddenFits, CommandFits
  <1>12. ASSUME NEW prior \in Contexts, prior = context, compactions < MaxCompactions,
                ApplyCompaction(prior, Len(buffer)), late' = late \/ Overtakes, torn' = torn,
                cursor' = cursor, cmd'.at = "none",
                cmd.at = "summary" \/ loop.at # "none" \/ (Overtakes /\ cmd' = cmd)
         PROVE  HistoryFits' /\ HiddenFits' /\ CommandFits'
    <2>1. PICK m : m = Marker(compactions', prior)
      OBVIOUS
    <2>2. /\ m \in Messages /\ Write(m) /\ m.kind = "marker" /\ m.prior = context /\ m.of = compactions'
          /\ saved' = [summary |-> compactions', retained |-> Len(buffer)] /\ context' = saved'
      BY <1>12, <1>t, <2>1, CompactionFacts DEF Marker
    <2>3. cursor = 0 /\ ~buried
      BY <1>12, <1>t DEF ApplyCompaction, Undisturbed
    <2>4. cmd.at # "context" /\ ~late /\ ~torn
      BY <1>12, <1>t DEF Overtakes, Undisturbed
    <2>5. HistoryFits
      BY <1>f, <2>3, <2>4 DEF Undisturbed
    <2>6. QED
      BY <1>12, <2>2, <2>3, <2>4, <2>5, WrittenContext
  <1>13. CASE CompactDone
    <2>1. /\ ApplyCompaction(cmd.check, cmd.ctx.retained) /\ cmd.at = "summary" /\ cmd'.at = "none"
          /\ UNCHANGED <<cursor, late, torn>> /\ compactions < MaxCompactions
      BY <1>13, <1>t DEF CompactDone, TypeInv, BoundsInv
    <2>2. Undisturbed
      BY <1>t, <2>1 DEF Undisturbed, ApplyCompaction
    <2>3. cmd.check = context /\ cmd.ctx.retained = Len(buffer)
      BY <1>f, <2>1, <2>2 DEF CommandFits
    <2>4. QED
      BY <1>12, <1>t, <2>1, <2>3
  <1>14. CASE AutoCompact
    <2>1. /\ ApplyCompaction(context, Len(buffer)) /\ loop.at # "none" /\ cmd' = cmd
          /\ UNCHANGED <<cursor, late, torn>> /\ compactions < MaxCompactions
      BY <1>14 DEF AutoCompact
    <2>2. QED
      BY <1>12, <1>t, <2>1
  <1>15. CASE GhostCompacts
    <2>1. /\ ApplyCompaction(context, Len(buffer)) /\ cmd' = cmd /\ Overtakes /\ cmd.at # "summary"
          /\ UNCHANGED <<cursor, torn>> /\ compactions < MaxCompactions
      BY <1>15 DEF GhostCompacts
    <2>2. cmd.at = "none"
      BY <2>1 DEF Overtakes, Undisturbed
    <2>3. QED
      BY <1>12, <1>t, <2>1, <2>2
  \* the loops
  <1>16. CASE Answer \/ Call \/ Results
    <2>1. /\ UNCHANGED <<context, saved, cursor, cmd, history>> /\ loop.at # "none"
      BY <1>16 DEF Answer, Call, Results
    <2>2. \E kind \in {"answer", "call", "results"} : Write(Message(kind, loop.of, loop.round))
      BY <1>16 DEF Answer, Call, Results
    <2>3. PICK m \in Messages : Write(m) /\ m.kind # "marker"
      <3>1. loop.of \in Nat /\ loop.round \in Nat
        BY Bounds DEF TypeInv, TypeOK, Loops
      <3>2. QED
        BY <2>2, <3>1, MessageType DEF Kinds, Message
    <2>4. HistoryFits /\ cursor = 0 /\ cmd.at = "none"
      BY <1>n, <1>t, <2>1
    <2>5. QED
      BY <2>1, <2>3, <2>4, WrittenContext
  <1>17. CASE GhostWrites
    <2>1. UNCHANGED <<context, saved, cursor, cmd, buried, torn>> /\ Overtakes
      BY <1>17 DEF GhostWrites
    <2>2. PICK m \in Messages : Write(m) /\ m.kind # "marker"
      <3>1. ghost.of \in Nat /\ ghost.round \in Nat
        BY Bounds DEF TypeInv, TypeOK, Loops
      <3>2. \E kind \in {"answer", "results"} : Write(Message(kind, ghost.of, ghost.round))
        BY <1>17 DEF GhostWrites
      <3>3. QED
        BY <3>1, <3>2, MessageType DEF Kinds, Message
    <2>3. Undisturbed /\ cursor = 0 /\ cmd.at = "none"
      BY <2>1 DEF Overtakes, Undisturbed
    <2>4. QED
      BY <1>f, <2>1, <2>2, <2>3, WrittenContext
  <1>18. CASE Crash
    <2>1. /\ UNCHANGED <<saved, cursor, checkpoint, late, buried>> /\ buffer' = store /\ context' = saved
          /\ cmd'.at = "none" /\ torn' = (torn \/ store # buffer \/ cmd.at = "clear")
      BY <1>18, <1>t DEF Crash
    <2>2. Undisturbed /\ store = buffer /\ cmd.at # "clear"
      BY <2>1 DEF Undisturbed
    <2>3. QED
      BY <1>f, <2>1, <2>2 DEF HistoryFits, HiddenFits, CommandFits
  <1>19. CASE UNCHANGED vars
    BY <1>n, <1>19 DEF vars, history, HistoryFits, HiddenFits, CommandFits
  <1>20. QED
    BY ONLY [Next]_vars, <1>1, <1>2, <1>3, <1>4, <1>5, <1>6, <1>7, <1>8, <1>9, <1>10, <1>11,
       <1>13, <1>14, <1>15, <1>16, <1>17, <1>18, <1>19
       DEF Next, Commands, Loop, Ghost

-----------------------------------------------------------------------------
(* The theorems. *)

Inv == TypeInv /\ Once /\ Copies /\ Phases /\ GoneInv /\ ContextInv

LEMMA InitInv == Init => Inv
  <1> SUFFICES ASSUME Init PROVE Inv
    OBVIOUS
  <1>1. TypeInv /\ Once /\ Copies /\ Phases
    BY TypeInit
  <1>2. buffer = <<>> /\ Len(buffer) = 0
    BY EmptySeq DEF Init
  <1>3. GoneInv
    BY <1>2 DEF Init, GoneInv
  <1>4. ContextInv
    <2>1. EndAt(buffer, 0) = Empty
      BY DEF EndAt
    <2>2. PriorsFit(buffer)
      BY <1>2 DEF PriorsFit
    <2>3. /\ saved = Empty /\ context = Empty /\ cursor = 0 /\ cmd.at = "none"
      BY DEF Init, NoCmd
    <2>4. QED
      BY <1>2, <2>1, <2>2, <2>3 DEF ContextInv, HistoryFits, HiddenFits, CommandFits, End
  <1>5. QED
    BY <1>1, <1>3, <1>4 DEF Inv

LEMMA NextInv == Inv /\ [Next]_vars => Inv'
  BY TypeNext, OnceNext, CopiesNext, PhasesNext, GoneNext, ContextNext DEF Inv

LEMMA Invariance == Spec => []Inv
  BY InitInv, NextInv, PTL DEF Spec

\* Both copies of the conversation, the context state and the command in
\* progress keep their types: no counter passes its bound in the middle of a
\* command.
THEOREM TypeCorrect == Spec => []TypeOK
  <1>1. Inv => TypeOK
    BY DEF Inv, TypeInv
  <1>2. QED
    BY <1>1, Invariance, PTL

\* Whenever no deletion of hidden messages is going on, the store and the
\* buffer hold the same messages in the same order, also with cancelled loops
\* writing late and after restarts.
THEOREM CopiesAgree == Spec => [](cmd.at # "delete" => store = buffer)
  <1>1. Inv => (cmd.at # "delete" => store = buffer)
    BY DEF Inv, Copies
  <1>2. QED
    BY <1>1, Invariance, PTL

\* A loop's context state is always one validate_request_state accepts, unless
\* a cancelled loop wrote late, a compaction was applied while messages were
\* hidden, or a crash hit their deletion: the state is the one the history ends
\* with, which points behind no message and has its marker behind it.
THEOREM RequestsStayValid == Spec => []RequestsAreValid
  <1>1. Inv => RequestsAreValid
    <2> SUFFICES ASSUME Inv, loop.at = "ask", Undisturbed PROVE Valid(context, buffer)
      BY DEF RequestsAreValid
    <2>1. cmd.at = "none" /\ cursor = 0
      BY DEF Inv, Phases
    <2>2. context = EndAt(buffer, Len(buffer))
      BY <2>1 DEF Inv, ContextInv, HistoryFits, End
    <2>3. buffer \in Seq(Messages)
      BY DEF Inv, TypeInv, TypeOK
    <2>4. QED
      BY <2>2, <2>3, EndIsValid
  <1>2. QED
    BY <1>1, Invariance, PTL

\* Between commands the ContextManager, the session's row and the checkpoint
\* agree with the history, visible and whole, through every undo, redo, revert,
\* compaction, new prompt and restart.
THEOREM ContextStaysWithHistory == Spec => []ContextFollowsHistory
  <1>1. Inv => ContextFollowsHistory
    <2> SUFFICES ASSUME Inv, cmd.at = "none", Undisturbed
                 PROVE  /\ context = HistoryEnd(Visible(buffer)) /\ saved = context
                        /\ cursor # 0 => checkpoint = HistoryEnd(buffer)
      BY DEF ContextFollowsHistory
    <2>1. buffer \in Seq(Messages) /\ Len(buffer) \in Nat
      BY CopyTypes DEF Inv
    <2>2. /\ context = saved /\ saved = EndAt(buffer, End(buffer, cursor))
          /\ cursor # 0 => Position(buffer, cursor) <= Len(buffer) /\ checkpoint = EndAt(buffer, Len(buffer))
      BY DEF Inv, ContextInv, HistoryFits, HiddenFits
    <2>3. HistoryEnd(buffer) = EndAt(buffer, Len(buffer))
      BY <2>1, EndOfPrefix
    <2>4. HistoryEnd(Visible(buffer)) = EndAt(buffer, End(buffer, cursor))
      <3>1. CASE cursor = 0
        BY <2>3, <3>1 DEF Visible, End
      <3>2. CASE cursor # 0
        <4>1. PICK k : k = Position(buffer, cursor) - 1
          OBVIOUS
        <4>2. k \in 0 .. Len(buffer)
          BY <2>1, <4>1, PositionFacts
        <4>3. HistoryEnd(SubSeq(buffer, 1, k)) = EndAt(buffer, k)
          BY <2>1, <4>2, EndOfPrefix
        <4>4. QED
          BY <3>2, <4>1, <4>3 DEF Visible, Before, End
      <3>3. QED
        BY <3>1, <3>2
    <2>5. QED
      BY <2>2, <2>3, <2>4
  <1>2. QED
    BY <1>1, Invariance, PTL

\* A prompt that was hidden when a later one was submitted never comes back
\* into the conversation, unless a crash hit its deletion.
THEOREM UndoneNeverReturns == Spec => []UndoneStaysGone
  <1>1. Inv => UndoneStaysGone
    <2> SUFFICES ASSUME Inv, cmd.at = "none", ~torn, NEW i \in Prompts(store)
                 PROVE  store[i].of \notin gone
      BY DEF UndoneStaysGone
    <2>1. store = buffer
      BY DEF Inv, Copies
    <2>2. i \in 1 .. Len(buffer) /\ buffer[i].kind = "prompt"
      BY <2>1, CopyTypes DEF Inv, Prompts
    <2>3. QED
      BY <2>1, <2>2 DEF Inv, GoneInv
  <1>2. QED
    BY <1>1, Invariance, PTL

\* No step, a crash included, takes a visible message out of the store or the
\* buffer.
THEOREM VisibleNeverLost == Spec => VisibleIsKept
  <1>1. Inv /\ [Next]_vars =>
          [Elements(Visible(buffer)) \subseteq Elements(store') \intersect Elements(buffer')]_<<store, buffer>>
    BY VisibleStep DEF Inv
  <1>2. QED
    BY <1>1, Invariance, PTL DEF Spec, VisibleIsKept
=============================================================================
