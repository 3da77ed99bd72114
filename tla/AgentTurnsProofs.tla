-------------------------- MODULE AgentTurnsProofs --------------------------
(***************************************************************************)
(* Proofs about AgentTurns, for turns with any tool calls and any number   *)
(* of rounds, prompts, failures and crashes.                               *)
(*                                                                         *)
(* What a sequence keeps of a set is computed by recursion (Of); the first *)
(* section proves by a least counterexample what the rest needs of it.     *)
(* Then come the invariant of the recorder and of the stored calls and     *)
(* results, what a step keeps of the history, and the answers in requests. *)
(***************************************************************************)
EXTENDS AgentTurns, SequenceTheorems, FiniteSetTheorems, WellFoundedInduction, TLAPS

-----------------------------------------------------------------------------
(* What `Of` takes from a sequence. *)

\* Induction: a set of numbers that is not empty has a least element.
LEMMA LeastOf ==
  ASSUME NEW S \in SUBSET Nat, S # {}
  PROVE  \E n \in S : \A m \in S : n <= m
  <1>1. PICK n \in S : \A m \in S : ~(<<m, n>> \in OpToRel(<, Nat))
    BY NatLessThanWellFounded, WFMin
  <1>2. \A m \in S : ~(m < n)
    BY <1>1 DEF OpToRel
  <1>3. QED
    BY <1>2

\* the recursive function of `Of`
Takes(f, s, S) ==
  f = [n \in 0 .. Len(s) |->
        IF n = 0 THEN <<>>
        ELSE IF s[n] \in S THEN Append(f[n - 1], s[n]) ELSE f[n - 1]]

LEMMA TakesExtend ==
  ASSUME NEW X, NEW s \in Seq(X), NEW m \in X, NEW S, NEW f, Takes(f, s, S)
  PROVE  \E g : /\ Takes(g, Append(s, m), S)
                /\ \A n \in 0 .. Len(s) : g[n] = f[n]
                /\ g[Len(s) + 1] = IF m \in S THEN Append(f[Len(s)], m) ELSE f[Len(s)]
  <1> DEFINE t == Append(s, m)
             g == [n \in 0 .. Len(t) |-> IF n = Len(s) + 1
                     THEN IF m \in S THEN Append(f[Len(s)], m) ELSE f[Len(s)]
                     ELSE f[n]]
  <1>1. t \in Seq(X) /\ Len(t) = Len(s) + 1 /\ t[Len(s) + 1] = m
        /\ \A i \in 1 .. Len(s) : t[i] = s[i]
    OBVIOUS
  <1>2. \A n \in 0 .. Len(s) : g[n] = f[n]
    BY <1>1
  <1>3. g[Len(s) + 1] = IF m \in S THEN Append(f[Len(s)], m) ELSE f[Len(s)]
    BY <1>1
  <1>4. ASSUME NEW n \in 0 .. Len(t)
        PROVE  g[n] = IF n = 0 THEN <<>>
                      ELSE IF t[n] \in S THEN Append(g[n - 1], t[n]) ELSE g[n - 1]
    <2>1. CASE n = Len(s) + 1
      <3>1. n # 0 /\ n - 1 = Len(s) /\ n - 1 \in 0 .. Len(s)
        BY <2>1
      <3>2. g[n - 1] = f[Len(s)]
        BY <3>1, <1>2
      <3>3. QED
        BY <3>1, <3>2, <1>1, <1>3, <2>1
    <2>2. CASE n \in 0 .. Len(s)
      <3>1. f[n] = IF n = 0 THEN <<>>
                   ELSE IF s[n] \in S THEN Append(f[n - 1], s[n]) ELSE f[n - 1]
        BY <2>2 DEF Takes
      <3>2. n # 0 => n - 1 \in 0 .. Len(s) /\ t[n] = s[n] /\ g[n - 1] = f[n - 1]
        BY <2>2, <1>1, <1>2
      <3>3. g[n] = f[n]
        BY <2>2, <1>2
      <3> HIDE DEF g, t
      <3>4. QED
        BY <3>1, <3>2, <3>3
    <2>3. QED
      BY <2>1, <2>2, <1>1
  <1>5. g = [n \in 0 .. Len(t) |-> IF n = 0 THEN <<>>
                ELSE IF t[n] \in S THEN Append(g[n - 1], t[n]) ELSE g[n - 1]]
    BY <1>4
  <1>6. Takes(g, t, S)
    <2> HIDE DEF g, t
    <2>1. QED
      BY <1>5 DEF Takes
  <1>7. QED
    BY <1>6, <1>2, <1>3

LEMMA SequenceEnds ==
  ASSUME NEW X, NEW s \in Seq(X), s # <<>>
  PROVE  \E r \in Seq(X) : \E m \in X : s = Append(r, m) /\ Len(s) = Len(r) + 1
  <1> DEFINE r == SubSeq(s, 1, Len(s) - 1)
  <1>1. r \in Seq(X) /\ s[Len(s)] \in X /\ Len(s) = Len(r) + 1
    OBVIOUS
  <1>2. s = Append(r, s[Len(s)])
    OBVIOUS
  <1>3. QED
    BY <1>1, <1>2

LEMMA TakesExists ==
  ASSUME NEW X, NEW s \in Seq(X), NEW S
  PROVE  \E f : Takes(f, s, S)
  <1> DEFINE Bad == {n \in Nat : \E t \in Seq(X) : Len(t) = n /\ ~\E f : Takes(f, t, S)}
  <1>1. Bad = {}
    <2> SUFFICES ASSUME Bad # {} PROVE FALSE
      OBVIOUS
    <2>1. PICK n \in Bad : \A k \in Bad : n <= k
      BY LeastOf
    <2>2. PICK t \in Seq(X) : Len(t) = n /\ ~\E f : Takes(f, t, S)
      BY <2>1
    <2>3. CASE t = <<>>
      <3>1. Takes([k \in {0} |-> <<>>], t, S)
        BY <2>3 DEF Takes
      <3>2. QED
        BY <3>1, <2>2
    <2>4. CASE t # <<>>
      <3>1. PICK r \in Seq(X), m \in X : t = Append(r, m) /\ Len(t) = Len(r) + 1
        BY <2>4, SequenceEnds
      <3>2. Len(r) \in Nat /\ Len(r) < n
        BY <3>1, <2>2
      <3>3. Len(r) \notin Bad
        BY <3>2, <2>1
      <3>4. PICK f : Takes(f, r, S)
        BY <3>3, <3>2
      <3>5. QED
        BY <3>4, <3>1, <2>2, TakesExtend
    <2>5. QED
      BY <2>3, <2>4
  <1>2. QED
    BY <1>1

LEMMA TakesOnce ==
  ASSUME NEW X, NEW s \in Seq(X), NEW S, NEW f, NEW g, Takes(f, s, S), Takes(g, s, S)
  PROVE  f = g
  <1> DEFINE Bad == {n \in Nat : n <= Len(s) /\ f[n] # g[n]}
  <1>1. Bad = {}
    <2> SUFFICES ASSUME Bad # {} PROVE FALSE
      OBVIOUS
    <2>1. PICK n \in Bad : \A k \in Bad : n <= k
      BY LeastOf
    <2>2. n \in 0 .. Len(s) /\ f[n] # g[n]
      BY <2>1
    <2>3. n # 0
      BY <2>2 DEF Takes
    <2>4. n - 1 \in Nat /\ n - 1 \notin Bad
      BY <2>1, <2>3
    <2>5. f[n - 1] = g[n - 1]
      BY <2>4, <2>2
    <2>6. f[n] = g[n]
      BY <2>2, <2>3, <2>5 DEF Takes
    <2>7. QED
      BY <2>6, <2>2
  <1>2. \A n \in 0 .. Len(s) : f[n] = g[n]
    BY <1>1
  <1>3. QED
    BY <1>2 DEF Takes

LEMMA OfTakes ==
  ASSUME NEW X, NEW s \in Seq(X), NEW S, NEW f, Takes(f, s, S)
  PROVE  Of(s, S) = f[Len(s)]
  <1> DEFINE g == CHOOSE h : Takes(h, s, S)
  <1>1. Takes(g, s, S)
    OBVIOUS
  <1>2. g = f
    BY <1>1, TakesOnce
  <1>3. Of(s, S) = g[Len(s)]
    BY DEF Of, Takes
  <1>4. QED
    BY <1>2, <1>3

\* What is taken of a sequence that ends with m.
LEMMA OfEmpty ==
  ASSUME NEW S PROVE Of(<<>>, S) = <<>>
  <1>1. <<>> \in Seq({}) /\ Len(<<>>) = 0
    OBVIOUS
  <1>2. PICK f : Takes(f, <<>>, S)
    BY <1>1, TakesExists
  <1>3. f[0] = <<>>
    BY <1>2, <1>1 DEF Takes
  <1>4. QED
    BY <1>1, <1>2, <1>3, OfTakes

LEMMA OfAppend ==
  ASSUME NEW X, NEW s \in Seq(X), NEW m \in X, NEW S
  PROVE  Of(Append(s, m), S) = IF m \in S THEN Append(Of(s, S), m) ELSE Of(s, S)
  <1>1. PICK f : Takes(f, s, S)
    BY TakesExists
  <1>2. PICK g : /\ Takes(g, Append(s, m), S)
                 /\ g[Len(s) + 1] = IF m \in S THEN Append(f[Len(s)], m) ELSE f[Len(s)]
    BY <1>1, TakesExtend
  <1>3. Append(s, m) \in Seq(X) /\ Len(Append(s, m)) = Len(s) + 1
    OBVIOUS
  <1>4. Of(s, S) = f[Len(s)] /\ Of(Append(s, m), S) = g[Len(s) + 1]
    BY <1>1, <1>2, <1>3, OfTakes
  <1>5. QED
    BY <1>2, <1>4

LEMMA OfType ==
  ASSUME NEW X, NEW s \in Seq(X), NEW S
  PROVE  Of(s, S) \in Seq(X)
  <1> DEFINE Bad == {n \in Nat : \E t \in Seq(X) : Len(t) = n /\ Of(t, S) \notin Seq(X)}
  <1>1. Bad = {}
    <2> SUFFICES ASSUME Bad # {} PROVE FALSE
      OBVIOUS
    <2>1. PICK n \in Bad : \A k \in Bad : n <= k
      BY LeastOf
    <2>2. PICK t \in Seq(X) : Len(t) = n /\ Of(t, S) \notin Seq(X)
      BY <2>1
    <2>3. t # <<>>
      BY <2>2, OfEmpty
    <2>4. PICK r \in Seq(X) : \E m \in X : t = Append(r, m) /\ Len(t) = Len(r) + 1
      BY <2>3, SequenceEnds
    <2>5. PICK m \in X : t = Append(r, m) /\ Len(t) = Len(r) + 1
      BY <2>4
    <2>6. Len(r) \in Nat /\ Len(r) < n
      BY <2>5, <2>2
    <2>7. Of(r, S) \in Seq(X)
      BY <2>6, <2>1
    <2>8. Of(t, S) = IF m \in S THEN Append(Of(r, S), m) ELSE Of(r, S)
      BY <2>5, OfAppend
    <2>9. QED
      BY <2>7, <2>8, <2>2
  <1>2. QED
    BY <1>1

\* Where it comes from: e gives the places, in order.
Picks(e, s, S) ==
  /\ e \in [DOMAIN Of(s, S) -> DOMAIN s]
  /\ \A i, j \in DOMAIN e : i < j => e[i] < e[j]
  /\ \A i \in DOMAIN e : Of(s, S)[i] = s[e[i]] /\ s[e[i]] \in S
  /\ \A k \in DOMAIN s : s[k] \in S => \E i \in DOMAIN e : e[i] = k

LEMMA PicksExtend ==
  ASSUME NEW X, NEW s \in Seq(X), NEW m \in X, NEW S, NEW e, Picks(e, s, S)
  PROVE  Picks(IF m \in S THEN Append(e, Len(s) + 1) ELSE e, Append(s, m), S)
  <1> DEFINE t == Append(s, m)
             o == Of(s, S)
  <1>1. t \in Seq(X) /\ Len(t) = Len(s) + 1 /\ t[Len(s) + 1] = m
        /\ (\A i \in 1 .. Len(s) : t[i] = s[i]) /\ DOMAIN t = 1 .. Len(s) + 1
        /\ DOMAIN s = 1 .. Len(s) /\ Len(s) \in Nat
    OBVIOUS
  <1>2. o \in Seq(X) /\ Len(o) \in Nat /\ DOMAIN o = 1 .. Len(o)
    BY OfType
  <1>3. e \in [1 .. Len(o) -> 1 .. Len(s)] /\ DOMAIN e = 1 .. Len(o)
    BY <1>1, <1>2 DEF Picks
  <1>4. /\ \A i, j \in 1 .. Len(o) : i < j => e[i] < e[j]
        /\ \A i \in 1 .. Len(o) : o[i] = s[e[i]] /\ s[e[i]] \in S
        /\ \A k \in 1 .. Len(s) : s[k] \in S => \E i \in 1 .. Len(o) : e[i] = k
    BY <1>1, <1>2, <1>3 DEF Picks
  <1>5. CASE m \notin S
    <2>1. Of(t, S) = o
      BY <1>5, OfAppend
    <2> HIDE DEF o, t
    <2>2. e \in [DOMAIN o -> DOMAIN t]
      BY <1>1, <1>2, <1>3
    <2>3. \A i \in DOMAIN e : o[i] = t[e[i]] /\ t[e[i]] \in S
      BY <1>1, <1>3, <1>4
    <2>4. \A k \in DOMAIN t : t[k] \in S => \E i \in DOMAIN e : e[i] = k
      BY <1>1, <1>3, <1>4, <1>5
    <2>5. Picks(e, t, S)
      BY <2>1, <2>2, <2>3, <2>4, <1>4, <1>3 DEF Picks
    <2>6. QED
      BY <2>5, <1>5 DEF t
  <1>6. CASE m \in S
    <2> DEFINE u == Append(o, m)
               g == Append(e, Len(s) + 1)
    <2>1. Of(t, S) = u
      BY <1>6, OfAppend
    <2>2. u \in Seq(X) /\ Len(u) = Len(o) + 1 /\ u[Len(o) + 1] = m
          /\ (\A i \in 1 .. Len(o) : u[i] = o[i]) /\ DOMAIN u = 1 .. Len(o) + 1
      BY <1>2
    <2>3. e \in Seq(Nat) /\ Len(e) = Len(o)
      <3>1. e \in [1 .. Len(o) -> Nat]
        BY <1>3, <1>1
      <3>2. QED
        BY <3>1, <1>2, SeqDef
    <2>4. g \in Seq(Nat) /\ Len(g) = Len(o) + 1 /\ g[Len(o) + 1] = Len(s) + 1
          /\ (\A i \in 1 .. Len(o) : g[i] = e[i]) /\ DOMAIN g = 1 .. Len(o) + 1
      <3>1. Len(s) + 1 \in Nat
        BY <1>1
      <3> HIDE DEF o, t, u
      <3>2. QED
        BY <3>1, <2>3, <1>2, AppendProperties
    <2> HIDE DEF o, t, u, g
    <2>5. \A i \in 1 .. Len(o) : g[i] \in 1 .. Len(s) /\ g[i] = e[i]
      BY <2>4, <1>3
    <2>6. g \in [DOMAIN u -> DOMAIN t]
      BY <2>4, <2>5, <1>1, <1>2, <2>2
    <2>7. ASSUME NEW i \in DOMAIN g, NEW j \in DOMAIN g, i < j PROVE g[i] < g[j]
      <3>1. i \in 1 .. Len(o) /\ g[i] = e[i] /\ e[i] \in 1 .. Len(s)
        BY <2>4, <2>5, <2>7, <1>2
      <3>2. CASE j \in 1 .. Len(o)
        BY <3>1, <3>2, <2>5, <2>7, <1>4
      <3>3. CASE j = Len(o) + 1
        BY <3>1, <3>3, <2>4, <1>1
      <3>4. QED
        BY <3>2, <3>3, <2>4, <1>2
    <2>8. ASSUME NEW i \in DOMAIN g PROVE u[i] = t[g[i]] /\ t[g[i]] \in S
      <3>1. CASE i \in 1 .. Len(o)
        BY <3>1, <2>2, <2>5, <1>1, <1>4
      <3>2. CASE i = Len(o) + 1
        BY <3>2, <2>2, <2>4, <1>1, <1>6
      <3>3. QED
        BY <3>1, <3>2, <2>4, <1>2
    <2>9. \A k \in DOMAIN t : t[k] \in S => \E i \in DOMAIN g : g[i] = k
      <3> SUFFICES ASSUME NEW k \in DOMAIN t, t[k] \in S PROVE \E i \in DOMAIN g : g[i] = k
        OBVIOUS
      <3>1. CASE k = Len(s) + 1
        BY <3>1, <2>4, <1>2
      <3>2. CASE k \in 1 .. Len(s)
        <4>1. PICK i \in 1 .. Len(o) : e[i] = k
          BY <3>2, <1>1, <1>4
        <4>2. QED
          BY <4>1, <2>4, <1>2
      <3>3. QED
        BY <3>1, <3>2, <1>1
    <2>10. Picks(g, t, S)
      BY <2>1, <2>6, <2>7, <2>8, <2>9 DEF Picks
    <2>11. QED
      BY <2>10, <1>6 DEF t, g
  <1>7. QED
    BY <1>5, <1>6

\* Two sequences of which the same places are taken.
LEMMA OfPair ==
  ASSUME NEW X, NEW s \in Seq(X), NEW t \in Seq(X), Len(s) = Len(t), NEW S, NEW T,
         \A i \in 1 .. Len(s) : s[i] \in S <=> t[i] \in T
  PROVE  \E e : Picks(e, s, S) /\ Picks(e, t, T)
  <1> DEFINE Alike(p, q) == Len(p) = Len(q) /\ \A i \in 1 .. Len(p) : p[i] \in S <=> q[i] \in T
             Good(p, q) == \E e : Picks(e, p, S) /\ Picks(e, q, T)
             Bad == {n \in Nat : \E p, q \in Seq(X) : Len(p) = n /\ Alike(p, q) /\ ~Good(p, q)}
  <1>1. Bad = {}
    <2> SUFFICES ASSUME Bad # {} PROVE FALSE
      OBVIOUS
    <2>1. PICK n \in Bad : \A k \in Bad : n <= k
      BY LeastOf
    <2>2. PICK p \in Seq(X) : \E q \in Seq(X) : Len(p) = n /\ Alike(p, q) /\ ~Good(p, q)
      BY <2>1
    <2>3. PICK q \in Seq(X) : Len(p) = n /\ Alike(p, q) /\ ~Good(p, q)
      BY <2>2
    <2>4. CASE p = <<>>
      <3>1. q = <<>>
        BY <2>3, <2>4
      <3>2. Picks(<<>>, <<>>, S) /\ Picks(<<>>, <<>>, T)
        BY OfEmpty DEF Picks
      <3>3. QED
        BY <3>1, <3>2, <2>3, <2>4
    <2>5. CASE p # <<>>
      <3>1. q # <<>>
        BY <2>3, <2>5
      <3>2. PICK p1 \in Seq(X) : \E m \in X : p = Append(p1, m) /\ Len(p) = Len(p1) + 1
        BY <2>5, SequenceEnds
      <3>3. PICK m \in X : p = Append(p1, m) /\ Len(p) = Len(p1) + 1
        BY <3>2
      <3>4. PICK q1 \in Seq(X) : \E k \in X : q = Append(q1, k) /\ Len(q) = Len(q1) + 1
        BY <3>1, SequenceEnds
      <3>5. PICK k \in X : q = Append(q1, k) /\ Len(q) = Len(q1) + 1
        BY <3>4
      <3>6. Alike(p1, q1) /\ (m \in S <=> k \in T) /\ Len(p1) = Len(q1)
        <4>1. Len(p1) \in Nat /\ Len(p1) = Len(q1) /\ Len(p) = Len(q)
          BY <2>3, <3>3, <3>5
        <4>2. \A i \in 1 .. Len(p1) : p[i] = p1[i] /\ q[i] = q1[i] /\ i \in 1 .. Len(p)
          BY <4>1, <3>3, <3>5
        <4>3. p[Len(p1) + 1] = m /\ q[Len(p1) + 1] = k /\ Len(p1) + 1 \in 1 .. Len(p)
          BY <4>1, <3>3, <3>5
        <4>4. QED
          BY <4>1, <4>2, <4>3, <2>3
      <3>7. Len(p1) \in Nat /\ Len(p1) < n
        BY <3>3, <2>3
      <3>8. PICK e : Picks(e, p1, S) /\ Picks(e, q1, T)
        <4>1. Len(p1) \notin Bad
          <5>1. n \in Nat
            BY <2>1
          <5> HIDE DEF Bad
          <5>2. QED
            BY <3>7, <2>1, <5>1
        <4> HIDE DEF Alike
        <4>2. QED
          BY <4>1, <3>6, <3>7
      <3> DEFINE g == IF m \in S THEN Append(e, Len(p1) + 1) ELSE e
      <3>9. Picks(g, p, S)
        BY <3>8, <3>3, PicksExtend
      <3>10. g = IF k \in T THEN Append(e, Len(q1) + 1) ELSE e
        BY <3>6
      <3>11. Picks(IF k \in T THEN Append(e, Len(q1) + 1) ELSE e, q, T)
        BY <3>8, <3>5, PicksExtend
      <3>12. Picks(g, q, T)
        BY <3>10, <3>11
      <3>13. QED
        BY <3>9, <3>12, <2>3
    <2>6. QED
      BY <2>4, <2>5
  <1>2. Len(s) \in Nat /\ Alike(s, t)
    OBVIOUS
  <1>3. QED
    BY <1>1, <1>2

LEMMA OfPicks ==
  ASSUME NEW X, NEW s \in Seq(X), NEW S
  PROVE  \E e : Picks(e, s, S)
  <1>1. \E e : Picks(e, s, S) /\ Picks(e, s, S)
    BY OfPair
  <1>2. QED
    BY <1>1

LEMMA ConcatAppend ==
  ASSUME NEW X, NEW s \in Seq(X), NEW t \in Seq(X), NEW m \in X
  PROVE  s \o Append(t, m) = Append(s \o t, m)
  <1>1. Append(t, m) = t \o <<m>> /\ Append(s \o t, m) = (s \o t) \o <<m>>
    BY AppendIsConcat, ConcatProperties
  <1>2. <<m>> \in Seq(X)
    OBVIOUS
  <1>3. QED
    BY <1>1, <1>2, ConcatAssociative

\* Of a concatenation; of what was taken before; of a sequence of members or strangers.
LEMMA OfConcat ==
  ASSUME NEW X, NEW s \in Seq(X), NEW t \in Seq(X), NEW S
  PROVE  Of(s \o t, S) = Of(s, S) \o Of(t, S)
  <1> DEFINE Good(q) == Of(s \o q, S) = Of(s, S) \o Of(q, S)
             Bad == {n \in Nat : \E q \in Seq(X) : Len(q) = n /\ ~Good(q)}
  <1>0. ASSUME NEW r \in Seq(X), NEW m \in X, Of(s \o r, S) = Of(s, S) \o Of(r, S)
        PROVE  Of(s \o Append(r, m), S) = Of(s, S) \o Of(Append(r, m), S)
    <2> DEFINE u == s \o r
               o == Of(r, S)
               p == Of(s, S)
    <2>1. s \o Append(r, m) = Append(u, m)
      BY ConcatAppend
    <2>2. u \in Seq(X)
      OBVIOUS
    <2>3. o \in Seq(X) /\ p \in Seq(X)
      BY OfType
    <2>4. Of(Append(r, m), S) = IF m \in S THEN Append(o, m) ELSE o
      BY OfAppend
    <2>5. Of(u, S) = p \o o
      BY <1>0
    <2> HIDE DEF u, o, p
    <2>6. Of(Append(u, m), S) = IF m \in S THEN Append(Of(u, S), m) ELSE Of(u, S)
      BY <2>2, OfAppend
    <2>7. p \o Append(o, m) = Append(p \o o, m)
      BY <2>3, ConcatAppend
    <2>8. QED
      BY <2>1, <2>4, <2>5, <2>6, <2>7 DEF p
  <1>1. Bad = {}
    <2> SUFFICES ASSUME Bad # {} PROVE FALSE
      OBVIOUS
    <2>1. PICK n \in Bad : \A k \in Bad : n <= k
      BY LeastOf
    <2>2. PICK q \in Seq(X) : Len(q) = n /\ ~Good(q)
      BY <2>1
    <2>3. CASE q = <<>>
      <3>1. s \o q = s /\ Of(s, S) \in Seq(X)
        BY <2>3, OfType
      <3>2. Of(s, S) \o <<>> = Of(s, S)
        BY <3>1
      <3>3. QED
        BY <3>1, <3>2, <2>2, <2>3, OfEmpty
    <2>4. CASE q # <<>>
      <3>1. PICK r \in Seq(X) : \E m \in X : q = Append(r, m) /\ Len(q) = Len(r) + 1
        BY <2>4, SequenceEnds
      <3>2. PICK m \in X : q = Append(r, m) /\ Len(q) = Len(r) + 1
        BY <3>1
      <3>3. Len(r) \in Nat /\ Len(r) < n
        BY <3>2, <2>2
      <3>4. Good(r)
        <4>1. Len(r) \notin Bad
          <5>1. n \in Nat
            BY <2>1
          <5> HIDE DEF Bad
          <5>2. QED
            BY <3>3, <2>1, <5>1
        <4>2. QED
          BY <4>1, <3>3
      <3>5. Good(q)
        <4>1. Of(s \o r, S) = Of(s, S) \o Of(r, S)
          BY <3>4
        <4>2. Of(s \o Append(r, m), S) = Of(s, S) \o Of(Append(r, m), S)
          BY <1>0, <4>1, Zenon
        <4>3. QED
          BY <4>2, <3>2 DEF Good
      <3>6. QED
        BY <3>5, <2>2
    <2>5. QED
      BY <2>3, <2>4
  <1>2. Len(t) \in Nat
    OBVIOUS
  <1>3. QED
    BY <1>1, <1>2

LEMMA OfNested ==
  ASSUME NEW X, NEW s \in Seq(X), NEW S, NEW T, \A m \in X : m \in T => m \in S
  PROVE  Of(Of(s, S), T) = Of(s, T)
  <1> DEFINE Good(q) == Of(Of(q, S), T) = Of(q, T)
             Bad == {n \in Nat : \E q \in Seq(X) : Len(q) = n /\ ~Good(q)}
  <1>1. Bad = {}
    <2> SUFFICES ASSUME Bad # {} PROVE FALSE
      OBVIOUS
    <2>1. PICK n \in Bad : \A k \in Bad : n <= k
      BY LeastOf
    <2>2. PICK q \in Seq(X) : Len(q) = n /\ ~Good(q)
      BY <2>1
    <2>3. CASE q = <<>>
      BY <2>2, <2>3, OfEmpty
    <2>4. CASE q # <<>>
      <3>1. PICK r \in Seq(X) : \E m \in X : q = Append(r, m) /\ Len(q) = Len(r) + 1
        BY <2>4, SequenceEnds
      <3>2. PICK m \in X : q = Append(r, m) /\ Len(q) = Len(r) + 1
        BY <3>1
      <3>3. Len(r) \in Nat /\ Len(r) < n
        BY <3>2, <2>2
      <3>4. Good(r)
        <4>1. Len(r) \notin Bad
          <5>1. n \in Nat
            BY <2>1
          <5> HIDE DEF Bad
          <5>2. QED
            BY <3>3, <2>1, <5>1
        <4>2. QED
          BY <4>1, <3>3
      <3>5. Of(q, S) = IF m \in S THEN Append(Of(r, S), m) ELSE Of(r, S)
        BY <3>2, OfAppend
      <3>6. Of(q, T) = IF m \in T THEN Append(Of(r, T), m) ELSE Of(r, T)
        BY <3>2, OfAppend
      <3>7. Of(r, S) \in Seq(X)
        BY OfType
      <3>8. Of(Append(Of(r, S), m), T) =
              IF m \in T THEN Append(Of(Of(r, S), T), m) ELSE Of(Of(r, S), T)
        BY <3>7, OfAppend, SMTT(30)
      <3>9. Good(q)
        BY <3>4, <3>5, <3>6, <3>8
      <3>10. QED
        BY <3>9, <2>2
    <2>5. QED
      BY <2>3, <2>4
  <1>2. Len(s) \in Nat
    OBVIOUS
  <1>3. QED
    BY <1>1, <1>2

LEMMA OfOne ==
  ASSUME NEW m, NEW S
  PROVE  Of(<<m>>, S) = IF m \in S THEN <<m>> ELSE <<>>
  <1>1. <<>> \in Seq({m}) /\ Append(<<>>, m) = <<m>>
    OBVIOUS
  <1>2. Of(Append(<<>>, m), S) = IF m \in S THEN Append(Of(<<>>, S), m) ELSE Of(<<>>, S)
    BY <1>1, OfAppend, m \in {m}
  <1>3. Of(<<>>, S) = <<>>
    BY OfEmpty
  <1>4. QED
    BY <1>1, <1>2, <1>3

LEMMA OfStrangers ==
  ASSUME NEW X, NEW s \in Seq(X), NEW S, \A i \in 1 .. Len(s) : s[i] \notin S
  PROVE  Of(s, S) = <<>>
  <1>1. PICK e : Picks(e, s, S)
    BY OfPicks
  <1>2. Of(s, S) \in Seq(X) /\ DOMAIN s = 1 .. Len(s)
    BY OfType
  <1>3. DOMAIN Of(s, S) = {}
    BY <1>1, <1>2 DEF Picks
  <1>4. QED
    BY <1>2, <1>3

LEMMA OfMembers ==
  ASSUME NEW X, NEW s \in Seq(X), NEW S, \A m \in X : m \in S
  PROVE  Of(s, S) = s
  <1> DEFINE Bad == {n \in Nat : \E q \in Seq(X) : Len(q) = n /\ Of(q, S) # q}
  <1>1. Bad = {}
    <2> SUFFICES ASSUME Bad # {} PROVE FALSE
      OBVIOUS
    <2>1. PICK n \in Bad : \A k \in Bad : n <= k
      BY LeastOf
    <2>2. PICK q \in Seq(X) : Len(q) = n /\ Of(q, S) # q
      BY <2>1
    <2>3. CASE q = <<>>
      BY <2>2, <2>3, OfEmpty
    <2>4. CASE q # <<>>
      <3>1. PICK r \in Seq(X) : \E m \in X : q = Append(r, m) /\ Len(q) = Len(r) + 1
        BY <2>4, SequenceEnds
      <3>2. PICK m \in X : q = Append(r, m) /\ Len(q) = Len(r) + 1
        BY <3>1
      <3>3. Len(r) \in Nat /\ Len(r) < n
        BY <3>2, <2>2
      <3>4. Of(r, S) = r
        <4>1. Len(r) \notin Bad
          <5>1. n \in Nat
            BY <2>1
          <5> HIDE DEF Bad
          <5>2. QED
            BY <3>3, <2>1, <5>1
        <4>2. QED
          BY <4>1, <3>3
      <3>5. Of(q, S) = IF m \in S THEN Append(Of(r, S), m) ELSE Of(r, S)
        BY <3>2, OfAppend
      <3>6. QED
        BY <3>4, <3>5, <3>2, <2>2
    <2>5. QED
      BY <2>3, <2>4
  <1>2. Len(s) \in Nat
    OBVIOUS
  <1>3. QED
    BY <1>1, <1>2

-----------------------------------------------------------------------------
(* The inductive invariant: what the recorder knows of its draft, how calls  *)
(* and results are numbered, and what a batch holds of the turn's calls.     *)

IsDraft(m) == m.role = "assistant" /\ m.state = "live" /\ m.calls = <<>> /\ m.call = {}

\* The recorder has one draft at most, and knows what became of it.
DraftOK ==
  /\ \A d, e \in active : d = e
  /\ pc \in {"stream", "save"} =>
       \E d \in active : ~d.done /\ d.at = Len(store) /\ IsDraft(store[d.at])
  /\ pc = "abort" =>
       \E d \in active :
         /\ ~d.done /\ IsDraft(store[d.at])
         /\ \/ d.at = Len(store)
            \/ d.at + 1 = Len(store) /\ store[Len(store)] \in {Failure, Notice}
  /\ pc \in {"approve", "asking", "execute", "results"} =>
       \E d \in active : d.done /\ d.at = Len(store) /\ store[d.at] = Answer(calls)
  /\ pc = "end" => \A d \in active : d.done
  /\ pc # "off" /\ ~retried => \A i \in Live : \E d \in active : d.at = i /\ ~d.done

\* Calls are numbered by their turn, and belong to one message.
CallsFit(s, r) ==
  /\ \A i \in 1 .. Len(s) : \A c \in Range(s[i].calls) : c.turn <= r /\ s[i].state = "final"
  /\ \A i, j \in 1 .. Len(s) : Range(s[i].calls) \cap Range(s[j].calls) # {} => i = j
  /\ \A i \in 1 .. Len(s) : s[i].calls # <<>> => s[i].role = "assistant"

\* Every tool result has the call it answers before it, and is the only one that does.
ResultsFit(s) ==
  /\ \A i \in 1 .. Len(s) : s[i].role = "tool" <=> s[i].call # {}
  /\ \A j \in 1 .. Len(s) : s[j].role = "tool" =>
       /\ \E i \in 1 .. j - 1 : s[i].state = "final" /\ s[j].call \subseteq Range(s[i].calls)
       /\ \A k \in 1 .. Len(s) : s[k].call = s[j].call => k = j

\* The numbers of the turn's calls.
CallNumbers == \A k \in 1 .. Len(calls) : calls[k].at = k /\ calls[k].turn = rounds

NumbersOK ==
  /\ CallsFit(store, rounds) /\ ResultsFit(store)
  /\ CallNumbers
  /\ pc = "save" /\ calls # <<>> =>
       \A i \in 1 .. Len(store) : \A c \in Range(store[i].calls) : c.turn < rounds

\* What approval and execution hold are calls of the turn.
BatchOK ==
  /\ approved \subseteq Range(calls) /\ asking \subseteq Range(calls)
  /\ Range(results) \subseteq Range(calls)
  /\ \A i, j \in 1 .. Len(results) : results[i] = results[j] => i = j
  /\ pc \in {"off", "top", "prepare", "start", "stream", "abort", "save", "approve"} =>
       approved = {} /\ asking = {} /\ results = <<>>
  /\ pc \in {"off", "top", "prepare", "start", "stream", "abort"} => calls = <<>>
  /\ pc = "asking" => results = <<>>

Inv == TypeOK /\ DraftOK /\ NumbersOK /\ BatchOK

-----------------------------------------------------------------------------
(* Type correctness. *)

LEMMA MessageTypes ==
  /\ {User, Notice, Failure, Draft} \subseteq Message
  /\ \A cs \in Seq(Call) : Answer(cs) \in Message
  /\ \A c \in Call : Result(c) \in Message
  <1>1. <<>> \in Seq(Call) /\ {} \in SUBSET Call
    OBVIOUS
  <1>2. User \in Message
    BY <1>1 DEF User, Message, Roles
  <1>3. Notice \in Message /\ Failure \in Message /\ Draft \in Message
    BY <1>1 DEF User, Notice, Failure, Draft, Message, Roles
  <1>4. \A cs \in Seq(Call) : Answer(cs) \in Message
    BY <1>1 DEF User, Answer, Message, Roles
  <1>5. \A c \in Call : Result(c) \in Message
    BY <1>1 DEF User, Result, Message, Roles
  <1>6. QED
    BY <1>2, <1>3, <1>4, <1>5

LEMMA RecoveredType ==
  ASSUME NEW s \in Seq(Message)
  PROVE  /\ Recovered(s) \in Seq(Message) /\ Len(Recovered(s)) = Len(s)
         /\ \A i \in 1 .. Len(s) :
              Recovered(s)[i] = IF s[i].state = "live" THEN [s[i] EXCEPT !.state = "cut"] ELSE s[i]
  <1>1. \A i \in 1 .. Len(s) : s[i] \in Message
    OBVIOUS
  <1>2. \A i \in 1 .. Len(s) :
          (IF s[i].state = "live" THEN [s[i] EXCEPT !.state = "cut"] ELSE s[i]) \in Message
    BY <1>1 DEF Message
  <1>3. DOMAIN s = 1 .. Len(s) /\ Len(s) \in Nat
    OBVIOUS
  <1>4. Recovered(s) \in [1 .. Len(s) -> Message]
    BY <1>2, <1>3 DEF Recovered
  <1>5. QED
    BY <1>3, <1>4, SeqDef DEF Recovered

\* Sequences that are added to the store at once.
LEMMA PromptsType ==
  ASSUME NEW n \in Nat
  PROVE  [i \in 1 .. n |-> User] \in Seq(Message) /\ Len([i \in 1 .. n |-> User]) = n
  <1>1. [i \in 1 .. n |-> User] \in [1 .. n -> Message]
    BY MessageTypes
  <1>2. QED
    BY <1>1, SeqDef

LEMMA ResultsType ==
  ASSUME NEW rs \in Seq(Call)
  PROVE  /\ [i \in DOMAIN rs |-> Result(rs[i])] \in Seq(Message)
         /\ Len([i \in DOMAIN rs |-> Result(rs[i])]) = Len(rs)
  <1>1. [i \in DOMAIN rs |-> Result(rs[i])] \in [1 .. Len(rs) -> Message]
    BY MessageTypes
  <1>2. Len(rs) \in Nat
    OBVIOUS
  <1>3. QED
    BY <1>1, <1>2, SeqDef

LEMMA CallsType ==
  ASSUME NEW shape \in Shapes, NEW r \in Nat
  PROVE  /\ [i \in DOMAIN shape |-> [turn |-> r, at |-> i, kind |-> shape[i]]] \in Seq(Call)
         /\ Len([i \in DOMAIN shape |-> [turn |-> r, at |-> i, kind |-> shape[i]]]) = Len(shape)
         /\ Len(shape) \in Nat /\ DOMAIN shape = 1 .. Len(shape)
         /\ (shape = <<>>) = (Len(shape) = 0)
  <1>1. shape \in Seq(Kinds)
    BY ShapesAssumption
  <1>2. Len(shape) \in Nat /\ DOMAIN shape = 1 .. Len(shape) /\ (shape = <<>>) = (Len(shape) = 0)
        /\ \A i \in 1 .. Len(shape) : shape[i] \in Kinds
    BY <1>1
  <1>3. [i \in DOMAIN shape |-> [turn |-> r, at |-> i, kind |-> shape[i]]] \in [1 .. Len(shape) -> Call]
    BY <1>2 DEF Call
  <1>4. QED
    BY <1>2, <1>3, SeqDef

\* Every kind of change of the store.
LEMMA FinalizedType ==
  ASSUME NEW s \in Seq(Message), NEW i \in DOMAIN s
  PROVE  Finalized(s, i) \in Seq(Message)
  <1>1. s[i] \in Message /\ [s[i] EXCEPT !.state = "cut"] \in Message
    <2>1. s[i] \in Message
      OBVIOUS
    <2>2. QED
      BY <2>1 DEF Message
  <1>2. [s EXCEPT ![i].state = "cut"] \in Seq(Message)
    BY <1>1
  <1>3. SubSeq(s, 1, i - 1) \in Seq(Message) /\ SubSeq(s, i + 1, Len(s)) \in Seq(Message)
    OBVIOUS
  <1>4. Notice \in Message /\ <<Notice>> \in Seq(Message)
    BY MessageTypes
  <1>5. SubSeq(s, 1, i - 1) \o SubSeq(s, i + 1, Len(s)) \o <<Notice>> \in Seq(Message)
    BY <1>3, <1>4
  <1>6. QED
    BY <1>2, <1>4, <1>5 DEF Finalized

LEMMA UpdateType ==
  ASSUME NEW s \in Seq(Message), NEW i \in DOMAIN s
  PROVE  /\ [s EXCEPT ![i].state = "cut"] \in Seq(Message)
         /\ [s EXCEPT ![i].text = TRUE] \in Seq(Message)
         /\ \A cs \in Seq(Call) : [s EXCEPT ![i] = Answer(cs)] \in Seq(Message)
  <1>1. s[i] \in Message
    OBVIOUS
  <1>2. [s[i] EXCEPT !.state = "cut"] \in Message /\ [s[i] EXCEPT !.text = TRUE] \in Message
    BY <1>1 DEF Message
  <1>3. QED
    BY <1>2, MessageTypes

LEMMA TypeInit == Init => TypeOK
  <1> SUFFICES ASSUME Init PROVE TypeOK
    OBVIOUS
  <1>1. {fired, steered, retried} \subseteq BOOLEAN
    BY Zenon DEF Init
  <1>2. QED
    BY <1>1 DEF Init, TypeOK

LEMMA LeaveType ==
  ASSUME TypeOK, NEW n \in Nat, LeaveWith(n)
  PROVE  /\ pc' \in {"off", "top"} /\ calls' \in Seq(Call) /\ results' \in Seq(Call)
         /\ approved' \in SUBSET Call /\ asking' \in SUBSET Call
  BY DEF LeaveWith

LEMMA TypeStep == TypeOK /\ [Next]_vars => TypeOK'
  <1> SUFFICES ASSUME TypeOK, [Next]_vars PROVE TypeOK'
    OBVIOUS
  <1> USE DEF loopVars, waitVars, histVars, bounds
  <1>1. CASE Submit
    <2>1. store' \in Seq(Message)
      BY <1>1, RecoveredType, MessageTypes DEF Submit, TypeOK
    <2>2. {fired', steered', retried'} \subseteq BOOLEAN /\ active' = {}
      BY <1>1, Zenon DEF Submit
    <2>3. QED
      BY <1>1, <2>1, <2>2 DEF Submit, TypeOK
  <1>2. CASE Retry
    <2>1. store' \in Seq(Message)
      <3>1. PICK u \in DOMAIN store :
              store' = SubSeq(store, 1, u)
                \o Of(SubSeq(store, u + 1, Len(store)), {m \in Message : m.role # "failure"})
        BY <1>2 DEF Retry
      <3>2. SubSeq(store, 1, u) \in Seq(Message) /\ SubSeq(store, u + 1, Len(store)) \in Seq(Message)
        BY DEF TypeOK
      <3>3. Of(SubSeq(store, u + 1, Len(store)), {m \in Message : m.role # "failure"}) \in Seq(Message)
        BY <3>2, OfType
      <3>4. QED
        BY <3>1, <3>2, <3>3
    <2>2. QED
      BY <1>2, <2>1 DEF Retry, TypeOK
  <1>3. CASE SubmitBusy
    <2>1. steered' \in BOOLEAN
      BY <1>3, Zenon DEF SubmitBusy, TypeOK
    <2>2. QED
      BY <1>3, <2>1 DEF SubmitBusy, TypeOK
  <1>4. CASE Delta
    <2>1. store' \in Seq(Message) /\ Len(store') = Len(store)
      <3>1. PICK d \in active : store' = [store EXCEPT ![d.at].text = TRUE]
        BY <1>4 DEF Delta
      <3>2. d.at \in DOMAIN store /\ store \in Seq(Message)
        BY DEF TypeOK
      <3>3. store' \in Seq(Message)
        BY <3>1, <3>2, UpdateType
      <3>4. DOMAIN store' = DOMAIN store
        BY <3>1
      <3>5. QED
        BY <3>2, <3>3, <3>4
    <2>2. QED
      BY <1>4, <2>1 DEF Delta, TypeOK
  <1>5. CASE Respond
    <2>1. \A S : Of(calls, S) \in Seq(Call)
      BY OfType DEF TypeOK
    <2>2. QED
      BY <1>5, <2>1 DEF Respond, TypeOK
  <1>6. CASE Cancel
    BY <1>6 DEF Cancel, TypeOK
  <1>7. CASE Crash
    <2>1. {fired', steered', retried'} \subseteq BOOLEAN /\ active' = {}
      BY <1>7, Zenon DEF Crash
    <2>2. QED
      BY <1>7, <2>1 DEF Crash, TypeOK
  <1>8. CASE Top
    BY <1>8, LeaveType DEF Top, Leave, Go, TypeOK
  <1>9. CASE Prepare
    <2>1. PICK n \in 0 .. pending :
            /\ store' = store \o [i \in 1 .. n |-> User]
            /\ pending' = pending - n
            /\ \/ n = pending /\ Go("start") /\ UNCHANGED failures
               \/ Fail /\ LeaveWith(pending - n)
      BY <1>9 DEF Prepare
    <2>2. n \in Nat /\ pending - n \in Nat
      BY DEF TypeOK
    <2>3. store' \in Seq(Message) /\ Len(store') = Len(store) + n
      <3>1. PICK new : new = [i \in 1 .. n |-> User]
        OBVIOUS
      <3>2. new \in Seq(Message) /\ Len(new) = n
        BY <3>1, <2>2, PromptsType
      <3>3. QED
        BY <2>1, <3>1, <3>2 DEF TypeOK
    <2>4. DOMAIN store \subseteq DOMAIN store'
      BY <2>2, <2>3 DEF TypeOK
    <2>5. failures' \in Nat
      BY <2>1 DEF Fail, TypeOK
    <2>6. /\ pc' \in {"off", "top", "start"} /\ calls' \in Seq(Call) /\ results' \in Seq(Call)
          /\ approved' \in SUBSET Call /\ asking' \in SUBSET Call
      BY <2>1, <2>2, LeaveType DEF Go, TypeOK
    <2>7. QED
      BY <1>9, <2>1, <2>2, <2>3, <2>4, <2>5, <2>6 DEF Prepare, TypeOK
  <1>10. CASE Start
    <2>1. View \in Seq(Message) /\ Append(store, Draft) \in Seq(Message)
          /\ DOMAIN Append(store, Draft) = 1 .. Len(store) + 1
      BY OfType, MessageTypes DEF TypeOK, View
    <2>2. CASE active = {} /\ store' = Append(store, Draft) /\ UNCHANGED failures
               /\ active' = {[at |-> Len(store) + 1, done |-> FALSE]} /\ sent' = View /\ Go("stream")
      <3>1. active' \in SUBSET [at : DOMAIN store', done : BOOLEAN]
        BY <2>1, <2>2 DEF TypeOK
      <3>2. QED
        BY <1>10, <2>1, <2>2, <3>1 DEF Start, Go, TypeOK
    <2>3. CASE (Fail \/ UNCHANGED failures) /\ Leave /\ UNCHANGED <<store, active, sent>>
      BY <1>10, <2>3, LeaveType DEF Start, Leave, Fail, TypeOK
    <2>4. QED
      BY <1>10, <2>2, <2>3 DEF Start
  <1>11. CASE StreamDone
    <2>1. calls' \in Seq(Call)
      BY <1>11, CallsType DEF StreamDone, TypeOK
    <2>2. rounds' \in Nat
      BY <1>11 DEF StreamDone, TypeOK
    <2>3. QED
      BY <1>11, <2>1, <2>2 DEF StreamDone, TypeOK
  <1>12. CASE StreamFails
    <2>1. store' \in Seq(Message) /\ DOMAIN store \subseteq DOMAIN store'
      <3>1. store \in Seq(Message) /\ {Failure, Notice} \subseteq Message
        BY MessageTypes DEF TypeOK
      <3>2. store' \in {Append(store, Failure), Append(store, Notice), store}
        BY <1>12 DEF StreamFails
      <3>3. QED
        BY <3>1, <3>2
    <2>2. failures' \in Nat
      BY <1>12 DEF StreamFails, Fail, TypeOK
    <2>3. QED
      BY <1>12, <2>1, <2>2 DEF StreamFails, Go, TypeOK
  <1>13. CASE Abort
    <2>1. store' \in Seq(Message) /\ active' \in SUBSET [at : DOMAIN store', done : BOOLEAN]
      <3>1. CASE UNCHANGED <<store, active>>
        BY <3>1 DEF TypeOK
      <3>2. CASE /\ active' = {}
                 /\ \E d \in active : store' = IF fired THEN Finalized(store, d.at)
                                                ELSE [store EXCEPT ![d.at].state = "cut"]
        <4>1. PICK d \in active : store' = IF fired THEN Finalized(store, d.at)
                                           ELSE [store EXCEPT ![d.at].state = "cut"]
          BY <3>2
        <4>2. d.at \in DOMAIN store /\ store \in Seq(Message)
          BY DEF TypeOK
        <4>3. QED
          BY <3>2, <4>1, <4>2, FinalizedType, UpdateType
      <3>3. QED
        BY <1>13, <3>1, <3>2 DEF Abort
    <2>2. failures' \in Nat
      BY <1>13 DEF Abort, Fail, TypeOK
    <2>3. QED
      BY <1>13, <2>1, <2>2, LeaveType DEF Abort, Leave, TypeOK
  <1>14. CASE SaveAssistant
    <2>1. CASE Fail /\ Leave /\ UNCHANGED <<store, active>>
      BY <1>14, <2>1, LeaveType DEF SaveAssistant, Leave, Fail, TypeOK
    <2>2. CASE /\ \E d \in active : /\ store' = [store EXCEPT ![d.at] = Answer(calls)]
                                    /\ active' = {[d EXCEPT !.done = TRUE]}
               /\ Go(IF calls = <<>> THEN "end" ELSE "approve")
               /\ UNCHANGED failures
      <3>1. PICK d \in active : /\ store' = [store EXCEPT ![d.at] = Answer(calls)]
                                /\ active' = {[d EXCEPT !.done = TRUE]}
        BY <2>2
      <3>2. store' \in Seq(Message) /\ DOMAIN store' = DOMAIN store
        BY <3>1, UpdateType DEF TypeOK
      <3>3. active' \in SUBSET [at : DOMAIN store', done : BOOLEAN]
        BY <3>1, <3>2 DEF TypeOK
      <3>4. QED
        BY <1>14, <2>2, <3>2, <3>3 DEF SaveAssistant, Go, TypeOK
    <2>3. QED
      BY <1>14, <2>1, <2>2 DEF SaveAssistant
  <1>15. CASE Approve
    <2>1. Range(calls) \in SUBSET Call
      BY DEF Range, TypeOK
    <2>2. QED
      BY <1>15, <2>1 DEF Approve, TypeOK
  <1>16. CASE ApprovalCancelled
    BY <1>16 DEF ApprovalCancelled, TypeOK
  <1>17. CASE Execute
    <2>1. \A S : Of(calls, S) \in Seq(Call)
      BY OfType DEF TypeOK
    <2>2. CASE Fail /\ Leave /\ UNCHANGED lapsed
      BY <1>17, <2>2, LeaveType DEF Execute, Leave, Fail, TypeOK
    <2>3. CASE /\ results' \in Seq(Call) /\ pc' = "results" /\ UNCHANGED <<calls, approved, asking>>
               /\ lapsed' \in SUBSET Call /\ failures' \in Nat
      BY <1>17, <2>3 DEF Execute, TypeOK
    <2>4. ASSUME ~(Fail /\ Leave /\ UNCHANGED lapsed)
          PROVE  /\ results' \in Seq(Call) /\ pc' = "results" /\ UNCHANGED <<calls, approved, asking>>
                 /\ lapsed' \in SUBSET Call /\ failures' \in Nat
      <3>1. PICK lost \in SUBSET approved, gone \in SUBSET approved :
              /\ UNCHANGED failures \/ Fail
              /\ \E S : results' = Of(calls, S)
              /\ lapsed' = lapsed \cup lost \cup gone
              /\ pc' = "results" /\ UNCHANGED <<calls, approved, asking>>
        BY <1>17, <2>4 DEF Execute, OrderToolResults, Missable
      <3>2. results' \in Seq(Call) /\ failures' \in Nat
        BY <2>1, <3>1 DEF Fail, TypeOK
      <3>3. lapsed' \in SUBSET Call
        BY <3>1 DEF TypeOK
      <3>4. QED
        BY <3>1, <3>2, <3>3
    <2>5. QED
      BY <2>2, <2>3, <2>4
  <1>18. CASE SaveResults
    <2>1. store' \in Seq(Message) /\ DOMAIN store \subseteq DOMAIN store'
      <3>1. PICK new : new = [i \in DOMAIN results |-> Result(results[i])]
        OBVIOUS
      <3>2. new \in Seq(Message) /\ store \in Seq(Message)
        BY <3>1, ResultsType DEF TypeOK
      <3>3. store' \in {store \o new, store}
        BY <1>18, <3>1 DEF SaveResults
      <3>4. store \o new \in Seq(Message) /\ DOMAIN store \subseteq DOMAIN (store \o new)
        BY <3>2
      <3>5. QED
        BY <3>2, <3>3, <3>4
    <2>2. failures' \in Nat
      BY <1>18 DEF SaveResults, Fail, TypeOK
    <2>3. QED
      BY <1>18, <2>1, <2>2, LeaveType DEF SaveResults, Go, Leave, TypeOK
  <1>19. CASE EndTurn
    <2>1. store' \in Seq(Message) /\ active' \in SUBSET [at : DOMAIN store', done : BOOLEAN]
      <3>1. store \in Seq(Message) /\ Notice \in Message
        BY MessageTypes DEF TypeOK
      <3>2. /\ store' \in {Append(store, Notice), store}
            /\ active' = {} \/ UNCHANGED <<store, active>>
        BY <1>19 DEF EndTurn
      <3>3. Append(store, Notice) \in Seq(Message)
            /\ DOMAIN store \subseteq DOMAIN Append(store, Notice)
        BY <3>1
      <3>4. store' \in Seq(Message) /\ DOMAIN store \subseteq DOMAIN store'
        BY <3>1, <3>2, <3>3
      <3>5. QED
        BY <3>2, <3>4 DEF TypeOK
    <2>2. failures' \in Nat
      BY <1>19 DEF EndTurn, Fail, TypeOK
    <2>3. steered' \in BOOLEAN
      BY <1>19, Zenon DEF EndTurn, TypeOK
    <2>4. /\ pc' \in {"off", "top"} /\ calls' \in Seq(Call) /\ results' \in Seq(Call)
          /\ approved' \in SUBSET Call /\ asking' \in SUBSET Call
      <3>1. CASE GoesOn
        BY <3>1 DEF GoesOn
      <3>2. CASE LeaveWith(pending)
        BY <3>2, LeaveType DEF TypeOK
      <3>3. QED
        BY <1>19, <3>1, <3>2, Zenon DEF EndTurn, Leave
    <2>5. QED
      BY <1>19, <2>1, <2>2, <2>3, <2>4 DEF EndTurn, TypeOK
  <1>20. CASE UNCHANGED vars
    BY <1>20 DEF vars, TypeOK
  <1>21. QED
    BY <1>1, <1>2, <1>3, <1>4, <1>5, <1>6, <1>7, <1>8, <1>9, <1>10, <1>11, <1>12, <1>13,
       <1>14, <1>15, <1>16, <1>17, <1>18, <1>19, <1>20 DEF Next, LoopStep

-----------------------------------------------------------------------------
(* How a step changes the store. *)

LEMMA FinalizedKept ==
  ASSUME NEW s \in Seq(Message), NEW i \in 1 .. Len(s), s[i].text
  PROVE  /\ Len(Finalized(s, i)) = Len(s) + 1
         /\ Finalized(s, i)[Len(s) + 1] = Notice
         /\ Finalized(s, i)[i] = [s[i] EXCEPT !.state = "cut"]
         /\ \A k \in 1 .. Len(s) : k # i => Finalized(s, i)[k] = s[k]
  <1> DEFINE t == [s EXCEPT ![i].state = "cut"]
  <1>1. t \in Seq(Message) /\ Len(t) = Len(s)
    <2>1. DOMAIN t = DOMAIN s
      OBVIOUS
    <2>2. i \in DOMAIN s
      OBVIOUS
    <2>3. t \in Seq(Message)
      BY <2>2, UpdateType
    <2>4. QED
      BY <2>1, <2>3
  <1>2. t[i] = [s[i] EXCEPT !.state = "cut"] /\ \A k \in 1 .. Len(s) : k # i => t[k] = s[k]
    OBVIOUS
  <1>3. Finalized(s, i) = Append(t, Notice)
    BY DEF Finalized
  <1> HIDE DEF t
  <1>4. QED
    BY <1>1, <1>2, <1>3

LEMMA FinalizedDropped ==
  ASSUME NEW s \in Seq(Message), NEW i \in 1 .. Len(s), ~s[i].text
  PROVE  /\ Finalized(s, i) = SubSeq(s, 1, i - 1) \o SubSeq(s, i + 1, Len(s)) \o <<Notice>>
         /\ Len(Finalized(s, i)) = Len(s)
         /\ Finalized(s, i)[Len(s)] = Notice
         /\ \A k \in 1 .. Len(s) - 1 : Finalized(s, i)[k] = IF k < i THEN s[k] ELSE s[k + 1]
  <1> DEFINE a == SubSeq(s, 1, i - 1)
             b == SubSeq(s, i + 1, Len(s))
  <1>1. a \in Seq(Message) /\ Len(a) = i - 1 /\ \A k \in 1 .. i - 1 : a[k] = s[k]
    OBVIOUS
  <1>2. b \in Seq(Message) /\ Len(b) = Len(s) - i /\ \A k \in 1 .. Len(s) - i : b[k] = s[k + i]
    OBVIOUS
  <1>3. Finalized(s, i) = (a \o b) \o <<Notice>>
    BY DEF Finalized
  <1> HIDE DEF a, b
  <1>4. a \o b \in Seq(Message) /\ Len(a \o b) = Len(s) - 1
        /\ \A k \in 1 .. Len(s) - 1 : (a \o b)[k] = IF k <= i - 1 THEN a[k] ELSE b[k - (i - 1)]
    <2>1. a \o b \in Seq(Message) /\ Len(a \o b) = Len(a) + Len(b)
          /\ \A k \in 1 .. Len(a) + Len(b) : (a \o b)[k] = IF k <= Len(a) THEN a[k] ELSE b[k - Len(a)]
      BY <1>1, <1>2, ConcatProperties
    <2>2. Len(a) = i - 1 /\ Len(a) + Len(b) = Len(s) - 1
      BY <1>1, <1>2
    <2>3. QED
      BY <2>1, <2>2
  <1>5. \A k \in 1 .. Len(s) - 1 : (a \o b)[k] = IF k < i THEN s[k] ELSE s[k + 1]
    <2> SUFFICES ASSUME NEW k \in 1 .. Len(s) - 1
                 PROVE  (a \o b)[k] = IF k < i THEN s[k] ELSE s[k + 1]
      OBVIOUS
    <2>1. CASE k < i
      <3>1. k \in 1 .. i - 1
        BY <2>1
      <3>2. QED
        BY <3>1, <2>1, <1>1, <1>4
    <2>2. CASE ~(k < i)
      <3>1. PICK j : j = k - (i - 1)
        OBVIOUS
      <3>2. j \in 1 .. Len(s) - i /\ j + i = k + 1 /\ ~(k <= i - 1)
        BY <2>2, <3>1
      <3>3. QED
        BY <3>1, <3>2, <2>2, <1>2, <1>4
    <2>3. QED
      BY <2>1, <2>2
  <1>6. <<Notice>> \in Seq(Message)
    BY MessageTypes
  <1>7. Notice \in Message /\ Len(a \o b) \in Nat
    BY <1>4, MessageTypes
  <1>8. Finalized(s, i) = Append(a \o b, Notice)
    BY <1>3, <1>4, <1>7, AppendIsConcat
  <1>9. /\ Len(Finalized(s, i)) = Len(s)
        /\ Finalized(s, i)[Len(s)] = Notice
        /\ \A k \in 1 .. Len(s) - 1 : Finalized(s, i)[k] = (a \o b)[k]
    BY <1>8, <1>4, <1>7, AppendProperties
  <1>10. Finalized(s, i) = SubSeq(s, 1, i - 1) \o SubSeq(s, i + 1, Len(s)) \o <<Notice>>
    BY <1>3 DEF a, b
  <1>11. QED
    BY <1>9, <1>10, <1>5

-----------------------------------------------------------------------------
(* The draft. *)

LEMMA DraftStep == TypeOK /\ DraftOK /\ [Next]_vars => DraftOK'
  <1> SUFFICES ASSUME TypeOK, DraftOK, [Next]_vars PROVE DraftOK'
    OBVIOUS
  <1> USE DEF loopVars, waitVars, histVars, bounds
  <1>0. store \in Seq(Message) /\ Len(store) \in Nat /\ DOMAIN store = 1 .. Len(store)
        /\ \A d \in active : d.at \in DOMAIN store
    BY DEF TypeOK
  <1>1. CASE Submit
    <2>1. pc' = "top" /\ active' = {} /\ store' = Append(Recovered(store), User)
      BY <1>1 DEF Submit
    <2>2. Recovered(store) \in Seq(Message) /\ Len(Recovered(store)) = Len(store)
          /\ \A i \in 1 .. Len(store) : Recovered(store)[i].state # "live"
      <3>1. PICK r : r = Recovered(store)
        OBVIOUS
      <3>2. r \in Seq(Message) /\ Len(r) = Len(store)
            /\ \A i \in 1 .. Len(store) :
                 r[i] = IF store[i].state = "live" THEN [store[i] EXCEPT !.state = "cut"] ELSE store[i]
        BY <3>1, <1>0, RecoveredType
      <3>3. ASSUME NEW i \in 1 .. Len(store) PROVE r[i].state # "live"
        <4>1. store[i] \in Message
          BY <1>0
        <4>2. QED
          BY <4>1, <3>2 DEF Message
      <3>4. QED
        BY <3>1, <3>2, <3>3
    <2>3. User \in Message /\ User.state # "live"
      BY MessageTypes DEF User
    <2>4. Live' = {}
      BY <2>1, <2>2, <2>3 DEF Live
    <2>5. QED
      BY <2>1, <2>4 DEF DraftOK
  <1>2. CASE Retry
    <2>1. pc' = "top" /\ active' = {} /\ retried'
      BY <1>2 DEF Retry
    <2>2. QED
      BY <2>1 DEF DraftOK
  <1>3. CASE SubmitBusy
    BY <1>3 DEF SubmitBusy, DraftOK, Live
  <1>4. CASE Delta
    <2>1. PICK d \in active : store' = [store EXCEPT ![d.at].text = TRUE]
      BY <1>4 DEF Delta
    <2>2. pc = "stream" /\ UNCHANGED <<pc, active, calls, retried>>
      BY <1>4 DEF Delta
    <2>3. d.at \in DOMAIN store /\ Len(store') = Len(store) /\ DOMAIN store' = DOMAIN store
      BY <2>1, <1>0
    <2>4. \A i \in DOMAIN store : /\ store'[i].state = store[i].state
                                  /\ IsDraft(store[i]) => IsDraft(store'[i])
      BY <2>1, <1>0 DEF IsDraft, Message
    <2>5. QED
      BY <2>2, <2>3, <2>4, <1>0 DEF DraftOK, Live
  <1>5. CASE Respond
    BY <1>5 DEF Respond, DraftOK, Live
  <1>6. CASE Cancel
    BY <1>6 DEF Cancel, DraftOK, Live
  <1>7. CASE Crash
    BY <1>7 DEF Crash, DraftOK, Live
  <1>8. CASE Top
    BY <1>8 DEF Top, Leave, LeaveWith, Go, DraftOK, Live
  <1>9. CASE Prepare
    <2>1. PICK n \in 0 .. pending : store' = store \o [i \in 1 .. n |-> User]
      BY <1>9 DEF Prepare
    <2>2. pc' \in {"off", "top", "start"} /\ pc = "prepare" /\ UNCHANGED <<active, retried>>
      BY <1>9 DEF Prepare, Go, LeaveWith
    <2>3. PICK new : new = [i \in 1 .. n |-> User]
      OBVIOUS
    <2>4. n \in Nat /\ new \in Seq(Message) /\ Len(new) = n /\ \A i \in 1 .. n : new[i].state = "final"
      <3>1. n \in Nat
        BY DEF TypeOK
      <3>2. new \in Seq(Message) /\ Len(new) = n
        BY <2>3, <3>1, PromptsType
      <3>3. \A i \in 1 .. n : new[i].state = "final"
        BY <2>3 DEF User
      <3>4. QED
        BY <3>1, <3>2, <3>3
    <2>5. \A i \in DOMAIN store' : store'[i].state = "live" => i \in DOMAIN store /\ store'[i] = store[i]
      <3>1. store' = store \o new
        BY <2>1, <2>3
      <3>2. /\ store \o new \in Seq(Message) /\ DOMAIN (store \o new) = 1 .. Len(store) + n
            /\ \A i \in 1 .. Len(store) + n :
                 (store \o new)[i] = IF i <= Len(store) THEN store[i] ELSE new[i - Len(store)]
        <4>1. store \o new \in Seq(Message) /\ Len(store \o new) = Len(store) + n
              /\ \A i \in 1 .. Len(store) + n :
                 (store \o new)[i] = IF i <= Len(store) THEN store[i] ELSE new[i - Len(store)]
          BY <2>4, <1>0, ConcatProperties
        <4>2. QED
          BY <4>1
      <3>3. \A i \in 1 .. Len(store) + n : i > Len(store) => i - Len(store) \in 1 .. n
        BY <2>4, <1>0
      <3>4. QED
        BY <3>1, <3>2, <3>3, <2>4, <1>0
    <2>6. Live' \subseteq Live
      BY <2>5 DEF Live
    <2>7. QED
      BY <2>2, <2>6 DEF DraftOK
  <1>10. CASE Start
    <2>1. CASE active = {} /\ store' = Append(store, Draft) /\ Go("stream")
               /\ active' = {[at |-> Len(store) + 1, done |-> FALSE]}
      <3>1. Len(store') = Len(store) + 1 /\ store'[Len(store) + 1] = Draft
            /\ \A i \in 1 .. Len(store) : store'[i] = store[i]
        BY <2>1, <1>0, MessageTypes
      <3>2. IsDraft(Draft)
        BY DEF IsDraft, Draft, User
      <3>3. DOMAIN store' = 1 .. Len(store) + 1
        BY <2>1, <1>0, MessageTypes
      <3>4. ~retried => \A i \in Live' : i = Len(store) + 1
        <4>1. ~retried => \A i \in 1 .. Len(store) : store[i].state # "live"
          BY <1>10, <2>1, <1>0 DEF DraftOK, Live, Start
        <4>2. \A i \in DOMAIN store' : i # Len(store) + 1 => i \in 1 .. Len(store)
          BY <3>3, <1>0
        <4>3. QED
          BY <4>1, <4>2, <3>1 DEF Live
      <3>5. \E d \in active' : ~d.done /\ d.at = Len(store') /\ IsDraft(store'[d.at])
        BY <2>1, <3>1, <3>2
      <3>6. \A d \in active' : d.at = Len(store) + 1 /\ ~d.done
        BY <2>1
      <3>7. QED
        BY <1>10, <2>1, <3>4, <3>5, <3>6 DEF DraftOK, Start, Go
    <2>2. CASE Leave /\ UNCHANGED <<store, active>>
      BY <1>10, <2>2 DEF Start, Leave, LeaveWith, DraftOK, Live
    <2>3. QED
      BY <1>10, <2>1, <2>2 DEF Start
  <1>11. CASE StreamDone
    BY <1>11 DEF StreamDone, DraftOK, Live
  <1>12. CASE StreamFails
    <2>1. pc = "stream" /\ pc' = "abort" /\ UNCHANGED <<active, retried>>
      BY <1>12 DEF StreamFails, Go
    <2>2. \/ store' = store
          \/ \E m \in {Failure, Notice} : store' = Append(store, m)
      BY <1>12 DEF StreamFails
    <2>3. CASE store' = store
      BY <2>1, <2>3 DEF DraftOK, Live
    <2>4. ASSUME NEW m \in {Failure, Notice}, store' = Append(store, m) PROVE DraftOK'
      <3>1. m \in Message /\ m.state = "final"
        BY MessageTypes DEF Failure, Notice, User
      <3>2. /\ Len(store') = Len(store) + 1 /\ store'[Len(store) + 1] = m
            /\ DOMAIN store' = 1 .. Len(store) + 1
            /\ \A i \in 1 .. Len(store) : store'[i] = store[i]
        BY <2>4, <3>1, <1>0
      <3>3. Live' = Live
        BY <3>1, <3>2, <1>0 DEF Live
      <3>4. \E d \in active : ~d.done /\ d.at = Len(store) /\ IsDraft(store[d.at])
        BY <2>1 DEF DraftOK
      <3>5. \E d \in active' : /\ ~d.done /\ IsDraft(store'[d.at])
                               /\ d.at + 1 = Len(store') /\ store'[Len(store')] \in {Failure, Notice}
        BY <2>1, <2>4, <3>2, <3>4, <1>0
      <3>6. QED
        BY <2>1, <3>3, <3>5 DEF DraftOK
    <2>5. QED
      BY <2>2, <2>3, <2>4
  <1>13. CASE Abort
    <2>1. pc = "abort" /\ pc' \in {"off", "top"} /\ UNCHANGED retried
      BY <1>13 DEF Abort, Leave, LeaveWith
    <2>2. CASE UNCHANGED <<store, active>>
      BY <2>1, <2>2 DEF DraftOK, Live
    <2>3. CASE /\ active' = {}
               /\ \E d \in active : store' = IF fired THEN Finalized(store, d.at)
                                              ELSE [store EXCEPT ![d.at].state = "cut"]
      <3>1. PICK d \in active : store' = IF fired THEN Finalized(store, d.at)
                                         ELSE [store EXCEPT ![d.at].state = "cut"]
        BY <2>3
      <3>2. d.at \in 1 .. Len(store)
        BY <1>0
      <3>3. SUFFICES ASSUME ~retried PROVE Live' = {}
        BY <2>1, <2>3 DEF DraftOK
      <3>4. \A i \in 1 .. Len(store) : store[i].state = "live" => i = d.at
        BY <2>1, <3>3, <1>0 DEF DraftOK, Live
      <3>5. Notice.state = "final"
        BY DEF Notice, User
      <3>6. CASE ~fired
        BY <3>1, <3>2, <3>4, <3>6, <1>0 DEF Live, Message
      <3>7. CASE fired /\ store[d.at].text
        <4>1. PICK t : t = Finalized(store, d.at)
          OBVIOUS
        <4>2. /\ t \in Seq(Message) /\ Len(t) = Len(store) + 1 /\ t[Len(store) + 1] = Notice
              /\ t[d.at] = [store[d.at] EXCEPT !.state = "cut"]
              /\ \A k \in 1 .. Len(store) : k # d.at => t[k] = store[k]
          BY <4>1, <3>2, <3>7, <1>0, FinalizedKept, FinalizedType
        <4>3. t[d.at].state = "cut"
          BY <4>2, <3>2, <1>0 DEF Message
        <4>4. \A k \in 1 .. Len(store) + 1 : t[k].state # "live"
          <5>1. \A k \in 1 .. Len(store) + 1 : k \in 1 .. Len(store) \/ k = Len(store) + 1
            BY <1>0
          <5>2. \A k \in 1 .. Len(store) : k # d.at => t[k].state # "live"
            BY <4>2, <3>4
          <5>3. QED
            BY <5>1, <5>2, <4>2, <4>3, <3>5
        <4>5. QED
          BY <3>1, <3>7, <4>1, <4>2, <4>4 DEF Live
      <3>8. CASE fired /\ ~store[d.at].text
        <4>1. PICK t : t = Finalized(store, d.at)
          OBVIOUS
        <4>2. /\ t \in Seq(Message) /\ Len(t) = Len(store) /\ t[Len(store)] = Notice
              /\ \A k \in 1 .. Len(store) - 1 : t[k] = IF k < d.at THEN store[k] ELSE store[k + 1]
          BY <4>1, <3>2, <3>8, <1>0, FinalizedDropped, FinalizedType
        <4>3. \A k \in 1 .. Len(store) : t[k].state # "live"
          BY <4>2, <3>2, <3>4, <3>5, <1>0
        <4>4. QED
          BY <3>1, <3>8, <4>1, <4>2, <4>3 DEF Live
      <3>9. QED
        BY <3>6, <3>7, <3>8
    <2>4. QED
      BY <1>13, <2>2, <2>3 DEF Abort
  <1>14. CASE SaveAssistant
    <2>1. CASE Leave /\ UNCHANGED <<store, active>>
      BY <1>14, <2>1 DEF SaveAssistant, Leave, LeaveWith, DraftOK, Live
    <2>2. CASE /\ \E d \in active : /\ store' = [store EXCEPT ![d.at] = Answer(calls)]
                                    /\ active' = {[d EXCEPT !.done = TRUE]}
               /\ Go(IF calls = <<>> THEN "end" ELSE "approve")
      <3>1. PICK d \in active : /\ store' = [store EXCEPT ![d.at] = Answer(calls)]
                                /\ active' = {[d EXCEPT !.done = TRUE]}
        BY <2>2
      <3>2. pc = "save" /\ pc' \in {"end", "approve"} /\ UNCHANGED <<calls, retried>>
        BY <1>14, <2>2 DEF SaveAssistant, Go
      <3>3. d.at = Len(store) /\ d.at \in DOMAIN store
        BY <3>2, <1>0 DEF DraftOK
      <3>4. /\ Len(store') = Len(store) /\ DOMAIN store' = DOMAIN store
            /\ store'[d.at] = Answer(calls) /\ Answer(calls).state = "final"
            /\ \A i \in DOMAIN store : i # d.at => store'[i] = store[i]
        BY <3>1, <3>3, <1>0 DEF Answer, User
      <3>5. PICK a : a = [d EXCEPT !.done = TRUE]
        OBVIOUS
      <3>6. active' = {a} /\ a.done /\ a.at = d.at
        BY <3>1, <3>5 DEF TypeOK
      <3>7. ~retried => Live' = {}
        BY <3>2, <3>4, <1>0 DEF DraftOK, Live
      <3>8. QED
        BY <3>2, <3>3, <3>4, <3>6, <3>7 DEF DraftOK
    <2>3. QED
      BY <1>14, <2>1, <2>2 DEF SaveAssistant
  <1>15. CASE Approve
    BY <1>15 DEF Approve, DraftOK, Live
  <1>16. CASE ApprovalCancelled
    BY <1>16 DEF ApprovalCancelled, DraftOK, Live
  <1>17. CASE Execute
    BY <1>17 DEF Execute, Leave, LeaveWith, DraftOK, Live
  <1>18. CASE SaveResults
    <2>1. pc = "results" /\ pc' \in {"end", "off", "top"} /\ UNCHANGED <<active, retried>>
      BY <1>18 DEF SaveResults, Leave, LeaveWith, Go
    <2>2. PICK new : new = [i \in DOMAIN results |-> Result(results[i])]
      OBVIOUS
    <2>3. new \in Seq(Message) /\ \A i \in DOMAIN new : new[i].state = "final"
      BY <2>2, ResultsType DEF TypeOK, Result, User
    <2>4. store' \in {store, store \o new}
      BY <1>18, <2>2 DEF SaveResults
    <2>5. \A i \in DOMAIN (store \o new) : (store \o new)[i].state = "live" =>
            i \in DOMAIN store /\ (store \o new)[i] = store[i]
      BY <2>3, <1>0
    <2>6. Live' \subseteq Live
      BY <2>4, <2>5 DEF Live
    <2>7. QED
      BY <2>1, <2>6 DEF DraftOK
  <1>19. CASE EndTurn
    <2>1. pc = "end" /\ pc' \in {"off", "top"} /\ UNCHANGED retried
      BY <1>19 DEF EndTurn, Leave, LeaveWith, GoesOn
    <2>2. store' \in {store, Append(store, Notice)} /\ active' \in {{}, active}
      BY <1>19 DEF EndTurn
    <2>3. Notice \in Message /\ Notice.state = "final"
      BY MessageTypes DEF Notice, User
    <2>4. \A i \in DOMAIN Append(store, Notice) : Append(store, Notice)[i].state = "live" =>
            i \in DOMAIN store /\ Append(store, Notice)[i] = store[i]
      BY <2>3, <1>0
    <2>5. Live' \subseteq Live
      BY <2>2, <2>4 DEF Live
    <2>6. ~retried => Live = {}
      BY <2>1 DEF DraftOK
    <2>7. QED
      BY <2>1, <2>2, <2>5, <2>6 DEF DraftOK
  <1>20. CASE UNCHANGED vars
    BY <1>20 DEF vars, DraftOK, Live
  <1>21. QED
    BY <1>1, <1>2, <1>3, <1>4, <1>5, <1>6, <1>7, <1>8, <1>9, <1>10, <1>11, <1>12, <1>13,
       <1>14, <1>15, <1>16, <1>17, <1>18, <1>19, <1>20 DEF Next, LoopStep

LEMMA DraftInit == Init => DraftOK
  BY DEF Init, DraftOK

LEMMA DraftIsLive == TypeOK /\ DraftOK => OneLiveDraft
  BY DEF TypeOK, DraftOK, OneLiveDraft, IsDraft, Live

-----------------------------------------------------------------------------
(* Calls and results. *)

\* A message that holds the same calls and results; one that holds none.
Alike(m, n) ==
  /\ m.role = n.role /\ m.calls = n.calls /\ m.call = n.call
  /\ n.state = "final" => m.state = "final"
Plain(m) == m.role # "tool" /\ m.calls = <<>> /\ m.call = {}

\* t holds what s holds, in the same order: the k-th of t is the e[k]-th of s, or
\* new and plain.
Holds(t, s, e) ==
  /\ e \in [1 .. Len(t) -> 0 .. Len(s)]
  /\ \A k \in 1 .. Len(t) : IF e[k] = 0 THEN Plain(t[k]) ELSE Alike(t[k], s[e[k]])
  /\ \A i, j \in 1 .. Len(t) : i < j /\ e[i] # 0 /\ e[j] # 0 => e[i] < e[j]
  /\ \A i \in 1 .. Len(s) : Plain(s[i]) \/ \E k \in 1 .. Len(t) : e[k] = i

LEMMA HoldsCalls ==
  ASSUME NEW s \in Seq(Message), NEW t \in Seq(Message), NEW e, Holds(t, s, e), NEW r \in Nat,
         CallsFit(s, r)
  PROVE  CallsFit(t, r)
  <1>0. Range(<<>>) = {} /\ Len(s) \in Nat /\ Len(t) \in Nat
    BY DEF Range
  <1>1. ASSUME NEW i \in 1 .. Len(t), NEW c \in Range(t[i].calls)
        PROVE  e[i] \in 1 .. Len(s) /\ c \in Range(s[e[i]].calls) /\ Alike(t[i], s[e[i]])
    <2>1. e[i] # 0
      BY <1>1, <1>0 DEF Holds, Plain
    <2>2. e[i] \in 1 .. Len(s) /\ Alike(t[i], s[e[i]])
      BY <2>1, <1>0 DEF Holds
    <2>3. QED
      BY <2>2, <1>1 DEF Alike
  <1>2. \A i \in 1 .. Len(t) : \A c \in Range(t[i].calls) : c.turn <= r /\ t[i].state = "final"
    BY <1>1 DEF CallsFit, Alike
  <1>3. ASSUME NEW i \in 1 .. Len(t), NEW j \in 1 .. Len(t),
               Range(t[i].calls) \cap Range(t[j].calls) # {}
        PROVE  i = j
    <2>1. PICK c \in Range(t[i].calls) : c \in Range(t[j].calls)
      BY <1>3
    <2>2. e[i] \in 1 .. Len(s) /\ e[j] \in 1 .. Len(s) /\ e[i] = e[j]
      BY <2>1, <1>1 DEF CallsFit
    <2>3. QED
      BY <2>2, <1>0 DEF Holds
  <1>4. \A i \in 1 .. Len(t) : t[i].calls # <<>> => t[i].role = "assistant"
    <2> SUFFICES ASSUME NEW i \in 1 .. Len(t), t[i].calls # <<>> PROVE t[i].role = "assistant"
      OBVIOUS
    <2>1. e[i] \in 1 .. Len(s) /\ Alike(t[i], s[e[i]])
      BY <1>0 DEF Holds, Plain
    <2>2. QED
      BY <2>1 DEF Alike, CallsFit
  <1>5. QED
    BY <1>2, <1>3, <1>4 DEF CallsFit

LEMMA HoldsOlder ==
  ASSUME NEW s \in Seq(Message), NEW t \in Seq(Message), NEW e, Holds(t, s, e), NEW r \in Nat,
         \A i \in 1 .. Len(s) : \A c \in Range(s[i].calls) : c.turn < r
  PROVE  \A i \in 1 .. Len(t) : \A c \in Range(t[i].calls) : c.turn < r
  <1>0. Range(<<>>) = {} /\ Len(s) \in Nat
    BY DEF Range
  <1>1. QED
    BY <1>0 DEF Holds, Plain, Alike

LEMMA HoldsResults ==
  ASSUME NEW s \in Seq(Message), NEW t \in Seq(Message), NEW e, Holds(t, s, e), ResultsFit(s)
  PROVE  ResultsFit(t)
  <1>0. Range(<<>>) = {} /\ Len(s) \in Nat /\ Len(t) \in Nat
    BY DEF Range
  <1>1. \A i \in 1 .. Len(t) : t[i].role = "tool" <=> t[i].call # {}
    BY <1>0 DEF Holds, Plain, Alike, ResultsFit
  <1>2. ASSUME NEW j \in 1 .. Len(t), t[j].role = "tool"
        PROVE  /\ \E i \in 1 .. j - 1 : t[i].state = "final" /\ t[j].call \subseteq Range(t[i].calls)
               /\ \A k \in 1 .. Len(t) : t[k].call = t[j].call => k = j
    <2>1. e[j] \in 1 .. Len(s) /\ Alike(t[j], s[e[j]]) /\ t[j].call # {}
      BY <1>0, <1>1, <1>2 DEF Holds, Plain
    <2>2. s[e[j]].role = "tool" /\ s[e[j]].call = t[j].call
      BY <2>1, <1>2 DEF Alike
    <2>3. PICK h \in 1 .. e[j] - 1 : s[h].state = "final" /\ s[e[j]].call \subseteq Range(s[h].calls)
      BY <2>1, <2>2 DEF ResultsFit
    <2>4. h \in 1 .. Len(s) /\ ~Plain(s[h]) /\ h < e[j]
      BY <2>1, <2>2, <2>3, <1>0 DEF Plain
    <2>5. PICK i \in 1 .. Len(t) : e[i] = h
      BY <2>4 DEF Holds
    <2>6. Alike(t[i], s[h])
      BY <2>4, <2>5 DEF Holds
    <2>7. i < j
      <3>1. ~(j < i) /\ i # j
        BY <2>4, <2>5, <2>1, <1>0 DEF Holds
      <3>2. QED
        BY <3>1, <1>0
    <2>8. i \in 1 .. j - 1 /\ t[i].state = "final" /\ t[j].call \subseteq Range(t[i].calls)
      BY <2>2, <2>3, <2>6, <2>7 DEF Alike
    <2>9. ASSUME NEW k \in 1 .. Len(t), t[k].call = t[j].call PROVE k = j
      <3>1. e[k] \in 1 .. Len(s) /\ Alike(t[k], s[e[k]])
        <4>1. ~Plain(t[k])
          BY <2>1, <2>9 DEF Plain
        <4>2. e[k] # 0 /\ e[k] \in 0 .. Len(s)
          BY <4>1 DEF Holds
        <4>3. QED
          BY <4>1, <4>2, <1>0 DEF Holds
      <3>2. e[k] = e[j]
        BY <3>1, <2>1, <2>2, <2>9 DEF Alike, ResultsFit
      <3>3. QED
        BY <3>1, <3>2, <1>0 DEF Holds
    <2>10. QED
      BY <2>8, <2>9
  <1>3. QED
    BY <1>1, <1>2 DEF ResultsFit

\* The usual change: messages stay in their places, plain ones come behind them.
LEMMA HoldsInPlace ==
  ASSUME NEW s \in Seq(Message), NEW t \in Seq(Message), Len(s) <= Len(t),
         \A k \in 1 .. Len(s) : Alike(t[k], s[k]),
         \A k \in 1 .. Len(t) : k > Len(s) => Plain(t[k])
  PROVE  \E e : Holds(t, s, e)
  <1> DEFINE e == [k \in 1 .. Len(t) |-> IF k <= Len(s) THEN k ELSE 0]
  <1>1. Len(s) \in Nat /\ Len(t) \in Nat
    OBVIOUS
  <1>2. e \in [1 .. Len(t) -> 0 .. Len(s)]
    BY <1>1
  <1>3. \A k \in 1 .. Len(t) : e[k] = IF k <= Len(s) THEN k ELSE 0
    OBVIOUS
  <1> HIDE DEF e
  <1>4. Holds(t, s, e)
    BY <1>1, <1>2, <1>3 DEF Holds
  <1>5. QED
    BY <1>4

LEMMA HoldsWithout ==
  ASSUME NEW s \in Seq(Message), NEW t \in Seq(Message), NEW i \in 1 .. Len(s), Plain(s[i]),
         Len(t) = Len(s), Plain(t[Len(s)]),
         \A k \in 1 .. Len(s) - 1 : t[k] = IF k < i THEN s[k] ELSE s[k + 1]
  PROVE  \E e : Holds(t, s, e)
  <1> DEFINE e == [k \in 1 .. Len(t) |-> IF k = Len(s) THEN 0 ELSE IF k < i THEN k ELSE k + 1]
  <1>1. Len(s) \in Nat /\ i \in Nat
    OBVIOUS
  <1>2. e \in [1 .. Len(t) -> 0 .. Len(s)]
    BY <1>1
  <1>3. \A k \in 1 .. Len(s) : e[k] = IF k = Len(s) THEN 0 ELSE IF k < i THEN k ELSE k + 1
    OBVIOUS
  <1> HIDE DEF e
  <1>4. ASSUME NEW k \in 1 .. Len(t)
        PROVE  IF e[k] = 0 THEN Plain(t[k]) ELSE Alike(t[k], s[e[k]])
    <2>1. CASE k = Len(s)
      BY <2>1, <1>3
    <2>2. CASE k # Len(s)
      <3>1. k \in 1 .. Len(s) - 1 /\ e[k] = IF k < i THEN k ELSE k + 1
        BY <2>2, <1>1, <1>3
      <3>2. t[k] = s[e[k]] /\ e[k] # 0
        BY <3>1, <1>1
      <3>3. QED
        BY <3>2 DEF Alike
    <2>3. QED
      BY <2>1, <2>2
  <1>5. ASSUME NEW j \in 1 .. Len(t), NEW k \in 1 .. Len(t), j < k, e[j] # 0, e[k] # 0
        PROVE  e[j] < e[k]
    BY <1>5, <1>3, <1>1
  <1>6. ASSUME NEW j \in 1 .. Len(s), j # i PROVE \E k \in 1 .. Len(t) : e[k] = j
    <2>1. CASE j < i
      BY <2>1, <1>3, <1>1
    <2>2. CASE j > i
      <3>1. j - 1 \in 1 .. Len(t) /\ e[j - 1] = j
        BY <2>2, <1>3, <1>1
      <3>2. QED
        BY <3>1
    <2>3. QED
      BY <2>1, <2>2, <1>6, <1>1
  <1>7. Holds(t, s, e)
    BY <1>2, <1>4, <1>5, <1>6 DEF Holds
  <1>8. QED
    BY <1>7

\* t is what a retry of the prompt u makes of s.
Retried(t, s, u) ==
  t = SubSeq(s, 1, u) \o Of(SubSeq(s, u + 1, Len(s)), {m \in Message : m.role # "failure"})

LEMMA HoldsTried ==
  ASSUME NEW s \in Seq(Message), NEW u \in 1 .. Len(s), NEW t, Retried(t, s, u),
         \A i \in 1 .. Len(s) : s[i].role = "failure" => Plain(s[i])
  PROVE  \E e : Holds(t, s, e)
  <1> DEFINE S == {m \in Message : m.role # "failure"}
             a == SubSeq(s, 1, u)
             b == SubSeq(s, u + 1, Len(s))
             o == Of(b, S)
  <1>1. Len(s) \in Nat /\ u \in Nat /\ \A i \in 1 .. Len(s) : s[i] \in Message
    OBVIOUS
  <1>2. a \in Seq(Message) /\ Len(a) = u /\ \A k \in 1 .. u : a[k] = s[k]
    OBVIOUS
  <1>3. b \in Seq(Message) /\ Len(b) = Len(s) - u /\ DOMAIN b = 1 .. Len(s) - u
        /\ \A k \in 1 .. Len(s) - u : b[k] = s[k + u]
    OBVIOUS
  <1>4. o \in Seq(Message) /\ Len(o) \in Nat /\ DOMAIN o = 1 .. Len(o)
    <2>1. o \in Seq(Message)
      BY <1>3, OfType
    <2> HIDE DEF o
    <2>2. QED
      BY <2>1
  <1>5. PICK f : Picks(f, b, S)
    BY <1>3, OfPicks
  <1>6. t = a \o o
    BY DEF Retried
  <1>7. /\ t \in Seq(Message) /\ Len(t) = u + Len(o)
        /\ \A k \in 1 .. u + Len(o) : t[k] = IF k <= u THEN a[k] ELSE o[k - u]
    BY <1>2, <1>4, <1>6, ConcatProperties
  <1> HIDE DEF a, o, b
  <1>8. /\ f \in [1 .. Len(o) -> 1 .. Len(s) - u]
        /\ \A i, j \in 1 .. Len(o) : i < j => f[i] < f[j]
        /\ \A i \in 1 .. Len(o) : o[i] = b[f[i]]
        /\ \A k \in 1 .. Len(s) - u : b[k] \in S => \E i \in 1 .. Len(o) : f[i] = k
    BY <1>5, <1>3, <1>4 DEF Picks, o
  <1>0. Len(s) \in Nat /\ u \in Nat /\ u <= Len(s) /\ Len(o) \in Nat /\ Len(t) = u + Len(o)
    BY <1>1, <1>4, <1>7
  <1> HIDE DEF S
  <1> DEFINE e == [k \in 1 .. Len(t) |-> IF k <= u THEN k ELSE f[k - u] + u]
  <1>9. ASSUME NEW k \in 1 .. Len(t), k > u
        PROVE  k - u \in 1 .. Len(o) /\ f[k - u] \in 1 .. Len(s) - u
    <2>1. k - u \in 1 .. Len(o)
      BY <1>9, <1>7, <1>1, <1>4
    <2>2. QED
      BY <2>1, <1>8
  <1>10. \A k \in 1 .. Len(t) : e[k] = IF k <= u THEN k ELSE f[k - u] + u
    OBVIOUS
  <1>11. e \in [1 .. Len(t) -> 1 .. Len(s)]
    <2>1. ASSUME NEW k \in 1 .. Len(t) PROVE (IF k <= u THEN k ELSE f[k - u] + u) \in 1 .. Len(s)
      BY <1>9, <1>1
    <2>2. QED
      BY <2>1
  <1> HIDE DEF e
  <1>12. ASSUME NEW k \in 1 .. Len(t) PROVE t[k] = s[e[k]]
    <2>1. CASE k <= u
      <3>1. k \in 1 .. u + Len(o) /\ k \in 1 .. u
        BY <2>1, <1>0
      <3>2. e[k] = k
        BY <2>1, <1>10
      <3>3. t[k] = a[k] /\ a[k] = s[k]
        BY <3>1, <2>1, <1>2, <1>7
      <3>4. QED
        BY <3>2, <3>3
    <2>2. CASE k > u
      <3>1. PICK j \in 1 .. Len(o) : j = k - u
        BY <2>2, <1>9
      <3>2. PICK h \in 1 .. Len(s) - u : h = f[j]
        BY <1>8
      <3>3. t[k] = o[j] /\ o[j] = b[h] /\ b[h] = s[h + u] /\ e[k] = h + u
        <4>1. k \in 1 .. u + Len(o) /\ ~(k <= u)
          BY <2>2, <1>0
        <4>2. t[k] = o[j]
          BY <4>1, <3>1, <1>7
        <4>3. e[k] = h + u
          BY <4>1, <3>1, <3>2, <1>10
        <4>4. QED
          BY <4>2, <4>3, <3>2, <1>8, <1>3
      <3>4. QED
        BY <3>3
    <2>3. QED
      BY <2>1, <2>2, <1>1
  <1>13. ASSUME NEW i \in 1 .. Len(t), NEW j \in 1 .. Len(t), i < j PROVE e[i] < e[j]
    <2>1. CASE j <= u
      BY <2>1, <1>13, <1>10, <1>1
    <2>2. CASE j > u /\ i <= u
      <3>1. j - u \in 1 .. Len(o) /\ f[j - u] \in 1 .. Len(s) - u /\ e[j] = f[j - u] + u
        BY <2>2, <1>9, <1>10, <1>0
      <3>2. e[i] = i
        BY <2>2, <1>10
      <3>3. QED
        BY <3>1, <3>2, <2>2, <1>0
    <2>3. CASE i > u
      <3>1. PICK x \in 1 .. Len(o) : x = i - u
        BY <2>3, <1>9
      <3>2. PICK y \in 1 .. Len(o) : y = j - u
        BY <2>3, <1>13, <1>9, <1>1
      <3>3. f[x] < f[y] /\ f[x] \in Int /\ f[y] \in Int
        <4>1. x < y
          BY <3>1, <3>2, <1>13, <1>0
        <4>2. QED
          BY <4>1, <1>8, <1>0
      <3>4. e[i] = f[x] + u /\ e[j] = f[y] + u
        <4>1. ~(i <= u) /\ ~(j <= u)
          BY <2>3, <1>13, <1>0
        <4>2. QED
          BY <4>1, <3>1, <3>2, <1>10
      <3>5. QED
        BY <3>3, <3>4, <1>1
    <2>4. QED
      BY <2>1, <2>2, <2>3, <1>1
  <1>14. ASSUME NEW i \in 1 .. Len(s), ~Plain(s[i]) PROVE \E k \in 1 .. Len(t) : e[k] = i
    <2>1. CASE i <= u
      <3>1. i \in 1 .. Len(t) /\ e[i] = i
        BY <2>1, <1>0, <1>10
      <3>2. QED
        BY <3>1
    <2>2. CASE i > u
      <3>1. PICK h \in 1 .. Len(s) - u : h = i - u
        BY <2>2, <1>1
      <3>2. b[h] = s[i]
        BY <3>1, <1>3, <1>1
      <3>3. b[h] \in S
        BY <3>2, <1>14, <1>1 DEF S
      <3>4. PICK j \in 1 .. Len(o) : f[j] = h
        BY <3>3, <1>8
      <3>5. PICK k \in 1 .. Len(t) : k = j + u
        BY <1>0
      <3>6. e[k] = i
        <4>1. ~(k <= u) /\ k - u = j
          BY <3>5, <1>0
        <4>2. QED
          BY <4>1, <3>1, <3>4, <1>10, <1>0
      <3>7. QED
        BY <3>6
    <2>3. QED
      BY <2>1, <2>2, <1>0
  <1>15. ASSUME NEW k \in 1 .. Len(t) PROVE e[k] # 0 /\ Alike(t[k], s[e[k]])
    <2>1. e[k] \in 1 .. Len(s)
      BY <1>11
    <2>2. QED
      BY <2>1, <1>0, <1>12 DEF Alike
  <1>16. e \in [1 .. Len(t) -> 0 .. Len(s)]
    BY <1>11, <1>1
  <1>17. Holds(t, s, e)
    BY <1>13, <1>14, <1>15, <1>16 DEF Holds
  <1>18. QED
    BY <1>17

LEMMA HoldsAppend ==
  ASSUME NEW s \in Seq(Message), NEW m \in Message, Plain(m)
  PROVE  \E e : Holds(Append(s, m), s, e)
  <1> DEFINE t == Append(s, m)
  <1>1. t \in Seq(Message) /\ Len(t) = Len(s) + 1 /\ t[Len(s) + 1] = m
        /\ \A k \in 1 .. Len(s) : t[k] = s[k]
    OBVIOUS
  <1> HIDE DEF t
  <1>2. \A k \in 1 .. Len(s) : Alike(t[k], s[k])
    BY <1>1 DEF Alike
  <1>3. \A k \in 1 .. Len(t) : k > Len(s) => Plain(t[k])
    <2>1. \A k \in 1 .. Len(t) : k > Len(s) => k = Len(s) + 1
      BY <1>1
    <2>2. QED
      BY <2>1, <1>1
  <1>4. \E e : Holds(t, s, e)
    BY <1>1, <1>2, <1>3, HoldsInPlace
  <1>5. QED
    BY <1>4 DEF t

LEMMA HoldsItself == ASSUME NEW s \in Seq(Message) PROVE \E e : Holds(s, s, e)
  <1>1. \A k \in 1 .. Len(s) : Alike(s[k], s[k])
    BY DEF Alike
  <1>2. QED
    BY <1>1, HoldsInPlace

LEMMA PlainMessages == \A m \in {User, Notice, Failure, Draft} : Plain(m)
  <1>1. Plain(User)
    BY DEF Plain, User
  <1>2. Plain(Notice) /\ Plain(Failure) /\ Plain(Draft)
    BY DEF Plain, User, Notice, Failure, Draft
  <1>3. QED
    BY <1>1, <1>2

LEMMA HoldsUpdate ==
  ASSUME NEW s \in Seq(Message), NEW i \in 1 .. Len(s), NEW m \in Message, Alike(m, s[i])
  PROVE  \E e : Holds([s EXCEPT ![i] = m], s, e)
  <1> DEFINE t == [s EXCEPT ![i] = m]
  <1>1. t \in Seq(Message) /\ DOMAIN t = DOMAIN s /\ Len(t) = Len(s)
        /\ \A k \in 1 .. Len(s) : t[k] = IF k = i THEN m ELSE s[k]
    OBVIOUS
  <1> HIDE DEF t
  <1>2. \A k \in 1 .. Len(s) : Alike(t[k], s[k])
    BY <1>1 DEF Alike
  <1>3. \A k \in 1 .. Len(t) : ~(k > Len(s))
    BY <1>1
  <1>4. \E e : Holds(t, s, e)
    BY <1>1, <1>2, <1>3, HoldsInPlace
  <1>5. QED
    BY <1>4 DEF t

\* Only the two steps that save messages add calls or results.
Saves == (pc = "save" \/ pc = "results") /\ store' # store

LEMMA StoreHolds ==
  ASSUME TypeOK, TypeOK', DraftOK, CallsFit(store, rounds), ResultsFit(store), [Next]_vars, ~Saves
  PROVE  \E e : Holds(store', store, e)
  <1> USE DEF loopVars, waitVars, histVars, bounds
  <1>0. store \in Seq(Message) /\ store' \in Seq(Message) /\ Len(store) \in Nat
        /\ DOMAIN store = 1 .. Len(store)
        /\ (\A d \in active : d.at \in 1 .. Len(store)) /\ \A i \in 1 .. Len(store) : store[i] \in Message
    BY DEF TypeOK
  <1>1. CASE Submit
    <2>1. PICK r : r = Recovered(store)
      OBVIOUS
    <2>2. r \in Seq(Message) /\ Len(r) = Len(store)
          /\ \A i \in 1 .. Len(store) :
               r[i] = IF store[i].state = "live" THEN [store[i] EXCEPT !.state = "cut"] ELSE store[i]
      BY <2>1, <1>0, RecoveredType
    <2>3. store' = Append(r, User) /\ User \in Message
      BY <1>1, <2>1, MessageTypes DEF Submit
    <2>4. ASSUME NEW k \in 1 .. Len(store) PROVE Alike(r[k], store[k])
      BY <2>2, <1>0 DEF Alike, Message
    <2>5. Len(store') = Len(store) + 1 /\ store'[Len(store) + 1] = User
          /\ \A k \in 1 .. Len(store) : store'[k] = r[k]
      BY <2>2, <2>3
    <2>6. \A k \in 1 .. Len(store') : k > Len(store) => Plain(store'[k])
      <3>1. \A k \in 1 .. Len(store') : k > Len(store) => k = Len(store) + 1
        BY <2>5, <1>0
      <3>2. QED
        BY <3>1, <2>5, PlainMessages
    <2>7. Len(store) <= Len(store')
      BY <2>5, <1>0
    <2>8. \A k \in 1 .. Len(store) : Alike(store'[k], store[k])
      BY <2>4, <2>5
    <2>9. QED
      BY <1>0, <2>6, <2>7, <2>8, HoldsInPlace
  <1>2. CASE Retry
    <2>1. PICK u \in 1 .. Len(store) : Retried(store', store, u)
      BY <1>2, <1>0 DEF Retry, Retried
    <2>2. \A i \in 1 .. Len(store) : store[i].role = "failure" => Plain(store[i])
      BY DEF CallsFit, ResultsFit, Plain
    <2>3. QED
      BY <2>1, <2>2, <1>0, HoldsTried
  <1>3. CASE Delta
    <2>1. PICK d \in active : store' = [store EXCEPT ![d.at].text = TRUE]
      BY <1>3 DEF Delta
    <2>2. PICK m : m = [store[d.at] EXCEPT !.text = TRUE]
      OBVIOUS
    <2>3. m \in Message /\ Alike(m, store[d.at])
      BY <2>2, <1>0 DEF Alike, Message
    <2>4. store' = [store EXCEPT ![d.at] = m]
      BY <2>1, <2>2
    <2>5. QED
      BY <2>3, <2>4, <1>0, HoldsUpdate
  <1>4. CASE Prepare
    <2>1. PICK n \in 0 .. pending : store' = store \o [i \in 1 .. n |-> User]
      BY <1>4 DEF Prepare
    <2>2. PICK new : new = [i \in 1 .. n |-> User]
      OBVIOUS
    <2>3. n \in Nat
      BY DEF TypeOK
    <2>4. new \in Seq(Message) /\ Len(new) = n /\ \A i \in 1 .. n : new[i] = User
      BY <2>2, <2>3, PromptsType
    <2>5. Len(store \o new) = Len(store) + n
          /\ \A i \in 1 .. Len(store) + n :
               (store \o new)[i] = IF i <= Len(store) THEN store[i] ELSE new[i - Len(store)]
      BY <2>4, <1>0, ConcatProperties
    <2>6. Len(store') = Len(store) + n
          /\ \A i \in 1 .. Len(store) + n :
               store'[i] = IF i <= Len(store) THEN store[i] ELSE new[i - Len(store)]
      BY <2>1, <2>2, <2>5
    <2>7. Len(store) <= Len(store')
      BY <2>3, <2>6, <1>0
    <2>8. \A k \in 1 .. Len(store) : Alike(store'[k], store[k])
      <3>1. \A k \in 1 .. Len(store) : store'[k] = store[k]
        BY <2>3, <2>6, <1>0
      <3>2. QED
        BY <3>1 DEF Alike
    <2>9. \A k \in 1 .. Len(store') : k > Len(store) => Plain(store'[k])
      <3>1. \A k \in 1 .. Len(store') : k > Len(store) => k - Len(store) \in 1 .. n /\ ~(k <= Len(store))
        BY <2>3, <2>6, <1>0
      <3>2. QED
        BY <3>1, <2>4, <2>6, PlainMessages
    <2>10. QED
      BY <1>0, <2>7, <2>8, <2>9, HoldsInPlace
  <1>5. CASE \E m \in {Notice, Failure, Draft} : store' = Append(store, m)
    BY <1>5, <1>0, MessageTypes, PlainMessages, HoldsAppend
  <1>6. CASE store' = store
    BY <1>6, <1>0, HoldsItself
  <1>7. CASE Abort /\ store' # store
    <2>1. pc = "abort"
      BY <1>7 DEF Abort
    <2>2. PICK d \in active : store' = IF fired THEN Finalized(store, d.at)
                                       ELSE [store EXCEPT ![d.at].state = "cut"]
      BY <1>7 DEF Abort
    <2>3. d.at \in 1 .. Len(store) /\ store[d.at] \in Message /\ IsDraft(store[d.at])
      BY <2>1, <1>0 DEF DraftOK
    <2>4. PICK m : m = [store[d.at] EXCEPT !.state = "cut"]
      OBVIOUS
    <2>5. m \in Message /\ Alike(m, store[d.at])
      BY <2>3, <2>4 DEF Alike, Message, IsDraft
    <2>6. CASE ~fired
      <3>1. store' = [store EXCEPT ![d.at] = m]
        BY <2>2, <2>4, <2>6
      <3>2. QED
        BY <3>1, <2>3, <2>5, <1>0, HoldsUpdate
    <2>7. CASE fired /\ store[d.at].text
      <3>1. /\ Len(store') = Len(store) + 1 /\ store'[Len(store) + 1] = Notice
            /\ store'[d.at] = m
            /\ \A k \in 1 .. Len(store) : k # d.at => store'[k] = store[k]
        <4>1. store' = Finalized(store, d.at)
          BY <2>2, <2>7
        <4>2. QED
          BY <4>1, <2>3, <2>4, <2>7, <1>0, FinalizedKept
      <3>2. \A k \in 1 .. Len(store) : Alike(store'[k], store[k])
        BY <3>1, <2>5 DEF Alike
      <3>3. Len(store) <= Len(store') /\ \A k \in 1 .. Len(store') : k > Len(store) => Plain(store'[k])
        <4>1. \A k \in 1 .. Len(store') : k > Len(store) => k = Len(store) + 1
          BY <3>1, <1>0
        <4>2. QED
          BY <4>1, <3>1, <1>0, PlainMessages
      <3>4. QED
        BY <1>0, <3>2, <3>3, HoldsInPlace
    <2>8. CASE fired /\ ~store[d.at].text
      <3>1. /\ Len(store') = Len(store) /\ store'[Len(store)] = Notice
            /\ \A k \in 1 .. Len(store) - 1 :
                 store'[k] = IF k < d.at THEN store[k] ELSE store[k + 1]
        <4>1. store' = Finalized(store, d.at)
          BY <2>2, <2>8
        <4>2. QED
          BY <4>1, <2>3, <2>8, <1>0, FinalizedDropped
      <3>2. Plain(store[d.at]) /\ Plain(store'[Len(store)])
        BY <2>3, <3>1, PlainMessages DEF Plain, IsDraft
      <3>3. QED
        BY <1>0, <2>3, <3>1, <3>2, HoldsWithout
    <2>9. QED
      BY <2>6, <2>7, <2>8
  <1>8. CASE Start
    BY <1>8, <1>5, <1>6 DEF Start
  <1>9. CASE StreamFails
    BY <1>9, <1>5, <1>6 DEF StreamFails
  <1>10. CASE EndTurn
    BY <1>10, <1>5, <1>6 DEF EndTurn
  <1>11. CASE SaveAssistant
    BY <1>11, <1>6 DEF SaveAssistant, Saves
  <1>12. CASE SaveResults
    BY <1>12, <1>6 DEF SaveResults, Saves
  <1>13. CASE SubmitBusy \/ Respond \/ Cancel \/ Crash \/ Top \/ StreamDone \/ Approve
              \/ ApprovalCancelled \/ Execute \/ UNCHANGED vars
    <2>1. store' = store
      BY <1>13 DEF SubmitBusy, Respond, Cancel, Crash, Top, StreamDone, Approve, ApprovalCancelled,
                   Execute, vars
    <2>2. QED
      BY <2>1, <1>6
  <1>14. QED
    BY <1>1, <1>2, <1>3, <1>4, <1>6, <1>7, <1>8, <1>9, <1>10, <1>11, <1>12, <1>13 DEF Next, LoopStep

LEMMA RangeFacts ==
  ASSUME NEW X, NEW s \in Seq(X)
  PROVE  /\ Range(<<>>) = {}
         /\ \A i \in 1 .. Len(s) : s[i] \in Range(s)
         /\ \A x \in Range(s) : \E i \in 1 .. Len(s) : s[i] = x
  BY DEF Range

LEMMA SavedAnswer ==
  ASSUME TypeOK, DraftOK, NumbersOK, pc = "save", NEW d \in active,
         store' = [store EXCEPT ![d.at] = Answer(calls)]
  PROVE  CallsFit(store', rounds) /\ ResultsFit(store')
  <1>0. store \in Seq(Message) /\ Len(store) \in Nat /\ d.at = Len(store) /\ d.at \in 1 .. Len(store)
        /\ IsDraft(store[d.at])
    BY DEF TypeOK, DraftOK
  <1>1. PICK n : n = Len(store)
    OBVIOUS
  <1>2. PICK a : a = Answer(calls)
    OBVIOUS
  <1>3. a.role = "assistant" /\ a.state = "final" /\ a.calls = calls /\ a.call = {}
    BY <1>2 DEF Answer, User
  <1>4. n \in Nat /\ n \in 1 .. n /\ Len(store') = n /\ store'[n] = a /\ \A i \in 1 .. n : i # n => store'[i] = store[i]
    BY <1>0, <1>1, <1>2
  <1>5. store[n].calls = <<>> /\ store[n].role = "assistant" /\ store[n].call = {}
    BY <1>0, <1>1 DEF IsDraft
  <1>6. CallsFit(store, rounds) /\ ResultsFit(store) /\ n = Len(store)
        /\ (\A k \in 1 .. Len(calls) : calls[k].turn = rounds) /\ calls \in Seq(Call) /\ rounds \in Nat
        /\ (calls # <<>> => \A i \in 1 .. n : \A c \in Range(store[i].calls) : c.turn < rounds)
    BY <1>1 DEF NumbersOK, CallNumbers, TypeOK
  <1>7. \A c \in Range(calls) : c.turn = rounds /\ calls # <<>>
    BY <1>6, RangeFacts
  <1>8. \A i \in 1 .. n : i # n => \A c \in Range(store[i].calls) : c \notin Range(calls)
    <2> SUFFICES ASSUME NEW i \in 1 .. n, NEW c \in Range(store[i].calls), c \in Range(calls)
                 PROVE  FALSE
      OBVIOUS
    <2>1. c.turn = rounds /\ c.turn < rounds
      BY <1>6, <1>7
    <2>2. QED
      BY <2>1, <1>6
  <1>9. CallsFit(store', rounds)
    <2>1. \A i \in 1 .. n : \A c \in Range(store'[i].calls) : c.turn <= rounds /\ store'[i].state = "final"
      <3> SUFFICES ASSUME NEW i \in 1 .. n, NEW c \in Range(store'[i].calls)
                   PROVE  c.turn <= rounds /\ store'[i].state = "final"
        OBVIOUS
      <3>1. CASE i = n
        BY <3>1, <1>3, <1>4, <1>6, <1>7
      <3>2. CASE i # n
        BY <3>2, <1>4, <1>6 DEF CallsFit
      <3>3. QED
        BY <3>1, <3>2
    <2>2. ASSUME NEW i \in 1 .. n, NEW j \in 1 .. n,
                 Range(store'[i].calls) \cap Range(store'[j].calls) # {}
          PROVE  i = j
      <3>1. CASE i # n /\ j # n
        BY <3>1, <2>2, <1>4, <1>6 DEF CallsFit
      <3>2. CASE i = n /\ j # n
        BY <3>2, <2>2, <1>3, <1>4, <1>8
      <3>3. CASE i # n /\ j = n
        BY <3>3, <2>2, <1>3, <1>4, <1>8
      <3>4. QED
        BY <3>1, <3>2, <3>3
    <2>3. \A i \in 1 .. n : store'[i].calls # <<>> => store'[i].role = "assistant"
      BY <1>3, <1>4, <1>6 DEF CallsFit
    <2>4. QED
      BY <2>1, <2>2, <2>3, <1>4 DEF CallsFit
  <1>10. ResultsFit(store')
    <2>1. \A i \in 1 .. n : store'[i].role = "tool" <=> store'[i].call # {}
      BY <1>3, <1>4, <1>6 DEF ResultsFit
    <2>2. ASSUME NEW j \in 1 .. n, store'[j].role = "tool"
          PROVE  /\ \E i \in 1 .. j - 1 : store'[i].state = "final"
                                         /\ store'[j].call \subseteq Range(store'[i].calls)
                 /\ \A k \in 1 .. n : store'[k].call = store'[j].call => k = j
      <3>1. j # n /\ store'[j] = store[j] /\ store[j].role = "tool" /\ store[j].call # {}
        BY <2>2, <1>3, <1>4, <1>6 DEF ResultsFit
      <3>2. PICK i \in 1 .. j - 1 : store[i].state = "final" /\ store[j].call \subseteq Range(store[i].calls)
        BY <3>1, <1>6 DEF ResultsFit
      <3>3. i \in 1 .. n /\ i # n
        BY <1>4
      <3>4. store'[i] = store[i]
        BY <3>3, <1>4
      <3>5. ASSUME NEW k \in 1 .. n, store'[k].call = store'[j].call PROVE k = j
        <4>1. k # n
          BY <3>1, <3>5, <1>3, <1>4
        <4>2. QED
          BY <4>1, <3>1, <3>5, <1>4, <1>6 DEF ResultsFit
      <3>6. QED
        BY <3>1, <3>2, <3>4, <3>5
    <2>3. QED
      BY <2>1, <2>2, <1>4 DEF ResultsFit
  <1>11. QED
    BY <1>9, <1>10

LEMMA SavedResults ==
  ASSUME TypeOK, DraftOK, NumbersOK, BatchOK, pc = "results",
         store' = store \o [i \in DOMAIN results |-> Result(results[i])]
  PROVE  CallsFit(store', rounds) /\ ResultsFit(store')
  <1>1. PICK n : n = Len(store)
    OBVIOUS
  <1>2. PICK h : h = Len(results)
    OBVIOUS
  <1>3. PICK new : new = [i \in DOMAIN results |-> Result(results[i])]
    OBVIOUS
  <1>4. store \in Seq(Message) /\ results \in Seq(Call) /\ n \in Nat /\ h \in Nat
        /\ DOMAIN results = 1 .. h
    BY <1>1, <1>2 DEF TypeOK
  <1>5. new \in Seq(Message) /\ Len(new) = h
    BY <1>2, <1>3, <1>4, ResultsType
  <1>6. \A i \in 1 .. h : new[i].role = "tool" /\ new[i].state = "final" /\ new[i].calls = <<>>
                         /\ new[i].call = {results[i]}
    BY <1>3, <1>4 DEF Result, User
  <1>7. Len(store') = n + h /\ \A i \in 1 .. n + h : store'[i] = IF i <= n THEN store[i] ELSE new[i - n]
    <2>1. store' = store \o new
      BY <1>3
    <2>2. QED
      <3>1. /\ Len(store \o new) = Len(store) + Len(new)
            /\ \A i \in 1 .. Len(store) + Len(new) :
                 (store \o new)[i] = IF i <= Len(store) THEN store[i] ELSE new[i - Len(store)]
        BY <1>4, <1>5, ConcatProperties
      <3>2. QED
        BY <2>1, <3>1, <1>1, <1>5
  <1>8. \A i \in 1 .. n : i \in 1 .. n + h /\ store'[i] = store[i]
    BY <1>4, <1>7
  <1>9. ASSUME NEW i \in 1 .. n + h, i > n
        PROVE  /\ i - n \in 1 .. h /\ store'[i].role = "tool" /\ store'[i].state = "final"
               /\ store'[i].calls = <<>> /\ store'[i].call = {results[i - n]}
    <2>1. PICK k \in 1 .. h : k = i - n
      BY <1>4, <1>9
    <2>2. ~(i <= n)
      BY <1>4, <1>9
    <2>3. store'[i] = new[k]
      BY <2>1, <2>2, <1>7
    <2>4. QED
      BY <2>1, <2>3, <1>6
  <1>10. \A i \in 1 .. n + h : i \in 1 .. n \/ i > n
    BY <1>4
  <1>11. PICK d \in active : d.at = n /\ store[n] = Answer(calls) /\ n \in 1 .. n
    BY <1>1 DEF DraftOK, TypeOK
  <1>12. store[n].calls = calls /\ store[n].state = "final"
    BY <1>11 DEF Answer, User
  <1>13. CallsFit(store, rounds) /\ ResultsFit(store) /\ n = Len(store) /\ Range(results) \subseteq Range(calls)
         /\ (\A i, j \in 1 .. h : results[i] = results[j] => i = j)
    BY <1>1, <1>2 DEF NumbersOK, BatchOK
  <1>14. \A i \in 1 .. h : results[i] \in Range(calls)
    BY <1>13, <1>4, <1>2, RangeFacts
  <1>15. CallsFit(store', rounds)
    <2>1. ASSUME NEW i \in 1 .. n + h, NEW c \in Range(store'[i].calls)
          PROVE  i \in 1 .. n /\ c \in Range(store[i].calls)
      <3>1. ~(i > n)
        <4>1. Range(<<>>) = {}
          BY DEF Range
        <4>2. QED
          BY <4>1, <2>1, <1>9
      <3>2. QED
        BY <3>1, <2>1, <1>8, <1>10
    <2>2. \A i \in 1 .. n + h : \A c \in Range(store'[i].calls) : c.turn <= rounds /\ store'[i].state = "final"
      BY <2>1, <1>8, <1>13 DEF CallsFit
    <2>3. ASSUME NEW i \in 1 .. n + h, NEW j \in 1 .. n + h,
                 Range(store'[i].calls) \cap Range(store'[j].calls) # {}
          PROVE  i = j
      <3>1. PICK c \in Range(store'[i].calls) : c \in Range(store'[j].calls)
        BY <2>3
      <3>2. i \in 1 .. n /\ j \in 1 .. n /\ c \in Range(store[i].calls) /\ c \in Range(store[j].calls)
        BY <3>1, <2>1
      <3>3. QED
        BY <3>2, <1>13 DEF CallsFit
    <2>4. \A i \in 1 .. n + h : store'[i].calls # <<>> => store'[i].role = "assistant"
      BY <1>8, <1>9, <1>10, <1>13 DEF CallsFit
    <2>5. QED
      BY <2>2, <2>3, <2>4, <1>7 DEF CallsFit
  <1>16. ResultsFit(store')
    <2>1. \A i \in 1 .. n + h : store'[i].role = "tool" <=> store'[i].call # {}
      <3> SUFFICES ASSUME NEW i \in 1 .. n + h
                   PROVE  store'[i].role = "tool" <=> store'[i].call # {}
        OBVIOUS
      <3>1. CASE i \in 1 .. n
        BY <3>1, <1>8, <1>13 DEF ResultsFit
      <3>2. CASE i > n
        BY <3>2, <1>9
      <3>3. QED
        BY <3>1, <3>2, <1>10
    <2>2. ASSUME NEW j \in 1 .. n, NEW k \in 1 .. n + h, k > n, store[j].call = store'[k].call
          PROVE  FALSE
      <3>1. PICK x \in 1 .. h : store'[k].call = {results[x]}
        BY <2>2, <1>9
      <3>2. store[j].role = "tool" /\ store[j].call = {results[x]}
        BY <3>1, <2>2, <1>13 DEF ResultsFit
      <3>3. PICK i \in 1 .. j - 1 : store[j].call \subseteq Range(store[i].calls)
        BY <3>2, <1>13 DEF ResultsFit
      <3>4. i \in 1 .. n /\ i # n
        BY <1>4
      <3>5. results[x] \in Range(store[i].calls) /\ results[x] \in Range(store[n].calls)
        BY <3>2, <3>3, <1>12, <1>14
      <3>6. QED
        BY <3>4, <3>5, <1>11, <1>13 DEF CallsFit
    <2>3. ASSUME NEW j \in 1 .. n, store'[j].role = "tool"
          PROVE  /\ \E i \in 1 .. j - 1 : store'[i].state = "final"
                                         /\ store'[j].call \subseteq Range(store'[i].calls)
                 /\ \A k \in 1 .. n + h : store'[k].call = store'[j].call => k = j
      <3>1. store'[j] = store[j]
        BY <1>8
      <3>2. PICK i \in 1 .. j - 1 : store[i].state = "final" /\ store[j].call \subseteq Range(store[i].calls)
        BY <3>1, <2>3, <1>13 DEF ResultsFit
      <3>3. i \in 1 .. n
        BY <1>4
      <3>4. store'[i] = store[i]
        BY <3>3, <1>8
      <3>5. ASSUME NEW k \in 1 .. n + h, store'[k].call = store'[j].call PROVE k = j
        <4>1. CASE k \in 1 .. n
          BY <4>1, <3>1, <3>5, <2>3, <1>8, <1>13 DEF ResultsFit
        <4>2. CASE k > n
          BY <4>2, <3>1, <3>5, <2>2
        <4>3. QED
          BY <4>1, <4>2, <1>10
      <3>6. QED
        BY <3>1, <3>2, <3>4, <3>5
    <2>4. ASSUME NEW j \in 1 .. n + h, j > n
          PROVE  /\ \E i \in 1 .. j - 1 : store'[i].state = "final"
                                         /\ store'[j].call \subseteq Range(store'[i].calls)
                 /\ \A k \in 1 .. n + h : store'[k].call = store'[j].call => k = j
      <3>1. PICK x \in 1 .. h : x = j - n /\ store'[j].call = {results[x]}
        BY <2>4, <1>9
      <3>2. n \in 1 .. j - 1 /\ store'[n] = store[n]
        <4>1. n \in 1 .. j - 1
          BY <2>4, <1>4, <1>11
        <4>2. QED
          BY <4>1, <1>8, <1>11
      <3>3. store'[n].state = "final" /\ store'[j].call \subseteq Range(store'[n].calls)
        BY <3>1, <3>2, <1>12, <1>14
      <3>4. ASSUME NEW k \in 1 .. n + h, store'[k].call = store'[j].call PROVE k = j
        <4>1. CASE k \in 1 .. n
          BY <4>1, <3>4, <2>2, <2>4, <1>8
        <4>2. CASE k > n
          <5>1. PICK y \in 1 .. h : y = k - n /\ store'[k].call = {results[y]}
            BY <4>2, <1>9
          <5>2. results[x] = results[y]
            BY <5>1, <3>1, <3>4
          <5>3. x = y
            BY <5>2, <1>13
          <5>4. QED
            BY <5>1, <5>3, <3>1, <1>4
        <4>3. QED
          BY <4>1, <4>2, <1>10
      <3>5. QED
        BY <3>2, <3>3, <3>4
    <2>5. QED
      BY <2>1, <2>3, <2>4, <1>7, <1>10 DEF ResultsFit
  <1>17. QED
    BY <1>15, <1>16

LEMMA NumbersStep ==
  ASSUME TypeOK, TypeOK', DraftOK, NumbersOK, BatchOK, [Next]_vars
  PROVE  NumbersOK'
  <1> USE DEF loopVars, waitVars, histVars, bounds
  <1>0. store \in Seq(Message) /\ store' \in Seq(Message) /\ rounds \in Nat /\ calls \in Seq(Call)
    BY DEF TypeOK
  <1>1. CallsFit(store, rounds) /\ ResultsFit(store) /\ CallNumbers
    BY DEF NumbersOK
  <1>2. CASE StreamDone
    <2>1. PICK shape \in Shapes :
            /\ calls' = [i \in DOMAIN shape |-> [turn |-> rounds + 1, at |-> i, kind |-> shape[i]]]
            /\ rounds' = IF shape = <<>> THEN rounds ELSE rounds + 1
      BY <1>2 DEF StreamDone
    <2>2. store' = store
      BY <1>2 DEF StreamDone
    <2>3. Len(calls') = Len(shape) /\ Len(shape) \in Nat /\ DOMAIN shape = 1 .. Len(shape)
          /\ (shape = <<>>) = (Len(shape) = 0) /\ calls' \in Seq(Call)
      BY <2>1, <1>0, CallsType
    <2>4. CallNumbers'
      BY <2>1, <2>3 DEF CallNumbers
    <2>5. rounds' \in {rounds, rounds + 1} /\ (calls' # <<>> => rounds' = rounds + 1)
      BY <2>1, <2>3
    <2>6. ASSUME NEW i \in 1 .. Len(store), NEW c \in Range(store[i].calls)
          PROVE  /\ c.turn <= rounds' /\ store[i].state = "final"
                 /\ rounds' = rounds + 1 => c.turn < rounds'
      <3>1. c.turn <= rounds /\ store[i].state = "final"
        BY <1>1 DEF CallsFit
      <3>2. c.turn \in Nat
        <4>1. store[i] \in Message
          BY <1>0
        <4>2. store[i].calls \in Seq(Call)
          BY <4>1 DEF Message
        <4>3. c \in Call
          BY <4>2 DEF Range
        <4>4. QED
          BY <4>3 DEF Call
      <3>3. QED
        BY <3>1, <3>2, <2>5, <1>0
    <2>8. CallsFit(store, rounds')
      BY <2>6, <1>1 DEF CallsFit
    <2>7. QED
      BY <2>2, <2>4, <2>5, <2>6, <2>8, <1>1 DEF NumbersOK, CallNumbers
  <1>3. CASE Saves
    <2>1. pc' # "save" /\ rounds' = rounds /\ calls' \in {calls, <<>>} /\ (SaveAssistant \/ SaveResults)
      BY <1>3, <1>0 DEF Saves, Next, LoopStep, vars, Submit, Retry, SubmitBusy, Delta, Respond, Cancel, Crash,
            Top, Prepare, Start, StreamDone, StreamFails, Abort, SaveAssistant, Approve,
            ApprovalCancelled, Execute, SaveResults, EndTurn, Leave, LeaveWith, Go
    <2>2. CallsFit(store', rounds) /\ ResultsFit(store')
      <3>1. CASE SaveAssistant
        <4>1. PICK d \in active : store' = [store EXCEPT ![d.at] = Answer(calls)]
          BY <1>3, <3>1 DEF Saves, SaveAssistant
        <4>2. pc = "save"
          BY <3>1 DEF SaveAssistant
        <4>3. QED
          BY <4>1, <4>2, SavedAnswer
      <3>2. CASE SaveResults
        <4>1. store' = store \o [i \in DOMAIN results |-> Result(results[i])] /\ pc = "results"
          BY <1>3, <3>2 DEF Saves, SaveResults
        <4>2. QED
          BY <4>1, SavedResults
      <3>3. QED
        BY <2>1, <3>1, <3>2
    <2>3. CallNumbers'
      BY <2>1, <1>1 DEF CallNumbers
    <2>4. QED
      BY <2>1, <2>2, <2>3 DEF NumbersOK, CallNumbers
  <1>4. CASE ~Saves /\ ~StreamDone
    <2>1. PICK e : Holds(store', store, e)
      BY <1>1, <1>4, StoreHolds
    <2>2. /\ rounds' = rounds /\ calls' \in {calls, <<>>}
          /\ pc' = "save" => pc = "save"
      <3>1. CASE Submit \/ Retry \/ SubmitBusy \/ Delta \/ Respond \/ Cancel \/ Crash \/ UNCHANGED vars
        BY <3>1 DEF vars, Submit, Retry, SubmitBusy, Delta, Respond, Cancel, Crash
      <3>2. CASE LoopStep
        BY <3>2, <1>4 DEF LoopStep, Top, Prepare, Start, StreamFails, Abort, SaveAssistant, Approve,
            ApprovalCancelled, Execute, SaveResults, EndTurn, Leave, LeaveWith, Go, GoesOn
      <3>3. QED
        BY <3>1, <3>2 DEF Next
    <2>3. CallsFit(store', rounds) /\ ResultsFit(store')
      BY <2>1, <1>0, <1>1, HoldsCalls, HoldsResults
    <2>4. CallNumbers'
      BY <2>2, <1>1 DEF CallNumbers
    <2>5. pc' = "save" /\ calls' # <<>> =>
            \A i \in 1 .. Len(store') : \A c \in Range(store'[i].calls) : c.turn < rounds
      <3> SUFFICES ASSUME pc' = "save", calls' # <<>>
                   PROVE  \A i \in 1 .. Len(store') : \A c \in Range(store'[i].calls) : c.turn < rounds
        OBVIOUS
      <3>1. \A i \in 1 .. Len(store) : \A c \in Range(store[i].calls) : c.turn < rounds
        BY <2>2 DEF NumbersOK
      <3>2. QED
        BY <3>1, <2>1, <1>0, HoldsOlder
    <2>6. QED
      BY <2>2, <2>3, <2>4, <2>5 DEF NumbersOK, CallNumbers
  <1>5. QED
    BY <1>2, <1>3, <1>4

-----------------------------------------------------------------------------
(* The batch. *)

\* What is taken of different calls is different.
LEMMA TakenOnce ==
  ASSUME TypeOK, CallNumbers, NEW S
  PROVE  /\ Of(calls, S) \in Seq(Call)
         /\ Range(Of(calls, S)) = Range(calls) \cap S
         /\ \A i, j \in 1 .. Len(Of(calls, S)) : Of(calls, S)[i] = Of(calls, S)[j] => i = j
  <1>1. PICK o : o = Of(calls, S)
    OBVIOUS
  <1>2. calls \in Seq(Call) /\ o \in Seq(Call) /\ DOMAIN o = 1 .. Len(o) /\ DOMAIN calls = 1 .. Len(calls)
        /\ Len(o) \in Nat /\ Len(calls) \in Nat
    BY <1>1, OfType DEF TypeOK
  <1>3. PICK e : Picks(e, calls, S)
    BY <1>2, OfPicks
  <1>4. /\ e \in [1 .. Len(o) -> 1 .. Len(calls)]
        /\ \A i, j \in 1 .. Len(o) : i < j => e[i] < e[j]
        /\ \A i \in 1 .. Len(o) : o[i] = calls[e[i]] /\ calls[e[i]] \in S
        /\ \A k \in 1 .. Len(calls) : calls[k] \in S => \E i \in 1 .. Len(o) : e[i] = k
    BY <1>1, <1>2, <1>3 DEF Picks
  <1>5. Range(o) = Range(calls) \cap S
    <2>1. ASSUME NEW x \in Range(o) PROVE x \in Range(calls) /\ x \in S
      <3>1. PICK i \in 1 .. Len(o) : o[i] = x
        BY <1>2 DEF Range
      <3>2. QED
        BY <3>1, <1>2, <1>4 DEF Range
    <2>2. ASSUME NEW x \in Range(calls), x \in S PROVE x \in Range(o)
      <3>1. PICK k \in 1 .. Len(calls) : calls[k] = x
        BY <1>2 DEF Range
      <3>2. PICK i \in 1 .. Len(o) : e[i] = k
        BY <3>1, <2>2, <1>4
      <3>3. o[i] = x /\ i \in DOMAIN o
        BY <3>1, <3>2, <1>2, <1>4
      <3>4. QED
        BY <3>3 DEF Range
    <2>3. QED
      BY <2>1, <2>2
  <1>6. ASSUME NEW i \in 1 .. Len(o), NEW j \in 1 .. Len(o), o[i] = o[j] PROVE i = j
    <2>1. e[i] = e[j]
      <3>1. calls[e[i]] = calls[e[j]] /\ e[i] \in 1 .. Len(calls) /\ e[j] \in 1 .. Len(calls)
        BY <1>4, <1>6
      <3>2. QED
        BY <3>1 DEF CallNumbers
    <2>2. ~(i < j) /\ ~(j < i)
      BY <2>1, <1>2, <1>4
    <2>3. QED
      BY <2>2, <1>2
  <1>7. QED
    BY <1>1, <1>2, <1>5, <1>6

LEMMA BatchStep ==
  ASSUME TypeOK, NumbersOK, BatchOK, [Next]_vars
  PROVE  BatchOK'
  <1> USE DEF loopVars, waitVars, histVars, bounds
  <1>0. CallNumbers /\ Range(<<>>) = {} /\ Len(<<>>) = 0
    BY DEF NumbersOK, CallNumbers, Range
  <1>1. CASE calls' = <<>> /\ approved' = {} /\ results' = <<>> /\ asking' = {}
    BY <1>0, <1>1 DEF BatchOK
  <1>2. CASE UNCHANGED <<calls, approved, results, asking>>
             /\ (pc' \in {"off", "top", "prepare", "start", "stream", "abort", "save", "approve"} =>
                   pc \in {"off", "top", "prepare", "start", "stream", "abort", "save", "approve"})
             /\ (pc' \in {"off", "top", "prepare", "start", "stream", "abort"} =>
                   pc \in {"off", "top", "prepare", "start", "stream", "abort"})
             /\ (pc' = "asking" => pc = "asking")
    BY <1>2 DEF BatchOK
  <1>3. CASE Respond
    <2>1. PICK yes \in SUBSET asking : approved' = approved \cup yes /\ results' = Of(calls, asking \ yes)
      BY <1>3 DEF Respond
    <2>2. PICK o : o = Of(calls, asking \ yes)
      OBVIOUS
    <2>3. Range(o) \subseteq Range(calls) /\ \A i, j \in 1 .. Len(o) : o[i] = o[j] => i = j
      BY <2>2, <1>0, TakenOnce, ZenonT(40)
    <2>4. calls' = calls /\ asking' = {} /\ pc' = "execute" /\ results' = o
      BY <1>3, <2>1, <2>2 DEF Respond
    <2>5. approved' \subseteq Range(calls)
      BY <2>1 DEF BatchOK
    <2>6. QED
      BY <2>3, <2>4, <2>5 DEF BatchOK
  <1>4. CASE Approve
    BY <1>4, <1>0 DEF Approve, BatchOK
  <1>5. CASE ApprovalCancelled
    BY <1>5, <1>0 DEF ApprovalCancelled, BatchOK
  <1>6. CASE StreamDone
    BY <1>6, <1>0 DEF StreamDone, BatchOK
  <1>7. CASE pc = "execute" /\ (\E S : results' = Of(calls, S)) /\ pc' = "results"
             /\ UNCHANGED <<calls, approved, asking>>
    <2>1. PICK S : results' = Of(calls, S)
      BY <1>7
    <2>2. PICK o : o = Of(calls, S)
      OBVIOUS
    <2>3. Range(o) \subseteq Range(calls) /\ \A i, j \in 1 .. Len(o) : o[i] = o[j] => i = j
      BY <2>2, <1>0, TakenOnce
    <2>4. QED
      BY <1>7, <2>1, <2>2, <2>3 DEF BatchOK
  <1>8. CASE Submit \/ Retry \/ SubmitBusy \/ Delta \/ Cancel \/ Crash \/ UNCHANGED vars
    BY <1>8, <1>1, <1>2 DEF vars, Submit, Retry, SubmitBusy, Delta, Cancel, Crash
  <1>9. CASE Execute
    BY <1>9, <1>1, <1>7 DEF Execute, Leave, LeaveWith, OrderToolResults
  <1>10. CASE Top \/ Prepare \/ Start \/ StreamFails \/ Abort
    BY <1>10, <1>1, <1>2 DEF Top, Prepare, Start, StreamFails, Abort, Leave, LeaveWith, Go
  <1>11. CASE SaveAssistant
    <2>1. CASE Leave
      BY <2>1, <1>1 DEF Leave, LeaveWith
    <2>2. CASE Go(IF calls = <<>> THEN "end" ELSE "approve") /\ pc = "save"
      BY <2>2, <1>2 DEF Go
    <2>3. QED
      BY <1>11, <2>1, <2>2 DEF SaveAssistant
  <1>12. CASE SaveResults \/ EndTurn
    BY <1>12, <1>1, <1>2 DEF SaveResults, EndTurn, GoesOn, Leave, LeaveWith, Go
  <1>13. QED
    BY <1>3, <1>4, <1>5, <1>6, <1>8, <1>9, <1>10, <1>11, <1>12 DEF Next, LoopStep

LEMMA NumbersInit == Init => NumbersOK /\ BatchOK
  <1> SUFFICES ASSUME Init PROVE NumbersOK /\ BatchOK
    OBVIOUS
  <1>1. Len(<<>>) = 0 /\ Range(<<>>) = {} /\ 1 .. 0 = {}
    BY DEF Range
  <1>2. store = <<>> /\ calls = <<>> /\ results = <<>> /\ approved = {} /\ asking = {} /\ pc = "off"
    BY DEF Init
  <1>3. QED
    BY <1>1, <1>2 DEF NumbersOK, CallsFit, ResultsFit, CallNumbers, BatchOK

-----------------------------------------------------------------------------
(* The theorems. *)

LEMMA Invariance == Spec => []Inv
  <1>1. Init => Inv
    BY TypeInit, DraftInit, NumbersInit DEF Inv
  <1>2. Inv /\ [Next]_vars => Inv'
    BY TypeStep, DraftStep, NumbersStep, BatchStep DEF Inv
  <1>3. QED
    BY <1>1, <1>2, PTL DEF Spec

\* What the loop, the recorder and the store hold has its type throughout: above all
\* the recorder's draft points at a message of the store, though failing writes,
\* finalize_interrupted_stream and recovery change the store under it.
THEOREM TypeCorrect == Spec => []TypeOK
  <1>1. Inv => TypeOK
    BY DEF Inv
  <1>2. QED
    BY <1>1, Invariance, PTL

\* While a request streams, its draft is the store's newest message, and the only live
\* one unless retry_session started the loop: StreamRecorder refuses a second draft and
\* recover_interrupted_streams closes what an earlier run or a crash has left.
THEOREM DraftIsOne == Spec => []OneLiveDraft
  <1>1. Inv => OneLiveDraft
    BY DraftIsLive DEF Inv
  <1>2. QED
    BY <1>1, Invariance, PTL

\* Whatever batches fail, are cancelled or cut off by a crash: save_messages never
\* stores a tool result twice, nor without a final message before it that made the call.
THEOREM ResultsAnswerCalls == Spec => []ResultsHaveCalls
  <1>1. Inv => ResultsHaveCalls
    <2> SUFFICES ASSUME Inv PROVE ResultsHaveCalls
      OBVIOUS
    <2>1. DOMAIN store = 1 .. Len(store)
      BY DEF Inv, TypeOK
    <2>2. ResultsFit(store)
      BY DEF Inv, NumbersOK
    <2>3. QED
      BY <2>1, <2>2 DEF ResultsFit, ResultsHaveCalls
  <1>2. QED
    BY <1>1, Invariance, PTL

-----------------------------------------------------------------------------
(* The history: what a step appends to the store is behind what was there,   *)
(* and what it takes out is an empty draft or a failure to be retried.       *)

LEMMA HistoryType == ASSUME NEW s \in Seq(Message) PROVE History(s) \in Seq(Message)
  BY OfType DEF History

\* OfConcat, for messages.
LEMMA OfBoth ==
  ASSUME NEW S
  PROVE  \A s, t \in Seq(Message) : Of(s \o t, S) = Of(s, S) \o Of(t, S)
  <1>1. \A X : \A p, q \in Seq(X) : Of(p \o q, S) = Of(p, S) \o Of(q, S)
    BY ONLY OfConcat, SMT
  <1>2. QED
    BY ONLY <1>1, SMT

LEMMA HistoryConcat ==
  ASSUME NEW s \in Seq(Message), NEW t \in Seq(Message)
  PROVE  History(s \o t) = History(s) \o History(t)
  BY OfBoth DEF History

LEMMA ContinuesItself == ASSUME NEW s \in Seq(Message) PROVE Continues(History(s), History(s))
  BY DEF Continues, Kept

\* What comes behind both hides nothing of the first.
LEMMA ContinuesBehind ==
  ASSUME NEW s \in Seq(Message), NEW t \in Seq(Message), NEW a \in Seq(Message), NEW b \in Seq(Message),
         Continues(History(s), History(t)), History(a) = <<>>
  PROVE  Continues(History(s \o a), History(t \o b))
  <1>1. History(s \o a) = History(s) \o <<>> /\ History(t \o b) = History(t) \o History(b)
    <2>1. History(s \o a) = History(s) \o History(a) /\ History(t \o b) = History(t) \o History(b)
      BY HistoryConcat
    <2>2. QED
      BY <2>1
  <1>2. PICK p \in Seq(Message), q \in Seq(Message), r \in Seq(Message) :
          p = History(s) /\ q = History(t) /\ r = History(b)
    BY HistoryType
  <1>3. p \o <<>> = p /\ DOMAIN p = 1 .. Len(p) /\ DOMAIN q = 1 .. Len(q)
        /\ DOMAIN (q \o r) = 1 .. Len(q) + Len(r) /\ Len(p) \in Nat /\ Len(q) \in Nat /\ Len(r) \in Nat
        /\ \A i \in 1 .. Len(q) : (q \o r)[i] = q[i]
    OBVIOUS
  <1>4. Continues(p, q)
    BY <1>2
  <1>5. Continues(p, q \o r)
    BY <1>3, <1>4 DEF Continues
  <1>6. QED
    BY <1>1, <1>2, <1>3, <1>5

\* Messages that stay in their places, changed as Kept allows.
LEMMA ContinuesInPlace ==
  ASSUME NEW s \in Seq(Message), NEW t \in Seq(Message), Len(s) = Len(t),
         \A i \in 1 .. Len(s) : (s[i] \in Lasting <=> t[i] \in Lasting) /\ Kept(s[i], t[i])
  PROVE  Continues(History(s), History(t))
  <1>1. PICK e : Picks(e, s, Lasting) /\ Picks(e, t, Lasting)
    BY OfPair
  <1>2. PICK p, q : p = History(s) /\ q = History(t)
    OBVIOUS
  <1>3. DOMAIN p = DOMAIN e /\ DOMAIN q = DOMAIN e /\ e \in [DOMAIN p -> DOMAIN s]
        /\ \A i \in DOMAIN p : p[i] = s[e[i]] /\ q[i] = t[e[i]]
    BY <1>1, <1>2 DEF Picks, History
  <1>4. \A i \in DOMAIN p : e[i] \in 1 .. Len(s)
    BY <1>3
  <1>5. \A i \in DOMAIN p : Kept(p[i], q[i])
    BY <1>3, <1>4
  <1>6. QED
    BY <1>2, <1>3, <1>5 DEF Continues

LEMMA HistoryMore ==
  ASSUME NEW s \in Seq(Message), NEW b \in Seq(Message)
  PROVE  Continues(History(s), History(s \o b))
  <1>1. History(<<>>) = <<>> /\ <<>> \in Seq(Message) /\ s \o <<>> = s
    BY OfEmpty DEF History
  <1>2. Continues(History(s \o <<>>), History(s \o b))
    BY <1>1, ContinuesItself, ContinuesBehind
  <1>3. QED
    BY <1>1, <1>2

LEMMA HistoryAppend ==
  ASSUME NEW s \in Seq(Message), NEW t \in Seq(Message), NEW m \in Message, Continues(History(s), History(t))
  PROVE  Continues(History(s), History(Append(t, m)))
  <1>1. History(<<>>) = <<>> /\ <<>> \in Seq(Message) /\ s \o <<>> = s
    BY OfEmpty DEF History
  <1>2. <<m>> \in Seq(Message) /\ t \o <<m>> = Append(t, m)
    OBVIOUS
  <1>3. Continues(History(s \o <<>>), History(t \o <<m>>))
    BY <1>1, <1>2, ContinuesBehind
  <1>4. QED
    BY <1>1, <1>2, <1>3

\* A message that does not last yet may go, or become anything.
LEMMA SplitAt ==
  ASSUME NEW X, NEW s \in Seq(X), NEW i \in 1 .. Len(s)
  PROVE  s = SubSeq(s, 1, i - 1) \o (<<s[i]>> \o SubSeq(s, i + 1, Len(s)))
  <1> DEFINE a == SubSeq(s, 1, i - 1)
             b == SubSeq(s, i + 1, Len(s))
             c == <<s[i]>> \o b
  <1>1. a \in Seq(X) /\ Len(a) = i - 1 /\ \A k \in 1 .. i - 1 : a[k] = s[k]
    OBVIOUS
  <1>2. b \in Seq(X) /\ Len(b) = Len(s) - i /\ \A k \in 1 .. Len(s) - i : b[k] = s[k + i]
    OBVIOUS
  <1>3. <<s[i]>> \in Seq(X) /\ Len(<<s[i]>>) = 1 /\ <<s[i]>>[1] = s[i] /\ Len(s) \in Nat /\ i \in Nat
    OBVIOUS
  <1> HIDE DEF a, b
  <1>4. c \in Seq(X) /\ Len(c) = Len(s) - i + 1
        /\ \A k \in 1 .. Len(s) - i + 1 : c[k] = IF k <= 1 THEN s[i] ELSE b[k - 1]
    <2>1. c \in Seq(X) /\ Len(c) = 1 + Len(b)
          /\ \A k \in 1 .. 1 + Len(b) : c[k] = IF k <= 1 THEN <<s[i]>>[k] ELSE b[k - 1]
      BY <1>2, <1>3, ConcatProperties
    <2>2. QED
      BY <2>1, <1>2, <1>3
  <1> HIDE DEF c
  <1>5. \A k \in 1 .. Len(s) - i + 1 : c[k] = s[k + i - 1]
    <2> SUFFICES ASSUME NEW k \in 1 .. Len(s) - i + 1 PROVE c[k] = s[k + i - 1]
      OBVIOUS
    <2>1. CASE k = 1
      BY <2>1, <1>3, <1>4
    <2>2. CASE k # 1
      <3>1. k - 1 \in 1 .. Len(s) - i /\ (k - 1) + i = k + i - 1
        BY <2>2, <1>3
      <3>2. c[k] = b[k - 1]
        BY <2>2, <1>3, <1>4
      <3>3. QED
        BY <3>1, <3>2, <1>2
    <2>3. QED
      BY <2>1, <2>2
  <1>6. a \o c \in Seq(X) /\ Len(a \o c) = Len(s)
        /\ \A k \in 1 .. Len(s) : (a \o c)[k] = IF k <= i - 1 THEN a[k] ELSE c[k - (i - 1)]
    <2>1. a \o c \in Seq(X) /\ Len(a \o c) = Len(a) + Len(c)
          /\ \A k \in 1 .. Len(a) + Len(c) : (a \o c)[k] = IF k <= Len(a) THEN a[k] ELSE c[k - Len(a)]
      BY <1>1, <1>4, ConcatProperties
    <2>2. QED
      BY <2>1, <1>1, <1>3, <1>4
  <1>7. \A k \in 1 .. Len(s) : (a \o c)[k] = s[k]
    <2> SUFFICES ASSUME NEW k \in 1 .. Len(s) PROVE (a \o c)[k] = s[k]
      OBVIOUS
    <2>1. CASE k <= i - 1
      BY <2>1, <1>1, <1>3, <1>6
    <2>2. CASE ~(k <= i - 1)
      <3>1. k - (i - 1) \in 1 .. Len(s) - i + 1 /\ (k - (i - 1)) + i - 1 = k
        BY <2>2, <1>3
      <3>2. QED
        BY <3>1, <2>2, <1>5, <1>6
    <2>3. QED
      BY <2>1, <2>2
  <1>8. s = a \o c
    <2>1. DOMAIN s = 1 .. Len(s) /\ DOMAIN (a \o c) = 1 .. Len(s)
      BY <1>6
    <2>2. QED
      BY <2>1, <1>6, <1>7, SeqEqual
  <1>9. QED
    BY <1>8 DEF a, b, c

LEMMA OfWithout ==
  ASSUME NEW s \in Seq(Message), NEW i \in 1 .. Len(s), NEW S, s[i] \notin S
  PROVE  Of(SubSeq(s, 1, i - 1) \o SubSeq(s, i + 1, Len(s)), S) = Of(s, S)
  <1>1. PICK a \in Seq(Message), b \in Seq(Message), m \in Message :
          a = SubSeq(s, 1, i - 1) /\ b = SubSeq(s, i + 1, Len(s)) /\ m = s[i]
    <2>1. SubSeq(s, 1, i - 1) \in Seq(Message) /\ SubSeq(s, i + 1, Len(s)) \in Seq(Message)
          /\ s[i] \in Message
      OBVIOUS
    <2>2. QED
      BY <2>1, Zenon
  <1>2. s = a \o (<<m>> \o b)
    BY <1>1, SplitAt
  <1>3. <<m>> \in Seq(Message) /\ <<m>> \o b \in Seq(Message)
    OBVIOUS
  <1>4. Of(<<m>> \o b, S) = Of(b, S)
    <2>1. Of(<<m>>, S) = <<>>
      BY <1>1, OfOne
    <2>2. Of(<<m>> \o b, S) = <<>> \o Of(b, S)
      <3>1. Of(<<m>> \o b, S) = Of(<<m>>, S) \o Of(b, S)
        <4>1. \A p, q \in Seq(Message) : Of(p \o q, S) = Of(p, S) \o Of(q, S)
          BY ONLY OfBoth
        <4>2. PICK w \in Seq(Message) : w = <<m>>
          BY <1>3
        <4>3. Of(w \o b, S) = Of(w, S) \o Of(b, S)
          BY ONLY <4>1, b \in Seq(Message), w \in Seq(Message), Zenon
        <4>4. QED
          BY <4>2, <4>3
      <3>2. QED
        BY <3>1, <2>1
    <2>3. Of(b, S) \in Seq(Message)
      BY OfType
    <2>4. QED
      BY <2>2, <2>3
  <1>5. Of(a \o (<<m>> \o b), S) = Of(a, S) \o Of(<<m>> \o b, S) /\ Of(a \o b, S) = Of(a, S) \o Of(b, S)
    <2>1. \A p, q \in Seq(Message) : Of(p \o q, S) = Of(p, S) \o Of(q, S)
      BY ONLY OfBoth
    <2>2. QED
      BY ONLY <2>1, <1>3, a \in Seq(Message), b \in Seq(Message), Zenon
  <1>6. QED
    BY <1>1, <1>2, <1>4, <1>5

LEMMA HistoryLast ==
  ASSUME NEW s \in Seq(Message), NEW i \in 1 .. Len(s), i = Len(s), s[i] \notin Lasting, NEW m \in Message
  PROVE  Continues(History(s), History([s EXCEPT ![i] = m]))
  <1>1. PICK a \in Seq(Message) : a = SubSeq(s, 1, i - 1)
    <2>1. SubSeq(s, 1, i - 1) \in Seq(Message)
      OBVIOUS
    <2>2. QED
      BY <2>1, Zenon
  <1>2. s = Append(a, s[i]) /\ [s EXCEPT ![i] = m] = Append(a, m)
    BY <1>1
  <1>3. s[i] \in Message /\ <<m>> \in Seq(Message) /\ <<s[i]>> \in Seq(Message)
    OBVIOUS
  <1>4. Append(a, s[i]) = a \o <<s[i]>> /\ Append(a, m) = a \o <<m>>
    BY <1>3
  <1>5. History(<<s[i]>>) = <<>>
    BY OfOne DEF History
  <1>6. Continues(History(a \o <<s[i]>>), History(a \o <<m>>))
    BY <1>3, <1>5, ContinuesItself, ContinuesBehind
  <1>7. QED
    BY <1>2, <1>4, <1>6

LEMMA HistoryUpdate ==
  ASSUME NEW s \in Seq(Message), NEW i \in 1 .. Len(s), NEW m \in Message,
         s[i] \in Lasting <=> m \in Lasting, Kept(s[i], m)
  PROVE  Continues(History(s), History([s EXCEPT ![i] = m]))
  <1> DEFINE t == [s EXCEPT ![i] = m]
  <1>1. t \in Seq(Message) /\ Len(t) = Len(s) /\ \A k \in 1 .. Len(s) : t[k] = IF k = i THEN m ELSE s[k]
    OBVIOUS
  <1> HIDE DEF t
  <1>2. \A k \in 1 .. Len(s) : (s[k] \in Lasting <=> t[k] \in Lasting) /\ Kept(s[k], t[k])
    BY <1>1 DEF Kept
  <1>3. QED
    BY <1>1, <1>2, ContinuesInPlace DEF t

LEMMA OfTried ==
  ASSUME NEW s \in Seq(Message), NEW u \in 1 .. Len(s), NEW t, Retried(t, s, u),
         NEW T, \A m \in T : m.role # "failure"
  PROVE  Of(t, T) = Of(s, T)
  <1> DEFINE S == {m \in Message : m.role # "failure"}
  <1>1. PICK a \in Seq(Message), b \in Seq(Message) : a = SubSeq(s, 1, u) /\ b = SubSeq(s, u + 1, Len(s))
    <2>1. SubSeq(s, 1, u) \in Seq(Message) /\ SubSeq(s, u + 1, Len(s)) \in Seq(Message)
      OBVIOUS
    <2>2. QED
      BY <2>1, Zenon
  <1>2. s = a \o b
    BY <1>1
  <1>3. Of(b, S) \in Seq(Message) /\ t = a \o Of(b, S)
    BY <1>1, OfType DEF Retried
  <1>4. \A m \in Message : m \in T => m \in S
    OBVIOUS
  <1> HIDE DEF S
  <1>5. Of(t, T) = Of(a, T) \o Of(Of(b, S), T) /\ Of(s, T) = Of(a, T) \o Of(b, T)
    <2>1. PICK o \in Seq(Message) : o = Of(b, S)
      BY <1>3
    <2>2. Of(a \o o, T) = Of(a, T) \o Of(o, T) /\ Of(a \o b, T) = Of(a, T) \o Of(b, T)
      <3>1. \A p, q \in Seq(Message) : Of(p \o q, T) = Of(p, T) \o Of(q, T)
        BY ONLY OfBoth
      <3>2. QED
        BY ONLY <3>1, a \in Seq(Message), b \in Seq(Message), o \in Seq(Message), Zenon
    <2>3. QED
      BY <1>2, <1>3, <2>1, <2>2
  <1>6. Of(Of(b, S), T) = Of(b, T)
    BY <1>4, OfNested
  <1>7. QED
    BY <1>5, <1>6

\* Whether a draft lasts.
LEMMA DraftLasts ==
  ASSUME NEW m \in Message, IsDraft(m)
  PROVE  /\ m \in Lasting <=> m.text
         /\ [m EXCEPT !.state = "cut"] \in Message
         /\ [m EXCEPT !.state = "cut"] \in Lasting <=> m.text
         /\ Kept(m, [m EXCEPT !.state = "cut"])
         /\ [m EXCEPT !.text = TRUE] \in Message
         /\ \A cs \in Seq(Call) : /\ Answer(cs) \in Message /\ Answer(cs) \in Lasting
                                  /\ Kept(m, Answer(cs))
  <1>1. [m EXCEPT !.state = "cut"] \in Message /\ [m EXCEPT !.text = TRUE] \in Message
    BY DEF Message
  <1>2. \A cs \in Seq(Call) : Answer(cs) \in Message
    BY MessageTypes
  <1>3. [m EXCEPT !.state = "cut"].text = m.text /\ [m EXCEPT !.state = "cut"].role = m.role
        /\ [m EXCEPT !.state = "cut"].state = "cut" /\ m.state = "live" /\ m.role = "assistant"
    BY DEF Message, IsDraft
  <1>4. \A cs : Answer(cs).text /\ Answer(cs).role = "assistant"
    BY DEF Answer, User
  <1>5. QED
    BY <1>1, <1>2, <1>3, <1>4 DEF Lasting, Kept

LEMMA RecoveredKept ==
  ASSUME NEW m \in Message, m.state = "live"
  PROVE  /\ m \in Lasting <=> [m EXCEPT !.state = "cut"] \in Lasting
         /\ Kept(m, [m EXCEPT !.state = "cut"])
  BY DEF Lasting, Kept, Message

LEMMA HistoryStep ==
  ASSUME Inv, TypeOK', [Next]_vars
  PROVE  Continues(History(store), History(store'))
  <1> USE DEF loopVars, waitVars, histVars, bounds
  <1>0. store \in Seq(Message) /\ store' \in Seq(Message) /\ Len(store) \in Nat
        /\ DOMAIN store = 1 .. Len(store) /\ DraftOK /\ TypeOK
        /\ (\A d \in active : d.at \in 1 .. Len(store)) /\ \A i \in 1 .. Len(store) : store[i] \in Message
    BY DEF Inv, TypeOK
  <1>1. CASE store' = store
    BY <1>0, <1>1, ContinuesItself
  <1>2. ASSUME NEW m \in Message, store' = Append(store, m) PROVE Continues(History(store), History(store'))
    BY <1>0, <1>2, ContinuesItself, HistoryAppend
  <1>3. ASSUME NEW b \in Seq(Message), store' = store \o b PROVE Continues(History(store), History(store'))
    BY <1>0, <1>3, HistoryMore
  <1>4. CASE Submit
    <2>1. PICK r : r = Recovered(store)
      OBVIOUS
    <2>2. r \in Seq(Message) /\ Len(r) = Len(store)
          /\ \A i \in 1 .. Len(store) :
               r[i] = IF store[i].state = "live" THEN [store[i] EXCEPT !.state = "cut"] ELSE store[i]
      BY <2>1, <1>0, RecoveredType
    <2>3. store' = Append(r, User) /\ User \in Message
      BY <2>1, <1>4, MessageTypes DEF Submit
    <2>4. ASSUME NEW k \in 1 .. Len(store)
          PROVE  (store[k] \in Lasting <=> r[k] \in Lasting) /\ Kept(store[k], r[k])
      <3>1. CASE store[k].state = "live"
        <4>1. r[k] = [store[k] EXCEPT !.state = "cut"] /\ store[k] \in Message
          BY <3>1, <2>2, <1>0
        <4>2. QED
          BY <4>1, <3>1, RecoveredKept
      <3>2. CASE store[k].state # "live"
        BY <3>2, <2>2 DEF Kept
      <3>3. QED
        BY <3>1, <3>2
    <2>5. Continues(History(store), History(r))
      BY <2>2, <2>4, <1>0, ContinuesInPlace
    <2>6. QED
      BY <2>2, <2>3, <2>5, <1>0, HistoryAppend
  <1>5. CASE Retry
    <2>1. PICK u \in 1 .. Len(store) : Retried(store', store, u)
      BY <1>0, <1>5 DEF Retry, Retried
    <2>2. QED
      <3>1. \A m \in Lasting : m.role # "failure"
        BY DEF Lasting
      <3>2. History(store') = History(store)
        BY <2>1, <3>1, <1>0, OfTried DEF History
      <3>3. QED
        BY <3>2, <1>0, ContinuesItself
  <1>6. CASE Delta
    <2>1. PICK d \in active : store' = [store EXCEPT ![d.at].text = TRUE] /\ ~store[d.at].text /\ pc = "stream"
      BY <1>6 DEF Delta
    <2>2. d.at \in 1 .. Len(store) /\ d.at = Len(store) /\ IsDraft(store[d.at])
      BY <2>1, <1>0 DEF DraftOK
    <2>3. PICK m : m = [store[d.at] EXCEPT !.text = TRUE]
      OBVIOUS
    <2>4. m \in Message /\ store[d.at] \notin Lasting /\ store' = [store EXCEPT ![d.at] = m]
      BY <2>1, <2>2, <2>3, <1>0, DraftLasts
    <2>5. QED
      BY <2>2, <2>4, <1>0, HistoryLast
  <1>7. CASE Prepare
    <2>1. PICK n \in 0 .. pending : store' = store \o [i \in 1 .. n |-> User]
      BY <1>7 DEF Prepare
    <2>2. n \in Nat
      BY <1>0 DEF TypeOK
    <2>3. [i \in 1 .. n |-> User] \in Seq(Message)
      BY <2>2, PromptsType
    <2>4. QED
      BY <2>1, <2>3, <1>3
  <1>8. CASE Start \/ StreamFails \/ EndTurn
    <2>1. store' = store \/ \E m \in {Notice, Failure, Draft} : store' = Append(store, m)
      BY <1>8 DEF Start, StreamFails, EndTurn
    <2>2. QED
      BY <2>1, <1>1, <1>2, MessageTypes
  <1>9. CASE Abort /\ store' # store
    <2>1. pc = "abort"
      BY <1>9 DEF Abort
    <2>2. PICK d \in active : store' = IF fired THEN Finalized(store, d.at)
                                       ELSE [store EXCEPT ![d.at].state = "cut"]
      BY <1>9 DEF Abort
    <2>3. d.at \in 1 .. Len(store) /\ store[d.at] \in Message /\ IsDraft(store[d.at])
      BY <2>1, <1>0 DEF DraftOK
    <2>4. PICK m : m = [store[d.at] EXCEPT !.state = "cut"]
      OBVIOUS
    <2>5. m \in Message /\ (store[d.at] \in Lasting <=> m \in Lasting) /\ Kept(store[d.at], m)
          /\ (store[d.at] \in Lasting <=> store[d.at].text)
      BY <2>3, <2>4, DraftLasts
    <2>6. Continues(History(store), History([store EXCEPT ![d.at] = m]))
      BY <2>3, <2>5, <1>0, HistoryUpdate
    <2>7. [store EXCEPT ![d.at].state = "cut"] = [store EXCEPT ![d.at] = m]
      BY <2>4
    <2>8. Notice \in Message
      BY MessageTypes
    <2>9. CASE ~fired
      BY <2>9, <2>2, <2>6, <2>7
    <2>10. CASE fired /\ store[d.at].text
      <3>1. store' = Append([store EXCEPT ![d.at] = m], Notice)
        BY <2>2, <2>7, <2>10 DEF Finalized
      <3>2. [store EXCEPT ![d.at] = m] \in Seq(Message)
        BY <2>3, <2>5, <1>0
      <3>3. QED
        BY <3>1, <3>2, <2>6, <2>8, <1>0, HistoryAppend
    <2>11. CASE fired /\ ~store[d.at].text
      <3>1. PICK i \in 1 .. Len(store) : i = d.at
        BY <2>3
      <3>2. PICK t : t = SubSeq(store, 1, i - 1) \o SubSeq(store, i + 1, Len(store))
        OBVIOUS
      <3>3. t \in Seq(Message)
        BY <3>2, <1>0
      <3>4. Continues(History(store), History(t))
        <4>1. History(t) = History(store)
          BY <3>1, <3>2, <2>5, <2>11, <1>0, OfWithout DEF History
        <4>2. QED
          BY <4>1, <1>0, ContinuesItself
      <3>5. store' = t \o <<Notice>>
        BY <3>1, <3>2, <2>2, <2>11 DEF Finalized
      <3>6. store' = Append(t, Notice)
        BY <3>3, <3>5, <2>8
      <3>7. QED
        BY <3>3, <3>4, <3>6, <2>8, <1>0, HistoryAppend
    <2>12. QED
      BY <2>9, <2>10, <2>11
  <1>10. CASE SaveAssistant /\ store' # store
    <2>1. PICK d \in active : store' = [store EXCEPT ![d.at] = Answer(calls)]
      BY <1>10 DEF SaveAssistant
    <2>2. pc = "save"
      BY <1>10 DEF SaveAssistant
    <2>3. d.at \in 1 .. Len(store) /\ d.at = Len(store) /\ IsDraft(store[d.at]) /\ calls \in Seq(Call)
      BY <2>2, <1>0 DEF DraftOK, TypeOK
    <2>4. PICK m : m = Answer(calls)
      OBVIOUS
    <2>5. m \in Message /\ m \in Lasting /\ Kept(store[d.at], m) /\ store[d.at] \in Message
      BY <2>3, <2>4, <1>0, DraftLasts
    <2>6. CASE store[d.at] \in Lasting
      BY <2>1, <2>3, <2>4, <2>5, <2>6, <1>0, HistoryUpdate
    <2>7. CASE store[d.at] \notin Lasting
      BY <2>1, <2>3, <2>4, <2>5, <2>7, <1>0, HistoryLast
    <2>8. QED
      BY <2>6, <2>7
  <1>11. CASE SaveResults /\ store' # store
    <2>1. store' = store \o [i \in DOMAIN results |-> Result(results[i])]
      BY <1>11 DEF SaveResults
    <2>2. [i \in DOMAIN results |-> Result(results[i])] \in Seq(Message)
      BY <1>0, ResultsType DEF TypeOK
    <2>3. QED
      BY <2>1, <2>2, <1>3
  <1>12. CASE SubmitBusy \/ Respond \/ Cancel \/ Crash \/ Top \/ StreamDone \/ Approve
              \/ ApprovalCancelled \/ Execute \/ UNCHANGED vars
    <2>1. store' = store
      BY <1>12 DEF SubmitBusy, Respond, Cancel, Crash, Top, StreamDone, Approve, ApprovalCancelled,
                   Execute, vars
    <2>2. QED
      BY <2>1, <1>1
  <1>13. QED
    BY <1>1, <1>4, <1>5, <1>6, <1>7, <1>8, <1>9, <1>10, <1>11, <1>12 DEF Next, LoopStep

\* No step of the loop, of a frontend, of a retry or of recovery takes streamed or saved
\* text out of the conversation, moves it, or changes a final message ("already streamed
\* content is kept", D-008-cancellation.md:209).
THEOREM HistoryStays == Spec => HistoryIsKept
  <1>1. Inv /\ Inv' /\ [Next]_vars => [Continues(History(store), History(store'))]_vars
    BY HistoryStep DEF Inv
  <1>2. QED
    BY <1>1, Invariance, PTL DEF Spec, HistoryIsKept

-----------------------------------------------------------------------------
(* Answers: while nothing has failed, the requestable messages of the store  *)
(* have their answers behind them, all but the newest while its batch runs.  *)

\* A turn's calls wait for their results.
Open == {"approve", "asking", "execute", "results"}

\* What the batch has done of the turn's calls.
LapseOK ==
  /\ \A c \in lapsed : c.turn <= rounds
  /\ pc \in {"save", "approve"} => Range(calls) \cap lapsed = {}
  /\ pc = "asking" => Range(calls) \cap lapsed = {} /\ approved = Range(calls) \ asking
  /\ pc = "execute" => approved \cup Range(results) = Range(calls) \ lapsed
                       /\ approved \cap Range(results) = {}
  /\ pc = "results" => results = Of(calls, Range(calls) \ lapsed)

\* The calls of a request are of earlier turns.
SentOK ==
  \A i \in 1 .. Len(sent) : \A c \in Range(sent[i].calls) :
    c.turn <= rounds /\ (calls # <<>> => c.turn < rounds)

Asked(s) == Of(s, Requestable)

\* The calls of s[i] are answered, but for those in L.
Answered(s, i, L) ==
  LET w == Of(s[i].calls, Range(s[i].calls) \ L) IN
  i + Len(w) <= Len(s) /\ \A k \in 1 .. Len(w) : s[i + k].call = {w[k]}

AnsweredOK ==
  failures = 0 /\ crashes = 0 =>
    /\ \A i \in 1 .. Len(sent) : sent[i].calls # <<>> => Answered(sent, i, lapsed)
    /\ \A i \in 1 .. Len(Asked(store)) : Asked(store)[i].calls # <<>> =>
         Answered(Asked(store), i, lapsed) \/ (i = Len(Asked(store)) /\ pc \in Open)

LEMMA OfSame ==
  ASSUME NEW X, NEW s \in Seq(X), NEW t \in Seq(X), Len(s) = Len(t), NEW S,
         \A i \in 1 .. Len(s) : (s[i] \in S <=> t[i] \in S) /\ (s[i] \in S => s[i] = t[i])
  PROVE  Of(s, S) = Of(t, S)
  <1>1. PICK e : Picks(e, s, S) /\ Picks(e, t, S)
    BY OfPair
  <1>2. PICK p \in Seq(X), q \in Seq(X) : p = Of(s, S) /\ q = Of(t, S)
    <2>1. Of(s, S) \in Seq(X) /\ Of(t, S) \in Seq(X)
      BY OfType
    <2>2. QED
      BY <2>1, Zenon
  <1>3. DOMAIN p = DOMAIN e /\ DOMAIN q = DOMAIN e /\ e \in [DOMAIN p -> 1 .. Len(s)]
        /\ \A i \in DOMAIN p : p[i] = s[e[i]] /\ q[i] = t[e[i]] /\ s[e[i]] \in S
    BY <1>1, <1>2 DEF Picks
  <1>4. \A i \in DOMAIN p : p[i] = q[i]
    BY <1>3
  <1>5. p = q
    <2>1. DOMAIN p = 1 .. Len(p) /\ DOMAIN q = 1 .. Len(q) /\ Len(p) \in Nat /\ Len(q) \in Nat
      OBVIOUS
    <2>2. Len(p) = Len(q)
      <3>1. 1 .. Len(p) = 1 .. Len(q)
        BY <2>1, <1>3
      <3>2. \A n, m \in Nat : 1 .. n = 1 .. m => n = m
        <4>1. ASSUME NEW n \in Nat, NEW m \in Nat, n < m PROVE m \in 1 .. m /\ m \notin 1 .. n
          BY <4>1
        <4>2. QED
          BY <4>1
      <3>3. QED
        BY ONLY <2>1, <3>1, <3>2, Zenon
    <2>3. QED
      BY <2>1, <2>2, <1>4, SeqEqual
  <1>6. QED
    BY <1>2, <1>5

LEMMA OfFits ==
  ASSUME NEW s \in Seq(Message), NEW S, NEW r, CallsFit(s, r)
  PROVE  CallsFit(Of(s, S), r)
  <1>1. PICK e : Picks(e, s, S)
    BY OfPicks
  <1>2. PICK o \in Seq(Message) : o = Of(s, S)
    BY OfType
  <1>3. /\ DOMAIN o = 1 .. Len(o) /\ Len(o) \in Nat /\ e \in [1 .. Len(o) -> 1 .. Len(s)]
        /\ \A i, j \in 1 .. Len(o) : i < j => e[i] < e[j]
        /\ \A i \in 1 .. Len(o) : o[i] = s[e[i]] /\ e[i] \in 1 .. Len(s)
    <2>1. DOMAIN o = 1 .. Len(o) /\ Len(o) \in Nat /\ DOMAIN s = 1 .. Len(s)
      OBVIOUS
    <2>2. e \in [DOMAIN o -> DOMAIN s] /\ DOMAIN e = DOMAIN o
      BY <1>1, <1>2 DEF Picks
    <2>3. QED
      BY <1>1, <1>2, <2>1, <2>2 DEF Picks
  <1>4. ASSUME NEW i \in 1 .. Len(o), NEW j \in 1 .. Len(o), e[i] = e[j] PROVE i = j
    <2>1. i \in Nat /\ j \in Nat /\ e[i] \in Nat
      <3>1. i \in Nat /\ j \in Nat
        BY <1>3
      <3>2. e[i] \in 1 .. Len(s) /\ Len(s) \in Nat
        BY <1>3
      <3>3. QED
        BY <3>1, <3>2
    <2>2. ~(i < j) /\ ~(j < i)
      BY <2>1, <1>3, <1>4
    <2>3. QED
      BY <2>1, <2>2
  <1>5. \A i \in 1 .. Len(o) : \A c \in Range(o[i].calls) : c.turn <= r /\ o[i].state = "final"
    BY <1>3 DEF CallsFit
  <1>6. ASSUME NEW i \in 1 .. Len(o), NEW j \in 1 .. Len(o), Range(o[i].calls) \cap Range(o[j].calls) # {}
        PROVE  i = j
    <2>1. e[i] = e[j]
      BY <1>3, <1>6 DEF CallsFit
    <2>2. QED
      BY <2>1, <1>4
  <1>7. \A i \in 1 .. Len(o) : o[i].calls # <<>> => o[i].role = "assistant"
    BY <1>3 DEF CallsFit
  <1>8. QED
    BY <1>2, <1>5, <1>6, <1>7 DEF CallsFit

\* As many are taken as there are places of members.
LEMMA OfLength ==
  ASSUME NEW cs \in Seq(Call), NEW L
  PROVE  /\ Cardinality({k \in DOMAIN cs : cs[k] \notin L}) = Len(Of(cs, Range(cs) \ L))
         /\ Of(cs, Range(cs) \ L) \in Seq(Call)
  <1> DEFINE S == Range(cs) \ L
             K == {k \in DOMAIN cs : cs[k] \notin L}
  <1>1. PICK o \in Seq(Call) : o = Of(cs, S)
    BY OfType
  <1>2. PICK e : Picks(e, cs, S)
    BY OfPicks
  <1>3. DOMAIN o = 1 .. Len(o) /\ Len(o) \in Nat /\ DOMAIN cs = 1 .. Len(cs) /\ Len(cs) \in Nat
    OBVIOUS
  <1>4. \A k \in DOMAIN cs : k \in K <=> cs[k] \in S
    BY DEF Range
  <1>5. /\ e \in [1 .. Len(o) -> K]
        /\ \A i, j \in 1 .. Len(o) : i < j => e[i] < e[j]
        /\ \A k \in K : \E i \in 1 .. Len(o) : e[i] = k
    <2>1. e \in [DOMAIN o -> DOMAIN cs] /\ DOMAIN e = DOMAIN o
      BY <1>1, <1>2 DEF Picks
    <2> HIDE DEF S
    <2>2. (\A i \in DOMAIN o : cs[e[i]] \in S) /\ (\A i, j \in DOMAIN o : i < j => e[i] < e[j])
          /\ \A k \in DOMAIN cs : cs[k] \in S => \E i \in DOMAIN o : e[i] = k
      BY <2>1, <1>2 DEF Picks
    <2> HIDE DEF K
    <2>3. \A i \in DOMAIN o : e[i] \in K
      BY <2>1, <2>2, <1>4
    <2>4. K \subseteq DOMAIN cs
      BY DEF K
    <2>5. QED
      BY <2>1, <2>2, <2>3, <2>4, <1>3, <1>4
  <1> HIDE DEF S
  <1>6. K \subseteq Nat
    BY <1>3
  <1> HIDE DEF K
  <1>7. \A i, j \in 1 .. Len(o) : e[i] = e[j] => i = j
    <2> SUFFICES ASSUME NEW i \in 1 .. Len(o), NEW j \in 1 .. Len(o), e[i] = e[j] PROVE i = j
      OBVIOUS
    <2>0. i \in Nat /\ j \in Nat
      BY <1>3
    <2>1. i \in Nat /\ j \in Nat /\ e[i] \in Nat
      <3>1. e[i] \in K
        BY <1>5
      <3>2. QED
        BY <2>0, <3>1, <1>6
    <2>2. ~(i < j) /\ ~(j < i)
      <3>1. e[i] = e[j]
        OBVIOUS
      <3>2. i < j => e[i] < e[j]
        BY <1>5
      <3>3. j < i => e[j] < e[i]
        BY <1>5
      <3>4. QED
        BY <2>1, <3>1, <3>2, <3>3
    <2>3. QED
      BY <2>1, <2>2
  <1>8. ExistsBijection(1 .. Len(o), K)
    <2>1. e \in Bijection(1 .. Len(o), K)
      <3>1. e \in Injection(1 .. Len(o), K)
        BY <1>5, <1>7 DEF Injection, IsInjective
      <3>2. e \in Surjection(1 .. Len(o), K)
        BY <1>5 DEF Surjection
      <3>3. QED
        BY <3>1, <3>2 DEF Bijection
    <2>2. QED
      BY <2>1 DEF ExistsBijection
  <1>9. IsFiniteSet(1 .. Len(o)) /\ Cardinality(1 .. Len(o)) = Len(o)
    <2>1. 0 \in Int /\ 1 \in Int /\ Len(o) \in Int /\ (1 > Len(o) <=> Len(o) = 0)
      BY <1>3
    <2>2. IsFiniteSet(1 .. Len(o)) /\ Cardinality(1 .. Len(o)) = IF 1 > Len(o) THEN 0 ELSE Len(o) - 1 + 1
      BY ONLY <2>1, FS_Interval, Zenon
    <2>3. QED
      BY <2>1, <2>2, <1>3
  <1>10. Cardinality(K) = Len(o)
    BY <1>8, <1>9, FS_Bijection
  <1>11. QED
    BY <1>1, <1>10 DEF K, S

LEMMA AnsweredMeans ==
  ASSUME NEW s \in Seq(Message), NEW i \in 1 .. Len(s), Answered(s, i, lapsed)
  PROVE  AnswersOf(s, i)
  <1>1. PICK cs \in Seq(Call) : cs = s[i].calls
    <2>1. s[i] \in Message
      OBVIOUS
    <2>2. QED
      BY <2>1 DEF Message
  <1>2. PICK w : w = Of(cs, Range(cs) \ lapsed)
    OBVIOUS
  <1>3. Cardinality({k \in DOMAIN cs : cs[k] \notin lapsed}) = Len(w) /\ w \in Seq(Call)
    BY <1>2, OfLength
  <1>4. i + Len(w) <= Len(s) /\ \A k \in 1 .. Len(w) : s[i + k].call = {w[k]}
    BY <1>1, <1>2 DEF Answered
  <1>5. PICK n : n = Len(w)
    OBVIOUS
  <1>6. i + n <= Len(s) /\ [k \in 1 .. n |-> s[i + k].call] = [k \in 1 .. n |-> {w[k]}]
    BY <1>4, <1>5
  <1>7. n = Cardinality({k \in DOMAIN s[i].calls : s[i].calls[k] \notin lapsed})
    BY <1>1, <1>3, <1>5
  <1>8. w = Of(s[i].calls, Range(s[i].calls) \ lapsed)
    BY <1>1, <1>2
  <1>9. QED
    BY <1>6, <1>7, <1>8 DEF AnswersOf

LEMMA AnsweredMore ==
  ASSUME NEW s \in Seq(Message), NEW b \in Seq(Message), NEW i \in 1 .. Len(s), NEW L, Answered(s, i, L)
  PROVE  Answered(s \o b, i, L)
  <1>1. PICK t : t = s \o b
    OBVIOUS
  <1>2. /\ Len(t) = Len(s) + Len(b) /\ Len(s) \in Nat /\ Len(b) \in Nat
        /\ \A k \in 1 .. Len(s) : t[k] = s[k]
    BY <1>1
  <1>3. PICK w : w = Of(s[i].calls, Range(s[i].calls) \ L)
    OBVIOUS
  <1>4. s[i].calls \in Seq(Call)
    <2>1. s[i] \in Message
      OBVIOUS
    <2>2. QED
      BY <2>1 DEF Message
  <1>5. Len(w) \in Nat
    <2>1. w \in Seq(Call)
      BY <1>3, <1>4, OfType
    <2>2. QED
      BY <2>1
  <1>6. i + Len(w) <= Len(s) /\ \A k \in 1 .. Len(w) : s[i + k].call = {w[k]}
    BY <1>3 DEF Answered
  <1>7. \A k \in 1 .. Len(w) : i + k \in 1 .. Len(s)
    BY <1>2, <1>5, <1>6
  <1>8. i + Len(w) <= Len(t) /\ \A k \in 1 .. Len(w) : t[i + k].call = {w[k]}
    BY <1>2, <1>5, <1>6, <1>7
  <1>9. t[i] = s[i]
    BY <1>2
  <1>10. QED
    BY <1>1, <1>3, <1>8, <1>9 DEF Answered

LEMMA AnsweredLapse ==
  ASSUME NEW s, NEW i, NEW L, NEW M, Range(s[i].calls) \cap M = {}, Answered(s, i, L)
  PROVE  Answered(s, i, L \cup M)
  <1>1. Range(s[i].calls) \ (L \cup M) = Range(s[i].calls) \ L
    OBVIOUS
  <1>2. QED
    BY <1>1 DEF Answered

LEMMA AskedType == ASSUME NEW s \in Seq(Message) PROVE Asked(s) \in Seq(Message)
  BY OfType DEF Asked

LEMMA AskedAppend ==
  ASSUME NEW s \in Seq(Message), NEW m \in Message
  PROVE  Asked(Append(s, m)) = IF m \in Requestable THEN Append(Asked(s), m) ELSE Asked(s)
  BY OfAppend DEF Asked

\* What may be asked and what not.
LEMMA WhatIsAsked ==
  /\ User \in Requestable
  /\ \A m \in {Notice, Failure, Draft} : m \notin Requestable
  /\ \A cs \in Seq(Call) : Answer(cs) \in Requestable
  /\ \A c \in Call : Result(c) \in Requestable
  <1>1. User.state = "final" /\ User.role = "user" /\ User \in Message
    BY MessageTypes DEF User
  <1>2. Notice.role = "error" /\ Failure.role = "failure" /\ Draft.state = "live"
    BY DEF User, Notice, Failure, Draft
  <1>3. \A cs \in Seq(Call) : Answer(cs).state = "final" /\ Answer(cs).role = "assistant" /\ Answer(cs) \in Message
    BY MessageTypes DEF User, Answer
  <1>4. \A c \in Call : Result(c).state = "final" /\ Result(c).role = "tool" /\ Result(c) \in Message
    BY MessageTypes DEF User, Result
  <1>5. QED
    BY <1>1, <1>2, <1>3, <1>4 DEF Requestable

\* t asks what s asks and b, which holds no calls.
Asks(t, s, b) ==
  b \in Seq(Message) /\ Asked(t) = Asked(s) \o b /\ \A k \in 1 .. Len(b) : b[k].calls = <<>>

LEMMA AsksSame ==
  ASSUME NEW s \in Seq(Message), NEW t, Asked(t) = Asked(s)
  PROVE  \E b : Asks(t, s, b)
  <1>1. PICK v \in Seq(Message) : v = Asked(s)
    BY AskedType
  <1>2. v \o <<>> = v /\ <<>> \in Seq(Message) /\ Len(<<>>) = 0 /\ 1 .. 0 = {}
    OBVIOUS
  <1>3. Asks(t, s, <<>>)
    BY <1>1, <1>2 DEF Asks
  <1>4. QED
    BY <1>3

LEMMA AskedStep ==
  ASSUME Inv, TypeOK', [Next]_vars, ~Saves
  PROVE  \E b : Asks(store', store, b)
  <1> USE DEF loopVars, waitVars, histVars, bounds
  <1>0. store \in Seq(Message) /\ store' \in Seq(Message) /\ Len(store) \in Nat
        /\ DOMAIN store = 1 .. Len(store) /\ DraftOK /\ TypeOK
        /\ (\A d \in active : d.at \in 1 .. Len(store)) /\ \A i \in 1 .. Len(store) : store[i] \in Message
    BY DEF Inv, TypeOK
  <1>1. CASE Asked(store') = Asked(store)
    BY <1>0, <1>1, AsksSame
  <1>2. ASSUME NEW m \in {Notice, Failure, Draft}, store' = Append(store, m)
        PROVE  Asked(store') = Asked(store)
    BY <1>0, <1>2, AskedAppend, WhatIsAsked, MessageTypes
  <1>3. CASE Submit
    <2>1. PICK r : r = Recovered(store)
      OBVIOUS
    <2>2. r \in Seq(Message) /\ Len(r) = Len(store)
          /\ \A i \in 1 .. Len(store) :
               r[i] = IF store[i].state = "live" THEN [store[i] EXCEPT !.state = "cut"] ELSE store[i]
      BY <2>1, <1>0, RecoveredType
    <2>3. store' = Append(r, User) /\ User \in Message
      BY <2>1, <1>3, MessageTypes DEF Submit
    <2>4. ASSUME NEW k \in 1 .. Len(store)
          PROVE  /\ store[k] \in Requestable <=> r[k] \in Requestable
                 /\ store[k] \in Requestable => store[k] = r[k]
      <3>1. CASE store[k].state = "live"
        <4>1. r[k].state = "cut"
          BY <3>1, <2>2, <1>0 DEF Message
        <4>2. QED
          BY <3>1, <4>1 DEF Requestable
      <3>2. CASE store[k].state # "live"
        BY <3>2, <2>2
      <3>3. QED
        BY <3>1, <3>2
    <2>5. Asked(r) = Asked(store)
      BY <2>2, <2>4, <1>0, OfSame DEF Asked
    <2>6. Asked(store') = Append(Asked(r), User)
      BY <2>2, <2>3, AskedAppend, WhatIsAsked
    <2>7. PICK v \in Seq(Message) : v = Asked(store)
      BY <1>0, AskedType
    <2>8. Append(v, User) = v \o <<User>> /\ <<User>> \in Seq(Message) /\ Len(<<User>>) = 1 /\ <<User>>[1] = User
      BY <2>3
    <2>9. \A k \in 1 .. 1 : <<User>>[k].calls = <<>>
      BY <2>8 DEF User
    <2>10. Asks(store', store, <<User>>)
      BY <2>5, <2>6, <2>7, <2>8, <2>9 DEF Asks
    <2>11. QED
      BY <2>10
  <1>4. CASE Retry
    <2>1. PICK u \in 1 .. Len(store) : Retried(store', store, u)
      BY <1>0, <1>4 DEF Retry, Retried
    <2>2. \A m \in Requestable : m.role # "failure"
      BY DEF Requestable
    <2>3. QED
      BY <2>1, <2>2, <1>0, <1>1, OfTried DEF Asked
  <1>5. ASSUME NEW d \in active, NEW m, store' = [store EXCEPT ![d.at] = m], m \notin Requestable,
               store[d.at] \notin Requestable
        PROVE  Asked(store') = Asked(store)
    <2>1. PICK i \in 1 .. Len(store) : i = d.at
      BY <1>0
    <2>2. Len(store') = Len(store)
          /\ \A k \in 1 .. Len(store) : store'[k] = IF k = i THEN m ELSE store[k]
      BY <2>1, <1>0, <1>5
    <2>3. \A k \in 1 .. Len(store) : /\ store[k] \in Requestable <=> store'[k] \in Requestable
                                     /\ store[k] \in Requestable => store[k] = store'[k]
      BY <2>1, <2>2, <1>5
    <2>4. QED
      BY <2>2, <2>3, <1>0, OfSame DEF Asked
  <1>6. CASE Delta
    <2>1. PICK d \in active : store' = [store EXCEPT ![d.at].text = TRUE] /\ pc = "stream"
      BY <1>6 DEF Delta
    <2>2. d.at \in 1 .. Len(store) /\ IsDraft(store[d.at]) /\ store[d.at] \in Message
      BY <2>1, <1>0 DEF DraftOK
    <2>3. PICK m : m = [store[d.at] EXCEPT !.text = TRUE]
      OBVIOUS
    <2>4. m.state = "live" /\ store' = [store EXCEPT ![d.at] = m] /\ store[d.at].state = "live"
      BY <2>1, <2>2, <2>3 DEF IsDraft, Message
    <2>5. QED
      BY <2>4, <1>1, <1>5 DEF Requestable
  <1>7. CASE Prepare
    <2>1. PICK n \in 0 .. pending : store' = store \o [i \in 1 .. n |-> User]
      BY <1>7 DEF Prepare
    <2>2. n \in Nat
      BY <1>0 DEF TypeOK
    <2>3. PICK new : new = [i \in 1 .. n |-> User]
      OBVIOUS
    <2>4. new \in Seq(Message) /\ Len(new) = n /\ \A i \in 1 .. n : new[i] = User
      BY <2>2, <2>3, PromptsType
    <2>5. Asked(store') = Asked(store) \o Asked(new)
      <3>1. \A p, q \in Seq(Message) : Of(p \o q, Requestable) = Of(p, Requestable) \o Of(q, Requestable)
        BY ONLY OfBoth
      <3>2. store' = store \o new
        BY <2>1, <2>3
      <3>3. Of(store \o new, Requestable) = Of(store, Requestable) \o Of(new, Requestable)
        BY ONLY <3>1, <1>0, <2>4, Zenon
      <3>4. QED
        BY <3>2, <3>3 DEF Asked
    <2>6. PICK b \in Seq(Message) : b = Asked(new)
      BY <2>4, AskedType
    <2>7. PICK e : Picks(e, new, Requestable)
      BY <2>4, OfPicks
    <2>8. \A k \in 1 .. Len(b) : b[k] = User
      <3>1. DOMAIN b = 1 .. Len(b) /\ DOMAIN new = 1 .. n
        BY <2>4
      <3>2. e \in [DOMAIN b -> DOMAIN new] /\ DOMAIN e = DOMAIN b
        BY <2>6, <2>7 DEF Picks, Asked
      <3>3. \A k \in DOMAIN b : b[k] = new[e[k]]
        BY <3>2, <2>6, <2>7 DEF Picks, Asked
      <3>4. QED
        BY <3>1, <3>2, <3>3, <2>4
    <2>9. Asks(store', store, b)
      BY <2>5, <2>6, <2>8 DEF Asks, User
    <2>10. QED
      BY <2>9
  <1>8. CASE Start \/ StreamFails \/ EndTurn
    <2>1. store' = store \/ \E m \in {Notice, Failure, Draft} : store' = Append(store, m)
      BY <1>8 DEF Start, StreamFails, EndTurn
    <2>2. QED
      BY <2>1, <1>1, <1>2
  <1>9. CASE Abort /\ store' # store
    <2>1. pc = "abort"
      BY <1>9 DEF Abort
    <2>2. PICK d \in active : store' = IF fired THEN Finalized(store, d.at)
                                       ELSE [store EXCEPT ![d.at].state = "cut"]
      BY <1>9 DEF Abort
    <2>3. d.at \in 1 .. Len(store) /\ store[d.at] \in Message /\ IsDraft(store[d.at])
      BY <2>1, <1>0 DEF DraftOK
    <2>4. PICK m : m = [store[d.at] EXCEPT !.state = "cut"]
      OBVIOUS
    <2>5. m \in Message /\ m \notin Requestable /\ store[d.at] \notin Requestable
      <3>1. m \in Message /\ m.state = "cut" /\ store[d.at].state = "live"
        BY <2>3, <2>4 DEF Message, IsDraft
      <3>2. QED
        BY <3>1 DEF Requestable
    <2>6. PICK i \in 1 .. Len(store) : i = d.at
      BY <2>3
    <2>7. [store EXCEPT ![i].state = "cut"] = [store EXCEPT ![i] = m]
      BY <2>4, <2>6
    <2>8. Notice \in Message /\ Notice \notin Requestable
      BY MessageTypes, WhatIsAsked
    <2>9. PICK t : t = [store EXCEPT ![i] = m]
      OBVIOUS
    <2>10. t \in Seq(Message) /\ Asked(t) = Asked(store)
      <3>1. t \in Seq(Message) /\ Len(t) = Len(store)
            /\ \A k \in 1 .. Len(store) : t[k] = IF k = i THEN m ELSE store[k]
        BY <2>5, <2>9, <1>0
      <3>2. QED
        BY <3>1, <2>5, <2>6, <1>0, OfSame DEF Asked
    <2>11. CASE ~fired
      BY <2>11, <2>2, <2>6, <2>7, <2>9, <2>10, <1>1
    <2>12. CASE fired /\ store[i].text
      <3>1. store' = Append(t, Notice)
        BY <2>2, <2>6, <2>7, <2>9, <2>12 DEF Finalized
      <3>2. QED
        BY <3>1, <2>8, <2>10, <1>1, AskedAppend
    <2>13. CASE fired /\ ~store[i].text
      <3>1. PICK w : w = SubSeq(store, 1, i - 1) \o SubSeq(store, i + 1, Len(store))
        OBVIOUS
      <3>2. w \in Seq(Message)
        BY <3>1, <1>0
      <3>3. Asked(w) = Asked(store)
        BY <3>1, <2>5, <2>6, <1>0, OfWithout DEF Asked
      <3>4. store' = w \o <<Notice>>
        BY <3>1, <2>2, <2>6, <2>13 DEF Finalized
      <3>5. store' = Append(w, Notice)
        BY <3>2, <3>4, <2>8
      <3>6. QED
        BY <3>2, <3>3, <3>5, <2>8, <1>1, AskedAppend
    <2>14. QED
      BY <2>6, <2>11, <2>12, <2>13
  <1>10. CASE SaveAssistant /\ store' # store
    BY <1>10 DEF SaveAssistant, Saves
  <1>11. CASE SaveResults /\ store' # store
    BY <1>11 DEF SaveResults, Saves
  <1>12. CASE store' = store
    BY <1>1, <1>12
  <1>13. CASE SubmitBusy \/ Respond \/ Cancel \/ Crash \/ Top \/ StreamDone \/ Approve
              \/ ApprovalCancelled \/ Execute \/ UNCHANGED vars
    <2>1. store' = store
      BY <1>13 DEF SubmitBusy, Respond, Cancel, Crash, Top, StreamDone, Approve, ApprovalCancelled,
                   Execute, vars
    <2>2. QED
      BY <2>1, <1>1
  <1>14. QED
    BY <1>3, <1>4, <1>6, <1>7, <1>8, <1>9, <1>10, <1>11, <1>12, <1>13 DEF Next, LoopStep

\* Cancelled requests, and what is left of the batch.
LEMMA LapseStep ==
  ASSUME Inv, LapseOK, [Next]_vars
  PROVE  LapseOK'
  <1> USE DEF loopVars, waitVars, histVars, bounds
  <1>0. TypeOK /\ CallNumbers /\ BatchOK /\ calls \in Seq(Call) /\ results \in Seq(Call) /\ rounds \in Nat
        /\ lapsed \in SUBSET Call /\ DOMAIN calls = 1 .. Len(calls)
    BY DEF Inv, NumbersOK, TypeOK
  <1>1. \A c \in Range(calls) : c.turn = rounds
    BY <1>0 DEF CallNumbers, Range
  <1>2. CASE /\ UNCHANGED <<lapsed, rounds>>
             /\ pc' \notin {"save", "approve", "asking", "execute", "results"}
    BY <1>2 DEF LapseOK
  <1>3. CASE UNCHANGED <<pc, lapsed, rounds, calls, approved, results, asking>>
    BY <1>3 DEF LapseOK
  <1>4. CASE StreamDone
    <2>1. PICK shape \in Shapes :
            /\ calls' = [i \in DOMAIN shape |-> [turn |-> rounds + 1, at |-> i, kind |-> shape[i]]]
            /\ rounds' = IF shape = <<>> THEN rounds ELSE rounds + 1
      BY <1>4 DEF StreamDone
    <2>2. lapsed' = lapsed /\ pc' = "save"
      BY <1>4 DEF StreamDone
    <2>3. \A c \in Range(calls') : c.turn = rounds + 1
      BY <2>1 DEF Range
    <2>4. \A c \in lapsed : c.turn \in Nat /\ c.turn <= rounds
      BY <1>0 DEF LapseOK, Call
    <2>5. \A c \in lapsed : c.turn <= rounds' /\ c.turn # rounds + 1
      BY <2>1, <2>4, <1>0
    <2>6. QED
      BY <2>2, <2>3, <2>5 DEF LapseOK
  <1>5. CASE SaveAssistant
    <2>1. UNCHANGED <<lapsed, rounds>> /\ pc = "save"
      BY <1>5 DEF SaveAssistant
    <2>2. CASE Leave
      BY <2>1, <2>2, <1>2 DEF Leave, LeaveWith
    <2>3. CASE pc' \in {"end", "approve"} /\ UNCHANGED calls
      BY <2>1, <2>3 DEF LapseOK
    <2>4. QED
      BY <1>5, <2>2, <2>3 DEF SaveAssistant, Go
  <1>6. CASE Approve
    <2>1. /\ pc = "approve" /\ UNCHANGED <<lapsed, rounds, calls, results>>
          /\ asking' = Range(calls) \ approved'
          /\ approved' = {c \in Range(calls) : c.kind # "ask"}
          /\ pc' = IF asking' = {} THEN "execute" ELSE "asking"
      BY <1>6 DEF Approve
    <2>2. Range(calls) \cap lapsed = {} /\ results = <<>> /\ Range(results) = {}
      BY <2>1, <1>0 DEF LapseOK, BatchOK, Range
    <2>3. approved' = Range(calls) \ asking'
      BY <2>1
    <2>4. QED
      BY <2>1, <2>2, <2>3 DEF LapseOK
  <1>7. CASE Respond
    <2>1. PICK yes \in SUBSET asking : approved' = approved \cup yes /\ results' = Of(calls, asking \ yes)
      BY <1>7 DEF Respond
    <2>2. pc = "asking" /\ pc' = "execute" /\ UNCHANGED <<lapsed, rounds, calls>>
      BY <1>7 DEF Respond
    <2>3. PICK o : o = Of(calls, asking \ yes)
      OBVIOUS
    <2>4. Range(o) = Range(calls) \cap (asking \ yes)
      BY <2>3, <1>0, TakenOnce
    <2>5. asking \subseteq Range(calls) /\ approved = Range(calls) \ asking /\ Range(calls) \cap lapsed = {}
      BY <2>2, <1>0 DEF LapseOK, BatchOK
    <2>6. approved' \cup Range(o) = Range(calls) \ lapsed /\ approved' \cap Range(o) = {}
      BY <2>1, <2>4, <2>5
    <2>7. results' = o
      BY <2>1, <2>3
    <2>8. QED
      BY <2>2, <2>6, <2>7 DEF LapseOK
  <1>8. CASE ApprovalCancelled
    <2>1. /\ pc = "asking" /\ pc' = "execute" /\ UNCHANGED <<rounds, calls, approved, results>>
          /\ lapsed' = lapsed \cup asking
      BY <1>8 DEF ApprovalCancelled
    <2>2. asking \subseteq Range(calls) /\ approved = Range(calls) \ asking /\ Range(calls) \cap lapsed = {}
          /\ results = <<>> /\ Range(results) = {}
      BY <2>1, <1>0 DEF LapseOK, BatchOK, Range
    <2>3. \A c \in lapsed' : c.turn <= rounds
      BY <2>1, <2>2, <1>0, <1>1 DEF LapseOK
    <2>4. QED
      BY <2>1, <2>2, <2>3 DEF LapseOK
  <1>9. CASE Execute
    <2>1. pc = "execute" /\ UNCHANGED rounds
      BY <1>9 DEF Execute
    <2>2. CASE Leave /\ UNCHANGED lapsed
      BY <2>1, <2>2, <1>2 DEF Leave, LeaveWith
    <2>3. CASE ~(Leave /\ UNCHANGED lapsed)
      <3>1. PICK R : R = {c \in approved : c.kind = "risky"}
        OBVIOUS
      <3>2. PICK l \in SUBSET (approved \ R), g \in SUBSET R :
              /\ results' = OrderToolResults(calls,
                              results \o Of(calls, approved \ (R \cup l)) \o Of(calls, R \ g))
              /\ lapsed' = lapsed \cup l \cup g
              /\ pc' = "results" /\ calls' = calls
        BY <1>9, <2>3, <3>1, Zenon DEF Execute, Missable
      <3>a. PICK a \in Seq(Call), b \in Seq(Call) : a = Of(calls, approved \ (R \cup l)) /\ b = Of(calls, R \ g)
        <4>1. Of(calls, approved \ (R \cup l)) \in Seq(Call) /\ Of(calls, R \ g) \in Seq(Call)
          BY <1>0, OfType
        <4>2. QED
          BY <4>1, Zenon
      <3>3. /\ results' = Of(calls, Range((results \o a) \o b))
            /\ pc' = "results" /\ calls' = calls
        BY <3>2, <3>a DEF OrderToolResults
      <3>4. Range(a) = Range(calls) \cap (approved \ (R \cup l)) /\ Range(b) = Range(calls) \cap (R \ g)
        BY <3>a, <1>0, TakenOnce
      <3>5. Range((results \o a) \o b) = (Range(results) \cup Range(a)) \cup Range(b)
        <4>1. PICK ra \in Seq(Call) : ra = results \o a
          <5>1. results \o a \in Seq(Call)
            BY <1>0
          <5>2. QED
            BY <5>1, Zenon
        <4>2. Range(ra) = Range(results) \cup Range(a)
          BY <4>1, <1>0, RangeConcatenation
        <4>3. Range(ra \o b) = Range(ra) \cup Range(b)
          BY RangeConcatenation
        <4>4. QED
          BY <4>1, <4>2, <4>3
      <3>6. approved \subseteq Range(calls) /\ R \subseteq approved
            /\ approved \cup Range(results) = Range(calls) \ lapsed
            /\ approved \cap Range(results) = {}
        BY <2>1, <3>1, <1>0 DEF BatchOK, LapseOK
      <3>7. Range((results \o a) \o b) = Range(calls) \ lapsed'
        BY <3>2, <3>4, <3>5, <3>6
      <3>8. \A c \in lapsed' : c.turn <= rounds
        BY <3>2, <3>6, <1>0, <1>1 DEF LapseOK, TypeOK
      <3>9. QED
        BY <2>1, <3>3, <3>7, <3>8 DEF LapseOK
    <2>4. QED
      BY <2>2, <2>3
  <1>10. CASE SaveResults \/ EndTurn
    BY <1>10, <1>2 DEF SaveResults, EndTurn, GoesOn, Leave, LeaveWith, Go
  <1>11. CASE Submit \/ Retry \/ SubmitBusy \/ Delta \/ Cancel \/ Crash \/ UNCHANGED vars
    BY <1>11, <1>2, <1>3 DEF vars, Submit, Retry, SubmitBusy, Delta, Cancel, Crash
  <1>12. CASE Top \/ Prepare \/ Start \/ StreamFails \/ Abort
    BY <1>12, <1>2 DEF Top, Prepare, Start, StreamFails, Abort, Leave, LeaveWith, Go
  <1>13. QED
    BY <1>4, <1>5, <1>6, <1>7, <1>8, <1>9, <1>10, <1>11, <1>12 DEF Next, LoopStep

LEMMA SentStep ==
  ASSUME Inv, Inv', SentOK, [Next]_vars
  PROVE  SentOK'
  <1> USE DEF loopVars, waitVars, histVars, bounds
  <1>0. TypeOK /\ BatchOK /\ calls \in Seq(Call) /\ rounds \in Nat /\ sent \in Seq(Message)
        /\ CallsFit(store, rounds) /\ store \in Seq(Message)
    BY DEF Inv, NumbersOK, TypeOK
  <1>1. ASSUME NEW i \in 1 .. Len(sent), NEW c \in Range(sent[i].calls)
        PROVE  c.turn \in Nat
    <2>1. sent[i] \in Message
      BY <1>0
    <2>2. sent[i].calls \in Seq(Call)
      BY <2>1 DEF Message
    <2>3. c \in Call
      BY <2>2 DEF Range
    <2>4. QED
      BY <2>3 DEF Call
  <1>2. CASE sent' = sent /\ rounds' = rounds /\ calls' \in {calls, <<>>}
    BY <1>2 DEF SentOK
  <1>3. CASE StreamDone
    <2>1. PICK shape \in Shapes :
            /\ calls' = [i \in DOMAIN shape |-> [turn |-> rounds + 1, at |-> i, kind |-> shape[i]]]
            /\ rounds' = IF shape = <<>> THEN rounds ELSE rounds + 1
      BY <1>3 DEF StreamDone
    <2>2. sent' = sent
      BY <1>3 DEF StreamDone
    <2>3. rounds' \in {rounds, rounds + 1} /\ (calls' # <<>> => rounds' = rounds + 1)
      <3>1. Len(calls') = Len(shape) /\ (shape = <<>>) = (Len(shape) = 0) /\ calls' \in Seq(Call)
        BY <2>1, <1>0, CallsType
      <3>2. QED
        BY <2>1, <3>1
    <2>4. ASSUME NEW i \in 1 .. Len(sent), NEW c \in Range(sent[i].calls)
          PROVE  c.turn <= rounds' /\ (calls' # <<>> => c.turn < rounds')
      <3>1. c.turn \in Nat /\ c.turn <= rounds
        BY <1>1 DEF SentOK
      <3>2. QED
        BY <3>1, <2>3, <1>0
    <2>5. QED
      BY <2>2, <2>4 DEF SentOK
  <1>4. CASE Start
    <2>1. CASE sent' = View /\ UNCHANGED <<calls, rounds>>
      <3>1. CallsFit(View, rounds) /\ calls = <<>>
        BY <1>0, <1>4, OfFits DEF View, Start, BatchOK
      <3>2. QED
        BY <2>1, <3>1 DEF CallsFit, SentOK
    <2>2. CASE Leave /\ UNCHANGED <<sent, rounds>>
      BY <2>2, <1>2 DEF Leave, LeaveWith
    <2>3. QED
      BY <1>4, <2>1, <2>2 DEF Start, Go
  <1>5. CASE Submit \/ Retry \/ SubmitBusy \/ Delta \/ Respond \/ Cancel \/ Crash \/ UNCHANGED vars
    BY <1>5, <1>2 DEF vars, Submit, Retry, SubmitBusy, Delta, Respond, Cancel, Crash
  <1>6. CASE Top \/ Prepare \/ StreamFails \/ Abort \/ SaveAssistant \/ Approve \/ ApprovalCancelled
              \/ Execute \/ SaveResults \/ EndTurn
    BY <1>6, <1>2 DEF Top, Prepare, StreamFails, Abort, SaveAssistant, Approve,
          ApprovalCancelled, Execute, SaveResults, EndTurn, Leave, LeaveWith, Go, GoesOn
  <1>7. QED
    BY <1>3, <1>4, <1>5, <1>6 DEF Next, LoopStep

\* What is asked while the turn's calls wait ends with them.
LEMMA OpenEnds ==
  ASSUME Inv, pc \in Open
  PROVE  /\ Asked(store) \in Seq(Message) /\ Asked(store) # <<>>
         /\ Asked(store)[Len(Asked(store))].calls = calls
         /\ \A i \in 1 .. Len(Asked(store)) :
              i # Len(Asked(store)) => Range(Asked(store)[i].calls) \cap Range(calls) = {}
  <1>1. store \in Seq(Message) /\ CallsFit(store, rounds) /\ calls \in Seq(Call)
    BY DEF Inv, TypeOK, NumbersOK
  <1>2. PICK d \in active : d.at = Len(store) /\ store[d.at] = Answer(calls)
    BY DEF Inv, DraftOK, Open
  <1>3. Len(store) \in 1 .. Len(store)
    BY <1>2 DEF Inv, TypeOK
  <1>4. PICK a \in Seq(Message), m \in Message : store = Append(a, m) /\ Len(store) = Len(a) + 1
    BY <1>1, <1>3, SequenceEnds
  <1>5. m = Answer(calls)
    BY <1>2, <1>4
  <1>6. Asked(store) = Append(Asked(a), m)
    BY <1>1, <1>4, <1>5, AskedAppend, WhatIsAsked
  <1>7. PICK v \in Seq(Message) : v = Asked(a)
    BY AskedType
  <1>8. PICK w \in Seq(Message) : w = Asked(store)
    BY <1>1, AskedType
  <1>9. w = Append(v, m)
    BY <1>6, <1>7, <1>8
  <1>10. w # <<>> /\ Len(w) = Len(v) + 1 /\ w[Len(w)] = m /\ Len(w) \in 1 .. Len(w)
    BY <1>9
  <1>11. m.calls = calls
    BY <1>5 DEF Answer, User
  <1>12. CallsFit(w, rounds)
    BY <1>1, <1>8, OfFits DEF Asked
  <1>13. \A i \in 1 .. Len(w) : i # Len(w) => Range(w[i].calls) \cap Range(calls) = {}
    BY <1>10, <1>11, <1>12 DEF CallsFit
  <1>14. QED
    BY <1>8, <1>10, <1>11, <1>13

\* What a cancellation leaves without a result is of the turn.
LEMMA LapsesMore ==
  ASSUME Inv, ApprovalCancelled \/ Execute
  PROVE  \E more \in SUBSET Range(calls) : lapsed' = lapsed \cup more
  <1>1. asking \subseteq Range(calls) /\ approved \subseteq Range(calls) /\ lapsed = lapsed \cup {}
    BY DEF Inv, BatchOK
  <1>2. CASE ApprovalCancelled
    BY <1>1, <1>2 DEF ApprovalCancelled
  <1>3. CASE Execute
    <2>1. CASE UNCHANGED lapsed
      BY <1>1, <2>1
    <2>2. CASE ~UNCHANGED lapsed
      <3>1. PICK l \in SUBSET approved, g \in SUBSET approved : lapsed' = lapsed \cup l \cup g
        BY <1>3, <2>2 DEF Execute, Missable
      <3>2. l \cup g \in SUBSET Range(calls) /\ lapsed' = lapsed \cup (l \cup g)
        BY <1>1, <3>1
      <3>3. QED
        BY <3>2
    <2>3. QED
      BY <2>1, <2>2
  <1>4. QED
    BY <1>2, <1>3

LEMMA AnsweredStep ==
  ASSUME Inv, Inv', LapseOK, SentOK, AnsweredOK, [Next]_vars
  PROVE  AnsweredOK'
  <1> USE DEF loopVars, waitVars, histVars, bounds
  <1> SUFFICES ASSUME failures' = 0, crashes' = 0
               PROVE  /\ \A i \in 1 .. Len(sent') : sent'[i].calls # <<>> => Answered(sent', i, lapsed')
                      /\ \A i \in 1 .. Len(Asked(store')) : Asked(store')[i].calls # <<>> =>
                           \/ Answered(Asked(store'), i, lapsed')
                           \/ i = Len(Asked(store')) /\ pc' \in Open
    BY DEF AnsweredOK
  <1>0. TypeOK /\ store \in Seq(Message) /\ store' \in Seq(Message) /\ sent \in Seq(Message)
        /\ failures \in Nat /\ crashes \in Nat /\ calls \in Seq(Call)
    BY DEF Inv, TypeOK
  <1>1. failures' = failures /\ crashes' = crashes /\ ~Fail /\ ~Crash
    <2>0. ~Crash
      BY <1>0 DEF Crash
    <2>1. ~Fail
      BY <1>0 DEF Fail
    <2>2. crashes' = crashes
      BY <2>0 DEF Next, LoopStep, vars, Submit, Retry, SubmitBusy, Delta, Respond, Cancel, Crash,
            Top, Prepare, Start, StreamDone, StreamFails, Abort, SaveAssistant, Approve,
            ApprovalCancelled, Execute, SaveResults, EndTurn
    <2>3. failures' = failures
      BY <2>1 DEF Next, LoopStep, vars, Submit, Retry, SubmitBusy, Delta, Respond, Cancel, Crash,
            Top, Prepare, Start, StreamDone, StreamFails, Abort, SaveAssistant, Approve,
            ApprovalCancelled, Execute, SaveResults, EndTurn
    <2>4. QED
      BY <2>0, <2>1, <2>2, <2>3
  <1>2. PICK v \in Seq(Message) : v = Asked(store)
    BY <1>0, AskedType
  <1>3. /\ \A i \in 1 .. Len(sent) : sent[i].calls # <<>> => Answered(sent, i, lapsed)
        /\ \A i \in 1 .. Len(v) : v[i].calls # <<>> =>
             Answered(v, i, lapsed) \/ (i = Len(v) /\ pc \in Open)
    BY <1>1, <1>2 DEF AnsweredOK
  \* the latest request
  <1>4. CASE Start /\ sent' # sent
    <2>1. sent' = v /\ lapsed' = lapsed /\ pc = "start"
      BY <1>4, <1>2 DEF Start, View, Asked
    <2>2. QED
      <3>1. \A i \in 1 .. Len(sent') : sent'[i].calls # <<>> => Answered(sent', i, lapsed')
        BY <2>1, <1>3 DEF Open
      <3>2. Asked(store') = v /\ pc' = "stream"
        <4>1. store' = Append(store, Draft)
          BY <1>4 DEF Start
        <4>2. Asked(store') = Asked(store)
          BY <4>1, <1>0, AskedAppend, WhatIsAsked, MessageTypes
        <4>3. QED
          BY <4>2, <1>2, <1>4 DEF Start, Go
      <3>3. QED
        BY <2>1, <3>1, <3>2
  <1>5. ASSUME sent' = sent PROVE \A i \in 1 .. Len(sent') : sent'[i].calls # <<>> => Answered(sent', i, lapsed')
    <2>1. CASE lapsed' = lapsed
      BY <2>1, <1>3, <1>5
    <2>2. CASE ApprovalCancelled \/ Execute
      <3>1. PICK more \in SUBSET Range(calls) : lapsed' = lapsed \cup more
        BY <2>2, LapsesMore
      <3>2. ASSUME NEW i \in 1 .. Len(sent) PROVE Range(sent[i].calls) \cap more = {}
        <4> SUFFICES ASSUME NEW c \in Range(sent[i].calls), c \in more PROVE FALSE
          OBVIOUS
        <4>1. c \in Range(calls) /\ calls # <<>>
          BY <3>1 DEF Range
        <4>2. c.turn = rounds
          BY <4>1, <1>0 DEF Inv, NumbersOK, CallNumbers, Range
        <4>3. c.turn < rounds /\ rounds \in Nat
          BY <4>1, <1>0 DEF SentOK, TypeOK
        <4>4. QED
          BY <4>2, <4>3
      <3>3. QED
        BY <3>1, <3>2, <1>3, <1>5, AnsweredLapse
    <2>3. lapsed' = lapsed \/ ApprovalCancelled \/ Execute
      BY DEF Next, LoopStep, vars, Submit, Retry, SubmitBusy, Delta, Respond, Cancel, Crash,
            Top, Prepare, Start, StreamDone, StreamFails, Abort, SaveAssistant, Approve,
            SaveResults, EndTurn
    <2>4. QED
      BY <2>1, <2>2, <2>3
  <1>6. sent' = sent \/ Start
    BY DEF Next, LoopStep, vars, Submit, Retry, SubmitBusy, Delta, Respond, Cancel, Crash,
            Top, Prepare, StreamDone, StreamFails, Abort, SaveAssistant, Approve,
            ApprovalCancelled, Execute, SaveResults, EndTurn
  \* what is asked next
  <1> DEFINE Fine(t, q, L) == \A i \in 1 .. Len(t) : t[i].calls # <<>> =>
                                Answered(t, i, L) \/ (i = Len(t) /\ q)
  <1>7. CASE pc \in Open /\ ~SaveResults
    <2>1. /\ store' = store /\ pc' \in Open
          /\ \E more \in SUBSET Range(calls) : lapsed' = lapsed \cup more
      <3>0. lapsed = lapsed \cup {}
        OBVIOUS
      <3>1. CASE SubmitBusy \/ Respond \/ Cancel \/ Crash \/ UNCHANGED vars \/ Submit \/ Retry \/ Delta
        BY <3>0, <3>1, <1>1, <1>7 DEF vars, SubmitBusy, Respond, Cancel, Submit, Retry, Delta, Open
      <3>2. CASE Approve
        BY <3>0, <3>2, <1>1, <1>7 DEF Approve, Open
      <3>3. CASE ApprovalCancelled \/ Execute
        BY <3>3, <1>1, <1>7, LapsesMore DEF ApprovalCancelled, Execute, Open
      <3>4. CASE Top \/ Prepare \/ Start \/ StreamDone \/ StreamFails \/ Abort \/ SaveAssistant \/ EndTurn
        BY <3>4, <1>7 DEF Top, Prepare, Start, StreamDone, StreamFails, Abort, SaveAssistant, EndTurn, Open
      <3>5. QED
        BY <1>7, <3>1, <3>2, <3>3, <3>4 DEF Next, LoopStep
    <2>a. PICK more \in SUBSET Range(calls) : lapsed' = lapsed \cup more
      BY <2>1
    <2>2. \A i \in 1 .. Len(v) : i # Len(v) => Range(v[i].calls) \cap more = {}
      BY <1>2, <1>7, OpenEnds DEF Inv, BatchOK
    <2>3. ASSUME NEW i \in 1 .. Len(v), v[i].calls # <<>>
          PROVE  Answered(v, i, lapsed') \/ i = Len(v)
      <3> SUFFICES ASSUME i # Len(v) PROVE Answered(v, i, lapsed')
        OBVIOUS
      <3>1. Answered(v, i, lapsed) /\ Range(v[i].calls) \cap more = {}
        BY <2>2, <2>3, <1>3
      <3>2. Answered(v, i, lapsed \cup more)
        BY <3>1, AnsweredLapse
      <3>3. QED
        BY <2>a, <3>1, <3>2
    <2>4. QED
      BY <2>1, <2>3, <1>2, <1>5, <1>6, <1>7 DEF Start, Open
  <1>8. CASE SaveResults
    <2>1. PICK new : new = [i \in DOMAIN results |-> Result(results[i])]
      OBVIOUS
    <2>2. /\ pc = "results" /\ store' = store \o new
          /\ lapsed' = lapsed /\ sent' = sent
      BY <2>1, <1>1, <1>8 DEF SaveResults
    <2>3. results \in Seq(Call) /\ DOMAIN results = 1 .. Len(results) /\ Len(results) \in Nat
      BY <1>0 DEF TypeOK
    <2>4. new \in Seq(Message) /\ Len(new) = Len(results)
      BY <2>1, <2>3, ResultsType
    <2>5. \A k \in 1 .. Len(new) : new[k].call = {results[k]} /\ new[k].calls = <<>> /\ new[k] \in Requestable
      <3>1. \A k \in 1 .. Len(results) : new[k] = Result(results[k]) /\ results[k] \in Call
        BY <2>1, <2>3
      <3>2. \A c \in Call : Result(c).call = {c} /\ Result(c).calls = <<>>
        BY DEF Result, User
      <3>3. \A c \in Call : Result(c) \in Requestable
        BY WhatIsAsked
      <3>4. QED
        BY <2>4, <3>1, <3>2, <3>3
    <2>6. Asked(new) = new
      <3>1. new \in Seq(Requestable)
        BY <2>4, <2>5
      <3>2. QED
        BY <3>1, OfMembers DEF Asked
    <2>7. Asked(store') = v \o new
      <3>1. \A p, q \in Seq(Message) : Of(p \o q, Requestable) = Of(p, Requestable) \o Of(q, Requestable)
        BY ONLY OfBoth
      <3>2. Of(store \o new, Requestable) = Of(store, Requestable) \o Of(new, Requestable)
        BY ONLY <3>1, <1>0, <2>4, Zenon
      <3>3. QED
        BY <3>2, <2>2, <2>6, <1>2 DEF Asked
    <2>8. PICK n : n = Len(v)
      OBVIOUS
    <2>9. n \in 1 .. Len(v) /\ v[n].calls = calls /\ results = Of(calls, Range(calls) \ lapsed)
      <3>1. v # <<>> /\ v[n].calls = calls
        BY <2>2, <2>8, <1>2, OpenEnds DEF Open
      <3>2. QED
        BY <2>2, <2>8, <3>1 DEF LapseOK
    <2>10. PICK t : t = v \o new
      OBVIOUS
    <2>11. Len(t) = n + Len(new) /\ n \in Nat
           /\ \A i \in 1 .. Len(t) : t[i] = IF i <= n THEN v[i] ELSE new[i - n]
      <3>1. /\ Len(v \o new) = Len(v) + Len(new)
            /\ \A i \in 1 .. Len(v) + Len(new) : (v \o new)[i] = IF i <= Len(v) THEN v[i] ELSE new[i - Len(v)]
        BY <2>4, ConcatProperties
      <3>2. Len(v) \in Nat
        OBVIOUS
      <3>3. QED
        BY <3>1, <3>2, <2>8, <2>10
    <2>12. ASSUME NEW i \in 1 .. Len(t), t[i].calls # <<>> PROVE Answered(t, i, lapsed)
      <3>1. CASE i < n
        <4>1. i \in 1 .. Len(v) /\ t[i] = v[i] /\ i # Len(v)
          BY <3>1, <2>8, <2>11
        <4>2. Answered(v, i, lapsed)
          BY <4>1, <2>12, <1>3
        <4>3. QED
          BY <4>1, <4>2, <2>4, <2>10, AnsweredMore
      <3>2. CASE i = n
        <4>1. t[i].calls = calls
          BY <3>2, <2>9, <2>11
        <4>2. Len(results) \in Nat /\ i + Len(results) <= Len(t)
          BY <3>2, <2>3, <2>4, <2>11
        <4>3. ASSUME NEW k \in 1 .. Len(results) PROVE t[i + k].call = {results[k]}
          <5>1. i + k \in 1 .. Len(t) /\ ~(i + k <= n) /\ (i + k) - n = k
            BY <3>2, <4>2, <2>11
          <5>2. t[i + k] = new[k]
            BY <5>1, <2>11
          <5>3. QED
            BY <5>2, <2>4, <2>5
        <4>4. QED
          BY <4>1, <4>2, <4>3, <2>9 DEF Answered
      <3>3. CASE i > n
        <4>1. i - n \in 1 .. Len(new) /\ ~(i <= n)
          BY <3>3, <2>4, <2>3, <2>11
        <4>2. QED
          BY <4>1, <2>5, <2>11, <2>12
      <3>4. QED
        BY <3>1, <3>2, <3>3, <2>11
    <2>13. QED
      BY <2>2, <2>7, <2>10, <2>12, <1>5
  <1>9. CASE SaveAssistant
    <2>1. PICK d \in active : store' = [store EXCEPT ![d.at] = Answer(calls)]
      BY <1>1, <1>9 DEF SaveAssistant
    <2>2. pc = "save" /\ lapsed' = lapsed /\ sent' = sent
          /\ (calls # <<>> => pc' \in Open)
      BY <1>1, <1>9 DEF SaveAssistant, Go, Open
    <2>3. d.at \in 1 .. Len(store) /\ d.at = Len(store) /\ IsDraft(store[d.at])
      BY <2>1, <2>2 DEF Inv, DraftOK, TypeOK
    <2>4. PICK a \in Seq(Message), m \in Message : store = Append(a, m) /\ Len(store) = Len(a) + 1
      BY <1>0, <2>3, SequenceEnds
    <2>5. PICK n \in Message : n = Answer(calls)
      BY <1>0, MessageTypes
    <2>6. store' = Append(a, n) /\ m = store[d.at]
      <3>1. d.at = Len(a) + 1
        BY <2>3, <2>4
      <3>2. [Append(a, m) EXCEPT ![Len(a) + 1] = n] = Append(a, n) /\ Append(a, m)[Len(a) + 1] = m
        <4>1. PICK x \in Seq(Message), y \in Seq(Message) : x = Append(a, m) /\ y = Append(a, n)
          <5>1. Append(a, m) \in Seq(Message) /\ Append(a, n) \in Seq(Message)
            OBVIOUS
          <5>2. QED
            BY <5>1, Zenon
        <4>2. /\ Len(x) = Len(a) + 1 /\ Len(y) = Len(a) + 1 /\ Len(a) \in Nat
              /\ \A k \in 1 .. Len(a) + 1 : x[k] = IF k = Len(a) + 1 THEN m ELSE a[k]
              /\ \A k \in 1 .. Len(a) + 1 : y[k] = IF k = Len(a) + 1 THEN n ELSE a[k]
          BY <4>1, AppendProperties
        <4>3. PICK z : z = [x EXCEPT ![Len(a) + 1] = n]
          OBVIOUS
        <4>4. z \in Seq(Message) /\ Len(z) = Len(y)
          BY <4>2, <4>3
        <4>5. \A k \in 1 .. Len(y) : z[k] = y[k]
          BY <4>2, <4>3
        <4>6. z = y
          BY <4>4, <4>5, SeqEqual
        <4>7. x[Len(a) + 1] = m
          <5>1. Len(a) + 1 \in 1 .. Len(a) + 1
            BY <4>2
          <5>2. QED
            BY <5>1, <4>2
        <4>8. QED
          BY <4>1, <4>3, <4>6, <4>7
      <3>3. QED
        BY <3>1, <3>2, <2>1, <2>4, <2>5
    <2>7. m \notin Requestable /\ n \in Requestable /\ n.calls = calls
      <3>1. m.state = "live"
        BY <2>3, <2>6 DEF IsDraft
      <3>2. QED
        BY <3>1, <2>5, <1>0, WhatIsAsked DEF Requestable, Answer, User
    <2>8. Asked(store') = Append(v, n)
      BY <2>4, <2>6, <2>7, <1>2, AskedAppend
    <2>9. PICK t : t = Append(v, n)
      OBVIOUS
    <2>10. Len(t) = Len(v) + 1 /\ t = v \o <<n>> /\ <<n>> \in Seq(Message) /\ t[Len(v) + 1] = n
           /\ Len(v) \in Nat /\ \A i \in 1 .. Len(v) : t[i] = v[i]
      BY <2>9
    <2>11. ASSUME NEW i \in 1 .. Len(t), t[i].calls # <<>>
           PROVE  Answered(t, i, lapsed') \/ (i = Len(t) /\ pc' \in Open)
      <3>1. CASE i \in 1 .. Len(v)
        <4>1. Answered(v, i, lapsed)
          BY <3>1, <2>2, <2>10, <2>11, <1>3 DEF Open
        <4>2. Answered(t, i, lapsed)
          BY <3>1, <4>1, <2>10, AnsweredMore
        <4>3. QED
          BY <4>2, <2>2
      <3>2. CASE i = Len(v) + 1
        BY <3>2, <2>2, <2>7, <2>10, <2>11
      <3>3. QED
        BY <3>1, <3>2, <2>10
    <2>12. QED
      BY <2>2, <2>8, <2>9, <2>11, <1>5
  <1>10. CASE pc \notin Open /\ ~SaveAssistant /\ ~SaveResults /\ ~(Start /\ sent' # sent)
    <2>1. ~Saves
      BY <1>10 DEF Saves, Open, Next, LoopStep, vars, Submit, Retry, SubmitBusy, Delta, Respond, Cancel, Crash,
            Top, Prepare, Start, StreamDone, StreamFails, Abort, Approve, ApprovalCancelled, Execute, EndTurn
    <2>2. PICK b : Asks(store', store, b)
      BY <2>1, AskedStep DEF Inv
    <2>3. lapsed' = lapsed
      BY <1>10 DEF Open, Next, LoopStep, vars, Submit, Retry, SubmitBusy, Delta, Respond, Cancel, Crash,
            Top, Prepare, Start, StreamDone, StreamFails, Abort, Approve, ApprovalCancelled, Execute, EndTurn
    <2>4. PICK t : t = v \o b
      OBVIOUS
    <2>5. b \in Seq(Message) /\ Asked(store') = t /\ \A k \in 1 .. Len(b) : b[k].calls = <<>>
      BY <2>2, <2>4, <1>2 DEF Asks
    <2>6. Len(t) = Len(v) + Len(b) /\ Len(v) \in Nat /\ Len(b) \in Nat
          /\ \A i \in 1 .. Len(t) : t[i] = IF i <= Len(v) THEN v[i] ELSE b[i - Len(v)]
      BY <2>4, <2>5, ConcatProperties
    <2>7. ASSUME NEW i \in 1 .. Len(t), t[i].calls # <<>> PROVE Answered(t, i, lapsed)
      <3>1. CASE i <= Len(v)
        <4>1. i \in 1 .. Len(v) /\ t[i] = v[i]
          BY <3>1, <2>6
        <4>2. Answered(v, i, lapsed)
          BY <4>1, <2>7, <1>3, <1>10
        <4>3. QED
          BY <4>1, <4>2, <2>4, <2>5, AnsweredMore
      <3>2. CASE ~(i <= Len(v))
        <4>1. i - Len(v) \in 1 .. Len(b)
          BY <3>2, <2>6
        <4>2. QED
          BY <3>2, <4>1, <2>5, <2>6, <2>7
      <3>3. QED
        BY <3>1, <3>2
    <2>8. QED
      BY <2>3, <2>5, <2>7, <1>5, <1>6, <1>10
  <1>11. QED
    BY <1>4, <1>7, <1>8, <1>9, <1>10

LEMMA AnsweredInit == Init => LapseOK /\ SentOK /\ AnsweredOK
  <1> SUFFICES ASSUME Init PROVE LapseOK /\ SentOK /\ AnsweredOK
    OBVIOUS
  <1>1. Len(<<>>) = 0 /\ 1 .. 0 = {}
    OBVIOUS
  <1>2. store = <<>> /\ sent = <<>> /\ lapsed = {} /\ pc = "off" /\ Asked(store) = <<>>
    BY OfEmpty DEF Init, Asked
  <1>3. QED
    BY <1>1, <1>2 DEF LapseOK, SentOK, AnsweredOK

\* Unless a write, a request, a batch or the process has failed, every request carries
\* behind a message with tool calls its results, in the order of the calls: what
\* order_tool_results restores survives approval, rejection and cancellation, and only
\* calls of a cancelled approval are missing.
THEOREM RequestsAreAnswered == Spec => []CallsAnswered
  <1>1. Inv /\ AnsweredOK => CallsAnswered
    <2> SUFFICES ASSUME Inv, AnsweredOK, failures = 0, crashes = 0,
                        NEW i \in DOMAIN sent, sent[i].calls # <<>>
                 PROVE  AnswersOf(sent, i)
      BY DEF CallsAnswered
    <2>1. sent \in Seq(Message) /\ i \in 1 .. Len(sent)
      BY DEF Inv, TypeOK
    <2>2. Answered(sent, i, lapsed)
      BY <2>1 DEF AnsweredOK
    <2>3. QED
      BY <2>1, <2>2, AnsweredMeans
  <1>2. Inv /\ Inv' /\ [Next]_vars /\ LapseOK /\ SentOK /\ AnsweredOK => (LapseOK /\ SentOK /\ AnsweredOK)'
    BY LapseStep, SentStep, AnsweredStep
  <1>3. QED
    BY <1>1, <1>2, AnsweredInit, Invariance, PTL DEF Spec
=============================================================================
