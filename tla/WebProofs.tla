------------------------------ MODULE WebProofs ------------------------------
(***************************************************************************)
(* Proofs about what a tab of the web client receives and shows.           *)
(*                                                                         *)
(* EventStream, for any number of tabs, any capacity of the window and any *)
(* number of events, breaks and restarts: the streams have no hole, and    *)
(* what a tab misses or repeats is explained by EventSources that          *)
(* reconnect by themselves.                                                *)
(*                                                                         *)
(* ChatView, for any sessions and any number of prompts, selections,       *)
(* undos and requests: a page at rest shows what is stored, and loads that *)
(* race hide nothing.                                                      *)
(***************************************************************************)
EXTENDS EventStream, ChatView, SequenceTheorems, FiniteSetTheorems, WellFoundedInduction, TLAPS

-----------------------------------------------------------------------------
(* The inductive invariant.                                                *)

\* The window is the last events of this process, and nothing is published that
\* was not emitted.
Window ==
  /\ oldest <= Latest
  /\ (oldest = 0) <=> (next = 1)
  /\ base + Latest <= emitted

\* A marker comes first or not at all, and only an open connection delivers.
Marked(s) == \A i \in 1 .. Len(s) : i > 1 => s[i] # Resync

Connected ==
  \A t \in Tabs : /\ Marked(stream[t])
                  /\ link[t] # "open" => stream[t] = <<>>

\* The event a tab applied last is published, and no newer than its cursor says.
Reached(t) ==
  /\ last[t] <= base + Latest
  /\ last[t] <= base + cursor[t]
  /\ restarts = 0 => base = 0 /\ after[t] <= cursor[t] /\ cursor[t] <= Latest
  /\ restarts = 0 /\ last[t] # 0 => cursor[t] = last[t]

\* The next event a tab will be given, if it comes without a marker.
Coming(t) == IF stream[t] = <<>> THEN next ELSE Head(stream[t])

\* It is not too late for it, ...
NoGap(t) ==
  restarts = 0 /\ t \notin blind /\ link[t] = "open" /\ last[t] # 0 =>
    Coming(t) <= last[t] + 1

\* ... and not too early.
NoRepeat(t) ==
  t \notin retried /\ link[t] = "open" /\ Coming(t) # Resync =>
    base + Coming(t) > last[t]

\* What a stream delivers is newer than the cursor it was opened with.
Above(s, a) == \A i \in 1 .. Len(s) : s[i] # Resync => s[i] > a

Newer(t) == restarts = 0 => Above(stream[t], after[t])

Tracked == \A t \in Tabs : Reached(t) /\ NoGap(t) /\ NoRepeat(t) /\ Newer(t)

Inv ==
  /\ TypeOK /\ Window /\ WholeStream /\ Connected /\ Tracked
  /\ GapsExplained /\ RepeatsExplained

-----------------------------------------------------------------------------
(* Streams: what appending, applying and subscribing make of them.         *)

\* The shape WholeStream and Connected give to one stream.
Suffix(s, n) ==
  /\ \A i \in 1 .. Len(s) : \/ s[i] + Len(s) = n + i
                            \/ i = 1 /\ s[i] = Resync
  /\ Marked(s)

LEMMA EmptySuffix ==
  /\ <<>> \in Seq(Nat)
  /\ \A n \in Nat : Suffix(<<>>, n) /\ Above(<<>>, n)
  BY EmptySeq DEF Suffix, Marked, Above

LEMMA NoLength ==
  ASSUME NEW s \in Seq(Nat)
  PROVE  s = <<>> <=> Len(s) = 0
  BY EmptySeq

LEMMA AppendSuffix ==
  ASSUME NEW s \in Seq(Nat), NEW n \in Nat \ {0}, Suffix(s, n - 1)
  PROVE  /\ Append(s, n) \in Seq(Nat)
         /\ Suffix(Append(s, n), n)
         /\ Append(s, n) # <<>>
         /\ Head(Append(s, n)) = IF s = <<>> THEN n ELSE Head(s)
         /\ \A a \in Nat : Above(s, a) /\ n > a => Above(Append(s, n), a)
  <1> DEFINE r == Append(s, n)
  <1>1. /\ r \in Seq(Nat) /\ Len(r) = Len(s) + 1
        /\ \A i \in 1 .. Len(s) : r[i] = s[i]
        /\ r[Len(s) + 1] = n
    BY AppendProperties
  <1>2. Len(s) \in Nat /\ \A i \in 1 .. Len(s) : s[i] \in Nat
    BY LenProperties, ElementOfSeq
  <1>3. Suffix(r, n)
    <2>1. Marked(r)
      <3> SUFFICES ASSUME NEW i \in 1 .. Len(r), i > 1 PROVE r[i] # Resync
        BY DEF Marked
      <3>1. CASE i \in 1 .. Len(s)
        BY <1>1, <3>1 DEF Suffix, Marked
      <3>2. CASE i = Len(s) + 1
        BY <1>1, <3>2 DEF Resync
      <3>3. QED
        BY <1>1, <1>2, <3>1, <3>2
    <2>2. ASSUME NEW i \in 1 .. Len(r)
          PROVE  r[i] + Len(r) = n + i \/ (i = 1 /\ r[i] = Resync)
      <3>1. CASE i \in 1 .. Len(s)
        <4>1. s[i] + Len(s) = (n - 1) + i \/ (i = 1 /\ s[i] = Resync)
          BY <3>1 DEF Suffix
        <4>2. s[i] \in Nat /\ r[i] = s[i] /\ i \in Nat
          BY <1>1, <1>2, <3>1
        <4>3. CASE s[i] + Len(s) = (n - 1) + i
          <5>1. PICK x \in Nat, l \in Nat : x = s[i] /\ l = Len(s)
            BY <1>2, <4>2
          <5>2. x + l = (n - 1) + i
            BY <4>3, <5>1
          <5>3. x + (l + 1) = n + i
            BY <4>2, <5>2
          <5>4. QED
            BY <1>1, <4>2, <5>1, <5>3
        <4>4. QED
          BY <4>1, <4>2, <4>3
      <3>2. CASE i = Len(s) + 1
        BY <1>1, <1>2, <3>2
      <3>3. QED
        BY <1>1, <1>2, <3>1, <3>2
    <2>3. QED
      BY <2>1, <2>2 DEF Suffix
  <1>4. r # <<>> /\ Head(r) = r[1]
    BY <1>1, <1>2, EmptySeq, HeadTailProperties
  <1>5. Head(r) = IF s = <<>> THEN n ELSE Head(s)
    <2>1. CASE s = <<>>
      BY <1>1, <1>4, <2>1, EmptySeq
    <2>2. CASE s # <<>>
      <3>1. Len(s) > 0 /\ Head(s) = s[1]
        BY <2>2, HeadTailProperties, EmptySeq
      <3>2. QED
        BY <1>1, <1>2, <1>4, <2>2, <3>1
    <2>3. QED
      BY <2>1, <2>2
  <1>6. ASSUME NEW a \in Nat, Above(s, a), n > a
        PROVE  Above(r, a)
    <2> SUFFICES ASSUME NEW i \in 1 .. Len(r), r[i] # Resync PROVE r[i] > a
      BY DEF Above
    <2>1. CASE i \in 1 .. Len(s)
      BY <1>1, <1>6, <2>1 DEF Above
    <2>2. CASE i = Len(s) + 1
      BY <1>1, <1>6, <2>2
    <2>3. QED
      BY <1>1, <1>2, <2>1, <2>2
  <1>7. QED
    BY <1>1, <1>3, <1>4, <1>5, <1>6

LEMMA TailSuffix ==
  ASSUME NEW s \in Seq(Nat), s # <<>>, NEW n \in Nat, Suffix(s, n)
  PROVE  /\ Head(s) \in Nat /\ Tail(s) \in Seq(Nat)
         /\ Suffix(Tail(s), n)
         /\ Head(s) # Resync => /\ Head(s) <= n
                                /\ Tail(s) = <<>> => Head(s) = n
                                /\ Tail(s) # <<>> => Head(Tail(s)) = Head(s) + 1
         /\ Tail(s) # <<>> => Head(Tail(s)) # Resync
  <1> DEFINE r == Tail(s)
  <1>1. /\ Head(s) \in Nat /\ Head(s) = s[1] /\ r \in Seq(Nat)
        /\ Len(r) = Len(s) - 1
        /\ \A i \in 1 .. Len(r) : r[i] = s[i + 1]
    BY HeadTailProperties, ElementOfSeq
  <1>2. Len(s) \in Nat \ {0} /\ \A i \in 1 .. Len(s) : s[i] \in Nat
    BY EmptySeq, LenProperties, ElementOfSeq
  <1>3. ASSUME NEW i \in 1 .. Len(r)
        PROVE  r[i] # Resync /\ r[i] + Len(r) = n + i
    <2>1. i + 1 \in 1 .. Len(s) /\ i + 1 > 1 /\ i + 1 # 1 /\ i \in Nat
      BY <1>1, <1>2
    <2>2. s[i + 1] # Resync
      BY <2>1 DEF Suffix, Marked
    <2>3. s[i + 1] + Len(s) = n + (i + 1) /\ s[i + 1] \in Nat
      BY <1>2, <2>1 DEF Suffix
    <2>4. PICK x \in Nat, l \in Nat : x = s[i + 1] /\ l = Len(s)
      BY <1>2, <2>3
    <2>5. x + (l - 1) = n + i
      <3>1. x + l = n + (i + 1)
        BY <2>3, <2>4
      <3>2. QED
        BY <2>1, <3>1
    <2>6. r[i] = x /\ Len(r) = l - 1
      BY <1>1, <2>4
    <2>7. QED
      BY <2>2, <2>4, <2>5, <2>6
  <1>4. Suffix(r, n)
    BY <1>3 DEF Suffix, Marked
  <1>5. ASSUME Head(s) # Resync
        PROVE  Head(s) + Len(s) = n + 1
    BY <1>1, <1>2, <1>5 DEF Suffix
  <1>6. ASSUME r # <<>>
        PROVE  Head(r) # Resync /\ Head(r) + Len(r) = n + 1 /\ Head(r) \in Nat
    <2>1. 1 \in 1 .. Len(r) /\ Head(r) = r[1] /\ Head(r) \in Nat
      BY <1>1, <1>2, <1>6, EmptySeq, HeadTailProperties, ElementOfSeq
    <2>2. QED
      BY <1>3, <2>1
  <1>7. ASSUME r = <<>>
        PROVE  Len(s) = 1
    <2>1. Len(r) = 0
      BY <1>1, <1>7, NoLength
    <2>2. PICK l \in Nat : l = Len(s)
      BY <1>2
    <2>3. 0 = l - 1
      BY <1>1, <2>1, <2>2
    <2>4. l = 1
      BY <2>3
    <2>5. QED
      BY <2>2, <2>4
  <1>8. ASSUME Head(s) # Resync
        PROVE  /\ Head(s) <= n
               /\ r = <<>> => Head(s) = n
               /\ r # <<>> => Head(r) = Head(s) + 1
    <2>1. PICK x \in Nat, l \in Nat \ {0} : x = Head(s) /\ l = Len(s)
      BY <1>1, <1>2
    <2>2. x + l = n + 1
      BY <1>5, <1>8, <2>1
    <2>3. x <= n /\ (l = 1 => x = n)
      BY <2>2
    <2>4. ASSUME r # <<>>
          PROVE  Head(r) = Head(s) + 1
      <3>1. PICK y \in Nat : y = Head(r)
        BY <1>6, <2>4
      <3>2. y + (l - 1) = n + 1
        BY <1>1, <1>6, <2>1, <2>4, <3>1
      <3>3. y = x + 1
        BY <2>2, <3>2
      <3>4. QED
        BY <2>1, <3>1, <3>3
    <2>5. QED
      BY <1>7, <2>1, <2>3, <2>4
  <1>9. QED
    BY <1>1, <1>4, <1>6, <1>8

LEMMA TailAbove ==
  ASSUME NEW s \in Seq(Nat), s # <<>>, NEW a \in Nat, Above(s, a)
  PROVE  Above(Tail(s), a) /\ (Head(s) # Resync => Head(s) > a)
  <1> DEFINE r == Tail(s)
  <1>1. /\ Head(s) = s[1] /\ r \in Seq(Nat) /\ Len(r) = Len(s) - 1
        /\ \A i \in 1 .. Len(r) : r[i] = s[i + 1]
    BY HeadTailProperties
  <1>2. Len(s) \in Nat \ {0}
    BY EmptySeq
  <1>3. ASSUME NEW i \in 1 .. Len(r), r[i] # Resync
        PROVE  r[i] > a
    <2>1. i + 1 \in 1 .. Len(s) /\ r[i] = s[i + 1]
      BY <1>1, <1>2
    <2>2. QED
      BY <1>3, <2>1 DEF Above
  <1>4. 1 \in 1 .. Len(s)
    BY <1>2
  <1>5. QED
    BY <1>1, <1>3, <1>4 DEF Above

\* The event that follows, when a subscription is answered with s.
First(s) == IF s = <<>> THEN next ELSE Head(s)

LEMMA FromSuffix ==
  ASSUME next \in Nat \ {0}, NEW n \in 1 .. Latest
  PROVE  /\ From(n) \in Seq(Nat)
         /\ Suffix(From(n), Latest)
         /\ From(n) # <<>>
         /\ Head(From(n)) = n
         /\ \A a \in Nat : a < n => Above(From(n), a)
  <1> DEFINE s == From(n)
  <1>1. next - n \in Nat \ {0} /\ n \in Nat \ {0}
    BY DEF Latest
  <1>2. /\ s \in Seq(Nat) /\ Len(s) = next - n
        /\ \A i \in 1 .. next - n : s[i] = n + i - 1
    BY <1>1 DEF From
  <1>3. Suffix(s, Latest)
    <2>1. ASSUME NEW i \in 1 .. Len(s)
          PROVE  s[i] # Resync /\ s[i] + Len(s) = Latest + i
      BY <1>1, <1>2 DEF Resync, Latest
    <2>2. QED
      BY <2>1 DEF Suffix, Marked
  <1>4. s # <<>> /\ Head(s) = n
    BY <1>1, <1>2, NoLength, HeadTailProperties
  <1>5. ASSUME NEW a \in Nat, a < n
        PROVE  Above(s, a)
    BY <1>1, <1>2, <1>5 DEF Above
  <1>6. QED
    BY <1>2, <1>3, <1>4, <1>5

LEMMA MarkerSuffix ==
  ASSUME NEW n \in Nat
  PROVE  /\ <<Resync>> \in Seq(Nat) /\ Suffix(<<Resync>>, n)
         /\ <<Resync>> # <<>> /\ Head(<<Resync>>) = Resync
         /\ \A a \in Nat : Above(<<Resync>>, a)
  BY DEF Suffix, Marked, Above, Resync

(* A subscription is answered with all that is newer than its cursor, or   *)
(* with a marker.                                                          *)
LEMMA AnswerSuffix ==
  ASSUME next \in Nat \ {0}, oldest \in Nat, NEW a \in Nat
  PROVE  /\ Answer(a) \in Seq(Nat)
         /\ Suffix(Answer(a), Latest)
         /\ Above(Answer(a), a)
         /\ \/ a = 0 /\ First(Answer(a)) = next
            \/ First(Answer(a)) = Resync
            \/ First(Answer(a)) = a + 1
  <1>0. Latest \in Nat
    BY DEF Latest
  <1>1. CASE a = 0
    BY <1>0, <1>1, EmptySuffix DEF Answer, First
  <1>2. CASE a # 0 /\ (a + 1 < oldest \/ a > Latest)
    BY <1>0, <1>2, MarkerSuffix DEF Answer, First
  <1>3. CASE a # 0 /\ ~(a + 1 < oldest) /\ a < Latest
    <2>1. a + 1 \in 1 .. Latest /\ Answer(a) = From(a + 1)
      BY <1>0, <1>3 DEF Answer
    <2>2. QED
      BY <2>1, FromSuffix DEF First
  <1>4. CASE a # 0 /\ ~(a + 1 < oldest) /\ a = Latest
    <2>1. next = a + 1
      BY <1>4 DEF Latest
    <2>2. Answer(a) = <<>>
      BY <1>4, <2>1 DEF Answer, From, Latest
    <2>3. QED
      BY <1>0, <2>1, <2>2, EmptySuffix DEF First
  <1>5. QED
    BY <1>0, <1>1, <1>2, <1>3, <1>4

-----------------------------------------------------------------------------
(* The invariant is preserved, one action at a time.                       *)

\* The invariant, for one tab.
Good(t) ==
  /\ Suffix(stream[t], Latest)
  /\ link[t] # "open" => stream[t] = <<>>
  /\ Reached(t) /\ NoGap(t) /\ NoRepeat(t) /\ Newer(t)

LEMMA InvGood ==
  (WholeStream /\ Connected /\ Tracked) <=> \A t \in Tabs : Good(t)
  BY DEF WholeStream, Connected, Tracked, Good, Suffix

LEMMA InvGoodNext == (\A t \in Tabs : Good(t))' => (WholeStream /\ Connected /\ Tracked)'
  BY InvGood, PTL

LEMMA InvInit == Init => Inv
  <1> SUFFICES ASSUME Init PROVE Inv
    OBVIOUS
  <1>1. TypeOK /\ Window
    BY EmptySuffix DEF Init, TypeOK, Window, Latest
  <1>2. ASSUME NEW t \in Tabs
        PROVE  Good(t)
    BY EmptySuffix DEF Init, Good, Latest, Reached, NoGap, NoRepeat, Newer
  <1>3. GapsExplained /\ RepeatsExplained
    BY DEF Init, GapsExplained, RepeatsExplained
  <1>4. QED
    BY <1>1, <1>2, <1>3, InvGood DEF Inv

LEMMA EmitInv == Inv /\ Emit => Inv'
  <1> SUFFICES ASSUME Inv, Emit PROVE Inv'
    OBVIOUS
  <1> USE DEF Emit, tab, hist
  <1>1. TypeOK' /\ Window'
    BY DEF Inv, TypeOK, Window, Latest
  <1>2. (WholeStream /\ Connected /\ Tracked)'
    BY DEF Inv, WholeStream, Connected, Tracked, Latest, Reached, NoGap, NoRepeat, Newer,
           Coming
  <1>3. (GapsExplained /\ RepeatsExplained)'
    BY DEF Inv, GapsExplained, RepeatsExplained
  <1>4. QED
    BY <1>1, <1>2, <1>3 DEF Inv

LEMMA PublishInv == Inv /\ Publish => Inv'
  <1> SUFFICES ASSUME Inv, Publish PROVE Inv'
    OBVIOUS
  <1> USE DEF Publish, hist
  <1>1. TypeOK /\ Window /\ \A t \in Tabs : Good(t)
    BY InvGood DEF Inv
  <1>2. ASSUME NEW t \in Tabs, link[t] = "open"
        PROVE  stream'[t] = Append(stream[t], next)
    BY <1>2
  <1>3. ASSUME NEW t \in Tabs, link[t] # "open"
        PROVE  stream'[t] = <<>>
    BY <1>1, <1>3 DEF Good
  <1>4. ASSUME NEW t \in Tabs
        PROVE  stream'[t] \in Seq(Nat) /\ Good(t)'
    <2>1. /\ stream[t] \in Seq(Nat) /\ next \in Nat \ {0} /\ base \in Nat
          /\ after[t] \in Nat /\ cursor[t] \in Nat /\ last[t] \in Nat
      BY <1>1 DEF TypeOK
    <2>2. Latest \in Nat /\ Latest' = next /\ Latest = next - 1 /\ Good(t)
      BY <1>1, <2>1 DEF Latest
    <2>3. Reached(t)'
      BY <2>1, <2>2 DEF Good, Reached
    <2>4. CASE link[t] # "open"
      BY <1>3, <2>1, <2>2, <2>3, <2>4, EmptySuffix DEF Good, NoGap, NoRepeat, Newer
    <2>5. CASE link[t] = "open"
      <3>1. /\ stream'[t] \in Seq(Nat) /\ Suffix(stream'[t], next)
            /\ stream'[t] # <<>>
            /\ Head(stream'[t]) = IF stream[t] = <<>> THEN next ELSE Head(stream[t])
            /\ Above(stream[t], after[t]) /\ next > after[t] => Above(stream'[t], after[t])
        BY <1>2, <2>1, <2>2, <2>5, AppendSuffix DEF Good
      <3>2. Coming(t)' = Coming(t)
        BY <3>1 DEF Coming
      <3>3. NoGap(t)' /\ NoRepeat(t)'
        BY <2>2, <3>2 DEF Good, NoGap, NoRepeat
      <3>4. Newer(t)'
        BY <2>1, <2>2, <3>1 DEF Good, Newer, Reached
      <3>5. QED
        BY <2>2, <2>3, <2>5, <3>1, <3>3, <3>4 DEF Good
    <2>6. QED
      BY <2>4, <2>5
  <1>5. TypeOK'
    <2>1. stream' \in [Tabs -> Seq(Nat)]
      BY <1>4
    <2>2. QED
      BY <1>1, <2>1 DEF TypeOK, Oldest
  <1>6. Window'
    BY <1>1, CapacityAssumption DEF TypeOK, Window, Latest, Oldest
  <1>7. (GapsExplained /\ RepeatsExplained)'
    BY DEF Inv, GapsExplained, RepeatsExplained
  <1>8. (\A t \in Tabs : Good(t))'
    BY <1>4
  <1>9. (WholeStream /\ Connected /\ Tracked)'
    BY <1>8, InvGoodNext
  <1>10. QED
    BY <1>5, <1>6, <1>7, <1>9 DEF Inv

LEMMA RestartInv == Inv /\ Restart => Inv'
  <1> SUFFICES ASSUME Inv, Restart PROVE Inv'
    OBVIOUS
  <1> USE DEF Restart, hist
  <1>1. TypeOK /\ Window /\ \A t \in Tabs : Good(t)
    BY InvGood DEF Inv
  <1>2. TypeOK' /\ Window'
    BY <1>1, EmptySuffix DEF TypeOK, Window, Latest
  <1>3. ASSUME NEW t \in Tabs
        PROVE  Good(t)'
    <2>1. /\ restarts' # 0 /\ link'[t] # "open" /\ stream'[t] = <<>>
          /\ Latest' = 0 /\ emitted \in Nat /\ cursor[t] \in Nat /\ last[t] \in Nat
      BY <1>1 DEF TypeOK, Latest
    <2>2. last[t] <= base + Latest /\ base + Latest <= emitted
      BY <1>1 DEF Good, Reached, Window
    <2>3. last[t] <= emitted
      BY <1>1, <2>1, <2>2 DEF TypeOK, Latest
    <2>4. Reached(t)'
      BY <2>1, <2>3 DEF Reached
    <2>5. QED
      BY <2>1, <2>4, EmptySuffix DEF Good, NoGap, NoRepeat, Newer
  <1>4. (\A t \in Tabs : Good(t))'
    BY <1>3
  <1>5. (WholeStream /\ Connected /\ Tracked)'
    BY <1>4, InvGoodNext
  <1>6. (GapsExplained /\ RepeatsExplained)'
    BY <1>1 DEF Inv, GapsExplained, RepeatsExplained, TypeOK
  <1>7. QED
    BY <1>2, <1>5, <1>6 DEF Inv

\* What a step of one tab leaves alone for another, or for itself.
SameTab(u) ==
  /\ UNCHANGED <<hub, restarts>>
  /\ link'[u] = link[u] /\ after'[u] = after[u] /\ stream'[u] = stream[u]
  /\ cursor'[u] = cursor[u] /\ last'[u] = last[u]
  /\ blind \subseteq blind' /\ retried \subseteq retried'

LEMMA OtherTab ==
  ASSUME NEW u, Good(u), SameTab(u)
  PROVE  Good(u)'
  BY DEF Good, SameTab, hub, Latest, Reached, NoGap, NoRepeat, Newer, Coming

\* A tab without an open connection.
LEMMA ClosedTab ==
  ASSUME TypeOK, NEW t \in Tabs, Good(t), UNCHANGED <<hub, restarts>>,
         after'[t] = after[t], cursor'[t] = cursor[t], last'[t] = last[t],
         link'[t] # "open", stream'[t] = <<>>
  PROVE  Good(t)'
  <1>1. Latest \in Nat /\ Latest' = Latest /\ after[t] \in Nat
    BY DEF TypeOK, Latest, hub
  <1>2. Reached(t)'
    BY <1>1 DEF Good, Reached, hub
  <1>3. QED
    BY <1>1, <1>2, EmptySuffix DEF Good, NoGap, NoRepeat, Newer

LEMMA BreakInv == ASSUME NEW t \in Tabs PROVE Inv /\ (Break(t) \/ Reload(t)) => Inv'
  <1> SUFFICES ASSUME Inv, Break(t) \/ Reload(t) PROVE Inv'
    OBVIOUS
  <1> USE DEF Break, Reload, hub, hist
  <1>1. TypeOK /\ Window /\ \A u \in Tabs : Good(u)
    BY InvGood DEF Inv
  <1>2. TypeOK' /\ Window'
    <2>1. stream' \in [Tabs -> Seq(Nat)] /\ link' \in [Tabs -> {"none", "open", "broken"}]
      BY <1>1, EmptySuffix DEF TypeOK
    <2>2. breaks' \in Nat /\ UNCHANGED <<emitted, base, next, oldest, after, cursor, last>>
      BY <1>1 DEF TypeOK
    <2>3. UNCHANGED <<skipped, repeated, retried, blind, restarts>>
      OBVIOUS
    <2>4. QED
      BY <1>1, <2>1, <2>2, <2>3 DEF TypeOK, Window, Latest
  <1>3. ASSUME NEW u \in Tabs
        PROVE  Good(u)'
    <2>1. CASE u = t
      <3>1. link'[t] # "open" /\ stream'[t] = <<>>
        BY <1>1 DEF TypeOK
      <3>2. QED
        BY <1>1, <2>1, <3>1, ClosedTab
    <2>2. CASE u # t
      <3>1. SameTab(u)
        BY <1>1, <2>2 DEF TypeOK, SameTab
      <3>2. QED
        BY <1>1, <3>1, OtherTab
    <2>3. QED
      BY <2>1, <2>2
  <1>4. (\A u \in Tabs : Good(u))'
    BY <1>3
  <1>5. (WholeStream /\ Connected /\ Tracked)'
    BY <1>4, InvGoodNext
  <1>6. (GapsExplained /\ RepeatsExplained)'
    BY DEF Inv, GapsExplained, RepeatsExplained
  <1>7. QED
    BY <1>2, <1>5, <1>6 DEF Inv

\* A tab whose EventSource has just been answered.
LEMMA AnsweredTab ==
  ASSUME TypeOK, NEW t \in Tabs, Good(t), UNCHANGED <<hub, restarts>>,
         cursor'[t] = cursor[t], last'[t] = last[t], link'[t] = "open",
         after'[t] \in Nat, stream'[t] = Answer(after'[t]),
         restarts = 0 => after'[t] <= cursor[t],
         restarts = 0 /\ after'[t] = 0 => last[t] = 0 \/ t \in blind',
         after'[t] = cursor[t] \/ t \in retried'
  PROVE  Good(t)'
  <1> DEFINE a == after'[t]
  <1>1. /\ Latest \in Nat /\ Latest' = Latest /\ Latest = next - 1 /\ a \in Nat
        /\ cursor[t] \in Nat /\ last[t] \in Nat /\ base \in Nat /\ next \in Nat
        /\ next' = next /\ base' = base /\ restarts' = restarts
    BY DEF TypeOK, Latest, hub
  <1>2. /\ Suffix(stream'[t], Latest) /\ Above(stream'[t], a)
        /\ \/ a = 0 /\ First(Answer(a)) = next
           \/ First(Answer(a)) = Resync
           \/ First(Answer(a)) = a + 1
    BY <1>1, AnswerSuffix DEF TypeOK
  <1>3. Coming(t)' = First(Answer(a))
    BY <1>1 DEF Coming, First
  <1>4. Reached(t) /\ Reached(t)'
    BY <1>1 DEF Good, Reached
  <1>5. NoGap(t)'
    <2> SUFFICES ASSUME restarts = 0, t \notin blind', last[t] # 0
                 PROVE  First(Answer(a)) <= last[t] + 1
      BY <1>1, <1>3 DEF NoGap
    <2>1. a # 0 /\ cursor[t] = last[t] /\ a <= cursor[t]
      BY <1>4 DEF Reached
    <2>2. CASE First(Answer(a)) = Resync
      BY <1>1, <2>2 DEF Resync
    <2>3. CASE First(Answer(a)) = a + 1
      <3>1. a <= last[t]
        BY <2>1
      <3>2. QED
        BY <1>1, <2>3, <3>1
    <2>4. QED
      BY <1>2, <2>1, <2>2, <2>3
  <1>6. NoRepeat(t)'
    <2> SUFFICES ASSUME t \notin retried', First(Answer(a)) # Resync
                 PROVE  base + First(Answer(a)) > last[t]
      BY <1>1, <1>3 DEF NoRepeat
    <2>1. a = cursor[t] /\ last[t] <= base + a /\ last[t] <= base + Latest
      BY <1>4 DEF Reached
    <2>2. CASE First(Answer(a)) = next
      <3>1. base + next > base + Latest
        BY <1>1
      <3>2. base + Latest \in Nat /\ base + next \in Nat
        BY <1>1
      <3>3. QED
        BY <1>1, <2>1, <2>2, <3>1, <3>2
    <2>3. CASE First(Answer(a)) = a + 1
      BY <1>1, <2>1, <2>3
    <2>4. QED
      BY <1>2, <2>2, <2>3
  <1>7. Newer(t)'
    BY <1>2 DEF Newer
  <1>8. QED
    BY <1>1, <1>2, <1>4, <1>5, <1>6, <1>7 DEF Good

LEMMA SubscribeInv == ASSUME NEW t \in Tabs PROVE Inv /\ (Open(t) \/ Reconnect(t)) => Inv'
  <1> SUFFICES ASSUME Inv, Open(t) \/ Reconnect(t) PROVE Inv'
    OBVIOUS
  <1> USE DEF Open, Reconnect, hub, hist
  <1>1. TypeOK /\ Window /\ \A u \in Tabs : Good(u)
    BY InvGood DEF Inv
  <1>2. ASSUME NEW a \in Nat
        PROVE  Answer(a) \in Seq(Nat)
    BY <1>1, AnswerSuffix DEF TypeOK
  <1>3. TypeOK' /\ Window'
    <2>1. after' \in [Tabs -> Nat]
      BY <1>1 DEF TypeOK
    <2>2. stream' \in [Tabs -> Seq(Nat)]
      <3>1. cursor[t] \in Nat /\ after[t] \in Nat
        BY <1>1 DEF TypeOK
      <3>2. Answer(cursor[t]) \in Seq(Nat) /\ Answer(after[t]) \in Seq(Nat)
        BY <1>2, <3>1
      <3>3. QED
        BY <1>1, <3>2 DEF TypeOK
    <2>3. link' \in [Tabs -> {"none", "open", "broken"}]
      BY <1>1 DEF TypeOK
    <2>4. retried' \in SUBSET Tabs /\ blind' \in SUBSET Tabs
      BY <1>1 DEF TypeOK
    <2>5. QED
      BY <1>1, <2>1, <2>2, <2>3, <2>4 DEF TypeOK, Window, Latest
  <1>4. ASSUME NEW u \in Tabs
        PROVE  Good(u)'
    <2>1. CASE u = t
      <3>1. /\ link'[t] = "open" /\ cursor'[t] = cursor[t] /\ last'[t] = last[t]
            /\ after'[t] \in Nat /\ stream'[t] = Answer(after'[t])
        BY <1>1 DEF TypeOK
      <3>2. Reached(t) /\ cursor[t] \in Nat /\ last[t] \in Nat /\ restarts \in Nat
        BY <1>1 DEF Good, TypeOK
      <3>3. restarts = 0 => after'[t] <= cursor[t]
        BY <1>1, <3>2 DEF Reached, TypeOK
      <3>4. after'[t] = cursor[t] \/ t \in retried'
        BY <1>1 DEF TypeOK
      <3>5. restarts = 0 /\ after'[t] = 0 => last[t] = 0 \/ t \in blind'
        <4>1. CASE Open(t)
          BY <1>1, <3>2, <4>1 DEF Reached, TypeOK
        <4>2. CASE Reconnect(t)
          BY <1>1, <4>2 DEF TypeOK
        <4>3. QED
          BY <4>1, <4>2
      <3>6. QED
        BY <1>1, <2>1, <3>1, <3>3, <3>4, <3>5, AnsweredTab
    <2>2. CASE u # t
      <3>1. SameTab(u)
        BY <1>1, <2>2 DEF TypeOK, SameTab
      <3>2. QED
        BY <1>1, <3>1, OtherTab
    <2>3. QED
      BY <2>1, <2>2
  <1>5. (\A u \in Tabs : Good(u))'
    BY <1>4
  <1>6. (WholeStream /\ Connected /\ Tracked)'
    BY <1>5, InvGoodNext
  <1>7. (GapsExplained /\ RepeatsExplained)'
    BY DEF Inv, GapsExplained, RepeatsExplained
  <1>8. QED
    BY <1>3, <1>6, <1>7 DEF Inv

LEMMA ApplyInv == ASSUME NEW t \in Tabs PROVE Inv /\ Apply(t) => Inv'
  <1> SUFFICES ASSUME Inv, Apply(t) PROVE Inv'
    OBVIOUS
  <1> USE DEF hub, hist
  <1>1. TypeOK /\ Window /\ \A u \in Tabs : Good(u)
    BY InvGood DEF Inv
  <1> DEFINE s == stream[t]
             c == Head(s)
             r == Tail(s)
  <1>2. /\ link[t] = "open" /\ s \in Seq(Nat) /\ s # <<>>
        /\ stream' = [stream EXCEPT ![t] = r]
        /\ UNCHANGED <<hub, link, after, retried, blind, breaks, restarts>>
    BY <1>1 DEF Apply, TypeOK
  <1>3. /\ base \in Nat /\ next \in Nat \ {0} /\ Latest \in Nat /\ Latest = next - 1
        /\ Latest' = Latest /\ stream'[t] = r
        /\ after[t] \in Nat /\ cursor[t] \in Nat /\ last[t] \in Nat /\ restarts \in Nat
    BY <1>1, <1>2 DEF TypeOK, Latest
  <1>4. /\ c \in Nat /\ r \in Seq(Nat) /\ Suffix(r, Latest)
        /\ c # Resync => /\ c <= Latest
                         /\ r = <<>> => c = Latest
                         /\ r # <<>> => Head(r) = c + 1
        /\ r # <<>> => Head(r) # Resync
        /\ Above(s, after[t]) => /\ Above(r, after[t])
                                 /\ c # Resync => c > after[t]
    <2>1. Suffix(s, Latest)
      BY <1>1 DEF Good
    <2>2. Above(s, after[t]) => Above(r, after[t]) /\ (c # Resync => c > after[t])
      BY <1>2, <1>3, TailAbove
    <2>3. /\ c \in Nat /\ r \in Seq(Nat) /\ Suffix(r, Latest)
          /\ c # Resync => /\ c <= Latest
                           /\ r = <<>> => c = Latest
                           /\ r # <<>> => Head(r) = c + 1
          /\ r # <<>> => Head(r) # Resync
      BY <1>2, <1>3, <2>1, TailSuffix
    <2>4. QED
      BY <1>3, <2>2, <2>3
  <1>5. Coming(t) = c /\ Reached(t) /\ NoGap(t) /\ NoRepeat(t) /\ Newer(t)
    BY <1>1, <1>2 DEF Coming, Good
  <1>6. c # Resync => Coming(t)' = c + 1
    <2> SUFFICES ASSUME c # Resync PROVE Coming(t)' = c + 1
      OBVIOUS
    <2>1. CASE r = <<>>
      <3>1. Coming(t)' = next /\ c = Latest
        BY <1>2, <1>3, <1>4, <2>1 DEF Coming
      <3>2. QED
        BY <1>3, <3>1
    <2>2. CASE r # <<>>
      BY <1>3, <1>4, <2>2 DEF Coming
    <2>3. QED
      BY <2>1, <2>2
  <1>7. Coming(t)' # Resync /\ Coming(t)' \in Nat
    BY <1>2, <1>3, <1>4, HeadTailProperties DEF Coming, Resync
  <1>8. \/ /\ c = Resync /\ last' = [last EXCEPT ![t] = 0]
           /\ UNCHANGED <<cursor, skipped, repeated>>
        \/ /\ c # Resync
           /\ cursor' = [cursor EXCEPT ![t] = c]
           /\ last' = [last EXCEPT ![t] = base + c]
           /\ skipped' = skipped \cup {u \in {t} : last[t] # 0 /\ base + c > last[t] + 1}
           /\ repeated' = repeated \cup {u \in {t} : base + c <= last[t]}
    BY DEF Apply
  <1> HIDE DEF c, r
  <1>9. TypeOK' /\ Window'
    <2>1. stream' \in [Tabs -> Seq(Nat)]
      BY <1>1, <1>2, <1>4 DEF TypeOK
    <2>2. /\ cursor' \in [Tabs -> Nat] /\ last' \in [Tabs -> Nat]
          /\ skipped' \in SUBSET Tabs /\ repeated' \in SUBSET Tabs
      <3>1. base + c \in Nat
        BY <1>3, <1>4
      <3>2. CASE c = Resync
        <4>1. last' = [last EXCEPT ![t] = 0] /\ UNCHANGED <<cursor, skipped, repeated>>
          BY <1>8, <3>2
        <4>2. QED
          BY <1>1, <4>1 DEF TypeOK
      <3>3. CASE c # Resync
        <4>1. cursor' \in [Tabs -> Nat] /\ last' \in [Tabs -> Nat]
          BY <1>1, <1>4, <1>8, <3>1, <3>3, ZenonT(40) DEF TypeOK
        <4>2. skipped' \in SUBSET Tabs /\ repeated' \in SUBSET Tabs
          BY <1>1, <1>8, <3>3 DEF TypeOK
        <4>3. QED
          BY <4>1, <4>2
      <3>4. QED
        BY <3>2, <3>3
    <2>3. QED
      BY <1>1, <1>2, <2>1, <2>2 DEF TypeOK, Window, Latest
  <1>10. Newer(t)'
    BY <1>2, <1>3, <1>4, <1>5 DEF Newer
  <1>11. Reached(t)' /\ NoGap(t)' /\ NoRepeat(t)'
    <2>1. CASE c = Resync
      <3>1. last'[t] = 0 /\ cursor'[t] = cursor[t]
        BY <1>1, <1>8, <2>1 DEF TypeOK
      <3>2. Reached(t)' /\ NoGap(t)'
        BY <1>2, <1>3, <1>5, <3>1 DEF Reached, NoGap
      <3>3. NoRepeat(t)'
        BY <1>2, <1>3, <1>7, <3>1 DEF NoRepeat, Resync
      <3>4. QED
        BY <3>2, <3>3
    <2>2. CASE c # Resync
      <3>1. last'[t] = base + c /\ cursor'[t] = c
        BY <1>1, <1>8, <2>2 DEF TypeOK
      <3>2. Reached(t)'
        <4>1. restarts = 0 => base = 0 /\ c > after[t]
          BY <1>2, <1>4, <1>5, <2>2 DEF Reached, Newer
        <4>2. c <= Latest /\ Latest' = Latest /\ base' = base /\ restarts' = restarts /\ after'[t] = after[t]
          BY <1>2, <1>3, <1>4, <2>2 DEF Latest
        <4>3. base \in Nat /\ Latest \in Int /\ after[t] \in Nat /\ c \in Nat
          BY <1>1, <1>3, <1>4 DEF TypeOK, Latest
        <4>4. QED
          BY <3>1, <4>1, <4>2, <4>3 DEF Reached
      <3>3. NoGap(t)' /\ NoRepeat(t)'
        <4>1. Coming(t)' = c + 1
          BY <1>6, <2>2
        <4>2. last'[t] = base + c /\ base' = base
          BY <1>2, <3>1 DEF hub
        <4>3. base \in Nat /\ c \in Nat
          BY <1>3, <1>4
        <4>4. c + 1 <= base + c + 1 /\ base + (c + 1) > base + c
          BY <4>3
        <4>5. NoGap(t)'
          BY <4>1, <4>2, <4>4 DEF NoGap
        <4>6. NoRepeat(t)'
          BY <4>1, <4>2, <4>4 DEF NoRepeat
        <4>7. QED
          BY <4>5, <4>6
      <3>4. QED
        BY <3>2, <3>3
    <2>3. QED
      BY <2>1, <2>2
  <1>12. ASSUME NEW u \in Tabs
         PROVE  Good(u)'
    <2>1. CASE u = t
      BY <1>2, <1>3, <1>4, <1>10, <1>11, <2>1 DEF Good
    <2>2. CASE u # t
      <3>1. SameTab(u)
        BY <1>1, <1>2, <1>8, <2>2 DEF TypeOK, SameTab
      <3>2. QED
        BY <1>1, <3>1, OtherTab
    <2>3. QED
      BY <2>1, <2>2
  <1>13. (\A u \in Tabs : Good(u))'
    BY <1>12
  <1>14. (WholeStream /\ Connected /\ Tracked)'
    BY <1>13, InvGoodNext
  <1>15. GapsExplained'
    <2> SUFFICES ASSUME restarts = 0
                 PROVE  skipped' \subseteq blind
      BY <1>2 DEF GapsExplained
    <2>1. skipped \subseteq blind
      BY DEF Inv, GapsExplained
    <2>2. ASSUME last[t] # 0, base + c > last[t] + 1
          PROVE  t \in blind
      BY <1>2, <1>3, <1>4, <1>5, <2>2 DEF Reached, NoGap
    <2>3. QED
      BY <1>8, <2>1, <2>2
  <1>16. RepeatsExplained'
    <2>1. repeated \subseteq retried
      BY DEF Inv, RepeatsExplained
    <2>2. ASSUME c # Resync, base + c <= last[t]
          PROVE  t \in retried
      BY <1>2, <1>3, <1>4, <1>5, <2>2 DEF NoRepeat
    <2>3. QED
      BY <1>2, <1>8, <2>1, <2>2 DEF RepeatsExplained
  <1>17. QED
    BY <1>9, <1>14, <1>15, <1>16 DEF Inv

LEMMA InvNext == Inv /\ [Next]_vars => Inv'
  <1> SUFFICES ASSUME Inv, [Next]_vars PROVE Inv'
    OBVIOUS
  <1>1. CASE UNCHANGED vars
    BY <1>1 DEF vars, hub, tab, hist, Inv, TypeOK, Window, Latest, WholeStream, Connected,
                Tracked, Reached, NoGap, NoRepeat, Newer, Coming, GapsExplained,
                RepeatsExplained
  <1>2. CASE Emit \/ Publish \/ Restart
    BY <1>2, EmitInv, PublishInv, RestartInv
  <1>3. ASSUME NEW t \in Tabs,
               Open(t) \/ Apply(t) \/ Break(t) \/ Reconnect(t) \/ Reload(t)
        PROVE  Inv'
    BY <1>3, SubscribeInv, ApplyInv, BreakInv
  <1>4. QED
    BY <1>1, <1>2, <1>3 DEF Next

LEMMA Invariance == Spec => []Inv
  BY InvInit, InvNext, PTL DEF Spec

-----------------------------------------------------------------------------
(* The theorems.                                                           *)

(* Type correctness of the hub, its connections and its tabs.              *)
THEOREM TypeCorrect == Spec => []TypeOK
  <1>1. Inv => TypeOK
    BY DEF Inv
  <1>2. QED
    BY <1>1, Invariance, PTL

(* Replay and live events are captured atomically by EventHub::subscribe:  *)
(* no connection has a hole in what it still delivers.                     *)
THEOREM StreamsAreWhole == Spec => []WholeStream
  <1>1. Inv => WholeStream
    BY DEF Inv
  <1>2. QED
    BY <1>1, Invariance, PTL

(* While the process lives, a tab misses an event unnoticed only after its *)
(* EventSource has reconnected to a URL without a cursor.                  *)
THEOREM NoUnexplainedGap == Spec => []GapsExplained
  <1>1. Inv => GapsExplained
    BY DEF Inv
  <1>2. QED
    BY <1>1, Invariance, PTL

(* A tab applies an event twice only after its EventSource has reconnected *)
(* to a URL with an old cursor, over any number of restarts.               *)
THEOREM NoUnexplainedRepeat == Spec => []RepeatsExplained
  <1>1. Inv => RepeatsExplained
    BY DEF Inv
  <1>2. QED
    BY <1>1, Invariance, PTL

-----------------------------------------------------------------------------
(* ChatView: the messages that a filter keeps. *)

\* Induction: a set of numbers that is not empty has a least element.
LEMMA LeastOf ==
  ASSUME NEW S \in SUBSET Nat, S # {}
  PROVE  \E n \in S : \A m \in S : n <= m
  <1>1. PICK n \in S : \A m \in S : ~(<<m, n>> \in OpToRel(<, Nat))
    BY NatLessThanWellFounded, WFMin
  <1>2. \A m \in S : ~(m < n)
    BY <1>1 DEF OpToRel
  <1>3. QED
    BY <1>2

LEMMA MinIsLeast ==
  ASSUME NEW S \in SUBSET Nat, S # {}
  PROVE  Min(S) \in S /\ \A m \in S : Min(S) <= m
  BY LeastOf DEF Min

LEMMA ToSetConcat ==
  ASSUME NEW X, NEW q \in Seq(X), NEW r \in Seq(X)
  PROVE  ToSet(q \o r) = ToSet(q) \union ToSet(r)
  <1>1. q \o r \in Seq(X) /\ Len(q \o r) = Len(q) + Len(r) /\ Len(q) \in Nat /\ Len(r) \in Nat
    BY ConcatProperties
  <1>2. /\ \A i \in 1 .. Len(q) : (q \o r)[i] = q[i]
        /\ \A i \in 1 .. Len(r) : (q \o r)[Len(q) + i] = r[i]
    BY ConcatProperties
  <1>3. ASSUME NEW x \in ToSet(q \o r) PROVE x \in ToSet(q) \union ToSet(r)
    <2>1. PICK i \in 1 .. Len(q) + Len(r) : x = (q \o r)[i]
      BY <1>1 DEF ToSet
    <2>2. CASE i <= Len(q)
      BY <1>1, <1>2, <2>1, <2>2 DEF ToSet
    <2>3. CASE ~(i <= Len(q))
      <3>1. i - Len(q) \in 1 .. Len(r) /\ Len(q) + (i - Len(q)) = i
        BY <1>1, <2>3
      <3>2. x = r[i - Len(q)]
        BY <1>2, <2>1, <3>1
      <3>3. QED
        BY <3>1, <3>2 DEF ToSet
    <2>4. QED
      BY <2>2, <2>3
  <1>4. ToSet(q) \subseteq ToSet(q \o r)
    BY <1>1, <1>2 DEF ToSet
  <1>5. ASSUME NEW x \in ToSet(r) PROVE x \in ToSet(q \o r)
    <2>1. PICK i \in 1 .. Len(r) : x = r[i]
      BY <1>1 DEF ToSet
    <2>2. PICK k \in 1 .. Len(q) + Len(r) : k = Len(q) + i
      BY <1>1
    <2>3. x = (q \o r)[k]
      BY <1>2, <2>1, <2>2
    <2>4. QED
      BY <1>1, <2>2, <2>3 DEF ToSet
  <1>6. QED
    BY <1>3, <1>4, <1>5

LEMMA ToSetAppend ==
  ASSUME NEW X, NEW q \in Seq(X), NEW m \in X
  PROVE  Append(q, m) \in Seq(X) /\ ToSet(Append(q, m)) = ToSet(q) \union {m}
  <1>1. PICK r : r = Append(q, m)
    OBVIOUS
  <1>2. /\ r \in Seq(X) /\ Len(q) \in Nat /\ DOMAIN r = 1 .. Len(q) + 1 /\ DOMAIN q = 1 .. Len(q)
        /\ r[Len(q) + 1] = m /\ \A i \in 1 .. Len(q) : r[i] = q[i]
    BY <1>1
  <1>3. 1 .. Len(q) + 1 = (1 .. Len(q)) \union {Len(q) + 1}
    BY <1>2
  <1>4. ToSet(r) = ToSet(q) \union {m}
    <2>1. ToSet(r) \subseteq ToSet(q) \union {m}
      BY <1>2, <1>3 DEF ToSet
    <2>2. ToSet(q) \union {m} \subseteq ToSet(r)
      BY <1>2, <1>3 DEF ToSet
    <2>3. QED
      BY <2>1, <2>2
  <1>5. QED
    BY <1>1, <1>2, <1>4


\* What comes before a message is a front of the messages.
LEMMA BeforeType ==
  ASSUME NEW q \in Seq(Nat), NEW m
  PROVE  Before(q, m) \in Seq(Nat) /\ ToSet(Before(q, m)) \subseteq ToSet(q)
  <1> DEFINE at == {i \in DOMAIN q : q[i] = m}
  <1>1. CASE at = {}
    BY <1>1 DEF Before
  <1>2. CASE at # {}
    <2>1. at \in SUBSET Nat
      OBVIOUS
    <2>2. Min(at) \in at
      BY <1>2, <2>1, MinIsLeast
    <2>3. Min(at) \in 1 .. Len(q)
      BY <2>2
    <2>4. Before(q, m) = SubSeq(q, 1, Min(at) - 1)
      BY <1>2 DEF Before
    <2> HIDE DEF at
    <2>5. PICK n : n = Min(at) - 1
      OBVIOUS
    <2>6. n \in 0 .. Len(q)
      BY <2>3, <2>5
    <2>7. SubSeq(q, 1, n) \in Seq(Nat) /\ \A i \in 1 .. n : SubSeq(q, 1, n)[i] = q[i]
      BY <2>6
    <2>8. DOMAIN SubSeq(q, 1, n) = 1 .. n /\ \A i \in 1 .. n : i \in DOMAIN q
      BY <2>6
    <2>9. QED
      BY <2>4, <2>5, <2>7, <2>8 DEF ToSet
  <1>3. QED
    BY <1>1, <1>2

\* the recursive function of Keep, as far as the k-th message
Filters(f, q, S, k) ==
  f = [i \in 0 .. k |-> IF i = 0 THEN <<>>
                        ELSE IF q[i] \in S THEN Append(f[i - 1], q[i]) ELSE f[i - 1]]

LEMMA FiltersMore ==
  ASSUME NEW q, NEW S, NEW k \in Nat, NEW f, Filters(f, q, S, k)
  PROVE  \E g : Filters(g, q, S, k + 1)
  <1> DEFINE g == [i \in 0 .. k + 1 |->
                     IF i = k + 1 THEN IF q[i] \in S THEN Append(f[k], q[i]) ELSE f[k] ELSE f[i]]
  <1>1. \A i \in 0 .. k : g[i] = f[i]
    OBVIOUS
  <1>2. ASSUME NEW i \in 0 .. k + 1
        PROVE  g[i] = IF i = 0 THEN <<>> ELSE IF q[i] \in S THEN Append(g[i - 1], q[i]) ELSE g[i - 1]
    <2>1. CASE i = k + 1
      <3>1. i - 1 = k /\ i - 1 \in 0 .. k /\ i # 0
        BY <2>1
      <3>2. g[i - 1] = f[k]
        BY <3>1, <1>1
      <3>3. QED
        BY <2>1, <3>1, <3>2
    <2>2. CASE i \in 0 .. k
      <3>1. f[i] = IF i = 0 THEN <<>> ELSE IF q[i] \in S THEN Append(f[i - 1], q[i]) ELSE f[i - 1]
        BY <2>2 DEF Filters
      <3>2. i # 0 => i - 1 \in 0 .. k
        BY <2>2
      <3>3. i # 0 => g[i - 1] = f[i - 1]
        BY <3>2, <1>1
      <3>4. QED
        BY <3>1, <3>3, <1>1, <2>2
    <2>3. QED
      BY <2>1, <2>2
  <1>3. g = [i \in 0 .. k + 1 |-> IF i = 0 THEN <<>>
                                  ELSE IF q[i] \in S THEN Append(g[i - 1], q[i]) ELSE g[i - 1]]
    BY <1>2
  <1>4. QED
    BY <1>3 DEF Filters

LEMMA FiltersExists ==
  ASSUME NEW q, NEW S, NEW k \in Nat
  PROVE  \E f : Filters(f, q, S, k)
  <1> DEFINE N == {i \in Nat : ~ \E f : Filters(f, q, S, i)}
  <1>1. SUFFICES ASSUME N # {} PROVE FALSE
    OBVIOUS
  <1>2. PICK i \in N : \A j \in N : i <= j
    BY <1>1, LeastOf
  <1>3. CASE i = 0
    <2>1. Filters([j \in 0 .. 0 |-> <<>>], q, S, 0)
      BY DEF Filters
    <2>2. QED
      BY <2>1, <1>3, <1>2
  <1>4. CASE i # 0
    <2>1. i - 1 \in Nat /\ i - 1 \notin N /\ (i - 1) + 1 = i
      BY <1>4, <1>2
    <2>2. PICK f : Filters(f, q, S, i - 1)
      BY <2>1
    <2>3. \E g : Filters(g, q, S, i)
      BY <2>1, <2>2, FiltersMore
    <2>4. QED
      BY <2>3, <1>2
  <1>5. QED
    BY <1>3, <1>4

LEMMA KeepFilters ==
  ASSUME NEW q, Len(q) \in Nat, NEW S
  PROVE  \E f : Filters(f, q, S, Len(q)) /\ Keep(q, S) = f[Len(q)]
  <1> DEFINE g == CHOOSE c : c = [i \in 0 .. Len(q) |-> IF i = 0 THEN <<>>
                               ELSE IF q[i] \in S THEN Append(c[i - 1], q[i]) ELSE c[i - 1]]
  <1>1. Keep(q, S) = g[Len(q)]
    BY DEF Keep
  <1>2. Filters(g, q, S, Len(q))
    <2>1. \E c : Filters(c, q, S, Len(q))
      BY FiltersExists
    <2>2. QED
      BY <2>1, Zenon DEF Filters
  <1>3. QED
    BY <1>1, <1>2

\* It depends on the messages so far only.
LEMMA FiltersSame ==
  ASSUME NEW q, NEW r, NEW S, NEW k \in Nat, NEW m \in Nat, NEW f, NEW g,
         Filters(f, q, S, k), Filters(g, r, S, m), NEW h \in 0 .. k, h <= m,
         \A i \in 1 .. h : q[i] = r[i]
  PROVE  f[h] = g[h]
  <1> DEFINE N == {i \in 0 .. h : f[i] # g[i]}
  <1>1. SUFFICES ASSUME N # {} PROVE FALSE
    OBVIOUS
  <1>2. PICK i \in N : \A j \in N : i <= j
    <2>1. N \in SUBSET Nat
      OBVIOUS
    <2>2. QED
      BY <1>1, <2>1, LeastOf
  <1>3. i \in 0 .. k /\ i \in 0 .. m /\ i \in 0 .. h
    BY <1>2
  <1>4. f[i] = IF i = 0 THEN <<>> ELSE IF q[i] \in S THEN Append(f[i - 1], q[i]) ELSE f[i - 1]
    BY <1>3 DEF Filters
  <1>5. g[i] = IF i = 0 THEN <<>> ELSE IF r[i] \in S THEN Append(g[i - 1], r[i]) ELSE g[i - 1]
    BY <1>3 DEF Filters
  <1>6. i # 0 => i - 1 \in 0 .. h /\ i - 1 \notin N /\ i \in 1 .. h
    BY <1>2, <1>3
  <1>7. i # 0 => f[i - 1] = g[i - 1] /\ q[i] = r[i]
    BY <1>6
  <1>8. QED
    BY <1>2, <1>3, <1>4, <1>5, <1>7

\* What it keeps: a filter keeps the members of S.
Kept(p, q, S, h) == p \in Seq(Nat) /\ ToSet(p) = {q[i] : i \in 1 .. h} \intersect S

LEMMA FiltersKeep ==
  ASSUME NEW q \in Seq(Nat), NEW S, NEW f, Filters(f, q, S, Len(q)), NEW h \in 0 .. Len(q)
  PROVE  Kept(f[h], q, S, h)
  <1> DEFINE N == {i \in 0 .. h : ~Kept(f[i], q, S, i)}
  <1>0. Len(q) \in Nat /\ h \in Nat
    OBVIOUS
  <1>1. SUFFICES ASSUME N # {} PROVE FALSE
    BY <1>0
  <1>2. PICK i \in N : \A j \in N : i <= j
    <2>1. N \in SUBSET Nat
      OBVIOUS
    <2>2. QED
      BY <1>1, <2>1, LeastOf
  <1>3. i \in 0 .. h /\ i \in 0 .. Len(q) /\ i \in Nat
    BY <1>0, <1>2
  <1>4. f[i] = IF i = 0 THEN <<>> ELSE IF q[i] \in S THEN Append(f[i - 1], q[i]) ELSE f[i - 1]
    BY <1>3 DEF Filters
  <1>5. CASE i = 0
    <2>1. <<>> \in Seq(Nat) /\ ToSet(<<>>) = {} /\ 1 .. 0 = {}
      BY DEF ToSet
    <2>2. QED
      BY <1>2, <1>4, <1>5, <2>1 DEF Kept
  <1>6. CASE i # 0
    <2>1. i - 1 \in 0 .. h /\ i \in 1 .. Len(q) /\ 1 .. i = (1 .. i - 1) \union {i}
      BY <1>0, <1>3, <1>6
    <2>2. Kept(f[i - 1], q, S, i - 1)
      <3>1. i - 1 \notin N
        BY <1>2, <1>3
      <3>2. QED
        BY <2>1, <3>1
    <2>3. PICK p \in Seq(Nat) : p = f[i - 1]
      BY <2>2 DEF Kept
    <2>4. PICK x \in Nat : x = q[i]
      BY <2>1
    <2>5. {q[j] : j \in 1 .. i} = {q[j] : j \in 1 .. i - 1} \union {x}
      BY <2>1, <2>4
    <2>6. ToSet(p) = {q[j] : j \in 1 .. i - 1} \intersect S
      BY <2>2, <2>3 DEF Kept
    <2>7. CASE x \in S
      <3>1. Append(p, x) \in Seq(Nat) /\ ToSet(Append(p, x)) = ToSet(p) \union {x}
        BY ToSetAppend
      <3>2. Kept(Append(p, x), q, S, i)
        BY <2>5, <2>6, <2>7, <3>1 DEF Kept
      <3>3. QED
        BY <1>2, <1>4, <1>6, <2>3, <2>4, <2>7, <3>2
    <2>8. CASE x \notin S
      <3>1. Kept(p, q, S, i)
        BY <2>5, <2>6, <2>8 DEF Kept
      <3>2. QED
        BY <1>2, <1>4, <1>6, <2>3, <2>4, <2>8, <3>1
    <2>9. QED
      BY <2>7, <2>8
  <1>7. QED
    BY <1>5, <1>6

LEMMA KeepType ==
  ASSUME NEW q \in Seq(Nat), NEW S
  PROVE  Keep(q, S) \in Seq(Nat) /\ ToSet(Keep(q, S)) = ToSet(q) \intersect S
  <1>1. Len(q) \in Nat /\ Len(q) \in 0 .. Len(q) /\ DOMAIN q = 1 .. Len(q)
    OBVIOUS
  <1>2. PICK f : Filters(f, q, S, Len(q)) /\ Keep(q, S) = f[Len(q)]
    BY <1>1, KeepFilters
  <1>3. Kept(f[Len(q)], q, S, Len(q))
    BY <1>1, <1>2, FiltersKeep
  <1>4. QED
    BY <1>1, <1>2, <1>3 DEF Kept, ToSet

LEMMA KeepAppend ==
  ASSUME NEW q \in Seq(Nat), NEW m \in Nat, NEW S
  PROVE  Keep(Append(q, m), S) = IF m \in S THEN Append(Keep(q, S), m) ELSE Keep(q, S)
  <1>1. PICK r : r = Append(q, m)
    OBVIOUS
  <1>2. /\ Len(q) \in Nat /\ Len(r) = Len(q) + 1 /\ r[Len(q) + 1] = m
        /\ \A i \in 1 .. Len(q) : q[i] = r[i]
    BY <1>1
  <1>3. PICK f : Filters(f, q, S, Len(q)) /\ Keep(q, S) = f[Len(q)]
    BY <1>2, KeepFilters
  <1>4. PICK g : Filters(g, r, S, Len(r)) /\ Keep(r, S) = g[Len(r)]
    BY <1>2, KeepFilters
  <1>5. Len(q) \in 0 .. Len(q) /\ Len(q) <= Len(r) /\ Len(r) \in Nat /\ Len(r) \in 0 .. Len(r)
        /\ Len(r) # 0 /\ Len(r) - 1 = Len(q)
    BY <1>2
  <1>6. f[Len(q)] = g[Len(q)]
    <2>1. PICK h : h = Len(q)
      OBVIOUS
    <2>2. h \in Nat /\ h \in 0 .. h /\ h <= Len(r) /\ \A i \in 1 .. h : q[i] = r[i]
      BY <1>2, <1>5, <2>1
    <2>3. Filters(f, q, S, h)
      BY <1>3, <2>1
    <2>4. f[h] = g[h]
      BY <1>4, <1>5, <2>2, <2>3, FiltersSame
    <2>5. QED
      BY <2>1, <2>4
  <1>7. g[Len(r)] = IF r[Len(r)] \in S THEN Append(g[Len(q)], r[Len(r)]) ELSE g[Len(q)]
    BY <1>4, <1>5 DEF Filters
  <1>8. QED
    BY <1>1, <1>2, <1>3, <1>4, <1>6, <1>7

\* A filter for the front keeps the front, if nothing behind it is of the same messages.
IsFront(p, q, h) ==
  /\ p \in Seq(Nat) /\ Len(p) = IF h <= Len(q) THEN h ELSE Len(q)
  /\ \A i \in 1 .. Len(p) : p[i] = q[i]

LEMMA FiltersFront ==
  ASSUME NEW q \in Seq(Nat), NEW r \in Seq(Nat), NEW S, ToSet(q) \subseteq S,
         NEW n \in Nat, Len(q) <= n,
         \A i \in 1 .. Len(q) : r[i] = q[i], \A i \in Len(q) + 1 .. n : r[i] \notin S,
         NEW f, Filters(f, r, S, n), NEW h \in 0 .. n
  PROVE  IsFront(f[h], q, h)
  <1> DEFINE N == {i \in 0 .. h : ~IsFront(f[i], q, i)}
  <1>0. Len(q) \in Nat /\ h \in Nat /\ \A i \in 1 .. Len(q) : q[i] \in S /\ q[i] \in Nat
    BY DEF ToSet
  <1>1. SUFFICES ASSUME N # {} PROVE FALSE
    BY <1>0
  <1>2. PICK i \in N : \A j \in N : i <= j
    <2>1. N \in SUBSET Nat
      OBVIOUS
    <2>2. QED
      BY <1>1, <2>1, LeastOf
  <1>3. i \in 0 .. h /\ i \in 0 .. n /\ i \in Nat
    BY <1>0, <1>2
  <1>4. f[i] = IF i = 0 THEN <<>> ELSE IF r[i] \in S THEN Append(f[i - 1], r[i]) ELSE f[i - 1]
    BY <1>3 DEF Filters
  <1>5. CASE i = 0
    <2>1. IsFront(<<>>, q, 0)
      BY <1>0 DEF IsFront
    <2>2. QED
      BY <1>2, <1>4, <1>5, <2>1
  <1>6. CASE i # 0
    <2>1. i - 1 \in 0 .. h
      BY <1>3, <1>6
    <2>2. IsFront(f[i - 1], q, i - 1)
      <3>1. i - 1 \notin N
        BY <1>2, <1>3
      <3>2. QED
        BY <2>1, <3>1
    <2>3. PICK p \in Seq(Nat) : p = f[i - 1]
      BY <2>2 DEF IsFront
    <2>4. CASE i <= Len(q)
      <3>1. i \in 1 .. Len(q)
        BY <1>0, <1>3, <1>6, <2>4
      <3>2. r[i] = q[i] /\ q[i] \in S /\ q[i] \in Nat
        BY <1>0, <3>1
      <3>3. Len(p) = i - 1 /\ \A j \in 1 .. i - 1 : p[j] = q[j]
        BY <1>0, <1>3, <2>2, <2>3, <2>4 DEF IsFront
      <3>4. PICK x \in Nat : x = q[i]
        BY <3>2
      <3>5. /\ Append(p, x) \in Seq(Nat) /\ Len(Append(p, x)) = i
            /\ \A j \in 1 .. i - 1 : Append(p, x)[j] = p[j]
            /\ Append(p, x)[i] = x
        BY <1>3, <3>3
      <3>6. \A j \in 1 .. i : j \in 1 .. i - 1 \/ j = i
        BY <1>3
      <3>7. IsFront(Append(p, x), q, i)
        BY <2>4, <3>3, <3>4, <3>5, <3>6 DEF IsFront
      <3>8. QED
        BY <1>2, <1>4, <1>6, <2>3, <3>2, <3>4, <3>7
    <2>5. CASE ~(i <= Len(q))
      <3>1. i \in Len(q) + 1 .. n
        BY <1>0, <1>3, <2>5
      <3>2. r[i] \notin S
        BY <3>1
      <3>3. IsFront(p, q, i)
        BY <1>0, <1>3, <2>2, <2>3, <2>5 DEF IsFront
      <3>4. QED
        BY <1>2, <1>4, <1>6, <2>3, <3>2, <3>3
    <2>6. QED
      BY <2>4, <2>5
  <1>7. QED
    BY <1>5, <1>6

LEMMA KeepFront ==
  ASSUME NEW q \in Seq(Nat), NEW r \in Seq(Nat), ToSet(r) \intersect ToSet(q) = {}
  PROVE  Keep(q \o r, ToSet(q)) = q
  <1>1. PICK t : t = q \o r
    OBVIOUS
  <1>2. /\ t \in Seq(Nat) /\ Len(t) = Len(q) + Len(r) /\ Len(q) \in Nat /\ Len(r) \in Nat
        /\ \A i \in 1 .. Len(q) : t[i] = q[i]
        /\ \A i \in 1 .. Len(r) : t[Len(q) + i] = r[i]
    BY <1>1, ConcatProperties
  <1>3. ASSUME NEW i \in Len(q) + 1 .. Len(t) PROVE t[i] \notin ToSet(q)
    <2>1. i - Len(q) \in 1 .. Len(r) /\ Len(q) + (i - Len(q)) = i
      BY <1>2
    <2>2. PICK k \in 1 .. Len(r) : Len(q) + k = i
      BY <2>1
    <2>3. t[i] = r[k] /\ r[k] \in ToSet(r)
      BY <1>2, <2>2 DEF ToSet
    <2>4. QED
      BY <2>3
  <1>4. Len(t) \in Nat /\ Len(q) <= Len(t) /\ Len(t) \in 0 .. Len(t)
    BY <1>2
  <1>5. PICK f : Filters(f, t, ToSet(q), Len(t)) /\ Keep(t, ToSet(q)) = f[Len(t)]
    BY <1>4, KeepFilters
  <1>6. IsFront(f[Len(t)], q, Len(t))
    BY <1>2, <1>3, <1>4, <1>5, FiltersFront
  <1>7. PICK p : p = f[Len(t)]
    OBVIOUS
  <1>8. p \in Seq(Nat) /\ Len(p) = Len(q) /\ \A i \in 1 .. Len(q) : p[i] = q[i]
    BY <1>2, <1>4, <1>6, <1>7 DEF IsFront
  <1>9. p = q
    BY <1>8, SeqEqual
  <1>10. QED
    BY <1>1, <1>5, <1>7, <1>9

\* Merging a list with what is pending: the list first, then what it has not.
LEMMA MergeIsFront ==
  ASSUME NEW q \in Seq(Nat), NEW r \in Seq(Nat)
  PROVE  \E t \in Seq(Nat) : /\ Merge(q, r) = q \o t /\ ToSet(t) \intersect ToSet(q) = {}
                             /\ ToSet(t) = ToSet(r) \ ToSet(q)
  <1>1. PICK t : t = Keep(r, ToSet(r) \ ToSet(q))
    OBVIOUS
  <1>2. t \in Seq(Nat) /\ ToSet(t) = ToSet(r) \intersect (ToSet(r) \ ToSet(q))
    BY <1>1, KeepType
  <1>3. Merge(q, r) = q \o t
    BY <1>1 DEF Merge
  <1>4. QED
    BY <1>2, <1>3

LEMMA MergeType ==
  ASSUME NEW q \in Seq(Nat), NEW r \in Seq(Nat)
  PROVE  Merge(q, r) \in Seq(Nat) /\ ToSet(Merge(q, r)) = ToSet(q) \union ToSet(r)
  <1>1. PICK t \in Seq(Nat) : Merge(q, r) = q \o t /\ ToSet(t) = ToSet(r) \ ToSet(q)
    BY MergeIsFront
  <1>2. q \o t \in Seq(Nat) /\ ToSet(q \o t) = ToSet(q) \union ToSet(t)
    BY ToSetConcat, ConcatProperties
  <1>3. QED
    BY <1>1, <1>2

\* The list that was loaded is what is shown of its messages, in its order.
LEMMA LoadedShown ==
  ASSUME NEW q \in Seq(Nat), NEW r \in Seq(Nat), NEW u \in Seq(Nat)
  PROVE  Keep(Merge(Merge(q, r), u), ToSet(q)) = q
  <1>1. PICK t \in Seq(Nat) : Merge(q, r) = q \o t /\ ToSet(t) \intersect ToSet(q) = {}
    BY MergeIsFront
  <1>2. Merge(q, r) \in Seq(Nat) /\ ToSet(q) \subseteq ToSet(Merge(q, r))
    BY MergeType
  <1>3. PICK p \in Seq(Nat) : p = Merge(q, r)
    BY <1>2, Zenon
  <1>4. PICK v \in Seq(Nat) : Merge(p, u) = p \o v /\ ToSet(v) \intersect ToSet(p) = {}
    BY MergeIsFront
  <1>5. (q \o t) \o v = q \o (t \o v)
    BY ConcatAssociative, SMTT(60)
  <1>6. PICK w : w = t \o v
    OBVIOUS
  <1>7. w \in Seq(Nat) /\ ToSet(w) = ToSet(t) \union ToSet(v)
    BY <1>6, ToSetConcat, ConcatProperties
  <1>8. ToSet(w) \intersect ToSet(q) = {}
    BY <1>1, <1>2, <1>3, <1>4, <1>7
  <1>9. Keep(q \o w, ToSet(q)) = q
    BY <1>7, <1>8, KeepFront
  <1>10. QED
    BY <1>1, <1>3, <1>4, <1>5, <1>6, <1>9

-----------------------------------------------------------------------------
(* What is under way. *)

Kinds == {"load", "list", "revert", "redo"}
CallSet == [id : Nat, kind : Kinds, s : Sessions, m : Nat, got : Seq(Nat), at : Nat]
EventSet == [kind : {"created", "undone", "truncated", "end"}, s : Sessions, m : Nat]

CallsOK(cs) == IsFiniteSet(cs) /\ cs \subseteq CallSet

\* A call is given the number of no other: there are more numbers than calls.
LEMMA FreeIdType ==
  ASSUME NEW cs, CallsOK(cs)
  PROVE  FreeId(cs) \in Nat
  <1> DEFINE n == Cardinality(cs)
             ids == {c.id : c \in cs}
             f == [c \in cs |-> c.id]
  <1>1. n \in Nat
    BY FS_CardinalityType DEF CallsOK
  <1>2. f \in Surjection(cs, ids)
    <2>1. f \in [cs -> ids]
      OBVIOUS
    <2>2. \A i \in ids : \E c \in cs : f[c] = i
      OBVIOUS
    <2>3. QED
      BY <2>1, <2>2 DEF Surjection
  <1>3. IsFiniteSet(ids) /\ Cardinality(ids) <= n
    <2> HIDE DEF f, ids
    <2>1. QED
      BY <1>2, FS_Surjection DEF CallsOK
  <1>4. (1 .. n + 1) \ ids # {}
    <2> HIDE DEF ids, n
    <2>1. SUFFICES ASSUME (1 .. n + 1) \subseteq ids PROVE FALSE
      OBVIOUS
    <2>2. Cardinality(1 .. n + 1) = n + 1
      BY <1>1, FS_Interval
    <2>3. Cardinality(1 .. n + 1) <= Cardinality(ids)
      BY <1>3, <2>1, FS_Subset
    <2>4. Cardinality(ids) \in Nat
      BY <1>3, FS_CardinalityType
    <2>5. QED
      BY <1>1, <1>3, <2>2, <2>3, <2>4
  <1>5. (1 .. n + 1) \ ids \in SUBSET Nat
    BY <1>1
  <1>6. Min((1 .. n + 1) \ ids) \in (1 .. n + 1) \ ids
    <2> HIDE DEF ids, n
    <2>1. QED
      BY <1>4, <1>5, MinIsLeast
  <1>7. QED
    BY <1>1, <1>6 DEF FreeId

\* A new request has no answer.
Adds(cs, ds, kind, s) ==
  \E d \in CallSet : /\ ds = cs \union {d} /\ CallsOK(ds)
                     /\ d.kind = kind /\ d.s = s /\ d.at = None

LEMMA CallType ==
  ASSUME NEW cs, CallsOK(cs), NEW kind \in Kinds, NEW s \in Sessions, NEW m \in Nat
  PROVE  Adds(cs, Call(cs, kind, s, m), kind, s)
  <1>1. PICK n \in Nat : n = FreeId(cs)
    BY FreeIdType
  <1>2. PICK d : d = [id |-> n, kind |-> kind, s |-> s, m |-> m, got |-> <<>>, at |-> None]
    OBVIOUS
  <1>3. d \in CallSet /\ d.kind = kind /\ d.s = s /\ d.at = None
    BY <1>2 DEF CallSet, None
  <1>4. CallsOK(cs \union {d})
    BY <1>3, FS_AddElement DEF CallsOK
  <1>5. Call(cs, kind, s, m) = cs \union {d}
    BY <1>1, <1>2 DEF Call
  <1>6. QED
    BY <1>3, <1>4, <1>5 DEF Adds

LEMMA CallsLess ==
  ASSUME NEW cs, CallsOK(cs), NEW c
  PROVE  CallsOK(cs \ {c})
  BY FS_RemoveElement DEF CallsOK

LEMMA CallsReplaced ==
  ASSUME NEW cs, CallsOK(cs), NEW c, NEW d \in CallSet
  PROVE  CallsOK((cs \ {c}) \union {d})
  <1>1. CallsOK(cs \ {c})
    BY CallsLess
  <1>2. QED
    BY <1>1, FS_AddElement DEF CallsOK

\* The server's answer keeps whose and what the call is.
ServedAs(c, q, n, d) == d = [c EXCEPT !.got = q, !.at = n]

LEMMA ServedType ==
  ASSUME NEW c \in CallSet, NEW q \in Seq(Nat), NEW n \in Nat, NEW d, ServedAs(c, q, n, d)
  PROVE  d \in CallSet /\ d.kind = c.kind /\ d.s = c.s /\ d.got = q /\ d.at = n
  <1>2. c = [id |-> c.id, kind |-> c.kind, s |-> c.s, m |-> c.m, got |-> c.got, at |-> c.at]
        /\ c.id \in Nat /\ c.kind \in Kinds /\ c.s \in Sessions /\ c.m \in Nat
    BY DEF CallSet
  <1>3. d = [id |-> c.id, kind |-> c.kind, s |-> c.s, m |-> c.m, got |-> q, at |-> n]
    BY <1>2 DEF ServedAs
  <1>4. QED
    BY <1>2, <1>3 DEF CallSet

LEMMA RevertedType ==
  ASSUME NEW c \in CallSet, NEW m \in Nat, NEW d, d = [c EXCEPT !.at = 1, !.m = m]
  PROVE  d \in CallSet /\ d.kind = c.kind /\ d.s = c.s
  <1>2. c = [id |-> c.id, kind |-> c.kind, s |-> c.s, m |-> c.m, got |-> c.got, at |-> c.at]
        /\ c.id \in Nat /\ c.kind \in Kinds /\ c.s \in Sessions /\ c.got \in Seq(Nat)
    BY DEF CallSet
  <1>3. d = [id |-> c.id, kind |-> c.kind, s |-> c.s, m |-> m, got |-> c.got, at |-> 1]
    BY <1>2
  <1>4. QED
    BY <1>2, <1>3 DEF CallSet

LEMMA EventType ==
  ASSUME NEW kind \in {"created", "undone", "truncated", "end"}, NEW s \in Sessions, NEW m \in Nat
  PROVE  /\ Event(kind, s, m) \in EventSet
         /\ Event(kind, s, m).kind = kind /\ Event(kind, s, m).s = s /\ Event(kind, s, m).m = m
  BY DEF Event, EventSet

\* The events under way are the one that comes next and the others.
LEMMA HeadAndTail ==
  ASSUME NEW q \in Seq(EventSet), q # <<>>
  PROVE  /\ Head(q) \in EventSet /\ Tail(q) \in Seq(EventSet)
         /\ ToSet(q) = {Head(q)} \union ToSet(Tail(q))
  <1>1. PICK r : r = Tail(q)
    OBVIOUS
  <1>2. /\ Len(q) \in Nat /\ Len(q) # 0 /\ Head(q) = q[1] /\ Head(q) \in EventSet
        /\ r \in Seq(EventSet) /\ Len(r) = Len(q) - 1
        /\ \A i \in 1 .. Len(r) : r[i] = q[i + 1]
    BY <1>1
  <1>3. ASSUME NEW e \in ToSet(q) PROVE e \in {Head(q)} \union ToSet(r)
    <2>1. PICK i \in 1 .. Len(q) : e = q[i]
      BY DEF ToSet
    <2>2. CASE i = 1
      BY <1>2, <2>1, <2>2
    <2>3. CASE i # 1
      <3>1. PICK k \in 1 .. Len(r) : k + 1 = i
        BY <1>2, <2>1, <2>3
      <3>2. e = r[k]
        BY <1>2, <2>1, <3>1
      <3>3. QED
        BY <1>2, <3>2 DEF ToSet
    <2>4. QED
      BY <2>2, <2>3
  <1>4. ASSUME NEW e \in ToSet(r) PROVE e \in ToSet(q)
    <2>1. PICK i \in 1 .. Len(r) : e = r[i]
      BY <1>2 DEF ToSet
    <2>2. e = q[i + 1] /\ i + 1 \in 1 .. Len(q)
      BY <1>2, <2>1
    <2>3. QED
      BY <2>2 DEF ToSet
  <1>5. Head(q) \in ToSet(q)
    BY <1>2 DEF ToSet
  <1>6. QED
    BY <1>1, <1>2, <1>3, <1>4, <1>5

-----------------------------------------------------------------------------
(* Type correctness. *)

\* The variables of the type invariant, each with its own set.
ListsOK == stored \in [Sessions -> Seq(Nat)] /\ queued \in [Sessions -> Seq(Nat)]
           /\ cache \in [Sessions -> Seq(Nat)]
NumbersOK == cut \in [Sessions -> Nat] /\ target \in [Sessions -> Nat]
             /\ version \in [Sessions -> Nat] /\ fresh \in [Sessions -> Nat]
LoopsOK == loop \in [Sessions -> {"idle", "busy", "next", "ending"}] /\ prompts \subseteq Nat
PageOK == /\ selected \in Sessions \union {NoSession} /\ view \in Seq(Nat)
          /\ announced \in [Sessions -> SUBSET Nat] /\ overtaken \subseteq Sessions
          /\ failed \subseteq Sessions
UsedOK == used \in [made : Nat, selects : Nat, reverts : Nat, mishaps : Nat]
WayOK == events \in Seq(EventSet) /\ CallsOK(calls)

LEMMA TypeParts ==
  ViewTypeOK <=> ListsOK /\ NumbersOK /\ LoopsOK /\ PageOK /\ UsedOK /\ WayOK
  BY DEF ViewTypeOK, ListsOK, NumbersOK, LoopsOK, PageOK, UsedOK, WayOK, EventSet, CallSet, Kinds, CallsOK

LEMMA ViewTypeInit == ViewInit => ViewTypeOK
  <1> SUFFICES ASSUME ViewInit PROVE ViewTypeOK
    OBVIOUS
  <1>1. ListsOK /\ NumbersOK
    BY DEF ViewInit, ListsOK, NumbersOK, None
  <1>2. LoopsOK /\ PageOK /\ UsedOK
    BY DEF ViewInit, LoopsOK, PageOK, UsedOK
  <1>3. WayOK
    BY FS_EmptySet DEF ViewInit, WayOK, CallsOK
  <1>4. QED
    BY <1>1, <1>2, <1>3, TypeParts

LEMMA TypePartsNext ==
  ListsOK' /\ NumbersOK' /\ LoopsOK' /\ PageOK' /\ UsedOK' /\ WayOK' => ViewTypeOK'
  BY DEF ViewTypeOK, ListsOK, NumbersOK, LoopsOK, PageOK, UsedOK, WayOK, EventSet, CallSet, Kinds, CallsOK

LEMMA CountType ==
  ASSUME UsedOK, NEW what \in {"made", "selects", "reverts", "mishaps"}, Count(what)
  PROVE  UsedOK' /\ used'.made >= used.made
  <1>1. used = [made |-> used.made, selects |-> used.selects, reverts |-> used.reverts,
                mishaps |-> used.mishaps]
        /\ used.made \in Nat /\ used.selects \in Nat /\ used.reverts \in Nat /\ used.mishaps \in Nat
    BY DEF UsedOK
  <1>2. CASE what = "made"
    <2>1. used' = [used EXCEPT !.made = @ + 1]
      BY <1>2 DEF Count
    <2>2. QED
      BY <1>1, <2>1 DEF UsedOK
  <1>3. CASE what = "selects"
    <2>1. used' = [used EXCEPT !.selects = @ + 1]
      BY <1>3 DEF Count
    <2>2. QED
      BY <1>1, <2>1 DEF UsedOK
  <1>4. CASE what = "reverts"
    <2>1. used' = [used EXCEPT !.reverts = @ + 1]
      BY <1>4 DEF Count
    <2>2. QED
      BY <1>1, <2>1 DEF UsedOK
  <1>5. CASE what = "mishaps"
    <2>1. used' = [used EXCEPT !.mishaps = @ + 1]
      BY <1>5 DEF Count
    <2>2. QED
      BY <1>1, <2>1 DEF UsedOK
  <1>6. QED
    BY <1>2, <1>3, <1>4, <1>5

\* What a step says of a session's messages and of the events.
LEMMA StoreType ==
  ASSUME stored \in [Sessions -> Seq(Nat)], version \in [Sessions -> Nat], NEW s \in Sessions,
         NEW q \in Seq(Nat), Store(s, q)
  PROVE  stored' \in [Sessions -> Seq(Nat)] /\ version' \in [Sessions -> Nat]
  BY DEF Store

LEMMA EmitType ==
  ASSUME events \in Seq(EventSet), NEW new \in Seq(EventSet), EmitEvents(new)
  PROVE  events' \in Seq(EventSet) /\ ToSet(events') = ToSet(events) \union ToSet(new)
  BY ToSetConcat, ConcatProperties DEF EmitEvents

LEMMA EmitOne ==
  ASSUME events \in Seq(EventSet), NEW e \in EventSet, EmitEvents(<<e>>)
  PROVE  events' \in Seq(EventSet) /\ ToSet(events') = ToSet(events) \union {e}
  <1>1. PICK new : new = <<e>>
    OBVIOUS
  <1>2. new \in Seq(EventSet) /\ DOMAIN new = {1} /\ new[1] = e
    BY <1>1
  <1>3. ToSet(new) = {e}
    BY <1>2 DEF ToSet
  <1>4. EmitEvents(new)
    BY <1>1
  <1>5. QED
    BY <1>2, <1>3, <1>4, EmitType

\* A prompt of an idle session.
SubmitIdle(s, m) ==
  /\ loop[s] = "idle"
  /\ Store(s, Append(Before(stored[s], cut[s]), m))
  /\ cut' = [cut EXCEPT ![s] = None]
  /\ loop' = [loop EXCEPT ![s] = "busy"]
  /\ EmitEvents((IF cut[s] = None THEN <<>> ELSE <<Event("truncated", s, None)>>)
                \o <<Event("created", s, m)>>)
  /\ UNCHANGED queued

\* ... of one that is busy
SubmitQueued(s, m) ==
  /\ loop[s] \in {"busy", "next"}
  /\ queued' = [queued EXCEPT ![s] = Append(@, m)]
  /\ EmitEvents(<<Event("created", s, m)>>)
  /\ UNCHANGED <<stored, version, cut, loop>>

LEMMA SubmitCases ==
  ASSUME NEW s, Submit(s)
  PROVE  /\ SubmitIdle(s, used.made + 1) \/ SubmitQueued(s, used.made + 1)
         /\ prompts' = prompts \union {used.made + 1} /\ Count("made")
         /\ UNCHANGED <<page, calls, fresh, overtaken, failed>>
  BY Zenon DEF Submit, SubmitIdle, SubmitQueued

\* The events of a prompt: a session that cuts what an undo hides says so first.
LEMMA SubmitEvents ==
  ASSUME events \in Seq(EventSet), NEW s \in Sessions, NEW m \in Nat, NEW n \in BOOLEAN,
         EmitEvents((IF n THEN <<>> ELSE <<Event("truncated", s, None)>>) \o <<Event("created", s, m)>>)
  PROVE  /\ events' \in Seq(EventSet) /\ ToSet(events) \subseteq ToSet(events')
         /\ \A e \in ToSet(events') : e \in ToSet(events) \/ e.m \in {None, m}
         /\ \A e \in ToSet(events') : e.kind = "created" => e \in ToSet(events) \/ e.m = m
  <1>1. PICK t : t = Event("truncated", s, None)
    OBVIOUS
  <1>2. PICK c : c = Event("created", s, m)
    OBVIOUS
  <1>3. t \in EventSet /\ t.m = None /\ t.kind = "truncated" /\ c \in EventSet /\ c.m = m
    BY <1>1, <1>2, EventType DEF None
  <1>4. PICK new : new = (IF n THEN <<>> ELSE <<t>>) \o <<c>>
    OBVIOUS
  <1>5. new \in Seq(EventSet) /\ ToSet(new) \subseteq {t, c}
    <2>1. CASE n
      <3>1. new = <<c>>
        BY <1>4, <2>1
      <3>2. QED
        BY <1>3, <3>1 DEF ToSet
    <2>2. CASE ~n
      <3>1. PICK p : p = <<t>>
        OBVIOUS
      <3>2. PICK r : r = <<c>>
        OBVIOUS
      <3>3. p \in Seq(EventSet) /\ r \in Seq(EventSet) /\ ToSet(p) = {t} /\ ToSet(r) = {c}
        BY <1>3, <3>1, <3>2 DEF ToSet
      <3>4. new = p \o r
        BY <1>4, <2>2, <3>1, <3>2
      <3>5. QED
        BY <3>3, <3>4, ToSetConcat, ConcatProperties
    <2>3. QED
      BY <2>1, <2>2
  <1>6. EmitEvents(new)
    BY <1>1, <1>2, <1>4
  <1>7. events' \in Seq(EventSet) /\ ToSet(events') = ToSet(events) \union ToSet(new)
    BY <1>5, <1>6, EmitType
  <1>8. QED
    BY <1>3, <1>5, <1>7

LEMMA SubmitType ==
  ASSUME ViewTypeOK, NEW s \in Sessions, Submit(s)
  PROVE  ViewTypeOK'
  <1>0. ListsOK /\ NumbersOK /\ LoopsOK /\ PageOK /\ UsedOK /\ WayOK
    BY TypeParts
  <1>1. PICK m \in Nat : m = used.made + 1
    BY <1>0 DEF UsedOK
  <1>2. /\ SubmitIdle(s, m) \/ SubmitQueued(s, m)
        /\ prompts' = prompts \union {m} /\ Count("made") /\ UNCHANGED <<page, calls, fresh, overtaken, failed>>
    BY <1>1, SubmitCases
  <1>3. UsedOK'
    BY <1>0, <1>2, CountType
  <1>4. PageOK' /\ cache' \in [Sessions -> Seq(Nat)] /\ target' \in [Sessions -> Nat]
        /\ fresh' \in [Sessions -> Nat] /\ CallsOK(calls)'
    BY <1>0, <1>2 DEF PageOK, page, ListsOK, NumbersOK, WayOK, CallsOK
  <1>5. CASE SubmitIdle(s, m)
    <2>1. PICK q \in Seq(Nat) : q = Append(Before(stored[s], cut[s]), m)
      <3>1. PICK b \in Seq(Nat) : b = stored[s]
        BY <1>0 DEF ListsOK
      <3>2. Before(b, cut[s]) \in Seq(Nat)
        BY BeforeType
      <3>3. QED
        BY <3>1, <3>2, ToSetAppend
    <2>2. stored' \in [Sessions -> Seq(Nat)] /\ version' \in [Sessions -> Nat]
      BY <1>0, <1>5, <2>1, StoreType DEF SubmitIdle, ListsOK, NumbersOK
    <2>3. events' \in Seq(EventSet)
      BY <1>0, <1>5, SubmitEvents DEF SubmitIdle, WayOK
    <2>4. ListsOK' /\ NumbersOK' /\ LoopsOK' /\ WayOK'
      BY <1>0, <1>2, <1>4, <1>5, <2>2, <2>3 DEF SubmitIdle, ListsOK, NumbersOK, LoopsOK, WayOK, None
    <2>5. QED
      BY <1>3, <1>4, <2>4, TypePartsNext
  <1>6. CASE SubmitQueued(s, m)
    <2>1. events' \in Seq(EventSet)
      <3>1. PICK e \in EventSet : e = Event("created", s, m)
        BY EventType
      <3>2. QED
        BY <1>0, <1>6, <3>1, EmitOne DEF SubmitQueued, WayOK
    <2>2. queued' \in [Sessions -> Seq(Nat)]
      BY <1>0, <1>6 DEF SubmitQueued, ListsOK
    <2>3. ListsOK' /\ NumbersOK' /\ LoopsOK' /\ WayOK'
      BY <1>0, <1>2, <1>4, <1>6, <2>1, <2>2 DEF SubmitQueued, ListsOK, NumbersOK, LoopsOK, WayOK
    <2>4. QED
      BY <1>3, <1>4, <2>3, TypePartsNext
  <1>7. QED
    BY <1>2, <1>5, <1>6

LEMMA MaterializeType ==
  ASSUME ViewTypeOK, NEW s \in Sessions, Materialize(s)
  PROVE  ViewTypeOK'
  <1>0. ListsOK /\ NumbersOK /\ LoopsOK /\ PageOK /\ UsedOK /\ WayOK
    BY TypeParts
  <1>1. PICK q \in Seq(Nat) : q = stored[s] \o queued[s]
    BY <1>0, ConcatProperties DEF ListsOK
  <1>2. stored' \in [Sessions -> Seq(Nat)] /\ version' \in [Sessions -> Nat]
    BY <1>0, <1>1, StoreType DEF Materialize, ListsOK, NumbersOK
  <1>3. queued' \in [Sessions -> Seq(Nat)]
    BY <1>0 DEF Materialize, ListsOK
  <1>4. ListsOK' /\ NumbersOK' /\ LoopsOK' /\ PageOK' /\ UsedOK' /\ WayOK'
    BY <1>0, <1>2, <1>3 DEF Materialize, page, ListsOK, NumbersOK, LoopsOK, PageOK, UsedOK, WayOK, CallsOK
  <1>5. QED
    BY <1>4, TypePartsNext

LEMMA ReplyType ==
  ASSUME ViewTypeOK, NEW s \in Sessions, Reply(s)
  PROVE  ViewTypeOK'
  <1>0. ListsOK /\ NumbersOK /\ LoopsOK /\ PageOK /\ UsedOK /\ WayOK
    BY TypeParts
  <1>1. PICK q \in Seq(Nat) : q = Append(stored[s], used.made + 1)
    <2>1. PICK b \in Seq(Nat), m \in Nat : b = stored[s] /\ m = used.made + 1
      BY <1>0 DEF ListsOK, UsedOK
    <2>2. Append(b, m) \in Seq(Nat)
      OBVIOUS
    <2>3. QED
      BY <2>1, <2>2
  <1>2. stored' \in [Sessions -> Seq(Nat)] /\ version' \in [Sessions -> Nat]
    BY <1>0, <1>1, StoreType DEF Reply, ListsOK, NumbersOK
  <1>3. UsedOK'
    BY <1>0, CountType DEF Reply
  <1>4. ListsOK' /\ NumbersOK' /\ LoopsOK' /\ PageOK' /\ WayOK'
    BY <1>0, <1>2 DEF Reply, page, ListsOK, NumbersOK, LoopsOK, PageOK, WayOK, CallsOK
  <1>5. QED
    BY <1>3, <1>4, TypePartsNext

LEMMA EndTurnType ==
  ASSUME ViewTypeOK, NEW s \in Sessions, EndTurn(s)
  PROVE  ViewTypeOK'
  <1>0. ListsOK /\ NumbersOK /\ LoopsOK /\ PageOK /\ UsedOK /\ WayOK
    BY TypeParts
  <1>1. PICK e \in EventSet : e = Event("end", s, None)
    BY EventType DEF None
  <1>2. events' \in Seq(EventSet)
    BY <1>0, <1>1, EmitOne DEF EndTurn, WayOK
  <1>3. ListsOK' /\ NumbersOK' /\ LoopsOK' /\ PageOK' /\ UsedOK' /\ WayOK'
    BY <1>0, <1>2 DEF EndTurn, page, ListsOK, NumbersOK, LoopsOK, PageOK, UsedOK, WayOK, CallsOK
  <1>4. QED
    BY <1>3, TypePartsNext

LEMMA StopType ==
  ASSUME ListsOK, LoopsOK, NEW s \in Sessions, StopLoop(s)
  PROVE  queued' \in [Sessions -> Seq(Nat)]
         /\ loop' \in [Sessions -> {"idle", "busy", "next", "ending"}]
  BY DEF StopLoop, ListsOK, LoopsOK

LEMMA CancelType ==
  ASSUME ViewTypeOK, NEW s \in Sessions, Cancel(s)
  PROVE  ViewTypeOK'
  <1>0. ListsOK /\ NumbersOK /\ LoopsOK /\ PageOK /\ UsedOK /\ WayOK
    BY TypeParts
  <1>1. queued' \in [Sessions -> Seq(Nat)] /\ loop' \in [Sessions -> {"idle", "busy", "next", "ending"}]
    BY <1>0, StopType DEF Cancel
  <1>2. UsedOK'
    BY <1>0, CountType DEF Cancel
  <1>3. ListsOK' /\ NumbersOK' /\ LoopsOK' /\ PageOK' /\ WayOK'
    BY <1>0, <1>1 DEF Cancel, page, ListsOK, NumbersOK, LoopsOK, PageOK, WayOK, CallsOK
  <1>4. QED
    BY <1>2, <1>3, TypePartsNext

LEMMA ServeType ==
  ASSUME ViewTypeOK, NEW c \in calls, Serve(c)
  PROVE  ViewTypeOK'
  <1>0. ListsOK /\ NumbersOK /\ LoopsOK /\ PageOK /\ UsedOK /\ WayOK
    BY TypeParts
  <1>1. c \in CallSet /\ c.s \in Sessions
    BY <1>0 DEF WayOK, CallsOK, CallSet
  <1>2. PICK q \in Seq(Nat), n \in Nat : q = stored[c.s] /\ n = version[c.s] + 1
    BY <1>0, <1>1 DEF ListsOK, NumbersOK
  <1>3. PICK d \in CallSet : d = [c EXCEPT !.got = stored[c.s], !.at = version[c.s] + 1]
    <2>1. PICK d : d = [c EXCEPT !.got = q, !.at = n]
      OBVIOUS
    <2>2. ServedAs(c, q, n, d)
      BY <2>1 DEF ServedAs
    <2>3. d \in CallSet
      BY <1>1, <2>2, ServedType
    <2>4. QED
      BY <1>2, <2>1, <2>3
  <1>4. CallsOK((calls \ {c}) \union {d})
    BY <1>0, <1>3, CallsReplaced DEF WayOK
  <1>5. ListsOK' /\ NumbersOK' /\ LoopsOK' /\ PageOK' /\ UsedOK' /\ WayOK'
    BY <1>0, <1>3, <1>4 DEF Serve, server, page, ListsOK, NumbersOK, LoopsOK, PageOK, UsedOK, WayOK, CallsOK
  <1>6. QED
    BY <1>5, TypePartsNext

LEMMA NextCutType ==
  ASSUME ViewTypeOK, NEW s \in Sessions
  PROVE  NextCut(s) \in Nat
  <1> DEFINE later == {p \in prompts \intersect ToSet(stored[s]) : p > cut[s]}
  <1>1. later \in SUBSET Nat
    BY TypeParts DEF LoopsOK
  <1>2. NextCut(s) = IF cut[s] = None \/ later = {} THEN None ELSE Min(later)
    BY DEF NextCut
  <1> HIDE DEF later
  <1>3. later # {} => Min(later) \in Nat
    BY <1>1, MinIsLeast
  <1>4. QED
    BY <1>2, <1>3 DEF None

\* What a revert or a redo does when the server carries it out: the cut stays or
\* moves, and no answer of another request changes.
LEMMA ServeRevertCases ==
  ASSUME ViewTypeOK, NEW c \in calls, ServeRevert(c)
  PROVE  \E d \in CallSet :
           /\ c.s \in Sessions /\ c.kind \in {"revert", "redo"} /\ d.kind = c.kind /\ d.s = c.s
           /\ calls' = (calls \ {c}) \union {d} /\ CallsOK(calls)'
           /\ cut' \in [Sessions -> Nat] /\ events' \in Seq(EventSet)
           /\ ToSet(events) \subseteq ToSet(events')
           /\ \A e \in ToSet(events') : e.kind = "created" => e \in ToSet(events)
           /\ StopLoop(c.s) /\ UNCHANGED <<stored, version, prompts, page, fresh, overtaken, failed, used>>
  <1>0. ListsOK /\ NumbersOK /\ LoopsOK /\ PageOK /\ UsedOK /\ WayOK
    BY TypeParts
  <1>1. c \in CallSet /\ c.s \in Sessions /\ c.m \in Nat
    BY <1>0 DEF WayOK, CallsOK, CallSet
  <1>2. PICK m : m = IF c.kind = "revert" THEN c.m ELSE NextCut(c.s)
    OBVIOUS
  <1>3. m \in Nat
    BY <1>1, <1>2, NextCutType
  <1>4. PICK d \in CallSet : d = [c EXCEPT !.at = 1, !.m = m] /\ d.kind = c.kind /\ d.s = c.s
    <2>1. PICK d : d = [c EXCEPT !.at = 1, !.m = m]
      OBVIOUS
    <2>2. QED
      BY <1>1, <1>3, <2>1, RevertedType
  <1>5. /\ c.kind \in {"revert", "redo"} /\ StopLoop(c.s)
        /\ calls' = (calls \ {c}) \union {d}
        /\ MoveCut(c.s, m) \/ UNCHANGED <<cut, events>>
        /\ UNCHANGED <<stored, version, prompts, page, fresh, overtaken, failed, used>>
    BY <1>2, <1>4, Zenon DEF ServeRevert
  <1>6. CallsOK(calls)'
    <2>1. CallsOK((calls \ {c}) \union {d})
      BY <1>0, CallsReplaced DEF WayOK
    <2>2. QED
      BY <1>5, <2>1 DEF CallsOK
  <1>7. /\ cut' \in [Sessions -> Nat] /\ events' \in Seq(EventSet)
        /\ ToSet(events) \subseteq ToSet(events')
        /\ \A e \in ToSet(events') : e.kind = "created" => e \in ToSet(events)
    <2>1. CASE UNCHANGED <<cut, events>>
      BY <1>0, <2>1 DEF NumbersOK, WayOK
    <2>2. CASE MoveCut(c.s, m)
      <3>1. PICK e \in EventSet : e = Event("undone", c.s, m) /\ e.kind = "undone"
        BY <1>1, <1>3, EventType
      <3>2. events' \in Seq(EventSet) /\ ToSet(events') = ToSet(events) \union {e}
        BY <1>0, <2>2, <3>1, EmitOne DEF MoveCut, WayOK
      <3>3. cut' \in [Sessions -> Nat]
        BY <1>0, <1>1, <1>3, <2>2 DEF MoveCut, NumbersOK
      <3>4. QED
        BY <3>1, <3>2, <3>3
    <2>3. QED
      BY <1>5, <2>1, <2>2
  <1>8. QED
    BY <1>1, <1>4, <1>5, <1>6, <1>7

LEMMA ServeRevertType ==
  ASSUME ViewTypeOK, NEW c \in calls, ServeRevert(c)
  PROVE  ViewTypeOK'
  <1>0. ListsOK /\ NumbersOK /\ LoopsOK /\ PageOK /\ UsedOK /\ WayOK
    BY TypeParts
  <1>1. /\ c.s \in Sessions /\ CallsOK(calls)'
        /\ cut' \in [Sessions -> Nat] /\ events' \in Seq(EventSet)
        /\ StopLoop(c.s) /\ UNCHANGED <<stored, version, prompts, page, fresh, overtaken, failed, used>>
    BY ServeRevertCases
  <1>2. queued' \in [Sessions -> Seq(Nat)] /\ loop' \in [Sessions -> {"idle", "busy", "next", "ending"}]
    BY <1>0, <1>1, StopType
  <1>3. ListsOK' /\ NumbersOK' /\ LoopsOK' /\ PageOK' /\ UsedOK' /\ WayOK'
    BY <1>0, <1>1, <1>2 DEF page, ListsOK, NumbersOK, LoopsOK, PageOK, UsedOK, WayOK, CallsOK
  <1>4. QED
    BY <1>3, TypePartsNext

LEMMA RefuseRevertType ==
  ASSUME ViewTypeOK, NEW c \in calls, RefuseRevert(c)
  PROVE  ViewTypeOK'
  <1>0. ListsOK /\ NumbersOK /\ LoopsOK /\ PageOK /\ UsedOK /\ WayOK
    BY TypeParts
  <1>1. c.s \in Sessions
    BY <1>0 DEF WayOK, CallsOK, CallSet
  <1>2. queued' \in [Sessions -> Seq(Nat)] /\ loop' \in [Sessions -> {"idle", "busy", "next", "ending"}]
    BY <1>0, <1>1, StopType DEF RefuseRevert
  <1>3. CallsOK(calls \ {c})
    BY <1>0, CallsLess DEF WayOK
  <1>4. ListsOK' /\ NumbersOK' /\ LoopsOK' /\ PageOK' /\ UsedOK' /\ WayOK'
    BY <1>0, <1>2, <1>3 DEF RefuseRevert, page, ListsOK, NumbersOK, LoopsOK, PageOK, UsedOK, WayOK, CallsOK
  <1>5. QED
    BY <1>4, TypePartsNext

\* A load that is answered: what it changes in the page.
LEMMA ReceiveLoadCases ==
  ASSUME ViewTypeOK, NEW c \in calls, ReceiveLoad(c)
  PROVE  /\ c \in CallSet /\ c.s \in Sessions /\ c.got \in Seq(Nat) /\ c.at \in Nat
         /\ c.kind = "load" /\ c.at # None
         /\ \E k, v \in Seq(Nat) :
              /\ k = Keep(cache[c.s], announced[c.s]) /\ v = Keep(view, announced[c.s])
              /\ cache' = [cache EXCEPT ![c.s] = Merge(c.got, k)]
              /\ view' = IF selected = c.s THEN Merge(Merge(c.got, k), v) ELSE view
              /\ ToSet(k) = ToSet(cache[c.s]) \intersect announced[c.s]
              /\ ToSet(v) = ToSet(view) \intersect announced[c.s]
              /\ Merge(c.got, k) \in Seq(Nat)
              /\ ToSet(Merge(c.got, k)) = ToSet(c.got) \union ToSet(k)
              /\ Merge(Merge(c.got, k), v) \in Seq(Nat)
              /\ ToSet(Merge(Merge(c.got, k), v)) = ToSet(c.got) \union ToSet(k) \union ToSet(v)
         /\ announced' = [announced EXCEPT ![c.s] = @ \ ToSet(c.got)]
         /\ Age(c) /\ calls' = calls \ {c}
         /\ UNCHANGED <<server, events, selected, target, failed, used>>
  <1>0. ListsOK /\ PageOK /\ WayOK
    BY TypeParts
  <1>1. c \in CallSet /\ c.s \in Sessions /\ c.got \in Seq(Nat) /\ c.at \in Nat
    BY <1>0 DEF WayOK, CallsOK, CallSet
  <1>2. cache[c.s] \in Seq(Nat) /\ view \in Seq(Nat)
    BY <1>0, <1>1 DEF ListsOK, PageOK
  <1>3. PICK k \in Seq(Nat) : k = Keep(cache[c.s], announced[c.s])
                              /\ ToSet(k) = ToSet(cache[c.s]) \intersect announced[c.s]
    BY <1>2, KeepType
  <1>4. PICK v \in Seq(Nat) : v = Keep(view, announced[c.s])
                              /\ ToSet(v) = ToSet(view) \intersect announced[c.s]
    BY <1>2, KeepType
  <1>5. Merge(c.got, k) \in Seq(Nat) /\ ToSet(Merge(c.got, k)) = ToSet(c.got) \union ToSet(k)
    BY <1>1, MergeType
  <1>6. /\ Merge(Merge(c.got, k), v) \in Seq(Nat)
        /\ ToSet(Merge(Merge(c.got, k), v)) = ToSet(c.got) \union ToSet(k) \union ToSet(v)
    <2>1. PICK p \in Seq(Nat) : p = Merge(c.got, k)
      BY <1>5, Zenon
    <2>2. Merge(p, v) \in Seq(Nat) /\ ToSet(Merge(p, v)) = ToSet(p) \union ToSet(v)
      BY MergeType
    <2>3. QED
      BY <1>5, <2>1, <2>2
  <1>7. /\ cache' = [cache EXCEPT ![c.s] = Merge(c.got, k)]
        /\ view' = IF selected = c.s THEN Merge(Merge(c.got, k), v) ELSE view
    BY <1>3, <1>4, Zenon DEF ReceiveLoad
  <1>8. /\ c.kind = "load" /\ c.at # None
        /\ announced' = [announced EXCEPT ![c.s] = @ \ ToSet(c.got)]
        /\ Age(c) /\ calls' = calls \ {c}
        /\ UNCHANGED <<server, events, selected, target, failed, used>>
    BY Zenon DEF ReceiveLoad
  <1>9. QED
    BY <1>1, <1>3, <1>4, <1>5, <1>6, <1>7, <1>8, Zenon

LEMMA AgeType ==
  ASSUME NumbersOK, PageOK, NEW c \in CallSet, Age(c)
  PROVE  fresh' \in [Sessions -> Nat] /\ overtaken' \subseteq Sessions
  BY DEF Age, NumbersOK, PageOK, CallSet

LEMMA ReceiveLoadType ==
  ASSUME ViewTypeOK, NEW c \in calls, ReceiveLoad(c)
  PROVE  ViewTypeOK'
  <1>0. ListsOK /\ NumbersOK /\ LoopsOK /\ PageOK /\ UsedOK /\ WayOK
    BY TypeParts
  <1>1. /\ c \in CallSet /\ c.s \in Sessions
        /\ \E p, w \in Seq(Nat) : /\ cache' = [cache EXCEPT ![c.s] = p]
                                  /\ view' = IF selected = c.s THEN w ELSE view
        /\ announced' = [announced EXCEPT ![c.s] = @ \ ToSet(c.got)]
        /\ Age(c) /\ calls' = calls \ {c}
        /\ UNCHANGED <<server, events, selected, target, failed, used>>
    BY ReceiveLoadCases, Zenon
  <1>2. fresh' \in [Sessions -> Nat] /\ overtaken' \subseteq Sessions
    BY <1>0, <1>1, AgeType
  <1>3. CallsOK(calls \ {c})
    BY <1>0, CallsLess DEF WayOK
  <1>4. cache' \in [Sessions -> Seq(Nat)] /\ view' \in Seq(Nat) /\ announced' \in [Sessions -> SUBSET Nat]
    BY <1>0, <1>1 DEF ListsOK, PageOK
  <1>5. ListsOK' /\ NumbersOK' /\ LoopsOK' /\ PageOK' /\ UsedOK' /\ WayOK'
    BY <1>0, <1>1, <1>2, <1>3, <1>4 DEF server, ListsOK, NumbersOK, LoopsOK, PageOK, UsedOK, WayOK, CallsOK
  <1>6. QED
    BY <1>5, TypePartsNext

LEMMA ReceiveListType ==
  ASSUME ViewTypeOK, NEW c \in calls, ReceiveList(c)
  PROVE  ViewTypeOK'
  <1>0. ListsOK /\ NumbersOK /\ LoopsOK /\ PageOK /\ UsedOK /\ WayOK
    BY TypeParts
  <1>1. c \in CallSet /\ c.s \in Sessions /\ c.got \in Seq(Nat)
    BY <1>0 DEF WayOK, CallsOK, CallSet
  <1>2. fresh' \in [Sessions -> Nat] /\ overtaken' \subseteq Sessions
    BY <1>0, <1>1, AgeType DEF ReceiveList
  <1>3. CallsOK(calls \ {c})
    BY <1>0, CallsLess DEF WayOK
  <1>4. ListsOK' /\ NumbersOK' /\ LoopsOK' /\ PageOK' /\ UsedOK' /\ WayOK'
    BY <1>0, <1>1, <1>2, <1>3
    DEF ReceiveList, server, ListsOK, NumbersOK, LoopsOK, PageOK, UsedOK, WayOK, CallsOK
  <1>5. QED
    BY <1>4, TypePartsNext

LEMMA ReceiveRevertType ==
  ASSUME ViewTypeOK, NEW c \in calls, ReceiveRevert(c)
  PROVE  ViewTypeOK'
  <1>0. ListsOK /\ NumbersOK /\ LoopsOK /\ PageOK /\ UsedOK /\ WayOK
    BY TypeParts
  <1>1. c \in CallSet /\ c.s \in Sessions /\ c.m \in Nat
    BY <1>0 DEF WayOK, CallsOK, CallSet
  <1>2. CallsOK(Call(calls \ {c}, "load", c.s, None))
    <2>1. CallsOK(calls \ {c}) /\ "load" \in Kinds /\ None \in Nat
      BY <1>0, CallsLess DEF WayOK, Kinds, None
    <2>2. QED
      BY <1>1, <2>1, CallType DEF Adds
  <1>3. target' \in [Sessions -> Nat]
    <2>1. PICK n \in Nat : n = IF c.kind = "revert" THEN c.m ELSE None
      BY <1>1 DEF None
    <2>2. target' = IF selected # c.s THEN target ELSE [target EXCEPT ![c.s] = n]
      BY <2>1 DEF ReceiveRevert
    <2>3. QED
      BY <1>0, <1>1, <2>2 DEF NumbersOK
  <1>4. ListsOK' /\ NumbersOK' /\ LoopsOK' /\ PageOK' /\ UsedOK' /\ WayOK'
    <2>1. calls' = Call(calls \ {c}, "load", c.s, None) /\ failed' = failed \ {c.s}
      BY DEF ReceiveRevert, Load
    <2>2. CallsOK(calls)'
      BY <1>2, <2>1
    <2>3. QED
      BY <1>0, <1>3, <2>1, <2>2
      DEF ReceiveRevert, server, ListsOK, NumbersOK, LoopsOK, PageOK, UsedOK, WayOK
  <1>5. QED
    BY <1>4, TypePartsNext

LEMMA FailType ==
  ASSUME ViewTypeOK, NEW c \in calls, Fail(c)
  PROVE  ViewTypeOK'
  <1>0. ListsOK /\ NumbersOK /\ LoopsOK /\ PageOK /\ UsedOK /\ WayOK
    BY TypeParts
  <1>1. c.s \in Sessions
    BY <1>0 DEF WayOK, CallsOK, CallSet
  <1>2. UsedOK'
    BY <1>0, CountType DEF Fail
  <1>3. CallsOK(calls \ {c})
    BY <1>0, CallsLess DEF WayOK
  <1>4. ListsOK' /\ NumbersOK' /\ LoopsOK' /\ PageOK' /\ WayOK'
    BY <1>0, <1>1, <1>3 DEF Fail, server, page, ListsOK, NumbersOK, LoopsOK, PageOK, WayOK, CallsOK
  <1>5. QED
    BY <1>2, <1>4, TypePartsNext

\* Loads of the page leave the requests under way.
LEMMA LoadType ==
  ASSUME CallsOK(calls), NEW s \in Sessions, Load(s, calls)
  PROVE  CallsOK(calls)' /\ failed' = failed \ {s} /\
         \E d \in CallSet : calls' = calls \union {d} /\ d.kind = "load" /\ d.s = s /\ d.at = None
  <1>0. "load" \in Kinds /\ None \in Nat
    BY DEF Kinds, None
  <1>1. Adds(calls, Call(calls, "load", s, None), "load", s)
    BY <1>0, CallType
  <1>2. PICK cs : cs = calls'
    OBVIOUS
  <1>3. cs = Call(calls, "load", s, None)
    BY <1>2 DEF Load
  <1>4. Adds(calls, cs, "load", s)
    BY <1>1, <1>3
  <1>5. QED
    BY <1>2, <1>4 DEF Adds, CallsOK, Load

\* An event that the page takes: it may ask for the messages, and nothing of the
\* runtime and of the answers changes.
LEMMA DeliverCases ==
  ASSUME ViewTypeOK, Deliver
  PROVE  \E e \in EventSet :
           /\ e \in ToSet(events) /\ ToSet(events) = {e} \union ToSet(events')
           /\ events' \in Seq(EventSet)
           /\ \/ e.kind = "created" /\ OnCreated(e.s, e.m)
              \/ /\ UNCHANGED <<announced, cache, view>> /\ target' \in [Sessions -> Nat]
                 /\ failed' \subseteq failed /\ failed \ {e.s} \subseteq failed'
                 /\ \/ UNCHANGED <<calls, failed>> /\ (e.kind # "end" \/ selected # e.s)
                    \/ /\ CallsOK(calls)'
                       /\ \E d \in CallSet : /\ calls' = calls \union {d} /\ d.s = e.s /\ d.at = None
                                             /\ selected = e.s => d.kind = "load"
           /\ UNCHANGED <<server, selected, fresh, overtaken, used>>
  <1>0. NumbersOK /\ PageOK /\ WayOK
    BY TypeParts
  <1>1. events # <<>> /\ events' = Tail(events) /\ UNCHANGED <<server, selected, fresh, overtaken, used>>
    BY DEF Deliver
  <1>2. PICK e \in EventSet : e = Head(events) /\ ToSet(events) = {e} \union ToSet(Tail(events))
                              /\ Tail(events) \in Seq(EventSet)
    BY <1>0, <1>1, HeadAndTail DEF WayOK
  <1>3. \/ e.kind = "created" /\ OnCreated(e.s, e.m)
        \/ e.kind = "undone" /\ OnUndone(e.s, e.m)
        \/ e.kind = "truncated" /\ OnTruncated(e.s)
        \/ e.kind = "end" /\ OnEnd(e.s)
    BY <1>2, Zenon DEF Deliver
  <1>4. e.s \in Sessions /\ e.m \in Nat /\ None \in Nat /\ "list" \in Kinds
    BY DEF EventSet, None, Kinds
  <1> DEFINE Asked == \/ UNCHANGED <<calls, failed>> /\ (e.kind # "end" \/ selected # e.s)
                      \/ /\ failed' \subseteq failed /\ failed \ {e.s} \subseteq failed'
                         /\ CallsOK(calls)'
                         /\ \E d \in CallSet : /\ calls' = calls \union {d} /\ d.s = e.s /\ d.at = None
                                               /\ selected = e.s => d.kind = "load"
  <1>5. Load(e.s, calls) => Asked
    BY <1>0, <1>4, LoadType DEF WayOK
  <1>6. e.kind # "end" /\ LoadIfShown(e.s) => Asked
    BY <1>5 DEF LoadIfShown
  <1>7. OnEnd(e.s) => Asked
    <2>1. CASE selected = e.s /\ LoadIfShown(e.s)
      BY <2>1, <1>5 DEF LoadIfShown
    <2>2. CASE selected # e.s /\ calls' = Call(calls, "list", e.s, None) /\ UNCHANGED failed
      <3>1. Adds(calls, Call(calls, "list", e.s, None), "list", e.s)
        BY <1>0, <1>4, CallType DEF WayOK
      <3>2. PICK cs : cs = calls'
        OBVIOUS
      <3>3. Adds(calls, cs, "list", e.s)
        BY <2>2, <3>1, <3>2
      <3>4. QED
        BY <2>2, <3>2, <3>3 DEF Adds, CallsOK
    <2>3. QED
      BY <2>1, <2>2 DEF OnEnd
  <1> HIDE DEF Asked
  <1>8. CASE e.kind = "created" /\ OnCreated(e.s, e.m)
    BY <1>1, <1>2, <1>8
  <1>9. CASE \/ e.kind = "undone" /\ OnUndone(e.s, e.m)
             \/ e.kind = "truncated" /\ OnTruncated(e.s)
             \/ e.kind = "end" /\ OnEnd(e.s)
    <2>1. UNCHANGED <<announced, cache, view>>
      BY <1>9 DEF OnUndone, OnTruncated, OnEnd
    <2>2. target' \in [Sessions -> Nat]
      BY <1>0, <1>4, <1>9 DEF OnUndone, OnTruncated, OnEnd, NumbersOK
    <2>3. Asked
      BY <1>6, <1>7, <1>9 DEF OnUndone, OnTruncated
    <2>4. failed' \subseteq failed /\ failed \ {e.s} \subseteq failed'
      BY <2>3 DEF Asked
    <2>5. QED
      BY <1>1, <1>2, <2>1, <2>2, <2>3, <2>4 DEF Asked
  <1>10. QED
    BY <1>3, <1>8, <1>9

LEMMA PutType ==
  ASSUME NEW q \in Seq(Nat), NEW m \in Nat
  PROVE  Put(q, m) \in Seq(Nat) /\ ToSet(Put(q, m)) = ToSet(q) \union {m}
  BY ToSetAppend DEF Put

LEMMA DeliverType ==
  ASSUME ViewTypeOK, Deliver
  PROVE  ViewTypeOK'
  <1>0. ListsOK /\ NumbersOK /\ LoopsOK /\ PageOK /\ UsedOK /\ WayOK
    BY TypeParts
  <1>1. PICK e \in EventSet :
           /\ events' \in Seq(EventSet)
           /\ \/ OnCreated(e.s, e.m)
              \/ /\ UNCHANGED <<announced, cache, view>> /\ target' \in [Sessions -> Nat]
                 /\ failed' \subseteq failed /\ (calls' = calls \/ CallsOK(calls)')
           /\ UNCHANGED <<server, selected, fresh, overtaken, used>>
    BY DeliverCases, Zenon
  <1>2. e.s \in Sessions /\ e.m \in Nat
    BY DEF EventSet
  <1>3. UsedOK' /\ LoopsOK'
    BY <1>0, <1>1 DEF UsedOK, LoopsOK, server
  <1>4. CASE OnCreated(e.s, e.m)
    <2>1. cache' \in [Sessions -> Seq(Nat)]
      <3>1. PICK q \in Seq(Nat) : q = cache[e.s]
        BY <1>0, <1>2 DEF ListsOK
      <3>2. Put(q, e.m) \in Seq(Nat)
        BY <1>2, PutType
      <3>3. cache' = [cache EXCEPT ![e.s] = Put(q, e.m)]
        BY <1>4, <3>1 DEF OnCreated
      <3>4. QED
        BY <1>0, <3>2, <3>3 DEF ListsOK
    <2>2. view' \in Seq(Nat)
      BY <1>0, <1>2, <1>4, PutType DEF OnCreated, PageOK
    <2>3. announced' \in [Sessions -> SUBSET Nat]
      BY <1>0, <1>2, <1>4 DEF OnCreated, PageOK
    <2>4. ListsOK' /\ NumbersOK' /\ PageOK' /\ WayOK'
      BY <1>0, <1>1, <1>4, <2>1, <2>2, <2>3
      DEF OnCreated, server, ListsOK, NumbersOK, PageOK, WayOK, CallsOK
    <2>5. QED
      BY <1>3, <2>4, TypePartsNext
  <1>5. CASE /\ UNCHANGED <<announced, cache, view>> /\ target' \in [Sessions -> Nat]
             /\ failed' \subseteq failed /\ (calls' = calls \/ CallsOK(calls)')
    <2>1. ListsOK' /\ NumbersOK' /\ PageOK' /\ WayOK'
      BY <1>0, <1>1, <1>5 DEF server, ListsOK, NumbersOK, PageOK, WayOK, CallsOK
    <2>2. QED
      BY <1>3, <2>1, TypePartsNext
  <1>6. QED
    BY <1>1, <1>4, <1>5

LEMMA SelectType ==
  ASSUME ViewTypeOK, NEW s \in Sessions, Select(s)
  PROVE  ViewTypeOK'
  <1>0. ListsOK /\ NumbersOK /\ LoopsOK /\ PageOK /\ UsedOK /\ WayOK
    BY TypeParts
  <1>1. CallsOK(calls)' /\ failed' = failed \ {s}
    BY <1>0, LoadType DEF Select, WayOK
  <1>2. UsedOK'
    BY <1>0, CountType DEF Select
  <1>3. ListsOK' /\ NumbersOK' /\ LoopsOK' /\ PageOK' /\ WayOK'
    BY <1>0, <1>1 DEF Select, server, ListsOK, NumbersOK, LoopsOK, PageOK, WayOK
  <1>4. QED
    BY <1>2, <1>3, TypePartsNext

LEMMA WelcomeType ==
  ASSUME ViewTypeOK, Welcome
  PROVE  ViewTypeOK'
  <1>0. ListsOK /\ NumbersOK /\ LoopsOK /\ PageOK /\ UsedOK /\ WayOK
    BY TypeParts
  <1>1. UsedOK'
    BY <1>0, CountType DEF Welcome
  <1>2. ListsOK' /\ NumbersOK' /\ LoopsOK' /\ PageOK' /\ WayOK'
    BY <1>0, SMTT(30) DEF Welcome, server, ListsOK, NumbersOK, LoopsOK, PageOK, WayOK, CallsOK
  <1>3. QED
    BY <1>1, <1>2, TypePartsNext

\* The user asks for an undo or a redo.
LEMMA AskRevertCases ==
  ASSUME ViewTypeOK, AskRevert
  PROVE  /\ \E d \in CallSet : /\ calls' = calls \union {d} /\ d.kind \in {"revert", "redo"} /\ d.at = None
                               /\ CallsOK(calls)'
         /\ Count("reverts") /\ UNCHANGED <<server, page, events, fresh, overtaken, failed>>
  <1>0. LoopsOK /\ WayOK
    BY TypeParts
  <1>1. selected \in Sessions /\ Count("reverts") /\ UNCHANGED <<server, page, events, fresh, overtaken, failed>>
    BY DEF AskRevert
  <1>2. \E kind \in {"revert", "redo"}, m \in Nat : calls' = Call(calls, kind, selected, m)
    <2>1. CASE calls' = Call(calls, "redo", selected, None)
      BY <2>1 DEF None
    <2>2. CASE \E m \in ToSet(Visible(view, target[selected])) \intersect prompts :
                 calls' = Call(calls, "revert", selected, m)
      BY <1>0, <2>2 DEF LoopsOK
    <2>3. QED
      BY <2>1, <2>2 DEF AskRevert
  <1>3. PICK kind \in {"revert", "redo"}, m \in Nat : calls' = Call(calls, kind, selected, m)
    BY <1>2
  <1>4. kind \in Kinds
    BY DEF Kinds
  <1>5. Adds(calls, Call(calls, kind, selected, m), kind, selected)
    BY <1>0, <1>1, <1>4, CallType DEF WayOK
  <1>6. PICK cs : cs = calls'
    OBVIOUS
  <1>7. Adds(calls, cs, kind, selected)
    BY <1>3, <1>5, <1>6
  <1>8. QED
    BY <1>1, <1>6, <1>7 DEF Adds, CallsOK

LEMMA AskRevertType ==
  ASSUME ViewTypeOK, AskRevert
  PROVE  ViewTypeOK'
  <1>0. ListsOK /\ NumbersOK /\ LoopsOK /\ PageOK /\ UsedOK /\ WayOK
    BY TypeParts
  <1>1. CallsOK(calls)' /\ Count("reverts") /\ UNCHANGED <<server, page, events, fresh, overtaken, failed>>
    BY AskRevertCases
  <1>2. UsedOK'
    BY <1>0, <1>1, CountType
  <1>3. ListsOK' /\ NumbersOK' /\ LoopsOK' /\ PageOK' /\ WayOK'
    BY <1>0, <1>1 DEF server, page, ListsOK, NumbersOK, LoopsOK, PageOK, WayOK
  <1>4. QED
    BY <1>2, <1>3, TypePartsNext

\* The steps, one by one.
LEMMA ViewSteps ==
  ASSUME ViewNext
  PROVE  \/ \E s \in Sessions : Submit(s) \/ Materialize(s) \/ Reply(s) \/ EndTurn(s) \/ Cancel(s) \/ Select(s)
         \/ \E c \in calls : \/ Serve(c) \/ ServeRevert(c) \/ RefuseRevert(c)
                             \/ ReceiveLoad(c) \/ ReceiveList(c) \/ ReceiveRevert(c) \/ Fail(c)
         \/ Deliver \/ Welcome \/ AskRevert
  BY Zenon DEF ViewNext, Runtime, Responses

LEMMA ViewTypeStep == ViewTypeOK /\ [ViewNext]_viewVars => ViewTypeOK'
  <1> SUFFICES ASSUME ViewTypeOK, [ViewNext]_viewVars PROVE ViewTypeOK'
    OBVIOUS
  <1>1. CASE ViewNext
    BY <1>1, ViewSteps, SubmitType, MaterializeType, ReplyType, EndTurnType, CancelType, SelectType,
       ServeType, ServeRevertType, RefuseRevertType, ReceiveLoadType, ReceiveListType,
       ReceiveRevertType, FailType, DeliverType, WelcomeType, AskRevertType, Zenon
  <1>2. CASE UNCHANGED viewVars
    BY <1>2 DEF viewVars, server, page, ViewTypeOK
  <1>3. QED
    BY <1>1, <1>2

\* For any sessions and bounds, the conversations, the page and what is under way
\* between them keep their types: every request has a number of its own to come
\* back to (useChatRuntime.ts and the runtime's sessions behind it).
THEOREM ViewTypeCorrect == ViewSpec => []ViewTypeOK
  <1>1. QED
    BY ViewTypeInit, ViewTypeStep, PTL DEF ViewSpec

-----------------------------------------------------------------------------
(* The invariant of the page.                                              *)

\* The numbers given to messages, and the requests for messages that are answered.
Made == 1 .. used.made
Served == {c \in calls : c.kind \in {"load", "list"} /\ c.at # None}

\* Nothing is stored, queued, told or shown that was not made.
Numbered ==
  /\ \A s \in Sessions : ToSet(stored[s]) \union ToSet(queued[s]) \union ToSet(cache[s]) \subseteq Made
  /\ ToSet(view) \subseteq Made
  /\ \A e \in ToSet(events) : e.kind = "created" => e.m \in Made
  /\ \A c \in Served : ToSet(c.got) \subseteq Made

\* A prompt that waits is not stored, and in no answer.
Separate ==
  /\ \A s \in Sessions : ToSet(queued[s]) \intersect ToSet(stored[s]) = {}
  /\ \A c \in Served : ToSet(c.got) \intersect ToSet(queued[c.s]) = {}

\* Of two answers, the newer one has whatever the older one has that is still stored;
\* one of the present version has what is stored.
Answers ==
  /\ \A s \in Sessions : fresh[s] <= version[s] + 1
  /\ \A c \in Served : c.at <= version[c.s] + 1 /\ (c.at = version[c.s] + 1 => c.got = stored[c.s])
  /\ \A c, d \in Served : c.s = d.s /\ c.at <= d.at =>
       ToSet(c.got) \intersect ToSet(stored[c.s]) \subseteq ToSet(d.got)

\* What is shown of a session is what is stored, ...
Current(s) ==
  /\ fresh[s] = version[s] + 1
  /\ Keep(view, ToSet(stored[s])) = stored[s]
  /\ ToSet(view) \subseteq ToSet(stored[s]) \union announced[s]

\* ... or it will be loaded.
IsDue(c, s) == c.kind = "load" /\ c.s = s /\ c.at \in {None, version[s] + 1}
Due(s) ==
  \/ loop[s] # "idle"
  \/ \E e \in ToSet(events) : e.kind = "end" /\ e.s = s
  \/ \E c \in calls : IsDue(c, s)

Shows(s) == selected = s /\ s \notin overtaken \union failed => Current(s) \/ Due(s)
ViewDue == \A s \in Sessions : Shows(s)

\* What the page holds of a session without having been told was found stored, and
\* no answer to come forgets it.
Found(s, m) ==
  /\ m \in ToSet(stored[s])
  /\ \A c \in Served : c.s = s /\ c.at >= fresh[s] => m \in ToSet(c.got)
Holds(s) == ToSet(cache[s]) \union IF selected = s THEN ToSet(view) ELSE {}
Remains(s) ==
  \A m \in Holds(s) \ announced[s] : m \in ToSet(stored[s]) \union ToSet(queued[s]) => Found(s, m)
FoundStays == \A s \in Sessions \ overtaken : Remains(s)

ViewInv == ViewTypeOK /\ Numbered /\ Separate /\ Answers /\ ViewDue /\ FoundStays

LEMMA ViewInvInit == ViewInit => ViewInv
  <1> SUFFICES ASSUME ViewInit PROVE ViewInv
    OBVIOUS
  <1>1. ToSet(<<>>) = {}
    BY DEF ToSet
  <1>2. selected \notin Sessions
    BY NoSessionIsNone DEF ViewInit
  <1>3. Numbered /\ Separate /\ Answers
    BY <1>1 DEF ViewInit, Numbered, Separate, Answers, Served
  <1>4. ViewDue
    BY <1>2 DEF ViewDue, Shows
  <1>5. FoundStays
    BY <1>1, <1>2 DEF ViewInit, FoundStays, Remains, Holds
  <1>6. QED
    BY <1>3, <1>4, <1>5, ViewTypeInit DEF ViewInv

\* A step of the runtime adds messages N that were not made before, beside those
\* that waited, and answers nothing.
Gains(N) ==
  /\ N \intersect Made = {} /\ N \subseteq Made' /\ Made \subseteq Made'
  /\ \A t \in Sessions :
       /\ ToSet(stored'[t]) \subseteq ToSet(stored[t]) \union ToSet(queued[t]) \union N
       /\ ToSet(queued'[t]) \subseteq ToSet(queued[t]) \union N
       /\ ToSet(stored'[t]) \intersect ToSet(queued'[t]) = {}
       /\ \/ version'[t] = version[t] + 1
          \/ version'[t] = version[t] /\ stored'[t] = stored[t]
  /\ \A e \in ToSet(events') : e.kind = "created" => e \in ToSet(events) \/ e.m \in Made'
  /\ Served' \subseteq Served
  /\ UNCHANGED <<selected, view, cache, announced, fresh, overtaken, failed>>

\* What the type invariant says of an answer.
LEMMA ServedIs ==
  ASSUME ViewTypeOK, NEW c \in Served
  PROVE  c \in calls /\ c.s \in Sessions /\ c.at \in Nat /\ c.at # None /\ c.got \in Seq(Nat)
         /\ version[c.s] \in Nat /\ fresh[c.s] \in Nat
  BY TypeParts DEF Served, WayOK, CallsOK, CallSet, NumbersOK

LEMMA RuntimeKeeps ==
  ASSUME ViewTypeOK, ViewTypeOK', Numbered, Separate, Answers, FoundStays, NEW N, Gains(N)
  PROVE  Numbered' /\ Separate' /\ Answers' /\ FoundStays'
  <1>0. /\ Served' \subseteq Served /\ N \intersect Made = {} /\ N \subseteq Made' /\ Made \subseteq Made'
        /\ UNCHANGED <<selected, view, cache, announced, fresh, overtaken, failed>>
    BY DEF Gains
  <1>1. ASSUME NEW t \in Sessions
        PROVE  /\ ToSet(stored'[t]) \subseteq ToSet(stored[t]) \union ToSet(queued[t]) \union N
               /\ ToSet(queued'[t]) \subseteq ToSet(queued[t]) \union N
               /\ ToSet(stored'[t]) \intersect ToSet(queued'[t]) = {}
               /\ ToSet(stored[t]) \subseteq Made /\ ToSet(queued[t]) \subseteq Made
               /\ ToSet(cache[t]) \subseteq Made
    BY DEF Gains, Numbered
  <1>2. ASSUME NEW c \in Served'
        PROVE  /\ c \in Served /\ c.s \in Sessions /\ ToSet(c.got) \subseteq Made
               /\ ToSet(c.got) \intersect ToSet(queued[c.s]) = {}
    BY <1>0, ServedIs DEF Numbered, Separate
  <1>3. Numbered'
    <2>1. ASSUME NEW e \in ToSet(events'), e.kind = "created" PROVE e.m \in Made'
      BY <1>0, <2>1 DEF Gains, Numbered
    <2>2. ToSet(view') \subseteq Made'
      BY <1>0 DEF Numbered
    <2>3. ASSUME NEW t \in Sessions
          PROVE  ToSet(stored'[t]) \union ToSet(queued'[t]) \union ToSet(cache'[t]) \subseteq Made'
      BY <1>0, <1>1
    <2>4. ASSUME NEW c \in Served' PROVE ToSet(c.got) \subseteq Made'
      BY <1>0, <1>2
    <2>5. QED
      BY <2>1, <2>2, <2>3, <2>4 DEF Numbered
  <1>4. Separate'
    <2>1. ASSUME NEW c \in Served' PROVE ToSet(c.got) \intersect ToSet(queued'[c.s]) = {}
      BY <1>0, <1>1, <1>2
    <2>2. ASSUME NEW t \in Sessions PROVE ToSet(queued'[t]) \intersect ToSet(stored'[t]) = {}
      BY <1>1
    <2>3. QED
      BY <2>1, <2>2 DEF Separate
  <1>5. Answers'
    <2>1. ASSUME NEW t \in Sessions PROVE fresh'[t] <= version'[t] + 1
      <3>1. fresh[t] <= version[t] + 1 /\ fresh[t] \in Nat /\ version[t] \in Nat
        BY TypeParts DEF Answers, NumbersOK
      <3>2. version'[t] = version[t] + 1 \/ version'[t] = version[t]
        BY DEF Gains
      <3>3. QED
        BY <1>0, <3>1, <3>2
    <2>2. ASSUME NEW c \in Served'
          PROVE  c.at <= version'[c.s] + 1 /\ (c.at = version'[c.s] + 1 => c.got = stored'[c.s])
      <3>1. c \in Served /\ c.s \in Sessions /\ c.at \in Nat /\ version[c.s] \in Nat
        BY <1>2, ServedIs
      <3>2. c.at <= version[c.s] + 1 /\ (c.at = version[c.s] + 1 => c.got = stored[c.s])
        BY <3>1 DEF Answers
      <3>3. version'[c.s] = version[c.s] + 1 \/ (version'[c.s] = version[c.s] /\ stored'[c.s] = stored[c.s])
        BY <3>1 DEF Gains
      <3>4. QED
        BY <3>1, <3>2, <3>3
    <2>3. ASSUME NEW c \in Served', NEW d \in Served', c.s = d.s, c.at <= d.at
          PROVE  ToSet(c.got) \intersect ToSet(stored'[c.s]) \subseteq ToSet(d.got)
      <3>1. c \in Served /\ d \in Served /\ c.s \in Sessions /\ ToSet(c.got) \subseteq Made
            /\ ToSet(c.got) \intersect ToSet(queued[c.s]) = {}
        BY <1>2
      <3>2. ToSet(c.got) \intersect ToSet(stored[c.s]) \subseteq ToSet(d.got)
        BY <2>3, <3>1 DEF Answers
      <3>3. ToSet(stored'[c.s]) \subseteq ToSet(stored[c.s]) \union ToSet(queued[c.s]) \union N
        BY <1>1, <3>1
      <3>4. QED
        BY <1>0, <3>1, <3>2, <3>3
    <2>4. QED
      BY <2>1, <2>2, <2>3 DEF Answers
  <1>6. FoundStays'
    <2>1. ASSUME NEW t \in Sessions, t \notin overtaken PROVE Remains(t)'
      <3>1. SUFFICES ASSUME NEW m \in Holds(t)', m \notin announced'[t],
                            m \in ToSet(stored'[t]) \union ToSet(queued'[t])
                     PROVE  Found(t, m)'
        BY DEF Remains
      <3>2. m \in Holds(t) \ announced[t]
        BY <1>0, <3>1 DEF Holds
      <3>3. m \in Made
        BY <1>1, <3>2 DEF Holds, Numbered
      <3>4. m \in ToSet(stored[t]) \union ToSet(queued[t])
        BY <1>0, <1>1, <3>1, <3>3
      <3>5. Found(t, m)
        BY <2>1, <3>2, <3>4 DEF FoundStays, Remains
      <3>6. m \in ToSet(stored[t]) /\ m \notin ToSet(queued[t])
        BY <3>5 DEF Found, Separate
      <3>7. m \in ToSet(stored'[t])
        BY <1>0, <1>1, <3>1, <3>3, <3>6
      <3>8. QED
        BY <1>0, <3>5, <3>7 DEF Found
    <2>2. QED
      BY <1>0, <2>1 DEF FoundStays
  <1>7. QED
    BY <1>3, <1>4, <1>5, <1>6

\* A step of the page stores nothing, and what it holds more is told or found.
Keeps ==
  /\ UNCHANGED <<stored, queued, version>> /\ Made \subseteq Made'
  /\ \A t \in Sessions : /\ ToSet(cache'[t]) \subseteq Made
                         /\ fresh[t] <= fresh'[t] /\ fresh'[t] <= version[t] + 1
  /\ ToSet(view') \subseteq Made
  /\ ToSet(events') \subseteq ToSet(events)
  /\ Served' \subseteq Served /\ overtaken \subseteq overtaken'
  /\ \A t \in Sessions \ overtaken' : \A m \in Holds(t)' \ announced'[t] :
       \/ m \in Holds(t) \ announced[t]
       \/ m \in ToSet(stored[t]) \union ToSet(queued[t]) => Found(t, m)'

LEMMA PageKeeps ==
  ASSUME ViewTypeOK, ViewTypeOK', Numbered, Separate, Answers, FoundStays, Keeps
  PROVE  Numbered' /\ Separate' /\ Answers' /\ FoundStays'
  <1>0. /\ UNCHANGED <<stored, queued, version>> /\ Made \subseteq Made'
        /\ Served' \subseteq Served /\ overtaken \subseteq overtaken'
        /\ ToSet(events') \subseteq ToSet(events) /\ ToSet(view') \subseteq Made
        /\ \A t \in Sessions : ToSet(cache'[t]) \subseteq Made
    BY DEF Keeps
  <1>1. Numbered'
    <2>1. ASSUME NEW e \in ToSet(events'), e.kind = "created" PROVE e.m \in Made'
      BY <1>0, <2>1 DEF Numbered
    <2>2. ToSet(view') \subseteq Made'
      BY <1>0
    <2>3. ASSUME NEW t \in Sessions
          PROVE  ToSet(stored'[t]) \union ToSet(queued'[t]) \union ToSet(cache'[t]) \subseteq Made'
      BY <1>0 DEF Numbered
    <2>4. ASSUME NEW c \in Served' PROVE ToSet(c.got) \subseteq Made'
      BY <1>0 DEF Numbered
    <2>5. QED
      BY <2>1, <2>2, <2>3, <2>4 DEF Numbered
  <1>2. Separate'
    BY <1>0 DEF Separate
  <1>3. Answers'
    <2>1. \A t \in Sessions : fresh'[t] <= version'[t] + 1
      BY <1>0 DEF Keeps
    <2>2. QED
      BY <1>0, <2>1 DEF Answers
  <1>4. FoundStays'
    <2>1. ASSUME NEW t \in Sessions, t \notin overtaken' PROVE Remains(t)'
      <3>1. SUFFICES ASSUME NEW m \in Holds(t)', m \notin announced'[t],
                            m \in ToSet(stored'[t]) \union ToSet(queued'[t])
                     PROVE  Found(t, m)'
        BY DEF Remains
      <3>2. CASE m \in Holds(t) \ announced[t]
        <4>1. Found(t, m)
          BY <1>0, <2>1, <3>1, <3>2 DEF FoundStays, Remains
        <4>2. m \in ToSet(stored'[t])
          BY <1>0, <4>1 DEF Found
        <4>3. ASSUME NEW c \in Served', c.s = t, c.at >= fresh'[t] PROVE m \in ToSet(c.got)
          <5>1. c \in Served /\ c.at \in Nat /\ fresh[t] \in Nat /\ fresh'[t] \in Nat
            BY <1>0, <4>3, ServedIs, TypeParts DEF ViewTypeOK
          <5>2. c.at >= fresh[t]
            BY <4>3, <5>1 DEF Keeps
          <5>3. QED
            BY <4>1, <4>3, <5>1, <5>2 DEF Found
        <4>4. QED
          BY <4>2, <4>3 DEF Found
      <3>3. CASE m \notin Holds(t) \ announced[t]
        BY <1>0, <2>1, <3>1, <3>3 DEF Keeps
      <3>4. QED
        BY <3>2, <3>3
    <2>2. QED
      BY <2>1 DEF FoundStays
  <1>5. QED
    BY <1>1, <1>2, <1>3, <1>4

\* What is shown of session t stays what it was, and what is due stays due.
Stays(t) ==
  /\ selected' = selected /\ overtaken \subseteq overtaken' /\ view' = view
  /\ t \in failed => t \in failed'
  /\ version'[t] = version[t] /\ stored'[t] = stored[t]
  /\ fresh'[t] = fresh[t] /\ announced[t] \subseteq announced'[t]
  /\ loop[t] # "idle" => loop'[t] # "idle"
  /\ \A e \in ToSet(events) : e.kind = "end" /\ e.s = t => e \in ToSet(events')
  /\ \A c \in calls : IsDue(c, t) => \E d \in calls' : IsDue(d, t)

LEMMA ShowsStays ==
  ASSUME NEW t, Shows(t), Stays(t)
  PROVE  Shows(t)'
  <1>1. Current(t) => Current(t)'
    BY DEF Stays, Current
  <1>2. Due(t) => Due(t)'
    BY DEF Stays, Due, IsDue
  <1>3. QED
    BY <1>1, <1>2 DEF Shows, Stays

\* The page and the answers when a step of the runtime leaves them alone.
LEMMA GainsPage ==
  ASSUME UNCHANGED <<page, calls, fresh, overtaken, failed>>
  PROVE  UNCHANGED <<selected, view, cache, announced, fresh, overtaken, failed, calls>> /\ Served' = Served
  BY DEF page, Served

LEMMA StaysServer ==
  ASSUME NEW t, UNCHANGED <<page, calls, fresh, overtaken, failed>>,
         version'[t] = version[t], stored'[t] = stored[t], loop[t] # "idle" => loop'[t] # "idle",
         ToSet(events) \subseteq ToSet(events')
  PROVE  Stays(t)
  BY DEF Stays, page


LEMMA CountMade ==
  ASSUME UsedOK, UsedOK', Count("made"), NEW m, m = used.made + 1
  PROVE  {m} \intersect Made = {} /\ {m} \subseteq Made' /\ Made \subseteq Made'
  <1>1. used.made \in Nat /\ used'.made = used.made + 1
    BY DEF UsedOK, Count
  <1>2. QED
    BY <1>1 DEF Made

LEMMA SubmitInv ==
  ASSUME ViewInv, ViewTypeOK', NEW s \in Sessions, Submit(s)
  PROVE  (\E N : Gains(N)) /\ ViewDue'
  <1>0. ListsOK /\ NumbersOK /\ LoopsOK /\ PageOK /\ UsedOK /\ WayOK /\ UsedOK'
    BY TypeParts DEF ViewInv, ViewTypeOK, UsedOK
  <1>1. PICK m \in Nat : m = used.made + 1
    BY <1>0 DEF UsedOK
  <1>2. /\ SubmitIdle(s, m) \/ SubmitQueued(s, m)
        /\ Count("made") /\ UNCHANGED <<page, calls, fresh, overtaken, failed>>
    BY <1>1, SubmitCases
  <1>3. {m} \intersect Made = {} /\ {m} \subseteq Made' /\ Made \subseteq Made'
    BY <1>0, <1>1, <1>2, CountMade
  <1>4. UNCHANGED <<selected, view, cache, announced, fresh, overtaken, failed, calls>> /\ Served' = Served
    BY <1>2, GainsPage
  <1>5. /\ events' \in Seq(EventSet) /\ ToSet(events) \subseteq ToSet(events')
        /\ \A e \in ToSet(events') : e.kind = "created" => e \in ToSet(events) \/ e.m = m
    <2>1. CASE SubmitIdle(s, m)
      <3>1. PICK n \in BOOLEAN : n = (cut[s] = None)
        OBVIOUS
      <3>2. EmitEvents((IF n THEN <<>> ELSE <<Event("truncated", s, None)>>) \o <<Event("created", s, m)>>)
        BY <2>1, <3>1 DEF SubmitIdle
      <3>3. QED
        BY <1>0, <3>2, SubmitEvents DEF WayOK
    <2>2. CASE SubmitQueued(s, m)
      <3>1. PICK e \in EventSet : e = Event("created", s, m) /\ e.m = m
        BY EventType
      <3>2. events' \in Seq(EventSet) /\ ToSet(events') = ToSet(events) \union {e}
        BY <1>0, <2>2, <3>1, EmitOne DEF SubmitQueued, WayOK
      <3>3. QED
        BY <3>1, <3>2
    <2>3. QED
      BY <1>2, <2>1, <2>2
  <1>6. \A e \in ToSet(events') : e.kind = "created" => e \in ToSet(events) \/ e.m \in Made'
    BY <1>3, <1>5
  <1>7. ASSUME NEW t \in Sessions
        PROVE  /\ ToSet(stored'[t]) \subseteq ToSet(stored[t]) \union ToSet(queued[t]) \union {m}
               /\ ToSet(queued'[t]) \subseteq ToSet(queued[t]) \union {m}
               /\ ToSet(stored'[t]) \intersect ToSet(queued'[t]) = {}
               /\ \/ version'[t] = version[t] + 1
                  \/ version'[t] = version[t] /\ stored'[t] = stored[t]
               /\ t # s => version'[t] = version[t] /\ stored'[t] = stored[t]
               /\ loop'[t] # "idle" \/ (t # s /\ loop'[t] = loop[t])
    <2>1. ToSet(queued[t]) \intersect ToSet(stored[t]) = {} /\ m \notin ToSet(queued[t]) /\ m \notin ToSet(stored[t])
      BY <1>3 DEF ViewInv, Separate, Numbered
    <2>2. CASE SubmitIdle(s, m)
      <3>1. PICK b \in Seq(Nat) : b = Before(stored[s], cut[s]) /\ ToSet(b) \subseteq ToSet(stored[s])
        <4>1. stored[s] \in Seq(Nat)
          BY <1>0 DEF ListsOK
        <4>2. QED
          BY <4>1, BeforeType
      <3>2. PICK q : q = Append(b, m)
        OBVIOUS
      <3>3. ToSet(q) \subseteq ToSet(stored[s]) \union {m}
        BY <3>1, <3>2, ToSetAppend
      <3>4. stored' = [stored EXCEPT ![s] = q] /\ version' = [version EXCEPT ![s] = @ + 1]
            /\ loop' = [loop EXCEPT ![s] = "busy"] /\ queued' = queued
        BY <2>2, <3>1, <3>2 DEF SubmitIdle, Store
      <3>5. CASE t = s
        BY <1>0, <2>1, <3>3, <3>4, <3>5 DEF ListsOK, NumbersOK, LoopsOK
      <3>6. CASE t # s
        BY <1>0, <2>1, <3>4, <3>6 DEF ListsOK, NumbersOK, LoopsOK
      <3>7. QED
        BY <3>5, <3>6
    <2>3. CASE SubmitQueued(s, m)
      <3>1. PICK b \in Seq(Nat) : b = queued[s]
        BY <1>0 DEF ListsOK
      <3>2. PICK q : q = Append(b, m)
        OBVIOUS
      <3>3. ToSet(q) = ToSet(queued[s]) \union {m}
        BY <3>1, <3>2, ToSetAppend
      <3>4. stored' = stored /\ version' = version /\ loop' = loop /\ loop[s] # "idle"
            /\ queued' = [queued EXCEPT ![s] = q]
        BY <2>3, <3>1, <3>2 DEF SubmitQueued
      <3>5. CASE t = s
        BY <1>0, <2>1, <3>3, <3>4, <3>5 DEF ListsOK
      <3>6. CASE t # s
        BY <1>0, <2>1, <3>4, <3>6 DEF ListsOK
      <3>7. QED
        BY <3>5, <3>6
    <2>4. QED
      BY <1>2, <2>2, <2>3
  <1>8. Gains({m})
    BY <1>3, <1>4, <1>6, <1>7 DEF Gains
  <1>9. ASSUME NEW t \in Sessions PROVE Shows(t)'
    <2>1. CASE loop'[t] # "idle"
      BY <2>1 DEF Shows, Due
    <2>2. CASE t # s /\ loop'[t] = loop[t]
      <3>1. Stays(t)
        BY <1>2, <1>5, <1>7, <2>2, StaysServer
      <3>2. QED
        BY <3>1, ShowsStays DEF ViewInv, ViewDue
    <2>3. QED
      BY <1>7, <2>1, <2>2
  <1>10. QED
    BY <1>8, <1>9 DEF ViewDue

LEMMA MaterializeInv ==
  ASSUME ViewInv, ViewTypeOK', NEW s \in Sessions, Materialize(s)
  PROVE  (\E N : Gains(N)) /\ ViewDue'
  <1>0. ListsOK /\ NumbersOK /\ LoopsOK
    BY TypeParts DEF ViewInv
  <1>1. UNCHANGED <<page, calls, fresh, overtaken, failed>> /\ UNCHANGED <<events, used>>
    BY DEF Materialize
  <1>2. UNCHANGED <<selected, view, cache, announced, fresh, overtaken, failed, calls>> /\ Served' = Served
    BY <1>1, GainsPage
  <1>3. PICK q : q = stored[s] \o queued[s]
    OBVIOUS
  <1>4. stored' = [stored EXCEPT ![s] = q] /\ version' = [version EXCEPT ![s] = @ + 1]
        /\ loop' = [loop EXCEPT ![s] = "busy"] /\ queued' = [queued EXCEPT ![s] = <<>>]
    BY <1>3 DEF Materialize, Store
  <1>5. ToSet(q) = ToSet(stored[s]) \union ToSet(queued[s]) /\ ToSet(<<>>) = {}
    <2>1. PICK a \in Seq(Nat), b \in Seq(Nat) : a = stored[s] /\ b = queued[s]
      BY <1>0 DEF ListsOK
    <2>2. ToSet(a \o b) = ToSet(a) \union ToSet(b)
      BY ToSetConcat
    <2>3. ToSet(<<>>) = {}
      BY DEF ToSet
    <2>4. QED
      BY <1>3, <2>1, <2>2, <2>3
  <1>6. ASSUME NEW t \in Sessions
        PROVE  /\ ToSet(stored'[t]) \subseteq ToSet(stored[t]) \union ToSet(queued[t]) \union {}
               /\ ToSet(queued'[t]) \subseteq ToSet(queued[t]) \union {}
               /\ ToSet(stored'[t]) \intersect ToSet(queued'[t]) = {}
               /\ \/ version'[t] = version[t] + 1
                  \/ version'[t] = version[t] /\ stored'[t] = stored[t]
               /\ t # s => version'[t] = version[t] /\ stored'[t] = stored[t] /\ loop'[t] = loop[t]
               /\ t = s => loop'[t] # "idle"
    <2>1. ToSet(queued[t]) \intersect ToSet(stored[t]) = {}
      BY DEF ViewInv, Separate
    <2>2. CASE t = s
      BY <1>0, <1>4, <1>5, <2>2 DEF ListsOK, NumbersOK, LoopsOK
    <2>3. CASE t # s
      BY <1>0, <1>4, <2>1, <2>3 DEF ListsOK, NumbersOK, LoopsOK
    <2>4. QED
      BY <2>2, <2>3
  <1>7. Gains({})
    <2>1. Made' = Made
      BY <1>1 DEF Made
    <2>2. QED
      BY <1>1, <1>2, <1>6, <2>1 DEF Gains
  <1>8. ASSUME NEW t \in Sessions PROVE Shows(t)'
    <2>1. CASE t = s
      BY <1>6, <2>1 DEF Shows, Due
    <2>2. CASE t # s
      <3>1. Stays(t)
        BY <1>1, <1>6, <2>2, StaysServer
      <3>2. QED
        BY <3>1, ShowsStays DEF ViewInv, ViewDue
    <2>3. QED
      BY <2>1, <2>2
  <1>9. QED
    BY <1>7, <1>8 DEF ViewDue

LEMMA ReplyInv ==
  ASSUME ViewInv, ViewTypeOK', NEW s \in Sessions, Reply(s)
  PROVE  (\E N : Gains(N)) /\ ViewDue'
  <1>0. ListsOK /\ NumbersOK /\ LoopsOK /\ UsedOK /\ UsedOK'
    BY TypeParts DEF ViewInv, ViewTypeOK, UsedOK
  <1>1. PICK m \in Nat : m = used.made + 1
    BY <1>0 DEF UsedOK
  <1>2. UNCHANGED <<page, calls, fresh, overtaken, failed>> /\ UNCHANGED <<events, queued, loop>> /\ loop[s] # "idle"
    BY DEF Reply
  <1>3. {m} \intersect Made = {} /\ {m} \subseteq Made' /\ Made \subseteq Made'
    BY <1>0, <1>1, CountMade DEF Reply
  <1>4. UNCHANGED <<selected, view, cache, announced, fresh, overtaken, failed, calls>> /\ Served' = Served
    BY <1>2, GainsPage
  <1>5. PICK b \in Seq(Nat) : b = stored[s]
    BY <1>0 DEF ListsOK
  <1>6. PICK q : q = Append(b, m)
    OBVIOUS
  <1>7. stored' = [stored EXCEPT ![s] = q] /\ version' = [version EXCEPT ![s] = @ + 1]
    BY <1>1, <1>5, <1>6 DEF Reply, Store
  <1>8. ToSet(q) = ToSet(stored[s]) \union {m}
    BY <1>5, <1>6, ToSetAppend
  <1>9. ASSUME NEW t \in Sessions
        PROVE  /\ ToSet(stored'[t]) \subseteq ToSet(stored[t]) \union ToSet(queued[t]) \union {m}
               /\ ToSet(queued'[t]) \subseteq ToSet(queued[t]) \union {m}
               /\ ToSet(stored'[t]) \intersect ToSet(queued'[t]) = {}
               /\ \/ version'[t] = version[t] + 1
                  \/ version'[t] = version[t] /\ stored'[t] = stored[t]
               /\ t # s => version'[t] = version[t] /\ stored'[t] = stored[t]
    <2>1. ToSet(queued[t]) \intersect ToSet(stored[t]) = {} /\ m \notin ToSet(queued[t])
      BY <1>3 DEF ViewInv, Separate, Numbered
    <2>2. CASE t = s
      BY <1>0, <1>2, <1>7, <1>8, <2>1, <2>2 DEF ListsOK, NumbersOK
    <2>3. CASE t # s
      BY <1>0, <1>2, <1>7, <2>1, <2>3 DEF ListsOK, NumbersOK
    <2>4. QED
      BY <2>2, <2>3
  <1>10. Gains({m})
    BY <1>2, <1>3, <1>4, <1>9 DEF Gains
  <1>11. ASSUME NEW t \in Sessions PROVE Shows(t)'
    <2>1. CASE t = s
      BY <1>2, <2>1 DEF Shows, Due
    <2>2. CASE t # s
      <3>1. Stays(t)
        BY <1>2, <1>9, <2>2, StaysServer
      <3>2. QED
        BY <3>1, ShowsStays DEF ViewInv, ViewDue
    <2>3. QED
      BY <2>1, <2>2
  <1>12. QED
    BY <1>10, <1>11 DEF ViewDue

\* Steps that store nothing: a turn that ends, a loop that is stopped.
LEMMA GainsNothing ==
  ASSUME ViewInv, UNCHANGED <<stored, version, used>>, Served' \subseteq Served,
         UNCHANGED <<selected, view, cache, announced, fresh, overtaken, failed>>,
         \A t \in Sessions : ToSet(queued'[t]) \subseteq ToSet(queued[t]),
         \A e \in ToSet(events') : e.kind = "created" => e \in ToSet(events)
  PROVE  Gains({})
  <1>1. Made' = Made
    BY DEF Made
  <1>2. ASSUME NEW t \in Sessions
        PROVE  /\ ToSet(stored'[t]) \subseteq ToSet(stored[t]) \union ToSet(queued[t]) \union {}
               /\ ToSet(queued'[t]) \subseteq ToSet(queued[t]) \union {}
               /\ ToSet(stored'[t]) \intersect ToSet(queued'[t]) = {}
               /\ version'[t] = version[t] /\ stored'[t] = stored[t]
    BY DEF ViewInv, Separate
  <1>3. QED
    BY <1>1, <1>2 DEF Gains

LEMMA StopKeeps ==
  ASSUME ListsOK, LoopsOK, NEW s \in Sessions, StopLoop(s), NEW t \in Sessions
  PROVE  /\ ToSet(queued'[t]) \subseteq ToSet(queued[t])
         /\ loop[t] # "idle" => loop'[t] # "idle"
  <1>1. ToSet(<<>>) = {}
    BY DEF ToSet
  <1>2. CASE t = s
    BY <1>1, <1>2 DEF StopLoop, ListsOK, LoopsOK
  <1>3. CASE t # s
    BY <1>3 DEF StopLoop, ListsOK, LoopsOK
  <1>4. QED
    BY <1>2, <1>3

LEMMA EndTurnInv ==
  ASSUME ViewInv, ViewTypeOK', NEW s \in Sessions, EndTurn(s)
  PROVE  (\E N : Gains(N)) /\ ViewDue'
  <1>0. LoopsOK /\ WayOK
    BY TypeParts DEF ViewInv
  <1>1. UNCHANGED <<page, calls, fresh, overtaken, failed>> /\ UNCHANGED <<stored, version, used, queued>>
    BY DEF EndTurn
  <1>2. UNCHANGED <<selected, view, cache, announced, fresh, overtaken, failed, calls>> /\ Served' = Served
    BY <1>1, GainsPage
  <1>3. PICK e \in EventSet : e = Event("end", s, None) /\ e.kind = "end" /\ e.s = s
    BY EventType DEF None
  <1>4. events' \in Seq(EventSet) /\ ToSet(events') = ToSet(events) \union {e}
    BY <1>0, <1>3, EmitOne DEF EndTurn, WayOK
  <1>5. Gains({})
    BY <1>1, <1>2, <1>3, <1>4, GainsNothing
  <1>6. ASSUME NEW t \in Sessions PROVE Shows(t)'
    <2>1. CASE t = s
      <3>1. Due(t)'
        BY <1>3, <1>4, <2>1 DEF Due
      <3>2. QED
        BY <3>1 DEF Shows
    <2>2. CASE t # s
      <3>1. loop'[t] = loop[t]
        BY <1>0, <2>2 DEF EndTurn, LoopsOK
      <3>2. Stays(t)
        BY <1>1, <1>4, <3>1, StaysServer
      <3>3. QED
        BY <3>2, ShowsStays DEF ViewInv, ViewDue
    <2>3. QED
      BY <2>1, <2>2
  <1>7. QED
    BY <1>5, <1>6 DEF ViewDue

LEMMA CancelInv ==
  ASSUME ViewInv, ViewTypeOK', NEW s \in Sessions, Cancel(s)
  PROVE  (\E N : Gains(N)) /\ ViewDue'
  <1>0. ListsOK /\ LoopsOK /\ UsedOK
    BY TypeParts DEF ViewInv
  <1>1. UNCHANGED <<page, calls, fresh, overtaken, failed>> /\ UNCHANGED <<stored, version, events>> /\ StopLoop(s)
    BY DEF Cancel
  <1>2. UNCHANGED <<selected, view, cache, announced, fresh, overtaken, failed, calls>> /\ Served' = Served
    BY <1>1, GainsPage
  <1>3. Made' = Made
    <2>1. used'.made = used.made
      BY <1>0 DEF Cancel, Count, UsedOK
    <2>2. QED
      BY <2>1 DEF Made
  <1>4. ASSUME NEW t \in Sessions
        PROVE  /\ ToSet(queued'[t]) \subseteq ToSet(queued[t])
               /\ loop[t] # "idle" => loop'[t] # "idle"
    BY <1>0, <1>1, StopKeeps
  <1>5. Gains({})
    <2>1. ASSUME NEW t \in Sessions
          PROVE  /\ ToSet(stored'[t]) \subseteq ToSet(stored[t]) \union ToSet(queued[t]) \union {}
                 /\ ToSet(queued'[t]) \subseteq ToSet(queued[t]) \union {}
                 /\ ToSet(stored'[t]) \intersect ToSet(queued'[t]) = {}
                 /\ version'[t] = version[t] /\ stored'[t] = stored[t]
      BY <1>1, <1>4 DEF ViewInv, Separate
    <2>2. QED
      BY <1>1, <1>2, <1>3, <2>1 DEF Gains
  <1>6. ASSUME NEW t \in Sessions PROVE Shows(t)'
    <2>1. Stays(t)
      BY <1>1, <1>4, StaysServer
    <2>2. QED
      BY <2>1, ShowsStays DEF ViewInv, ViewDue
  <1>7. QED
    BY <1>5, <1>6 DEF ViewDue

\* Carrying out a revert or a redo answers no request for messages.
LEMMA RevertServes ==
  ASSUME NEW c, c.kind \in {"revert", "redo"},
         \/ calls' = calls \ {c}
         \/ \E d : d.kind \in {"revert", "redo"} /\ calls' = (calls \ {c}) \union {d}
  PROVE  /\ Served' \subseteq Served
         /\ \A d \in calls : d.kind = "load" => d \in calls'
  BY DEF Served

\* A step that leaves the page, and of the requests all for messages.
LEMMA StopInv ==
  ASSUME ViewInv, NEW s \in Sessions, StopLoop(s),
         UNCHANGED <<stored, version, page, fresh, overtaken, failed, used>>,
         Served' \subseteq Served, \A d \in calls : d.kind = "load" => d \in calls',
         ToSet(events) \subseteq ToSet(events'),
         \A e \in ToSet(events') : e.kind = "created" => e \in ToSet(events)
  PROVE  (\E N : Gains(N)) /\ ViewDue'
  <1>0. ListsOK /\ LoopsOK
    BY TypeParts DEF ViewInv
  <1>1. ASSUME NEW t \in Sessions
        PROVE  /\ ToSet(queued'[t]) \subseteq ToSet(queued[t])
               /\ loop[t] # "idle" => loop'[t] # "idle"
    BY <1>0, StopKeeps
  <1>2. UNCHANGED <<selected, view, cache, announced>>
    BY DEF page
  <1>3. Gains({})
    BY <1>1, <1>2, GainsNothing
  <1>4. ASSUME NEW t \in Sessions PROVE Shows(t)'
    <2>1. Stays(t)
      BY <1>1, <1>2 DEF Stays, IsDue
    <2>2. QED
      BY <2>1, ShowsStays DEF ViewInv, ViewDue
  <1>5. QED
    BY <1>3, <1>4 DEF ViewDue

LEMMA ServeRevertInv ==
  ASSUME ViewInv, NEW c \in calls, ServeRevert(c)
  PROVE  (\E N : Gains(N)) /\ ViewDue'
  <1>1. PICK d \in CallSet :
           /\ c.s \in Sessions /\ c.kind \in {"revert", "redo"} /\ d.kind = c.kind /\ d.s = c.s
           /\ calls' = (calls \ {c}) \union {d} /\ CallsOK(calls)'
           /\ cut' \in [Sessions -> Nat] /\ events' \in Seq(EventSet)
           /\ ToSet(events) \subseteq ToSet(events')
           /\ \A e \in ToSet(events') : e.kind = "created" => e \in ToSet(events)
           /\ StopLoop(c.s) /\ UNCHANGED <<stored, version, prompts, page, fresh, overtaken, failed, used>>
    BY ServeRevertCases DEF ViewInv
  <1>2. Served' \subseteq Served /\ \A x \in calls : x.kind = "load" => x \in calls'
    BY <1>1, RevertServes
  <1>3. QED
    BY <1>1, <1>2, StopInv

LEMMA RefuseRevertInv ==
  ASSUME ViewInv, NEW c \in calls, RefuseRevert(c)
  PROVE  (\E N : Gains(N)) /\ ViewDue'
  <1>1. c.s \in Sessions
    BY TypeParts DEF ViewInv, WayOK, CallsOK, CallSet
  <1>2. /\ c.kind = "revert" /\ StopLoop(c.s) /\ calls' = calls \ {c}
        /\ UNCHANGED <<stored, version, page, events, fresh, overtaken, failed, used>>
    BY DEF RefuseRevert
  <1>3. Served' \subseteq Served /\ \A x \in calls : x.kind = "load" => x \in calls'
    BY <1>2, RevertServes
  <1>4. QED
    BY <1>1, <1>2, <1>3, StopInv

\* The server's answer: what is stored, and of the present version.
LEMMA ServeInv ==
  ASSUME ViewInv, ViewTypeOK', NEW c \in calls, Serve(c)
  PROVE  Numbered' /\ Separate' /\ Answers' /\ ViewDue' /\ FoundStays'
  <1>0. ListsOK /\ NumbersOK /\ WayOK /\ Numbered /\ Separate /\ Answers /\ ViewDue /\ FoundStays /\ ViewTypeOK
    BY TypeParts DEF ViewInv
  <1>1. c \in CallSet /\ c.s \in Sessions
    BY <1>0 DEF WayOK, CallsOK, CallSet
  <1>2. PICK q \in Seq(Nat), n \in Nat : q = stored[c.s] /\ n = version[c.s] + 1
    BY <1>0, <1>1 DEF ListsOK, NumbersOK
  <1>3. PICK d : d = [c EXCEPT !.got = q, !.at = n]
    OBVIOUS
  <1>4. d \in CallSet /\ d.kind = c.kind /\ d.s = c.s /\ d.got = q /\ d.at = n
    <2>1. c \in CallSet /\ q \in Seq(Nat) /\ n \in Nat
      BY <1>1, <1>2
    <2>2. ServedAs(c, q, n, d)
      BY <1>3 DEF ServedAs
    <2>3. QED
      BY <2>1, <2>2, ServedType
  <1>5. /\ calls' = (calls \ {c}) \union {d} /\ c.kind \in {"load", "list"} /\ c.at = None
        /\ UNCHANGED <<server, page, events, fresh, overtaken, failed, used>>
    BY <1>2, <1>3 DEF Serve
  <1>6. Served' = Served \union {d}
    <2>1. d.at # None
      BY <1>0, <1>1, <1>2, <1>4 DEF NumbersOK, None
    <2>2. QED
      BY <1>4, <1>5, <2>1 DEF Served
  <1>7. UNCHANGED <<stored, queued, version, loop, selected, view, cache, announced, Made>>
    BY <1>5 DEF server, page, Made
  <1>8. ToSet(d.got) = ToSet(stored[d.s]) /\ d.s \in Sessions
    BY <1>1, <1>2, <1>4
  <1>9. Numbered'
    BY <1>0, <1>5, <1>6, <1>7, <1>8 DEF Numbered
  <1>10. Separate'
    BY <1>0, <1>6, <1>7, <1>8 DEF Separate
  <1>11. Answers'
    <2>1. \A t \in Sessions : fresh'[t] <= version'[t] + 1
      BY <1>0, <1>5, <1>7 DEF Answers
    <2>2. d.at = version[d.s] + 1 /\ d.got = stored[d.s]
      BY <1>2, <1>4
    <2>3. ASSUME NEW e \in Served'
          PROVE  /\ e.at <= version[e.s] + 1 /\ (e.at = version[e.s] + 1 => e.got = stored[e.s])
                 /\ e.at \in Nat /\ version[e.s] \in Nat
      <3>1. CASE e = d
        BY <1>0, <1>2, <1>4, <1>8, <2>2, <3>1 DEF NumbersOK
      <3>2. CASE e \in Served
        BY <1>0, <3>2, ServedIs DEF Answers
      <3>3. QED
        BY <1>6, <3>1, <3>2
    <2>4. ASSUME NEW x \in Served', NEW y \in Served', x.s = y.s, x.at <= y.at
          PROVE  ToSet(x.got) \intersect ToSet(stored[x.s]) \subseteq ToSet(y.got)
      <3>1. CASE y = d
        BY <2>2, <2>4, <3>1
      <3>2. CASE y \in Served /\ x = d
        <4>1. y.at = version[y.s] + 1
          BY <2>2, <2>3, <2>4, <3>2
        <4>2. y.got = stored[y.s]
          BY <2>3, <4>1
        <4>3. QED
          BY <2>4, <4>2
      <3>3. CASE y \in Served /\ x \in Served
        BY <1>0, <2>4, <3>3 DEF Answers
      <3>4. QED
        BY <1>6, <3>1, <3>2, <3>3
    <2>5. QED
      BY <1>7, <2>1, <2>3, <2>4 DEF Answers
  <1>12. FoundStays'
    <2>1. ASSUME NEW t \in Sessions, t \notin overtaken PROVE Remains(t)'
      <3>1. SUFFICES ASSUME NEW m \in Holds(t)', m \notin announced'[t],
                            m \in ToSet(stored'[t]) \union ToSet(queued'[t])
                     PROVE  Found(t, m)'
        BY DEF Remains
      <3>2. Found(t, m)
        BY <1>0, <1>7, <2>1, <3>1 DEF FoundStays, Remains, Holds
      <3>3. QED
        BY <1>5, <1>6, <1>7, <1>8, <3>2 DEF Found
    <2>2. QED
      BY <1>5, <2>1 DEF FoundStays
  <1>13. ASSUME NEW t \in Sessions PROVE Shows(t)'
    <2>1. ASSUME NEW x \in calls, IsDue(x, t) PROVE \E y \in calls' : IsDue(y, t)
      <3>1. CASE x = c
        <4>1. IsDue(d, t)
          BY <1>2, <1>4, <2>1, <3>1 DEF IsDue
        <4>2. QED
          BY <1>5, <4>1
      <3>2. CASE x # c
        BY <1>5, <2>1, <3>2
      <3>3. QED
        BY <3>1, <3>2
    <2>2. Stays(t)
      BY <1>5, <1>7, <2>1 DEF Stays
    <2>3. QED
      BY <1>0, <2>2, ShowsStays DEF ViewDue
  <1>14. QED
    BY <1>9, <1>10, <1>11, <1>12, <1>13 DEF ViewDue

-----------------------------------------------------------------------------
(* The steps of the page. *)

\* A step that asks for something and shows nothing else.
LEMMA AskKeeps ==
  ASSUME ViewInv, UNCHANGED <<stored, queued, version, cache, announced, view, selected, fresh, overtaken>>,
         Made \subseteq Made', Served' \subseteq Served, ToSet(events') \subseteq ToSet(events)
  PROVE  Keeps
  <1>0. NumbersOK
    BY TypeParts DEF ViewInv
  <1>1. ASSUME NEW t \in Sessions
        PROVE  /\ ToSet(cache'[t]) \subseteq Made
               /\ fresh[t] <= fresh'[t] /\ fresh'[t] <= version[t] + 1
    BY <1>0 DEF ViewInv, Numbered, Answers, NumbersOK
  <1>2. ToSet(view') \subseteq Made
    BY DEF ViewInv, Numbered
  <1>3. \A t \in Sessions : Holds(t)' = Holds(t) /\ announced'[t] = announced[t]
    BY DEF Holds
  <1>4. QED
    BY <1>1, <1>2, <1>3 DEF Keeps

\* Calls that are asked for have no answer.
LEMMA ServedAsked ==
  ASSUME NEW d, d.at = None, calls' = calls \union {d}
  PROVE  Served' \subseteq Served
  BY DEF Served

\* The age of a response: the newest version that was shown, and whether this one is older.
LEMMA AgeIs ==
  ASSUME ViewTypeOK, Answers, NEW c \in Served, Age(c)
  PROVE  /\ \A t \in Sessions : fresh[t] <= fresh'[t] /\ fresh'[t] <= version[t] + 1
         /\ \A t \in Sessions : t # c.s => fresh'[t] = fresh[t]
         /\ overtaken \subseteq overtaken' /\ overtaken' \subseteq overtaken \union {c.s}
         /\ c.s \notin overtaken' => c.at >= fresh[c.s]
         /\ c.s \notin overtaken' => fresh'[c.s] = c.at
         /\ c.s \in overtaken' \/ c.at = fresh'[c.s]
         /\ fresh[c.s] = version[c.s] + 1 => fresh'[c.s] = fresh[c.s]
  <1>0. NumbersOK /\ c.s \in Sessions /\ c.at \in Nat /\ fresh[c.s] \in Nat /\ version[c.s] \in Nat
    BY ServedIs, TypeParts
  <1>1. c.at <= version[c.s] + 1 /\ fresh[c.s] <= version[c.s] + 1
    BY <1>0 DEF Answers
  <1>2. PICK n : n = IF c.at > fresh[c.s] THEN c.at ELSE fresh[c.s]
    OBVIOUS
  <1>3. n \in Nat /\ fresh[c.s] <= n /\ n <= version[c.s] + 1 /\ (c.at >= fresh[c.s] => n = c.at)
    BY <1>0, <1>1, <1>2
  <1>4. fresh' = [fresh EXCEPT ![c.s] = n]
    BY <1>0, <1>2 DEF Age, NumbersOK
  <1>5. fresh'[c.s] = n /\ \A t \in Sessions : t # c.s => fresh'[t] = fresh[t]
    BY <1>0, <1>4 DEF NumbersOK
  <1>6. \A t \in Sessions : fresh[t] <= fresh'[t] /\ fresh'[t] <= version[t] + 1
    BY <1>0, <1>3, <1>5 DEF Answers, NumbersOK
  <1>7. /\ overtaken \subseteq overtaken' /\ overtaken' \subseteq overtaken \union {c.s}
        /\ c.s \notin overtaken' => c.at >= fresh[c.s]
    BY <1>0 DEF Age
  <1>8. QED
    BY <1>0, <1>3, <1>5, <1>6, <1>7

\* An answer that is not older than what was shown is not forgotten by a newer one.
LEMMA GotIsFound ==
  ASSUME ViewInv, NEW c \in Served, NEW m \in ToSet(c.got),
         m \in ToSet(stored[c.s]) \union ToSet(queued[c.s])
  PROVE  /\ m \in ToSet(stored[c.s])
         /\ \A d \in Served : d.s = c.s /\ d.at >= c.at => m \in ToSet(d.got)
  <1>1. m \in ToSet(stored[c.s])
    BY DEF ViewInv, Separate
  <1>2. ASSUME NEW d \in Served, d.s = c.s, d.at >= c.at PROVE m \in ToSet(d.got)
    <2>1. c.at \in Nat /\ d.at \in Nat
      BY ServedIs DEF ViewInv
    <2>2. c.at <= d.at
      BY <1>2, <2>1
    <2>3. QED
      BY <1>1, <1>2, <2>2 DEF ViewInv, Answers
  <1>3. QED
    BY <1>1, <1>2

LEMMA ReceiveLoadInv ==
  ASSUME ViewInv, ViewTypeOK', NEW c \in calls, ReceiveLoad(c)
  PROVE  Keeps /\ ViewDue'
  <1>0. ListsOK /\ NumbersOK /\ PageOK /\ WayOK /\ Numbered /\ Answers /\ ViewDue /\ FoundStays /\ ViewTypeOK
    BY TypeParts DEF ViewInv
  <1>1. /\ c \in CallSet /\ c.s \in Sessions /\ c.got \in Seq(Nat) /\ c.kind = "load" /\ c.at # None
        /\ announced' = [announced EXCEPT ![c.s] = @ \ ToSet(c.got)]
        /\ Age(c) /\ calls' = calls \ {c}
        /\ UNCHANGED <<server, events, selected, target, failed, used>>
    BY <1>0, ReceiveLoadCases, Zenon
  <1>2. PICK k \in Seq(Nat), v \in Seq(Nat) :
          /\ cache' = [cache EXCEPT ![c.s] = Merge(c.got, k)]
          /\ view' = IF selected = c.s THEN Merge(Merge(c.got, k), v) ELSE view
          /\ ToSet(k) = ToSet(cache[c.s]) \intersect announced[c.s]
          /\ ToSet(v) = ToSet(view) \intersect announced[c.s]
          /\ ToSet(Merge(c.got, k)) = ToSet(c.got) \union ToSet(k)
          /\ ToSet(Merge(Merge(c.got, k), v)) = ToSet(c.got) \union ToSet(k) \union ToSet(v)
    BY <1>0, ReceiveLoadCases, Zenon
  <1>3. c \in Served /\ Served' \subseteq Served
    BY <1>1 DEF Served
  <1>4. UNCHANGED <<stored, queued, version, loop, Made>>
    BY <1>1 DEF server, Made
  <1>5. /\ \A t \in Sessions : fresh[t] <= fresh'[t] /\ fresh'[t] <= version[t] + 1
        /\ \A t \in Sessions : t # c.s => fresh'[t] = fresh[t]
        /\ overtaken \subseteq overtaken'
        /\ c.s \notin overtaken' => c.at >= fresh[c.s] /\ fresh'[c.s] = c.at
    BY <1>0, <1>1, <1>3, AgeIs
  <1>6. /\ ToSet(cache'[c.s]) = ToSet(c.got) \union ToSet(k)
        /\ announced'[c.s] = announced[c.s] \ ToSet(c.got)
        /\ \A t \in Sessions : t # c.s => cache'[t] = cache[t] /\ announced'[t] = announced[t]
    BY <1>0, <1>1, <1>2 DEF ListsOK, PageOK
  <1>7. /\ selected = c.s => ToSet(view') = ToSet(c.got) \union ToSet(k) \union ToSet(v)
        /\ selected # c.s => view' = view
    BY <1>2
  <1>8. ToSet(c.got) \subseteq Made /\ ToSet(cache[c.s]) \subseteq Made /\ ToSet(view) \subseteq Made
    BY <1>0, <1>1, <1>3 DEF Numbered
  <1>9. Keeps
    <2>1. ASSUME NEW t \in Sessions PROVE ToSet(cache'[t]) \subseteq Made
      BY <1>0, <1>2, <1>6, <1>8 DEF Numbered
    <2>2. ToSet(view') \subseteq Made
      BY <1>2, <1>7, <1>8
    <2>3. ASSUME NEW t \in Sessions, t \notin overtaken', NEW m \in Holds(t)' \ announced'[t]
          PROVE  \/ m \in Holds(t) \ announced[t]
                 \/ m \in ToSet(stored[t]) \union ToSet(queued[t]) => Found(t, m)'
      <3>1. CASE t = c.s
        <4>1. m \in ToSet(c.got)
          BY <1>1, <1>2, <1>6, <1>7, <2>3, <3>1 DEF Holds
        <4>2. ASSUME m \in ToSet(stored[t]) \union ToSet(queued[t]) PROVE Found(t, m)'
          <5>1. /\ m \in ToSet(stored[c.s])
                /\ \A d \in Served : d.s = c.s /\ d.at >= c.at => m \in ToSet(d.got)
            BY <1>3, <3>1, <4>1, <4>2, GotIsFound
          <5>2. fresh'[c.s] = c.at
            BY <1>5, <2>3, <3>1
          <5>3. QED
            BY <1>3, <1>4, <3>1, <5>1, <5>2 DEF Found
        <4>3. QED
          BY <4>2
      <3>2. CASE t # c.s
        <4>1. m \in Holds(t)
          BY <1>1, <1>6, <1>7, <2>3, <3>2 DEF Holds
        <4>2. QED
          BY <1>6, <2>3, <3>2, <4>1
      <3>3. QED
        BY <3>1, <3>2
    <2>4. QED
      BY <1>1, <1>3, <1>4, <1>5, <2>1, <2>2, <2>3 DEF Keeps
  <1>10. ASSUME NEW t \in Sessions PROVE Shows(t)'
    <2>1. CASE t # c.s \/ selected # t
      <3>1. CASE selected # t
        BY <1>1, <3>1 DEF Shows
      <3>2. CASE t # c.s /\ selected = t
        <4>1. \A x \in calls : IsDue(x, t) => x \in calls'
          BY <1>1, <3>2 DEF IsDue
        <4>2. Stays(t)
          BY <1>1, <1>4, <1>5, <1>6, <1>7, <3>2, <4>1 DEF Stays
        <4>3. QED
          BY <1>0, <4>2, ShowsStays DEF ViewDue
      <3>3. QED
        BY <2>1, <3>1, <3>2
    <2>2. CASE t = c.s /\ selected = t /\ t \notin overtaken' \union failed'
      <3>1. version[t] \in Nat /\ c.at \in Nat /\ fresh[t] \in Nat
        BY <1>3, <2>2, <1>0, ServedIs
      <3>2. c.at <= version[t] + 1 /\ (c.at = version[t] + 1 => c.got = stored[t])
        BY <1>0, <1>3, <2>2 DEF Answers
      <3>3. CASE c.at = version[t] + 1
        <4>1. Keep(view', ToSet(stored[t])) = stored[t]
          <5>1. PICK q \in Seq(Nat) : q = c.got
            BY <1>1
          <5>2. Keep(Merge(Merge(q, k), v), ToSet(q)) = q
            BY LoadedShown
          <5>3. view' = Merge(Merge(q, k), v) /\ stored[t] = q
            BY <1>2, <2>2, <3>2, <3>3, <5>1
          <5>4. QED
            BY <5>2, <5>3
        <4>2. ToSet(view') \subseteq ToSet(stored[t]) \union announced'[t]
          BY <1>2, <1>6, <1>7, <2>2, <3>2, <3>3
        <4>3. fresh'[t] = version[t] + 1
          BY <1>5, <2>2, <3>3
        <4>4. Current(t)'
          BY <1>4, <4>1, <4>2, <4>3 DEF Current
        <4>5. QED
          BY <4>4 DEF Shows
      <3>4. CASE c.at # version[t] + 1
        <4>1. fresh[t] # version[t] + 1
          BY <1>5, <2>2, <3>1, <3>2, <3>4
        <4>2. Due(t)
          BY <1>0, <1>1, <1>5, <2>2, <4>1 DEF ViewDue, Shows, Current
        <4>3. \A x \in calls : IsDue(x, t) => x \in calls'
          BY <1>1, <3>4 DEF IsDue
        <4>4. Due(t)'
          BY <1>1, <1>4, <4>2, <4>3 DEF Due, IsDue
        <4>5. QED
          BY <4>4 DEF Shows
      <3>5. QED
        BY <3>3, <3>4
    <2>3. CASE t \in overtaken' \union failed'
      BY <2>3 DEF Shows
    <2>4. QED
      BY <2>1, <2>2, <2>3
  <1>11. QED
    BY <1>9, <1>10 DEF ViewDue

LEMMA ReceiveListInv ==
  ASSUME ViewInv, ViewTypeOK', NEW c \in calls, ReceiveList(c)
  PROVE  Keeps /\ ViewDue'
  <1>0. ListsOK /\ NumbersOK /\ PageOK /\ WayOK /\ Numbered /\ Answers /\ ViewDue /\ ViewTypeOK
    BY TypeParts DEF ViewInv
  <1>1. /\ c.kind = "list" /\ c.at # None /\ Age(c) /\ calls' = calls \ {c}
        /\ cache' = [cache EXCEPT ![c.s] = c.got]
        /\ UNCHANGED <<server, events, selected, view, announced, target, failed, used>>
    BY DEF ReceiveList
  <1>2. c \in Served /\ Served' \subseteq Served
    BY <1>1 DEF Served
  <1>3. UNCHANGED <<stored, queued, version, loop, Made>> /\ c.s \in Sessions
    BY <1>0, <1>1, <1>2, ServedIs DEF server, Made
  <1>4. /\ \A t \in Sessions : fresh[t] <= fresh'[t] /\ fresh'[t] <= version[t] + 1
        /\ \A t \in Sessions : t # c.s => fresh'[t] = fresh[t]
        /\ overtaken \subseteq overtaken'
        /\ c.s \notin overtaken' => c.at >= fresh[c.s] /\ fresh'[c.s] = c.at
        /\ fresh[c.s] = version[c.s] + 1 => fresh'[c.s] = fresh[c.s]
    BY <1>0, <1>1, <1>2, AgeIs
  <1>5. cache'[c.s] = c.got /\ \A t \in Sessions : t # c.s => cache'[t] = cache[t]
    BY <1>0, <1>1, <1>3 DEF ListsOK
  <1>6. ToSet(c.got) \subseteq Made
    BY <1>0, <1>2 DEF Numbered
  <1>7. Keeps
    <2>1. ASSUME NEW t \in Sessions PROVE ToSet(cache'[t]) \subseteq Made
      BY <1>0, <1>5, <1>6 DEF Numbered
    <2>2. ToSet(view') \subseteq Made
      BY <1>0, <1>1 DEF Numbered
    <2>3. ASSUME NEW t \in Sessions, t \notin overtaken', NEW m \in Holds(t)' \ announced'[t]
          PROVE  \/ m \in Holds(t) \ announced[t]
                 \/ m \in ToSet(stored[t]) \union ToSet(queued[t]) => Found(t, m)'
      <3>1. CASE m \notin Holds(t)
        <4>1. t = c.s /\ m \in ToSet(c.got)
          BY <1>1, <1>5, <2>3, <3>1 DEF Holds
        <4>2. ASSUME m \in ToSet(stored[t]) \union ToSet(queued[t]) PROVE Found(t, m)'
          <5>1. /\ m \in ToSet(stored[c.s])
                /\ \A d \in Served : d.s = c.s /\ d.at >= c.at => m \in ToSet(d.got)
            BY <1>2, <4>1, <4>2, GotIsFound
          <5>2. fresh'[c.s] = c.at
            BY <1>4, <2>3, <4>1
          <5>3. QED
            BY <1>2, <1>3, <4>1, <5>1, <5>2 DEF Found
        <4>3. QED
          BY <4>2
      <3>2. CASE m \in Holds(t)
        BY <1>1, <2>3, <3>2
      <3>3. QED
        BY <3>1, <3>2
    <2>4. QED
      BY <1>1, <1>2, <1>3, <1>4, <2>1, <2>2, <2>3 DEF Keeps
  <1>8. ASSUME NEW t \in Sessions PROVE Shows(t)'
    <2>1. Current(t) => Current(t)'
      BY <1>1, <1>3, <1>4 DEF Current
    <2>2. \A x \in calls : IsDue(x, t) => x \in calls'
      BY <1>1 DEF IsDue
    <2>3. Due(t) => Due(t)'
      BY <1>1, <1>3, <2>2 DEF Due, IsDue
    <2>4. QED
      BY <1>0, <1>1, <1>4, <2>1, <2>3 DEF ViewDue, Shows
  <1>9. QED
    BY <1>7, <1>8 DEF ViewDue

\* A step that asks: what was due stays due.
LEMMA AskShows ==
  ASSUME ViewInv, UNCHANGED <<stored, version, loop, view, selected, announced, fresh, overtaken>>,
         NEW t \in Sessions, t \in failed => t \in failed',
         \A e \in ToSet(events) : e.kind = "end" /\ e.s = t => e \in ToSet(events'),
         \A d \in calls : d.kind = "load" => d \in calls'
  PROVE  Shows(t)'
  <1>1. Stays(t)
    BY DEF Stays, IsDue
  <1>2. QED
    BY <1>1, ShowsStays DEF ViewInv, ViewDue

LEMMA ReceiveRevertInv ==
  ASSUME ViewInv, ViewTypeOK', NEW c \in calls, ReceiveRevert(c)
  PROVE  Keeps /\ ViewDue'
  <1>0. WayOK
    BY TypeParts DEF ViewInv
  <1>1. /\ c.kind \in {"revert", "redo"} /\ calls' = Call(calls \ {c}, "load", c.s, None)
        /\ failed' = failed \ {c.s}
        /\ UNCHANGED <<server, events, selected, cache, view, announced, fresh, overtaken, used>>
    BY DEF ReceiveRevert, Load
  <1>2. UNCHANGED <<stored, queued, version, loop, Made>>
    BY <1>1 DEF server, Made
  <1>3. \E d \in CallSet : /\ calls' = (calls \ {c}) \union {d} /\ d.at = None
                           /\ d.kind = "load" /\ d.s = c.s
    <2>1. CallsOK(calls \ {c}) /\ "load" \in Kinds /\ None \in Nat /\ c.s \in Sessions
      BY <1>0, CallsLess DEF WayOK, Kinds, None, CallsOK, CallSet
    <2>2. Adds(calls \ {c}, Call(calls \ {c}, "load", c.s, None), "load", c.s)
      BY <2>1, CallType
    <2>3. QED
      BY <1>1, <2>2 DEF Adds
  <1>4. Served' \subseteq Served /\ \A d \in calls : d.kind = "load" => d \in calls'
    BY <1>1, <1>3 DEF Served
  <1>5. Keeps
    BY <1>1, <1>2, <1>4, AskKeeps
  <1>6. ASSUME NEW t \in Sessions PROVE Shows(t)'
    <2>1. CASE t = c.s
      <3>1. Due(t)'
        BY <1>3, <2>1 DEF Due, IsDue
      <3>2. QED
        BY <3>1 DEF Shows
    <2>2. CASE t # c.s
      BY <1>1, <1>2, <1>4, <2>2, AskShows
    <2>3. QED
      BY <2>1, <2>2
  <1>7. QED
    BY <1>5, <1>6 DEF ViewDue

\* A request that fails shows nothing else; a load that fails is remembered.
LEMMA FailInv ==
  ASSUME ViewInv, ViewTypeOK', NEW c \in calls, Fail(c)
  PROVE  Keeps /\ ViewDue'
  <1>0. UsedOK /\ WayOK
    BY TypeParts DEF ViewInv
  <1>1. /\ Count("mishaps") /\ calls' = calls \ {c}
        /\ failed' = IF c.kind = "load" THEN failed \union {c.s} ELSE failed
        /\ UNCHANGED <<server, page, events, fresh, overtaken>>
    BY DEF Fail
  <1>2. UNCHANGED <<stored, queued, version, loop, cache, announced, view, selected>>
    BY <1>1 DEF server, page
  <1>3. Made' = Made
    BY <1>0, <1>1 DEF Made, Count, UsedOK
  <1>4. Served' \subseteq Served
    BY <1>1 DEF Served
  <1>5. Keeps
    BY <1>1, <1>2, <1>3, <1>4, AskKeeps
  <1>6. ASSUME NEW t \in Sessions PROVE Shows(t)'
    <2>1. CASE t \in failed'
      BY <2>1 DEF Shows
    <2>2. CASE t \notin failed'
      <3>1. \A d \in calls : IsDue(d, t) => d \in calls'
        BY <1>1, <2>2 DEF IsDue
      <3>2. Stays(t)
        BY <1>1, <1>2, <2>2, <3>1 DEF Stays, IsDue
      <3>3. QED
        BY <3>2, ShowsStays DEF ViewInv, ViewDue
    <2>3. QED
      BY <2>1, <2>2
  <1>7. QED
    BY <1>5, <1>6 DEF ViewDue

LEMMA AskRevertInv ==
  ASSUME ViewInv, ViewTypeOK', AskRevert
  PROVE  Keeps /\ ViewDue'
  <1>0. UsedOK /\ ViewTypeOK
    BY TypeParts DEF ViewInv
  <1>1. /\ \E d \in CallSet : calls' = calls \union {d} /\ d.at = None
        /\ Count("reverts") /\ UNCHANGED <<server, page, events, fresh, overtaken, failed>>
    BY <1>0, AskRevertCases
  <1>2. UNCHANGED <<stored, queued, version, loop, cache, announced, view, selected>>
    BY <1>1 DEF server, page
  <1>3. Made' = Made
    BY <1>0, <1>1 DEF Made, Count, UsedOK
  <1>4. Served' \subseteq Served /\ \A d \in calls : d.kind = "load" => d \in calls'
    BY <1>1, ServedAsked
  <1>5. Keeps
    BY <1>1, <1>2, <1>3, <1>4, AskKeeps
  <1>6. ASSUME NEW t \in Sessions PROVE Shows(t)'
    BY <1>1, <1>2, <1>4, AskShows
  <1>7. QED
    BY <1>5, <1>6 DEF ViewDue

LEMMA SelectInv ==
  ASSUME ViewInv, ViewTypeOK', NEW s \in Sessions, Select(s)
  PROVE  Keeps /\ ViewDue'
  <1>0. UsedOK /\ WayOK /\ NumbersOK
    BY TypeParts DEF ViewInv
  <1>1. /\ Count("selects") /\ selected' = s /\ view' = cache[s] /\ Load(s, calls)
        /\ UNCHANGED <<server, cache, announced, target, events, fresh, overtaken>>
    BY DEF Select
  <1>2. PICK d \in CallSet : calls' = calls \union {d} /\ d.kind = "load" /\ d.s = s /\ d.at = None
    BY <1>0, <1>1, LoadType DEF WayOK
  <1>3. Served' \subseteq Served
    BY <1>2, ServedAsked
  <1>4. UNCHANGED <<stored, queued, version, Made>>
    BY <1>0, <1>1 DEF server, Made, Count, UsedOK
  <1>5. Keeps
    <2>1. ASSUME NEW t \in Sessions
          PROVE  /\ ToSet(cache'[t]) \subseteq Made
                 /\ fresh[t] <= fresh'[t] /\ fresh'[t] <= version[t] + 1
      BY <1>0, <1>1 DEF ViewInv, Numbered, Answers, NumbersOK
    <2>2. ToSet(view') \subseteq Made
      BY <1>1 DEF ViewInv, Numbered
    <2>3. ASSUME NEW t \in Sessions PROVE Holds(t)' \subseteq Holds(t) /\ announced'[t] = announced[t]
      BY <1>1 DEF Holds
    <2>4. QED
      BY <1>1, <1>3, <1>4, <2>1, <2>2, <2>3 DEF Keeps
  <1>6. ASSUME NEW t \in Sessions PROVE Shows(t)'
    <2>1. CASE t = s
      <3>1. Due(t)'
        BY <1>2, <2>1 DEF Due, IsDue
      <3>2. QED
        BY <3>1 DEF Shows
    <2>2. CASE t # s
      BY <1>1, <2>2 DEF Shows
    <2>3. QED
      BY <2>1, <2>2
  <1>7. QED
    BY <1>5, <1>6 DEF ViewDue

LEMMA WelcomeInv ==
  ASSUME ViewInv, ViewTypeOK', Welcome
  PROVE  Keeps /\ ViewDue'
  <1>0. UsedOK /\ NumbersOK
    BY TypeParts DEF ViewInv
  <1>1. /\ Count("selects") /\ selected' = NoSession /\ view' = <<>>
        /\ UNCHANGED <<server, cache, announced, target, events, calls, fresh, overtaken, failed>>
    BY DEF Welcome
  <1>2. UNCHANGED <<stored, queued, version, Made, Served>>
    BY <1>0, <1>1 DEF server, Made, Count, UsedOK, Served
  <1>3. ToSet(view') = {} /\ \A t \in Sessions : selected' # t
    BY <1>1, NoSessionIsNone DEF ToSet
  <1>4. Keeps
    <2>1. ASSUME NEW t \in Sessions
          PROVE  /\ ToSet(cache'[t]) \subseteq Made
                 /\ fresh[t] <= fresh'[t] /\ fresh'[t] <= version[t] + 1
      BY <1>0, <1>1 DEF ViewInv, Numbered, Answers, NumbersOK
    <2>2. ASSUME NEW t \in Sessions PROVE Holds(t)' \subseteq Holds(t) /\ announced'[t] = announced[t]
      BY <1>1, <1>3 DEF Holds
    <2>3. QED
      BY <1>1, <1>2, <1>3, <2>1, <2>2 DEF Keeps
  <1>5. \A t \in Sessions : Shows(t)'
    BY <1>3 DEF Shows
  <1>6. QED
    BY <1>4, <1>5 DEF ViewDue

\* A prompt that is announced is shown behind the others, if it is not shown yet.
LEMMA PutShows ==
  ASSUME NEW q \in Seq(Nat), NEW v \in Seq(Nat), NEW m \in Nat, Keep(v, ToSet(q)) = q
  PROVE  Keep(Put(v, m), ToSet(q)) = q
  <1>1. CASE m \in ToSet(v)
    BY <1>1 DEF Put
  <1>2. CASE m \notin ToSet(v)
    <2>1. ToSet(q) \subseteq ToSet(v)
      BY KeepType
    <2>2. m \notin ToSet(q)
      BY <1>2, <2>1
    <2>3. Keep(Append(v, m), ToSet(q)) = Keep(v, ToSet(q))
      BY <2>2, KeepAppend
    <2>4. QED
      BY <1>2, <2>3 DEF Put
  <1>3. QED
    BY <1>1, <1>2

LEMMA OnCreatedInv ==
  ASSUME ViewInv, ViewTypeOK', NEW s \in Sessions, NEW m \in Nat, m \in Made, OnCreated(s, m),
         UNCHANGED <<server, selected, fresh, overtaken, used>>,
         ToSet(events') \subseteq ToSet(events),
         \A e \in ToSet(events) : e.kind = "end" => e \in ToSet(events')
  PROVE  Keeps /\ ViewDue'
  <1>0. ListsOK /\ NumbersOK /\ PageOK /\ Numbered /\ ViewDue
    BY TypeParts DEF ViewInv
  <1>1. UNCHANGED <<stored, queued, version, loop, Made, calls, failed, Served>>
    BY DEF OnCreated, server, Made, Served
  <1>2. /\ announced'[s] = announced[s] \union {m}
        /\ \A t \in Sessions : t # s => announced'[t] = announced[t] /\ cache'[t] = cache[t]
    BY <1>0 DEF OnCreated, PageOK, ListsOK
  <1>3. ToSet(cache'[s]) = ToSet(cache[s]) \union {m}
    <2>1. PICK q \in Seq(Nat) : q = cache[s]
      BY <1>0 DEF ListsOK
    <2>2. cache'[s] = Put(q, m)
      BY <1>0, <2>1 DEF OnCreated, ListsOK
    <2>3. QED
      BY <2>1, <2>2, PutType
  <1>4. /\ selected = s => view' = Put(view, m) /\ ToSet(view') = ToSet(view) \union {m}
        /\ selected # s => view' = view
    BY <1>0, PutType DEF OnCreated, PageOK
  <1>5. Keeps
    <2>1. ASSUME NEW t \in Sessions
          PROVE  /\ ToSet(cache'[t]) \subseteq Made
                 /\ fresh[t] <= fresh'[t] /\ fresh'[t] <= version[t] + 1
      BY <1>0, <1>2, <1>3 DEF ViewInv, Numbered, Answers, NumbersOK
    <2>2. ToSet(view') \subseteq Made
      BY <1>0, <1>4 DEF Numbered
    <2>3. ASSUME NEW t \in Sessions, NEW x \in Holds(t)' \ announced'[t] PROVE x \in Holds(t) \ announced[t]
      <3>1. CASE t = s
        BY <1>2, <1>3, <1>4, <2>3, <3>1 DEF Holds
      <3>2. CASE t # s
        BY <1>2, <1>4, <2>3, <3>2 DEF Holds
      <3>3. QED
        BY <3>1, <3>2
    <2>4. QED
      BY <1>1, <2>1, <2>2, <2>3 DEF Keeps
  <1>6. ASSUME NEW t \in Sessions PROVE Shows(t)'
    <2>1. CASE t = s /\ selected = s
      <3>1. ASSUME Current(t) PROVE Current(t)'
        <4>1. PICK q \in Seq(Nat) : q = stored[t]
          BY <1>0 DEF ListsOK
        <4>2. PICK v \in Seq(Nat) : v = view
          BY <1>0 DEF PageOK
        <4>3. Keep(v, ToSet(q)) = q
          BY <3>1, <4>1, <4>2 DEF Current
        <4>4. Keep(Put(v, m), ToSet(q)) = q
          BY <4>3, PutShows
        <4>5. Keep(view', ToSet(stored'[t])) = stored'[t]
          BY <1>1, <1>4, <2>1, <4>1, <4>2, <4>4
        <4>6. ToSet(view') \subseteq ToSet(stored'[t]) \union announced'[t]
          BY <1>1, <1>2, <1>4, <2>1, <3>1 DEF Current
        <4>7. QED
          BY <1>1, <3>1, <4>5, <4>6 DEF Current
      <3>2. Due(t) => Due(t)'
        BY <1>1 DEF Due, IsDue
      <3>3. QED
        BY <1>0, <1>1, <3>1, <3>2 DEF ViewDue, Shows
    <2>2. CASE t # s /\ selected = t
      <3>1. Stays(t)
        BY <1>1, <1>2, <1>4, <2>2 DEF Stays
      <3>2. QED
        BY <1>0, <3>1, ShowsStays DEF ViewDue
    <2>3. CASE selected # t
      BY <2>3 DEF Shows
    <2>4. QED
      BY <2>1, <2>2, <2>3
  <1>7. QED
    BY <1>5, <1>6 DEF ViewDue

LEMMA DeliverInv ==
  ASSUME ViewInv, ViewTypeOK', Deliver
  PROVE  Keeps /\ ViewDue'
  <1>0. ViewTypeOK /\ Numbered
    BY DEF ViewInv
  <1>1. PICK e \in EventSet :
           /\ e \in ToSet(events) /\ ToSet(events) = {e} \union ToSet(events')
           /\ events' \in Seq(EventSet)
           /\ \/ e.kind = "created" /\ OnCreated(e.s, e.m)
              \/ /\ UNCHANGED <<announced, cache, view>> /\ target' \in [Sessions -> Nat]
                 /\ failed' \subseteq failed /\ failed \ {e.s} \subseteq failed'
                 /\ \/ UNCHANGED <<calls, failed>> /\ (e.kind # "end" \/ selected # e.s)
                    \/ /\ CallsOK(calls)'
                       /\ \E d \in CallSet : /\ calls' = calls \union {d} /\ d.s = e.s /\ d.at = None
                                             /\ selected = e.s => d.kind = "load"
           /\ UNCHANGED <<server, selected, fresh, overtaken, used>>
    BY <1>0, DeliverCases
  <1>2. e.s \in Sessions /\ e.m \in Nat
    BY DEF EventSet
  <1>3. CASE e.kind = "created" /\ OnCreated(e.s, e.m)
    <2>1. e.m \in Made
      BY <1>0, <1>1, <1>3 DEF Numbered
    <2>2. \A x \in ToSet(events) : x.kind = "end" => x \in ToSet(events')
      BY <1>1, <1>3
    <2>3. QED
      BY <1>1, <1>2, <1>3, <2>1, <2>2, OnCreatedInv
  <1>4. CASE /\ UNCHANGED <<announced, cache, view>>
             /\ failed' \subseteq failed /\ failed \ {e.s} \subseteq failed'
             /\ \/ UNCHANGED <<calls, failed>> /\ (e.kind # "end" \/ selected # e.s)
                \/ \E d \in CallSet : /\ calls' = calls \union {d} /\ d.s = e.s /\ d.at = None
                                      /\ selected = e.s => d.kind = "load"
    <2>1. UNCHANGED <<stored, queued, version, loop, Made>>
      BY <1>1 DEF server, Made
    <2>2. Served' \subseteq Served /\ \A x \in calls : x \in calls'
      BY <1>4, ServedAsked DEF Served
    <2>3. Keeps
      BY <1>1, <1>4, <2>1, <2>2, AskKeeps
    <2>4. ASSUME NEW t \in Sessions PROVE Shows(t)'
      <3>1. CASE selected # t
        BY <1>1, <3>1 DEF Shows
      <3>2. CASE e.s # t \/ (e.kind # "end" /\ failed' = failed)
        <4>1. \A x \in ToSet(events) : x.kind = "end" /\ x.s = t => x \in ToSet(events')
          BY <1>1, <3>2
        <4>2. QED
          BY <1>1, <1>4, <2>1, <2>2, <3>2, <4>1, AskShows
      <3>3. CASE selected = t /\ e.s = t /\ (e.kind = "end" \/ failed' # failed)
        <4>1. \E d \in calls' : d.s = t /\ d.at = None /\ d.kind = "load"
          BY <1>4, <3>3
        <4>2. Due(t)'
          BY <4>1 DEF Due, IsDue
        <4>3. QED
          BY <4>2 DEF Shows
      <3>4. QED
        BY <3>1, <3>2, <3>3
    <2>5. QED
      BY <2>3, <2>4 DEF ViewDue
  <1>5. QED
    BY <1>1, <1>3, <1>4

\* Every step of the page keeps its invariant.
LEMMA PageStep ==
  ASSUME ViewInv, ViewTypeOK', Keeps /\ ViewDue'
  PROVE  ViewInv'
  BY PageKeeps DEF ViewInv

LEMMA RuntimeStep ==
  ASSUME ViewInv, ViewTypeOK', (\E N : Gains(N)) /\ ViewDue'
  PROVE  ViewInv'
  <1>1. PICK N : Gains(N)
    OBVIOUS
  <1>2. Numbered' /\ Separate' /\ Answers' /\ FoundStays'
    BY <1>1, RuntimeKeeps DEF ViewInv
  <1>3. QED
    BY <1>2 DEF ViewInv

LEMMA ViewInvStutter ==
  ASSUME ViewInv, ViewTypeOK', UNCHANGED viewVars
  PROVE  ViewInv'
  <1>1. UNCHANGED <<stored, queued, version, cache, announced, view, selected, fresh, overtaken, failed, used, loop,
                    events, calls>>
    BY DEF viewVars, server, page
  <1>2. Served' = Served /\ Made' = Made
    BY <1>1 DEF Served, Made
  <1>3. Keeps
    BY <1>1, <1>2, AskKeeps
  <1>4. \A t \in Sessions : Shows(t)'
    BY <1>1, AskShows
  <1>5. QED
    BY <1>3, <1>4, PageStep DEF ViewDue

LEMMA ViewInvStep == ViewInv /\ [ViewNext]_viewVars => ViewInv'
  <1> SUFFICES ASSUME ViewInv, [ViewNext]_viewVars PROVE ViewInv'
    OBVIOUS
  <1>1. ViewTypeOK'
    BY ViewTypeStep DEF ViewInv
  <1>2. CASE ViewNext
    <2>1. CASE \E s \in Sessions : Submit(s) \/ Materialize(s) \/ Reply(s) \/ EndTurn(s) \/ Cancel(s)
      BY <1>1, <2>1, SubmitInv, MaterializeInv, ReplyInv, EndTurnInv, CancelInv, RuntimeStep
    <2>2. CASE \E c \in calls : ServeRevert(c) \/ RefuseRevert(c)
      BY <1>1, <2>2, ServeRevertInv, RefuseRevertInv, RuntimeStep
    <2>3. CASE \E c \in calls : Serve(c)
      BY <1>1, <2>3, ServeInv DEF ViewInv
    <2>4. CASE \E c \in calls : ReceiveLoad(c) \/ ReceiveList(c) \/ ReceiveRevert(c) \/ Fail(c)
      BY <1>1, <2>4, ReceiveLoadInv, ReceiveListInv, ReceiveRevertInv, FailInv, PageStep
    <2>5. CASE Deliver \/ Welcome \/ AskRevert \/ \E s \in Sessions : Select(s)
      BY <1>1, <2>5, DeliverInv, WelcomeInv, AskRevertInv, SelectInv, PageStep
    <2>6. QED
      BY <1>2, <2>1, <2>2, <2>3, <2>4, <2>5, ViewSteps, Zenon
  <1>3. CASE UNCHANGED viewVars
    BY <1>1, <1>3, ViewInvStutter
  <1>4. QED
    BY <1>2, <1>3

LEMMA ViewInvAlways == ViewSpec => []ViewInv
  <1>1. QED
    BY ViewInvInit, ViewInvStep, PTL DEF ViewSpec

LEMMA DueIsRight == ViewInv => ViewIsStored
  <1> SUFFICES ASSUME ViewInv, NEW s \in Sessions, Quiet(s), s \notin overtaken \union failed
               PROVE  Keep(view, ToSet(stored[s])) = stored[s]
                      /\ ToSet(view) \subseteq ToSet(stored[s]) \union announced[s]
    BY DEF ViewIsStored
  <1>1. selected = s /\ loop[s] = "idle" /\ events = <<>> /\ calls = {}
    BY DEF Quiet
  <1>2. ToSet(events) = {}
    BY <1>1 DEF ToSet
  <1>3. ~Due(s)
    BY <1>1, <1>2 DEF Due
  <1>4. Current(s)
    BY <1>1, <1>3 DEF ViewInv, ViewDue, Shows
  <1>5. QED
    BY <1>4 DEF Current

\* For any sessions and bounds, whatever order the responses come back in: when the
\* session that is shown is at rest and nothing is under way, the page shows what is
\* stored in its order, and besides only prompts it was told of; the exceptions are a
\* session where an older response came after a newer one (loadMessages), and one whose
\* load failed and was not begun anew.
THEOREM ViewIsRight == ViewSpec => []ViewIsStored
  <1>1. QED
    BY ViewInvAlways, DueIsRight, PTL

\* What a step takes from the page.
ShownKeeps(s) ==
  selected = s /\ selected' = s /\ s \notin overtaken' =>
    \/ used'.selects > used.selects
    \/ \A m \in ToSet(view) \ ToSet(view') : m \notin ToSet(stored[s]) \union ToSet(queued[s])

LEMMA SameView ==
  ASSUME NEW s, ToSet(view) \subseteq ToSet(view')
  PROVE  ShownKeeps(s)
  BY DEF ShownKeeps

LEMMA ReceiveLoadShows ==
  ASSUME ViewInv, NEW c \in calls, ReceiveLoad(c), NEW s \in Sessions
  PROVE  ShownKeeps(s)
  <1>0. PageOK /\ WayOK /\ Answers /\ FoundStays /\ ViewTypeOK
    BY TypeParts DEF ViewInv
  <1>1. /\ c.s \in Sessions /\ c.kind = "load" /\ c.at # None /\ Age(c)
        /\ UNCHANGED <<server, events, selected, target, failed, used>>
    BY <1>0, ReceiveLoadCases, Zenon
  <1>2. PICK k \in Seq(Nat), v \in Seq(Nat) :
          /\ view' = IF selected = c.s THEN Merge(Merge(c.got, k), v) ELSE view
          /\ ToSet(v) = ToSet(view) \intersect announced[c.s]
          /\ ToSet(Merge(Merge(c.got, k), v)) = ToSet(c.got) \union ToSet(k) \union ToSet(v)
    BY <1>0, ReceiveLoadCases, Zenon
  <1>3. c \in Served
    BY <1>1 DEF Served
  <1>4. CASE s # c.s
    BY <1>2, <1>4 DEF ShownKeeps
  <1>5. CASE s = c.s
    <2>1. SUFFICES ASSUME selected = s, s \notin overtaken', NEW m \in ToSet(view), m \notin ToSet(view'),
                          m \in ToSet(stored[s]) \union ToSet(queued[s])
                   PROVE  FALSE
      BY DEF ShownKeeps
    <2>2. m \notin announced[s] /\ m \notin ToSet(c.got)
      BY <1>2, <1>5, <2>1
    <2>3. s \notin overtaken /\ c.at >= fresh[s]
      BY <1>0, <1>1, <1>3, <1>5, <2>1, AgeIs
    <2>4. m \in Holds(s) \ announced[s]
      BY <2>1, <2>2 DEF Holds
    <2>5. Found(s, m)
      BY <1>0, <2>1, <2>3, <2>4 DEF FoundStays, Remains
    <2>6. m \in ToSet(c.got)
      BY <1>3, <1>5, <2>3, <2>5 DEF Found
    <2>7. QED
      BY <2>2, <2>6
  <1>6. QED
    BY <1>4, <1>5

LEMMA ShownKeepsStep ==
  ASSUME ViewInv, [ViewNext]_viewVars, NEW s \in Sessions
  PROVE  ShownKeeps(s)
  <1>0. PageOK /\ UsedOK /\ ViewTypeOK
    BY TypeParts DEF ViewInv
  <1>1. CASE view' = view
    BY <1>1, SameView
  <1>2. ASSUME NEW c \in calls, ReceiveLoad(c) PROVE ShownKeeps(s)
    BY <1>2, ReceiveLoadShows
  <1>3. ASSUME NEW t \in Sessions, Select(t) PROVE ShownKeeps(s)
    <2>1. used'.selects > used.selects
      BY <1>0, <1>3 DEF Select, Count, UsedOK
    <2>2. QED
      BY <2>1 DEF ShownKeeps
  <1>4. CASE Welcome
    BY <1>4, NoSessionIsNone DEF Welcome, ShownKeeps
  <1>5. CASE Deliver
    <2>1. PICK e \in EventSet : OnCreated(e.s, e.m) \/ UNCHANGED <<announced, cache, view>>
      BY <1>0, <1>5, DeliverCases
    <2>2. e.m \in Nat
      BY DEF EventSet
    <2>3. CASE OnCreated(e.s, e.m)
      <3>1. ToSet(view) \subseteq ToSet(view')
        BY <1>0, <2>2, <2>3, PutType DEF OnCreated, PageOK
      <3>2. QED
        BY <3>1, SameView
    <2>4. CASE UNCHANGED <<announced, cache, view>>
      BY <2>4, <1>1
    <2>5. QED
      BY <2>1, <2>3, <2>4
  <1>6. CASE ViewNext
    <2>1. CASE \E t \in Sessions : Submit(t) \/ Materialize(t) \/ Reply(t) \/ EndTurn(t) \/ Cancel(t)
      BY <1>1, <2>1 DEF Submit, Materialize, Reply, EndTurn, Cancel, page
    <2>2. CASE \E c \in calls : \/ Serve(c) \/ ServeRevert(c) \/ RefuseRevert(c)
                                \/ ReceiveList(c) \/ ReceiveRevert(c) \/ Fail(c)
      BY <1>1, <2>2 DEF Serve, ServeRevert, RefuseRevert, ReceiveList, ReceiveRevert, Fail, page
    <2>3. CASE AskRevert
      BY <1>1, <2>3 DEF AskRevert, page
    <2>4. QED
      BY <1>2, <1>3, <1>4, <1>5, <1>6, <2>1, <2>2, <2>3, ViewSteps, Zenon
  <1>7. CASE UNCHANGED viewVars
    BY <1>1, <1>7 DEF viewVars, page
  <1>8. QED
    BY <1>6, <1>7

\* For any sessions and bounds: while a session stays shown, a load that was answered
\* before a prompt was stored, or while it waits, hides no message the runtime still has.
THEOREM ShownIsKept == ViewSpec => ShownStays
  <1>1. ViewInv /\ [ViewNext]_viewVars =>
          [\A s \in Sessions : selected = s /\ selected' = s /\ s \notin overtaken' =>
             \/ used'.selects > used.selects
             \/ \A m \in ToSet(view) \ ToSet(view') : m \notin ToSet(stored[s]) \union ToSet(queued[s])]_viewVars
    BY ShownKeepsStep DEF ShownKeeps
  <1>2. QED
    BY <1>1, ViewInvAlways, PTL DEF ViewSpec, ShownStays
=============================================================================
