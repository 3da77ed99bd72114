---------------------------- MODULE ServiceProofs ----------------------------
(***************************************************************************)
(* Proofs about the two parts that hold a session with a service: CodexAuth,*)
(* for any number of requests, tokens and settings saved, and McpRegistry, *)
(* for any number of commands and calls at once.  The two share nothing.   *)
(***************************************************************************)
EXTENDS CodexAuth, McpRegistry, TLAPS

-----------------------------------------------------------------------------
(* The inductive invariant. *)

\* Types, with the tokens that have been issued.
IssuedTokens == [access : 1 .. issued, refresh : 1 .. issued] \union {None}
Held == [at : Places, force : BOOLEAN, token : 0 .. issued, old : IssuedTokens, new : IssuedTokens,
         late : BOOLEAN]
Types ==
  /\ issued \in 1 .. MaxTokens /\ honoured \subseteq 1 .. issued
  /\ req \in [Requests -> Held]
  /\ mem \in IssuedTokens /\ file \in IssuedTokens
  /\ saver \in [on : BOOLEAN, copy : IssuedTokens, undo : IssuedTokens] /\ saves \in 0 .. MaxSaves
  /\ recent \in BOOLEAN /\ aging \in BOOLEAN /\ wanted \in BOOLEAN /\ mishap \in BOOLEAN

\* One request refreshes at a time, what was refused stays so, and what was
\* granted is accepted and not yet anywhere else.
Granted == \E r \in Requests : req[r].at = "granted"

RefreshAlone ==
  /\ \A r, s \in Refreshing : r = s
  /\ \A r \in Refreshing : req[r].old # None
  /\ \A r \in Requests : req[r].at = "refused" => req[r].old.refresh \notin honoured

GrantIsNew ==
  \A r \in Requests : req[r].at = "granted" =>
    /\ req[r].new.refresh \in honoured \/ mishap
    /\ req[r].new # None
    /\ mishap \/ \A c \in {mem, saver.copy, saver.undo} : req[r].new.access # c.access

\* What is in memory, and what a failed save puts back, is accepted.
LoggedIn ==
  ~mishap =>
    /\ (mem # None) <=> wanted
    /\ mem # None => mem.refresh \in honoured \/ Granted
    /\ saver.on \/ file = mem
    /\ saver.on => saver.copy \in {saver.undo, None}
    /\ saver.on /\ mem = saver.copy /\ saver.undo # None => saver.undo.refresh \in honoured \/ Granted

\* The token a request was sent with is the one in memory, or an older one of
\* less than 30 s ago.
Sharing ==
  \A r \in Requests :
    /\ req[r].force \/ req[r].at = "send" => req[r].token # 0
    /\ req[r].at \in {"idle", "done", "failed"} => req[r].token = 0
    /\ req[r].token # 0 /\ ~req[r].late => mem = None \/ mem.access = req[r].token \/ recent
    /\ r \in Refreshing /\ req[r].force /\ ~req[r].late => req[r].old.access = req[r].token

Inv == Types /\ RefreshAlone /\ GrantIsNew /\ LoggedIn /\ Sharing

LEMMA NoneIsKnown == None \in IssuedTokens
  BY DEF IssuedTokens

LEMMA InvInit == Init => Inv
  <1> SUFFICES ASSUME Init PROVE Inv
    OBVIOUS
  <1>1. Pair(1) \in IssuedTokens /\ Pair(1) # None
    BY DEF Init, IssuedTokens, Pair, None
  <1>2. Unsent \in Held
    BY NoneIsKnown DEF Init, Held, Unsent, Places
  <1>3. saver \in [on : BOOLEAN, copy : IssuedTokens, undo : IssuedTokens] /\ ~saver.on
    BY NoneIsKnown DEF Init, NotSaving
  <1>4. recent \in BOOLEAN /\ aging \in BOOLEAN /\ wanted \in BOOLEAN /\ mishap \in BOOLEAN
    BY Zenon DEF Init
  <1>5. Types
    BY <1>1, <1>2, <1>3, <1>4, Bounds DEF Init, Types
  <1>6. \A r \in Requests : req[r] = Unsent
    BY DEF Init
  <1>7. RefreshAlone /\ GrantIsNew /\ Sharing
    BY <1>6 DEF RefreshAlone, Refreshing, GrantIsNew, Sharing, Unsent
  <1>8. LoggedIn
    BY <1>1, <1>3 DEF Init, LoggedIn, Pair
  <1>9. QED
    BY <1>5, <1>7, <1>8 DEF Inv

-----------------------------------------------------------------------------
(* Lemmas about the steps of requests. *)

\* What one request does leaves the others alone.
LEMMA EndFields ==
  ASSUME Types, NEW r \in Requests, NEW at \in Places, End(r, at)
  PROVE  /\ req'[r] = [Unsent EXCEPT !.at = at] /\ req'[r].at = at /\ req'[r] \in Held
         /\ req'[r].token = 0 /\ ~req'[r].force
         /\ req' \in [Requests -> Held]
         /\ \A s \in Requests \ {r} : req'[s] = req[s]
  <1>1. [Unsent EXCEPT !.at = at] \in Held
    <2>1. Unsent \in Held
      BY NoneIsKnown DEF Types, Unsent, Held, Places
    <2>2. QED
      BY <2>1 DEF Held
  <1>2. /\ [Unsent EXCEPT !.at = at].at = at
        /\ [Unsent EXCEPT !.at = at].token = 0 /\ ~[Unsent EXCEPT !.at = at].force
    BY DEF Unsent
  <1>3. req' = [req EXCEPT ![r] = [Unsent EXCEPT !.at = at]]
    BY DEF End
  <1>4. QED
    BY <1>1, <1>2, <1>3 DEF Types

LEMMA SendFields ==
  ASSUME Types, NEW r \in Requests, NEW token \in 0 .. issued, SendWith(r, token)
  PROVE  /\ req'[r].at = "send" /\ req'[r].token = token
         /\ req' \in [Requests -> Held]
         /\ \A s \in Requests \ {r} : req'[s] = req[s]
  BY NoneIsKnown DEF Types, SendWith, Unsent, Held, Places

LEMMA GotoFields ==
  ASSUME Types, NEW r \in Requests, NEW at \in Places, Goto(r, at)
  PROVE  /\ req'[r].at = at /\ req'[r].token = req[r].token
         /\ req'[r].force = req[r].force /\ req'[r].late = req[r].late
         /\ req' \in [Requests -> Held]
         /\ \A s \in Requests \ {r} : req'[s] = req[s]
  BY NoneIsKnown DEF Types, Goto, Held

LEMMA OutdatedFields ==
  ASSUME NEW q \in [Requests -> Held]
  PROVE  /\ Outdated(q) \in [Requests -> Held]
         /\ \A s \in Requests :
              /\ Outdated(q)[s].at = q[s].at /\ Outdated(q)[s].old = q[s].old
              /\ Outdated(q)[s].new = q[s].new /\ Outdated(q)[s].token = q[s].token
              /\ Outdated(q)[s].force = q[s].force
              /\ q[s].token # 0 => Outdated(q)[s].late
  BY DEF Outdated, Held

\* Tokens stay known when others are issued.
LEMMA KnownGrows ==
  ASSUME Types, issued' = issued \/ issued' = issued + 1
  PROVE  IssuedTokens \subseteq IssuedTokens' /\ Held \subseteq Held' /\ honoured \subseteq 1 .. issued'
  <1>1. IssuedTokens \subseteq IssuedTokens'
    BY DEF Types, IssuedTokens
  <1>2. QED
    BY <1>1 DEF Types, Held

\* A credential is none, or has both tokens.
LEMMA Parts ==
  ASSUME Types, NEW c \in IssuedTokens
  PROVE  /\ c.access \in 0 .. issued /\ c.refresh \in 0 .. issued
         /\ c # None => c.access \in 1 .. issued /\ c.refresh \in 1 .. issued
  BY DEF Types, IssuedTokens, None

LEMMA FreshPair ==
  ASSUME Types, issued < MaxTokens, issued' = Fresh
  PROVE  /\ Pair(Fresh) \in IssuedTokens' /\ Pair(Fresh) # None
         /\ issued' \in 1 .. MaxTokens /\ issued' = issued + 1
         /\ \A c \in IssuedTokens : c.access # Fresh /\ c.refresh # Fresh /\ c # Pair(Fresh)
  BY Bounds DEF Types, IssuedTokens, Pair, None, Fresh

\* Where each step of a request takes it, and what stays with it.
LEMMA Steps ==
  ASSUME Types, NEW r \in Requests,
         Resolve(r) \/ Acquire(r) \/ Refuse(r) \/ PostFails(r) \/ Begin(r) \/ Transmit(r)
  PROVE  /\ req' \in [Requests -> Held]
         /\ \A s \in Requests \ {r} : req'[s] = req[s]
         /\ UNCHANGED <<credential, issuer, settings, history>>
         /\ \/ /\ req'[r].at \in {"done", "failed"} /\ req'[r].token = 0 /\ ~req'[r].force
               /\ req[r].at # "granted"
            \/ /\ req'[r].at = "send" /\ req'[r].token = mem.access /\ mem # None
               /\ req[r].at \in {"resolve", "wait"}
            \/ /\ req'[r].at \in {"resolve", "wait"}
               /\ req'[r].token = req[r].token /\ req'[r].late = req[r].late
               /\ (req'[r].force <=> req[r].force \/ req[r].at = "send")
               /\ req[r].at \in {"idle", "resolve", "send"}
            \/ /\ req[r].at = "wait" /\ req'[r].at = "posted" /\ req'[r].old = mem /\ mem # None
               /\ Refreshing = {} /\ (req[r].force => ~recent)
               /\ req'[r].token = req[r].token /\ req'[r].late = req[r].late
               /\ req'[r].force = req[r].force
            \/ /\ req[r].at = "posted" /\ req'[r].at = "refused" /\ req'[r].old = req[r].old
               /\ req[r].old.refresh \notin honoured
               /\ req'[r].token = req[r].token /\ req'[r].late = req[r].late
               /\ req'[r].force = req[r].force
  <1> USE DEF Places
  <1>0. mem \in IssuedTokens /\ mem.access \in 0 .. issued
    BY Parts DEF Types
  <1>1. CASE Resolve(r)
    <2>1. CASE mem = None
      BY <1>1, <2>1, EndFields DEF Resolve
    <2>2. CASE mem # None /\ ~req[r].force /\ ~aging
      BY <1>0, <1>1, <2>2, SendFields DEF Resolve
    <2>3. CASE mem # None /\ ~(~req[r].force /\ ~aging)
      <3>1. Goto(r, "wait") /\ req[r].at = "resolve"
        BY <1>1, <2>3 DEF Resolve
      <3>2. /\ req'[r].at = "wait" /\ req'[r].token = req[r].token /\ req'[r].late = req[r].late
            /\ (req'[r].force <=> req[r].force \/ req[r].at = "send")
            /\ req' \in [Requests -> Held] /\ \A s \in Requests \ {r} : req'[s] = req[s]
        BY <3>1, GotoFields
      <3>3. QED
        BY <1>1, <3>1, <3>2 DEF Resolve
    <2>4. QED
      BY <2>1, <2>2, <2>3
  <1>2. CASE Acquire(r)
    <2>1. CASE mem = None
      BY <1>2, <2>1, EndFields DEF Acquire
    <2>2. CASE mem # None /\ Usable(r)
      BY <1>0, <1>2, <2>2, SendFields DEF Acquire
    <2>3. CASE mem # None /\ ~Usable(r)
      <3>1. req' = [req EXCEPT ![r].at = "posted", ![r].old = mem]
        BY <1>2, <2>3 DEF Acquire
      <3>2. /\ req' \in [Requests -> Held] /\ \A s \in Requests \ {r} : req'[s] = req[s]
            /\ req'[r].at = "posted" /\ req'[r].old = mem
            /\ req'[r].token = req[r].token /\ req'[r].late = req[r].late
            /\ req'[r].force = req[r].force
        BY <1>0, <3>1 DEF Types, Held
      <3>3. QED
        BY <1>2, <2>3, <3>2 DEF Acquire, Usable, LockIsFree
    <2>4. QED
      BY <2>1, <2>2, <2>3
  <1>3. CASE Refuse(r)
    <2>1. /\ req' \in [Requests -> Held] /\ \A s \in Requests \ {r} : req'[s] = req[s]
          /\ req'[r].at = "refused" /\ req'[r].old = req[r].old
          /\ req'[r].token = req[r].token /\ req'[r].late = req[r].late
          /\ req'[r].force = req[r].force
      BY <1>3 DEF Refuse, Types, Held
    <2>2. QED
      BY <1>3, <2>1 DEF Refuse
  <1>4. CASE PostFails(r)
    BY <1>4, EndFields DEF PostFails
  <1>5. CASE Begin(r)
    <2>1. Goto(r, "resolve") /\ req[r].at = "idle"
      BY <1>5 DEF Begin
    <2>2. /\ req'[r].at = "resolve" /\ req'[r].token = req[r].token /\ req'[r].late = req[r].late
          /\ (req'[r].force <=> req[r].force \/ req[r].at = "send")
          /\ req' \in [Requests -> Held] /\ \A s \in Requests \ {r} : req'[s] = req[s]
      BY <2>1, GotoFields
    <2>3. QED
      BY <1>5, <2>1, <2>2 DEF Begin
  <1>6. CASE Sent(r)
    BY <1>6, EndFields DEF Sent
  <1>7. CASE Unauthorized(r)
    <2>1. CASE req[r].force
      BY <1>7, <2>1, EndFields DEF Unauthorized
    <2>2. CASE ~req[r].force
      <3>1. req' = [req EXCEPT ![r].at = "resolve", ![r].force = TRUE]
        BY <1>7, <2>2 DEF Unauthorized
      <3>2. /\ req' \in [Requests -> Held] /\ \A s \in Requests \ {r} : req'[s] = req[s]
            /\ req'[r].at = "resolve" /\ req'[r].force = TRUE
            /\ req'[r].token = req[r].token /\ req'[r].late = req[r].late
        BY <3>1 DEF Types, Held
      <3>3. QED
        BY <1>7, <3>2 DEF Unauthorized
    <2>3. QED
      BY <2>1, <2>2
  <1>8. QED
    BY <1>1, <1>2, <1>3, <1>4, <1>5, <1>6, <1>7 DEF Transmit

-----------------------------------------------------------------------------
(* Steps of requests that change nothing but themselves. *)

LEMMA StepsKeep ==
  ASSUME Inv, NEW r \in Requests,
         Resolve(r) \/ Acquire(r) \/ Refuse(r) \/ PostFails(r) \/ Begin(r) \/ Transmit(r)
  PROVE  Inv'
  <1> USE DEF Inv
  <1>1. /\ req' \in [Requests -> Held]
        /\ \A s \in Requests \ {r} : req'[s] = req[s]
        /\ UNCHANGED <<credential, issuer, settings, history>>
    BY Steps
  <1>2. UNCHANGED <<IssuedTokens, Held>>
    BY <1>1 DEF issuer, IssuedTokens, Held
  <1>3. Types'
    BY <1>1, <1>2 DEF Types, credential, issuer, settings, history
  <1>4. mem # None => mem.access # 0
    BY Parts DEF Types
  <1>5. \A s \in Requests : req'[s].at = "granted" <=> req[s].at = "granted" /\ s # r
    BY Steps
  <1>6. req[r].at = "granted" => FALSE
    BY DEF Resolve, Acquire, Refuse, PostFails, Begin, Transmit, Sent, Unauthorized
  <1>7. GrantIsNew'
    BY <1>1, <1>5 DEF GrantIsNew, credential, issuer, settings, history
  <1>8. LoggedIn'
    <2>1. Granted' <=> Granted
      BY <1>5, <1>6 DEF Granted
    <2>2. QED
      BY <1>1, <2>1 DEF LoggedIn, credential, issuer, settings, history
  <1>9. RefreshAlone'
    <2>1. \A s, t \in Requests : s \in Refreshing' /\ t \in Refreshing' => s = t
      BY <1>1, Steps DEF RefreshAlone, Refreshing
    <2>2. \A s \in Refreshing' : req'[s].old # None
      BY <1>1, Steps DEF RefreshAlone, Refreshing
    <2>3. \A s \in Requests : req'[s].at = "refused" => req'[s].old.refresh \notin honoured
      BY <1>1, Steps DEF RefreshAlone
    <2>4. QED
      BY <1>1, <2>1, <2>2, <2>3 DEF RefreshAlone, Refreshing, issuer
  <1>10. Sharing'
    <2> SUFFICES ASSUME NEW s \in Requests
                 PROVE  /\ req'[s].force \/ req'[s].at = "send" => req'[s].token # 0
                        /\ req'[s].at \in {"idle", "done", "failed"} => req'[s].token = 0
                        /\ req'[s].token # 0 /\ ~req'[s].late =>
                             mem = None \/ mem.access = req'[s].token \/ recent
                        /\ s \in Refreshing' /\ req'[s].force /\ ~req'[s].late =>
                             req'[s].old.access = req'[s].token
      BY <1>1 DEF Sharing, credential
    <2>1. CASE s # r
      BY <1>1, <2>1 DEF Sharing, Refreshing
    <2>2. CASE s = r
      BY <1>4, <2>2, Steps DEF Sharing, Refreshing
    <2>3. QED
      BY <2>1, <2>2
  <1>11. QED
    BY <1>3, <1>7, <1>8, <1>9, <1>10

\* A request that ends while it holds no new credential, or with a mishap.
LEMMA AbortKeeps ==
  ASSUME Inv, NEW r \in Requests, Abort(r)
  PROVE  Inv'
  <1> USE DEF Inv
  <1>1. /\ req' \in [Requests -> Held]
        /\ \A s \in Requests \ {r} : req'[s] = req[s]
        /\ req'[r].at = "failed" /\ req'[r].token = 0 /\ ~req'[r].force
        /\ UNCHANGED <<credential, issuer, settings, wanted>>
        /\ mishap' <=> (mishap \/ req[r].at = "granted")
    BY EndFields DEF Abort, Places
  <1>2. UNCHANGED <<IssuedTokens, Held>>
    BY <1>1 DEF issuer, IssuedTokens, Held
  <1>3. mishap' \in BOOLEAN
    BY Zenon DEF Abort, Types
  <1>4. Types'
    BY <1>1, <1>2, <1>3 DEF Types, credential, issuer, settings
  <1>5. GrantIsNew'
    BY <1>1 DEF GrantIsNew, credential, issuer, settings
  <1>6. LoggedIn'
    BY <1>1 DEF LoggedIn, Granted, credential, issuer, settings
  <1>7. RefreshAlone'
    BY <1>1 DEF RefreshAlone, Refreshing, issuer
  <1>8. Sharing'
    BY <1>1 DEF Sharing, Refreshing, credential
  <1>9. QED
    BY <1>4, <1>5, <1>6, <1>7, <1>8

-----------------------------------------------------------------------------
(* The issuer's answer, and what is made of it. *)

\* What is granted is new to everybody, and accepted.
LEMMA GrantKeeps ==
  ASSUME Inv, NEW r \in Requests, Grant(r)
  PROVE  Inv'
  <1> USE DEF Inv
  <1>1. /\ req[r].at = "posted" /\ req[r].old.refresh \in honoured
        /\ issued < MaxTokens /\ issued' = Fresh
        /\ UNCHANGED <<credential, settings, history>>
    BY DEF Grant
  <1>2. /\ issued' = issued + 1 /\ issued' \in 1 .. MaxTokens
        /\ IssuedTokens \subseteq IssuedTokens' /\ Held \subseteq Held' /\ honoured \subseteq 1 .. issued'
        /\ Pair(Fresh) \in IssuedTokens'
        /\ \A c \in IssuedTokens : c.access # Fresh
    BY <1>1, FreshPair, KnownGrows
  <1>3. PICK new : /\ req' = [req EXCEPT ![r].at = "granted", ![r].new = new]
                   /\ new = Pair(Fresh) \/ new = [req[r].old EXCEPT !.access = Fresh]
                   /\ new.refresh \in honoured'
                   /\ honoured' = honoured \/ honoured' = (honoured \ {req[r].old.refresh}) \union {Fresh}
    <2>1. req[r].old \in IssuedTokens /\ req[r].old # None
      BY <1>1 DEF Types, Held, RefreshAlone, Refreshing
    <2>2. [req[r].old EXCEPT !.access = Fresh].refresh = req[r].old.refresh
      BY <2>1 DEF IssuedTokens
    <2>3. Pair(Fresh).refresh = Fresh
      BY DEF Pair
    <2>4. QED
      BY <1>1, <2>2, <2>3 DEF Grant
  <1>4. new \in IssuedTokens' /\ new.access = Fresh /\ new # None
    <2>1. req[r].old \in IssuedTokens /\ req[r].old # None
      BY <1>1 DEF Types, Held, RefreshAlone, Refreshing
    <2>2. Fresh \in 1 .. issued' /\ Fresh # 0
      BY <1>1, <1>2
    <2>3. [req[r].old EXCEPT !.access = Fresh] \in IssuedTokens'
      BY <1>2, <2>1, <2>2 DEF IssuedTokens, None
    <2>4. QED
      BY <1>2, <1>3, <2>1, <2>2, <2>3 DEF Pair, IssuedTokens, None
  <1>5. /\ req' \in [Requests -> Held']
        /\ \A s \in Requests \ {r} : req'[s] = req[s]
        /\ req'[r].at = "granted" /\ req'[r].new = new /\ req'[r].old = req[r].old
        /\ req'[r].token = req[r].token /\ req'[r].force = req[r].force
        /\ req'[r].late = req[r].late
    <2>1. req \in [Requests -> Held']
      BY <1>2 DEF Types
    <2>2. ASSUME NEW q \in Held'
          PROVE  LET g == [q EXCEPT !.at = "granted", !.new = new] IN
                 /\ g \in Held' /\ g.at = "granted" /\ g.new = new /\ g.old = q.old
                 /\ g.token = q.token /\ g.force = q.force /\ g.late = q.late
      BY <1>4, <2>2 DEF Held, Places
    <2>3. req' = [req EXCEPT ![r] = [req[r] EXCEPT !.at = "granted", !.new = new]]
      BY <1>3
    <2>4. QED
      BY <2>1, <2>2, <2>3
  <1>6. Types'
    <2>1. honoured' \subseteq 1 .. issued'
      BY <1>1, <1>2, <1>3
    <2>2. mem' \in IssuedTokens' /\ file' \in IssuedTokens'
          /\ saver' \in [on : BOOLEAN, copy : IssuedTokens', undo : IssuedTokens']
      BY <1>1, <1>2 DEF Types, credential, settings
    <2>3. QED
      BY <1>1, <1>2, <1>5, <2>1, <2>2 DEF Types, credential, settings, history
  <1>7. \A s \in Requests : s # r => s \notin Refreshing
    BY <1>1 DEF RefreshAlone, Refreshing
  <1>8. RefreshAlone'
    BY <1>5, <1>7, <1>1 DEF RefreshAlone, Refreshing
  <1>9. GrantIsNew'
    <2>1. \A c \in {mem, saver.copy, saver.undo} : c.access # Fresh
      BY <1>2 DEF Types
    <2>2. \A s \in Requests : req'[s].at = "granted" => s = r
      BY <1>5, <1>7 DEF Refreshing
    <2>3. QED
      BY <1>1, <1>3, <1>4, <1>5, <2>1, <2>2 DEF GrantIsNew, credential, settings
  <1>10. LoggedIn'
    <2>1. Granted'
      BY <1>5 DEF Granted
    <2>2. QED
      BY <1>1, <2>1 DEF LoggedIn, credential, settings, history
  <1>11. Sharing'
    BY <1>1, <1>5 DEF Sharing, Refreshing, credential
  <1>12. QED
    BY <1>6, <1>8, <1>9, <1>10, <1>11

\* The new credential is stored for the one it replaces, or with a mishap.
LEMMA StoreKeeps ==
  ASSUME Inv, NEW r \in Requests, Store(r)
  PROVE  Inv'
  <1> USE DEF Inv
  <1>1. /\ req[r].at = "granted"
        /\ mem' = req[r].new /\ file' = req[r].new /\ recent' = TRUE /\ aging' = FALSE
        /\ mishap' <=> (mishap \/ mem # req[r].old)
        /\ UNCHANGED <<issuer, settings, wanted>>
    BY DEF Store
  <1>2. /\ req[r].new \in IssuedTokens /\ req[r].new # None /\ req[r].old # None
        /\ req[r].new.access \in 0 .. issued /\ req[r].new.access # 0
    <2>1. req[r].new \in IssuedTokens
      BY DEF Types, Held
    <2>2. req[r].new # None /\ req[r].old # None
      BY <1>1 DEF GrantIsNew, RefreshAlone, Refreshing
    <2>3. QED
      BY <2>1, <2>2, Parts
  <1>3. /\ req' \in [Requests -> Held]
        /\ \A s \in Requests \ {r} : req'[s] = req[s]
        /\ req'[r].at = "send" /\ req'[r].token = req[r].new.access
    BY <1>2, SendFields DEF Store
  <1>4. UNCHANGED <<IssuedTokens, Held>>
    BY <1>1 DEF issuer, IssuedTokens, Held
  <1>5. mishap' \in BOOLEAN
    BY Zenon DEF Store, Types
  <1>6. Types'
    BY <1>1, <1>2, <1>3, <1>4, <1>5 DEF Types, issuer, settings
  <1>7. \A s \in Requests : s # r => s \notin Refreshing
    BY <1>1 DEF RefreshAlone, Refreshing
  <1>8. RefreshAlone'
    BY <1>1, <1>3, <1>7 DEF RefreshAlone, Refreshing, issuer
  <1>9. GrantIsNew'
    BY <1>3, <1>7 DEF GrantIsNew, Refreshing
  <1>10. LoggedIn'
    <2> SUFFICES ASSUME ~mishap' PROVE LoggedIn'
      BY DEF LoggedIn
    <2>1. mem = req[r].old /\ ~mishap
      BY <1>1
    <2>2. req[r].new.refresh \in honoured /\ req[r].new # saver.copy
      BY <1>1, <2>1 DEF GrantIsNew
    <2>3. QED
      BY <1>1, <1>2, <2>1, <2>2 DEF LoggedIn, issuer, settings
  <1>11. Sharing'
    BY <1>1, <1>2, <1>3, <1>7 DEF Sharing, Refreshing
  <1>12. QED
    BY <1>6, <1>8, <1>9, <1>10, <1>11

LEMMA StoreFailsKeeps ==
  ASSUME Inv, NEW r \in Requests, StoreFails(r)
  PROVE  Inv'
  <1> USE DEF Inv
  <1> DEFINE q == [req EXCEPT ![r] = [Unsent EXCEPT !.at = "failed"]]
  <1>1. /\ req[r].at = "granted"
        /\ mem' = req[r].new /\ aging' = FALSE /\ mishap' = TRUE
        /\ req' = Outdated(q)
        /\ UNCHANGED <<file, recent, issuer, settings, wanted>>
    BY DEF StoreFails
  <1>2. req[r].new \in IssuedTokens
    BY DEF Types, Held
  <1>3. /\ q \in [Requests -> Held] /\ q[r].at = "failed" /\ q[r].token = 0 /\ ~q[r].force
        /\ \A s \in Requests \ {r} : q[s] = req[s]
    <2>1. Unsent \in Held
      BY NoneIsKnown DEF Types, Unsent, Held, Places
    <2>2. [Unsent EXCEPT !.at = "failed"] \in Held
      BY <2>1 DEF Held, Places
    <2>3. /\ [Unsent EXCEPT !.at = "failed"].at = "failed"
          /\ [Unsent EXCEPT !.at = "failed"].token = 0
          /\ ~[Unsent EXCEPT !.at = "failed"].force
      BY DEF Unsent
    <2>4. QED
      BY <2>2, <2>3 DEF Types
  <1> HIDE DEF q
  <1>4. /\ req' \in [Requests -> Held]
        /\ \A s \in Requests :
             /\ req'[s].at = q[s].at /\ req'[s].old = q[s].old /\ req'[s].new = q[s].new
             /\ req'[s].token = q[s].token /\ req'[s].force = q[s].force
             /\ q[s].token # 0 => req'[s].late
    BY <1>1, <1>3, OutdatedFields
  <1>5. UNCHANGED <<IssuedTokens, Held>>
    BY <1>1 DEF issuer, IssuedTokens, Held
  <1>6. Types'
    BY <1>1, <1>2, <1>4, <1>5 DEF Types, issuer, settings
  <1>7. \A s \in Requests : s # r => s \notin Refreshing
    BY <1>1 DEF RefreshAlone, Refreshing
  <1>8. RefreshAlone'
    BY <1>1, <1>3, <1>4, <1>7 DEF RefreshAlone, Refreshing, issuer
  <1>9. GrantIsNew'
    BY <1>3, <1>4, <1>7 DEF GrantIsNew, Refreshing
  <1>10. LoggedIn'
    BY <1>1 DEF LoggedIn
  <1>11. Sharing'
    BY <1>3, <1>4 DEF Sharing, Refreshing
  <1>12. QED
    BY <1>6, <1>8, <1>9, <1>10, <1>11

\* What is refused is not in memory any more, unless there was a mishap.
LEMMA ClearKeeps ==
  ASSUME Inv, NEW r \in Requests, Clear(r)
  PROVE  Inv'
  <1> USE DEF Inv
  <1>1. /\ req[r].at = "refused" /\ mem' = None /\ file' \in {None, file}
        /\ mishap' <=> (mishap \/ mem # req[r].old \/ file' # None)
        /\ UNCHANGED <<recent, aging, issuer, settings, wanted>>
    BY DEF Clear
  <1>2. /\ req' \in [Requests -> Held]
        /\ \A s \in Requests \ {r} : req'[s] = req[s]
        /\ req'[r].at = "failed" /\ req'[r].token = 0 /\ ~req'[r].force
    BY EndFields DEF Clear, Places
  <1>3. UNCHANGED <<IssuedTokens, Held>>
    BY <1>1 DEF issuer, IssuedTokens, Held
  <1>4. mishap' \in BOOLEAN
    BY Zenon DEF Clear, Types
  <1>5. Types'
    BY <1>1, <1>2, <1>3, <1>4, NoneIsKnown DEF Types, issuer, settings
  <1>6. \A s \in Requests : s # r => s \notin Refreshing
    BY <1>1 DEF RefreshAlone, Refreshing
  <1>7. RefreshAlone'
    BY <1>1, <1>2, <1>6 DEF RefreshAlone, Refreshing, issuer
  <1>8. GrantIsNew'
    BY <1>2, <1>6 DEF GrantIsNew, Refreshing
  <1>9. mishap'
    <2>1. ~Granted
      BY <1>1, <1>6 DEF Granted, Refreshing
    <2>2. req[r].old # None /\ req[r].old.refresh \notin honoured
      BY <1>1 DEF RefreshAlone, Refreshing
    <2>3. QED
      BY <1>1, <2>1, <2>2 DEF LoggedIn
  <1>10. LoggedIn'
    BY <1>9 DEF LoggedIn
  <1>11. Sharing'
    BY <1>1, <1>2, <1>6 DEF Sharing, Refreshing
  <1>12. QED
    BY <1>5, <1>7, <1>8, <1>10, <1>11

-----------------------------------------------------------------------------
(* Login and logout, settings, other processes, time. *)

\* Requests that only become outdated keep their places.
LEMMA OutdatedKeeps ==
  ASSUME Inv, req' = Outdated(req)
  PROVE  /\ req' \in [Requests -> Held]
         /\ Refreshing' = Refreshing /\ (Granted' <=> Granted)
         /\ Refreshing \subseteq Requests
         /\ \A s \in Requests :
              /\ req'[s].at = req[s].at /\ req'[s].old = req[s].old /\ req'[s].new = req[s].new
              /\ req'[s].token = req[s].token
         /\ Sharing'
  <1>1. req \in [Requests -> Held]
    BY DEF Inv, Types
  <1>2. /\ req' \in [Requests -> Held]
        /\ \A s \in Requests :
             /\ req'[s].at = req[s].at /\ req'[s].old = req[s].old /\ req'[s].new = req[s].new
             /\ req'[s].token = req[s].token /\ req'[s].force = req[s].force
             /\ req[s].token # 0 => req'[s].late
    BY <1>1, OutdatedFields
  <1>3. Sharing'
    BY <1>2 DEF Inv, Sharing
  <1>4. QED
    BY <1>2, <1>3 DEF Refreshing, Granted

LEMMA LoginKeeps ==
  ASSUME Inv, Login
  PROVE  Inv'
  <1> USE DEF Inv
  <1>1. /\ issued < MaxTokens /\ issued' = Fresh /\ honoured' = honoured \union {Fresh}
        /\ mem' = Pair(Fresh) /\ file' \in {Pair(Fresh), file} /\ aging' = FALSE /\ wanted' = TRUE
        /\ mishap' <=> (mishap \/ file' # Pair(Fresh))
        /\ req' = Outdated(req)
        /\ UNCHANGED <<recent, settings>>
    BY DEF Login
  <1>2. /\ issued' = issued + 1 /\ issued' \in 1 .. MaxTokens
        /\ IssuedTokens \subseteq IssuedTokens' /\ Held \subseteq Held' /\ honoured \subseteq 1 .. issued'
        /\ Pair(Fresh) \in IssuedTokens' /\ Pair(Fresh) # None
        /\ \A c \in IssuedTokens : c.access # Fresh /\ c.refresh # Fresh /\ c # Pair(Fresh)
    BY <1>1, FreshPair, KnownGrows
  <1>3. Pair(Fresh).refresh = Fresh /\ Pair(Fresh).access = Fresh
    BY DEF Pair
  <1>4. Types'
    <2>1. honoured' \subseteq 1 .. issued'
      BY <1>1, <1>2 DEF Fresh, Types
    <2>2. req' \in [Requests -> Held']
      BY <1>1, <1>2, OutdatedKeeps
    <2>3. saver' \in [on : BOOLEAN, copy : IssuedTokens', undo : IssuedTokens']
      BY <1>1, <1>2 DEF Types, settings
    <2>4. mishap' \in BOOLEAN
      BY Zenon DEF Login, Types
    <2>5. QED
      BY <1>1, <1>2, <2>1, <2>2, <2>3, <2>4 DEF Types, settings
  <1>5. RefreshAlone'
    <2>1. \A r \in Requests : req[r].old.refresh # Fresh
      BY <1>2 DEF Types, Held
    <2>2. QED
      BY <1>1, <2>1, OutdatedKeeps DEF RefreshAlone
  <1>6. GrantIsNew'
    <2>1. \A r \in Requests : req[r].new.access # Fresh
      BY <1>2 DEF Types, Held
    <2>2. QED
      BY <1>1, <1>3, <2>1, OutdatedKeeps DEF GrantIsNew, settings
  <1>7. LoggedIn'
    <2>1. saver.copy # Pair(Fresh)
      BY <1>2 DEF Types
    <2>2. QED
      BY <1>1, <1>2, <1>3, <2>1 DEF LoggedIn, settings
  <1>8. QED
    BY <1>1, <1>4, <1>5, <1>6, <1>7, OutdatedKeeps

LEMMA SaveBeginsKeeps ==
  ASSUME Inv, SaveBegins
  PROVE  Inv'
  <1> USE DEF Inv
  <1>1. /\ ~saver.on /\ saves' = saves + 1 /\ saves < MaxSaves
        /\ (mem' = mem /\ wanted' = wanted) \/ (mem' = None /\ wanted' = FALSE)
        /\ saver' = [on |-> TRUE, copy |-> mem', undo |-> mem]
        /\ UNCHANGED <<req, file, recent, aging, issuer, mishap>>
    BY DEF SaveBegins
  <1>2. UNCHANGED <<IssuedTokens, Held>>
    BY <1>1 DEF issuer, IssuedTokens, Held
  <1>3. mem' \in IssuedTokens /\ mem \in IssuedTokens
    BY <1>1, NoneIsKnown DEF Types
  <1>4. saver' \in [on : BOOLEAN, copy : IssuedTokens, undo : IssuedTokens]
    BY <1>1, <1>3
  <1>5. Types'
    <2>1. saves' \in 0 .. MaxSaves
      BY <1>1, Bounds DEF Types
    <2>2. wanted' \in BOOLEAN
      BY <1>1, Zenon DEF Types
    <2>3. QED
      BY <1>1, <1>2, <1>3, <1>4, <2>1, <2>2 DEF Types, issuer
  <1>6. RefreshAlone'
    BY <1>1 DEF RefreshAlone, Refreshing, issuer
  <1>7. GrantIsNew'
    <2>1. ASSUME NEW r \in Requests, req[r].at = "granted" PROVE req[r].new.access # None.access
      BY <2>1, Parts DEF Types, Held, GrantIsNew, None
    <2>2. QED
      BY <1>1, <2>1 DEF GrantIsNew, issuer
  <1>8. LoggedIn'
    BY <1>1 DEF LoggedIn, Granted, issuer
  <1>9. Sharing'
    BY <1>1 DEF Sharing, Refreshing
  <1>10. QED
    BY <1>5, <1>6, <1>7, <1>8, <1>9

LEMMA SaveEndsKeeps ==
  ASSUME Inv, SaveEnds
  PROVE  Inv'
  <1> USE DEF Inv
  <1>1. /\ saver.on /\ file' = saver.copy /\ saver' = NotSaving
        /\ mishap' <=> (mishap \/ mem # saver.copy)
        /\ UNCHANGED <<req, mem, recent, aging, issuer, saves, wanted>>
    BY DEF SaveEnds
  <1>2. UNCHANGED <<IssuedTokens, Held>>
    BY <1>1 DEF issuer, IssuedTokens, Held
  <1>3. /\ saver' \in [on : BOOLEAN, copy : IssuedTokens, undo : IssuedTokens]
        /\ ~saver'.on /\ saver'.copy = None /\ saver'.undo = None
    BY <1>1, NoneIsKnown DEF NotSaving
  <1>4. mishap' \in BOOLEAN
    BY Zenon DEF SaveEnds, Types
  <1>5. Types'
    BY <1>1, <1>2, <1>3, <1>4 DEF Types, issuer
  <1>6. RefreshAlone' /\ Sharing'
    BY <1>1 DEF RefreshAlone, Sharing, Refreshing, issuer
  <1>7. GrantIsNew'
    <2>1. ASSUME NEW r \in Requests, req[r].at = "granted" PROVE req[r].new.access # None.access
      BY <2>1, Parts DEF Types, Held, GrantIsNew, None
    <2>2. QED
      BY <1>1, <1>3, <2>1 DEF GrantIsNew, issuer
  <1>8. LoggedIn'
    BY <1>1, <1>3 DEF LoggedIn, Granted, issuer
  <1>9. QED
    BY <1>5, <1>6, <1>7, <1>8

LEMMA SaveFailsKeeps ==
  ASSUME Inv, SaveFails
  PROVE  Inv'
  <1> USE DEF Inv
  <1>1. /\ saver.on /\ mem' \in {mem, saver.undo} /\ saver' = NotSaving
        /\ mishap' <=> (mishap \/ mem # saver.copy \/ mem' # file)
        /\ wanted' <=> (wanted \/ (mem' = saver.undo /\ mem' # None))
        /\ (mem' = mem /\ req' = req) \/ (mem' # mem /\ req' = Outdated(req))
        /\ UNCHANGED <<file, recent, aging, issuer, saves>>
    BY DEF SaveFails
  <1>2. UNCHANGED <<IssuedTokens, Held>>
    BY <1>1 DEF issuer, IssuedTokens, Held
  <1>3. /\ saver' \in [on : BOOLEAN, copy : IssuedTokens, undo : IssuedTokens]
        /\ ~saver'.on /\ saver'.copy = None /\ saver'.undo = None
    BY <1>1, NoneIsKnown DEF NotSaving
  <1>4. mishap' \in BOOLEAN /\ wanted' \in BOOLEAN
    BY Zenon DEF SaveFails, Types
  <1>5. /\ req' \in [Requests -> Held]
        /\ Refreshing' = Refreshing /\ (Granted' <=> Granted)
        /\ Refreshing \subseteq Requests
        /\ \A s \in Requests :
             /\ req'[s].at = req[s].at /\ req'[s].old = req[s].old /\ req'[s].new = req[s].new
             /\ req'[s].token = req[s].token
        /\ Sharing'
    <2>1. CASE mem' = mem /\ req' = req
      BY <1>1, <2>1 DEF Types, Refreshing, Granted, Sharing
    <2>2. CASE req' = Outdated(req)
      BY <2>2, OutdatedKeeps
    <2>3. QED
      BY <1>1, <2>1, <2>2
  <1>6. mem' \in IssuedTokens
    BY <1>1 DEF Types
  <1>7. Types'
    BY <1>1, <1>2, <1>3, <1>4, <1>5, <1>6 DEF Types, issuer
  <1>8. RefreshAlone'
    BY <1>1, <1>5 DEF RefreshAlone, issuer
  <1>9. GrantIsNew'
    <2>1. ASSUME NEW r \in Requests, req[r].at = "granted" PROVE req[r].new.access # None.access
      BY <2>1, Parts DEF Types, Held, GrantIsNew, None
    <2>2. QED
      BY <1>1, <1>3, <1>5, <2>1 DEF GrantIsNew, issuer
  <1>10. LoggedIn'
    <2> SUFFICES ASSUME ~mishap' PROVE LoggedIn'
      BY DEF LoggedIn
    <2>1. ~mishap /\ mem = saver.copy /\ mem' = file
      BY <1>1
    <2>2. mem' # None <=> wanted'
      BY <1>1, <2>1 DEF LoggedIn
    <2>3. mem' # None => mem'.refresh \in honoured \/ Granted
      BY <1>1, <2>1 DEF LoggedIn
    <2>4. QED
      BY <1>1, <1>3, <1>5, <2>1, <2>2, <2>3 DEF LoggedIn, issuer
  <1>11. QED
    BY <1>5, <1>7, <1>8, <1>9, <1>10

\* Another process logs out.
LEMMA RemovedElsewhere ==
  ASSUME Inv, file' = None, mishap' = TRUE,
         UNCHANGED <<issuer, req, mem, recent, aging, settings, wanted>>
  PROVE  Inv'
  <1> USE DEF Inv
  <1>1. UNCHANGED <<IssuedTokens, Held>>
    BY DEF issuer, IssuedTokens, Held
  <1>2. Types'
    BY <1>1, NoneIsKnown DEF Types, issuer, settings
  <1>3. RefreshAlone' /\ GrantIsNew' /\ LoggedIn' /\ Sharing'
    BY DEF RefreshAlone, GrantIsNew, LoggedIn, Sharing, Refreshing, issuer, settings
  <1>4. QED
    BY <1>2, <1>3

\* It refreshes or logs in.
LEMMA GrantedElsewhere ==
  ASSUME Inv, Elsewhere, file' # None
  PROVE  Inv'
  <1> USE DEF Inv
  <1>1. /\ issued < MaxTokens /\ issued' = Fresh
        /\ honoured' \subseteq honoured \union {Fresh}
        /\ file' = Pair(Fresh) /\ mishap' = TRUE
        /\ UNCHANGED <<req, mem, recent, aging, settings, wanted>>
    BY DEF Elsewhere
  <1>2. /\ issued' = issued + 1 /\ issued' \in 1 .. MaxTokens
        /\ IssuedTokens \subseteq IssuedTokens' /\ Held \subseteq Held' /\ honoured \subseteq 1 .. issued'
        /\ Pair(Fresh) \in IssuedTokens'
        /\ \A c \in IssuedTokens : c.refresh # Fresh
    BY <1>1, FreshPair, KnownGrows
  <1>3. Types'
    <2>1. honoured' \subseteq 1 .. issued'
      <3>1. Fresh \in 1 .. issued'
        BY <1>1, <1>2
      <3>2. QED
        BY <1>1, <1>2, <3>1
    <2>2. saver' \in [on : BOOLEAN, copy : IssuedTokens', undo : IssuedTokens']
      BY <1>1, <1>2 DEF Types, settings
    <2>3. QED
      BY <1>1, <1>2, <2>1, <2>2 DEF Types, settings
  <1>4. RefreshAlone'
    <2>1. \A r \in Requests : req[r].old.refresh # Fresh
      BY <1>2 DEF Types, Held
    <2>2. QED
      BY <1>1, <2>1 DEF RefreshAlone, Refreshing
  <1>5. GrantIsNew' /\ LoggedIn' /\ Sharing'
    BY <1>1 DEF GrantIsNew, LoggedIn, Sharing, Refreshing, settings
  <1>6. QED
    BY <1>3, <1>4, <1>5

LEMMA ElsewhereKeeps ==
  ASSUME Inv, Elsewhere
  PROVE  Inv'
  <1>1. CASE file' = None
    <2>1. mishap' = TRUE /\ UNCHANGED <<issuer, req, mem, recent, aging, settings, wanted>>
      BY <1>1 DEF Elsewhere, Pair, None, Fresh, Inv, Types
    <2>2. QED
      BY <1>1, <2>1, RemovedElsewhere
  <1>2. CASE file' # None
    BY <1>2, GrantedElsewhere
  <1>3. QED
    BY <1>1, <1>2

LEMMA RestartKeeps ==
  ASSUME Inv, Restart
  PROVE  Inv'
  <1> USE DEF Inv
  <1>1. /\ mem' = file /\ recent' = FALSE /\ saver' = NotSaving
        /\ mishap' <=> (mishap \/ saver.on \/ Granted)
        /\ UNCHANGED <<file, aging, issuer, saves, wanted>>
    BY DEF Restart, Granted
  <1>2. UNCHANGED <<IssuedTokens, Held>>
    BY <1>1 DEF issuer, IssuedTokens, Held
  <1>3. /\ saver' \in [on : BOOLEAN, copy : IssuedTokens, undo : IssuedTokens]
        /\ ~saver'.on
    BY <1>1, NoneIsKnown DEF NotSaving
  <1>4. mishap' \in BOOLEAN
    BY Zenon DEF Restart, Types
  <1>5. /\ req' \in [Requests -> Held]
        /\ \A s \in Requests : /\ req'[s].at \in {"idle", "done", "failed"}
                               /\ req'[s].token = 0 /\ ~req'[s].force
    <2>1. Unsent \in Held
      BY NoneIsKnown DEF Types, Unsent, Held, Places
    <2>2. [Unsent EXCEPT !.at = "failed"] \in Held
      BY <2>1 DEF Held, Places
    <2>3. /\ [Unsent EXCEPT !.at = "failed"].at = "failed"
          /\ [Unsent EXCEPT !.at = "failed"].token = 0
          /\ ~[Unsent EXCEPT !.at = "failed"].force
      BY DEF Unsent
    <2>4. QED
      BY <2>2, <2>3 DEF Restart, UnderWay, Types, Sharing
  <1>6. Types'
    BY <1>1, <1>2, <1>3, <1>4, <1>5 DEF Types, issuer
  <1>7. RefreshAlone' /\ GrantIsNew' /\ Sharing'
    BY <1>5 DEF RefreshAlone, GrantIsNew, Sharing, Refreshing
  <1>8. LoggedIn'
    BY <1>1, <1>3 DEF LoggedIn, issuer
  <1>9. QED
    BY <1>6, <1>7, <1>8

LEMMA TimeKeeps ==
  ASSUME Inv, ThirtySecondsPass \/ TokenAges
  PROVE  Inv'
  <1> USE DEF Inv
  <1>1. CASE ThirtySecondsPass
    <2>1. /\ recent' = FALSE /\ req' = Outdated(req)
          /\ UNCHANGED <<mem, file, aging, issuer, settings, wanted, mishap>>
      BY <1>1 DEF ThirtySecondsPass
    <2>2. UNCHANGED <<IssuedTokens, Held>>
      BY <2>1 DEF issuer, IssuedTokens, Held
    <2>3. Types'
      BY <2>1, <2>2, OutdatedKeeps DEF Types, issuer, settings
    <2>4. RefreshAlone' /\ GrantIsNew' /\ LoggedIn' /\ Sharing'
      BY <2>1, OutdatedKeeps, Zenon DEF RefreshAlone, GrantIsNew, LoggedIn, issuer, settings
    <2>5. QED
      BY <2>3, <2>4
  <1>2. CASE TokenAges
    <2>1. /\ aging' = TRUE
          /\ UNCHANGED <<req, mem, file, recent, issuer, settings, history>>
      BY <1>2 DEF TokenAges
    <2>2. UNCHANGED <<IssuedTokens, Held>>
      BY <2>1 DEF issuer, IssuedTokens, Held
    <2>3. Types'
      BY <2>1, <2>2 DEF Types, issuer, settings, history
    <2>4. RefreshAlone' /\ GrantIsNew' /\ LoggedIn' /\ Sharing'
      BY <2>1 DEF RefreshAlone, Refreshing, GrantIsNew, LoggedIn, Granted, Sharing, issuer, settings, history
    <2>5. QED
      BY <2>3, <2>4
  <1>3. QED
    BY <1>1, <1>2

-----------------------------------------------------------------------------
LEMMA InvNext == Inv /\ [Next]_vars => Inv'
  <1> SUFFICES ASSUME Inv, [Next]_vars PROVE Inv'
    OBVIOUS
  <1>1. CASE \E r \in Requests : Begin(r) \/ Authorize(r) \/ Transmit(r) \/ Abort(r)
    BY <1>1, StepsKeep, AbortKeeps, GrantKeeps, StoreKeeps, StoreFailsKeeps, ClearKeeps DEF Authorize
  <1>2. CASE Login \/ SaveBegins \/ SaveEnds \/ SaveFails
    BY <1>2, LoginKeeps, SaveBeginsKeeps, SaveEndsKeeps, SaveFailsKeeps
  <1>3. CASE Elsewhere \/ Restart \/ ThirtySecondsPass \/ TokenAges
    BY <1>3, ElsewhereKeeps, RestartKeeps, TimeKeeps
  <1>4. CASE UNCHANGED vars
    BY <1>4 DEF vars, credential, issuer, settings, history, Inv, Types, IssuedTokens, Held, RefreshAlone,
                Refreshing, GrantIsNew, LoggedIn, Granted, Sharing
  <1>5. QED
    BY <1>1, <1>2, <1>3, <1>4 DEF Next

LEMMA InvAlways == Spec => []Inv
  BY InvInit, InvNext, PTL DEF Spec

\* Type correctness.
THEOREM TypeCorrect == Spec => []TypeOK
  <1>1. Inv => TypeOK
    <2> SUFFICES ASSUME Inv PROVE TypeOK
      OBVIOUS
    <2>1. 1 .. issued \subseteq Tokens /\ 0 .. issued \subseteq Tokens /\ 0 \in Tokens
      BY Bounds DEF Inv, Types, Tokens
    <2>2. IssuedTokens \subseteq Credential
      BY <2>1 DEF IssuedTokens, Credential, None
    <2>3. Held \subseteq Request
      BY <2>1, <2>2 DEF Held, Request
    <2>4. {recent, aging, wanted, mishap} \subseteq BOOLEAN
      BY Zenon DEF Inv, Types
    <2>5. QED
      BY <2>1, <2>2, <2>3, <2>4 DEF Inv, Types, TypeOK, Tokens
  <1>2. QED
    BY InvAlways, <1>1, PTL

\* Without a mishap who has logged in stays so: no refresh, cancelled request,
\* restart or settings change loses the credential or leaves a refused one in
\* memory (resolve_inner, store_credential, save_auth).
THEOREM LoginIsKept == Spec => []StaysLoggedIn
  <1>1. Inv => StaysLoggedIn
    BY DEF Inv, LoggedIn, Granted, StaysLoggedIn
  <1>2. QED
    BY InvAlways, <1>1, PTL

\* Of the requests that are refused with one token, one refreshes it.
THEOREM RefreshIsShared == Spec => []OneRefreshForARefusal
  <1>1. Inv => OneRefreshForARefusal
    BY DEF Inv, Sharing, OneRefreshForARefusal, Refreshing
  <1>2. QED
    BY InvAlways, <1>1, PTL

-----------------------------------------------------------------------------
(* The inductive invariant of McpRegistry. *)

\* A specification is written by one command each.
McpNumbered == server.spec \in 1 .. commands + 1

\* What commands and calls under way hold is there, and it is of the present
\* specification as long as none has crossed them.
McpHeld ==
  /\ \A k \in Tasks :
       /\ task[k].at = "connect" => task[k].spec # Nothing
       /\ task[k].at = "discover" => task[k].client # NoClient
  /\ \A c \in Callers : call[c].at = "calling" => call[c].client # NoClient

McpCurrent ==
  ~crossed =>
    /\ \A k \in Tasks :
         /\ task[k].at = "connect" => task[k].spec = server.spec /\ ~server.disabled
         /\ task[k].at = "discover" => task[k].client.spec = server.spec /\ ~server.disabled
    /\ \A c \in Callers :
         /\ call[c].at # "idle" => call[c].tools = server.spec
         /\ call[c].at = "calling" => call[c].client.spec = server.spec
    /\ server.status = "connected" => server.tools = server.spec /\ ~server.disabled
    /\ server.client # NoClient => server.status = "connected" /\ server.client.spec = server.spec

\* A closed client in the entry, or one a call may put there, is accounted for.
McpBroken == ~broken => ~server.client.closed /\ \A c \in Callers : ~call[c].client.closed

McpUsable == McpBroken /\ ConnectedHasClient

McpInv == McpTypeOK /\ McpNumbered /\ McpHeld /\ McpCurrent /\ McpUsable

LEMMA McpNumbers ==
  /\ Nothing \in Specs /\ 1 \in Specs
  /\ NoClient \in Clients /\ NoClient.closed = FALSE
  BY McpBounds DEF Specs, Nothing, Clients, NoClient

LEMMA McpInvInit == McpInit => McpInv
  <1> SUFFICES ASSUME McpInit PROVE McpInv
    OBVIOUS
  <1>1. McpTypeOK
    <2>1. server \in Server
      BY McpNumbers DEF McpInit, Server, Status
    <2>2. task \in [Tasks -> Task] /\ call \in [Callers -> Call]
      BY McpNumbers DEF McpInit, Task, Idle, Call, NoCall
    <2>3. {crossed, lost, broken, abandoned} \subseteq BOOLEAN
      BY Zenon DEF McpInit
    <2>4. commands \in 0 .. MaxCommands /\ calls \in 0 .. MaxCalls
      BY McpBounds DEF McpInit
    <2>5. QED
      BY <2>1, <2>2, <2>3, <2>4 DEF McpTypeOK
  <1>2. McpNumbered /\ McpHeld /\ McpCurrent /\ McpUsable
    BY McpNumbers DEF McpInit, McpNumbered, McpHeld, McpCurrent, McpUsable, McpBroken,
                      ConnectedHasClient, Idle, NoCall, Nothing
  <1>3. QED
    BY <1>1, <1>2 DEF McpInv

-----------------------------------------------------------------------------
(* Type correctness. *)

LEMMA FollowType ==
  ASSUME McpTypeOK, NEW k \in Tasks, NEW next \in {"idle", "refresh", "disconnect"}, Follow(k, next)
  PROVE  task' \in [Tasks -> Task]
  BY McpNumbers DEF McpTypeOK, Follow, Task, Idle

LEMMA EnterType ==
  ASSUME McpTypeOK, NEW k \in Tasks, NEW at, Enter(k, at) \/ BeginCommand(k) \/ Resume(k, at)
  PROVE  commands' \in 0 .. MaxCommands /\ commands' >= commands
  BY McpBounds DEF McpTypeOK, Enter, BeginCommand, Resume

\* Commands keep the types, and number the specifications.
LEMMA CommandType ==
  ASSUME McpTypeOK, McpNumbered, NEW k \in Tasks, Command(k)
  PROVE  McpTypeOK' /\ McpNumbered'
  <1> USE McpBounds
  <1>1. CASE Upsert(k)
    <2>1. commands' = commands + 1 /\ commands < MaxCommands
      BY <1>1 DEF Upsert, BeginCommand
    <2>2. PICK disabled \in BOOLEAN, next \in {"idle", "refresh", "disconnect"} :
            /\ server' = [status |-> "disconnected", spec |-> server.spec + 1,
                          disabled |-> disabled, client |-> NoClient, tools |-> Nothing]
            /\ task' = [task EXCEPT ![k] = IF disabled THEN [Idle EXCEPT !.at = next]
                                           ELSE [Idle EXCEPT !.at = "refresh", !.next = next]]
      BY <1>1 DEF Upsert, Respecify
    <2>3. server.spec \in 1 .. commands + 1 /\ commands \in 0 .. MaxCommands
      BY DEF McpNumbered, McpTypeOK
    <2>4. server' \in Server /\ McpNumbered'
      BY <2>1, <2>2, <2>3, McpNumbers DEF Server, Status, Specs, Nothing, McpNumbered
    <2>5. task' \in [Tasks -> Task]
      BY <2>2, McpNumbers DEF McpTypeOK, Task, Idle
    <2>6. QED
      BY <1>1, <2>1, <2>4, <2>5 DEF Upsert, McpTypeOK
  <1>2. CASE Remove(k)
    <2>1. task' \in [Tasks -> Task]
      BY <1>2, FollowType DEF Remove, EndCommand
    <2>2. server' \in Server /\ server'.spec = server.spec
      BY <1>2, McpNumbers DEF Remove, McpTypeOK, Server, Status
    <2>3. QED
      BY <1>2, <2>1, <2>2, EnterType DEF Remove, McpTypeOK, McpNumbered, mcpHistory
  <1>3. CASE Toggle(k)
    <2>1. task' \in [Tasks -> Task]
      BY <1>3, FollowType DEF Toggle
    <2>2. QED
      BY <1>3, <2>1, EnterType DEF Toggle, McpTypeOK, McpNumbered, mcpHistory
  <1>4. CASE Disconnect(k)
    <2>1. task' \in [Tasks -> Task]
      BY <1>4, FollowType DEF Disconnect, EndCommand
    <2>2. server' \in Server /\ server'.spec = server.spec
      BY <1>4, McpNumbers DEF Disconnect, McpTypeOK, Server, Status
    <2>3. QED
      BY <1>4, <2>1, <2>2, EnterType DEF Disconnect, McpTypeOK, McpNumbered, mcpHistory
  <1>5. CASE Refresh(k)
    <2>0. task[k] \in Task /\ server.spec \in Specs /\ server.client \in Clients
      BY DEF McpTypeOK, Server
    <2>1. task' \in [Tasks -> Task]
      <3>1. CASE server.client = NoClient \/ server.client.closed
        BY <1>5, <2>0, <3>1 DEF Refresh, McpTypeOK, Task
      <3>2. CASE ~(server.client = NoClient \/ server.client.closed)
        BY <1>5, <2>0, <3>2 DEF Refresh, McpTypeOK, Task
      <3>3. QED
        BY <3>1, <3>2
    <2>2. server' \in Server /\ server'.spec = server.spec
      BY <1>5, McpNumbers DEF Refresh, McpTypeOK, Server, Status
    <2>3. QED
      BY <1>5, <2>1, <2>2, EnterType DEF Refresh, McpTypeOK, McpNumbered, mcpHistory
  <1>6. CASE RefreshUnknown(k)
    <2>1. task' \in [Tasks -> Task]
      BY <1>6, FollowType DEF RefreshUnknown, EndCommand
    <2>2. QED
      BY <1>6, <2>1, EnterType DEF RefreshUnknown, McpTypeOK, McpNumbered, mcpHistory
  <1>7. CASE Connect(k)
    <2>1. task' \in [Tasks -> Task]
      <3>1. task[k].spec \in Specs
        BY DEF McpTypeOK, Task
      <3>2. [spec |-> task[k].spec, closed |-> FALSE] \in Clients
        BY <3>1 DEF Clients
      <3>3. QED
        BY <1>7, <3>2 DEF Connect, McpTypeOK, Task
    <2>2. QED
      BY <1>7, <2>1, EnterType DEF Connect, McpTypeOK, McpNumbered, mcpHistory
  <1>8. CASE ConnectFails(k) \/ DiscoveryFails(k)
    <2>1. task' \in [Tasks -> Task]
      BY <1>8, FollowType DEF ConnectFails, DiscoveryFails, Fails, EndCommand
    <2>2. server' \in Server /\ server'.spec = server.spec
      BY <1>8, McpNumbers DEF ConnectFails, DiscoveryFails, Fails, McpTypeOK, Server, Status
    <2>3. QED
      BY <1>8, <2>1, <2>2, EnterType DEF ConnectFails, DiscoveryFails, Fails, McpTypeOK, McpNumbered, mcpHistory
  <1>9. CASE StoreConnection(k)
    <2>1. task[k].next \in {"idle", "refresh", "disconnect"} /\ task[k].client \in Clients
      BY DEF McpTypeOK, Task
    <2>2. task' \in [Tasks -> Task]
      BY <1>9, <2>1, FollowType DEF StoreConnection
    <2>3. server' \in Server /\ server'.spec = server.spec
      BY <1>9, <2>1 DEF StoreConnection, McpTypeOK, Server, Status, Clients
    <2>4. {crossed', lost', broken', abandoned'} \subseteq BOOLEAN
      BY <1>9, Zenon DEF StoreConnection, McpTypeOK
    <2>5. QED
      BY <1>9, <2>2, <2>3, <2>4, EnterType DEF StoreConnection, McpTypeOK, McpNumbered
  <1>10. CASE Abandon(k)
    <2>1. task' \in [Tasks -> Task]
      BY <1>10, FollowType DEF Abandon, EndCommand
    <2>2. QED
      BY <1>10, <2>1 DEF Abandon, McpTypeOK, McpNumbered
  <1>11. QED
    BY <1>1, <1>2, <1>3, <1>4, <1>5, <1>6, <1>7, <1>8, <1>9, <1>10 DEF Command, Run

\* So do calls.
LEMMA CallType ==
  ASSUME McpTypeOK, McpNumbered, NEW c \in Callers, ToolCall(c)
  PROVE  McpTypeOK' /\ McpNumbered'
  <1> USE McpBounds
  <1>1. server' \in Server /\ server'.spec = server.spec
    <2>1. call[c].client \in Clients
      BY DEF McpTypeOK, Call
    <2>2. QED
      BY <2>1, McpNumbers
      DEF ToolCall, Find, Take, NotConnected, Restore, AbortCall, McpTypeOK, Server
  <1>2. call' \in [Callers -> Call]
    <2>1. NoCall \in Call /\ server.client \in Clients /\ server.tools \in Specs
      BY McpNumbers DEF NoCall, Call, McpTypeOK, Server
    <2>2. [at |-> "found", tools |-> server.tools, client |-> NoClient] \in Call
      BY <2>1, McpNumbers DEF Call
    <2>3. ASSUME Take(c) PROVE call' \in [Callers -> Call]
      BY <2>1, <2>3 DEF Take, McpTypeOK, Call
    <2>4. QED
      BY <2>1, <2>2, <2>3 DEF ToolCall, Find, NotConnected, Restore, AbortCall, McpTypeOK
  <1>3. calls' \in 0 .. MaxCalls /\ UNCHANGED <<task, commands>>
    BY DEF ToolCall, Find, Take, NotConnected, Restore, AbortCall, McpTypeOK
  <1>4. {crossed', lost', broken', abandoned'} \subseteq BOOLEAN
    BY DEF ToolCall, Find, Take, NotConnected, Restore, AbortCall, McpTypeOK, mcpHistory
  <1>5. QED
    BY <1>1, <1>2, <1>3, <1>4 DEF McpTypeOK, McpNumbered

-----------------------------------------------------------------------------
(* Commands. *)

\* Another command keeps its place; this one holds nothing afterwards.
LEMMA FollowTask ==
  ASSUME McpTypeOK, NEW k \in Tasks, NEW next, Follow(k, next)
  PROVE  /\ task'[k].at = next
         /\ \A j \in Tasks \ {k} : task'[j] = task[j]
  BY DEF McpTypeOK, Follow, Idle

\* A command that keeps the specification and the calls, empties the entry
\* without leaving it connected, and goes on to what holds nothing.
LEMMA EmptyingKeeps ==
  ASSUME McpInv, NEW k \in Tasks, NEW next \in {"idle", "refresh", "disconnect"}, Follow(k, next),
         UNCHANGED <<call, crossed, lost, broken>>,
         \/ UNCHANGED server
         \/ /\ server'.status # "connected" /\ server'.client = NoClient
            /\ server'.spec = server.spec /\ server'.disabled = server.disabled
  PROVE  McpHeld' /\ McpCurrent' /\ McpUsable'
  <1>1. McpHeld'
    BY FollowTask DEF McpInv, McpHeld
  <1>2. McpCurrent'
    BY FollowTask DEF McpInv, McpCurrent
  <1>3. McpUsable'
    BY McpNumbers DEF McpInv, McpUsable, McpBroken, ConnectedHasClient
  <1>4. QED
    BY <1>1, <1>2, <1>3

\* Who writes a new specification crosses what is under way, or nothing is.
LEMMA UpsertKeeps ==
  ASSUME McpInv, NEW k \in Tasks, Upsert(k)
  PROVE  McpHeld' /\ McpCurrent' /\ McpUsable'
  <1>1. /\ server'.status = "disconnected" /\ server'.client = NoClient
        /\ task'[k].at \in {"idle", "refresh", "disconnect"}
        /\ \A j \in Tasks \ {k} : task'[j] = task[j]
        /\ UNCHANGED <<call, broken>>
    BY DEF Upsert, Respecify, McpInv, McpTypeOK, Idle
  <1>2. McpHeld'
    BY <1>1 DEF McpInv, McpHeld
  <1>3. McpUsable'
    BY <1>1, McpNumbers DEF McpInv, McpUsable, McpBroken, ConnectedHasClient
  <1>4. McpCurrent'
    <2> SUFFICES ASSUME ~crossed' PROVE McpCurrent'
      BY DEF McpCurrent
    <2>1. (\A j \in Tasks \ {k} : task[j].at = "idle") /\ (\A c \in Callers : call[c].at = "idle")
      BY DEF Upsert, OthersUnderWay
    <2>2. QED
      BY <1>1, <2>1 DEF McpCurrent, Nothing
  <1>5. QED
    BY <1>2, <1>3, <1>4

\* refresh_server takes the client out of the entry, of the specification that
\* stands there.
LEMMA RefreshKeeps ==
  ASSUME McpInv, NEW k \in Tasks, Refresh(k)
  PROVE  McpHeld' /\ McpCurrent' /\ McpUsable'
  <1>1. /\ server'.status = "connecting" /\ server'.client = NoClient /\ ~server'.disabled
        /\ server'.spec = server.spec /\ server.spec # Nothing
        /\ \A j \in Tasks \ {k} : task'[j] = task[j]
        /\ UNCHANGED <<call, mcpHistory>>
    BY DEF Refresh, McpInv, McpTypeOK, Server, McpNumbered, Nothing
  <1>2. \/ task'[k].at = "connect" /\ task'[k].spec = server.spec
        \/ /\ task'[k].at = "discover" /\ task'[k].client = server.client
           /\ server.client # NoClient
    BY DEF Refresh, McpInv, McpTypeOK, Task
  <1>3. McpHeld'
    BY <1>1, <1>2 DEF McpInv, McpHeld
  <1>4. McpCurrent'
    BY <1>1, <1>2 DEF McpInv, McpCurrent, mcpHistory
  <1>5. McpUsable'
    BY <1>1, McpNumbers DEF McpInv, McpUsable, McpBroken, ConnectedHasClient, mcpHistory
  <1>6. QED
    BY <1>3, <1>4, <1>5

LEMMA ConnectKeeps ==
  ASSUME McpInv, NEW k \in Tasks, Connect(k)
  PROVE  McpHeld' /\ McpCurrent' /\ McpUsable'
  <1>1. /\ task[k].at = "connect"
        /\ task'[k].at = "discover" /\ task'[k].client = [spec |-> task[k].spec, closed |-> FALSE]
        /\ \A j \in Tasks \ {k} : task'[j] = task[j]
        /\ UNCHANGED <<server, call, mcpHistory>>
    BY DEF Connect, Resume, McpInv, McpTypeOK, Task
  <1>2. McpHeld'
    <2>1. task[k].spec # Nothing
      BY <1>1 DEF McpInv, McpHeld
    <2>2. [spec |-> task[k].spec, closed |-> FALSE].spec # NoClient.spec
      BY <2>1 DEF NoClient
    <2>3. task'[k].client # NoClient
      BY <1>1, <2>2
    <2>4. QED
      BY <1>1, <2>3 DEF McpInv, McpHeld
  <1>3. McpCurrent'
    BY <1>1 DEF McpInv, McpCurrent, mcpHistory
  <1>4. McpUsable'
    BY <1>1 DEF McpInv, McpUsable, McpBroken, ConnectedHasClient, mcpHistory
  <1>5. QED
    BY <1>2, <1>3, <1>4

\* store_connection puts a client into the entry, of the present specification
\* if no other has crossed the command.
LEMMA McpStoreKeeps ==
  ASSUME McpInv, NEW k \in Tasks, StoreConnection(k)
  PROVE  McpHeld' /\ McpCurrent' /\ McpUsable'
  <1>1. /\ task[k].at = "discover" /\ task[k].client # NoClient
        /\ task'[k].at \in {"idle", "refresh", "disconnect"}
        /\ \A j \in Tasks \ {k} : task'[j] = task[j]
        /\ UNCHANGED <<call, crossed>>
        /\ broken' <=> (server'.client.closed \/ \E c \in Callers : call[c].client.closed)
    <2>1. task[k].next \in {"idle", "refresh", "disconnect"}
      BY DEF McpInv, McpTypeOK, Task
    <2>2. QED
      BY <2>1, FollowTask DEF StoreConnection, Resume, McpInv, McpHeld
  <1>2. \/ /\ ~Known /\ UNCHANGED server
        \/ /\ server'.status = "connected" /\ server'.client = task[k].client
           /\ server'.tools = task[k].client.spec
           /\ server'.spec = server.spec /\ server'.disabled = server.disabled
    BY DEF StoreConnection, McpInv, McpTypeOK, Server
  <1>3. McpHeld'
    BY <1>1 DEF McpInv, McpHeld
  <1>4. McpCurrent'
    BY <1>1, <1>2 DEF McpInv, McpCurrent
  <1>5. McpUsable'
    BY <1>1, <1>2 DEF McpUsable, McpBroken, ConnectedHasClient, Known
  <1>6. QED
    BY <1>3, <1>4, <1>5

LEMMA CommandKeeps ==
  ASSUME McpInv, NEW k \in Tasks, Command(k)
  PROVE  McpHeld' /\ McpCurrent' /\ McpUsable'
  <1>1. CASE Remove(k)
    <2>1. /\ server'.status = "removed" /\ server'.client = NoClient
          /\ server'.spec = server.spec /\ server'.disabled = server.disabled
      BY <1>1 DEF Remove, McpInv, McpTypeOK, Server
    <2>2. QED
      BY <1>1, <2>1, EmptyingKeeps DEF Remove, EndCommand, mcpHistory
  <1>2. CASE Toggle(k)
    BY <1>2, EmptyingKeeps DEF Toggle, mcpHistory
  <1>3. CASE Disconnect(k)
    <2>1. \/ UNCHANGED server
          \/ /\ server'.status = "disconnected" /\ server'.client = NoClient
             /\ server'.spec = server.spec /\ server'.disabled = server.disabled
      BY <1>3 DEF Disconnect, McpInv, McpTypeOK, Server
    <2>2. QED
      BY <1>3, <2>1, EmptyingKeeps DEF Disconnect, EndCommand, mcpHistory
  <1>4. CASE RefreshUnknown(k)
    BY <1>4, EmptyingKeeps DEF RefreshUnknown, EndCommand, mcpHistory
  <1>5. CASE ConnectFails(k) \/ DiscoveryFails(k)
    <2>1. \/ UNCHANGED server
          \/ /\ server'.status = "failed" /\ server'.client = NoClient
             /\ server'.spec = server.spec /\ server'.disabled = server.disabled
      BY <1>5 DEF ConnectFails, DiscoveryFails, Fails, McpInv, McpTypeOK, Server
    <2>2. QED
      BY <1>5, <2>1, EmptyingKeeps DEF ConnectFails, DiscoveryFails, Fails, EndCommand, mcpHistory
  <1>6. CASE Abandon(k)
    BY <1>6, EmptyingKeeps DEF Abandon, EndCommand
  <1>7. QED
    BY <1>1, <1>2, <1>3, <1>4, <1>5, <1>6, UpsertKeeps, RefreshKeeps, ConnectKeeps, McpStoreKeeps
    DEF Command, Run

-----------------------------------------------------------------------------
(* Calls. *)

LEMMA CallKeeps ==
  ASSUME McpInv, NEW c \in Callers, ToolCall(c)
  PROVE  McpHeld' /\ McpCurrent' /\ McpUsable'
  <1>1. UNCHANGED task /\ \A d \in Callers \ {c} : call'[d] = call[d]
    BY DEF ToolCall, Find, Take, NotConnected, Restore, AbortCall, McpInv, McpTypeOK
  <1>2. CASE Find(c)
    <2>1. /\ call[c].at = "idle" /\ server.status = "connected"
          /\ call'[c].at = "found" /\ call'[c].tools = server.tools
          /\ call'[c].client = NoClient
          /\ UNCHANGED <<server, mcpHistory>>
      BY <1>2 DEF Find, McpInv, McpTypeOK
    <2>2. McpHeld' /\ McpCurrent'
      BY <1>1, <2>1 DEF McpInv, McpHeld, McpCurrent, mcpHistory
    <2>3. McpUsable'
      BY <1>1, <2>1, McpNumbers DEF McpInv, McpUsable, McpBroken, ConnectedHasClient, mcpHistory
    <2>4. QED
      BY <2>2, <2>3
  <1>3. CASE Take(c)
    <2>1. /\ call[c].at = "found" /\ server.client # NoClient
          /\ call'[c].at = "calling" /\ call'[c].client = server.client
          /\ call'[c].tools = call[c].tools
          /\ server'.client = NoClient /\ server'.status = server.status
          /\ server'.spec = server.spec /\ server'.tools = server.tools
          /\ server'.disabled = server.disabled
          /\ UNCHANGED mcpHistory
      BY <1>3 DEF Take, McpInv, McpTypeOK, Call, Server
    <2>2. McpHeld'
      BY <1>1, <2>1 DEF McpInv, McpHeld
    <2>3. McpCurrent'
      BY <1>1, <2>1 DEF McpInv, McpCurrent, mcpHistory
    <2>4. McpUsable'
      BY <1>1, <2>1, McpNumbers DEF McpInv, McpUsable, McpBroken, ConnectedHasClient, mcpHistory
    <2>5. QED
      BY <2>2, <2>3, <2>4
  <1>4. CASE NotConnected(c)
    <2>1. /\ call[c].at = "found" /\ call'[c].at = "idle" /\ call'[c].client = NoClient
          /\ UNCHANGED <<server, mcpHistory>>
      BY <1>4 DEF NotConnected, NoCall, McpInv, McpTypeOK
    <2>2. McpHeld' /\ McpCurrent'
      BY <1>1, <2>1 DEF McpInv, McpHeld, McpCurrent, mcpHistory
    <2>3. McpUsable'
      BY <1>1, <2>1, McpNumbers DEF McpInv, McpUsable, McpBroken, ConnectedHasClient, mcpHistory
    <2>4. QED
      BY <2>2, <2>3
  <1>5. CASE Restore(c)
    <2>1. /\ call[c].at = "calling" /\ call'[c].at = "idle" /\ call'[c].client = NoClient
          /\ UNCHANGED mcpHistory
          /\ server'.status = server.status /\ server'.spec = server.spec
          /\ server'.tools = server.tools /\ server'.disabled = server.disabled
      BY <1>5 DEF Restore, NoCall, McpInv, McpTypeOK, Server
    <2>2. server'.client = IF server.status = "connected" /\ server.client = NoClient
                           THEN call[c].client ELSE server.client
      BY <1>5 DEF Restore, McpInv, McpTypeOK, Server
    <2>3. McpHeld'
      BY <1>1, <2>1 DEF McpInv, McpHeld
    <2>4. McpCurrent'
      BY <1>1, <2>1, <2>2 DEF McpInv, McpCurrent, mcpHistory
    <2>5. McpUsable'
      BY <1>1, <2>1, <2>2, McpNumbers
      DEF McpInv, McpHeld, McpUsable, McpBroken, ConnectedHasClient, mcpHistory
    <2>6. QED
      BY <2>3, <2>4, <2>5
  <1>6. CASE AbortCall(c)
    <2>1. /\ call'[c].at = "idle" /\ call'[c].client = NoClient
          /\ UNCHANGED <<server, crossed, broken>>
          /\ lost' <=> (lost \/ call[c].at = "calling")
      BY <1>6 DEF AbortCall, NoCall, McpInv, McpTypeOK
    <2>2. McpHeld' /\ McpCurrent'
      BY <1>1, <2>1 DEF McpInv, McpHeld, McpCurrent
    <2>3. McpUsable'
      BY <1>1, <2>1, McpNumbers DEF McpInv, McpUsable, McpBroken, ConnectedHasClient
    <2>4. QED
      BY <2>2, <2>3
  <1>7. QED
    BY <1>2, <1>3, <1>4, <1>5, <1>6 DEF ToolCall

\* A connection that ends closes a client where it is.
LEMMA BreakKeeps == McpInv /\ Break => McpInv'
  <1> SUFFICES ASSUME McpInv, Break PROVE McpInv'
    OBVIOUS
  <1>1. McpTypeOK' /\ McpNumbered'
    <2>1. /\ UNCHANGED <<commands, calls, crossed, lost, abandoned>> /\ broken' = TRUE
          /\ server \in Server /\ task \in [Tasks -> Task] /\ call \in [Callers -> Call]
          /\ server'.spec = server.spec
      BY DEF Break, McpInv, McpTypeOK, Server
    <2>2. server' \in Server
      BY <2>1 DEF Break, Server, Clients
    <2>3. task' \in [Tasks -> Task]
      <3>1. ASSUME NEW k \in Tasks PROVE [task[k] EXCEPT !.client.closed = TRUE] \in Task
        BY <2>1, <3>1 DEF Task, Clients
      <3>2. UNCHANGED task \/ \E k \in Tasks : task' = [task EXCEPT ![k].client.closed = TRUE]
        BY DEF Break
      <3>3. ASSUME NEW k \in Tasks, task' = [task EXCEPT ![k].client.closed = TRUE]
            PROVE  task' = [task EXCEPT ![k] = [task[k] EXCEPT !.client.closed = TRUE]]
        BY <2>1, <3>3
      <3>4. QED
        BY <2>1, <3>1, <3>2, <3>3
    <2>4. call' \in [Callers -> Call]
      <3>1. ASSUME NEW c \in Callers PROVE [call[c] EXCEPT !.client.closed = TRUE] \in Call
        BY <2>1, <3>1 DEF Call, Clients
      <3>2. UNCHANGED call \/ \E c \in Callers : call' = [call EXCEPT ![c].client.closed = TRUE]
        BY DEF Break
      <3>3. ASSUME NEW c \in Callers, call' = [call EXCEPT ![c].client.closed = TRUE]
            PROVE  call' = [call EXCEPT ![c] = [call[c] EXCEPT !.client.closed = TRUE]]
        BY <2>1, <3>3
      <3>4. QED
        BY <2>1, <3>1, <3>2, <3>3
    <2>5. QED
      BY <2>1, <2>2, <2>3, <2>4 DEF McpInv, McpTypeOK, McpNumbered
  <1>2. /\ server'.status = server.status /\ server'.spec = server.spec
        /\ server'.tools = server.tools /\ server'.disabled = server.disabled
        /\ server'.client.spec = server.client.spec
        /\ server'.client # NoClient => server.client # NoClient
    BY DEF Break, McpInv, McpTypeOK, Server, Clients
  <1>3. \A k \in Tasks : /\ task'[k].at = task[k].at /\ task'[k].spec = task[k].spec
                         /\ task'[k].client.spec = task[k].client.spec
                         /\ task'[k].client = task[k].client \/ task'[k].client.closed
    BY DEF Break, McpInv, McpTypeOK, Task, Clients
  <1>4. \A c \in Callers : /\ call'[c].at = call[c].at /\ call'[c].tools = call[c].tools
                           /\ call'[c].client.spec = call[c].client.spec
                           /\ call'[c].client = call[c].client \/ call'[c].client.closed
    BY DEF Break, McpInv, McpTypeOK, Call, Clients
  <1>5. broken' /\ crossed' = crossed
    BY DEF Break
  <1>6. McpHeld'
    BY <1>3, <1>4, McpNumbers DEF McpInv, McpHeld
  <1>7. McpCurrent'
    BY <1>2, <1>3, <1>4, <1>5 DEF McpInv, McpCurrent
  <1>8. McpUsable'
    BY <1>5 DEF McpUsable, McpBroken, ConnectedHasClient
  <1>9. QED
    BY <1>1, <1>6, <1>7, <1>8 DEF McpInv

-----------------------------------------------------------------------------
LEMMA McpInvNext == McpInv /\ [McpNext]_mcpVars => McpInv'
  <1> SUFFICES ASSUME McpInv, [McpNext]_mcpVars PROVE McpInv'
    OBVIOUS
  <1>1. CASE \E k \in Tasks : Command(k)
    BY <1>1, CommandType, CommandKeeps DEF McpInv
  <1>2. CASE \E c \in Callers : ToolCall(c)
    BY <1>2, CallType, CallKeeps DEF McpInv
  <1>3. CASE Break
    BY <1>3, BreakKeeps
  <1>4. CASE UNCHANGED mcpVars
    BY <1>4 DEF McpInv, mcpVars, mcpHistory, McpTypeOK, McpNumbered, McpHeld, McpCurrent, McpUsable,
                McpBroken, ConnectedHasClient
  <1>5. QED
    BY <1>1, <1>2, <1>3, <1>4 DEF McpNext

LEMMA McpInvAlways == McpSpec => []McpInv
  BY McpInvInit, McpInvNext, PTL DEF McpSpec

\* Type correctness.
THEOREM McpTypeCorrect == McpSpec => []McpTypeOK
  <1>1. McpInv => McpTypeOK
    BY DEF McpInv
  <1>2. QED
    BY McpInvAlways, <1>1, PTL

\* A connected server keeps a client whose connection is open in its entry or in
\* the hands of a call, however many commands and calls run at once
\* (execute_arguments, restore_client, store_connection), unless a call was
\* aborted while it held the client or a connection ended.
THEOREM McpConnected == McpSpec => []ConnectedHasClient
  <1>1. McpInv => ConnectedHasClient
    BY DEF McpInv, McpUsable
  <1>2. QED
    BY McpInvAlways, <1>1, PTL

\* Unless a specification changes while others are under way, clients and tools
\* are those of the present specification.
THEOREM McpUpToDate == McpSpec => []ClientsAreCurrent
  <1>1. McpInv => ClientsAreCurrent
    BY DEF McpInv, McpCurrent, ClientsAreCurrent
  <1>2. QED
    BY McpInvAlways, <1>1, PTL
=============================================================================
