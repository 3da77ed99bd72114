------------------------------ MODULE CodexAuth ------------------------------
(***************************************************************************)
(* The login of the Codex provider (tidev-core/codex_auth.rs) and the model *)
(* requests that share it (tidev-llm/responses).                           *)
(*                                                                         *)
(* A request asks for the access token before it is sent, and once more    *)
(* when the provider refuses it.  Who finds the token about to expire, or  *)
(* refused, posts the refresh token under a lock; the answer, which may    *)
(* revoke that refresh token, is put into memory and into auth.json.  Both *)
(* are also written by logins, by settings and by other processes.         *)
(***************************************************************************)
EXTENDS Naturals

CONSTANTS
  Requests,     \* requests to the Codex provider
  MaxTokens,    \* bound: tokens ever issued
  MaxSaves      \* bound: settings saved while requests run

ASSUME Bounds == MaxTokens \in Nat \ {0} /\ MaxSaves \in Nat

VARIABLES
  req,       \* per request: where it is, whether it has been refused once, the
             \*   token it is sent with, the credential it refreshes, the answer;
             \*   history: 30 s have passed since, or the credential was replaced
             \*   otherwise
  mem, file, \* the credential in memory and in auth.json
  recent,    \* a refresh was stored less than 30 s ago
  aging,     \* the access token in memory is about to expire
  issued,    \* tokens issued so far: an access and a refresh token per number
  honoured,  \* refresh tokens the issuer accepts
  saver,     \* save_auth of a settings change: its copy of the credential, and
             \*   the one the web page's handlers return to on failure
  saves,     \* settings saved so far
  wanted,    \* history: the user logged in last, and not out
  mishap     \* history: one of the events named Mishap below

history == <<wanted, mishap>>
credential == <<mem, file, recent, aging>>
issuer == <<issued, honoured>>
settings == <<saver, saves>>
vars == <<req, credential, issuer, settings, history>>

Tokens == 0 .. MaxTokens
None == [access |-> 0, refresh |-> 0]
Credential == [access : Tokens, refresh : Tokens]
Pair(n) == [access |-> n, refresh |-> n]
Fresh == issued + 1

Places == {"idle", "resolve", "wait", "posted", "granted", "refused", "send", "done", "failed"}
Unsent == [at |-> "idle", force |-> FALSE, token |-> 0, old |-> None, new |-> None,
           late |-> FALSE]
Request == [at : Places, force : BOOLEAN, token : Tokens, old : Credential, new : Credential,
            late : BOOLEAN]

NotSaving == [on |-> FALSE, copy |-> None, undo |-> None]

\* a user who has logged in before
Init ==
  /\ req = [r \in Requests |-> Unsent]
  /\ mem = Pair(1) /\ file = Pair(1) /\ recent = FALSE /\ aging = FALSE
  /\ issued = 1 /\ honoured = {1}
  /\ saver = NotSaving /\ saves = 0
  /\ wanted = TRUE /\ mishap = FALSE

UnderWay == {r \in Requests : req[r].at \notin {"idle", "done", "failed"}}

\* the holder of the refresh lock
Refreshing == {r \in Requests : req[r].at \in {"posted", "granted", "refused"}}

Goto(r, at) == req' = [req EXCEPT ![r] = [@ EXCEPT !.at = at, !.old = None, !.new = None]]
End(r, at) == req' = [req EXCEPT ![r] = [Unsent EXCEPT !.at = at]]
SendWith(r, token) ==
  req' = [req EXCEPT ![r] = [Unsent EXCEPT !.at = "send", !.force = req[r].force, !.token = token]]

\* what requests hold is not the latest any more
Outdated(q) == [r \in Requests |-> [q[r] EXCEPT !.late = @ \/ q[r].token # 0]]

-----------------------------------------------------------------------------
(* CodexAuthService::resolve_inner *)

Resolve(r) ==
  /\ req[r].at = "resolve"
  /\ IF mem = None THEN End(r, "failed")
     ELSE IF ~req[r].force /\ ~aging THEN SendWith(r, mem.access)
     ELSE Goto(r, "wait")
  /\ UNCHANGED <<credential, issuer, settings, history>>

LockIsIgnored == TRUE  \* Mutant: concurrent requests refresh at once
LockIsFree == Refreshing = {}

\* what another request has refreshed meanwhile is used
UsableUnlessForced(r) == ~req[r].force /\ ~aging  \* Mutant: never after a 401
Usable(r) == IF req[r].force THEN recent ELSE ~aging

Acquire(r) ==
  /\ req[r].at = "wait" /\ LockIsFree
  /\ IF mem = None THEN End(r, "failed")
     ELSE IF Usable(r) THEN SendWith(r, mem.access)
     ELSE req' = [req EXCEPT ![r].at = "posted", ![r].old = mem]
  /\ UNCHANGED <<credential, issuer, settings, history>>

\* the issuer answers: a new access token, alone or with a new refresh token
\* that replaces the one presented
Grant(r) ==
  /\ req[r].at = "posted" /\ req[r].old.refresh \in honoured /\ issued < MaxTokens
  /\ issued' = Fresh
  /\ \/ /\ req' = [req EXCEPT ![r].at = "granted", ![r].new = Pair(Fresh)]
        /\ honoured' = (honoured \ {req[r].old.refresh}) \union {Fresh}
     \/ /\ req' = [req EXCEPT ![r].at = "granted",
                              ![r].new = [req[r].old EXCEPT !.access = Fresh]]
        /\ UNCHANGED honoured
  /\ UNCHANGED <<credential, settings, history>>

Refuse(r) ==
  /\ req[r].at = "posted" /\ req[r].old.refresh \notin honoured
  /\ req' = [req EXCEPT ![r].at = "refused"]
  /\ UNCHANGED <<credential, issuer, settings, history>>

\* a network error, or an answer that is no token; it may come after Grant's
\* rotation (Abort)
PostFails(r) ==
  /\ req[r].at = "posted"
  /\ End(r, "failed")
  /\ UNCHANGED <<credential, issuer, settings, history>>

\* store_credential.  Mishap: the credential was replaced, or the user logged
\* out, meanwhile
Store(r) ==
  /\ req[r].at = "granted"
  /\ mem' = req[r].new /\ file' = req[r].new
  /\ recent' = TRUE /\ aging' = FALSE
  /\ SendWith(r, req[r].new.access)
  /\ mishap' = (mishap \/ mem # req[r].old)
  /\ UNCHANGED <<issuer, settings, wanted>>

\* Mishap: auth.json cannot be written, after the memory has been
StoreFails(r) ==
  /\ req[r].at = "granted"
  /\ mem' = req[r].new /\ aging' = FALSE
  /\ req' = Outdated([req EXCEPT ![r] = [Unsent EXCEPT !.at = "failed"]])
  /\ mishap' = TRUE
  /\ UNCHANGED <<file, recent, issuer, settings, wanted>>

\* clear_credential.  Mishap: the credential is not the refused one any more, or
\* auth.json cannot be written
Clear(r) ==
  /\ req[r].at = "refused"
  /\ mem' = None /\ file' \in {None, file}
  /\ End(r, "failed")
  /\ mishap' = (mishap \/ mem # req[r].old \/ file' # None)
  /\ UNCHANGED <<recent, aging, issuer, settings, wanted>>

-----------------------------------------------------------------------------
(* stream_responses *)

Begin(r) ==
  /\ req[r].at = "idle"
  /\ Goto(r, "resolve")
  /\ UNCHANGED <<credential, issuer, settings, history>>

\* accepted, or failed for another reason than the token
Sent(r) ==
  /\ req[r].at = "send"
  /\ End(r, "done")
  /\ UNCHANGED <<credential, issuer, settings, history>>

\* a first 401 asks for a fresh token, a second one ends the request
AlwaysAgain(r) ==  \* Mutant: it is not noted that the token was fresh
  /\ req[r].at = "send"
  /\ Goto(r, "resolve")
  /\ UNCHANGED <<credential, issuer, settings, history>>
Unauthorized(r) ==
  /\ req[r].at = "send"
  /\ IF req[r].force THEN End(r, "failed")
     ELSE req' = [req EXCEPT ![r].at = "resolve", ![r].force = TRUE]
  /\ UNCHANGED <<credential, issuer, settings, history>>

\* the loop is cancelled and the task of the request aborted at its await, or
\* the refresh ends in a network error.  Mishap: the issuer's answer is lost
Abort(r) ==
  /\ r \in UnderWay
  /\ End(r, "failed")
  /\ mishap' = (mishap \/ req[r].at = "granted")
  /\ UNCHANGED <<credential, issuer, settings, wanted>>

-----------------------------------------------------------------------------
(* Login and logout, settings, other processes, time *)

\* CodexAuthService::login.  Mishap: auth.json cannot be written
Login ==
  /\ issued < MaxTokens
  /\ issued' = Fresh /\ honoured' = honoured \union {Fresh}
  /\ mem' = Pair(Fresh) /\ file' \in {Pair(Fresh), file} /\ aging' = FALSE
  /\ wanted' = TRUE /\ req' = Outdated(req)
  /\ mishap' = (mishap \/ file' # Pair(Fresh))
  /\ UNCHANGED <<recent, settings>>

\* a settings change of another provider, or the removal of this one's
\* credential: the memory is changed and save_auth takes its copy
SaveBegins ==
  /\ ~saver.on /\ saves < MaxSaves
  /\ saves' = saves + 1
  /\ \/ UNCHANGED <<mem, wanted>>
     \/ mem' = None /\ wanted' = FALSE
  /\ saver' = [on |-> TRUE, copy |-> mem', undo |-> mem]
  /\ UNCHANGED <<req, file, recent, aging, issuer, mishap>>

\* Mishap: the credential was replaced meanwhile
SaveEnds ==
  /\ saver.on
  /\ file' = saver.copy
  /\ saver' = NotSaving
  /\ mishap' = (mishap \/ mem # saver.copy)
  /\ UNCHANGED <<req, mem, recent, aging, issuer, saves, wanted>>

\* auth.json cannot be written: the terminal goes on, the web page's handlers
\* put back the whole store.  Mishap: the credential was replaced meanwhile, or
\* memory and file differ
SaveFails ==
  /\ saver.on
  /\ mem' \in {mem, saver.undo}
  /\ saver' = NotSaving
  /\ mishap' = (mishap \/ mem # saver.copy \/ mem' # file)
  /\ wanted' = (wanted \/ (mem' = saver.undo /\ mem' # None))
  /\ req' = IF mem' = mem THEN req ELSE Outdated(req)
  /\ UNCHANGED <<file, recent, aging, issuer, saves>>

\* Mishap: another tidev process writes auth.json, which this one reads at its
\* start only: it refreshes the credential, or the command line logs in or
\* removes it (once)
Elsewhere ==
  /\ ~mishap
  /\ \/ /\ file # None /\ file.refresh \in honoured /\ issued < MaxTokens
        /\ issued' = Fresh /\ file' = Pair(Fresh)
        /\ honoured' = (honoured \ {file.refresh}) \union {Fresh}
     \/ /\ issued < MaxTokens
        /\ issued' = Fresh /\ file' = Pair(Fresh)
        /\ honoured' = honoured \union {Fresh}
     \/ /\ file' = None
        /\ UNCHANGED issuer
  /\ mishap' = TRUE
  /\ UNCHANGED <<req, mem, recent, aging, settings, wanted>>

\* Mishap: the issuer's answer, or a settings change, is lost
Restart ==
  /\ req' = [r \in Requests |-> IF r \in UnderWay THEN [Unsent EXCEPT !.at = "failed"] ELSE req[r]]
  /\ mem' = file /\ recent' = FALSE
  /\ saver' = NotSaving
  /\ mishap' = (mishap \/ saver.on \/ \E r \in Requests : req[r].at = "granted")
  /\ UNCHANGED <<file, aging, issuer, saves, wanted>>

ThirtySecondsPass ==
  /\ recent' = FALSE
  /\ req' = Outdated(req)
  /\ UNCHANGED <<mem, file, aging, issuer, settings, wanted, mishap>>

TokenAges ==
  /\ aging' = TRUE
  /\ UNCHANGED <<req, mem, file, recent, issuer, settings, history>>

-----------------------------------------------------------------------------
Authorize(r) ==
  \/ Resolve(r) \/ Acquire(r) \/ Grant(r) \/ Refuse(r) \/ PostFails(r)
  \/ Store(r) \/ StoreFails(r) \/ Clear(r)

Transmit(r) == Sent(r) \/ Unauthorized(r)

Next ==
  \/ \E r \in Requests : Begin(r) \/ Authorize(r) \/ Transmit(r) \/ Abort(r)
  \/ Login \/ SaveBegins \/ SaveEnds \/ SaveFails
  \/ Elsewhere \/ Restart \/ ThirtySecondsPass \/ TokenAges

\* the steps between two awaits are taken, and issuer and provider answer; who
\* waits for the lock gets it at last, for a request takes it twice at most
Fairness == \A r \in Requests : WF_vars(Authorize(r) \/ Transmit(r))

Spec == Init /\ [][Next]_vars /\ Fairness

-----------------------------------------------------------------------------
\* Type invariant of the requests, the credential and the issuer.
TypeOK ==
  /\ req \in [Requests -> Request]
  /\ {mem, file} \subseteq Credential
  /\ issued \in Tokens /\ honoured \subseteq 1 .. issued
  /\ saver \in [on : BOOLEAN, copy : Credential, undo : Credential]
  /\ saves \in 0 .. MaxSaves
  /\ {recent, aging, wanted, mishap} \subseteq BOOLEAN

\* Who has logged in stays so until logging out: the refresh token in memory is
\* one the issuer accepts, or its replacement is on the way, and auth.json has
\* what the memory has, however many requests refresh, fail and are cancelled.
\* Only the mishaps named above break it.
StaysLoggedIn ==
  ~mishap =>
    /\ (mem # None) <=> wanted
    /\ mem # None => mem.refresh \in honoured \/ \E r \in Requests : req[r].at = "granted"
    /\ saver.on \/ file = mem

\* Concurrent requests that are refused with the same token share one refresh:
\* a request that refreshes after a 401 replaces the token it was refused with,
\* not a newer one, unless 30 s have passed or the credential was replaced
\* otherwise.
OneRefreshForARefusal ==
  \A r \in Refreshing : req[r].force /\ ~req[r].late => req[r].old.access = req[r].token

\* Every request ends, if the issuer and the provider answer: a refused token
\* is refreshed once, and a refresh that fails passes the lock on.
EveryRequestEnds == \A r \in Requests : r \in UnderWay ~> r \notin UnderWay
=============================================================================
