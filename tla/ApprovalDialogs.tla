-------------------------- MODULE ApprovalDialogs --------------------------
(***************************************************************************)
(* The terminal's approval pipeline (App::handle_frontend_request,         *)
(* process_next_tool, the dialogs' responses) over the broker of           *)
(* Approvals.  A request lists tools; each is approved, rejected or shown  *)
(* in a dialog.  The pipeline runs on the interface's thread: while it     *)
(* does, the thread handles nothing else.                                  *)
(***************************************************************************)
EXTENDS Approvals, SequencesExt

CONSTANTS
  Paths,  \* paths asked about, as sequences of components; <<>> is no path
  Tools   \* the tools of a request: [boundary, sensitive, question]

ASSUME PathsAreSequences == \A p \in Paths : p \in Seq(Range(p))

\* a request is made for at least one tool, and a script has no question tool
ASSUME ToolsAreListed ==
  /\ \A r \in Requests : /\ Tools[r] # <<>>
                         /\ Tools[r] \in Seq([boundary : Paths, sensitive : Paths, question : BOOLEAN])
  /\ \A r \in Nested : \A i \in 1 .. Len(Tools[r]) : ~Tools[r][i].question

VARIABLES
  entries,     \* pending_approvals
  active,      \* active_approval_session
  dialogs,     \* the dialogs on the overlay stack, topmost last
  cache,       \* boundary_permissions and sensitive_permissions
  processing,  \* the thread is in process_next_tool
  deleted,     \* history: sessions deleted while they were open
  allowed      \* history: <<kind, path, until>> the user allowed: until exit, or for one tool

terminal == <<entries, active, dialogs, cache, processing, deleted, allowed>>
allVars == <<vars, terminal>>

None == [req |-> Nobody]
NoSession == "no session"
Kinds == {"boundary", "sensitive"}

ASSUME NoSessionIsNone == NoSession \notin Sessions

InitAll ==
  /\ Init
  /\ entries = [s \in Sessions |-> None] /\ active = NoSession
  /\ dialogs = <<>> /\ processing = FALSE
  /\ cache = [k \in Kinds |-> [p \in Paths |-> "unknown"]]
  /\ deleted = {} /\ allowed = {}

-----------------------------------------------------------------------------
\* App::is_path_allowed: the nearest path that was decided
KnownOutside(k, p) ==  \* mutant: one cache for both kinds
  LET decided == {q \in Paths : cache["boundary"][q] # "unknown" /\ IsPrefix(q, p)}
  IN  IF decided = {} THEN "unknown" ELSE cache["boundary"][CHOOSE q \in decided : TRUE]

Known(k, p) ==
  LET decided == {q \in Paths : cache[k][q] # "unknown" /\ IsPrefix(q, p)}
  IN  IF decided = {} THEN "unknown"
      ELSE cache[k][CHOOSE q \in decided : \A o \in decided : Len(o) <= Len(q)]

Standing(k, p) == IF p = <<>> THEN "allow" ELSE Known(k, p)

\* what process_next_tool does with a tool: boundary, sensitive file, question
Stage(tool) ==
  LET b == Standing("boundary", tool.boundary)
      s == Standing("sensitive", tool.sensitive)
  IN  CASE b = "unknown" -> "boundary"
        [] b = "deny" \/ (b = "allow" /\ s = "deny") -> "rejected"
        [] b = "allow" /\ s = "unknown" -> "sensitive"
        [] OTHER -> IF tool.question THEN "question" ELSE "approved"

Decided(v) == [verdict |-> v, shown |-> <<>>]

\* the first tool from i on that needs a dialog, or one past the last
NextShown(tools, i) ==
  LET shown == {j \in i .. Len(tools) : Stage(tools[j]) \notin {"approved", "rejected"}}
  IN  IF shown = {} THEN Len(tools) + 1 ELSE Min(shown)

Entry == entries[active]
Without(s) == [entries EXCEPT ![s] = None]

-----------------------------------------------------------------------------
\* handle_frontend_request: a request of a session replaces its former one,
\* and is activated when no other is
Arrive ==
  /\ ~processing /\ inbox[Terminal] # <<>>
  /\ LET r == Head(inbox[Terminal])
         s == SessionOf[r]
     IN  /\ entries' = [entries EXCEPT ![s] = [req |-> r, given |-> <<>>]]
         /\ active' = IF active = NoSession THEN s ELSE active
         /\ processing' = (active = NoSession)
  /\ Take(Terminal)
  /\ UNCHANGED <<process, broker, conn, cards, connects, heard>>
  /\ UNCHANGED <<dialogs, cache, deleted, allowed>>

\* process_next_tool without a session, or with one that waits for nothing
Idle ==
  /\ processing /\ active \notin {s \in Sessions : entries[s] # None}
  /\ active' = NoSession /\ processing' = FALSE
  /\ UNCHANGED <<vars, entries, dialogs, cache, deleted, allowed>>

\* process_next_tool decides tools up to the next dialog, or all of them
Settle ==
  /\ processing /\ active # NoSession /\ Entry # None
  /\ LET tools == Tools[Entry.req]
         from == Len(Entry.given) + 1
         to == NextShown(tools, from)
         settled == [i \in 1 .. to - from |-> Decided(Stage(tools[from + i - 1]))]
     IN  /\ from <= Len(tools)
         /\ entries' = [entries EXCEPT ![active].given = @ \o settled]
         /\ dialogs' = IF to > Len(tools) THEN dialogs
              ELSE Append(dialogs, [kind |-> Stage(tools[to]), req |-> Entry.req, index |-> to])
         /\ processing' = (to > Len(tools))
  /\ UNCHANGED <<vars, active, cache, deleted, allowed>>

\* mutant: the next session is not activated
SendAndRest ==
  /\ processing /\ active # NoSession /\ Entry # None
  /\ Len(Entry.given) = Len(Tools[Entry.req])
  /\ Respond(Terminal, Entry.req)
  /\ entries' = Without(active) /\ active' = NoSession /\ processing' = FALSE
  /\ UNCHANGED <<clients, dialogs, cache, deleted, allowed>>

\* send_approval_response, then another session's request if there is one
SendResponse ==
  /\ processing /\ active # NoSession /\ Entry # None
  /\ Len(Entry.given) = Len(Tools[Entry.req])
  /\ Respond(Terminal, Entry.req)
  /\ entries' = Without(active)
  /\ LET waiting == {s \in Sessions \ {active} : entries[s] # None}
     IN  \/ waiting = {} /\ active' = NoSession /\ processing' = FALSE
         \/ active' \in waiting /\ UNCHANGED processing
  /\ UNCHANGED <<clients, dialogs, cache, deleted, allowed>>

-----------------------------------------------------------------------------
Top == Last(dialogs)
TopTool == Tools[Top.req][Top.index]
Close == dialogs' = Front(dialogs)

\* WorkspaceBoundaryResponse and SensitiveFileResponse.  The user decides for
\* this access or until exit: the cache keeps either.
Exit == <<>>
Once == <<Top.req, Top.index>>

Decide(verdict) ==
  /\ ~processing /\ dialogs # <<>> /\ Top.kind \in Kinds
  /\ LET k == Top.kind
         p == IF k = "boundary" THEN TopTool.boundary ELSE TopTool.sensitive
     IN  /\ cache' = [cache EXCEPT ![k][p] = verdict]
         /\ \E until \in {Once, Exit} :
              allowed' = IF verdict = "allow" THEN allowed \union {<<k, p, until>>} ELSE allowed
  /\ Close /\ processing' = TRUE
  /\ UNCHANGED <<vars, entries, active, deleted>>

\* QuestionResponse: the answer goes to the tool the active request has reached
AnswerQuestion ==
  /\ ~processing /\ dialogs # <<>> /\ Top.kind = "question"
  /\ Close
  /\ IF active = NoSession \/ entries[active] = None
     THEN UNCHANGED <<entries, processing>>
     ELSE /\ entries' = [entries EXCEPT ![active].given = Append(@,
               [verdict |-> "answered", shown |-> <<Top.req, Top.index>>])]
          /\ processing' = TRUE
  /\ UNCHANGED <<vars, active, cache, deleted, allowed>>

Forget(s) ==
  /\ ~processing /\ process = "tui"
  /\ Cancel(s)
  /\ entries' = Without(s)
  /\ active' = IF active = s THEN NoSession ELSE active
  /\ UNCHANGED <<dialogs, cache, processing, allowed>>

\* double Esc, while no dialog or panel is open
Abort(s) == dialogs = <<>> /\ Forget(s) /\ UNCHANGED deleted

\* the session panel, above the dialogs, deletes the open session
DeleteCurrent(s) == s \notin deleted /\ Forget(s) /\ deleted' = deleted \union {s}

\* undo cancels the loop and leaves the request and its dialog
UndoCurrent(s) ==
  /\ ~processing /\ process = "tui"
  /\ Cancel(s) /\ cancelled' # cancelled
  /\ UNCHANGED terminal

-----------------------------------------------------------------------------
\* a cancelled loop is followed by a prompt from the composer, which a dialog hides
Composed(r) ==
  process = "tui" =>
    \/ dialogs = <<>>
    \/ \A q \in Requests : SessionOf[q] = SessionOf[r] => state[q] # "cancelled"

Elsewhere ==
  \/ \E r \in Requests : Composed(r) /\ Insert(r)
  \/ \E r \in Requests : Publish(r) \/ TakeResponse(r) \/ TakeCancel(r) \/ Drop(r)
  \/ process # "tui" /\ \E s \in Sessions : Cancel(s)
  \/ FanOut \/ Web \/ Ask \/ EditorAnswers

User ==
  \/ \E v \in {"allow", "deny"} : Decide(v)
  \/ AnswerQuestion
  \/ \E s \in Sessions : Abort(s) \/ DeleteCurrent(s) \/ UndoCurrent(s)

NextAll ==
  \/ Elsewhere /\ UNCHANGED terminal
  \/ Arrive \/ Idle \/ Settle \/ SendResponse \/ User

SpecAll == InitAll /\ [][NextAll]_allVars

-----------------------------------------------------------------------------
\* p or a directory above was allowed, by one of the decisions
AllowedBy(k, p, decisions) == p = <<>> \/ \E d \in decisions : d[1] = k /\ IsPrefix(d[2], p)

\* What the terminal answers rests on what the user decided: a question is
\* answered from the dialog shown for it (unless that one's request was
\* cancelled meanwhile), and an approved tool stays on paths the user allowed in
\* this process, themselves or a directory above. Exception: a path allowed only
\* once counts as allowed until exit, for this tool and for others, because the
\* code caches both alike (actions.rs:1172, 1195; see OnceIsForOneTool).
DecisionsFit ==
  \A s \in Sessions : entries[s] # None =>
    LET r == entries[s].req IN
    /\ Len(entries[s].given) <= Len(Tools[r])
    /\ \A i \in 1 .. Len(entries[s].given) :
         LET g == entries[s].given[i]
         IN  /\ g.verdict = "answered" => g.shown = <<r, i>> \/ g.shown[1] \in cancelled
             /\ g.verdict = "approved" =>
                  /\ AllowedBy("boundary", Tools[r][i].boundary, allowed)
                  /\ AllowedBy("sensitive", Tools[r][i].sensitive, allowed)

\* What the words promise and the code does not do: a path that was allowed once
\* is allowed for the tool that was asked about ("Allow this one-time access",
\* tidev-tui/src/action.rs:247), and any other tool needs a decision of its own.
\* record_boundary_decision stores nothing for such a decision (tools.rs:273),
\* and its caller caches it (actions.rs:1165-1172, 1189-1195): as an invariant
\* of the run this is violated.
OnceIsForOneTool ==
  \A s \in Sessions : entries[s] # None =>
    \A i \in 1 .. Len(entries[s].given) :
      entries[s].given[i].verdict = "approved" =>
        LET r == entries[s].req
            mine == {d \in allowed : d[3] \in {Exit, <<r, i>>}}
        IN  /\ AllowedBy("boundary", Tools[r][i].boundary, mine)
            /\ AllowedBy("sensitive", Tools[r][i].sensitive, mine)

\* While a request waits in the terminal, a dialog of the active session is on
\* top: nobody waits for an answer the user cannot give.  Deleting the open
\* session breaks this for the others: nothing activates the next.
WaitingIsShown ==
  (\E s \in Sessions : entries[s] # None) /\ ~processing /\ deleted = {} =>
    active # NoSession /\ entries[active] # None /\ dialogs # <<>> /\ SessionOf[Top.req] = active
=============================================================================
