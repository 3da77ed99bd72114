----------------------------- MODULE McpRegistry -----------------------------
(***************************************************************************)
(* One server of the registry of MCP servers (tidev-agent/mcp.rs): commands *)
(* of frontends that add, refresh, disconnect and remove it, and tool calls *)
(* of the agent loops, all at once.                                        *)
(*                                                                         *)
(* The registry is a map behind a mutex that is never held over an await.  *)
(* Who talks to the server takes the client out of its entry and puts it   *)
(* back, or another one, when the server has answered: in between the      *)
(* entry may have been changed by anybody.  One action is one critical     *)
(* section with the code around it up to the next await.  A client has one *)
(* owner: it is known by the specification it was connected with, it finds *)
(* out that its connection is closed at any time, and a client that nobody *)
(* holds any more is gone.                                                 *)
(***************************************************************************)
EXTENDS Naturals

CONSTANTS
  Tasks,        \* commands under way at the same time
  Callers,      \* tool calls under way at the same time
  MaxCommands,  \* bound: commands ever given
  MaxCalls      \* bound: calls ever made

ASSUME McpBounds == {MaxCommands, MaxCalls} \subseteq Nat

VARIABLES
  server,    \* the entry: status ("removed": none), spec, disabled, client, tools
  task,      \* per command: where it is, its specification and client, and what
             \*   follows (the terminal and web commands are two in a row)
  call,      \* per tool call: where it is, the catalog of its tool, its client
  commands, calls,  \* counters
  crossed,   \* history: a specification changed while something was under way
  lost,      \* history: a call was aborted while it held the client
  broken,    \* history: a connection ended, and its client may still come back
  abandoned  \* history: a connecting command was dropped

mcpHistory == <<crossed, lost, broken, abandoned>>
mcpVars == <<server, task, call, commands, calls, mcpHistory>>

Specs == 0 .. MaxCommands + 1
Nothing == 0

Clients == [spec : Specs, closed : BOOLEAN]
NoClient == [spec |-> Nothing, closed |-> FALSE]

Status == {"removed", "disconnected", "connecting", "connected", "failed"}
Server == [status : Status, spec : Specs, disabled : BOOLEAN,
           client : Clients, tools : Specs]

Idle == [at |-> "idle", spec |-> Nothing, client |-> NoClient, next |-> "idle"]
Task == [at : {"idle", "refresh", "connect", "discover", "disconnect"}, spec : Specs,
         client : Clients, next : {"idle", "refresh", "disconnect"}]

NoCall == [at |-> "idle", tools |-> Nothing, client |-> NoClient]
Call == [at : {"idle", "found", "calling"}, tools : Specs, client : Clients]

\* McpRegistry::new, and a server of the configuration
McpInit ==
  /\ \E disabled \in BOOLEAN :
       server = [status |-> "disconnected", spec |-> 1, disabled |-> disabled,
                 client |-> NoClient, tools |-> Nothing]
  /\ task = [k \in Tasks |-> Idle] /\ call = [c \in Callers |-> NoCall]
  /\ commands = 0 /\ calls = 0
  /\ crossed = FALSE /\ lost = FALSE /\ broken = FALSE /\ abandoned = FALSE

Known == server.status # "removed"

\* a command is given by a frontend, or goes on where it is
BeginCommand(k) == task[k].at = "idle" /\ commands < MaxCommands /\ commands' = commands + 1
Resume(k, at) == task[k].at = at /\ UNCHANGED commands
Enter(k, at) == BeginCommand(k) \/ Resume(k, at)

Follow(k, next) == task' = [task EXCEPT ![k] = [Idle EXCEPT !.at = next]]
EndCommand(k) == Follow(k, "idle")

-----------------------------------------------------------------------------
(* upsert_server, remove_server, disconnect_server, toggle_server *)

OthersUnderWay(k) == (\E j \in Tasks \ {k} : task[j].at # "idle") \/ \E c \in Callers : call[c].at # "idle"

\* a new specification; who switches a server on or off writes it again with
\* the flag, and then refreshes or disconnects once more
Respecify(k) ==
  \E disabled \in BOOLEAN, next \in {"idle", "refresh", "disconnect"} :
    /\ next # "idle" => (next = "disconnect") = disabled
    /\ server' = [status |-> "disconnected", spec |-> server.spec + 1, disabled |-> disabled,
                  client |-> NoClient, tools |-> Nothing]
    /\ task' = [task EXCEPT ![k] = IF disabled THEN [Idle EXCEPT !.at = next]
                                   ELSE [Idle EXCEPT !.at = "refresh", !.next = next]]

UpsertKeepsClient(k) ==  \* Mutant: the entry of a known server keeps its old client
  /\ BeginCommand(k)
  /\ \E disabled \in BOOLEAN :
       /\ server' = [server EXCEPT !.status = "disconnected", !.spec = server.spec + 1,
                                   !.disabled = disabled, !.tools = Nothing]
       /\ Follow(k, IF disabled THEN "idle" ELSE "refresh")
  /\ crossed' = (crossed \/ OthersUnderWay(k))
  /\ UNCHANGED <<call, calls, lost, broken, abandoned>>
Upsert(k) ==
  /\ BeginCommand(k)
  /\ Respecify(k)
  /\ crossed' = (crossed \/ OthersUnderWay(k))
  /\ UNCHANGED <<call, calls, lost, broken, abandoned>>

Remove(k) ==
  /\ BeginCommand(k) /\ Known
  /\ server' = [server EXCEPT !.status = "removed", !.client = NoClient, !.tools = Nothing]
  /\ EndCommand(k)
  /\ UNCHANGED <<call, calls, mcpHistory>>

Disconnect(k) ==
  /\ Enter(k, "disconnect")
  /\ IF Known
     THEN server' = [server EXCEPT !.status = "disconnected", !.client = NoClient, !.tools = Nothing]
     ELSE UNCHANGED server
  /\ EndCommand(k)
  /\ UNCHANGED <<call, calls, mcpHistory>>

\* the status is read first and acted upon later
Toggle(k) ==
  /\ BeginCommand(k) /\ Known
  /\ Follow(k, IF server.status \in {"connected", "connecting"} THEN "disconnect" ELSE "refresh")
  /\ UNCHANGED <<server, call, calls, mcpHistory>>

-----------------------------------------------------------------------------
(* refresh_server *)

\* the client in the entry is used again unless it is closed
Refresh(k) ==
  /\ Enter(k, "refresh") /\ Known
  /\ server' = [server EXCEPT !.status = "connecting", !.disabled = FALSE, !.client = NoClient]
  /\ task' = IF server.client = NoClient \/ server.client.closed
             THEN [task EXCEPT ![k].at = "connect", ![k].spec = server.spec]
             ELSE [task EXCEPT ![k].at = "discover", ![k].spec = server.spec,
                               ![k].client = server.client]
  /\ UNCHANGED <<call, calls, mcpHistory>>

RefreshUnknown(k) ==
  /\ Resume(k, "refresh") /\ ~Known
  /\ EndCommand(k)
  /\ UNCHANGED <<server, call, calls, mcpHistory>>

Connect(k) ==
  /\ Resume(k, "connect")
  /\ task' = [task EXCEPT ![k].at = "discover",
                          ![k].client = [spec |-> task[k].spec, closed |-> FALSE]]
  /\ UNCHANGED <<server, call, calls, mcpHistory>>

\* mark_failed, whatever the entry holds by now: the command's client is
\* closed, and so is the entry's
Fails(k, at) ==
  /\ Resume(k, at)
  /\ server' = IF Known THEN [server EXCEPT !.status = "failed", !.client = NoClient, !.tools = Nothing]
               ELSE server
  /\ EndCommand(k)
  /\ UNCHANGED <<call, calls, mcpHistory>>

ConnectFails(k) == Fails(k, "connect")

DiscoveryIsForgotten(k) ==  \* Mutant: the error leaves the entry as it is
  /\ Resume(k, "discover")
  /\ EndCommand(k)
  /\ UNCHANGED <<server, call, calls, mcpHistory>>
DiscoveryFails(k) == Fails(k, "discover")

\* list_all_tools, then store_connection over whatever the entry holds; a
\* command in two parts then refreshes again
StoreConnection(k) ==
  /\ Resume(k, "discover")
  /\ server' = IF Known THEN [server EXCEPT !.status = "connected", !.client = task[k].client,
                                            !.tools = task[k].client.spec]
               ELSE server
  /\ Follow(k, task[k].next)
  /\ lost' = FALSE
  /\ broken' = (server'.client.closed \/ \E c \in Callers : call[c].client.closed)
  /\ UNCHANGED <<call, calls, crossed, abandoned>>

\* a web request that is dropped with its connection takes the client with it
Abandon(k) ==
  /\ task[k].at \in {"connect", "discover"}
  /\ EndCommand(k)
  /\ abandoned' = TRUE
  /\ UNCHANGED <<server, call, commands, calls, crossed, lost, broken>>

-----------------------------------------------------------------------------
(* execute_target, execute_arguments *)

Find(c) ==
  /\ call[c].at = "idle" /\ calls < MaxCalls
  /\ server.status = "connected"
  /\ calls' = calls + 1
  /\ call' = [call EXCEPT ![c] = [at |-> "found", tools |-> server.tools, client |-> NoClient]]
  /\ UNCHANGED <<server, task, commands, mcpHistory>>

\* the client leaves the entry until the server has answered
Take(c) ==
  /\ call[c].at = "found" /\ server.client # NoClient
  /\ call' = [call EXCEPT ![c].at = "calling", ![c].client = server.client]
  /\ server' = [server EXCEPT !.client = NoClient]
  /\ UNCHANGED <<task, commands, calls, mcpHistory>>

NotConnected(c) ==
  /\ call[c].at = "found" /\ server.client = NoClient
  /\ call' = [call EXCEPT ![c] = NoCall]
  /\ UNCHANGED <<server, task, commands, calls, mcpHistory>>

\* restore_client, after an answer and after an error: a closed client too
RestoreNever(c) ==  \* Mutant: an error loses the client
  /\ call[c].at = "calling"
  /\ call' = [call EXCEPT ![c] = NoCall]
  /\ UNCHANGED <<server, task, commands, calls, mcpHistory>>
Restore(c) ==
  /\ call[c].at = "calling"
  /\ server' = IF server.status = "connected" /\ server.client = NoClient
               THEN [server EXCEPT !.client = call[c].client] ELSE server
  /\ call' = [call EXCEPT ![c] = NoCall]
  /\ UNCHANGED <<task, commands, calls, mcpHistory>>

\* the scheduler, a cancelled loop or Code Mode's time limit drops the call
AbortCall(c) ==
  /\ call[c].at # "idle"
  /\ lost' = (lost \/ call[c].at = "calling")
  /\ call' = [call EXCEPT ![c] = NoCall]
  /\ UNCHANGED <<server, task, commands, calls, crossed, broken, abandoned>>

\* the server's process ends, or the connection: whoever holds the client
Break ==
  /\ \/ /\ server.client # NoClient /\ ~server.client.closed
        /\ server' = [server EXCEPT !.client.closed = TRUE] /\ UNCHANGED <<task, call>>
     \/ \E k \in Tasks :
          /\ task[k].at = "discover" /\ ~task[k].client.closed
          /\ task' = [task EXCEPT ![k].client.closed = TRUE] /\ UNCHANGED <<server, call>>
     \/ \E c \in Callers :
          /\ call[c].at = "calling" /\ ~call[c].client.closed
          /\ call' = [call EXCEPT ![c].client.closed = TRUE] /\ UNCHANGED <<server, task>>
  /\ broken' = TRUE
  /\ UNCHANGED <<commands, calls, crossed, lost, abandoned>>

-----------------------------------------------------------------------------
Run(k) ==
  \/ Disconnect(k) \/ Refresh(k) \/ RefreshUnknown(k)
  \/ Connect(k) \/ ConnectFails(k) \/ StoreConnection(k) \/ DiscoveryFails(k)

Command(k) == Upsert(k) \/ Remove(k) \/ Toggle(k) \/ Run(k) \/ Abandon(k)

ToolCall(c) == Find(c) \/ Take(c) \/ NotConnected(c) \/ Restore(c) \/ AbortCall(c)

McpNext ==
  \/ \E k \in Tasks : Command(k)
  \/ \E c \in Callers : ToolCall(c)
  \/ Break

\* what a command has begun goes on: it runs as a task of its own, and
\* connecting and discovering have time limits
McpFairness == \A k \in Tasks : WF_mcpVars(task[k].at # "idle" /\ Run(k))

McpSpec == McpInit /\ [][McpNext]_mcpVars /\ McpFairness

-----------------------------------------------------------------------------
\* Type invariant of the entry, its clients, the commands and the calls.
McpTypeOK ==
  /\ server \in Server
  /\ task \in [Tasks -> Task] /\ call \in [Callers -> Call]
  /\ commands \in 0 .. MaxCommands /\ calls \in 0 .. MaxCalls
  /\ {crossed, lost, broken, abandoned} \subseteq BOOLEAN

\* A connected server has a client in its entry whose connection is open, or a
\* call holds such a one and will put it back: whatever commands and failures come in
\* between, the entry is left connected and unusable only by a call that was
\* aborted, or by a connection that ended since the last refresh, or before it
\* while a call held the client (it is put back closed, mcp.rs:1088).
ConnectedHasClient ==
  server.status = "connected" =>
    \/ server.client # NoClient /\ ~server.client.closed
    \/ \E c \in Callers : call[c].at = "calling" /\ ~call[c].client.closed
    \/ lost \/ broken

\* A client that may be called is one of the present specification, and so are
\* the tools offered for it; a disabled server has none; and no call asks a
\* client for a tool of another specification.  Only a specification that
\* changes while commands or calls are under way can break this: an older
\* client may then come back (restore_client, store_connection).
ClientsAreCurrent ==
  ~crossed =>
    /\ server.client # NoClient =>
         /\ server.status = "connected" /\ ~server.disabled
         /\ server.client.spec = server.spec /\ server.tools = server.spec
    /\ \A c \in Callers : call[c].at = "calling" => call[c].client.spec = call[c].tools

\* A server that is connecting becomes connected, failed or disconnected,
\* unless a command was dropped on the way: wait_until_ready and the terminal's
\* redrawing depend on it.
ConnectingEnds ==
  server.status = "connecting" /\ ~abandoned ~> server.status # "connecting" \/ abandoned
=============================================================================
