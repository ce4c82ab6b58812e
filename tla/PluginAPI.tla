------------------------------ MODULE PluginAPI ------------------------------
(***************************************************************************)
(* The broker between an external plugin and the Core (plugin/external/    *)
(* broker.go, permissions.go, events.go).  A request of the plugin is      *)
(* authorised against a snapshot, and carried out later, after commands of *)
(* other frontends have changed the layout: the check is therefore made    *)
(* again, for the resources the operation reaches by then, in the turn of  *)
(* the executor that runs it (ExecuteChecked), or under the lock of the    *)
(* terminals (CheckOperation).  The plugin sees the part of the state its  *)
(* grants cover, and is told of the commands that change that part for as  *)
(* long as relayEvents can follow the events of the Core.                  *)
(*                                                                         *)
(* The API of one session is served by one goroutine, so at most one       *)
(* request is under way.  The grants are those of the capability that the  *)
(* method needs; a plugin that did not declare it is refused at once.      *)
(***************************************************************************)
EXTENDS CoreState

CONSTANTS
  Scopes,      \* the granted scopes a session may have
  CallLimit,   \* bound on the requests of the plugin
  OtherLimit,  \* bound on the commands of the other frontends
  NoRequest

\* There is room for the two objects of each kind that the model starts with.
ASSUME APIAssumption ==
  /\ Scopes \subseteq {"all", "pane", "workspace", "context"}
  /\ CallLimit \in Nat /\ OtherLimit \in Nat
  /\ WorkspaceLimit >= 3 /\ WindowLimit >= 3 /\ PaneLimit >= 3

VARIABLES
  grants,    \* the scopes granted to the session
  context,   \* the context of the invocation under way
  request,   \* the request the session is serving
  tools,     \* the panes that show the plugin's one tool instance
  terminal,  \* Pane.Terminal.ID, 0 for none
  effect,    \* what the last operation outside the Core reached
  relay,     \* whether relayEvents follows the events of the Core
  calls, others

apiVars == <<grants, context, request, tools, terminal, effect, relay, calls, others>>

Resource(kind, id) == [kind |-> kind, id |-> id]
Pane(p) == Resource("pane", p)
Window(w) == Resource("window", w)
Workspace(ws) == Resource("workspace", ws)

\* The context of a call that names no token; context scopes do not match it.
NoContext == [token |-> FALSE, pane |-> 0, window |-> 0, workspace |-> 0,
              terminal |-> 0]

PanesIn(w) == {p \in panes : paneWindow[p] = w}
-----------------------------------------------------------------------------
(* Permissions                                                             *)

\* A temporary editor is no resource of the API.
ResourceExists(r) ==
  CASE r.kind = "pane"      -> r.id \in panes \ transient
    [] r.kind = "window"    -> r.id \in windows
    [] r.kind = "workspace" -> r.id \in Workspaces

\* The workspace a resource belongs to now; what is stashed belongs to none.
WindowBelongs(w) ==
  IF w \in windows /\ ~ IsStashedWindow(w) THEN windowWorkspace[w] ELSE 0
WorkspaceOf(r) ==
  CASE r.kind = "workspace" -> r.id
    [] r.kind = "window"    -> WindowBelongs(r.id)
    [] r.kind = "pane"      -> IF IsStashedPane(r.id) THEN 0
                               ELSE WindowBelongs(paneWindow[r.id])

\* The grants that name identifiers name pane 1 and workspace 1.
InScope(scope, r, c) ==
  CASE scope = "all"       -> TRUE
    [] scope = "pane"      -> r = Pane(1)
    [] scope = "workspace" -> WorkspaceOf(r) = 1
    [] scope = "context"   -> /\ c.token
                              /\ r \in {Pane(c.pane), Window(c.window),
                                        Workspace(c.workspace)}

Allowed(r, c) == ResourceExists(r) /\ \E scope \in grants : InScope(scope, r, c)

\* filterSnapshot and filterLayout: what the plugin is shown
View(c) ==
  LET shown == {p \in panes : Allowed(Pane(p), c)}
      seen(w) == Allowed(Window(w), c)
  IN [panes |-> {[id |-> p, terminal |-> terminal[p],
                  window |-> IF IsStashedPane(p) THEN 0 ELSE paneWindow[p]]
                   : p \in shown},
      windows |-> {[id |-> w, name |-> windowName[w],
                    workspace |-> WindowBelongs(w),
                    layout |-> SelectSeq(layout[w], LAMBDA p : p \in shown)]
                     : w \in {v \in windows : seen(v)}},
      workspaces |-> {[id |-> ws, name |-> workspaceName[ws],
                       windows |-> SelectSeq(windowIDs[ws], seen)]
                        : ws \in {v \in Workspaces : Allowed(Workspace(v), c)}}]

-----------------------------------------------------------------------------
(* The commands of the API and of the frontends                            *)

LayoutCommands ==
  [kind : {"workspace.create"}, name : Names]
  \cup [kind : {"workspace.rename", "window.create"}, workspace : WorkspaceID,
        name : Names]
  \cup [kind : {"workspace.delete"}, workspace : WorkspaceID]
  \cup [kind : {"window.rename"}, window : WindowID, name : Names]
  \cup [kind : {"window.delete", "window.stash", "resize", "create-tool"},
        window : WindowID]
  \cup [kind : {"window.restore"}, window : WindowID, workspace : WorkspaceID]
  \cup [kind : {"pane.restore", "move-pane"}, pane : PaneID, window : WindowID,
        target : PaneID \cup {0}]
  \cup [kind : {"split-tool", "stash-pane", "close"}, pane : PaneID]

\* One turn of the executor.  A resize changes weights only.
Do(m) ==
  \/ m.kind = "workspace.create" /\ CreateWorkspace(m.name)
  \/ m.kind = "workspace.rename" /\ RenameWorkspace(m.workspace, m.name)
  \/ m.kind = "workspace.delete" /\ DeleteWorkspace(m.workspace)
  \/ m.kind = "window.create" /\ CreateWindow(m.workspace, m.name)
  \/ m.kind = "window.rename" /\ RenameWindow(m.window, m.name)
  \/ m.kind = "window.delete" /\ DeleteWindow(m.window)
  \/ m.kind = "window.stash" /\ StashWindow(m.window)
  \/ m.kind = "window.restore" /\ RestoreWindowTo(m.window, m.workspace)
  \/ m.kind = "resize" /\ Len(layout[m.window]) > 1 /\ UNCHANGED vars
  \/ m.kind = "create-tool" /\ CreatePane(m.window, nextPaneID)
  \/ m.kind = "split-tool" /\ SplitPane(m.pane, nextPaneID)
  \/ m.kind = "pane.restore" /\ RestorePaneTo(m.pane, m.window, m.target)
  \/ /\ m.kind = "move-pane"
     /\ IF m.window = paneWindow[m.pane] THEN MovePaneWithin(m.pane, m.target)
        ELSE MovePaneAcross(m.pane, m.window, m.target)
  \/ m.kind = "stash-pane" /\ StashPane(m.pane)
  \/ m.kind = "close" /\ ClosePane(m.pane)

\* ApplyEvent rejects the event of a new window: the event does not put the
\* window into the list of its workspace (validateHierarchy).
Rejected(m) == m.kind = "window.create"

\* relayEvents: at an event it cannot apply it fails the peer and returns.
Relay(m) ==
  relay' = IF relay = "follows" /\ Rejected(m) THEN "rejects" ELSE relay

\* The failure of the peer ends its goroutines: no request is read any more.
\* The one under way may still be carried out.
FailPeer ==
  /\ relay = "rejects"
  /\ relay' = "ended"
  /\ UNCHANGED <<vars, grants, context, request, tools, terminal, effect, calls, others>>
-----------------------------------------------------------------------------
(* What an operation needs to be allowed                                   *)

OtherCommands ==
  [kind : {"label"}, on : {Pane(p) : p \in PaneID} \cup {Window(w) : w \in WindowID}]
  \cup [kind : {"tool.state"}]
  \cup [kind : {"attention", "terminal.change"}, pane : PaneID]
  \cup [kind : {"terminal.new"}, window : WindowID, target : PaneID \cup {0}]
  \cup [kind : {"pty.input"}, pane : PaneID, terminal : 1 .. PaneLimit]

TargetPane(t) == IF t = 0 THEN {} ELSE {Pane(t)}

\* The resources the request names
Named(m) ==
  CASE m.kind \in {"workspace.create", "tool.state"} -> {}
    [] m.kind \in {"workspace.rename", "workspace.delete", "window.create"} ->
         {Workspace(m.workspace)}
    [] m.kind \in {"window.rename", "window.delete", "window.stash", "resize",
                   "create-tool"} -> {Window(m.window)}
    [] m.kind = "window.restore" -> {Window(m.window), Workspace(m.workspace)}
    [] m.kind \in {"pane.restore", "move-pane"} ->
         {Pane(m.pane), Window(m.window)} \cup TargetPane(m.target)
    [] m.kind \in {"split-tool", "stash-pane", "close", "attention", "pty.input",
                   "terminal.change"} -> {Pane(m.pane)}
    [] m.kind = "terminal.new" -> {Window(m.window)} \cup TargetPane(m.target)
    [] m.kind = "label" -> {m.on}

\* The others it reaches as the layout is now: the dynamic sets
ReachNothing(m) == {}
Reached(m) ==
  CASE m.kind \in {"window.stash", "window.restore", "resize"} ->
         {Pane(p) : p \in PanesIn(m.window)}
    [] m.kind = "move-pane" -> {Window(paneWindow[m.pane])}
    [] m.kind = "tool.state" -> {Pane(p) : p \in tools}
    [] OTHER -> {}

\* A resize is admitted for the leaves of the layout.
Found(m) ==
  IF m.kind = "resize" THEN {Pane(p) : p \in ToSet(layout[m.window])}
  ELSE Reached(m)

\* What else the broker demands of a request
Wellformed(m, c) ==
  /\ m.kind = "workspace.create" => "all" \in grants
  /\ m.kind = "tool.state" => tools # {}
  /\ m.kind = "resize" => Len(layout[m.window]) > 1
  /\ m.kind = "close" => m.pane \in tools
  /\ m.kind = "pty.input" =>
       /\ c.token
       /\ m.pane = c.pane
       /\ m.terminal = c.terminal
       /\ terminal[m.pane] = m.terminal
-----------------------------------------------------------------------------
(* Invocations                                                             *)

\* captureInvocation: a context keeps the resources of the call it was made
\* for; what is stashed has no parents.
Capture(p) ==
  /\ ~ context.token
  /\ calls < CallLimit
  /\ p \in panes
  /\ context' = [token |-> TRUE, pane |-> p,
                 window |-> IF IsStashedPane(p) THEN 0 ELSE paneWindow[p],
                 workspace |-> WorkspaceOf(Pane(p)),
                 terminal |-> terminal[p]]
  /\ UNCHANGED <<vars, grants, request, tools, terminal, effect, relay, calls, others>>

\* releaseContext; the request under way learns of it asynchronously
\* (context.AfterFunc), and may still be carried out.
ReleaseContext ==
  /\ context.token
  /\ context' = NoContext
  /\ UNCHANGED <<vars, grants, request, tools, terminal, effect, relay, calls, others>>

Idle == request = NoRequest

Admit(m, c) ==
  /\ Idle
  /\ relay # "ended"
  /\ calls < CallLimit
  /\ Wellformed(m, c)
  /\ \A r \in Named(m) \cup Found(m) : Allowed(r, c)
  /\ request' = [command |-> m, context |-> c, needs |-> Named(m) \cup Found(m)]
  /\ effect' = {}
  /\ calls' = calls + 1
  /\ UNCHANGED <<vars, grants, context, tools, terminal, relay, others>>

\* The check ExecuteChecked and CheckOperation run
StillAllowed ==
  \A r \in request.needs \cup Reached(request.command) : Allowed(r, request.context)

\* A command of the Core; a pane the plugin creates shows its tool.
ApplyCommand ==
  /\ ~ Idle
  /\ request.command \in LayoutCommands
  /\ StillAllowed
  /\ Do(request.command)
  /\ Relay(request.command)
  /\ request' = NoRequest
  /\ tools' = (tools \cup (panes' \ panes)) \cap panes'
  /\ UNCHANGED <<grants, context, terminal, effect, calls, others>>

\* Labels, attentions, the state of the tool, and what the daemon does to a
\* terminal.  Input is for the terminal the pane has now.
HoldsTerminal(p, t) == terminal[p] = t

ApplyOther ==
  LET m == request.command IN
  /\ ~ Idle
  /\ m \in OtherCommands
  /\ StillAllowed
  /\ m.kind = "tool.state" => tools # {}
  /\ m.kind = "pty.input" => HoldsTerminal(m.pane, m.terminal)
  /\ effect' = IF m.kind = "pty.input" THEN {Resource("terminal", m.terminal)}
               ELSE Named(m) \cup Reached(m)
  /\ request' = NoRequest
  /\ UNCHANGED <<vars, grants, context, tools, terminal, relay, calls, others>>

\* A permission is gone, the command fails, the invocation is cancelled, or
\* the time of the request is over.
Refuse ==
  /\ ~ Idle
  /\ request' = NoRequest
  /\ UNCHANGED <<vars, grants, context, tools, terminal, effect, relay, calls, others>>
-----------------------------------------------------------------------------
(* The other frontends                                                     *)

\* The model stops with the last request.
Others ==
  /\ others < OtherLimit
  /\ calls < CallLimit \/ ~ Idle
  /\ others' = others + 1
  /\ UNCHANGED <<grants, context, request, effect, calls>>

\* A pane they create may be another view of the plugin's tool.
OtherCommand(m) ==
  /\ Others
  /\ Do(m)
  /\ Relay(m)
  /\ tools' \in {tools \cap panes', (tools \cup (panes' \ panes)) \cap panes'}
  /\ UNCHANGED terminal

OpenEditor(w) ==
  /\ Others
  /\ CreateTransientPane(w, nextPaneID)
  /\ UNCHANGED <<tools, terminal, relay>>

\* The terminal of a pane is started again: it is another terminal.
RestartTerminal(p) ==
  /\ Others
  /\ terminal[p] # 0
  /\ terminal' = [terminal EXCEPT ![p] = PaneLimit]
  /\ UNCHANGED <<vars, tools, relay>>
-----------------------------------------------------------------------------
\* Two workspaces with a window each.  Pane 2 is beside pane 1, in the other
\* window, or stashed, alone or with that window.  A pane shows the tool, or
\* holds a terminal.
APIInit ==
  /\ nextWorkspaceID = 3 /\ nextWindowID = 3 /\ nextPaneID = 3
  /\ workspaceOrder = <<1, 2>>
  /\ \E n \in Names \ {DefaultName} :
       workspaceName = [ws \in WorkspaceID |-> IF ws = 1 THEN DefaultName
                                               ELSE IF ws = 2 THEN n ELSE NoName]
  /\ windows = {1, 2}
  /\ windowName = [w \in WindowID |-> IF w \in 1 .. 2 THEN DefaultName ELSE NoName]
  /\ windowWorkspace = [w \in WindowID |-> IF w \in 1 .. 2 THEN w ELSE 0]
  /\ panes = {1, 2}
  /\ \E second \in {"beside", "apart", "stashed", "hidden"} :
       /\ paneWindow = [p \in PaneID |-> IF p = 1 THEN 1
                           ELSE IF p = 2 THEN IF second \in {"beside", "stashed"} THEN 1 ELSE 2
                           ELSE 0]
       /\ layout = [w \in WindowID |->
                      IF w = 1 THEN IF second = "beside" THEN <<1, 2>> ELSE <<1>>
                      ELSE IF w = 2 /\ paneWindow[2] = 2 THEN <<2>> ELSE <<>>]
       /\ stashedPanes = [p \in PaneID |->
            IF p = 2 /\ second = "stashed"
            THEN [workspace |-> 1, window |-> 1, target |-> 1, side |-> "after"]
            ELSE NoPaneHint]
       /\ stashedWindows = [w \in WindowID |->
            IF w = 2 /\ second = "hidden" THEN [workspace |-> 2, index |-> 0]
            ELSE NoWindowHint]
  /\ windowIDs = [ws \in WorkspaceID |->
                    IF ws = 1 \/ (ws = 2 /\ ~ IsStashedWindow(2)) THEN <<ws>> ELSE <<>>]
  /\ transient = {}
  /\ frontends = {}
  /\ focus = [f \in Frontends |-> NoFocus]
  /\ tools \in {{1}, {1, 2}}
  /\ terminal = [p \in PaneID |-> IF p \in panes \ tools THEN p ELSE 0]
  /\ grants \in {{scope} : scope \in Scopes} \cup {Scopes \ {"all"}}
  /\ context = NoContext
  /\ request = NoRequest
  /\ effect = {} /\ relay = "follows"
  /\ calls = 0 /\ others = 0

APINext ==
  \/ \E p \in PaneID : Capture(p)
  \/ ReleaseContext
  \/ \E m \in LayoutCommands \cup OtherCommands, c \in {NoContext, context} : Admit(m, c)
  \/ ApplyCommand
  \/ ApplyOther
  \/ Refuse
  \/ FailPeer
  \/ \E m \in LayoutCommands : OtherCommand(m)
  \/ \E w \in WindowID : OpenEditor(w)
  \/ \E p \in PaneID : RestartTerminal(p)

APISpec == APIInit /\ [][APINext]_<<vars, apiVars>>

APITypeOK ==
  /\ TypeOK
  /\ tools \subseteq panes
  /\ terminal \in [PaneID -> 0 .. PaneLimit]
  /\ relay \in {"follows", "rejects", "ended"}
-----------------------------------------------------------------------------
(* What a command changes: the panes, windows and workspaces it moves,     *)
(* hides, shows, renames or removes, the windows a pane leaves and enters  *)
(* and the workspaces a window leaves and enters.                          *)
Changed ==
  {Pane(p) : p \in {q \in panes :
     \/ q \notin panes'
     \/ paneWindow'[q] # paneWindow[q]
     \/ stashedPanes'[q] # stashedPanes[q]
     \/ stashedWindows'[paneWindow[q]] # stashedWindows[paneWindow[q]]}}
  \cup {Window(w) : w \in {v \in windows :
     \/ v \notin windows'
     \/ windowName'[v] # windowName[v]
     \/ stashedWindows'[v] # stashedWindows[v]
     \/ \E p \in panes \cap panes' :
          paneWindow'[p] # paneWindow[p] /\ v = paneWindow'[p]
     \/ \E p \in panes \cap panes' :
          /\ paneWindow'[p] # paneWindow[p]
          /\ v = paneWindow[p] /\ ~ IsStashedPane(p)}}
  \cup {Workspace(ws) : ws \in {v \in Workspaces :
     \/ workspaceName'[v] # workspaceName[v]
     \/ Len(windowIDs'[v]) > Len(windowIDs[v])}}

(* A plugin changes only what its grants cover at the moment of the        *)
(* change, whatever the other frontends moved, stashed, restored or        *)
(* created since the request was admitted: every pane of a window it hides *)
(* or shows, both ends of a move, every pane that shows the tool whose     *)
(* state it replaces (handleAPI, the rechecks of execute and invokeIO).    *)
(* What it types reaches the terminal its invocation was for, and only     *)
(* while the pane still holds it: a restart between the check and the      *)
(* write makes the input fail (pty.input, PluginOperation).                *)
AppliedWithinGrants ==
  [][ ~ Idle /\ Idle' =>
        \A r \in Changed \cup (effect' \ effect) :
          IF r.kind = "terminal"
          THEN r.id = request.context.terminal /\ r.id = terminal[request.context.pane]
          ELSE Allowed(r, request.context) ]_<<vars, apiVars>>

\* eventVisibleContext: the resources the event of a command is about
Subjects(m) ==
  CASE m.kind = "workspace.create" -> {Workspace(nextWorkspaceID)}
    [] m.kind \in {"workspace.rename", "workspace.delete"} -> {Workspace(m.workspace)}
    [] m.kind = "window.create" -> {Window(nextWindowID)}
    [] m.kind \in {"window.rename", "window.delete", "window.stash",
                   "window.restore", "resize"} -> {Window(m.window)}
    [] m.kind \in {"create-tool", "split-tool"} -> {Pane(nextPaneID)}
    [] m.kind = "move-pane" ->
         {Pane(m.pane), Window(paneWindow[m.pane]), Window(m.window)}
    [] m.kind \in {"pane.restore", "stash-pane", "close"} -> {Pane(m.pane)}

RelayedAfter(m, c) ==
  /\ relay = "follows" /\ ~ Rejected(m)
  /\ \E r \in Subjects(m) : Allowed(r, c)'
Relayed(m, c) ==
  /\ relay = "follows" /\ ~ Rejected(m)
  /\ \E r \in Subjects(m) : Allowed(r, c) \/ Allowed(r, c)'

\* A step changes what the plugin is shown and no event of it is sent.
LayoutChanges ==
  \/ layout # layout' \/ windowIDs # windowIDs' \/ windowVars # windowVars'
  \/ workspaceName # workspaceName' \/ paneVars # paneVars'
Unannounced(c) ==
  /\ LayoutChanges
  /\ View(c) # View(c)'
  /\ ~ \E m \in LayoutCommands : Do(m) /\ Relayed(m, c)

(* A plugin never goes on with a state that is silently out of date.  As   *)
(* long as the relay follows the events, whatever a command does to the    *)
(* part the plugin is shown is sent to it: a resource that enters or       *)
(* leaves its grants with a move, a stash or a restoration included        *)
(* (relayEvents, eventVisible and filterSnapshot agree).  The one command  *)
(* whose event it is not sent, the creation of a window, ends the relay    *)
(* and the peer with it (events.go:126-130, apply_event.go:25).            *)
ChangesAreAnnounced ==
  [][ relay = "follows" =>
        \/ \A c \in {NoContext, context} : ~ Unannounced(c)
        \/ windows \subseteq windows' /\ windows # windows' /\ relay' = "rejects"
    ]_<<vars, apiVars>>

(* What the protocol promises of events (plugin-protocol-v1.md:192-196): a *)
(* change of what the plugin is shown is sent to it.  The code fails the   *)
(* peer instead when anyone creates a window.                              *)
EveryChangeAnnounced ==
  [][ relay = "follows" =>
        \A c \in {NoContext, context} : ~ Unannounced(c) ]_<<vars, apiVars>>
=============================================================================
