------------------------------ MODULE CoreState ------------------------------
(***************************************************************************)
(* The domain state of internal/core and the commands that restructure it: *)
(* workspaces hold windows, a window holds a layout of panes, windows and  *)
(* panes can be stashed, and every connected frontend has a focus.         *)
(*                                                                         *)
(* One executor goroutine runs every command to completion (core.go:252),  *)
(* so a command is one atomic action.  A Go map lookup of a missing key    *)
(* yields the zero value; accordingly every attribute here is a total      *)
(* function that is 0, <<>> or a record of zeros where no object exists.   *)
(* A layout tree is abstracted to the sequence of its leaves in order: all *)
(* that the commands of this module read of a tree is its first leaf and   *)
(* the place of a leaf.  Split directions, weights and split identifiers   *)
(* are abstracted away.                                                    *)
(***************************************************************************)
EXTENDS IdentifierLists

CONSTANTS
  WorkspaceLimit,  \* the identifier at which allocation of each kind is
  WindowLimit,     \*   refused: math.MaxUint64 in the code, a bound of the
  PaneLimit,       \*   model
  Names,           \* names of workspaces and windows
  DefaultName,     \* the name of the first workspace and of its first window
  NoName,          \* the name of what does not exist
  Frontends,       \* slots for subscribed frontends
  Validated        \* whether Config.SnapshotValidator is set

ASSUME CoreAssumption ==
  /\ WorkspaceLimit \in Nat /\ WorkspaceLimit >= 2
  /\ WindowLimit \in Nat /\ WindowLimit >= 2
  /\ PaneLimit \in Nat /\ PaneLimit >= 1
  /\ DefaultName \in Names
  /\ NoName \notin Names
  /\ Validated \in BOOLEAN

WorkspaceID == 1 .. (WorkspaceLimit - 1)
WindowID == 1 .. (WindowLimit - 1)
PaneID == 1 .. (PaneLimit - 1)

VARIABLES
  nextWorkspaceID, nextWindowID, nextPaneID,
  workspaceOrder,  \* the existing workspaces, in order
  workspaceName,
  windowIDs,       \* Workspace.WindowIDs: the visible windows of a workspace
  windows,         \* the existing windows
  windowName,
  windowWorkspace, \* Window.WorkspaceID
  layout,          \* Window.Layout: the leaves from first to last
  stashedWindows,  \* the restore hint of a stashed window
  panes,           \* the existing panes
  paneWindow,      \* Pane.WindowID
  transient,       \* the panes with Pane.Transient
  stashedPanes,    \* the restore hint of a stashed pane
  frontends,       \* the subscribed frontends
  focus            \* FrontendState

idVars == <<nextWorkspaceID, nextWindowID, nextPaneID>>
workspaceVars == <<workspaceOrder, workspaceName, windowIDs>>
windowVars == <<windows, windowName, windowWorkspace, stashedWindows>>
paneVars == <<panes, paneWindow, transient, stashedPanes>>
frontendVars == <<frontends, focus>>
vars == <<idVars, workspaceVars, windowVars, layout, paneVars, frontendVars>>

NoWindowHint == [workspace |-> 0, index |-> 0]
NoPaneHint == [workspace |-> 0, window |-> 0, target |-> 0, side |-> "after"]
NoFocus == [workspace |-> 0, window |-> 0, pane |-> 0]

WindowHint == [workspace : 0 .. WorkspaceLimit, index : Nat]
PaneHint == [workspace : 0 .. WorkspaceLimit, window : 0 .. WindowLimit,
             target : 0 .. PaneLimit, side : Sides]
Focus == [workspace : 0 .. WorkspaceLimit, window : 0 .. WindowLimit,
          pane : 0 .. PaneLimit]

TypeOK ==
  /\ nextWorkspaceID \in 1 .. WorkspaceLimit
  /\ nextWindowID \in 1 .. WindowLimit
  /\ nextPaneID \in 1 .. PaneLimit
  /\ workspaceOrder \in Seq(WorkspaceID)
  /\ workspaceName \in [WorkspaceID -> Names \cup {NoName}]
  /\ windowIDs \in [WorkspaceID -> Seq(WindowID)]
  /\ windows \in SUBSET WindowID
  /\ windowName \in [WindowID -> Names \cup {NoName}]
  /\ windowWorkspace \in [WindowID -> WorkspaceID \cup {0}]
  /\ layout \in [WindowID -> Seq(PaneID)]
  /\ stashedWindows \in [WindowID -> WindowHint]
  /\ panes \in SUBSET PaneID
  /\ paneWindow \in [PaneID -> WindowID \cup {0}]
  /\ transient \in SUBSET PaneID
  /\ stashedPanes \in [PaneID -> PaneHint]
  /\ frontends \in SUBSET Frontends
  /\ focus \in [Frontends -> Focus]
-----------------------------------------------------------------------------
Workspaces == ToSet(workspaceOrder)
IsStashedWindow(w) == stashedWindows[w].workspace # 0
IsStashedPane(p) == stashedPanes[p].window # 0

\* visibleWindow
IsVisible(w) ==
  /\ w \in windows
  /\ ~ IsStashedWindow(w)
  /\ windowWorkspace[w] \in Workspaces
  /\ w \in ToSet(windowIDs[windowWorkspace[w]])

\* The first workspace that shows a window; 0 when none does.
FirstShowing ==
  LET showing == {i \in DOMAIN workspaceOrder :
                    windowIDs[workspaceOrder[i]] # <<>>}
  IN IF showing = {} THEN 0
     ELSE workspaceOrder[CHOOSE i \in showing : \A j \in showing : i <= j]

\* firstVisibleWindow; 0 when no window is visible
FirstVisibleWindow ==
  IF FirstShowing = 0 THEN 0 ELSE windowIDs[FirstShowing][1]

\* initialFrontendState
InitialFocus ==
  IF FirstShowing = 0
  THEN [NoFocus EXCEPT !.workspace = IF workspaceOrder = <<>> THEN 0
                                     ELSE workspaceOrder[1]]
  ELSE [workspace |-> FirstShowing,
        window    |-> FirstVisibleWindow,
        pane      |-> FirstPane(layout[FirstVisibleWindow])]
-----------------------------------------------------------------------------
(* What stateFromSnapshot accepts: names, and the hierarchy of the given   *)
(* set of panes.                                                           *)

DistinctNames ==
  /\ \A i, j \in DOMAIN workspaceOrder :
       workspaceName[workspaceOrder[i]] = workspaceName[workspaceOrder[j]]
         => i = j
  /\ \A v, w \in windows :
       windowName[v] = windowName[w] /\ windowWorkspace[v] = windowWorkspace[w]
         => v = w

\* Every window is listed by exactly one workspace, its own, or stashed.
WindowsPlaced ==
  /\ \A ws \in Workspaces : \A i, j \in DOMAIN windowIDs[ws] :
       /\ windowIDs[ws][i] \in windows
       /\ windowWorkspace[windowIDs[ws][i]] = ws
       /\ windowIDs[ws][i] = windowIDs[ws][j] => i = j
  /\ \A w \in windows :
       (\E ws \in Workspaces : w \in ToSet(windowIDs[ws]))
         <=> ~ IsStashedWindow(w)

\* Every pane is a leaf of exactly one layout, its window's, or stashed, and
\* never stashed together with its window.
PanesPlaced(P) ==
  /\ \A w \in windows : \A i, j \in DOMAIN layout[w] :
       /\ layout[w][i] \in P
       /\ paneWindow[layout[w][i]] = w
       /\ layout[w][i] = layout[w][j] => i = j
  /\ \A p \in P :
       /\ (\E w \in windows : p \in ToSet(layout[w])) <=> ~ IsStashedPane(p)
       /\ IsStashedPane(p) /\ paneWindow[p] \in windows
            => ~ IsStashedWindow(paneWindow[p])

Hierarchy == WindowsPlaced /\ PanesPlaced(panes)

SnapshotAccepted == DistinctNames /\ Hierarchy

\* persistentFromSnapshot drops the transient panes; Decode validates the rest.
PersistedAccepted ==
  DistinctNames /\ WindowsPlaced /\ PanesPlaced(panes \ transient)

\* The validated mutation of handle: cloneState validates the state before a
\* command, the daemon's validator (Encode) the state after it; otherwise the
\* command is rolled back and nothing happens.
NoValidator == TRUE
Commit == Validated => SnapshotAccepted /\ SnapshotAccepted'
-----------------------------------------------------------------------------
(* Repair of the frontends                                                 *)

\* The frontends of S start again from the initial focus of the new state.
ResetFocus(S) ==
  focus' = [f \in Frontends |-> IF f \in S THEN InitialFocus' ELSE focus[f]]

\* repairFrontendAfterPaneHidden: pane p of window w is gone from the screen.
KeepPaneFocus(p, w) == UNCHANGED focus
HidePane(p, w) ==
  focus' = [f \in Frontends |->
              IF f \in frontends /\ focus[f].pane = p
              THEN [focus[f] EXCEPT !.pane = FirstPane(layout'[w])]
              ELSE focus[f]]

FrontendsOnWorkspace(ws) == {f \in frontends : focus[f].workspace = ws}
FrontendsOnWindow(w) == {f \in frontends : focus[f].window = w}
-----------------------------------------------------------------------------
(* Workspaces and windows                                                  *)

CreateWorkspace(n) ==
  /\ \A ws \in Workspaces : workspaceName[ws] # n
  /\ nextWorkspaceID < WorkspaceLimit
  /\ nextWorkspaceID' = nextWorkspaceID + 1
  /\ workspaceOrder' = Append(workspaceOrder, nextWorkspaceID)
  /\ workspaceName' = [workspaceName EXCEPT ![nextWorkspaceID] = n]
  /\ UNCHANGED <<nextWindowID, nextPaneID, windowIDs, windowVars, layout,
                 paneVars, frontendVars>>

RenameWorkspace(ws, n) ==
  /\ ws \in Workspaces
  /\ \A other \in Workspaces \ {ws} : workspaceName[other] # n
  /\ workspaceName' = [workspaceName EXCEPT ![ws] = n]
  /\ UNCHANGED <<idVars, workspaceOrder, windowIDs, windowVars, layout,
                 paneVars, frontendVars>>

DeleteWorkspace(ws) ==
  /\ ws \in Workspaces
  /\ windowIDs[ws] = <<>>
  /\ Len(workspaceOrder) # 1
  /\ workspaceOrder' = Without(workspaceOrder, ws)
  /\ workspaceName' = [workspaceName EXCEPT ![ws] = NoName]
  /\ UNCHANGED <<idVars, windowIDs, windowVars, layout, paneVars, frontends>>
  /\ ResetFocus(FrontendsOnWorkspace(ws))

\* Only the visible windows of the workspace are compared with the name.
NameShown(ws, n, except) ==
  \E w \in ToSet(windowIDs[ws]) \ except : windowName[w] = n

CreateWindow(ws, n) ==
  /\ ws \in Workspaces
  /\ ~ NameShown(ws, n, {})
  /\ nextWindowID < WindowLimit
  /\ nextWindowID' = nextWindowID + 1
  /\ windows' = windows \cup {nextWindowID}
  /\ windowName' = [windowName EXCEPT ![nextWindowID] = n]
  /\ windowWorkspace' = [windowWorkspace EXCEPT ![nextWindowID] = ws]
  /\ windowIDs' = [windowIDs EXCEPT ![ws] = Append(@, nextWindowID)]
  /\ UNCHANGED <<nextWorkspaceID, nextPaneID, workspaceOrder, workspaceName,
                 stashedWindows, layout, paneVars, frontendVars>>

\* The workspace of a stashed window may be deleted: it then lists nothing.
RenameWindow(w, n) ==
  /\ w \in windows
  /\ ~ NameShown(windowWorkspace[w], n, {w})
  /\ windowName' = [windowName EXCEPT ![w] = n]
  /\ UNCHANGED <<idVars, workspaceVars, windows, windowWorkspace,
                 stashedWindows, layout, paneVars, frontendVars>>

DeleteWindow(w) ==
  /\ w \in windows
  /\ ~ IsStashedWindow(w)
  /\ layout[w] = <<>>
  /\ windowIDs' = [windowIDs EXCEPT ![windowWorkspace[w]] = Without(@, w)]
  /\ windows' = windows \ {w}
  /\ windowName' = [windowName EXCEPT ![w] = NoName]
  /\ windowWorkspace' = [windowWorkspace EXCEPT ![w] = 0]
  /\ UNCHANGED <<idVars, workspaceOrder, workspaceName, stashedWindows, layout,
                 paneVars, frontends>>
  /\ ResetFocus(FrontendsOnWindow(w))
-----------------------------------------------------------------------------
(* Panes                                                                   *)

\* allocatePaneID and paneFromSpec
AllocatePane(p) ==
  /\ nextPaneID < PaneLimit
  /\ p = nextPaneID

AddPane(p, w) ==
  /\ nextPaneID' = nextPaneID + 1
  /\ panes' = panes \cup {p}
  /\ paneWindow' = [paneWindow EXCEPT ![p] = w]
  /\ UNCHANGED <<nextWorkspaceID, nextWindowID, workspaceVars, windowVars,
                 frontendVars>>

CreatePane(w, p) ==
  /\ w \in windows
  /\ ~ IsStashedWindow(w)
  /\ layout[w] = <<>>
  /\ AllocatePane(p)
  /\ AddPane(p, w)
  /\ layout' = [layout EXCEPT ![w] = <<p>>]
  /\ UNCHANGED <<transient, stashedPanes>>

\* A pane whose window is stashed can neither be split, moved nor focused.
OnScreen(p) ==
  /\ p \in panes
  /\ ~ IsStashedPane(p)
  /\ ~ IsStashedWindow(paneWindow[p])

SplitPane(t, p) ==
  /\ OnScreen(t)
  /\ t \in ToSet(layout[paneWindow[t]])
  /\ AllocatePane(p)
  /\ AddPane(p, paneWindow[t])
  /\ layout' = [layout EXCEPT ![paneWindow[t]] = Beside(@, t, "after", p)]
  /\ UNCHANGED <<transient, stashedPanes>>

\* A temporary editor: a pane that starts its life in the stash.
CreateTransientPane(w, p) ==
  /\ w \in windows
  /\ ~ IsStashedWindow(w)
  /\ AllocatePane(p)
  /\ AddPane(p, w)
  /\ transient' = transient \cup {p}
  /\ stashedPanes' = [stashedPanes EXCEPT ![p] =
       [NoPaneHint EXCEPT !.workspace = windowWorkspace[w], !.window = w]]
  /\ UNCHANGED layout

\* movePane within its window: not the only pane, beside a target that
\* remains.
MovePaneWithin(p, t) ==
  LET w == paneWindow[p] IN
  /\ OnScreen(p)
  /\ p \in ToSet(layout[w])
  /\ t \in ToSet(layout[w]) \ {p}
  /\ layout' = [layout EXCEPT ![w] = Beside(Without(@, p), t, "after", p)]
  /\ UNCHANGED <<idVars, workspaceVars, windowVars, paneVars, frontendVars>>

\* movePane to another window; the frontends that focus the pane follow it.
MovePaneAcross(p, d, t) ==
  LET w == paneWindow[p] IN
  /\ OnScreen(p)
  /\ p \in ToSet(layout[w])
  /\ d \in windows \ {w}
  /\ ~ IsStashedWindow(d)
  /\ IF layout[d] = <<>> THEN t = 0 ELSE t \in ToSet(layout[d])
  /\ layout' = [layout EXCEPT ![w] = Without(@, p), ![d] = Beside(@, t, "after", p)]
  /\ paneWindow' = [paneWindow EXCEPT ![p] = d]
  /\ focus' = [f \in Frontends |->
                 IF f \in frontends /\ focus[f].pane = p
                 THEN [workspace |-> windowWorkspace[d], window |-> d, pane |-> p]
                 ELSE focus[f]]
  /\ UNCHANGED <<idVars, workspaceVars, windowVars, panes, transient,
                 stashedPanes, frontends>>

ClosePane(p) ==
  /\ p \in panes
  /\ IsStashedPane(p) \/ p \in ToSet(layout[paneWindow[p]])
  /\ layout' = [layout EXCEPT ![paneWindow[p]] =
                  IF IsStashedPane(p) THEN @ ELSE Without(@, p)]
  /\ panes' = panes \ {p}
  /\ paneWindow' = [paneWindow EXCEPT ![p] = 0]
  /\ transient' = transient \ {p}
  /\ stashedPanes' = [stashedPanes EXCEPT ![p] = NoPaneHint]
  /\ UNCHANGED <<idVars, workspaceVars, windowVars, frontends>>
  /\ HidePane(p, paneWindow[p])
-----------------------------------------------------------------------------
(* The stash                                                               *)

\* paneStashHint: the neighbour to restore beside.  The first child of a
\* split is restored before its next sibling, whose first leaf is the next
\* leaf; another child after the first leaf of its previous sibling, which is
\* an earlier leaf, depending on the tree.  A lone pane has no neighbour.
Neighbours(s, p) ==
  LET i == IndexIn(s, p) IN
  IF Len(s) = 1 THEN {[target |-> 0, side |-> "after"]}
  ELSE {[target |-> s[j], side |-> "after"] : j \in 1 .. (i - 1)}
         \cup {[target |-> s[j], side |-> "before"] : j \in {i + 1} \cap DOMAIN s}

StashPane(p) ==
  LET w == paneWindow[p] IN
  /\ OnScreen(p)
  /\ p \in ToSet(layout[w])
  /\ \E n \in Neighbours(layout[w], p) :
       stashedPanes' = [stashedPanes EXCEPT ![p] =
         [workspace |-> windowWorkspace[w], window |-> w,
          target |-> n.target, side |-> n.side]]
  /\ layout' = [layout EXCEPT ![w] = Without(@, p)]
  /\ UNCHANGED <<idVars, workspaceVars, windowVars, panes, paneWindow,
                 transient, frontends>>
  /\ HidePane(p, w)

\* defaultRestorePlacement and validateRestorePlacement
Placement(w, t, side) == [window |-> w, target |-> t, side |-> side]
DefaultPlacement(w) == Placement(w, FirstPane(layout[w]), "after")
Placements(w) ==
  IF layout[w] = <<>> THEN {Placement(w, 0, "after")}
  ELSE {Placement(w, t, "after") : t \in ToSet(layout[w])}

NoPlacement == Placement(0, 0, "after")

\* restorePaneDestination without an explicit window, as requested by
\* frontend f: the place it came from, else the window f looks at, else the
\* first visible window.
OriginOnly(p, f) ==
  LET hint == stashedPanes[p] IN
  IF IsVisible(hint.window)
     /\ (layout[hint.window] = <<>> \/ hint.target \in ToSet(layout[hint.window]))
  THEN Placement(hint.window, hint.target, hint.side)
  ELSE NoPlacement

HintedPlacement(p, f) ==
  LET hint == stashedPanes[p] IN
  IF IsVisible(hint.window) /\ layout[hint.window] = <<>>
  THEN Placement(hint.window, 0, "after")
  ELSE IF IsVisible(hint.window) /\ hint.target \in ToSet(layout[hint.window])
  THEN Placement(hint.window, hint.target, hint.side)
  ELSE IF f \in frontends /\ IsVisible(focus[f].window)
  THEN DefaultPlacement(focus[f].window)
  ELSE IF FirstVisibleWindow # 0 THEN DefaultPlacement(FirstVisibleWindow)
  ELSE NoPlacement

\* A temporary editor does not come back, and a window must be there.
CanRestore(p, place) ==
  /\ p \in panes \ transient
  /\ IsStashedPane(p)
  /\ place.window # 0

RestoreAt(p, place) ==
  /\ CanRestore(p, place)
  /\ layout' = [layout EXCEPT ![place.window] =
                  Beside(@, place.target, place.side, p)]
  /\ paneWindow' = [paneWindow EXCEPT ![p] = place.window]
  /\ stashedPanes' = [stashedPanes EXCEPT ![p] = NoPaneHint]
  /\ UNCHANGED <<idVars, workspaceVars, windowVars, panes, transient,
                 frontendVars>>

RestorePane(p, f) == RestoreAt(p, HintedPlacement(p, f))

RestorePaneTo(p, w, t) ==
  /\ IsVisible(w)
  /\ Placement(w, t, "after") \in Placements(w)
  /\ RestoreAt(p, Placement(w, t, "after"))

\* A window keeps out of the stash while one of its panes is there alone.
IgnorePaneStash(w) == FALSE
HasStashedPanes(w) == \E p \in panes : stashedPanes[p].window = w

StashWindow(w) ==
  LET ws == windowWorkspace[w] IN
  /\ w \in windows
  /\ ~ IsStashedWindow(w)
  /\ ~ HasStashedPanes(w)
  /\ ws \in Workspaces
  /\ w \in ToSet(windowIDs[ws])
  /\ stashedWindows' = [stashedWindows EXCEPT ![w] =
       [workspace |-> ws, index |-> IndexIn(windowIDs[ws], w) - 1]]
  /\ windowIDs' = [windowIDs EXCEPT ![ws] = Without(@, w)]
  /\ UNCHANGED <<idVars, workspaceOrder, workspaceName, windows, windowName,
                 windowWorkspace, layout, paneVars, frontends>>
  /\ ResetFocus(FrontendsOnWindow(w))

\* The workspace a window returns to when none is named: its origin, else the
\* one frontend f looks at, else the first.
HintedWorkspace(w, f) ==
  IF stashedWindows[w].workspace \in Workspaces THEN stashedWindows[w].workspace
  ELSE IF f \in frontends /\ focus[f].workspace # 0 THEN focus[f].workspace
  ELSE workspaceOrder[1]

RestoreWindowAt(w, ws, index) ==
  /\ w \in windows
  /\ IsStashedWindow(w)
  /\ ws \in Workspaces
  /\ ~ NameShown(ws, windowName[w], {})
  /\ windowIDs' = [windowIDs EXCEPT ![ws] = InsertAt(@, index + 1, w)]
  /\ windowWorkspace' = [windowWorkspace EXCEPT ![w] = ws]
  /\ stashedWindows' = [stashedWindows EXCEPT ![w] = NoWindowHint]
  /\ UNCHANGED <<idVars, workspaceOrder, workspaceName, windows, windowName,
                 layout, paneVars, frontendVars>>

RestoreWindow(w, f) ==
  LET ws == HintedWorkspace(w, f)
      hint == stashedWindows[w]
      last == Len(windowIDs[ws])
  IN RestoreWindowAt(w, ws, IF ws = hint.workspace /\ hint.index < last
                            THEN hint.index ELSE last)

RestoreWindowTo(w, ws) == RestoreWindowAt(w, ws, Len(windowIDs[ws]))
-----------------------------------------------------------------------------
(* Frontends.  A slot that is free stands for an identifier never used yet. *)

Subscribe(f) ==
  /\ f \in Frontends \ frontends
  /\ frontends' = frontends \cup {f}
  /\ UNCHANGED <<idVars, workspaceVars, windowVars, layout, paneVars>>
  /\ ResetFocus({f})

\* Unsubscription, and the end of a frontend whose event queue is full
Unsubscribe(f) ==
  /\ f \in frontends
  /\ frontends' = frontends \ {f}
  /\ focus' = [focus EXCEPT ![f] = NoFocus]
  /\ UNCHANGED <<idVars, workspaceVars, windowVars, layout, paneVars>>

SetFocus(f, p) ==
  /\ f \in frontends
  /\ OnScreen(p)
  /\ focus' = [focus EXCEPT ![f] =
       [workspace |-> windowWorkspace[paneWindow[p]],
        window |-> paneWindow[p], pane |-> p]]
  /\ UNCHANGED <<idVars, workspaceVars, windowVars, layout, paneVars, frontends>>

SelectWindow(f, w) ==
  /\ f \in frontends
  /\ w \in windows
  /\ ~ IsStashedWindow(w)
  /\ focus' = [focus EXCEPT ![f] =
       [workspace |-> windowWorkspace[w], window |-> w,
        pane |-> FirstPane(layout[w])]]
  /\ UNCHANGED <<idVars, workspaceVars, windowVars, layout, paneVars, frontends>>

\* The next identifiers are in the state file.
RecountPanes ==
  /\ nextPaneID' = 1 + Max({0} \cup (panes \ transient))
  /\ UNCHANGED <<nextWorkspaceID, nextWindowID>>
KeepCounters == UNCHANGED idVars

\* The daemon stops and starts again from the state file: the temporary
\* editors and every subscription are gone, the rest is as it was.
Reload ==
  /\ PersistedAccepted
  /\ panes' = panes \ transient
  /\ transient' = {}
  /\ paneWindow' = [p \in PaneID |-> IF p \in transient THEN 0 ELSE paneWindow[p]]
  /\ stashedPanes' = [p \in PaneID |->
                        IF p \in transient THEN NoPaneHint ELSE stashedPanes[p]]
  /\ frontends' = {}
  /\ focus' = [f \in Frontends |-> NoFocus]
  /\ KeepCounters
  /\ UNCHANGED <<workspaceVars, windowVars, layout>>
-----------------------------------------------------------------------------
Init ==
  /\ nextWorkspaceID = 2 /\ nextWindowID = 2 /\ nextPaneID = 1
  /\ workspaceOrder = <<1>>
  /\ workspaceName = [ws \in WorkspaceID |-> IF ws = 1 THEN DefaultName ELSE NoName]
  /\ windowIDs = [ws \in WorkspaceID |-> IF ws = 1 THEN <<1>> ELSE <<>>]
  /\ windows = {1}
  /\ windowName = [w \in WindowID |-> IF w = 1 THEN DefaultName ELSE NoName]
  /\ windowWorkspace = [w \in WindowID |-> IF w = 1 THEN 1 ELSE 0]
  /\ layout = [w \in WindowID |-> <<>>]
  /\ stashedWindows = [w \in WindowID |-> NoWindowHint]
  /\ panes = {}
  /\ paneWindow = [p \in PaneID |-> 0]
  /\ transient = {}
  /\ stashedPanes = [p \in PaneID |-> NoPaneHint]
  /\ frontends = {}
  /\ focus = [f \in Frontends |-> NoFocus]

\* The commands that change the persistent state
Mutation ==
  \/ \E n \in Names :
       \/ CreateWorkspace(n)
       \/ \E ws \in WorkspaceID : RenameWorkspace(ws, n) \/ CreateWindow(ws, n)
       \/ \E w \in WindowID : RenameWindow(w, n)
  \/ \E ws \in WorkspaceID : DeleteWorkspace(ws)
  \/ \E w \in WindowID : DeleteWindow(w) \/ StashWindow(w)
  \/ \E w \in WindowID : \E f \in Frontends : RestoreWindow(w, f)
  \/ \E w \in WindowID : \E ws \in WorkspaceID : RestoreWindowTo(w, ws)
  \/ \E w \in WindowID, p \in PaneID : CreatePane(w, p) \/ CreateTransientPane(w, p)
  \/ \E t, p \in PaneID : SplitPane(t, p) \/ MovePaneWithin(p, t)
  \/ \E p \in PaneID, d \in WindowID, t \in PaneID \cup {0} :
       MovePaneAcross(p, d, t) \/ RestorePaneTo(p, d, t)
  \/ \E p \in PaneID : ClosePane(p) \/ StashPane(p)
  \/ \E p \in PaneID : \E f \in Frontends : RestorePane(p, f)

FrontendStep ==
  \E f \in Frontends :
    \/ Subscribe(f)
    \/ Unsubscribe(f)
    \/ \E p \in PaneID : SetFocus(f, p)
    \/ \E w \in WindowID : SelectWindow(f, w)

Next ==
  \/ Mutation /\ Commit
  \/ FrontendStep
  \/ Reload

Spec == Init /\ [][Next]_vars
-----------------------------------------------------------------------------
(* What a frontend looks at exists and is on the screen: its workspace     *)
(* exists, its window is visible in that workspace, and its focused pane   *)
(* is a leaf of that window, whatever the other frontends close, move,     *)
(* stash or delete (the repairs of deleteWorkspace, deleteWindow,          *)
(* stashWindow, stashPane, closePane and movePane).                        *)
FocusOnScreen ==
  \A f \in frontends :
    /\ focus[f].workspace \in Workspaces
    /\ focus[f].window # 0 =>
         /\ IsVisible(focus[f].window)
         /\ windowWorkspace[focus[f].window] = focus[f].workspace
    /\ focus[f].pane # 0 =>
         /\ focus[f].window # 0
         /\ focus[f].pane \in ToSet(layout[focus[f].window])

(* A stashed pane can always be brought back while some window is visible, *)
(* even when its origin window, its neighbour or its workspace is gone:    *)
(* nothing refuses it, and the place it is given is on the screen, beside  *)
(* a leaf that is there (restorePane, restorePaneDestination).             *)
StashRecoverable ==
  \A p \in panes \ transient :
    IsStashedPane(p) /\ (\E w \in windows : IsVisible(w))
      => \A f \in Frontends :
           LET place == HintedPlacement(p, f) IN
           /\ CanRestore(p, place)
           /\ IsVisible(place.window)
           /\ IF layout[place.window] = <<>> THEN place.target = 0
              ELSE place.target \in ToSet(layout[place.window])

(* The state the daemon has accepted can be written, read back and         *)
(* accepted again: a restart never quarantines it (statefile.Load) and no  *)
(* later command is refused because the state cannot be cloned             *)
(* (cloneState).                                                           *)
RestartAccepts == SnapshotAccepted /\ PersistedAccepted

(* The inductive strengthening of Hierarchy and FocusOnScreen, as facts    *)
(* about sets: lists have no duplicates, everything that exists was        *)
(* allocated, what does not exist has no attributes, and the window a      *)
(* stashed pane came from is itself not stashed (the guards of stashWindow *)
(* and stashPane keep each other true).                                    *)
OrderInv ==
  /\ IsInjective(workspaceOrder)
  /\ workspaceOrder # <<>>
  /\ \A ws \in Workspaces : ws < nextWorkspaceID

WindowInv ==
  /\ \A ws \in WorkspaceID :
       /\ IsInjective(windowIDs[ws])
       /\ \A w \in ToSet(windowIDs[ws]) :
            /\ ws \in Workspaces
            /\ w \in windows
            /\ windowWorkspace[w] = ws
            /\ ~ IsStashedWindow(w)
  /\ \A w \in windows :
       /\ w < nextWindowID
       /\ windowWorkspace[w] # 0
       /\ ~ IsStashedWindow(w) => w \in ToSet(windowIDs[windowWorkspace[w]])
  /\ \A w \in WindowID \ windows : ~ IsStashedWindow(w)

LayoutInv ==
  /\ \A w \in WindowID \ windows : layout[w] = <<>>
  /\ \A w \in WindowID :
       /\ IsInjective(layout[w])
       /\ \A p \in ToSet(layout[w]) :
            /\ p \in panes
            /\ paneWindow[p] = w
            /\ ~ IsStashedPane(p)
  /\ \A p \in panes :
       /\ p < nextPaneID
       /\ paneWindow[p] # 0
       /\ ~ IsStashedPane(p) => p \in ToSet(layout[paneWindow[p]])
  /\ \A p \in PaneID \ panes : ~ IsStashedPane(p)
  /\ \A p \in transient : IsStashedPane(p)

StashInv ==
  \A p \in panes :
    IsStashedPane(p) => /\ stashedPanes[p].window = paneWindow[p]
                        /\ ~ IsStashedWindow(paneWindow[p])

IInv == TypeOK /\ OrderInv /\ WindowInv /\ LayoutInv /\ StashInv /\ FocusOnScreen

(* An identifier is spent when it was given and what it named is gone.     *)
SpentWorkspaces == 1 .. (nextWorkspaceID - 1) \ Workspaces
SpentWindows == 1 .. (nextWindowID - 1) \ windows
SpentPanes == 1 .. (nextPaneID - 1) \ panes

(* No identifier is used twice: what is deleted or closed leaves its       *)
(* identifier spent, and a spent identifier stays spent, through every     *)
(* command and every restart from the state file.  So a hint, a focus or a *)
(* client that still names a closed pane or a deleted window never reaches *)
(* another one.  The identifiers increase and the next ones are saved with *)
(* the state (plan document, line 78): the counters never go back either.  *)
NoIdentifierReused ==
  [][ /\ SpentWorkspaces \cup (Workspaces \ Workspaces') \subseteq SpentWorkspaces'
      /\ SpentWindows \cup (windows \ windows') \subseteq SpentWindows'
      /\ SpentPanes \cup (panes \ panes') \subseteq SpentPanes'
      /\ nextWorkspaceID <= nextWorkspaceID'
      /\ nextWindowID <= nextWindowID' /\ nextPaneID <= nextPaneID' ]_vars
=============================================================================
