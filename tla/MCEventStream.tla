---------------------------- MODULE MCEventStream ----------------------------
(***************************************************************************)
(* EventStream with the validation of snapshots that the daemon and the    *)
(* frontends use.                                                          *)
(***************************************************************************)
EXTENDS EventStream

\* A map lookup of a missing key yields the zero value.
Of(objects, id, none) == IF id \in DOMAIN objects THEN objects[id] ELSE none
NoWorkspace == [name |-> NoName, windowIDs |-> <<>>]
NoWindow == [name |-> NoName, workspace |-> 0, layout |-> <<>>]

\* The state of Core, read from a snapshot s
In(s) == INSTANCE CoreState WITH
  workspaceOrder  <- s.order,
  workspaceName   <- [ws \in WorkspaceID |-> Of(s.workspaces, ws, NoWorkspace).name],
  windowIDs       <- [ws \in WorkspaceID |-> Of(s.workspaces, ws, NoWorkspace).windowIDs],
  windows         <- DOMAIN s.windows,
  windowName      <- [w \in WindowID |-> Of(s.windows, w, NoWindow).name],
  windowWorkspace <- [w \in WindowID |-> Of(s.windows, w, NoWindow).workspace],
  layout          <- [w \in WindowID |-> Of(s.windows, w, NoWindow).layout],
  stashedWindows  <- [w \in WindowID |-> Of(s.stashedWindows, w, NoWindowHint)],
  panes           <- DOMAIN s.panes,
  paneWindow      <- [p \in PaneID |-> IF p \in DOMAIN s.panes
                                       THEN s.panes[p].window ELSE 0],
  transient       <- {p \in DOMAIN s.panes : s.panes[p].transient},
  stashedPanes    <- [p \in PaneID |-> Of(s.stashedPanes, p, NoPaneHint)]

\* ValidateSnapshot: names and hierarchy, as in the state of Core
ValidateSnapshot(s) == In(s)!SnapshotAccepted

==============================================================================
