----------------------------- MODULE EventStream -----------------------------
(***************************************************************************)
(* How a frontend follows Core.  Subscribe hands it a snapshot and a       *)
(* bounded queue in one turn of the executor; every later mutation gets    *)
(* the next revision and is published to every queue; the frontend applies *)
(* the events to its copy with ApplyEvent.  A frontend whose queue is full *)
(* is removed, but can still read what its queue holds.                    *)
(***************************************************************************)
EXTENDS CoreState

CONSTANTS
  EventQueueCapacity,
  RevisionLimit,       \* bound of the model on the number of mutations
  Accepted(_)          \* the checks of ValidateSnapshot

ASSUME EventStreamAssumption ==
  /\ EventQueueCapacity \in Nat \ {0}
  /\ RevisionLimit \in Nat

VARIABLES
  revision,
  queue,     \* Subscription.events
  copy,      \* the snapshot a frontend holds
  status     \* of the subscription, as its frontend sees it

streamVars == <<revision, queue, copy, status>>

\* "full": publish found the queue full; "ended": finish has closed it, with
\* ErrEventQueueOverflow; "failed": ApplyEvent rejected an event.
Status == {"free", "live", "full", "ended", "failed"}

StreamTypeOK ==
  /\ TypeOK
  /\ revision \in 0 .. RevisionLimit
  /\ DOMAIN queue = Frontends
  /\ \A f \in Frontends : Len(queue[f]) \in 0 .. EventQueueCapacity
  /\ DOMAIN copy = Frontends
  /\ status \in [Frontends -> Status]
  /\ frontends = {f \in Frontends : status[f] \in {"live", "full", "failed"}}
-----------------------------------------------------------------------------
(* state.snapshot: the whole domain state as one value.                    *)

Snapshot ==
  [revision        |-> revision,
   nextWorkspaceID |-> nextWorkspaceID,
   nextWindowID    |-> nextWindowID,
   nextPaneID      |-> nextPaneID,
   order           |-> workspaceOrder,
   workspaces      |-> [ws \in Workspaces |->
                          [name |-> workspaceName[ws], windowIDs |-> windowIDs[ws]]],
   windows         |-> [w \in windows |->
                          [name |-> windowName[w], workspace |-> windowWorkspace[w],
                           layout |-> layout[w]]],
   panes           |-> [p \in panes |->
                          [window |-> paneWindow[p], transient |-> p \in transient]],
   stashedPanes    |-> [p \in {q \in panes : IsStashedPane(q)} |-> stashedPanes[p]],
   stashedWindows  |-> [w \in {v \in windows : IsStashedWindow(v)} |->
                          stashedWindows[w]]]

NoCopy == [revision |-> 0]
-----------------------------------------------------------------------------
(* Events.  An event carries the objects of its payload, as they are after *)
(* the command, and the identifier it is about.                            *)

Pick(objects, ids) == Restrict(objects, ids \cap DOMAIN objects)

\* The event of kind k about id, with those of the workspaces Ws, windows W
\* and panes P that exist
Event(k, id, Ws, W, P) ==
  [revision       |-> revision + 1,
   kind           |-> k,
   id             |-> id,
   workspaces     |-> Pick(Snapshot'.workspaces, Ws),
   windows        |-> Pick(Snapshot'.windows, W),
   panes          |-> Pick(Snapshot'.panes, P),
   stashedPanes   |-> Pick(Snapshot'.stashedPanes, P),
   stashedWindows |-> Pick(Snapshot'.stashedWindows, W)]

\* publish: a queue that is full ends its subscription instead.  Nobody reads
\* the queue of a frontend that has failed.
Full == {f \in Frontends : status[f] = "live" /\ Len(queue[f]) = EventQueueCapacity}

Enqueued(e) ==
  [f \in Frontends |-> IF status[f] = "live" /\ f \notin Full
                       THEN Append(queue[f], e) ELSE queue[f]]

SkipFull(e) == queue' = Enqueued(e) /\ UNCHANGED status
Deliver(e) ==
  /\ queue' = Enqueued(e)
  /\ status' = [f \in Frontends |-> IF f \in Full THEN "full" ELSE status[f]]

Publish(k, id, Ws, W, P) ==
  /\ revision' = revision + 1
  /\ Deliver(Event(k, id, Ws, W, P))
  /\ UNCHANGED copy
-----------------------------------------------------------------------------
(* ApplyEvent                                                              *)

Minus(objects, id) == Restrict(objects, DOMAIN objects \ {id})
AtLeast(n, m) == IF n >= m THEN n ELSE m

\* The objects, with the changed ones replaced or added.
Updated(objects, changed) ==
  [id \in DOMAIN objects \cup DOMAIN changed |->
     IF id \in DOMAIN changed THEN changed[id] ELSE objects[id]]

\* upsertWorkspace, upsertWindow and upsertPane of all that the event carries
Upsert(s, e) ==
  [s EXCEPT !.revision = e.revision,
            !.workspaces = Updated(@, e.workspaces),
            !.windows = Updated(@, e.windows),
            !.panes = Updated(@, e.panes)]

KeepPaneHint(s, e) == [s EXCEPT !.panes = Minus(@, e.id)]
ClosePaneIn(s, e) ==
  [s EXCEPT !.panes = Minus(@, e.id), !.stashedPanes = Minus(@, e.id)]

Project(s, e) ==
  LET t == Upsert(s, e) IN
  CASE e.kind = "workspace_created" ->
         [t EXCEPT !.order = Append(@, e.id),
                   !.nextWorkspaceID = AtLeast(@, e.id + 1)]
    [] e.kind = "workspace_deleted" ->
         [t EXCEPT !.order = Without(@, e.id), !.workspaces = Minus(@, e.id)]
    [] e.kind = "window_created" ->
         [t EXCEPT !.nextWindowID = AtLeast(@, e.id + 1)]
    [] e.kind = "window_deleted" ->
         [t EXCEPT !.windows = Minus(@, e.id)]
    [] e.kind = "pane_created" ->
         [t EXCEPT !.nextPaneID = AtLeast(@, e.id + 1)]
    [] e.kind = "pane_closed" -> ClosePaneIn(t, e)
    [] e.kind = "pane_stashed" ->
         [t EXCEPT !.nextPaneID = AtLeast(@, e.id + 1),
                   !.stashedPanes = Updated(@, e.stashedPanes)]
    [] e.kind = "pane_restored" ->
         [t EXCEPT !.stashedPanes = Minus(@, e.id)]
    [] e.kind = "window_stashed" ->
         [t EXCEPT !.stashedWindows = Updated(@, e.stashedWindows)]
    [] e.kind = "window_restored" ->
         [t EXCEPT !.stashedWindows = Minus(@, e.id)]
    [] OTHER -> t

\* The check of validateHierarchy that every window is shown or stashed: of
\* all that ValidateSnapshot checks, what the proofs rest on.
EveryWindowPlaced(s) ==
  \A w \in DOMAIN s.windows :
    (\E ws \in DOMAIN s.workspaces : w \in ToSet(s.workspaces[ws].windowIDs))
      <=> w \notin DOMAIN s.stashedWindows
Valid(s) == EveryWindowPlaced(s) /\ Accepted(s)

\* The revision check comes first, ValidateSnapshot last.
Applicable(s, e) ==
  /\ e.revision = s.revision + 1
  /\ Valid(Project(s, e))

\* The copy of a frontend that starts with s and applies the events of q.
Projected(s, q) ==
  LET after[i \in 0 .. Len(q)] ==
        IF i = 0 THEN s ELSE Project(after[i - 1], q[i])
  IN after[Len(q)]
-----------------------------------------------------------------------------
(* Every command of CoreState with the event it publishes.                 *)

WorkspaceEvents ==
  \/ \E n \in Names :
       \/ /\ CreateWorkspace(n)
          /\ Publish("workspace_created", nextWorkspaceID, {nextWorkspaceID}, {}, {})
       \/ \E ws \in WorkspaceID :
            /\ RenameWorkspace(ws, n)
            /\ Publish("workspace_renamed", ws, {ws}, {}, {})
  \/ \E ws \in WorkspaceID :
       /\ DeleteWorkspace(ws)
       /\ Publish("workspace_deleted", ws, {}, {}, {})

\* window_created carries the window alone.
WindowEvents ==
  \/ \E n \in Names :
       \/ \E ws \in WorkspaceID :
            /\ CreateWindow(ws, n)
            /\ Publish("window_created", nextWindowID, {}, {nextWindowID}, {})
       \/ \E w \in WindowID :
            /\ RenameWindow(w, n)
            /\ Publish("window_renamed", w, {}, {w}, {})
  \/ \E w \in WindowID :
       \/ /\ DeleteWindow(w)
          /\ Publish("window_deleted", w, {windowWorkspace[w]}, {}, {})
       \/ /\ StashWindow(w)
          /\ Publish("window_stashed", w, {windowWorkspace[w]}, {w}, {})
       \/ /\ \/ \E f \in Frontends : RestoreWindow(w, f)
             \/ \E ws \in WorkspaceID : RestoreWindowTo(w, ws)
          /\ Publish("window_restored", w, {windowWorkspace'[w]}, {w}, {})

\* pane_closed carries no window when a stashed pane has outlived its own.
PaneEvents ==
  \/ \E w \in WindowID, p \in PaneID :
       \/ CreatePane(w, p) /\ Publish("pane_created", p, {}, {w}, {p})
       \/ CreateTransientPane(w, p) /\ Publish("pane_stashed", p, {}, {w}, {p})
  \/ \E t, p \in PaneID :
       \/ /\ SplitPane(t, p)
          /\ Publish("pane_created", p, {}, {paneWindow[t]}, {p})
       \/ /\ MovePaneWithin(p, t)
          /\ Publish("pane_moved", p, {}, {paneWindow[p]}, {p})
  \/ \E p \in PaneID, d \in WindowID, t \in PaneID \cup {0} :
       /\ MovePaneAcross(p, d, t)
       /\ Publish("pane_moved", p, {}, {paneWindow[p], d}, {p})
  \/ \E p \in PaneID :
       \/ ClosePane(p) /\ Publish("pane_closed", p, {}, {paneWindow[p]}, {})
       \/ StashPane(p) /\ Publish("pane_stashed", p, {}, {paneWindow[p]}, {p})
       \/ /\ \/ \E f \in Frontends : RestorePane(p, f)
             \/ \E d \in WindowID, t \in PaneID \cup {0} : RestorePaneTo(p, d, t)
          /\ Publish("pane_restored", p, {}, {paneWindow'[p]}, {p})
-----------------------------------------------------------------------------
(* Frontends.  Once publish has found a queue full, the executor removes   *)
(* that frontend before it does anything else.                             *)

ExecutorFree == \A f \in Frontends : status[f] # "full"

Mutate ==
  /\ ExecutorFree
  /\ revision < RevisionLimit
  /\ WorkspaceEvents \/ WindowEvents \/ PaneEvents
  /\ Commit

Join(f) ==
  /\ ExecutorFree
  /\ status[f] = "free"
  /\ Subscribe(f)
  /\ copy' = [copy EXCEPT ![f] = Snapshot]
  /\ status' = [status EXCEPT ![f] = "live"]
  /\ UNCHANGED <<revision, queue>>

Evict(f) ==
  /\ status[f] = "full"
  /\ Unsubscribe(f)
  /\ status' = [status EXCEPT ![f] = "ended"]
  /\ UNCHANGED <<revision, queue, copy>>

\* A frontend leaves when it wants to, or because it could not apply an event.
Leave(f) ==
  /\ ExecutorFree
  /\ status[f] \in {"live", "failed"}
  /\ Unsubscribe(f)
  /\ queue' = [queue EXCEPT ![f] = <<>>]
  /\ copy' = [copy EXCEPT ![f] = NoCopy]
  /\ status' = [status EXCEPT ![f] = "free"]
  /\ UNCHANGED revision

LookElsewhere(f) ==
  /\ ExecutorFree
  /\ \/ \E p \in PaneID : SetFocus(f, p)
     \/ \E w \in WindowID : SelectWindow(f, w)
  /\ UNCHANGED streamVars

\* The frontend takes the next event and applies it.
Receive(f) ==
  /\ status[f] \in {"live", "full", "ended"}
  /\ queue[f] # <<>>
  /\ LET e == Head(queue[f]) IN
       IF Applicable(copy[f], e)
       THEN /\ queue' = [queue EXCEPT ![f] = Tail(@)]
            /\ copy' = [copy EXCEPT ![f] = Project(@, e)]
            /\ UNCHANGED status
       ELSE /\ status[f] # "full"
            /\ queue' = [queue EXCEPT ![f] = <<>>]
            /\ status' = [status EXCEPT ![f] =
                            IF @ = "live" THEN "failed" ELSE "free"]
            /\ copy' = [copy EXCEPT ![f] = NoCopy]
  /\ UNCHANGED <<vars, revision>>

\* It reads the end of its queue and learns that it was too slow.
ReadEnd(f) ==
  /\ status[f] = "ended"
  /\ queue[f] = <<>>
  /\ copy' = [copy EXCEPT ![f] = NoCopy]
  /\ status' = [status EXCEPT ![f] = "free"]
  /\ UNCHANGED <<vars, revision, queue>>

StreamInit ==
  /\ Init
  /\ revision = 0
  /\ queue = [f \in Frontends |-> <<>>]
  /\ copy = [f \in Frontends |-> NoCopy]
  /\ status = [f \in Frontends |-> "free"]

StreamNext ==
  \/ Mutate
  \/ \E f \in Frontends :
       Join(f) \/ Evict(f) \/ Leave(f) \/ LookElsewhere(f) \/ Receive(f) \/ ReadEnd(f)

StreamSpec == StreamInit /\ [][StreamNext]_<<vars, streamVars>>
-----------------------------------------------------------------------------
(* A subscribed frontend has all it needs: applying the events it has not  *)
(* read yet to its copy gives exactly Core's state, whatever the commands  *)
(* were (the payloads of operations.go and stash.go against ApplyEvent).   *)
(* Excepted is a queue with a window_created event: ApplyEvent leaves the  *)
(* new window out of its workspace (apply_event.go:25), so that its final  *)
(* validation rejects the event and the frontend ends.                     *)
ProjectionFaithful ==
  \A f \in Frontends :
    status[f] = "live" /\ (\A e \in ToSet(queue[f]) : e.kind # "window_created")
      => Projected(copy[f], queue[f]) = Snapshot

(* A frontend never misses an event without learning of it: what it can    *)
(* still read follows its copy without a gap, and reaches Core's revision  *)
(* unless its subscription has ended (publish, Subscription.finish, and    *)
(* the revision check of ApplyEvent).                                      *)
NoSilentGap ==
  \A f \in Frontends :
    status[f] \in {"live", "full", "ended"} =>
      /\ \A i \in DOMAIN queue[f] : queue[f][i].revision = copy[f].revision + i
      /\ status[f] = "live" => copy[f].revision + Len(queue[f]) = revision

=============================================================================
