--------------------------- MODULE TerminalLifecycle ---------------------------
(***************************************************************************)
(* The terminals of the panes: the operations of the daemon on them, each  *)
(* a sequence of Core commands and calls of the PTY manager under          *)
(* terminalMu, managerLoop, which applies what the manager reports, and    *)
(* daemon_stop, which is refused while a terminal is active.               *)
(*                                                                         *)
(* Only the holder of terminalMu changes a terminal pane, so what          *)
(* interleaves with the steps of an operation is what the processes do,    *)
(* the cancelling of its context and the admission of other operations;    *)
(* steps with none of these between them are one action.  The PTY manager  *)
(* is a library: it is modelled from the calls and events used here.       *)
(***************************************************************************)
EXTENDS Naturals, FiniteSets, Sequences

CONSTANTS
  Panes,           \* pane identifiers, never used twice
  Sessions,        \* identifiers the manager may still give: a bound
  Clients,         \* who runs operations, one at a time each,
  Plugins,         \*   and which of them pass no commandGate
  ClosePaneOnSuccessfulExit,
  Endings,         \* how a process may end by itself
  Restored,        \* which terminals the state file may hold
  FaultKinds,      \* which faults may happen,
  FaultLimit,      \*   and how many of them: a bound
  None

Statuses == {"success", "failure", "ptyError", "killed"}

ASSUME TerminalAssumption ==
  /\ IsFiniteSet(Panes) /\ IsFiniteSet(Sessions)
  /\ None \notin Panes \cup Sessions \cup Statuses
  /\ IsFiniteSet(Clients) /\ Plugins \subseteq Clients /\ None \notin Clients
  /\ ClosePaneOnSuccessfulExit \in BOOLEAN
  /\ Endings \subseteq {"success", "failure", "ptyError"}
  /\ Restored \subseteq {"empty", "placeholder", "failed"}
  /\ FaultKinds \subseteq {"cancel", "open", "kill", "refuse"}
  /\ FaultLimit \in Nat

VARIABLES
  term,      \* the Terminal of each pane in Core, and whether the pane exists
  label,     \* the exit its error label tells, if it has the label
  session,   \* the sessions of the manager
  events,    \* what the manager has published and managerLoop not handled
  owner,     \* terminalPanes
  removing,  \* pendingRemoval of managerLoop
  lock,      \* who holds terminalMu
  client,    \* where each operation is
  stopping,  \* Server.stopping
  down,      \* why requestStop has been called, if it has
  faults     \* the faults that have happened

coreVars == <<term, label>>
managerVars == <<session, events>>
loopVars == <<owner, removing>>
clientVars == <<lock, client>>
vars == <<coreVars, managerVars, loopVars, clientVars, stopping, down, faults>>

Operations == {"new", "restart", "run", "kill", "stop", "delete", "daemonStop",
               "daemonForce"}

\* A Terminal without session, history or exit; "absent" and "closed" stand
\* for a pane that is not in Core, "empty" for one with no Terminal.
Terminal(state) == [state |-> state, id |-> None, exit |-> None, hist |-> FALSE]
Failed == [Terminal("failed") EXCEPT !.exit = "ptyError"]
Idle == [op |-> None, pc |-> "idle", pane |-> None, id |-> None, live |-> TRUE]

TerminalTypeOK ==
  /\ term \in [Panes ->
       [state : {"absent", "closed", "empty", "placeholder", "starting", "running",
                 "stopping", "exited", "failed"},
        id : Sessions \cup {None}, exit : Statuses \cup {None}, hist : BOOLEAN]]
  /\ label \in [Panes -> Statuses \cup {None}]
  /\ session \in [Sessions ->
       [state : {"unused", "running", "dying", "exited", "retained", "gone"},
        status : Statuses \cup {None}]]
  /\ events \in Seq([kind : {"exited", "retained", "removed"}, id : Sessions])
  /\ owner \in [Sessions -> Panes \cup {None}]
  /\ removing \subseteq Sessions
  /\ lock \in Clients \cup {None}
  /\ client \in [Clients ->
       [op : Operations \cup {None},
        pc : {"idle", "lock", "open", "activate", "prepare", "kill", "close", "record",
              "drop", "respond"},
        pane : Panes \cup {None}, id : Sessions \cup {None}, live : BOOLEAN]]
  /\ stopping \in BOOLEAN
  /\ down \in {"no", "stop", "force", "refused", "event"}
  /\ faults \subseteq FaultKinds
  \* no two panes share a session, and validTerminal
  /\ \A p, q \in Panes : term[p].id # None /\ term[p].id = term[q].id => p = q
  /\ \A p \in Panes :
       /\ term[p].hist => term[p].id # None
       /\ term[p].state \in {"running", "stopping"} => term[p].id # None
       /\ term[p].exit # None <=> term[p].state \in {"exited", "failed"}
       /\ term[p].exit = "ptyError" <=> term[p].state = "failed"

Alive(s) == session[s].state \in {"running", "dying"}
Pane(c) == client[c].pane
-----------------------------------------------------------------------------
(* Core                                                                    *)

Exists(p) == term[p].state \notin {"absent", "closed"}
PanesWith(s) == {p \in Panes : term[p].id = s}

SetTerminal(p, terminal) == term' = [term EXCEPT ![p] = terminal]

ClosePanes(ps) ==
  /\ term' = [p \in Panes |-> IF p \in ps THEN Terminal("closed") ELSE term[p]]
  /\ label' = [p \in Panes |-> IF p \in ps THEN None ELSE label[p]]

Unlabelled(p) == [label EXCEPT ![p] = None]

\* What PrepareTerminalRestart and PrepareTerminalRun make of a terminal
Reserved(p) == Terminal("starting")

\* What ForgetTerminalSession makes of it
KeepSession(p) == [term[p] EXCEPT !.hist = FALSE]
Forgotten(p) == [term[p] EXCEPT !.id = None, !.hist = FALSE]

NeedsErrorLabel(exit) == exit \in {"failure", "ptyError"}

\* terminalExit and RecordTerminalExit
Recorded(s) ==
  [state |-> IF session[s].status = "ptyError" THEN "failed" ELSE "exited",
   id |-> s, exit |-> session[s].status, hist |-> session[s].state # "gone"]
-----------------------------------------------------------------------------
(* The PTY manager                                                         *)

Publish(queue, kinds, s) ==
  events' = queue \o [i \in DOMAIN kinds |-> [kind |-> kinds[i], id |-> s]]

\* A process ends by itself, or of a signal that Kill sent and did not wait for.
Exit(s, status) ==
  /\ Alive(s)
  /\ status = "killed" => session[s].state = "dying"
  /\ session' = [session EXCEPT ![s] = [state |-> "exited", status |-> status]]
  /\ Publish(events, <<"exited">>, s)
  /\ UNCHANGED <<coreVars, loopVars, clientVars, stopping, down, faults>>

Retain(s) ==
  /\ session[s].state = "exited"
  /\ session' = [session EXCEPT ![s].state = "retained"]
  /\ Publish(events, <<"retained">>, s)
  /\ UNCHANGED <<coreVars, loopVars, clientVars, stopping, down, faults>>

\* The manager keeps a limited number of retained sessions.
Evict(s) ==
  /\ session[s].state = "retained"
  /\ \E t \in Sessions \ {s} : session[t].state = "retained"
  /\ session' = [session EXCEPT ![s].state = "gone"]
  /\ Publish(events, <<"removed">>, s)
  /\ UNCHANGED <<coreVars, loopVars, clientVars, stopping, down, faults>>

\* Manager.Remove, which succeeds, or finds no session, which is as good
Remove(s, queue) ==
  \/ /\ session[s].state \in {"exited", "retained"}
     /\ session' = [session EXCEPT ![s].state = "gone"]
     /\ Publish(queue, <<"removed">>, s)
  \/ /\ session[s].state = "gone"
     /\ events' = queue
     /\ UNCHANGED session

\* ErrSessionRunning, also while the manager has not yet retained the session
RemoveRefused(s) == Alive(s) \/ session[s].state = "exited"

\* Manager.Kill, which returns when the session has ended and is retained
Killed(s) ==
  CASE Alive(s) ->
         /\ \E status \in Endings \cup {"killed"} :
              session' = [session EXCEPT ![s] = [state |-> "retained", status |-> status]]
         /\ Publish(events, <<"exited", "retained">>, s)
    [] session[s].state = "exited" ->
         /\ session' = [session EXCEPT ![s].state = "retained"]
         /\ Publish(events, <<"retained">>, s)
    [] session[s].state = "retained" -> UNCHANGED managerVars
    [] OTHER -> FALSE
-----------------------------------------------------------------------------
(* Operations                                                              *)

Fault(kind) ==
  /\ kind \in FaultKinds \ faults
  /\ Cardinality(faults) < FaultLimit
  /\ faults' = faults \cup {kind}

NoFault == UNCHANGED faults

Return(c) ==
  /\ lock' = None
  /\ client' = [client EXCEPT ![c] = Idle]

Continue(c, pc) ==
  /\ lock' = c
  /\ client' = [client EXCEPT ![c].pc = pc]

\* guardCommand, which plugins do not pass; the gate is held until the
\* operation returns.  What the operation is matters only once it has the lock.
Begin(c) ==
  /\ client[c].pc = "idle"
  /\ c \notin Plugins
  /\ ~ stopping
  /\ client' = [client EXCEPT ![c].pc = "lock"]
  /\ UNCHANGED <<coreVars, managerVars, loopVars, lock, stopping, down, faults>>

\* The connection is lost, or its request cancelled; before the first Core command
\* of the operation it only keeps it from happening, and after the last it is
\* not heeded.
Cancel(c) ==
  /\ client[c].pc \in {"prepare", "open", "activate", "kill", "drop"}
  /\ client[c].live
  /\ Fault("cancel")
  /\ client' = [client EXCEPT ![c].live = FALSE]
  /\ UNCHANGED <<coreVars, managerVars, loopVars, lock, stopping, down>>

Waits(c) ==
  /\ client[c].pc = IF c \in Plugins THEN "idle" ELSE "lock"
  /\ lock = None

\* It finds its arguments invalid or its preconditions false.
Reject(c) ==
  /\ Waits(c)
  /\ Return(c)
  /\ UNCHANGED <<coreVars, managerVars, loopVars, stopping, down, faults>>

\* It takes terminalMu and makes its first step.
Take(c, op, pc, p, s) ==
  /\ Waits(c)
  /\ lock' = c
  /\ client' = [client EXCEPT ![c] = [Idle EXCEPT !.op = op, !.pc = pc, !.pane = p, !.id = s]]

MayOpen == \E s \in Sessions : session[s].state = "unused"
Dismissible(p) == term[p].state \in {"placeholder", "exited", "failed"}

CreatePane(c, p) ==
  /\ MayOpen
  /\ term[p].state = "absent"
  /\ SetTerminal(p, Terminal("starting"))
  /\ Take(c, "new", "open", p, None)
  /\ UNCHANGED <<label, managerVars, loopVars, stopping, down, faults>>

\* The session the pane still names is released first, or the operation ends.
ReleaseOld(c, op, p) ==
  /\ \/ Dismissible(p)
     \/ term[p].state = "empty" /\ op # "restart"
  /\ op = "delete" \/ MayOpen
  /\ LET s == term[p].id
         Go == Take(c, op, IF op = "delete" THEN "drop" ELSE "prepare", p, None) IN
     \/ s = None /\ Go /\ UNCHANGED <<managerVars, owner>>
     \/ /\ s # None
        /\ Remove(s, events)
        /\ owner' = [owner EXCEPT ![s] = None]
        /\ Go
     \/ s # None /\ RemoveRefused(s) /\ Reject(c)
  /\ UNCHANGED <<coreVars, removing, stopping, down, faults>>

AtStep(c, pc) == client[c].pc = pc /\ lock = c

\* RemoveLabel and PrepareTerminalRestart or PrepareTerminalRun
Prepare(c) ==
  /\ AtStep(c, "prepare")
  /\ client[c].live
  /\ label' = Unlabelled(Pane(c))
  /\ SetTerminal(Pane(c), Reserved(Pane(c)))
  /\ Continue(c, "open")
  /\ UNCHANGED <<managerVars, loopVars, stopping, down, faults>>

\* The context is cancelled before the first of the two, or the second; or the
\* new launch does not fit into the state file.
PrepareFails(c) ==
  /\ AtStep(c, "prepare")
  /\ \/ ~ client[c].live /\ label' = label /\ NoFault
     \/ ~ client[c].live /\ label' = Unlabelled(Pane(c)) /\ NoFault
     \/ /\ client[c].op = "run" /\ Fault("refuse")
        /\ label' = Unlabelled(Pane(c))
  /\ Return(c)
  /\ UNCHANGED <<term, managerVars, loopVars, stopping, down>>

\* FailTerminalStart and the label
StartFailed(p) ==
  /\ SetTerminal(p, Failed)
  /\ label' = [label EXCEPT ![p] = "ptyError"]

Open(c, s) ==
  /\ AtStep(c, "open")
  /\ session[s].state = "unused"
  /\ session' = [session EXCEPT ![s].state = "running"]
  /\ lock' = c
  /\ client' = [client EXCEPT ![c].pc = "activate", ![c].id = s]
  /\ UNCHANGED <<coreVars, events, loopVars, stopping, down, faults>>

\* The process is not started, and Core may refuse to grow by the failure.
OpenFails(c) ==
  /\ AtStep(c, "open")
  /\ \/ ~ client[c].live /\ NoFault /\ StartFailed(Pane(c))
     \/ Fault("open") /\ StartFailed(Pane(c))
     \/ Fault("refuse") /\ UNCHANGED coreVars
  /\ Return(c)
  /\ UNCHANGED <<managerVars, loopVars, stopping, down>>

Activate(c) ==
  /\ AtStep(c, "activate")
  /\ client[c].live
  /\ SetTerminal(Pane(c), [Terminal("running") EXCEPT !.id = client[c].id])
  /\ owner' = [owner EXCEPT ![client[c].id] = Pane(c)]
  /\ Return(c)
  /\ UNCHANGED <<label, managerVars, removing, stopping, down, faults>>

LeaveRunning(s) == UNCHANGED managerVars

\* Kill and Remove, whatever has become of the session meanwhile
KillAndRemove(s) ==
  LET before == session[s].state IN
  /\ session' = [session EXCEPT ![s] =
       [state |-> "gone", status |-> IF Alive(s) THEN "killed" ELSE session[s].status]]
  /\ Publish(events, CASE Alive(s) -> <<"exited", "retained", "removed">>
                       [] before = "exited" -> <<"retained", "removed">>
                       [] before = "retained" -> <<"removed">>
                       [] before = "gone" -> << >>, s)

\* Activate is cancelled: cleanup within terminalCleanupTimeout, ignoring errors
Abandon(c) ==
  /\ AtStep(c, "activate")
  /\ ~ client[c].live
  /\ \/ NoFault /\ KillAndRemove(client[c].id)
     \/ /\ Alive(client[c].id) /\ "kill" \in FaultKinds
        /\ faults' = faults \cup {"kill"}
        /\ session' = [session EXCEPT ![client[c].id].state = "dying"]
        /\ UNCHANGED events
  /\ StartFailed(Pane(c))
  /\ Return(c)
  /\ UNCHANGED <<loopVars, stopping, down>>

BeginStop(c, op, p) ==
  /\ term[p].state = "running"
  /\ op = "kill" => c \notin Plugins /\ session[term[p].id].state # "gone"
  /\ SetTerminal(p, [term[p] EXCEPT !.state = "stopping"])
  /\ Take(c, op, "kill", p, term[p].id)
  /\ UNCHANGED <<label, managerVars, loopVars, stopping, down, faults>>

Kill(c) ==
  /\ AtStep(c, "kill")
  /\ Killed(client[c].id)
  /\ Continue(c, IF client[c].op = "kill" THEN "close" ELSE "record")
  /\ UNCHANGED <<coreVars, loopVars, stopping, down, faults>>

\* Kill finds no session, or gives up, before or after it has sent the signal.
KillFails(c) ==
  /\ AtStep(c, "kill")
  /\ \/ session[client[c].id].state = "gone" /\ NoFault
     \/ ~ client[c].live /\ NoFault
     \/ Fault("kill")
  /\ \/ UNCHANGED session
     \/ /\ Alive(client[c].id)
        /\ session' = [session EXCEPT ![client[c].id].state = "dying"]
  /\ Return(c)
  /\ UNCHANGED <<coreVars, events, loopVars, stopping, down>>

\* The end of KillTerminal, which no longer heeds the context
CloseKilled(c) ==
  /\ AtStep(c, "close")
  /\ ClosePanes({Pane(c)})
  /\ Remove(client[c].id, events)
  /\ owner' = [owner EXCEPT ![client[c].id] = None]
  /\ Return(c)
  /\ UNCHANGED <<removing, stopping, down, faults>>

\* The end of StopTerminal, which no longer heeds the context; the session may
\* have been evicted, and then managerLoop records the exit.
RecordStopped(c) ==
  /\ AtStep(c, "record")
  /\ \/ /\ session[client[c].id].state # "gone"
        /\ SetTerminal(Pane(c), Recorded(client[c].id))
        /\ NoFault
     \/ session[client[c].id].state = "gone" /\ NoFault /\ UNCHANGED term
     \/ Fault("refuse") /\ UNCHANGED term
  /\ Return(c)
  /\ UNCHANGED <<label, managerVars, loopVars, stopping, down>>

\* The end of DismissTerminal and DeletePane
Drop(c) ==
  /\ AtStep(c, "drop")
  /\ \/ client[c].live /\ ClosePanes({Pane(c)})
     \/ ~ client[c].live /\ UNCHANGED coreVars
  /\ Return(c)
  /\ UNCHANGED <<managerVars, loopVars, stopping, down, faults>>

DaemonStop(c, op) ==
  /\ Waits(c) /\ c \notin Plugins
  /\ op = "daemonStop" => \A s \in Sessions : ~ Alive(s)
  /\ stopping' = TRUE
  /\ client' = [client EXCEPT ![c].op = op, ![c].pc = "respond"]
  /\ UNCHANGED <<coreVars, managerVars, loopVars, lock, down, faults>>

StillHeld == \A c \in Clients \ Plugins : client[c].pc = "idle"

\* An operation releases commandGate before it responds.
GateFree == \A c \in Clients \ Plugins : client[c].pc \in {"idle", "respond"}

\* AfterResponse waits for commandGate, flushes the state and stops the daemon.
AfterResponse(c) ==
  /\ client[c].pc = "respond"
  /\ GateFree
  /\ down' = IF client[c].op = "daemonForce" THEN "force" ELSE "stop"
  /\ client' = [client EXCEPT ![c] = Idle]
  /\ UNCHANGED <<coreVars, managerVars, loopVars, lock, stopping, faults>>
-----------------------------------------------------------------------------
(* managerLoop: one event, handled under terminalMu.  Its context is the   *)
(* daemon's.                                                               *)

Fatal(reason) ==
  /\ down' = reason
  /\ stopping' = TRUE

Calm == UNCHANGED <<stopping, down>>

RunningOnly(s) == {p \in PanesWith(s) : term[p].state = "running"}

\* The pane of RecordTerminalExit, if it is still there
Recording(s) == PanesWith(s)

HandleExited(s) ==
  IF ClosePaneOnSuccessfulExit /\ session[s].status = "success"
  THEN /\ ClosePanes(PanesWith(s))
       /\ removing' = removing \cup {s}
       /\ Calm /\ NoFault
       /\ UNCHANGED owner
  ELSE /\ \/ /\ Recording(s) = {}
             /\ Calm /\ NoFault
             /\ UNCHANGED coreVars
          \/ \E p \in Recording(s) :
               \/ /\ SetTerminal(p, [Recorded(s) EXCEPT !.hist = TRUE])
                  /\ label' = IF NeedsErrorLabel(session[s].status)
                              THEN [label EXCEPT ![p] = session[s].status] ELSE label
                  /\ Calm /\ NoFault
               \/ /\ term[p].exit = None
                  /\ Fault("refuse") /\ Fatal("refused")
                  /\ UNCHANGED coreVars
       /\ UNCHANGED loopVars

Due(s) == s \in removing

HandleRetained(s) ==
  /\ removing' = removing \ {s}
  /\ IF Due(s) THEN Remove(s, Tail(events))
     ELSE events' = Tail(events) /\ UNCHANGED session
  /\ Calm /\ NoFault
  /\ UNCHANGED <<coreVars, owner>>

\* ForgetTerminalSession is refused while the terminal is active.
HandleRemoved(s) ==
  /\ removing' = removing \ {s}
  /\ owner' = [owner EXCEPT ![s] = None]
  /\ IF \E p \in PanesWith(s) : term[p].state \notin {"exited", "failed"}
     THEN Fatal("event") /\ UNCHANGED term
     ELSE /\ term' = [p \in Panes |-> IF p \in PanesWith(s) THEN Forgotten(p) ELSE term[p]]
          /\ Calm
  /\ NoFault
  /\ UNCHANGED label

\* No step of an operation overlaps with the handling of an event.
HandleEvent ==
  /\ events # << >> /\ lock = None
  /\ LET s == Head(events).id IN
     CASE Head(events).kind = "exited" ->
            HandleExited(s) /\ events' = Tail(events) /\ UNCHANGED session
       [] Head(events).kind = "retained" -> HandleRetained(s)
       [] Head(events).kind = "removed" ->
            HandleRemoved(s) /\ events' = Tail(events) /\ UNCHANGED session
  /\ UNCHANGED clientVars
-----------------------------------------------------------------------------
\* Open: the panes of the state file, with the labels of restoreSystemLabels
TerminalInit ==
  /\ term \in [Panes -> {Terminal(state) : state \in (Restored \ {"failed"}) \cup {"absent"}}
                      \cup {Failed : state \in Restored \cap {"failed"}}]
  /\ label = [p \in Panes |-> IF NeedsErrorLabel(term[p].exit) THEN term[p].exit ELSE None]
  /\ session = [s \in Sessions |-> [state |-> "unused", status |-> None]]
  /\ events = << >>
  /\ owner = [s \in Sessions |-> None]
  /\ removing = {}
  /\ lock = None
  /\ client = [c \in Clients |-> Idle]
  /\ stopping = FALSE
  /\ down = "no"
  /\ faults = {}

\* Taking the lock, or returning at once
Enter(c) ==
  \/ Reject(c)
  \/ \E p \in Panes :
       \/ CreatePane(c, p)
       \/ \E op \in {"restart", "run", "delete"} : ReleaseOld(c, op, p)
       \/ \E op \in {"kill", "stop"} : BeginStop(c, op, p)
  \/ \E op \in {"daemonStop", "daemonForce"} : DaemonStop(c, op)

\* A further step of an operation, with a lock or after it
Advance(c) ==
  \/ Prepare(c) \/ PrepareFails(c)
  \/ \E s \in Sessions : Open(c, s)
  \/ OpenFails(c)
  \/ Activate(c) \/ Abandon(c)
  \/ Kill(c) \/ KillFails(c)
  \/ CloseKilled(c) \/ RecordStopped(c) \/ Drop(c)
  \/ AfterResponse(c)

Process(s) == (\E status \in Endings \cup {"killed"} : Exit(s, status)) \/ Evict(s)

\* What the daemon does once it is stopping is the subject of Persistence.
Stopped == down # "no" /\ UNCHANGED vars

TerminalNext ==
  \/ /\ down = "no"
     /\ \/ \E c \in Clients :
             \/ Begin(c) \/ Cancel(c) \/ Enter(c) \/ Advance(c)
        \/ \E s \in Sessions : Process(s) \/ Retain(s)
        \/ HandleEvent
  \/ Stopped

TerminalSpec == TerminalInit /\ [][TerminalNext]_vars

\* terminalMu is a sync.Mutex, which starves nobody; Kill, Open and Core answer;
\* the manager retains what has exited.
TerminalFairness ==
  /\ \A c \in Clients :
       /\ WF_vars(down = "no" /\ Advance(c))
       /\ SF_vars(down = "no" /\ Enter(c))
  /\ \A s \in Sessions : WF_vars(down = "no" /\ Retain(s))
  /\ SF_vars(down = "no" /\ HandleEvent)

FairTerminalSpec == TerminalSpec /\ TerminalFairness
-----------------------------------------------------------------------------
(* Properties                                                              *)

Pending(kind, s) == [kind |-> kind, id |-> s] \in {events[i] : i \in DOMAIN events}

\* Between operations every live process belongs to a pane whose terminal is
\* active (server.go:296 lets clients reach a session only through its pane),
\* unless a Kill has failed.
ProcessesOwned ==
  lock = None /\ "kill" \notin faults =>
    \A s \in Sessions : Alive(s) =>
      \E p \in PanesWith(s) : term[p].state \in {"running", "stopping"} /\ owner[s] = p

\* Between operations a pane shown as active has a live process or an exit that
\* managerLoop has yet to handle: no exit is lost to a racing stop or restart.
NoGhostTerminal ==
  lock = None /\ down = "no" =>
    \A p \in Panes : term[p].state \in {"running", "stopping"} =>
      Alive(term[p].id) \/ Pending("exited", term[p].id)

\* Only the operation that reserves a pane sees it starting: nobody else finds
\* it in this state, in which it can be neither restarted nor dismissed, unless
\* Core has refused to record the failure of the start.
StartsSettle ==
  "refuse" \notin faults =>
    \A p \in Panes : term[p].state = "starting" =>
      lock # None /\ client[lock].pane = p

\* Processes and panes belong together, whatever operations, exits and faults
\* come in between, and no event of the manager takes the daemon down.
SessionsOwned ==
  /\ ProcessesOwned /\ NoGhostTerminal /\ StartsSettle
  /\ down # "event"

\* The error label is on a pane only while its terminal has ended with that
\* error, and on every such pane once the exit is handled, unless a cancelled
\* restart or a refused run has taken it away.
LabelsTruthful ==
  \A p \in Panes :
    /\ label[p] # None => label[p] = term[p].exit /\ NeedsErrorLabel(label[p])
    /\ /\ lock = None /\ faults \cap {"cancel", "refuse"} = {}
       /\ NeedsErrorLabel(term[p].exit)
       /\ term[p].id # None => ~ Pending("exited", term[p].id)
       => label[p] # None

\* What a pane tells of its session is true: the exit is the one of its process,
\* its history is there until its removal has been handled, and its error label
\* is that of the exit.  An event of the previous session never marks a
\* restarted pane.
ExitsTruthful ==
  /\ \A p \in Panes : term[p].id # None /\ term[p].exit # None =>
       /\ ~ Alive(term[p].id)
       /\ term[p].exit = session[term[p].id].status
       /\ session[term[p].id].state = "gone" => Pending("removed", term[p].id)
  /\ LabelsTruthful

\* Every exit is eventually shown, or the pane closed, and the session of a pane
\* that a successful exit has closed is eventually released.
ExitsSettle ==
  \A s \in Sessions :
    /\ session[s].state \in {"exited", "retained"} ~>
         \/ \A p \in PanesWith(s) : term[p].state \notin {"running", "stopping"}
         \/ down # "no"
    /\ s \in removing ~> session[s].state = "gone" \/ down # "no"

\* Every operation ends: terminalMu is always released.
OperationsEnd ==
  \A c \in Clients : client[c].pc # "idle" ~> client[c].pc = "idle" \/ down # "no"
================================================================================
