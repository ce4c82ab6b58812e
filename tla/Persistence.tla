----------------------------- MODULE Persistence -----------------------------
(***************************************************************************)
(* How the state of Core reaches the state file and outlives the daemon:   *)
(* persistLoop, the debounced Store and its atomic file replacement, the   *)
(* flush that daemon_stop runs before the listener is closed, the flush of *)
(* Close, and the replacement daemon that loads the file.                  *)
(*                                                                         *)
(* The state is abstracted to the set of mutations it contains: a snapshot *)
(* is a set, and the file holds one.  Daemons are numbered in the order in *)
(* which they are started on the same file and socket.                     *)
(***************************************************************************)
EXTENDS Integers, FiniteSets

CONSTANTS
  MutationLimit,       \* bounds of the model: mutations,
  DaemonLimit,         \*   daemons
  FailureLimit,        \*   and failing writes
  EventQueueCapacity,  \* of the subscription of persistLoop
  Background,          \* whether terminals and plugins change the state too
  WaitForExit          \* whether the next daemon is started only once the
                       \*   process of the previous one is gone

ASSUME PersistenceAssumption ==
  /\ MutationLimit \in Nat /\ DaemonLimit \in Nat /\ FailureLimit \in Nat
  /\ EventQueueCapacity \in Nat \ {0}
  /\ Background \in BOOLEAN /\ WaitForExit \in BOOLEAN

Mutations == 1 .. MutationLimit
Daemons == 1 .. DaemonLimit
State == SUBSET Mutations

\* flushState runs in the handler of daemon_stop, after its response, and in
\* Close.
Flushers == {"stop", "close"}

VARIABLES
  made,        \* the number of mutations so far
  failures,    \* the number of failed writes so far
  file,        \* what the state file holds
  synced,      \* what it still holds after a power loss
  mode,        \* of a daemon: not started, bound to its socket, up, exited or
               \*   killed
  listening,   \* whether its listener is open
  stopping,    \* Server.stopping or Server.closing
  state,       \* of its Core
  inflight,    \* whether a command holds commandGate for reading
  gate,        \* who holds commandGate for writing
  pending,     \* the number of events persistLoop has not received
  subscribed,  \* its subscription: "live", "overflow" or "closed"
  loop,        \* where persistLoop is, and the snapshot it has taken
  flusher,     \* where each flushState is, and the snapshot it has taken
  store,       \* Store
  writer       \* where Store.run is, and the snapshot it writes

diskVars == <<file, synced>>
serverVars == <<mode, listening, stopping>>
coreVars == <<made, state, inflight, pending, subscribed>>
vars == <<failures, diskVars, serverVars, coreVars, gate, loop, flusher, store,
          writer>>

IdleLoop == [pc |-> "wait", snapshot |-> {}]
IdleFlusher == [pc |-> "none", snapshot |-> {}, ok |-> TRUE]
EmptyStore == [latest |-> {}, dirty |-> FALSE, wake |-> FALSE, timer |-> FALSE,
               closing |-> FALSE, error |-> FALSE]
IdleWriter == [pc |-> "idle", by |-> "timer", content |-> {}, newest |-> TRUE]

FlusherPC == {"none", "observers", "drain", "lock", "schedule", "flush", "flushed",
              "storeclose", "done"}

PersistenceTypeOK ==
  /\ made \in 0 .. MutationLimit
  /\ failures \in 0 .. FailureLimit
  /\ file \in State /\ synced \in State
  /\ mode \in [Daemons -> {"off", "bound", "up", "exited", "dead"}]
  /\ listening \in [Daemons -> BOOLEAN]
  /\ stopping \in [Daemons -> BOOLEAN]
  /\ state \in [Daemons -> State]
  /\ inflight \in [Daemons -> BOOLEAN]
  /\ gate \in [Daemons -> Flushers \cup {"free"}]
  /\ pending \in [Daemons -> 0 .. EventQueueCapacity]
  /\ subscribed \in [Daemons -> {"live", "overflow", "closed"}]
  /\ loop \in [Daemons -> [pc : {"wait", "schedule", "ended"}, snapshot : State]]
  /\ flusher \in [Daemons -> [Flushers ->
       [pc : FlusherPC, snapshot : State, ok : BOOLEAN]]]
  /\ store \in [Daemons -> [latest : State, dirty : BOOLEAN, wake : BOOLEAN,
       timer : BOOLEAN, closing : BOOLEAN, error : BOOLEAN]]
  /\ writer \in [Daemons -> [pc : {"idle", "write", "sync", "stopped"},
       by : Flushers \cup {"timer", "end"}, content : State, newest : BOOLEAN]]
  /\ \A d \in Daemons : listening[d] => mode[d] \in {"bound", "up"}
  \* one daemon at most is bound to the socket
  /\ \A d, e \in Daemons : listening[d] /\ listening[e] => d = e
-----------------------------------------------------------------------------
(* Mutations of Core and the event each publishes to persistLoop           *)

QueueFull(d) == pending[d] = EventQueueCapacity

Mutate(d) ==
  /\ made < MutationLimit
  /\ made' = made + 1
  /\ state' = [state EXCEPT ![d] = @ \cup {made + 1}]
  /\ IF subscribed[d] = "live" /\ QueueFull(d)
     THEN /\ subscribed' = [subscribed EXCEPT ![d] = "overflow"]
          /\ UNCHANGED pending
     ELSE /\ pending' = [pending EXCEPT ![d] = IF subscribed[d] = "live"
                                               THEN @ + 1 ELSE @]
          /\ UNCHANGED subscribed
  /\ UNCHANGED <<failures, diskVars, serverVars, gate, loop, flusher, store, writer>>

\* guardCommand, then the command of a client, which succeeds or is refused
\* and releases the gate
AdmitCommand(d) ==
  /\ mode[d] = "up"
  /\ gate[d] = "free"
  /\ ~ stopping[d]
  /\ ~ inflight[d]
  /\ inflight' = [inflight EXCEPT ![d] = TRUE]
  /\ UNCHANGED <<failures, diskVars, serverVars, made, state, pending, subscribed,
                 gate, loop, flusher, store, writer>>

RunCommand(d) ==
  /\ mode[d] = "up"
  /\ inflight[d]
  /\ inflight' = [inflight EXCEPT ![d] = FALSE]
  /\ \/ Mutate(d)
     \/ UNCHANGED <<failures, diskVars, serverVars, made, state, pending, subscribed,
                    gate, loop, flusher, store, writer>>

\* managerLoop and the plugins do not take the gate; Close ends them first.
RunBackground(d) ==
  /\ Background
  /\ mode[d] = "up"
  /\ flusher[d]["close"].pc \in {"none", "observers"}
  /\ UNCHANGED inflight
  /\ Mutate(d)
-----------------------------------------------------------------------------
(* Store                                                                   *)

\* Schedule of snapshot s by a caller that continues whatever the result
ScheduleSilently(st, s) ==
  IF st.closing THEN st ELSE [st EXCEPT !.latest = s, !.dirty = TRUE]
Scheduled(st, s) ==
  IF st.closing THEN st
  ELSE [st EXCEPT !.latest = s, !.dirty = TRUE, !.wake = TRUE]

\* A write that has begun is no longer of the newest generation.
Superseded(w, st) == [w EXCEPT !.newest = @ /\ st.closing]

Schedule(d, s) ==
  /\ store' = [store EXCEPT ![d] = Scheduled(@, s)]
  /\ writer' = [writer EXCEPT ![d] = Superseded(@, store[d])]

\* writeLatest returns to the case of run that has called it.
Answer(d, by, ok) ==
  /\ writer' = [writer EXCEPT ![d] =
       [IdleWriter EXCEPT !.pc = IF by = "end" THEN "stopped" ELSE "idle"]]
  /\ flusher' = [flusher EXCEPT ![d] =
       [t \in Flushers |->
          IF t = by THEN [flusher[d][t] EXCEPT !.pc = "flushed", !.ok = ok]
          ELSE IF by = "end" /\ t = "close" THEN [flusher[d][t] EXCEPT !.ok = @ /\ ok]
          ELSE flusher[d][t]]]

BeginWrite(d, by) ==
  IF store[d].dirty
  THEN /\ writer' = [writer EXCEPT ![d] =
            [pc |-> "write", by |-> by, content |-> store[d].latest, newest |-> TRUE]]
       /\ store' = [store EXCEPT ![d].dirty = FALSE, ![d].timer = FALSE]
       /\ UNCHANGED flusher
  ELSE /\ Answer(d, by, TRUE)
       /\ store' = [store EXCEPT ![d].timer = FALSE]

Running(d) == mode[d] = "up" /\ writer[d].pc = "idle"

Wake(d) ==
  /\ Running(d)
  /\ store[d].wake
  /\ store' = [store EXCEPT ![d].wake = FALSE, ![d].timer = TRUE]
  /\ UNCHANGED <<failures, diskVars, serverVars, coreVars, gate, loop, flusher,
                 writer>>

\* The debounce interval is over, a flush is requested, or Close has begun.
TakeTurn(d) ==
  /\ Running(d)
  /\ \/ store[d].timer /\ BeginWrite(d, "timer")
     \/ \E t \in Flushers : flusher[d][t].pc = "flush" /\ BeginWrite(d, t)
     \/ store[d].closing /\ BeginWrite(d, "end")
  /\ UNCHANGED <<failures, diskVars, serverVars, coreVars, gate, loop>>

\* writeAtomic: the new file is complete before it replaces the old one;
\* syncDirectory then makes the replacement survive a power loss.
Replace(d) ==
  /\ mode[d] = "up"
  /\ writer[d].pc = "write"
  /\ file' = writer[d].content
  /\ writer' = [writer EXCEPT ![d].pc = "sync"]
  /\ UNCHANGED <<failures, synced, serverVars, coreVars, gate, loop, flusher, store>>

SyncDirectory(d) ==
  /\ mode[d] = "up"
  /\ writer[d].pc = "sync"
  /\ synced' = file
  /\ Answer(d, writer[d].by, TRUE)
  /\ UNCHANGED <<failures, file, serverVars, coreVars, gate, loop, store>>

\* Any step of writeAtomic fails.  The snapshot is dirty again unless a newer
\* one is; run reports only what the timer has started.
FailWrite(d) ==
  /\ mode[d] = "up"
  /\ writer[d].pc \in {"write", "sync"}
  /\ failures < FailureLimit
  /\ failures' = failures + 1
  /\ store' = [store EXCEPT ![d].dirty = @ \/ writer[d].newest,
                            ![d].error = @ \/ writer[d].by = "timer"]
  /\ Answer(d, writer[d].by, FALSE)
  /\ UNCHANGED <<diskVars, serverVars, coreVars, gate, loop>>
-----------------------------------------------------------------------------
(* persistLoop: for every event, a snapshot of the state as it is by then  *)

LoopTake(d) ==
  /\ mode[d] = "up"
  /\ loop[d].pc = "wait"
  /\ pending[d] > 0
  /\ pending' = [pending EXCEPT ![d] = @ - 1]
  /\ loop' = [loop EXCEPT ![d] = [pc |-> "schedule", snapshot |-> state[d]]]
  /\ UNCHANGED <<failures, diskVars, serverVars, made, state, inflight, subscribed,
                 gate, flusher, store, writer>>

LoopSchedule(d) ==
  /\ mode[d] = "up"
  /\ loop[d].pc = "schedule"
  /\ Schedule(d, loop[d].snapshot)
  /\ loop' = [loop EXCEPT ![d] =
                [IdleLoop EXCEPT !.pc = IF store[d].closing THEN "ended" ELSE "wait"]]
  /\ UNCHANGED <<failures, diskVars, serverVars, coreVars, gate, flusher>>

\* requestStop: no more commands and no more connections
RequestStop(d) ==
  /\ stopping' = [stopping EXCEPT ![d] = TRUE]
  /\ listening' = [listening EXCEPT ![d] = FALSE]
  /\ UNCHANGED mode

\* The subscription has ended and its last event is handled.
LoopEnd(d) ==
  /\ mode[d] = "up"
  /\ loop[d].pc = "wait"
  /\ pending[d] = 0
  /\ subscribed[d] # "live"
  /\ loop' = [loop EXCEPT ![d].pc = "ended"]
  /\ IF subscribed[d] = "overflow" THEN RequestStop(d) ELSE UNCHANGED serverVars
  /\ UNCHANGED <<failures, diskVars, coreVars, gate, flusher, store, writer>>

\* storeErrorLoop
StoreError(d) ==
  /\ mode[d] = "up"
  /\ store[d].error
  /\ store' = [store EXCEPT ![d].error = FALSE]
  /\ RequestStop(d)
  /\ UNCHANGED <<failures, diskVars, coreVars, gate, loop, flusher, writer>>
-----------------------------------------------------------------------------
(* flushState, by daemon_stop and by Close.                                *)

At(d, t, pc) == mode[d] = "up" /\ flusher[d][t].pc = pc
GoTo(d, t, pc) == flusher' = [flusher EXCEPT ![d][t].pc = pc]

\* DaemonStop, a command itself, refuses all that follow.
DaemonStop(d) ==
  /\ At(d, "stop", "none")
  /\ gate[d] = "free"
  /\ ~ stopping[d]
  /\ stopping' = [stopping EXCEPT ![d] = TRUE]
  /\ GoTo(d, "stop", "lock")
  /\ UNCHANGED <<failures, diskVars, mode, listening, coreVars, gate, loop, store,
                 writer>>

\* commandGate.Lock waits for the commands in flight; then Core.Snapshot.
GateFree(d) == gate[d] = "free" /\ ~ inflight[d]

Lock(d, t) ==
  /\ At(d, t, "lock")
  /\ GateFree(d)
  /\ gate' = [gate EXCEPT ![d] = t]
  /\ flusher' = [flusher EXCEPT ![d][t] =
                   [pc |-> "schedule", snapshot |-> state[d], ok |-> TRUE]]
  /\ UNCHANGED <<failures, diskVars, serverVars, coreVars, loop, store, writer>>

\* Schedule and, unless the store is closed by now, Flush
FlushAnyway(st) == "flush"
AfterSchedule(st) == IF st.closing THEN "flushed" ELSE "flush"

FlusherSchedule(d, t) ==
  /\ At(d, t, "schedule")
  /\ Schedule(d, flusher[d][t].snapshot)
  /\ flusher' = [flusher EXCEPT ![d][t] =
                   [pc |-> AfterSchedule(store[d]),
                    snapshot |-> {}, ok |-> ~ store[d].closing]]
  /\ UNCHANGED <<failures, diskVars, serverVars, coreVars, gate, loop>>

\* AfterResponse closes the listener, whether the flush has failed or not.
StopFlushed(d) ==
  /\ At(d, "stop", "flushed")
  /\ GoTo(d, "stop", "done")
  /\ gate' = [gate EXCEPT ![d] = "free"]
  /\ RequestStop(d)
  /\ UNCHANGED <<failures, diskVars, coreVars, loop, store, writer>>

\* Close: on a signal, or when Accept fails because the listener is closed
CloseBegin(d) ==
  /\ At(d, "close", "none")
  /\ RequestStop(d)
  /\ GoTo(d, "close", "observers")
  /\ UNCHANGED <<failures, diskVars, coreVars, gate, loop, store, writer>>

\* The plugins and managerLoop have ended; the subscription of persistLoop is
\* closed and the loop handles what is left of it.
CloseObservers(d) ==
  /\ At(d, "close", "observers")
  /\ GoTo(d, "close", "drain")
  /\ subscribed' = [subscribed EXCEPT ![d] = IF @ = "live" THEN "closed" ELSE @]
  /\ UNCHANGED <<failures, diskVars, serverVars, made, state, inflight, pending,
                 gate, loop, store, writer>>

NotAwaited(d) == TRUE
LoopEnded(d) == loop[d].pc = "ended"

CloseDrained(d) ==
  /\ At(d, "close", "drain")
  /\ LoopEnded(d)
  /\ GoTo(d, "close", "lock")
  /\ UNCHANGED <<failures, diskVars, serverVars, coreVars, gate, loop, store, writer>>

\* Store.Close
CloseStore(d) ==
  /\ At(d, "close", "flushed")
  /\ store' = [store EXCEPT ![d].closing = TRUE]
  /\ GoTo(d, "close", "storeclose")
  /\ UNCHANGED <<failures, diskVars, serverVars, coreVars, gate, loop, writer>>

CloseEnd(d) ==
  /\ At(d, "close", "storeclose")
  /\ writer[d].pc = "stopped"
  /\ gate' = [gate EXCEPT ![d] = "free"]
  /\ GoTo(d, "close", "done")
  /\ UNCHANGED <<failures, diskVars, serverVars, coreVars, loop, store, writer>>

\* The process is gone, and what it had in memory.
Gone(D, m) ==
  LET Reset(f, init) == [d \in Daemons |-> IF d \in D THEN init ELSE f[d]] IN
  /\ mode' = Reset(mode, m)
  /\ listening' = Reset(listening, FALSE)
  /\ stopping' = Reset(stopping, FALSE)
  /\ state' = Reset(state, {})
  /\ inflight' = Reset(inflight, FALSE)
  /\ gate' = Reset(gate, "free")
  /\ pending' = Reset(pending, 0)
  /\ subscribed' = Reset(subscribed, "live")
  /\ loop' = Reset(loop, IdleLoop)
  /\ flusher' = Reset(flusher, [t \in Flushers |-> IdleFlusher])
  /\ store' = Reset(store, EmptyStore)
  /\ writer' = Reset(writer, IdleWriter)
  /\ UNCHANGED <<made, failures>>

\* The connections, and with them the handler of daemon_stop, have ended.
Exit(d) ==
  /\ At(d, "close", "done")
  /\ flusher[d]["stop"].pc \in {"none", "done"}
  /\ Gone({d}, "exited")
  /\ UNCHANGED diskVars
-----------------------------------------------------------------------------
(* Start and crash of a daemon                                             *)

\* A closed listener leaves its socket, which refuses connections and so is
\* taken over (removeConfirmedStale).
Bind(d) ==
  /\ mode[d] = "off"
  /\ \A e \in Daemons : ~ listening[e]
  /\ \A e \in 1 .. (d - 1) :
       /\ mode[e] # "off"
       /\ WaitForExit => mode[e] \in {"exited", "dead"}
  /\ mode' = [mode EXCEPT ![d] = "bound"]
  /\ listening' = [listening EXCEPT ![d] = TRUE]
  /\ UNCHANGED <<failures, diskVars, stopping, coreVars, gate, loop, flusher, store,
                 writer>>

Load(d) ==
  /\ mode[d] = "bound"
  /\ mode' = [mode EXCEPT ![d] = "up"]
  /\ state' = [state EXCEPT ![d] = file]
  /\ UNCHANGED <<failures, diskVars, listening, stopping, made, inflight, pending,
                 subscribed, gate, loop, flusher, store, writer>>

Alive(d) == mode[d] \in {"bound", "up"}

Crash(d) ==
  /\ Alive(d)
  /\ Gone({d}, "dead")
  /\ UNCHANGED diskVars

\* Without the sync of its directory a replaced file may come back.
PowerLoss ==
  /\ \E d \in Daemons : Alive(d)
  /\ Gone({d \in Daemons : Alive(d)}, "dead")
  /\ file' \in {file, synced}
  /\ synced' = file'

PersistenceInit ==
  /\ made = 0 /\ failures = 0
  /\ file = {} /\ synced = {}
  /\ mode = [d \in Daemons |-> "off"]
  /\ listening = [d \in Daemons |-> FALSE]
  /\ stopping = [d \in Daemons |-> FALSE]
  /\ state = [d \in Daemons |-> {}]
  /\ inflight = [d \in Daemons |-> FALSE]
  /\ gate = [d \in Daemons |-> "free"]
  /\ pending = [d \in Daemons |-> 0]
  /\ subscribed = [d \in Daemons |-> "live"]
  /\ loop = [d \in Daemons |-> IdleLoop]
  /\ flusher = [d \in Daemons |-> [t \in Flushers |-> IdleFlusher]]
  /\ store = [d \in Daemons |-> EmptyStore]
  /\ writer = [d \in Daemons |-> IdleWriter]

\* What the goroutines of a daemon do on their own
Progress(d) ==
  \/ RunCommand(d)
  \/ Wake(d) \/ TakeTurn(d) \/ Replace(d) \/ SyncDirectory(d)
  \/ LoopTake(d) \/ LoopSchedule(d) \/ LoopEnd(d) \/ StoreError(d)
  \/ \E t \in Flushers : Lock(d, t) \/ FlusherSchedule(d, t)
  \/ StopFlushed(d)
  \/ ~ listening[d] /\ CloseBegin(d)
  \/ CloseObservers(d) \/ CloseDrained(d) \/ CloseStore(d) \/ CloseEnd(d) \/ Exit(d)

PersistenceNext ==
  \/ \E d \in Daemons :
       \/ Bind(d) \/ Load(d) \/ Crash(d)
       \/ AdmitCommand(d) \/ RunBackground(d) \/ DaemonStop(d)
       \/ CloseBegin(d) \/ FailWrite(d)
       \/ Progress(d)
  \/ PowerLoss

PersistenceSpec == PersistenceInit /\ [][PersistenceNext]_vars

\* Every goroutine that can go on does so in the end; nothing makes a client
\* send commands, a write fail or a daemon start.
Fairness ==
  \A d \in Daemons :
    /\ WF_vars(RunCommand(d))
    /\ WF_vars(Wake(d)) /\ WF_vars(TakeTurn(d))
    /\ WF_vars(Replace(d)) /\ WF_vars(SyncDirectory(d))
    /\ WF_vars(LoopTake(d)) /\ WF_vars(LoopSchedule(d)) /\ WF_vars(LoopEnd(d))
    /\ WF_vars(StoreError(d))
    /\ \A t \in Flushers : WF_vars(Lock(d, t)) /\ WF_vars(FlusherSchedule(d, t))
    /\ WF_vars(StopFlushed(d))
    /\ WF_vars(~ listening[d] /\ CloseBegin(d))
    /\ WF_vars(CloseObservers(d)) /\ WF_vars(CloseDrained(d))
    /\ WF_vars(CloseStore(d)) /\ WF_vars(CloseEnd(d)) /\ WF_vars(Exit(d))

FairPersistenceSpec == PersistenceSpec /\ Fairness
-----------------------------------------------------------------------------
(* When nothing is under way in a daemon that has not begun to stop, the   *)
(* state file holds its state: no interleaving of the snapshots that       *)
(* persistLoop takes, the debounce timer and writes that fail leaves a     *)
(* mutation behind for good (persistLoop, Store.run, writeLatest).  It     *)
(* takes that the previous daemon is gone.                                 *)
AtRest(d) ==
  /\ mode[d] = "up" /\ ~ stopping[d]
  /\ subscribed[d] = "live" /\ pending[d] = 0
  /\ loop[d].pc = "wait"
  /\ ~ store[d].dirty /\ ~ store[d].error
  /\ writer[d].pc = "idle"

SavedAtRest ==
  WaitForExit => \A d \in Daemons : AtRest(d) => file = state[d]

(* Once Close has ended without an error, the state file holds all that    *)
(* Core has ever done, whatever commands were in flight when it began      *)
(* (Close: observers first, then the gate, then the flush).                *)
SavedOnClose ==
  WaitForExit =>
    \A d \in Daemons : At(d, "close", "done") /\ flusher[d]["close"].ok
      => file = state[d] /\ synced = file

(* Nothing is left unsaved, neither while the daemon runs nor after it.     *)
NothingUnsaved == SavedAtRest /\ SavedOnClose

(* Close always ends: the gate, the flush and the loops it waits for never *)
(* wait for each other, daemon_stop and a signal together included.        *)
CloseCompletes ==
  \A d \in Daemons : (mode[d] = "up" /\ stopping[d]) ~> (mode[d] \in {"exited", "dead"})

(* Every mutation that a daemon has not written yet is on the disk in the  *)
(* end, unless the daemon dies first or could not write: the debounce only *)
(* delays it.                                                              *)
EventuallySaved ==
  \A d \in Daemons, m \in Mutations :
    (mode[d] = "up" /\ m \in state[d] \ file)
      ~> (m \in synced \/ failures > 0 \/ mode[d] = "dead")

=============================================================================
