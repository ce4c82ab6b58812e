------------------------------ MODULE StateProofs ------------------------------
(***************************************************************************)
(* The state of a daemon, in memory and on the disk.                       *)
(*                                                                         *)
(* First the Store: nothing is left unsaved, for any number of daemons,    *)
(* mutations and failing writes, and any capacity of the subscription.     *)
(*                                                                         *)
(* Then the objects of Core: for any number of panes, splits, labels,      *)
(* attentions and tools, and for any layouts that obey LayoutLaws, the     *)
(* state is one that can be cloned and saved, a frontend's copy follows    *)
(* it, tool updates are made of the latest state, and the commands are     *)
(* those of CoreState.                                                     *)
(***************************************************************************)
EXTENDS Persistence, CoreObjects, SequenceTheorems, FiniteSetTheorems,
        WellFoundedInduction, TLAPS

(* The type invariant, one part for each component of a daemon             *)
DiskType ==
  /\ made \in 0 .. MutationLimit /\ failures \in 0 .. FailureLimit
  /\ file \in State /\ synced \in State
ServerType ==
  /\ mode \in [Daemons -> {"off", "bound", "up", "exited", "dead"}]
  /\ listening \in [Daemons -> BOOLEAN] /\ stopping \in [Daemons -> BOOLEAN]
  /\ \A d \in Daemons : listening[d] => mode[d] \in {"bound", "up"}
  /\ \A d, e \in Daemons : listening[d] /\ listening[e] => d = e
CoreType ==
  /\ state \in [Daemons -> State] /\ inflight \in [Daemons -> BOOLEAN]
  /\ gate \in [Daemons -> Flushers \cup {"free"}]
  /\ pending \in [Daemons -> 0 .. EventQueueCapacity]
  /\ subscribed \in [Daemons -> {"live", "overflow", "closed"}]
LoopType == loop \in [Daemons -> [pc : {"wait", "schedule", "ended"}, snapshot : State]]
FlusherType ==
  flusher \in [Daemons -> [Flushers -> [pc : FlusherPC, snapshot : State, ok : BOOLEAN]]]
StoreType ==
  store \in [Daemons -> [latest : State, dirty : BOOLEAN, wake : BOOLEAN,
                         timer : BOOLEAN, closing : BOOLEAN, error : BOOLEAN]]
WriterType ==
  writer \in [Daemons -> [pc : {"idle", "write", "sync", "stopped"},
                          by : Flushers \cup {"timer", "end"}, content : State,
                          newest : BOOLEAN]]

Types == /\ DiskType /\ ServerType /\ CoreType /\ LoopType /\ FlusherType /\ StoreType
         /\ WriterType
-----------------------------------------------------------------------------
Writing(d) == writer[d].pc \in {"write", "sync"}

\* Whoever holds the gate is between Lock and the end of its flush.
Holding == {"schedule", "flush", "flushed", "storeclose"}

\* From its Lock on, Close sees no more commands.
Locked == {"schedule", "flush", "flushed", "storeclose", "done"}

ClosePC(d) == flusher[d]["close"].pc

\* Daemons are started in their order, one after the other.
AloneInv ==
  /\ \A d, e \in Daemons : e < d /\ mode[e] = "off" => mode[d] = "off"
  /\ WaitForExit => \A d, e \in Daemons : Alive(d) /\ Alive(e) => d = e

\* A daemon that is not up has nothing in memory.
Blank(d) ==
  mode[d] # "up" =>
    /\ ~ stopping[d] /\ ~ inflight[d] /\ gate[d] = "free"
    /\ pending[d] = 0 /\ subscribed[d] = "live" /\ loop[d] = IdleLoop
    /\ flusher[d] = [t \in Flushers |-> IdleFlusher]
    /\ store[d] = EmptyStore /\ writer[d] = IdleWriter

\* The gate excludes the two flushes from each other.
GateInv(d) ==
  \A t \in Flushers : gate[d] = t <=> flusher[d][t].pc \in Holding

\* How far a stop has got
StopInv(d) ==
  /\ ~ stopping[d] => /\ \A t \in Flushers : flusher[d][t].pc = "none"
                      /\ loop[d].pc # "ended"
  /\ flusher[d]["stop"].pc # "storeclose"
  /\ subscribed[d] = "closed" => ClosePC(d) \notin {"none", "observers"}
  /\ ClosePC(d) \in Locked \cup {"lock"} => loop[d].pc = "ended"
  /\ ClosePC(d) \in Locked => ~ inflight[d]
  /\ store[d].closing <=> ClosePC(d) \in {"storeclose", "done"}

\* For whom run writes
WriterInv(d) ==
  /\ \A t \in Flushers : Writing(d) /\ writer[d].by = t => flusher[d][t].pc = "flush"
  /\ Writing(d) /\ writer[d].by = "end" => store[d].closing
  /\ writer[d].pc = "stopped" => store[d].closing
  /\ ClosePC(d) = "done" => writer[d].pc = "stopped"

\* The state of Core is what the store holds, or is being written, or is in the file.
Newest(d) ==
  /\ store[d].dirty => store[d].latest = state[d]
  /\ ~ store[d].dirty /\ writer[d].pc = "write" => writer[d].content = state[d]
  /\ ~ store[d].dirty /\ writer[d].pc # "write" => file = state[d]

\* While the daemon runs, an event is pending, persistLoop holds the newest
\* snapshot, or the store does.
RunInv(d) ==
  mode[d] = "up" /\ ~ stopping[d] /\ ~ store[d].error
    /\ subscribed[d] = "live" /\ pending[d] = 0
  => IF loop[d].pc = "schedule" THEN loop[d].snapshot = state[d] ELSE Newest(d)

\* From the Schedule of Close on, the store does, and what it has written is
\* synced; a write that fails leaves it dirty.
CloseInv(d) ==
  /\ ClosePC(d) = "schedule" => flusher[d]["close"].snapshot = state[d]
  /\ ClosePC(d) \in Locked \ {"schedule"} =>
       /\ Newest(d) /\ store[d].latest = state[d]
       /\ ~ store[d].dirty /\ Writing(d) => writer[d].newest
       /\ ~ store[d].dirty /\ ~ Writing(d) => synced = file
  /\ Writing(d) /\ writer[d].by = "end" => ~ store[d].dirty
  /\ writer[d].pc = "stopped" /\ flusher[d]["close"].ok => ~ store[d].dirty

\* What does not depend on the file
Control(d) == Blank(d) /\ GateInv(d) /\ StopInv(d) /\ WriterInv(d)

SaveInv ==
  /\ Types
  /\ AloneInv
  /\ \A d \in Daemons : Control(d)
  /\ WaitForExit => \A d \in Daemons : RunInv(d) /\ CloseInv(d)

-----------------------------------------------------------------------------
(* What a step of one daemon leaves alone                                    *)

Only(d) ==
  \A e \in Daemons \ {d} :
    /\ mode'[e] = mode[e] /\ stopping'[e] = stopping[e] /\ state'[e] = state[e]
    /\ inflight'[e] = inflight[e] /\ gate'[e] = gate[e] /\ pending'[e] = pending[e]
    /\ subscribed'[e] = subscribed[e] /\ loop'[e] = loop[e] /\ flusher'[e] = flusher[e]
    /\ store'[e] = store[e] /\ writer'[e] = writer[e]

(* A step of one daemon keeps what holds of the others: with WaitForExit,
   only one of them is up while the file changes.                          *)
LEMMA StepAt ==
  ASSUME SaveInv, NEW d \in Daemons, Only(d), UNCHANGED diskVars \/ Alive(d),
         Types', AloneInv', Control(d)',
         WaitForExit => RunInv(d)' /\ CloseInv(d)'
  PROVE  SaveInv'
<1>1. ASSUME NEW e \in Daemons \ {d} PROVE Control(e)'
  BY <1>1 DEF SaveInv, Only, Control, Blank, GateInv, StopInv, WriterInv, Writing, ClosePC
<1>2. ASSUME NEW e \in Daemons \ {d}, WaitForExit PROVE RunInv(e)' /\ CloseInv(e)'
  <2>1. CASE UNCHANGED diskVars
    BY <1>2, <2>1 DEF SaveInv, Only, RunInv, CloseInv, Newest, Writing, ClosePC, diskVars
  <2>2. CASE Alive(d)
    <3>1. mode[e] # "up"
      BY <1>2, <2>2 DEF SaveInv, AloneInv, Alive
    <3>2. writer[e] = IdleWriter /\ flusher[e] = [t \in Flushers |-> IdleFlusher]
      BY <3>1 DEF SaveInv, Control, Blank
    <3>3. mode'[e] # "up" /\ writer'[e].pc = "idle" /\ ClosePC(e)' = "none"
      BY <3>1, <3>2 DEF Only, ClosePC, IdleWriter, IdleFlusher, Flushers
    <3> QED
      BY <3>3 DEF RunInv, CloseInv, Writing, Locked
  <2> QED
    BY <2>1, <2>2
<1> QED
  BY <1>1, <1>2 DEF SaveInv

(* Only the start and the end of a daemon concern the order.               *)
LEMMA AloneFrame ==
  ASSUME SaveInv, mode' = mode
  PROVE  AloneInv'
  BY DEF SaveInv, AloneInv, Alive

(* A flush goes on to another place.                                       *)
LEMMA GoToMeans ==
  ASSUME FlusherType, NEW d \in Daemons, NEW t \in Flushers, NEW pc \in FlusherPC,
         GoTo(d, t, pc)
  PROVE  /\ FlusherType'
         /\ \A e \in Daemons \ {d} : flusher'[e] = flusher[e]
         /\ \A u \in Flushers : /\ flusher'[d][u].pc = IF u = t THEN pc ELSE flusher[d][u].pc
                                /\ flusher'[d][u].snapshot = flusher[d][u].snapshot
                                /\ flusher'[d][u].ok = flusher[d][u].ok
<1>1. flusher' = [flusher EXCEPT ![d] = [flusher[d] EXCEPT ![t] =
                    [flusher[d][t] EXCEPT !.pc = pc]]]
  BY DEF GoTo
<1>2. /\ flusher[d] \in [Flushers -> [pc : FlusherPC, snapshot : State, ok : BOOLEAN]]
      /\ flusher[d][t] \in [pc : FlusherPC, snapshot : State, ok : BOOLEAN]
  BY DEF FlusherType
<1>3. [flusher[d][t] EXCEPT !.pc = pc] \in [pc : FlusherPC, snapshot : State, ok : BOOLEAN]
  BY <1>2
<1>4. flusher'[d] = [flusher[d] EXCEPT ![t] = [flusher[d][t] EXCEPT !.pc = pc]]
  BY <1>1 DEF FlusherType
<1>5. flusher'[d] \in [Flushers -> [pc : FlusherPC, snapshot : State, ok : BOOLEAN]]
  BY <1>2, <1>3, <1>4
<1> QED
  BY <1>1, <1>2, <1>4, <1>5 DEF FlusherType

(* The caller that run answers has flushed; run is idle or has ended.      *)
Answered(d, by, ok) ==
  /\ \A e \in Daemons \ {d} : flusher'[e] = flusher[e] /\ writer'[e] = writer[e]
  /\ writer'[d].pc = IF by = "end" THEN "stopped" ELSE "idle"
  /\ \A t \in Flushers :
       /\ flusher'[d][t].pc = IF t = by THEN "flushed" ELSE flusher[d][t].pc
       /\ flusher'[d][t].snapshot = flusher[d][t].snapshot
       /\ flusher'[d][t].ok = IF t = by THEN ok
                              ELSE IF by = "end" /\ t = "close"
                              THEN flusher[d][t].ok /\ ok ELSE flusher[d][t].ok

(* What the answer of the writer leaves.                                   *)
LEMMA AnswerMeans ==
  ASSUME FlusherType, WriterType, NEW d \in Daemons,
         NEW by \in Flushers \cup {"timer", "end"}, NEW ok \in BOOLEAN, Answer(d, by, ok)
  PROVE  FlusherType' /\ WriterType' /\ Answered(d, by, ok)
<1> DEFINE Record == [pc : FlusherPC, snapshot : State, ok : BOOLEAN]
           New(t) == IF t = by THEN [flusher[d][t] EXCEPT !.pc = "flushed", !.ok = ok]
                     ELSE IF by = "end" /\ t = "close"
                     THEN [flusher[d][t] EXCEPT !.ok = @ /\ ok] ELSE flusher[d][t]
<1>1. flusher' = [flusher EXCEPT ![d] = [t \in Flushers |-> New(t)]]
  BY Zenon DEF Answer
<1>2. flusher[d] \in [Flushers -> Record]
  BY DEF FlusherType
<1>3. ASSUME NEW t \in Flushers
      PROVE  /\ New(t) \in Record
             /\ New(t).pc = IF t = by THEN "flushed" ELSE flusher[d][t].pc
             /\ New(t).snapshot = flusher[d][t].snapshot
             /\ New(t).ok = IF t = by THEN ok
                            ELSE IF by = "end" /\ t = "close"
                            THEN flusher[d][t].ok /\ ok ELSE flusher[d][t].ok
  <2>1. flusher[d][t] \in Record
    BY <1>2
  <2>2. CASE t = by
    BY <2>1, <2>2 DEF FlusherPC
  <2>3. CASE t # by /\ by = "end" /\ t = "close"
    <3>1. New(t) = [flusher[d][t] EXCEPT !.ok = @ /\ ok]
      BY <2>3
    <3>2. (flusher[d][t].ok /\ ok) \in BOOLEAN
      BY Zenon
    <3>3. New(t) \in Record /\ New(t).pc = flusher[d][t].pc
          /\ New(t).snapshot = flusher[d][t].snapshot /\ New(t).ok = (flusher[d][t].ok /\ ok)
      BY <2>1, <3>1, <3>2
    <3> QED
      BY <2>3, <3>3
  <2>4. CASE t # by /\ ~ (by = "end" /\ t = "close")
    BY <2>1, <2>4
  <2> QED
    BY <2>2, <2>3, <2>4
<1> HIDE DEF New
<1>4. \A t \in Flushers : flusher'[d][t] = New(t)
  BY <1>1 DEF FlusherType
<1>5. FlusherType' /\ \A e \in Daemons \ {d} : flusher'[e] = flusher[e]
  BY <1>1, <1>3 DEF FlusherType
<1> DEFINE W == [IdleWriter EXCEPT !.pc = IF by = "end" THEN "stopped" ELSE "idle"]
<1>6. /\ W \in [pc : {"idle", "write", "sync", "stopped"},
                by : Flushers \cup {"timer", "end"}, content : State, newest : BOOLEAN]
      /\ W.pc = IF by = "end" THEN "stopped" ELSE "idle"
  <2> DEFINE S == [pc : {"idle", "write", "sync", "stopped"},
                   by : Flushers \cup {"timer", "end"}, content : State, newest : BOOLEAN]
  <2>1. IdleWriter \in S
    BY DEF IdleWriter, State
  <2> HIDE DEF IdleWriter
  <2>2. /\ [IdleWriter EXCEPT !.pc = "stopped"] \in S
        /\ [IdleWriter EXCEPT !.pc = "stopped"].pc = "stopped"
    BY <2>1
  <2>3. /\ [IdleWriter EXCEPT !.pc = "idle"] \in S
        /\ [IdleWriter EXCEPT !.pc = "idle"].pc = "idle"
    BY <2>1
  <2>4. /\ by = "end" => W = [IdleWriter EXCEPT !.pc = "stopped"]
        /\ by # "end" => W = [IdleWriter EXCEPT !.pc = "idle"]
    BY Zenon
  <2> HIDE DEF W, S
  <2> QED
    BY <2>2, <2>3, <2>4, Zenon DEF S
<1>7. writer' = [writer EXCEPT ![d] = W]
  BY Zenon DEF Answer
<1> HIDE DEF W
<1>8. /\ WriterType' /\ \A e \in Daemons \ {d} : writer'[e] = writer[e]
      /\ writer'[d].pc = IF by = "end" THEN "stopped" ELSE "idle"
  BY <1>6, <1>7 DEF WriterType
<1> QED
  BY <1>3, <1>4, <1>5, <1>8 DEF Answered

(* A snapshot that is scheduled is the newest, unless the store is closed. *)
LEMMA ScheduleMeans ==
  ASSUME StoreType, WriterType, NEW d \in Daemons, NEW s \in State, Schedule(d, s)
  PROVE  /\ StoreType' /\ WriterType'
         /\ \A e \in Daemons \ {d} : store'[e] = store[e] /\ writer'[e] = writer[e]
         /\ store[d].closing => store'[d] = store[d]
         /\ ~ store[d].closing => store'[d].latest = s /\ store'[d].dirty
         /\ store'[d].closing = store[d].closing /\ store'[d].error = store[d].error
         /\ writer'[d].pc = writer[d].pc /\ writer'[d].by = writer[d].by
         /\ writer'[d].content = writer[d].content
         /\ writer'[d].newest = (writer[d].newest /\ store[d].closing)
<1>1. /\ store' = [store EXCEPT ![d] = Scheduled(store[d], s)]
      /\ writer' = [writer EXCEPT ![d] = Superseded(writer[d], store[d])]
  BY DEF Schedule
<1>2. /\ store[d] \in [latest : State, dirty : BOOLEAN, wake : BOOLEAN,
                       timer : BOOLEAN, closing : BOOLEAN, error : BOOLEAN]
      /\ writer[d] \in [pc : {"idle", "write", "sync", "stopped"},
                        by : Flushers \cup {"timer", "end"}, content : State,
                        newest : BOOLEAN]
  BY DEF StoreType, WriterType
<1>3. /\ Scheduled(store[d], s) \in [latest : State, dirty : BOOLEAN, wake : BOOLEAN,
                       timer : BOOLEAN, closing : BOOLEAN, error : BOOLEAN]
      /\ store[d].closing => Scheduled(store[d], s) = store[d]
      /\ ~ store[d].closing => Scheduled(store[d], s).latest = s /\ Scheduled(store[d], s).dirty
      /\ Scheduled(store[d], s).closing = store[d].closing
      /\ Scheduled(store[d], s).error = store[d].error
  BY <1>2 DEF Scheduled
<1>4. (writer[d].newest /\ store[d].closing) \in BOOLEAN
  BY Zenon
<1>5. Superseded(writer[d], store[d]) =
        [writer[d] EXCEPT !.newest = writer[d].newest /\ store[d].closing]
  BY DEF Superseded
<1>6. /\ Superseded(writer[d], store[d]) \in [pc : {"idle", "write", "sync", "stopped"},
                        by : Flushers \cup {"timer", "end"}, content : State,
                        newest : BOOLEAN]
      /\ Superseded(writer[d], store[d]).pc = writer[d].pc
      /\ Superseded(writer[d], store[d]).by = writer[d].by
      /\ Superseded(writer[d], store[d]).content = writer[d].content
      /\ Superseded(writer[d], store[d]).newest = (writer[d].newest /\ store[d].closing)
  BY <1>2, <1>4, <1>5
<1>7. /\ store'[d] = Scheduled(store[d], s) /\ writer'[d] = Superseded(writer[d], store[d])
      /\ \A e \in Daemons \ {d} : store'[e] = store[e] /\ writer'[e] = writer[e]
  BY <1>1 DEF StoreType, WriterType
<1>8. StoreType' /\ WriterType'
  BY <1>1, <1>3, <1>6 DEF StoreType, WriterType
<1> QED
  BY <1>3, <1>6, <1>7, <1>8

(* A turn of run takes the snapshot that is dirty, or answers at once.     *)
LEMMA BeginWriteMeans ==
  ASSUME FlusherType, StoreType, WriterType, NEW d \in Daemons,
         NEW by \in Flushers \cup {"timer", "end"}, BeginWrite(d, by)
  PROVE  /\ FlusherType' /\ StoreType' /\ WriterType'
         /\ \A e \in Daemons \ {d} : /\ flusher'[e] = flusher[e] /\ store'[e] = store[e]
                                     /\ writer'[e] = writer[e]
         /\ ~ store'[d].dirty
         /\ store'[d].latest = store[d].latest /\ store'[d].closing = store[d].closing
         /\ store'[d].error = store[d].error
         /\ store[d].dirty =>
              /\ writer'[d].pc = "write" /\ writer'[d].by = by
              /\ writer'[d].content = store[d].latest /\ writer'[d].newest
              /\ flusher' = flusher
         /\ ~ store[d].dirty => Answer(d, by, TRUE)
<1>1. /\ store[d] \in [latest : State, dirty : BOOLEAN, wake : BOOLEAN,
                       timer : BOOLEAN, closing : BOOLEAN, error : BOOLEAN]
  BY DEF StoreType
<1>2. CASE store[d].dirty
  <2>1. /\ writer' = [writer EXCEPT ![d] = [pc |-> "write", by |-> by,
                                          content |-> store[d].latest, newest |-> TRUE]]
        /\ store' = [store EXCEPT ![d] = [store[d] EXCEPT !.dirty = FALSE, !.timer = FALSE]]
        /\ flusher' = flusher
    BY <1>2 DEF BeginWrite
  <2>2. FlusherType' /\ StoreType'
    BY <1>1, <2>1 DEF FlusherType, StoreType
  <2>3. WriterType'
    BY <1>1, <2>1 DEF WriterType
  <2>4. /\ writer'[d] = [pc |-> "write", by |-> by, content |-> store[d].latest,
                         newest |-> TRUE]
        /\ store'[d] = [store[d] EXCEPT !.dirty = FALSE, !.timer = FALSE]
        /\ \A e \in Daemons \ {d} : store'[e] = store[e] /\ writer'[e] = writer[e]
    BY <2>1 DEF StoreType, WriterType
  <2>5. /\ ~ store'[d].dirty
        /\ store'[d].latest = store[d].latest /\ store'[d].closing = store[d].closing
        /\ store'[d].error = store[d].error
    BY <1>1, <2>4
  <2> QED
    BY <1>2, <2>1, <2>2, <2>3, <2>4, <2>5
<1>3. CASE ~ store[d].dirty
  <2>1. Answer(d, by, TRUE)
    BY <1>3 DEF BeginWrite
  <2>2. store' = [store EXCEPT ![d] = [store[d] EXCEPT !.timer = FALSE]]
    BY <1>3 DEF BeginWrite
  <2>3. StoreType' /\ store'[d] = [store[d] EXCEPT !.timer = FALSE]
        /\ \A e \in Daemons \ {d} : store'[e] = store[e]
    BY <1>1, <2>2 DEF StoreType
  <2>4. /\ FlusherType' /\ WriterType'
        /\ \A e \in Daemons \ {d} : flusher'[e] = flusher[e] /\ writer'[e] = writer[e]
    <3>1. FlusherType' /\ WriterType' /\ Answered(d, by, TRUE)
      BY <2>1, AnswerMeans, Zenon
    <3> QED
      BY <3>1 DEF Answered
  <2>5. /\ ~ store'[d].dirty
        /\ store'[d].latest = store[d].latest /\ store'[d].closing = store[d].closing
        /\ store'[d].error = store[d].error
    BY <1>1, <1>3, <2>3
  <2> QED
    BY <1>3, <2>1, <2>3, <2>4, <2>5
<1> QED
  BY <1>1, <1>2, <1>3

(* A mutation is new; it leaves an event unless nobody is told of any more. *)
LEMMA MutateMeans ==
  ASSUME DiskType, CoreType, NEW d \in Daemons, Mutate(d), UNCHANGED inflight
         \/ inflight' = [inflight EXCEPT ![d] = FALSE]
  PROVE  /\ DiskType' /\ CoreType' /\ UNCHANGED <<file, synced>>
         /\ \A e \in Daemons \ {d} : /\ state'[e] = state[e] /\ pending'[e] = pending[e]
                                     /\ subscribed'[e] = subscribed[e]
         /\ subscribed'[d] = "live" => pending'[d] > 0
         /\ subscribed'[d] = "closed" => subscribed[d] = "closed"
<1>1. made + 1 \in Mutations /\ DiskType' /\ UNCHANGED <<file, synced>>
  BY PersistenceAssumption DEF DiskType, Mutate, Mutations, diskVars
<1>2. state' = [state EXCEPT ![d] = state[d] \cup {made + 1}] /\ UNCHANGED gate
  BY DEF Mutate
<1>3. state' \in [Daemons -> State] /\ \A e \in Daemons \ {d} : state'[e] = state[e]
  BY <1>1, <1>2 DEF CoreType, State
<1>4. /\ pending' \in [Daemons -> 0 .. EventQueueCapacity]
      /\ subscribed' \in [Daemons -> {"live", "overflow", "closed"}]
      /\ \A e \in Daemons \ {d} : pending'[e] = pending[e] /\ subscribed'[e] = subscribed[e]
      /\ subscribed'[d] = "live" => pending'[d] > 0
      /\ subscribed'[d] = "closed" => subscribed[d] = "closed"
  BY PersistenceAssumption DEF CoreType, Mutate, QueueFull
<1>5. inflight' \in [Daemons -> BOOLEAN]
  BY DEF CoreType
<1> QED
  BY <1>1, <1>2, <1>3, <1>4, <1>5 DEF CoreType

(* A command is admitted while the daemon is not stopping.                 *)
LEMMA AdmitCommandKeepsSaveInv ==
  ASSUME SaveInv, NEW d \in Daemons, AdmitCommand(d)
  PROVE  SaveInv'
<1>0. /\ DiskType /\ ServerType /\ CoreType /\ LoopType /\ FlusherType
      /\ StoreType /\ WriterType
  BY DEF SaveInv, Types
<1>1. Types'
  <2>1. DiskType'
    BY <1>0, PersistenceAssumption
       DEF DiskType, AdmitCommand, diskVars, serverVars, coreVars
  <2>2. ServerType'
    BY <1>0
       DEF ServerType, AdmitCommand, diskVars, serverVars, coreVars
  <2>3. CoreType'
    BY <1>0, PersistenceAssumption
       DEF CoreType, State, Flushers, AdmitCommand, diskVars, serverVars, coreVars
  <2>4. LoopType'
    BY <1>0
       DEF LoopType, AdmitCommand, diskVars, serverVars, coreVars
  <2>5. FlusherType'
    BY <1>0
       DEF FlusherType, AdmitCommand, diskVars, serverVars, coreVars
  <2>6. StoreType'
    BY <1>0
       DEF StoreType, AdmitCommand, diskVars, serverVars, coreVars
  <2>7. WriterType'
    BY <1>0
       DEF WriterType, AdmitCommand, diskVars, serverVars, coreVars
  <2> QED
    BY <2>1, <2>2, <2>3, <2>4, <2>5, <2>6, <2>7 DEF Types
<1>2. Only(d) /\ (UNCHANGED diskVars \/ Alive(d))
  BY DEF SaveInv, Types, ServerType, CoreType, LoopType, FlusherType, StoreType,
         WriterType, Only, Alive, AdmitCommand, diskVars, serverVars, coreVars
<1>3. AloneInv'
  BY AloneFrame DEF AdmitCommand, serverVars
<1>4. Control(d)'
  BY DEF SaveInv, Types, ServerType, CoreType, LoopType, FlusherType, StoreType,
         WriterType, Control, Blank, GateInv, StopInv, WriterInv, Writing, ClosePC,
         Holding, Locked, Flushers, IdleLoop, IdleFlusher, EmptyStore, IdleWriter,
         AdmitCommand, diskVars, serverVars, coreVars
<1>5. WaitForExit => RunInv(d)' /\ CloseInv(d)'
  BY DEF SaveInv, Types, ServerType, CoreType, LoopType, FlusherType, StoreType,
         WriterType, Control, GateInv, StopInv, WriterInv, RunInv, CloseInv, Newest,
         Writing, ClosePC, Holding, Locked, Flushers, IdleLoop, IdleFlusher,
         IdleWriter, AdmitCommand, diskVars, serverVars, coreVars
<1> QED
  BY <1>1, <1>2, <1>3, <1>4, <1>5, StepAt

(* A mutation leaves an event, or the end of the subscription.             *)
LEMMA RunCommandKeepsSaveInv ==
  ASSUME SaveInv, NEW d \in Daemons, RunCommand(d)
  PROVE  SaveInv'
<1>0. /\ DiskType /\ ServerType /\ CoreType /\ LoopType /\ FlusherType
      /\ StoreType /\ WriterType
  BY DEF SaveInv, Types
<1>1. Types'
  <2>1. DiskType'
    <3>1. CASE Mutate(d)
      BY <1>0, <3>1, MutateMeans DEF RunCommand
    <3>2. CASE UNCHANGED <<failures, diskVars, made>>
      BY <1>0, <3>2 DEF DiskType, diskVars
    <3> QED
      BY <3>1, <3>2 DEF RunCommand
  <2>2. ServerType'
    BY <1>0
       DEF ServerType, RunCommand, Mutate, diskVars, serverVars, coreVars
  <2>3. CoreType'
    <3>1. inflight' = [inflight EXCEPT ![d] = FALSE]
      BY DEF RunCommand
    <3>2. CASE Mutate(d)
      BY <1>0, <3>1, <3>2, MutateMeans
    <3>3. CASE UNCHANGED <<state, gate, pending, subscribed>>
      BY <1>0, <3>1, <3>3 DEF CoreType
    <3> QED
      BY <3>2, <3>3 DEF RunCommand
  <2>4. LoopType'
    BY <1>0
       DEF LoopType, RunCommand, Mutate, diskVars, serverVars, coreVars
  <2>5. FlusherType'
    BY <1>0
       DEF FlusherType, RunCommand, Mutate, diskVars, serverVars, coreVars
  <2>6. StoreType'
    BY <1>0
       DEF StoreType, RunCommand, Mutate, diskVars, serverVars, coreVars
  <2>7. WriterType'
    BY <1>0
       DEF WriterType, RunCommand, Mutate, diskVars, serverVars, coreVars
  <2> QED
    BY <2>1, <2>2, <2>3, <2>4, <2>5, <2>6, <2>7 DEF Types
<1>2. Only(d) /\ (UNCHANGED diskVars \/ Alive(d))
  BY DEF SaveInv, Types, ServerType, CoreType, LoopType, FlusherType, StoreType,
         WriterType, Only, Alive, RunCommand, Mutate, QueueFull, diskVars, serverVars,
         coreVars
<1>3. AloneInv'
  BY AloneFrame DEF RunCommand, Mutate, QueueFull, serverVars
<1>4. Control(d)'
  BY DEF SaveInv, Types, ServerType, CoreType, LoopType, FlusherType, StoreType,
         WriterType, Control, Blank, GateInv, StopInv, WriterInv, Writing, ClosePC,
         Holding, Locked, Flushers, IdleLoop, IdleFlusher, EmptyStore, IdleWriter,
         RunCommand, Mutate, QueueFull, diskVars, serverVars, coreVars
<1>5. WaitForExit => RunInv(d)' /\ CloseInv(d)'
  BY DEF SaveInv, Types, ServerType, CoreType, LoopType, FlusherType, StoreType,
         WriterType, Control, GateInv, StopInv, WriterInv, RunInv, CloseInv, Newest,
         Writing, ClosePC, Holding, Locked, Flushers, IdleLoop, IdleFlusher,
         IdleWriter, RunCommand, Mutate, QueueFull, diskVars, serverVars, coreVars
<1> QED
  BY <1>1, <1>2, <1>3, <1>4, <1>5, StepAt

(* So does one of a terminal or a plugin, before Close drains.             *)
LEMMA RunBackgroundKeepsSaveInv ==
  ASSUME SaveInv, NEW d \in Daemons, RunBackground(d)
  PROVE  SaveInv'
<1>0. /\ DiskType /\ ServerType /\ CoreType /\ LoopType /\ FlusherType
      /\ StoreType /\ WriterType
  BY DEF SaveInv, Types
<1>1. Types'
  <2>1. DiskType'
    BY <1>0, MutateMeans DEF RunBackground
  <2>2. ServerType'
    BY <1>0
       DEF ServerType, RunBackground, Mutate, diskVars, serverVars, coreVars
  <2>3. CoreType'
    BY <1>0, MutateMeans DEF RunBackground
  <2>4. LoopType'
    BY <1>0
       DEF LoopType, RunBackground, Mutate, diskVars, serverVars, coreVars
  <2>5. FlusherType'
    BY <1>0
       DEF FlusherType, RunBackground, Mutate, diskVars, serverVars, coreVars
  <2>6. StoreType'
    BY <1>0
       DEF StoreType, RunBackground, Mutate, diskVars, serverVars, coreVars
  <2>7. WriterType'
    BY <1>0
       DEF WriterType, RunBackground, Mutate, diskVars, serverVars, coreVars
  <2> QED
    BY <2>1, <2>2, <2>3, <2>4, <2>5, <2>6, <2>7 DEF Types
<1>2. Only(d) /\ (UNCHANGED diskVars \/ Alive(d))
  BY DEF SaveInv, Types, ServerType, CoreType, LoopType, FlusherType, StoreType,
         WriterType, Only, Alive, RunBackground, Mutate, QueueFull, diskVars,
         serverVars, coreVars
<1>3. AloneInv'
  BY AloneFrame DEF RunBackground, Mutate, QueueFull, serverVars
<1>4. Control(d)'
  BY DEF SaveInv, Types, ServerType, CoreType, LoopType, FlusherType, StoreType,
         WriterType, Control, Blank, GateInv, StopInv, WriterInv, Writing, ClosePC,
         Holding, Locked, Flushers, IdleLoop, IdleFlusher, EmptyStore, IdleWriter,
         RunBackground, Mutate, QueueFull, diskVars, serverVars, coreVars
<1>5. WaitForExit => RunInv(d)' /\ CloseInv(d)'
  BY DEF SaveInv, Types, ServerType, CoreType, LoopType, FlusherType, StoreType,
         WriterType, Control, GateInv, StopInv, WriterInv, RunInv, CloseInv, Newest,
         Writing, ClosePC, Holding, Locked, Flushers, IdleLoop, IdleFlusher,
         IdleWriter, RunBackground, Mutate, QueueFull, diskVars, serverVars, coreVars
<1> QED
  BY <1>1, <1>2, <1>3, <1>4, <1>5, StepAt

(* The debounce timer is set.                                              *)
LEMMA WakeKeepsSaveInv ==
  ASSUME SaveInv, NEW d \in Daemons, Wake(d)
  PROVE  SaveInv'
<1>0. /\ DiskType /\ ServerType /\ CoreType /\ LoopType /\ FlusherType
      /\ StoreType /\ WriterType
  BY DEF SaveInv, Types
<1>1. Types'
  <2>1. DiskType'
    BY <1>0, PersistenceAssumption
       DEF DiskType, Wake, diskVars, serverVars, coreVars
  <2>2. ServerType'
    BY <1>0
       DEF ServerType, Wake, diskVars, serverVars, coreVars
  <2>3. CoreType'
    BY <1>0, PersistenceAssumption
       DEF CoreType, Wake, diskVars, serverVars, coreVars
  <2>4. LoopType'
    BY <1>0
       DEF LoopType, Wake, diskVars, serverVars, coreVars
  <2>5. FlusherType'
    BY <1>0
       DEF FlusherType, Wake, diskVars, serverVars, coreVars
  <2>6. StoreType'
    BY <1>0
       DEF StoreType, State, Wake, Running, diskVars, serverVars, coreVars
  <2>7. WriterType'
    BY <1>0
       DEF WriterType, Wake, diskVars, serverVars, coreVars
  <2> QED
    BY <2>1, <2>2, <2>3, <2>4, <2>5, <2>6, <2>7 DEF Types
<1>2. Only(d) /\ (UNCHANGED diskVars \/ Alive(d))
  BY DEF SaveInv, Types, ServerType, CoreType, LoopType, FlusherType, StoreType,
         WriterType, Only, Alive, Wake, Running, diskVars, serverVars, coreVars
<1>3. AloneInv'
  BY AloneFrame DEF Wake, Running, serverVars
<1>4. Control(d)'
  BY DEF SaveInv, Types, ServerType, CoreType, LoopType, FlusherType, StoreType,
         WriterType, Control, Blank, GateInv, StopInv, WriterInv, Writing, ClosePC,
         Holding, Locked, Flushers, IdleLoop, IdleFlusher, EmptyStore, IdleWriter,
         Wake, Running, diskVars, serverVars, coreVars
<1>5. WaitForExit => RunInv(d)' /\ CloseInv(d)'
  BY DEF SaveInv, Types, ServerType, CoreType, LoopType, FlusherType, StoreType,
         WriterType, Control, GateInv, StopInv, WriterInv, RunInv, CloseInv, Newest,
         Writing, ClosePC, Holding, Locked, Flushers, IdleLoop, IdleFlusher,
         IdleWriter, Wake, Running, diskVars, serverVars, coreVars
<1> QED
  BY <1>1, <1>2, <1>3, <1>4, <1>5, StepAt

(* A turn of run writes what is dirty.                                     *)
LEMMA TakeTurnKeepsSaveInv ==
  ASSUME SaveInv, NEW d \in Daemons, TakeTurn(d)
  PROVE  SaveInv'
<1>0. /\ DiskType /\ ServerType /\ CoreType /\ LoopType /\ FlusherType
      /\ StoreType /\ WriterType
  BY DEF SaveInv, Types
<1>a. \E by \in Flushers \cup {"timer", "end"} :
        /\ BeginWrite(d, by)
        /\ by \in Flushers => flusher[d][by].pc = "flush"
        /\ by = "end" => store[d].closing
  BY DEF TakeTurn, Flushers
<1> PICK by \in Flushers \cup {"timer", "end"} :
        /\ BeginWrite(d, by)
        /\ by \in Flushers => flusher[d][by].pc = "flush"
        /\ by = "end" => store[d].closing
  BY <1>a
<1>b. /\ FlusherType' /\ StoreType' /\ WriterType'
      /\ \A e \in Daemons \ {d} : /\ flusher'[e] = flusher[e] /\ store'[e] = store[e]
                                  /\ writer'[e] = writer[e]
      /\ ~ store'[d].dirty
      /\ store'[d].latest = store[d].latest /\ store'[d].closing = store[d].closing
      /\ store'[d].error = store[d].error
  BY <1>0, BeginWriteMeans
<1>c. \/ /\ store[d].dirty
         /\ writer'[d].pc = "write" /\ writer'[d].by = by
         /\ writer'[d].content = store[d].latest /\ writer'[d].newest
         /\ flusher' = flusher
      \/ ~ store[d].dirty /\ Answer(d, by, TRUE)
  BY <1>0, BeginWriteMeans
<1>d. ~ store[d].dirty =>
        /\ writer'[d].pc = IF by = "end" THEN "stopped" ELSE "idle"
        /\ \A t \in Flushers :
             /\ flusher'[d][t].pc = IF t = by THEN "flushed" ELSE flusher[d][t].pc
             /\ flusher'[d][t].snapshot = flusher[d][t].snapshot
  <2> SUFFICES ASSUME ~ store[d].dirty
               PROVE  /\ writer'[d].pc = IF by = "end" THEN "stopped" ELSE "idle"
                      /\ \A t \in Flushers :
                           /\ flusher'[d][t].pc = IF t = by THEN "flushed" ELSE flusher[d][t].pc
                           /\ flusher'[d][t].snapshot = flusher[d][t].snapshot
    OBVIOUS
  <2>1. Answer(d, by, TRUE)
    BY <1>c
  <2>2. Answered(d, by, TRUE)
    BY <1>0, <2>1, AnswerMeans, Zenon
  <2> QED
    BY <2>2 DEF Answered
<1>e. /\ mode[d] = "up" /\ writer[d].pc = "idle"
      /\ UNCHANGED <<file, synced, mode, stopping, state, inflight, gate, pending,
                     subscribed, loop>>
  BY DEF TakeTurn, Running, diskVars, serverVars, coreVars
<1>1. Types'
  <2>1. DiskType'
    BY <1>0, PersistenceAssumption
       DEF DiskType, TakeTurn, diskVars, serverVars, coreVars
  <2>2. ServerType'
    BY <1>0
       DEF ServerType, TakeTurn, diskVars, serverVars, coreVars
  <2>3. CoreType'
    BY <1>0, PersistenceAssumption
       DEF CoreType, TakeTurn, diskVars, serverVars, coreVars
  <2>4. LoopType'
    BY <1>0
       DEF LoopType, TakeTurn, diskVars, serverVars, coreVars
  <2>5. FlusherType'
    BY <1>b
  <2>6. StoreType'
    BY <1>b
  <2>7. WriterType'
    BY <1>b
  <2> QED
    BY <2>1, <2>2, <2>3, <2>4, <2>5, <2>6, <2>7 DEF Types
<1>2. Only(d) /\ (UNCHANGED diskVars \/ Alive(d))
  BY <1>b, <1>e DEF Only, diskVars
<1>3. AloneInv'
  BY AloneFrame DEF TakeTurn, Running, BeginWrite, Answer, serverVars
<1>4. Control(d)'
  <2>1. CASE store[d].dirty
    BY <1>b, <1>c, <1>e, <2>1
       DEF SaveInv, Control, Blank, GateInv, StopInv, WriterInv, Writing, ClosePC, Holding,
           Locked, Flushers
  <2>2. CASE ~ store[d].dirty
    BY <1>b, <1>d, <1>e, <2>2
       DEF SaveInv, Control, Blank, GateInv, StopInv, WriterInv, Writing, ClosePC, Holding,
           Locked, Flushers
  <2> QED
    BY <2>1, <2>2
<1>5. WaitForExit => RunInv(d)' /\ CloseInv(d)'
  <2> SUFFICES ASSUME WaitForExit PROVE RunInv(d)' /\ CloseInv(d)'
    OBVIOUS
  <2>1. CASE store[d].dirty
    BY <1>b, <1>c, <1>e, <2>1
       DEF SaveInv, RunInv, CloseInv, Newest, Writing, ClosePC, Locked, Flushers
  <2>2. CASE ~ store[d].dirty
    BY <1>b, <1>d, <1>e, <2>2
       DEF SaveInv, Control, StopInv, RunInv, CloseInv, Newest, Writing, ClosePC, Locked, Flushers
  <2> QED
    BY <2>1, <2>2
<1> QED
  BY <1>1, <1>2, <1>3, <1>4, <1>5, StepAt

(* The file is replaced by the snapshot.                                   *)
LEMMA ReplaceKeepsSaveInv ==
  ASSUME SaveInv, NEW d \in Daemons, Replace(d)
  PROVE  SaveInv'
<1>0. /\ DiskType /\ ServerType /\ CoreType /\ LoopType /\ FlusherType
      /\ StoreType /\ WriterType
  BY DEF SaveInv, Types
<1>1. Types'
  <2>1. DiskType'
    BY <1>0 DEF DiskType, WriterType, Replace, coreVars
  <2>2. ServerType'
    BY <1>0
       DEF ServerType, Replace, diskVars, serverVars, coreVars
  <2>3. CoreType'
    BY <1>0, PersistenceAssumption
       DEF CoreType, Replace, diskVars, serverVars, coreVars
  <2>4. LoopType'
    BY <1>0
       DEF LoopType, Replace, diskVars, serverVars, coreVars
  <2>5. FlusherType'
    BY <1>0
       DEF FlusherType, Replace, diskVars, serverVars, coreVars
  <2>6. StoreType'
    BY <1>0
       DEF StoreType, Replace, diskVars, serverVars, coreVars
  <2>7. WriterType'
    BY <1>0
       DEF WriterType, State, IdleWriter, Flushers, Replace, diskVars, serverVars,
           coreVars
  <2> QED
    BY <2>1, <2>2, <2>3, <2>4, <2>5, <2>6, <2>7 DEF Types
<1>2. Only(d) /\ (UNCHANGED diskVars \/ Alive(d))
  BY DEF SaveInv, Types, ServerType, CoreType, LoopType, FlusherType, StoreType,
         WriterType, Only, Alive, Replace, diskVars, serverVars, coreVars
<1>3. AloneInv'
  BY AloneFrame DEF Replace, serverVars
<1>4. Control(d)'
  BY DEF SaveInv, Types, ServerType, CoreType, LoopType, FlusherType, StoreType,
         WriterType, Control, Blank, GateInv, StopInv, WriterInv, Writing, ClosePC,
         Holding, Locked, Flushers, IdleLoop, IdleFlusher, EmptyStore, IdleWriter,
         Replace, diskVars, serverVars, coreVars
<1>5. WaitForExit => RunInv(d)' /\ CloseInv(d)'
  BY DEF SaveInv, Types, ServerType, CoreType, LoopType, FlusherType, StoreType,
         WriterType, Control, GateInv, StopInv, WriterInv, RunInv, CloseInv, Newest,
         Writing, ClosePC, Holding, Locked, Flushers, IdleLoop, IdleFlusher,
         IdleWriter, Replace, diskVars, serverVars, coreVars
<1> QED
  BY <1>1, <1>2, <1>3, <1>4, <1>5, StepAt

(* The replacement is made durable.                                        *)
LEMMA SyncDirectoryKeepsSaveInv ==
  ASSUME SaveInv, NEW d \in Daemons, SyncDirectory(d)
  PROVE  SaveInv'
<1>0. /\ DiskType /\ ServerType /\ CoreType /\ LoopType /\ FlusherType
      /\ StoreType /\ WriterType
  BY DEF SaveInv, Types
<1>a. /\ mode[d] = "up" /\ Writing(d) /\ Answer(d, writer[d].by, TRUE)
      /\ UNCHANGED <<mode, stopping, state, inflight, gate, pending, subscribed, loop>>
  BY DEF SyncDirectory, Writing, diskVars, serverVars, coreVars
<1>b. writer[d].by \in Flushers \cup {"timer", "end"} /\ TRUE \in BOOLEAN /\ FALSE \in BOOLEAN
  BY <1>0 DEF WriterType
<1>c. /\ FlusherType' /\ WriterType'
      /\ \A e \in Daemons \ {d} : flusher'[e] = flusher[e] /\ writer'[e] = writer[e]
      /\ writer'[d].pc = IF writer[d].by = "end" THEN "stopped" ELSE "idle"
      /\ \A t \in Flushers :
           /\ flusher'[d][t].pc = IF t = writer[d].by THEN "flushed" ELSE flusher[d][t].pc
           /\ flusher'[d][t].snapshot = flusher[d][t].snapshot
           /\ flusher'[d][t].ok => t = writer[d].by \/ flusher[d][t].ok
  <2>1. FlusherType' /\ WriterType' /\ Answered(d, writer[d].by, TRUE)
    BY <1>0, <1>a, <1>b, AnswerMeans, Zenon
  <2> QED
    BY <2>1 DEF Answered
<1>d. writer[d].pc = "sync" /\ file' = file /\ synced' = file /\ store' = store
  BY DEF SyncDirectory
<1>1. Types'
  <2>1. DiskType'
    BY <1>0, PersistenceAssumption
       DEF DiskType, SyncDirectory, Answer, diskVars, serverVars, coreVars
  <2>2. ServerType'
    BY <1>0
       DEF ServerType, SyncDirectory, diskVars, serverVars, coreVars
  <2>3. CoreType'
    BY <1>0, PersistenceAssumption
       DEF CoreType, SyncDirectory, diskVars, serverVars, coreVars
  <2>4. LoopType'
    BY <1>0
       DEF LoopType, SyncDirectory, diskVars, serverVars, coreVars
  <2>5. FlusherType'
    BY <1>c
  <2>6. StoreType'
    BY <1>0
       DEF StoreType, SyncDirectory, diskVars, serverVars, coreVars
  <2>7. WriterType'
    BY <1>c
  <2> QED
    BY <2>1, <2>2, <2>3, <2>4, <2>5, <2>6, <2>7 DEF Types
<1>2. Only(d) /\ (UNCHANGED diskVars \/ Alive(d))
  BY <1>a, <1>c, <1>d DEF Only, Alive, diskVars
<1>3. AloneInv'
  BY AloneFrame DEF SyncDirectory, Answer, serverVars
<1>4. Control(d)'
  BY <1>a, <1>b, <1>c, <1>d
     DEF SaveInv, Control, Blank, GateInv, StopInv, WriterInv, Writing, ClosePC, Holding,
         Locked, Flushers
<1>5. WaitForExit => RunInv(d)' /\ CloseInv(d)'
  BY <1>a, <1>b, <1>c, <1>d
     DEF SaveInv, Control, StopInv, WriterInv, RunInv, CloseInv, Newest, Writing, ClosePC,
         Locked, Flushers
<1> QED
  BY <1>1, <1>2, <1>3, <1>4, <1>5, StepAt

(* A write that fails is dirty again, or reported.                         *)
LEMMA FailWriteKeepsSaveInv ==
  ASSUME SaveInv, NEW d \in Daemons, FailWrite(d)
  PROVE  SaveInv'
<1>0. /\ DiskType /\ ServerType /\ CoreType /\ LoopType /\ FlusherType
      /\ StoreType /\ WriterType
  BY DEF SaveInv, Types
<1>a. /\ mode[d] = "up" /\ Writing(d) /\ Answer(d, writer[d].by, FALSE)
      /\ UNCHANGED <<mode, stopping, state, inflight, gate, pending, subscribed, loop>>
  BY DEF FailWrite, Writing, diskVars, serverVars, coreVars
<1>b. writer[d].by \in Flushers \cup {"timer", "end"} /\ TRUE \in BOOLEAN /\ FALSE \in BOOLEAN
  BY <1>0 DEF WriterType
<1>c. /\ FlusherType' /\ WriterType'
      /\ \A e \in Daemons \ {d} : flusher'[e] = flusher[e] /\ writer'[e] = writer[e]
      /\ writer'[d].pc = IF writer[d].by = "end" THEN "stopped" ELSE "idle"
      /\ \A t \in Flushers :
           /\ flusher'[d][t].pc = IF t = writer[d].by THEN "flushed" ELSE flusher[d][t].pc
           /\ flusher'[d][t].snapshot = flusher[d][t].snapshot
           /\ flusher'[d][t].ok => t = writer[d].by \/ flusher[d][t].ok
           /\ (t = writer[d].by \/ (writer[d].by = "end" /\ t = "close")) => ~ flusher'[d][t].ok
  <2>1. FlusherType' /\ WriterType' /\ Answered(d, writer[d].by, FALSE)
    BY <1>0, <1>a, <1>b, AnswerMeans, Zenon
  <2> QED
    BY <2>1 DEF Answered
<1>d. /\ UNCHANGED <<file, synced>>
      /\ store' = [store EXCEPT ![d] = [store[d] EXCEPT !.dirty = store[d].dirty \/ writer[d].newest,
                                        !.error = store[d].error \/ writer[d].by = "timer"]]
  BY DEF FailWrite, diskVars
<1>e. /\ (store[d].dirty \/ writer[d].newest) \in BOOLEAN
      /\ (store[d].error \/ writer[d].by = "timer") \in BOOLEAN
  BY Zenon
<1>f. /\ StoreType'
      /\ \A e \in Daemons \ {d} : store'[e] = store[e]
      /\ store'[d].dirty = (store[d].dirty \/ writer[d].newest)
      /\ store'[d].error = (store[d].error \/ writer[d].by = "timer")
      /\ store'[d].latest = store[d].latest /\ store'[d].closing = store[d].closing
  <2>1. store'[d] = [store[d] EXCEPT !.dirty = store[d].dirty \/ writer[d].newest,
                                     !.error = store[d].error \/ writer[d].by = "timer"]
    BY <1>0, <1>d DEF StoreType
  <2>2. store[d] \in [latest : State, dirty : BOOLEAN, wake : BOOLEAN,
                       timer : BOOLEAN, closing : BOOLEAN, error : BOOLEAN]
    BY <1>0 DEF StoreType
  <2>3. /\ store'[d] \in [latest : State, dirty : BOOLEAN, wake : BOOLEAN,
                           timer : BOOLEAN, closing : BOOLEAN, error : BOOLEAN]
        /\ store'[d].dirty = (store[d].dirty \/ writer[d].newest)
        /\ store'[d].error = (store[d].error \/ writer[d].by = "timer")
        /\ store'[d].latest = store[d].latest /\ store'[d].closing = store[d].closing
    BY <1>e, <2>1, <2>2
  <2>4. StoreType' /\ \A e \in Daemons \ {d} : store'[e] = store[e]
    BY <1>0, <1>d, <2>1, <2>3 DEF StoreType
  <2> QED
    BY <2>3, <2>4
<1>1. Types'
  <2>1. DiskType'
    <3>1. failures < FailureLimit /\ failures' = failures + 1 /\ made' = made
      BY DEF FailWrite, coreVars
    <3> QED
      BY <1>0, <1>d, <3>1, PersistenceAssumption DEF DiskType
  <2>2. ServerType'
    BY <1>0
       DEF ServerType, FailWrite, diskVars, serverVars, coreVars
  <2>3. CoreType'
    BY <1>0, PersistenceAssumption
       DEF CoreType, FailWrite, diskVars, serverVars, coreVars
  <2>4. LoopType'
    BY <1>0
       DEF LoopType, FailWrite, diskVars, serverVars, coreVars
  <2>5. FlusherType'
    BY <1>c
  <2>6. StoreType'
    BY <1>f
  <2>7. WriterType'
    BY <1>c
  <2> QED
    BY <2>1, <2>2, <2>3, <2>4, <2>5, <2>6, <2>7 DEF Types
<1>2. Only(d) /\ (UNCHANGED diskVars \/ Alive(d))
  BY <1>a, <1>c, <1>d, <1>f DEF Only, Alive, diskVars
<1>3. AloneInv'
  BY AloneFrame DEF FailWrite, Answer, serverVars
<1>4. Control(d)'
  BY <1>a, <1>b, <1>c, <1>d, <1>f
     DEF SaveInv, Control, Blank, GateInv, StopInv, WriterInv, Writing, ClosePC, Holding,
         Locked, Flushers
<1>5. WaitForExit => RunInv(d)' /\ CloseInv(d)'
  <2> SUFFICES ASSUME WaitForExit PROVE RunInv(d)' /\ CloseInv(d)'
    OBVIOUS
  <2>1. RunInv(d)'
    <3>1. ~ stopping[d] => writer[d].by = "timer"
      BY <1>a, <1>b DEF SaveInv, Control, StopInv, WriterInv, Flushers, ClosePC
    <3>2. ~ stopping[d] => store'[d].error
      BY <1>f, <3>1
    <3> QED
      BY <1>a, <3>2 DEF RunInv
  <2>2. CASE ClosePC(d)' \in Locked \ {"schedule"}
    <3>1. ClosePC(d) \in Locked \ {"schedule"}
      BY <1>a, <1>c, <2>2 DEF SaveInv, Control, WriterInv, ClosePC, Locked, Flushers
    <3>2. /\ store[d].latest = state[d]
          /\ ~ store[d].dirty => writer[d].newest
      BY <1>a, <2>2, <3>1 DEF SaveInv, CloseInv
    <3>3. store'[d].dirty /\ store'[d].latest = state'[d]
      BY <1>a, <1>f, <3>2
    <3>4. /\ ClosePC(d)' # "schedule" /\ ~ Writing(d)'
          /\ writer'[d].pc = "stopped" => ~ flusher'[d]["close"].ok
      BY <1>b, <1>c, <2>2 DEF Writing, Flushers
    <3> QED
      BY <2>1, <3>3, <3>4 DEF CloseInv, Newest
  <2>3. CASE ClosePC(d)' \notin Locked \ {"schedule"}
    <3>1. writer'[d].pc = "stopped" => ~ flusher'[d]["close"].ok
      BY <1>b, <1>c DEF Flushers
    <3>2. ClosePC(d)' = "schedule" => flusher'[d]["close"].snapshot = state'[d]
      BY <1>a, <1>b, <1>c DEF SaveInv, CloseInv, ClosePC, Flushers
    <3>3. ~ Writing(d)'
      BY <1>c DEF Writing
    <3> QED
      BY <2>1, <2>3, <3>1, <3>2, <3>3 DEF CloseInv
  <2> QED
    BY <2>1, <2>2, <2>3
<1> QED
  BY <1>1, <1>2, <1>3, <1>4, <1>5, StepAt

(* The snapshot of persistLoop is the newest.                              *)
LEMMA LoopTakeKeepsSaveInv ==
  ASSUME SaveInv, NEW d \in Daemons, LoopTake(d)
  PROVE  SaveInv'
<1>0. /\ DiskType /\ ServerType /\ CoreType /\ LoopType /\ FlusherType
      /\ StoreType /\ WriterType
  BY DEF SaveInv, Types
<1>1. Types'
  <2>1. DiskType'
    BY <1>0, PersistenceAssumption
       DEF DiskType, LoopTake, diskVars, serverVars, coreVars
  <2>2. ServerType'
    BY <1>0
       DEF ServerType, LoopTake, diskVars, serverVars, coreVars
  <2>3. CoreType'
    BY <1>0, PersistenceAssumption
       DEF CoreType, State, Flushers, LoopTake, diskVars, serverVars, coreVars
  <2>4. LoopType'
    <3>1. loop' = [loop EXCEPT ![d] = [pc |-> "schedule", snapshot |-> state[d]]]
      BY DEF LoopTake
    <3> QED
      BY <1>0, <3>1 DEF LoopType, CoreType
  <2>5. FlusherType'
    BY <1>0
       DEF FlusherType, LoopTake, diskVars, serverVars, coreVars
  <2>6. StoreType'
    BY <1>0
       DEF StoreType, LoopTake, diskVars, serverVars, coreVars
  <2>7. WriterType'
    BY <1>0
       DEF WriterType, LoopTake, diskVars, serverVars, coreVars
  <2> QED
    BY <2>1, <2>2, <2>3, <2>4, <2>5, <2>6, <2>7 DEF Types
<1>2. Only(d) /\ (UNCHANGED diskVars \/ Alive(d))
  BY DEF SaveInv, Types, ServerType, CoreType, LoopType, FlusherType, StoreType,
         WriterType, Only, Alive, LoopTake, diskVars, serverVars, coreVars
<1>3. AloneInv'
  BY AloneFrame DEF LoopTake, serverVars
<1>4. Control(d)'
  BY DEF SaveInv, Types, ServerType, CoreType, LoopType, FlusherType, StoreType,
         WriterType, Control, Blank, GateInv, StopInv, WriterInv, Writing, ClosePC,
         Holding, Locked, Flushers, IdleLoop, IdleFlusher, EmptyStore, IdleWriter,
         LoopTake, diskVars, serverVars, coreVars
<1>5. WaitForExit => RunInv(d)' /\ CloseInv(d)'
  BY DEF SaveInv, Types, ServerType, CoreType, LoopType, FlusherType, StoreType,
         WriterType, Control, GateInv, StopInv, WriterInv, RunInv, CloseInv, Newest,
         Writing, ClosePC, Holding, Locked, Flushers, IdleLoop, IdleFlusher,
         IdleWriter, LoopTake, diskVars, serverVars, coreVars
<1> QED
  BY <1>1, <1>2, <1>3, <1>4, <1>5, StepAt

(* It is scheduled before any later one.                                   *)
LEMMA LoopScheduleKeepsSaveInv ==
  ASSUME SaveInv, NEW d \in Daemons, LoopSchedule(d)
  PROVE  SaveInv'
<1>0. /\ DiskType /\ ServerType /\ CoreType /\ LoopType /\ FlusherType
      /\ StoreType /\ WriterType
  BY DEF SaveInv, Types
<1>a. /\ Schedule(d, loop[d].snapshot) /\ loop[d].snapshot \in State
  BY <1>0 DEF LoopSchedule, LoopType, FlusherType
<1>b. /\ StoreType' /\ WriterType'
      /\ \A e \in Daemons \ {d} : store'[e] = store[e] /\ writer'[e] = writer[e]
      /\ store[d].closing => store'[d] = store[d]
      /\ ~ store[d].closing => store'[d].latest = loop[d].snapshot /\ store'[d].dirty
      /\ store'[d].closing = store[d].closing /\ store'[d].error = store[d].error
      /\ writer'[d].pc = writer[d].pc /\ writer'[d].by = writer[d].by
      /\ writer'[d].content = writer[d].content
      /\ writer'[d].newest = (writer[d].newest /\ store[d].closing)
  BY <1>0, <1>a, ScheduleMeans
<1>c. /\ mode[d] = "up" /\ loop[d].pc = "schedule"
      /\ loop' = [loop EXCEPT ![d] = [pc |-> IF store[d].closing THEN "ended" ELSE "wait",
                                      snapshot |-> {}]]
      /\ UNCHANGED <<file, synced, mode, stopping, state, inflight, gate, pending,
                     subscribed, flusher>>
  <2>1. [IdleLoop EXCEPT !.pc = IF store[d].closing THEN "ended" ELSE "wait"]
          = [pc |-> IF store[d].closing THEN "ended" ELSE "wait", snapshot |-> {}]
    BY DEF IdleLoop
  <2>2. loop' = [loop EXCEPT ![d] =
                   [IdleLoop EXCEPT !.pc = IF store[d].closing THEN "ended" ELSE "wait"]]
    BY Zenon DEF LoopSchedule
  <2> QED
    BY <2>1, <2>2 DEF LoopSchedule, diskVars, serverVars, coreVars
<1>d. /\ loop'[d].pc = IF store[d].closing THEN "ended" ELSE "wait"
      /\ \A e \in Daemons \ {d} : loop'[e] = loop[e]
  BY <1>0, <1>c DEF LoopType
<1>1. Types'
  <2>1. DiskType'
    BY <1>0, PersistenceAssumption
       DEF DiskType, LoopSchedule, diskVars, serverVars, coreVars
  <2>2. ServerType'
    BY <1>0
       DEF ServerType, LoopSchedule, diskVars, serverVars, coreVars
  <2>3. CoreType'
    BY <1>0, PersistenceAssumption
       DEF CoreType, LoopSchedule, diskVars, serverVars, coreVars
  <2>4. LoopType'
    BY <1>0, <1>c DEF LoopType, State
  <2>5. FlusherType'
    BY <1>0
       DEF FlusherType, LoopSchedule, diskVars, serverVars, coreVars
  <2>6. StoreType'
    BY <1>b
  <2>7. WriterType'
    BY <1>b
  <2> QED
    BY <2>1, <2>2, <2>3, <2>4, <2>5, <2>6, <2>7 DEF Types
<1>2. Only(d) /\ (UNCHANGED diskVars \/ Alive(d))
  BY <1>b, <1>c, <1>d DEF Only, diskVars
<1>3. AloneInv'
  BY AloneFrame DEF LoopSchedule, Schedule, Scheduled, Superseded, serverVars
<1>4. Control(d)'
  BY <1>b, <1>c, <1>d
     DEF SaveInv, Control, Blank, GateInv, StopInv, WriterInv, Writing, ClosePC, Holding,
         Locked, Flushers
<1>5. WaitForExit => RunInv(d)' /\ CloseInv(d)'
  BY <1>b, <1>c, <1>d
     DEF SaveInv, Control, GateInv, StopInv, WriterInv, RunInv, CloseInv, Newest, Writing,
         ClosePC, Holding, Locked, Flushers
<1> QED
  BY <1>1, <1>2, <1>3, <1>4, <1>5, StepAt

(* The loop ends when the daemon stops.                                    *)
LEMMA LoopEndKeepsSaveInv ==
  ASSUME SaveInv, NEW d \in Daemons, LoopEnd(d)
  PROVE  SaveInv'
<1>0. /\ DiskType /\ ServerType /\ CoreType /\ LoopType /\ FlusherType
      /\ StoreType /\ WriterType
  BY DEF SaveInv, Types
<1>1. Types'
  <2>1. DiskType'
    BY <1>0, PersistenceAssumption
       DEF DiskType, LoopEnd, diskVars, serverVars, coreVars
  <2>2. ServerType'
    BY <1>0
       DEF ServerType, LoopEnd, RequestStop, diskVars, serverVars, coreVars
  <2>3. CoreType'
    BY <1>0, PersistenceAssumption
       DEF CoreType, LoopEnd, diskVars, serverVars, coreVars
  <2>4. LoopType'
    BY <1>0
       DEF LoopType, State, IdleLoop, LoopEnd, RequestStop, diskVars, serverVars,
           coreVars
  <2>5. FlusherType'
    BY <1>0
       DEF FlusherType, LoopEnd, diskVars, serverVars, coreVars
  <2>6. StoreType'
    BY <1>0
       DEF StoreType, LoopEnd, diskVars, serverVars, coreVars
  <2>7. WriterType'
    BY <1>0
       DEF WriterType, LoopEnd, diskVars, serverVars, coreVars
  <2> QED
    BY <2>1, <2>2, <2>3, <2>4, <2>5, <2>6, <2>7 DEF Types
<1>2. Only(d) /\ (UNCHANGED diskVars \/ Alive(d))
  BY DEF SaveInv, Types, ServerType, CoreType, LoopType, FlusherType, StoreType,
         WriterType, Only, Alive, LoopEnd, RequestStop, diskVars, serverVars, coreVars
<1>3. AloneInv'
  BY AloneFrame DEF LoopEnd, RequestStop, serverVars
<1>4. Control(d)'
  BY DEF SaveInv, Types, ServerType, CoreType, LoopType, FlusherType, StoreType,
         WriterType, Control, Blank, GateInv, StopInv, WriterInv, Writing, ClosePC,
         Holding, Locked, Flushers, IdleLoop, IdleFlusher, EmptyStore, IdleWriter,
         LoopEnd, RequestStop, diskVars, serverVars, coreVars
<1>5. WaitForExit => RunInv(d)' /\ CloseInv(d)'
  BY DEF SaveInv, Types, ServerType, CoreType, LoopType, FlusherType, StoreType,
         WriterType, Control, GateInv, StopInv, WriterInv, RunInv, CloseInv, Newest,
         Writing, ClosePC, Holding, Locked, Flushers, IdleLoop, IdleFlusher,
         IdleWriter, LoopEnd, RequestStop, diskVars, serverVars, coreVars
<1> QED
  BY <1>1, <1>2, <1>3, <1>4, <1>5, StepAt

(* An error of the store stops the daemon.                                 *)
LEMMA StoreErrorKeepsSaveInv ==
  ASSUME SaveInv, NEW d \in Daemons, StoreError(d)
  PROVE  SaveInv'
<1>0. /\ DiskType /\ ServerType /\ CoreType /\ LoopType /\ FlusherType
      /\ StoreType /\ WriterType
  BY DEF SaveInv, Types
<1>1. Types'
  <2>1. DiskType'
    BY <1>0, PersistenceAssumption
       DEF DiskType, StoreError, diskVars, serverVars, coreVars
  <2>2. ServerType'
    BY <1>0
       DEF ServerType, StoreError, RequestStop, diskVars, serverVars, coreVars
  <2>3. CoreType'
    BY <1>0, PersistenceAssumption
       DEF CoreType, StoreError, diskVars, serverVars, coreVars
  <2>4. LoopType'
    BY <1>0
       DEF LoopType, StoreError, diskVars, serverVars, coreVars
  <2>5. FlusherType'
    BY <1>0
       DEF FlusherType, StoreError, diskVars, serverVars, coreVars
  <2>6. StoreType'
    BY <1>0
       DEF StoreType, State, StoreError, RequestStop, diskVars, serverVars, coreVars
  <2>7. WriterType'
    BY <1>0
       DEF WriterType, StoreError, diskVars, serverVars, coreVars
  <2> QED
    BY <2>1, <2>2, <2>3, <2>4, <2>5, <2>6, <2>7 DEF Types
<1>2. Only(d) /\ (UNCHANGED diskVars \/ Alive(d))
  BY DEF SaveInv, Types, ServerType, CoreType, LoopType, FlusherType, StoreType,
         WriterType, Only, Alive, StoreError, RequestStop, diskVars, serverVars,
         coreVars
<1>3. AloneInv'
  BY AloneFrame DEF StoreError, RequestStop, serverVars
<1>4. Control(d)'
  BY DEF SaveInv, Types, ServerType, CoreType, LoopType, FlusherType, StoreType,
         WriterType, Control, Blank, GateInv, StopInv, WriterInv, Writing, ClosePC,
         Holding, Locked, Flushers, IdleLoop, IdleFlusher, EmptyStore, IdleWriter,
         StoreError, RequestStop, diskVars, serverVars, coreVars
<1>5. WaitForExit => RunInv(d)' /\ CloseInv(d)'
  BY DEF SaveInv, Types, ServerType, CoreType, LoopType, FlusherType, StoreType,
         WriterType, Control, GateInv, StopInv, WriterInv, RunInv, CloseInv, Newest,
         Writing, ClosePC, Holding, Locked, Flushers, IdleLoop, IdleFlusher,
         IdleWriter, StoreError, RequestStop, diskVars, serverVars, coreVars
<1> QED
  BY <1>1, <1>2, <1>3, <1>4, <1>5, StepAt

(* daemon_stop refuses the commands that follow.                           *)
LEMMA DaemonStopKeepsSaveInv ==
  ASSUME SaveInv, NEW d \in Daemons, DaemonStop(d)
  PROVE  SaveInv'
<1>0. /\ DiskType /\ ServerType /\ CoreType /\ LoopType /\ FlusherType
      /\ StoreType /\ WriterType
  BY DEF SaveInv, Types
<1>1. Types'
  <2>1. DiskType'
    BY <1>0, PersistenceAssumption
       DEF DiskType, DaemonStop, diskVars, serverVars, coreVars
  <2>2. ServerType'
    BY <1>0
       DEF ServerType, DaemonStop, At, GoTo, diskVars, serverVars, coreVars
  <2>3. CoreType'
    BY <1>0, PersistenceAssumption
       DEF CoreType, DaemonStop, diskVars, serverVars, coreVars
  <2>4. LoopType'
    BY <1>0
       DEF LoopType, DaemonStop, diskVars, serverVars, coreVars
  <2>5. FlusherType'
    BY <1>0, GoToMeans DEF DaemonStop, FlusherPC, Flushers
  <2>6. StoreType'
    BY <1>0
       DEF StoreType, DaemonStop, diskVars, serverVars, coreVars
  <2>7. WriterType'
    BY <1>0
       DEF WriterType, DaemonStop, diskVars, serverVars, coreVars
  <2> QED
    BY <2>1, <2>2, <2>3, <2>4, <2>5, <2>6, <2>7 DEF Types
<1>2. Only(d) /\ (UNCHANGED diskVars \/ Alive(d))
  BY DEF SaveInv, Types, ServerType, CoreType, LoopType, FlusherType, StoreType,
         WriterType, Only, Alive, DaemonStop, At, GoTo, diskVars, serverVars, coreVars
<1>3. AloneInv'
  BY AloneFrame DEF DaemonStop, At, GoTo, serverVars
<1>4. Control(d)'
  BY DEF SaveInv, Types, ServerType, CoreType, LoopType, FlusherType, StoreType,
         WriterType, Control, Blank, GateInv, StopInv, WriterInv, Writing, ClosePC,
         Holding, Locked, Flushers, IdleLoop, IdleFlusher, EmptyStore, IdleWriter,
         DaemonStop, At, GoTo, diskVars, serverVars, coreVars
<1>5. WaitForExit => RunInv(d)' /\ CloseInv(d)'
  BY DEF SaveInv, Types, ServerType, CoreType, LoopType, FlusherType, StoreType,
         WriterType, Control, GateInv, StopInv, WriterInv, RunInv, CloseInv, Newest,
         Writing, ClosePC, Holding, Locked, Flushers, IdleLoop, IdleFlusher,
         IdleWriter, DaemonStop, At, GoTo, diskVars, serverVars, coreVars
<1> QED
  BY <1>1, <1>2, <1>3, <1>4, <1>5, StepAt

(* The snapshot of a flush is taken under the gate.                        *)
LEMMA LockKeepsSaveInv ==
  ASSUME SaveInv, NEW d \in Daemons, NEW t \in Flushers, Lock(d, t)
  PROVE  SaveInv'
<1>0. /\ DiskType /\ ServerType /\ CoreType /\ LoopType /\ FlusherType
      /\ StoreType /\ WriterType
  BY DEF SaveInv, Types
<1>1. Types'
  <2>1. DiskType'
    BY <1>0, PersistenceAssumption
       DEF DiskType, Lock, diskVars, serverVars, coreVars
  <2>2. ServerType'
    BY <1>0
       DEF ServerType, Lock, diskVars, serverVars, coreVars
  <2>3. CoreType'
    BY <1>0, PersistenceAssumption
       DEF CoreType, State, Flushers, Lock, At, GateFree, diskVars, serverVars, coreVars
  <2>4. LoopType'
    BY <1>0
       DEF LoopType, Lock, diskVars, serverVars, coreVars
  <2>5. FlusherType'
    <3>1. flusher' = [flusher EXCEPT ![d] = [flusher[d] EXCEPT ![t] =
                        [pc |-> "schedule", snapshot |-> state[d], ok |-> TRUE]]]
      BY DEF Lock
    <3>2. [pc |-> "schedule", snapshot |-> state[d], ok |-> TRUE]
            \in [pc : FlusherPC, snapshot : State, ok : BOOLEAN]
      BY <1>0 DEF CoreType, FlusherPC
    <3>3. flusher[d] \in [Flushers -> [pc : FlusherPC, snapshot : State, ok : BOOLEAN]]
      BY <1>0 DEF FlusherType
    <3>4. [flusher[d] EXCEPT ![t] = [pc |-> "schedule", snapshot |-> state[d], ok |-> TRUE]]
            \in [Flushers -> [pc : FlusherPC, snapshot : State, ok : BOOLEAN]]
      BY <3>2, <3>3
    <3> QED
      BY <1>0, <3>1, <3>4 DEF FlusherType
  <2>6. StoreType'
    BY <1>0
       DEF StoreType, Lock, diskVars, serverVars, coreVars
  <2>7. WriterType'
    BY <1>0
       DEF WriterType, Lock, diskVars, serverVars, coreVars
  <2> QED
    BY <2>1, <2>2, <2>3, <2>4, <2>5, <2>6, <2>7 DEF Types
<1>2. Only(d) /\ (UNCHANGED diskVars \/ Alive(d))
  BY DEF SaveInv, Types, ServerType, CoreType, LoopType, FlusherType, StoreType,
         WriterType, Only, Alive, Lock, At, GateFree, diskVars, serverVars, coreVars
<1>3. AloneInv'
  BY AloneFrame DEF Lock, At, GateFree, serverVars
<1>4. Control(d)'
  BY DEF SaveInv, Types, ServerType, CoreType, LoopType, FlusherType, StoreType,
         WriterType, Control, Blank, GateInv, StopInv, WriterInv, Writing, ClosePC,
         Holding, Locked, Flushers, IdleLoop, IdleFlusher, EmptyStore, IdleWriter,
         Lock, At, GateFree, diskVars, serverVars, coreVars
<1>5. WaitForExit => RunInv(d)' /\ CloseInv(d)'
  BY DEF SaveInv, Types, ServerType, CoreType, LoopType, FlusherType, StoreType,
         WriterType, Control, GateInv, StopInv, WriterInv, RunInv, CloseInv, Newest,
         Writing, ClosePC, Holding, Locked, Flushers, IdleLoop, IdleFlusher,
         IdleWriter, Lock, At, GateFree, diskVars, serverVars, coreVars
<1> QED
  BY <1>1, <1>2, <1>3, <1>4, <1>5, StepAt

(* Nobody schedules another one before the gate is free.                   *)
LEMMA FlusherScheduleKeepsSaveInv ==
  ASSUME SaveInv, NEW d \in Daemons, NEW t \in Flushers, FlusherSchedule(d, t)
  PROVE  SaveInv'
<1>0. /\ DiskType /\ ServerType /\ CoreType /\ LoopType /\ FlusherType
      /\ StoreType /\ WriterType
  BY DEF SaveInv, Types
<1>a. /\ Schedule(d, flusher[d][t].snapshot) /\ flusher[d][t].snapshot \in State
  BY <1>0 DEF FlusherSchedule, At, LoopType, FlusherType
<1>b. /\ StoreType' /\ WriterType'
      /\ \A e \in Daemons \ {d} : store'[e] = store[e] /\ writer'[e] = writer[e]
      /\ store[d].closing => store'[d] = store[d]
      /\ ~ store[d].closing => store'[d].latest = flusher[d][t].snapshot /\ store'[d].dirty
      /\ store'[d].closing = store[d].closing /\ store'[d].error = store[d].error
      /\ writer'[d].pc = writer[d].pc /\ writer'[d].by = writer[d].by
      /\ writer'[d].content = writer[d].content
      /\ writer'[d].newest = (writer[d].newest /\ store[d].closing)
  BY <1>0, <1>a, ScheduleMeans
<1>c. /\ mode[d] = "up" /\ flusher[d][t].pc = "schedule"
      /\ flusher' = [flusher EXCEPT ![d] = [flusher[d] EXCEPT ![t] =
           [pc |-> IF store[d].closing THEN "flushed" ELSE "flush",
            snapshot |-> {}, ok |-> ~ store[d].closing]]]
      /\ UNCHANGED <<file, synced, mode, stopping, state, inflight, gate, pending,
                     subscribed, loop>>
  BY DEF FlusherSchedule, At, AfterSchedule, diskVars, serverVars, coreVars
<1>d. /\ FlusherType'
      /\ \A e \in Daemons \ {d} : flusher'[e] = flusher[e]
      /\ flusher'[d][t].pc = IF store[d].closing THEN "flushed" ELSE "flush"
      /\ \A u \in Flushers \ {t} : flusher'[d][u] = flusher[d][u]
  <2>1. [pc |-> IF store[d].closing THEN "flushed" ELSE "flush",
         snapshot |-> {}, ok |-> ~ store[d].closing]
          \in [pc : FlusherPC, snapshot : State, ok : BOOLEAN]
    BY DEF FlusherPC, State
  <2>2. /\ flusher'[d] = [flusher[d] EXCEPT ![t] =
             [pc |-> IF store[d].closing THEN "flushed" ELSE "flush",
              snapshot |-> {}, ok |-> ~ store[d].closing]]
        /\ flusher[d] \in [Flushers -> [pc : FlusherPC, snapshot : State, ok : BOOLEAN]]
    BY <1>0, <1>c DEF FlusherType
  <2>3. flusher'[d] \in [Flushers -> [pc : FlusherPC, snapshot : State, ok : BOOLEAN]]
    BY <2>1, <2>2
  <2> QED
    BY <1>0, <1>c, <2>2, <2>3 DEF FlusherType
<1>1. Types'
  <2>1. DiskType'
    BY <1>0, PersistenceAssumption
       DEF DiskType, FlusherSchedule, diskVars, serverVars, coreVars
  <2>2. ServerType'
    BY <1>0
       DEF ServerType, FlusherSchedule, diskVars, serverVars, coreVars
  <2>3. CoreType'
    BY <1>0, PersistenceAssumption
       DEF CoreType, FlusherSchedule, diskVars, serverVars, coreVars
  <2>4. LoopType'
    BY <1>0
       DEF LoopType, FlusherSchedule, diskVars, serverVars, coreVars
  <2>5. FlusherType'
    BY <1>d
  <2>6. StoreType'
    BY <1>b
  <2>7. WriterType'
    BY <1>b
  <2> QED
    BY <2>1, <2>2, <2>3, <2>4, <2>5, <2>6, <2>7 DEF Types
<1>2. Only(d) /\ (UNCHANGED diskVars \/ Alive(d))
  BY <1>b, <1>c, <1>d DEF Only, diskVars
<1>3. AloneInv'
  BY AloneFrame DEF FlusherSchedule, At, Schedule, Scheduled, Superseded, AfterSchedule, serverVars
<1>4. Control(d)'
  BY <1>b, <1>c, <1>d
     DEF SaveInv, Control, Blank, GateInv, StopInv, WriterInv, Writing, ClosePC, Holding,
         Locked, Flushers
<1>5. WaitForExit => RunInv(d)' /\ CloseInv(d)'
  BY <1>b, <1>c, <1>d
     DEF SaveInv, Control, GateInv, StopInv, WriterInv, RunInv, CloseInv, Newest, Writing,
         ClosePC, Holding, Locked, Flushers
<1> QED
  BY <1>1, <1>2, <1>3, <1>4, <1>5, StepAt

(* The listener is closed after the flush.                                 *)
LEMMA StopFlushedKeepsSaveInv ==
  ASSUME SaveInv, NEW d \in Daemons, StopFlushed(d)
  PROVE  SaveInv'
<1>0. /\ DiskType /\ ServerType /\ CoreType /\ LoopType /\ FlusherType
      /\ StoreType /\ WriterType
  BY DEF SaveInv, Types
<1>1. Types'
  <2>1. DiskType'
    BY <1>0, PersistenceAssumption
       DEF DiskType, StopFlushed, diskVars, serverVars, coreVars
  <2>2. ServerType'
    BY <1>0
       DEF ServerType, StopFlushed, At, GoTo, RequestStop, diskVars, serverVars, coreVars
  <2>3. CoreType'
    BY <1>0, PersistenceAssumption
       DEF CoreType, State, Flushers, StopFlushed, At, GoTo, RequestStop, diskVars,
           serverVars, coreVars
  <2>4. LoopType'
    BY <1>0
       DEF LoopType, StopFlushed, diskVars, serverVars, coreVars
  <2>5. FlusherType'
    BY <1>0, GoToMeans DEF StopFlushed, FlusherPC, Flushers
  <2>6. StoreType'
    BY <1>0
       DEF StoreType, StopFlushed, diskVars, serverVars, coreVars
  <2>7. WriterType'
    BY <1>0
       DEF WriterType, StopFlushed, diskVars, serverVars, coreVars
  <2> QED
    BY <2>1, <2>2, <2>3, <2>4, <2>5, <2>6, <2>7 DEF Types
<1>2. Only(d) /\ (UNCHANGED diskVars \/ Alive(d))
  BY DEF SaveInv, Types, ServerType, CoreType, LoopType, FlusherType, StoreType,
         WriterType, Only, Alive, StopFlushed, At, GoTo, RequestStop, diskVars,
         serverVars, coreVars
<1>3. AloneInv'
  BY AloneFrame DEF StopFlushed, At, GoTo, RequestStop, serverVars
<1>4. Control(d)'
  BY DEF SaveInv, Types, ServerType, CoreType, LoopType, FlusherType, StoreType,
         WriterType, Control, Blank, GateInv, StopInv, WriterInv, Writing, ClosePC,
         Holding, Locked, Flushers, IdleLoop, IdleFlusher, EmptyStore, IdleWriter,
         StopFlushed, At, GoTo, RequestStop, diskVars, serverVars, coreVars
<1>5. WaitForExit => RunInv(d)' /\ CloseInv(d)'
  BY DEF SaveInv, Types, ServerType, CoreType, LoopType, FlusherType, StoreType,
         WriterType, Control, GateInv, StopInv, WriterInv, RunInv, CloseInv, Newest,
         Writing, ClosePC, Holding, Locked, Flushers, IdleLoop, IdleFlusher,
         IdleWriter, StopFlushed, At, GoTo, RequestStop, diskVars, serverVars, coreVars
<1> QED
  BY <1>1, <1>2, <1>3, <1>4, <1>5, StepAt

(* Close refuses commands first.                                           *)
LEMMA CloseBeginKeepsSaveInv ==
  ASSUME SaveInv, NEW d \in Daemons, CloseBegin(d)
  PROVE  SaveInv'
<1>0. /\ DiskType /\ ServerType /\ CoreType /\ LoopType /\ FlusherType
      /\ StoreType /\ WriterType
  BY DEF SaveInv, Types
<1>1. Types'
  <2>1. DiskType'
    BY <1>0, PersistenceAssumption
       DEF DiskType, CloseBegin, diskVars, serverVars, coreVars
  <2>2. ServerType'
    BY <1>0
       DEF ServerType, CloseBegin, At, GoTo, RequestStop, diskVars, serverVars, coreVars
  <2>3. CoreType'
    BY <1>0, PersistenceAssumption
       DEF CoreType, CloseBegin, diskVars, serverVars, coreVars
  <2>4. LoopType'
    BY <1>0
       DEF LoopType, CloseBegin, diskVars, serverVars, coreVars
  <2>5. FlusherType'
    BY <1>0, GoToMeans DEF CloseBegin, FlusherPC, Flushers
  <2>6. StoreType'
    BY <1>0
       DEF StoreType, CloseBegin, diskVars, serverVars, coreVars
  <2>7. WriterType'
    BY <1>0
       DEF WriterType, CloseBegin, diskVars, serverVars, coreVars
  <2> QED
    BY <2>1, <2>2, <2>3, <2>4, <2>5, <2>6, <2>7 DEF Types
<1>2. Only(d) /\ (UNCHANGED diskVars \/ Alive(d))
  BY DEF SaveInv, Types, ServerType, CoreType, LoopType, FlusherType, StoreType,
         WriterType, Only, Alive, CloseBegin, At, GoTo, RequestStop, diskVars,
         serverVars, coreVars
<1>3. AloneInv'
  BY AloneFrame DEF CloseBegin, At, GoTo, RequestStop, serverVars
<1>4. Control(d)'
  BY DEF SaveInv, Types, ServerType, CoreType, LoopType, FlusherType, StoreType,
         WriterType, Control, Blank, GateInv, StopInv, WriterInv, Writing, ClosePC,
         Holding, Locked, Flushers, IdleLoop, IdleFlusher, EmptyStore, IdleWriter,
         CloseBegin, At, GoTo, RequestStop, diskVars, serverVars, coreVars
<1>5. WaitForExit => RunInv(d)' /\ CloseInv(d)'
  BY DEF SaveInv, Types, ServerType, CoreType, LoopType, FlusherType, StoreType,
         WriterType, Control, GateInv, StopInv, WriterInv, RunInv, CloseInv, Newest,
         Writing, ClosePC, Holding, Locked, Flushers, IdleLoop, IdleFlusher,
         IdleWriter, CloseBegin, At, GoTo, RequestStop, diskVars, serverVars, coreVars
<1> QED
  BY <1>1, <1>2, <1>3, <1>4, <1>5, StepAt

(* Then the events end.                                                    *)
LEMMA CloseObserversKeepsSaveInv ==
  ASSUME SaveInv, NEW d \in Daemons, CloseObservers(d)
  PROVE  SaveInv'
<1>0. /\ DiskType /\ ServerType /\ CoreType /\ LoopType /\ FlusherType
      /\ StoreType /\ WriterType
  BY DEF SaveInv, Types
<1>1. Types'
  <2>1. DiskType'
    BY <1>0, PersistenceAssumption
       DEF DiskType, CloseObservers, diskVars, serverVars, coreVars
  <2>2. ServerType'
    BY <1>0
       DEF ServerType, CloseObservers, diskVars, serverVars, coreVars
  <2>3. CoreType'
    BY <1>0, PersistenceAssumption
       DEF CoreType, State, Flushers, CloseObservers, At, GoTo, diskVars, serverVars,
           coreVars
  <2>4. LoopType'
    BY <1>0
       DEF LoopType, CloseObservers, diskVars, serverVars, coreVars
  <2>5. FlusherType'
    BY <1>0, GoToMeans DEF CloseObservers, FlusherPC, Flushers
  <2>6. StoreType'
    BY <1>0
       DEF StoreType, CloseObservers, diskVars, serverVars, coreVars
  <2>7. WriterType'
    BY <1>0
       DEF WriterType, CloseObservers, diskVars, serverVars, coreVars
  <2> QED
    BY <2>1, <2>2, <2>3, <2>4, <2>5, <2>6, <2>7 DEF Types
<1>2. Only(d) /\ (UNCHANGED diskVars \/ Alive(d))
  BY DEF SaveInv, Types, ServerType, CoreType, LoopType, FlusherType, StoreType,
         WriterType, Only, Alive, CloseObservers, At, GoTo, diskVars, serverVars,
         coreVars
<1>3. AloneInv'
  BY AloneFrame DEF CloseObservers, At, GoTo, serverVars
<1>4. Control(d)'
  BY DEF SaveInv, Types, ServerType, CoreType, LoopType, FlusherType, StoreType,
         WriterType, Control, Blank, GateInv, StopInv, WriterInv, Writing, ClosePC,
         Holding, Locked, Flushers, IdleLoop, IdleFlusher, EmptyStore, IdleWriter,
         CloseObservers, At, GoTo, diskVars, serverVars, coreVars
<1>5. WaitForExit => RunInv(d)' /\ CloseInv(d)'
  BY DEF SaveInv, Types, ServerType, CoreType, LoopType, FlusherType, StoreType,
         WriterType, Control, GateInv, StopInv, WriterInv, RunInv, CloseInv, Newest,
         Writing, ClosePC, Holding, Locked, Flushers, IdleLoop, IdleFlusher,
         IdleWriter, CloseObservers, At, GoTo, diskVars, serverVars, coreVars
<1> QED
  BY <1>1, <1>2, <1>3, <1>4, <1>5, StepAt

(* persistLoop has handled the last of them.                               *)
LEMMA CloseDrainedKeepsSaveInv ==
  ASSUME SaveInv, NEW d \in Daemons, CloseDrained(d)
  PROVE  SaveInv'
<1>0. /\ DiskType /\ ServerType /\ CoreType /\ LoopType /\ FlusherType
      /\ StoreType /\ WriterType
  BY DEF SaveInv, Types
<1>1. Types'
  <2>1. DiskType'
    BY <1>0, PersistenceAssumption
       DEF DiskType, CloseDrained, diskVars, serverVars, coreVars
  <2>2. ServerType'
    BY <1>0
       DEF ServerType, CloseDrained, diskVars, serverVars, coreVars
  <2>3. CoreType'
    BY <1>0, PersistenceAssumption
       DEF CoreType, CloseDrained, diskVars, serverVars, coreVars
  <2>4. LoopType'
    BY <1>0
       DEF LoopType, CloseDrained, diskVars, serverVars, coreVars
  <2>5. FlusherType'
    BY <1>0, GoToMeans DEF CloseDrained, FlusherPC, Flushers
  <2>6. StoreType'
    BY <1>0
       DEF StoreType, CloseDrained, diskVars, serverVars, coreVars
  <2>7. WriterType'
    BY <1>0
       DEF WriterType, CloseDrained, diskVars, serverVars, coreVars
  <2> QED
    BY <2>1, <2>2, <2>3, <2>4, <2>5, <2>6, <2>7 DEF Types
<1>2. Only(d) /\ (UNCHANGED diskVars \/ Alive(d))
  BY DEF SaveInv, Types, ServerType, CoreType, LoopType, FlusherType, StoreType,
         WriterType, Only, Alive, CloseDrained, At, GoTo, LoopEnded, diskVars,
         serverVars, coreVars
<1>3. AloneInv'
  BY AloneFrame DEF CloseDrained, At, GoTo, LoopEnded, serverVars
<1>4. Control(d)'
  BY DEF SaveInv, Types, ServerType, CoreType, LoopType, FlusherType, StoreType,
         WriterType, Control, Blank, GateInv, StopInv, WriterInv, Writing, ClosePC,
         Holding, Locked, Flushers, IdleLoop, IdleFlusher, EmptyStore, IdleWriter,
         CloseDrained, At, GoTo, LoopEnded, diskVars, serverVars, coreVars
<1>5. WaitForExit => RunInv(d)' /\ CloseInv(d)'
  BY DEF SaveInv, Types, ServerType, CoreType, LoopType, FlusherType, StoreType,
         WriterType, Control, GateInv, StopInv, WriterInv, RunInv, CloseInv, Newest,
         Writing, ClosePC, Holding, Locked, Flushers, IdleLoop, IdleFlusher,
         IdleWriter, CloseDrained, At, GoTo, LoopEnded, diskVars, serverVars, coreVars
<1> QED
  BY <1>1, <1>2, <1>3, <1>4, <1>5, StepAt

(* The store takes no more snapshots.                                      *)
LEMMA CloseStoreKeepsSaveInv ==
  ASSUME SaveInv, NEW d \in Daemons, CloseStore(d)
  PROVE  SaveInv'
<1>0. /\ DiskType /\ ServerType /\ CoreType /\ LoopType /\ FlusherType
      /\ StoreType /\ WriterType
  BY DEF SaveInv, Types
<1>1. Types'
  <2>1. DiskType'
    BY <1>0, PersistenceAssumption
       DEF DiskType, CloseStore, diskVars, serverVars, coreVars
  <2>2. ServerType'
    BY <1>0
       DEF ServerType, CloseStore, diskVars, serverVars, coreVars
  <2>3. CoreType'
    BY <1>0, PersistenceAssumption
       DEF CoreType, CloseStore, diskVars, serverVars, coreVars
  <2>4. LoopType'
    BY <1>0
       DEF LoopType, CloseStore, diskVars, serverVars, coreVars
  <2>5. FlusherType'
    BY <1>0, GoToMeans DEF CloseStore, FlusherPC, Flushers
  <2>6. StoreType'
    BY <1>0
       DEF StoreType, State, CloseStore, At, GoTo, diskVars, serverVars, coreVars
  <2>7. WriterType'
    BY <1>0
       DEF WriterType, CloseStore, diskVars, serverVars, coreVars
  <2> QED
    BY <2>1, <2>2, <2>3, <2>4, <2>5, <2>6, <2>7 DEF Types
<1>2. Only(d) /\ (UNCHANGED diskVars \/ Alive(d))
  BY DEF SaveInv, Types, ServerType, CoreType, LoopType, FlusherType, StoreType,
         WriterType, Only, Alive, CloseStore, At, GoTo, diskVars, serverVars, coreVars
<1>3. AloneInv'
  BY AloneFrame DEF CloseStore, At, GoTo, serverVars
<1>4. Control(d)'
  BY DEF SaveInv, Types, ServerType, CoreType, LoopType, FlusherType, StoreType,
         WriterType, Control, Blank, GateInv, StopInv, WriterInv, Writing, ClosePC,
         Holding, Locked, Flushers, IdleLoop, IdleFlusher, EmptyStore, IdleWriter,
         CloseStore, At, GoTo, diskVars, serverVars, coreVars
<1>5. WaitForExit => RunInv(d)' /\ CloseInv(d)'
  BY DEF SaveInv, Types, ServerType, CoreType, LoopType, FlusherType, StoreType,
         WriterType, Control, GateInv, StopInv, WriterInv, RunInv, CloseInv, Newest,
         Writing, ClosePC, Holding, Locked, Flushers, IdleLoop, IdleFlusher,
         IdleWriter, CloseStore, At, GoTo, diskVars, serverVars, coreVars
<1> QED
  BY <1>1, <1>2, <1>3, <1>4, <1>5, StepAt

(* Close ends when run has stopped.                                        *)
LEMMA CloseEndKeepsSaveInv ==
  ASSUME SaveInv, NEW d \in Daemons, CloseEnd(d)
  PROVE  SaveInv'
<1>0. /\ DiskType /\ ServerType /\ CoreType /\ LoopType /\ FlusherType
      /\ StoreType /\ WriterType
  BY DEF SaveInv, Types
<1>1. Types'
  <2>1. DiskType'
    BY <1>0, PersistenceAssumption
       DEF DiskType, CloseEnd, diskVars, serverVars, coreVars
  <2>2. ServerType'
    BY <1>0
       DEF ServerType, CloseEnd, diskVars, serverVars, coreVars
  <2>3. CoreType'
    BY <1>0, PersistenceAssumption
       DEF CoreType, State, Flushers, CloseEnd, At, GoTo, diskVars, serverVars, coreVars
  <2>4. LoopType'
    BY <1>0
       DEF LoopType, CloseEnd, diskVars, serverVars, coreVars
  <2>5. FlusherType'
    BY <1>0, GoToMeans DEF CloseEnd, FlusherPC, Flushers
  <2>6. StoreType'
    BY <1>0
       DEF StoreType, CloseEnd, diskVars, serverVars, coreVars
  <2>7. WriterType'
    BY <1>0
       DEF WriterType, CloseEnd, diskVars, serverVars, coreVars
  <2> QED
    BY <2>1, <2>2, <2>3, <2>4, <2>5, <2>6, <2>7 DEF Types
<1>2. Only(d) /\ (UNCHANGED diskVars \/ Alive(d))
  BY DEF SaveInv, Types, ServerType, CoreType, LoopType, FlusherType, StoreType,
         WriterType, Only, Alive, CloseEnd, At, GoTo, diskVars, serverVars, coreVars
<1>3. AloneInv'
  BY AloneFrame DEF CloseEnd, At, GoTo, serverVars
<1>4. Control(d)'
  BY DEF SaveInv, Types, ServerType, CoreType, LoopType, FlusherType, StoreType,
         WriterType, Control, Blank, GateInv, StopInv, WriterInv, Writing, ClosePC,
         Holding, Locked, Flushers, IdleLoop, IdleFlusher, EmptyStore, IdleWriter,
         CloseEnd, At, GoTo, diskVars, serverVars, coreVars
<1>5. WaitForExit => RunInv(d)' /\ CloseInv(d)'
  BY DEF SaveInv, Types, ServerType, CoreType, LoopType, FlusherType, StoreType,
         WriterType, Control, GateInv, StopInv, WriterInv, RunInv, CloseInv, Newest,
         Writing, ClosePC, Holding, Locked, Flushers, IdleLoop, IdleFlusher,
         IdleWriter, CloseEnd, At, GoTo, diskVars, serverVars, coreVars
<1> QED
  BY <1>1, <1>2, <1>3, <1>4, <1>5, StepAt

(* A daemon is bound when no other one is alive.                           *)
LEMMA BindKeepsSaveInv ==
  ASSUME SaveInv, NEW d \in Daemons, Bind(d)
  PROVE  SaveInv'
<1>0. /\ DiskType /\ ServerType /\ CoreType /\ LoopType /\ FlusherType
      /\ StoreType /\ WriterType
  BY DEF SaveInv, Types
<1>1. Types'
  <2>1. DiskType'
    BY <1>0, PersistenceAssumption
       DEF DiskType, Bind, diskVars, serverVars, coreVars
  <2>2. ServerType'
    BY <1>0
       DEF ServerType, Bind, diskVars, serverVars, coreVars
  <2>3. CoreType'
    BY <1>0, PersistenceAssumption
       DEF CoreType, Bind, diskVars, serverVars, coreVars
  <2>4. LoopType'
    BY <1>0
       DEF LoopType, Bind, diskVars, serverVars, coreVars
  <2>5. FlusherType'
    BY <1>0
       DEF FlusherType, Bind, diskVars, serverVars, coreVars
  <2>6. StoreType'
    BY <1>0
       DEF StoreType, Bind, diskVars, serverVars, coreVars
  <2>7. WriterType'
    BY <1>0
       DEF WriterType, Bind, diskVars, serverVars, coreVars
  <2> QED
    BY <2>1, <2>2, <2>3, <2>4, <2>5, <2>6, <2>7 DEF Types
<1>2. Only(d) /\ (UNCHANGED diskVars \/ Alive(d))
  BY DEF SaveInv, Types, ServerType, CoreType, LoopType, FlusherType, StoreType,
         WriterType, Only, Alive, Bind, diskVars, serverVars, coreVars
<1>3. AloneInv'
  BY DEF SaveInv, Types, ServerType, AloneInv, Alive, Bind, Daemons
<1>4. Control(d)'
  BY DEF SaveInv, Types, ServerType, CoreType, LoopType, FlusherType, StoreType,
         WriterType, Control, Blank, GateInv, StopInv, WriterInv, Writing, ClosePC,
         Holding, Locked, Flushers, IdleLoop, IdleFlusher, EmptyStore, IdleWriter,
         Bind, diskVars, serverVars, coreVars
<1>5. WaitForExit => RunInv(d)' /\ CloseInv(d)'
  BY DEF SaveInv, Types, ServerType, CoreType, LoopType, FlusherType, StoreType,
         WriterType, Control, GateInv, StopInv, WriterInv, RunInv, CloseInv, Newest,
         Writing, ClosePC, Holding, Locked, Flushers, IdleLoop, IdleFlusher,
         IdleWriter, Bind, diskVars, serverVars, coreVars
<1> QED
  BY <1>1, <1>2, <1>3, <1>4, <1>5, StepAt

(* It starts with what the file holds.                                     *)
LEMMA LoadKeepsSaveInv ==
  ASSUME SaveInv, NEW d \in Daemons, Load(d)
  PROVE  SaveInv'
<1>0. /\ DiskType /\ ServerType /\ CoreType /\ LoopType /\ FlusherType
      /\ StoreType /\ WriterType
  BY DEF SaveInv, Types
<1>1. Types'
  <2>1. DiskType'
    BY <1>0, PersistenceAssumption
       DEF DiskType, Load, diskVars, serverVars, coreVars
  <2>2. ServerType'
    BY <1>0
       DEF ServerType, Load, diskVars, serverVars, coreVars
  <2>3. CoreType'
    <3>1. /\ state' = [state EXCEPT ![d] = file]
          /\ UNCHANGED <<inflight, gate, pending, subscribed>>
      BY DEF Load
    <3> QED
      BY <1>0, <3>1 DEF CoreType, DiskType
  <2>4. LoopType'
    BY <1>0
       DEF LoopType, Load, diskVars, serverVars, coreVars
  <2>5. FlusherType'
    BY <1>0
       DEF FlusherType, Load, diskVars, serverVars, coreVars
  <2>6. StoreType'
    BY <1>0
       DEF StoreType, Load, diskVars, serverVars, coreVars
  <2>7. WriterType'
    BY <1>0
       DEF WriterType, Load, diskVars, serverVars, coreVars
  <2> QED
    BY <2>1, <2>2, <2>3, <2>4, <2>5, <2>6, <2>7 DEF Types
<1>2. Only(d) /\ (UNCHANGED diskVars \/ Alive(d))
  BY DEF SaveInv, Types, ServerType, CoreType, LoopType, FlusherType, StoreType,
         WriterType, Only, Alive, Load, diskVars, serverVars, coreVars
<1>3. AloneInv'
  BY DEF SaveInv, Types, ServerType, AloneInv, Alive, Load
<1>4. Control(d)'
  BY DEF SaveInv, Types, ServerType, CoreType, LoopType, FlusherType, StoreType,
         WriterType, Control, Blank, GateInv, StopInv, WriterInv, Writing, ClosePC,
         Holding, Locked, Flushers, IdleLoop, IdleFlusher, EmptyStore, IdleWriter,
         Load, diskVars, serverVars, coreVars
<1>5. WaitForExit => RunInv(d)' /\ CloseInv(d)'
  <2>1. /\ writer[d] = IdleWriter /\ loop[d] = IdleLoop /\ ClosePC(d) = "none"
        /\ store[d] = EmptyStore
    <3>1. mode[d] # "up"
      BY DEF Load
    <3> QED
      BY <3>1 DEF SaveInv, Control, Blank, ClosePC, Flushers, IdleFlusher
  <2>2. /\ state'[d] = file /\ UNCHANGED <<file, synced, loop, flusher, store, writer>>
    BY <1>0 DEF CoreType, Load, diskVars
  <2> QED
    BY <2>1, <2>2 DEF RunInv, CloseInv, Newest, Writing, ClosePC, Locked, IdleWriter, IdleLoop,
       EmptyStore
<1> QED
  BY <1>1, <1>2, <1>3, <1>4, <1>5, StepAt
-----------------------------------------------------------------------------
(* The end of a process                                                      *)

\* What Gone does to what daemon d has in memory
Erased(D, m, d) ==
  /\ mode'[d] = IF d \in D THEN m ELSE mode[d]
  /\ listening'[d] = IF d \in D THEN FALSE ELSE listening[d]
  /\ stopping'[d] = IF d \in D THEN FALSE ELSE stopping[d]
  /\ state'[d] = IF d \in D THEN {} ELSE state[d]
  /\ inflight'[d] = IF d \in D THEN FALSE ELSE inflight[d]
  /\ gate'[d] = IF d \in D THEN "free" ELSE gate[d]
  /\ pending'[d] = IF d \in D THEN 0 ELSE pending[d]
  /\ subscribed'[d] = IF d \in D THEN "live" ELSE subscribed[d]
  /\ loop'[d] = IF d \in D THEN IdleLoop ELSE loop[d]
  /\ flusher'[d] = IF d \in D THEN [t \in Flushers |-> IdleFlusher] ELSE flusher[d]
  /\ store'[d] = IF d \in D THEN EmptyStore ELSE store[d]
  /\ writer'[d] = IF d \in D THEN IdleWriter ELSE writer[d]

(* The types of what a process has at its start                            *)
LEMMA StartTypes ==
  /\ IdleLoop \in [pc : {"wait", "schedule", "ended"}, snapshot : State]
  /\ IdleFlusher \in [pc : FlusherPC, snapshot : State, ok : BOOLEAN]
  /\ EmptyStore \in [latest : State, dirty : BOOLEAN, wake : BOOLEAN,
                     timer : BOOLEAN, closing : BOOLEAN, error : BOOLEAN]
  /\ IdleWriter \in [pc : {"idle", "write", "sync", "stopped"},
                     by : Flushers \cup {"timer", "end"}, content : State,
                     newest : BOOLEAN]
  /\ {} \in State
  /\ 0 \in 0 .. EventQueueCapacity
  BY PersistenceAssumption
     DEF IdleLoop, IdleFlusher, EmptyStore, IdleWriter, State, FlusherPC

(* A process that is gone leaves every daemon with the types it had.       *)
LEMMA GoneMeans ==
  ASSUME Types, NEW D \in SUBSET Daemons, NEW m \in {"exited", "dead"}, Gone(D, m),
         file' \in State, synced' \in State
  PROVE  Types' /\ \A d \in Daemons : Erased(D, m, d)
<1>0. /\ DiskType /\ ServerType /\ CoreType /\ LoopType /\ FlusherType
      /\ StoreType /\ WriterType
  BY DEF Types
<1>1. \A d \in Daemons : Erased(D, m, d)
  BY DEF Gone, Erased
<1>2. DiskType'
  BY <1>0 DEF DiskType, Gone
<1>3. ServerType'
  <2>1. /\ mode' \in [Daemons -> {"off", "bound", "up", "exited", "dead"}]
        /\ listening' \in [Daemons -> BOOLEAN]
        /\ stopping' \in [Daemons -> BOOLEAN]
    BY <1>0 DEF ServerType, Gone
  <2> QED
    BY <1>0, <1>1, <2>1 DEF ServerType, Erased
<1>4. CoreType'
  BY <1>0, StartTypes DEF CoreType, Gone
<1>5. LoopType'
  BY <1>0, StartTypes DEF LoopType, Gone
<1>6. FlusherType'
  <2>1. [t \in Flushers |-> IdleFlusher]
          \in [Flushers -> [pc : FlusherPC, snapshot : State, ok : BOOLEAN]]
    BY StartTypes
  <2> QED
    BY <1>0, <2>1 DEF FlusherType, Gone
<1>7. StoreType'
  BY <1>0, StartTypes DEF StoreType, Gone
<1>8. WriterType'
  BY <1>0, StartTypes DEF WriterType, Gone
<1> QED
  BY <1>1, <1>2, <1>3, <1>4, <1>5, <1>6, <1>7, <1>8 DEF Types

(* The file only changes with the end of all that are alive.               *)
LEMMA GoneKeepsSaveInv ==
  ASSUME SaveInv, NEW D \in SUBSET Daemons, NEW m \in {"exited", "dead"}, Gone(D, m),
         \A d \in D : Alive(d), file' \in State, synced' \in State,
         UNCHANGED diskVars \/ \A d \in Daemons : Alive(d) => d \in D
  PROVE  SaveInv'
<1>1. Types' /\ \A d \in Daemons : Erased(D, m, d)
  BY GoneMeans DEF SaveInv
<1>2. AloneInv'
  <2>1. \A d \in Daemons : /\ mode'[d] = "off" <=> mode[d] = "off"
                           /\ Alive(d)' => Alive(d)
    BY <1>1 DEF Erased, Alive
  <2> QED
    BY <2>1 DEF SaveInv, AloneInv
<1>3. ASSUME NEW d \in Daemons, d \in D
      PROVE  Control(d)' /\ RunInv(d)' /\ CloseInv(d)'
  <2>1. /\ mode'[d] = m /\ stopping'[d] = FALSE /\ inflight'[d] = FALSE /\ gate'[d] = "free"
        /\ pending'[d] = 0 /\ subscribed'[d] = "live" /\ loop'[d] = IdleLoop
        /\ flusher'[d] = [t \in Flushers |-> IdleFlusher]
        /\ store'[d] = EmptyStore /\ writer'[d] = IdleWriter
    BY <1>1, <1>3 DEF Erased
  <2>2. /\ \A t \in Flushers : flusher'[d][t].pc = "none"
        /\ loop'[d].pc = "wait" /\ writer'[d].pc = "idle" /\ ~ store'[d].closing
    BY <2>1 DEF IdleFlusher, IdleLoop, IdleWriter, EmptyStore
  <2>3. Control(d)'
    BY <2>1, <2>2
       DEF Control, Blank, GateInv, StopInv, WriterInv, Writing, ClosePC, Holding, Locked,
           Flushers
  <2>4. RunInv(d)'
    BY <2>1 DEF RunInv
  <2>5. CloseInv(d)'
    BY <2>2 DEF CloseInv, Writing, ClosePC, Locked, Flushers
  <2> QED
    BY <2>3, <2>4, <2>5
<1>4. ASSUME NEW d \in Daemons, d \notin D
      PROVE  Control(d)' /\ (WaitForExit => RunInv(d)' /\ CloseInv(d)')
  <2>1. /\ mode'[d] = mode[d] /\ stopping'[d] = stopping[d] /\ state'[d] = state[d]
        /\ inflight'[d] = inflight[d] /\ gate'[d] = gate[d] /\ pending'[d] = pending[d]
        /\ subscribed'[d] = subscribed[d] /\ loop'[d] = loop[d]
        /\ flusher'[d] = flusher[d] /\ store'[d] = store[d] /\ writer'[d] = writer[d]
    BY <1>1, <1>4 DEF Erased
  <2>2. Control(d)'
    BY <2>1 DEF SaveInv, Control, Blank, GateInv, StopInv, WriterInv, Writing, ClosePC
  <2>3. ASSUME WaitForExit PROVE RunInv(d)' /\ CloseInv(d)'
    <3>1. CASE UNCHANGED diskVars
      BY <2>1, <2>3, <3>1
         DEF SaveInv, RunInv, CloseInv, Newest, Writing, ClosePC, diskVars
    <3>2. CASE \A e \in Daemons : Alive(e) => e \in D
      <4>1. mode[d] # "up"
        BY <1>4, <3>2 DEF Alive
      <4>2. writer[d] = IdleWriter /\ flusher[d] = [t \in Flushers |-> IdleFlusher]
        BY <4>1 DEF SaveInv, Control, Blank
      <4>3. mode'[d] # "up" /\ writer'[d].pc = "idle" /\ ClosePC(d)' = "none"
        BY <2>1, <4>1, <4>2 DEF ClosePC, IdleWriter, IdleFlusher, Flushers
      <4> QED
        BY <4>3 DEF RunInv, CloseInv, Writing, Locked
    <3> QED
      BY <3>1, <3>2
  <2> QED
    BY <2>2, <2>3
<1> QED
  BY <1>1, <1>2, <1>3, <1>4 DEF SaveInv

(* A process ends after Close, or dies.                                    *)
LEMMA EndKeepsSaveInv ==
  ASSUME SaveInv, NEW d \in Daemons, Exit(d) \/ Crash(d)
  PROVE  SaveInv'
<1>1. Alive(d) /\ UNCHANGED diskVars
  BY DEF Exit, Crash, At, Alive
<1>2. file' \in State /\ synced' \in State
  BY <1>1 DEF SaveInv, Types, DiskType, diskVars
<1>3. Gone({d}, "exited") \/ Gone({d}, "dead")
  BY DEF Exit, Crash
<1> DEFINE D == {d}
<1>4. D \in SUBSET Daemons /\ \A e \in D : Alive(e)
  BY <1>1
<1>5. Gone(D, "exited") \/ Gone(D, "dead")
  BY <1>3
<1> HIDE DEF D
<1>6. "exited" \in {"exited", "dead"} /\ "dead" \in {"exited", "dead"}
  OBVIOUS
<1> QED
  BY <1>1, <1>2, <1>4, <1>5, <1>6, GoneKeepsSaveInv, Zenon

(* A power loss ends all of them, and may bring a replaced file back.      *)
LEMMA PowerLossKeepsSaveInv ==
  ASSUME SaveInv, PowerLoss
  PROVE  SaveInv'
<1> DEFINE D == {d \in Daemons : Alive(d)}
<1>1. D \in SUBSET Daemons /\ (\A d \in D : Alive(d)) /\ \A d \in Daemons : Alive(d) => d \in D
  OBVIOUS
<1>2. file' \in State /\ synced' \in State
  BY DEF PowerLoss, SaveInv, Types, DiskType
<1>3. Gone(D, "dead")
  BY DEF PowerLoss
<1>4. "dead" \in {"exited", "dead"}
  OBVIOUS
<1> HIDE DEF D
<1> QED
  BY <1>1, <1>2, <1>3, <1>4, GoneKeepsSaveInv, Zenon
-----------------------------------------------------------------------------
(* The theorems                                                              *)

(* At the beginning no daemon runs.                                        *)
LEMMA InitSaveInv ==
  ASSUME PersistenceInit
  PROVE  SaveInv
<1>1. Types
  <2>1. DiskType
    BY PersistenceAssumption DEF PersistenceInit, DiskType, State
  <2>2. ServerType
    BY DEF PersistenceInit, ServerType
  <2>3. CoreType
    BY StartTypes DEF PersistenceInit, CoreType
  <2>4. LoopType
    BY StartTypes DEF PersistenceInit, LoopType
  <2>5. FlusherType
    BY StartTypes DEF PersistenceInit, FlusherType
  <2>6. StoreType
    BY StartTypes DEF PersistenceInit, StoreType
  <2>7. WriterType
    BY StartTypes DEF PersistenceInit, WriterType
  <2> QED
    BY <2>1, <2>2, <2>3, <2>4, <2>5, <2>6, <2>7 DEF Types
<1>2. AloneInv
  BY DEF PersistenceInit, AloneInv, Alive
<1>3. ASSUME NEW d \in Daemons
      PROVE  Control(d) /\ RunInv(d) /\ CloseInv(d)
  <2>1. /\ mode[d] = "off" /\ stopping[d] = FALSE /\ inflight[d] = FALSE /\ gate[d] = "free"
        /\ pending[d] = 0 /\ subscribed[d] = "live" /\ loop[d] = IdleLoop
        /\ flusher[d] = [t \in Flushers |-> IdleFlusher]
        /\ store[d] = EmptyStore /\ writer[d] = IdleWriter
    BY DEF PersistenceInit
  <2>2. /\ \A t \in Flushers : flusher[d][t].pc = "none"
        /\ loop[d].pc = "wait" /\ writer[d].pc = "idle" /\ ~ store[d].closing
    BY <2>1 DEF IdleFlusher, IdleLoop, IdleWriter, EmptyStore
  <2>3. Control(d)
    BY <2>1, <2>2
       DEF Control, Blank, GateInv, StopInv, WriterInv, Writing, ClosePC, Holding, Locked,
           Flushers
  <2>4. RunInv(d)
    BY <2>1 DEF RunInv
  <2>5. CloseInv(d)
    BY <2>2 DEF CloseInv, Writing, ClosePC, Locked, Flushers
  <2> QED
    BY <2>3, <2>4, <2>5
<1> QED
  BY <1>1, <1>2, <1>3 DEF SaveInv

(* A step that changes nothing keeps the invariant.                        *)
LEMMA StutterKeepsSaveInv ==
  ASSUME SaveInv, UNCHANGED vars
  PROVE  SaveInv'
<1>0. UNCHANGED <<made, failures, file, synced, mode, listening, stopping, state, inflight,
                  gate, pending, subscribed, loop, flusher, store, writer>>
  BY DEF vars, diskVars, serverVars, coreVars
<1>1. Types'
  BY <1>0 DEF SaveInv, Types, DiskType, ServerType, CoreType, LoopType, FlusherType,
     StoreType, WriterType
<1>2. AloneInv'
  BY <1>0 DEF SaveInv, AloneInv, Alive
<1>3. \A d \in Daemons : Control(d)'
  BY <1>0 DEF SaveInv, Control, Blank, GateInv, StopInv, WriterInv, Writing, ClosePC
<1>4. WaitForExit => \A d \in Daemons : RunInv(d)' /\ CloseInv(d)'
  BY <1>0 DEF SaveInv, RunInv, CloseInv, Newest, Writing, ClosePC
<1> QED
  BY <1>1, <1>2, <1>3, <1>4 DEF SaveInv

(* What the goroutines of a daemon do keeps the invariant.                 *)
LEMMA ProgressKeepsSaveInv ==
  ASSUME SaveInv, NEW d \in Daemons, Progress(d)
  PROVE  SaveInv'
<1>1. CASE RunCommand(d)
  BY <1>1, RunCommandKeepsSaveInv
<1>2. CASE Wake(d) \/ TakeTurn(d)
  BY <1>2, WakeKeepsSaveInv, TakeTurnKeepsSaveInv
<1>3. CASE Replace(d) \/ SyncDirectory(d)
  BY <1>3, ReplaceKeepsSaveInv, SyncDirectoryKeepsSaveInv
<1>4. CASE LoopTake(d) \/ LoopSchedule(d) \/ LoopEnd(d)
  BY <1>4, LoopTakeKeepsSaveInv, LoopScheduleKeepsSaveInv, LoopEndKeepsSaveInv
<1>5. CASE StoreError(d)
  BY <1>5, StoreErrorKeepsSaveInv
<1>6. ASSUME NEW t \in Flushers, Lock(d, t) \/ FlusherSchedule(d, t) PROVE SaveInv'
  BY <1>6, LockKeepsSaveInv, FlusherScheduleKeepsSaveInv
<1>7. CASE StopFlushed(d)
  BY <1>7, StopFlushedKeepsSaveInv
<1>8. CASE CloseBegin(d) \/ CloseObservers(d) \/ CloseDrained(d)
  BY <1>8, CloseBeginKeepsSaveInv, CloseObserversKeepsSaveInv, CloseDrainedKeepsSaveInv
<1>9. CASE CloseStore(d) \/ CloseEnd(d)
  BY <1>9, CloseStoreKeepsSaveInv, CloseEndKeepsSaveInv
<1>10. CASE Exit(d)
  BY <1>10, EndKeepsSaveInv
<1> QED
  BY <1>1, <1>2, <1>3, <1>4, <1>5, <1>6, <1>7, <1>8, <1>9, <1>10 DEF Progress

(* So does every step.                                                     *)
LEMMA StepKeepsSaveInv ==
  ASSUME SaveInv, [PersistenceNext]_vars
  PROVE  SaveInv'
<1>1. ASSUME NEW d \in Daemons, Bind(d) \/ Load(d) \/ Crash(d) PROVE SaveInv'
  BY <1>1, BindKeepsSaveInv, LoadKeepsSaveInv, EndKeepsSaveInv
<1>2. ASSUME NEW d \in Daemons, AdmitCommand(d) \/ RunBackground(d) \/ DaemonStop(d)
      PROVE  SaveInv'
  BY <1>2, AdmitCommandKeepsSaveInv, RunBackgroundKeepsSaveInv, DaemonStopKeepsSaveInv
<1>3. ASSUME NEW d \in Daemons, CloseBegin(d) \/ FailWrite(d) PROVE SaveInv'
  BY <1>3, CloseBeginKeepsSaveInv, FailWriteKeepsSaveInv
<1>4. ASSUME NEW d \in Daemons, Progress(d) PROVE SaveInv'
  BY <1>4, ProgressKeepsSaveInv
<1>5. CASE PowerLoss
  BY <1>5, PowerLossKeepsSaveInv
<1>6. CASE UNCHANGED vars
  BY <1>6, StutterKeepsSaveInv
<1> QED
  BY <1>1, <1>2, <1>3, <1>4, <1>5, <1>6 DEF PersistenceNext

(* The invariant holds of every daemon at all times, power losses, failing *)
(* writes and commands in flight included.                                 *)
THEOREM SaveInvariantHolds == PersistenceSpec => []SaveInv
<1>1. PersistenceInit => SaveInv
  BY InitSaveInv
<1>2. SaveInv /\ [PersistenceNext]_vars => SaveInv'
  BY StepKeepsSaveInv
<1> QED
  BY <1>1, <1>2, PTL DEF PersistenceSpec

(* Every variable keeps its type, and one daemon at most listens.          *)
THEOREM PersistenceTypeCorrect == PersistenceSpec => []PersistenceTypeOK
<1>1. SaveInv => PersistenceTypeOK
  BY DEF SaveInv, Types, DiskType, ServerType, CoreType, LoopType, FlusherType, StoreType,
         WriterType, PersistenceTypeOK
<1> QED
  BY <1>1, SaveInvariantHolds, PTL

(* Nothing is left unsaved: the file of a daemon at rest holds its state,  *)
(* and after a Close without an error all that Core has done, on the disk. *)
THEOREM NothingIsUnsaved == PersistenceSpec => []NothingUnsaved
<1>1. SaveInv => NothingUnsaved
  <2> SUFFICES ASSUME SaveInv, WaitForExit, NEW d \in Daemons
               PROVE  /\ AtRest(d) => file = state[d]
                      /\ At(d, "close", "done") /\ flusher[d]["close"].ok
                           => file = state[d] /\ synced = file
    BY DEF NothingUnsaved, SavedAtRest, SavedOnClose
  <2>1. ASSUME AtRest(d) PROVE file = state[d]
    <3>1. Newest(d) /\ ~ store[d].dirty /\ writer[d].pc = "idle"
      BY <2>1 DEF SaveInv, RunInv, AtRest
    <3> QED
      BY <3>1 DEF Newest
  <2>2. ASSUME At(d, "close", "done"), flusher[d]["close"].ok
        PROVE  file = state[d] /\ synced = file
    <3>1. ClosePC(d) = "done"
      BY <2>2 DEF At, ClosePC
    <3>2. writer[d].pc = "stopped"
      BY <3>1 DEF SaveInv, Control, WriterInv
    <3>3. CloseInv(d)
      BY DEF SaveInv
    <3>4. ~ store[d].dirty
      BY <2>2, <3>2, <3>3 DEF CloseInv
    <3>5. Newest(d) /\ synced = file
      BY <3>1, <3>2, <3>3, <3>4 DEF CloseInv, Locked, Writing
    <3> QED
      BY <3>2, <3>4, <3>5 DEF Newest
  <2> QED
    BY <2>1, <2>2
<1> QED
  BY <1>1, SaveInvariantHolds, PTL

-----------------------------------------------------------------------------

(***************************************************************************)
(* Leaves and splits of layouts, as the laws give them                     *)
(***************************************************************************)

\* The elements of two lists in a row
LEMMA ToSetConcat ==
  ASSUME NEW S, NEW a \in Seq(S), NEW b \in Seq(S)
  PROVE  a \o b \in Seq(S) /\ ToSet(a \o b) = ToSet(a) \cup ToSet(b)
<1>1. a \o b \in Seq(S)
  BY ConcatProperties
<1>2. Range(a \o b) = Range(a) \cup Range(b)
  BY RangeConcatenation
<1>3. \A s : ToSet(s) = Range(s)
  BY DEF ToSet, Range
<1> QED BY <1>1, <1>2, <1>3

\* Inserting an element at any place adds it.
LEMMA InsertAtSet ==
  ASSUME NEW S, NEW s \in Seq(S), NEW x \in S, NEW i \in 1 .. (Len(s) + 1)
  PROVE  ToSet(InsertAt(s, i, x)) = ToSet(s) \cup {x}
<1> DEFINE a == SubSeq(s, 1, i - 1)
           b == SubSeq(s, i, Len(s))
<1>1. Len(s) \in Nat /\ DOMAIN s = 1 .. Len(s) /\ \A j \in 1 .. Len(s) : s[j] \in S
  BY LenProperties, ElementOfSeq
<1>2. a \in Seq(S) /\ b \in Seq(S)
  BY <1>1, SubSeqProperties
<1>3. a \o b = s
  <2>1. CASE Len(s) = 0
    BY <2>1, <1>1
  <2>2. CASE Len(s) # 0
    <3>1. /\ 1 \in 1 .. Len(s) + 1 /\ i - 1 \in 1 - 1 .. Len(s)
          /\ Len(s) \in (i - 1) .. Len(s) /\ (i - 1) + 1 = i
      BY <2>2, <1>1
    <3>2. SubSeq(s, 1, i - 1) \o SubSeq(s, (i - 1) + 1, Len(s)) = SubSeq(s, 1, Len(s))
      BY <3>1, ConcatAdjacentSubSeq
    <3> QED BY <3>1, <3>2, SubSeqFull
  <2> QED BY <2>1, <2>2
<1> HIDE DEF a, b
<1> DEFINE e == <<x>>
<1>4. e \in Seq(S) /\ ToSet(e) = {x}
  BY DEF ToSet
<1> HIDE DEF e
<1>5. a \o e \in Seq(S) /\ ToSet(a \o e) = ToSet(a) \cup {x}
  BY <1>2, <1>4, ToSetConcat
<1>6. ToSet((a \o e) \o b) = ToSet(a) \cup {x} \cup ToSet(b)
  <2> DEFINE c == a \o e
  <2>1. c \in Seq(S) /\ ToSet(c) = ToSet(a) \cup {x}
    BY <1>5
  <2> HIDE DEF c
  <2>2. ToSet(c \o b) = ToSet(c) \cup ToSet(b)
    BY <2>1, <1>2, ToSetConcat
  <2> QED BY <2>1, <2>2 DEF c
<1>7. ToSet(s) = ToSet(a) \cup ToSet(b)
  BY <1>2, <1>3, ToSetConcat
<1>8. InsertAt(s, i, x) = (a \o e) \o b
  BY DEF InsertAt, a, b, e
<1> QED BY <1>6, <1>7, <1>8

\* Removing an element from a list of distinct ones leaves the others.
LEMMA WithoutSet ==
  ASSUME NEW S, NEW s \in Seq(S), IsInjective(s), NEW x \in ToSet(s)
  PROVE  ToSet(Without(s, x)) = ToSet(s) \ {x}
<1> DEFINE i == IndexIn(s, x)
           a == SubSeq(s, 1, i - 1)
           b == SubSeq(s, i + 1, Len(s))
           e == SubSeq(s, i, Len(s))
<1>1. Len(s) \in Nat /\ DOMAIN s = 1 .. Len(s) /\ \A j \in 1 .. Len(s) : s[j] \in S
  BY LenProperties, ElementOfSeq
<1>2. i \in 1 .. Len(s) /\ s[i] = x
  BY <1>1 DEF IndexIn, ToSet
<1> HIDE DEF i
<1>3. /\ a \in Seq(S) /\ b \in Seq(S)
      /\ Len(a) = i - 1 /\ \A j \in 1 .. (i - 1) : a[j] = s[j]
      /\ Len(b) = Len(s) - i /\ \A j \in 1 .. (Len(s) - i) : b[j] = s[i + j]
  <2>1. i - 1 \in Int /\ i + 1 \in Int /\ Len(s) \in Int
    BY <1>1, <1>2
  <2>2. \A j \in 1 .. (i - 1) : s[j] \in S
    BY <1>1, <1>2
  <2>3. \A j \in (i + 1) .. Len(s) : s[j] \in S
    BY <1>1, <1>2
  <2>4. /\ a \in Seq(S) /\ Len(a) = (IF 1 <= i - 1 THEN i - 1 - 1 + 1 ELSE 0)
        /\ \A j \in 1 .. i - 1 - 1 + 1 : a[j] = s[1 + j - 1]
    BY <2>1, <2>2, SubSeqProperties
  <2>5. /\ b \in Seq(S) /\ Len(b) = (IF i + 1 <= Len(s) THEN Len(s) - (i + 1) + 1 ELSE 0)
        /\ \A j \in 1 .. Len(s) - (i + 1) + 1 : b[j] = s[i + 1 + j - 1]
    BY <2>1, <2>3, SubSeqProperties
  <2> HIDE DEF a, b
  <2>6. Len(a) = i - 1 /\ \A j \in 1 .. (i - 1) : a[j] = s[j]
    BY <2>4, <1>1, <1>2
  <2>7. Len(b) = Len(s) - i /\ \A j \in 1 .. (Len(s) - i) : b[j] = s[i + j]
    <3>1. Len(s) - (i + 1) + 1 = Len(s) - i /\ \A j \in 1 .. (Len(s) - i) : i + 1 + j - 1 = i + j
      BY <1>1, <1>2
    <3> QED BY <3>1, <2>5, <1>1, <1>2
  <2> QED BY <2>4, <2>5, <2>6, <2>7
<1> HIDE DEF a, b
<1>4. ToSet(a \o b) = ToSet(a) \cup ToSet(b)
  BY <1>3, ToSetConcat
<1>5. Without(s, x) = a \o b
  BY DEF Without, RemoveAt, a, b, i
<1>6. ToSet(a) = {s[j] : j \in 1 .. (i - 1)}
  BY <1>3, LenProperties DEF ToSet
<1>7. ToSet(b) = {s[j] : j \in (i + 1) .. Len(s)}
  <2>1. DOMAIN b = 1 .. (Len(s) - i)
    BY <1>3, LenProperties
  <2>2. ASSUME NEW j \in 1 .. (Len(s) - i) PROVE i + j \in (i + 1) .. Len(s)
    BY <1>1, <1>2
  <2>3. ASSUME NEW j \in (i + 1) .. Len(s) PROVE j - i \in 1 .. (Len(s) - i) /\ i + (j - i) = j
    BY <1>1, <1>2
  <2>4. ASSUME NEW j \in 1 .. (Len(s) - i) PROVE b[j] \in {s[k] : k \in (i + 1) .. Len(s)}
    BY <2>2, <1>3
  <2>5. ASSUME NEW k \in (i + 1) .. Len(s) PROVE s[k] \in {b[j] : j \in 1 .. (Len(s) - i)}
    <3>1. b[k - i] = s[i + (k - i)]
      BY <2>3, <1>3
    <3> QED BY <3>1, <2>3
  <2>6. ToSet(b) = {b[j] : j \in 1 .. (Len(s) - i)}
    BY <2>1 DEF ToSet
  <2> QED BY <2>4, <2>5, <2>6
<1>8. \A j, k \in 1 .. Len(s) : s[j] = s[k] => j = k
  BY <1>1 DEF IsInjective
<1>9. {s[j] : j \in 1 .. (i - 1)} \cup {s[j] : j \in (i + 1) .. Len(s)} = ToSet(s) \ {x}
  <2>1. \A j \in 1 .. Len(s) : s[j] # x <=> j # i
    BY <1>2, <1>8
  <2>2. \A j : j \in 1 .. Len(s) /\ j # i <=> j \in 1 .. (i - 1) \/ j \in (i + 1) .. Len(s)
    BY <1>1, <1>2
  <2> QED BY <2>1, <2>2, <1>1 DEF ToSet
<1> QED BY <1>4, <1>5, <1>6, <1>7, <1>9

\* The greatest of a number and the successors of others
LEMMA MaxIs ==
  ASSUME NEW next \in Nat, NEW ids \in SUBSET Nat, NEW m \in Nat,
         next <= m, \A id \in ids : id < m, next = m \/ \E id \in ids : id + 1 = m
  PROVE  Max({next} \cup {id + 1 : id \in ids}) = m
<1> DEFINE S == {next} \cup {id + 1 : id \in ids}
<1>1. m \in S
  OBVIOUS
<1>2. \A y \in S : y \in Nat /\ m >= y
  OBVIOUS
<1> HIDE DEF S
<1>3. \E x \in S : \A y \in S : x >= y
  BY <1>1, <1>2
<1>4. Max(S) \in S /\ \A y \in S : Max(S) >= y
  BY <1>3 DEF Max
<1>5. Max(S) >= m /\ m >= Max(S) /\ Max(S) \in Nat
  BY <1>1, <1>2, <1>4
<1>6. Max(S) = m
  BY <1>5
<1> QED BY <1>6 DEF S

\* What is shown in a layout
Shown(n) == ToSet(Leaves(n))

\* The empty layout, and that of one pane
LEMMA SmallLayouts ==
  /\ Nil \in Layouts /\ Shown(Nil) = {} /\ SplitIDs(Nil) = {}
  /\ \A p \in PaneID : Leaf(p) \in Layouts /\ Shown(Leaf(p)) = {p} /\ SplitIDs(Leaf(p)) = {}
  BY LayoutLaws DEF Shown, ToSet

\* Leaves are panes and splits have identifiers; a layout of nothing is empty.
LEMMA LayoutFacts ==
  ASSUME NEW n \in Layouts
  PROVE  /\ Leaves(n) \in Seq(PaneID) /\ IsInjective(Leaves(n))
         /\ Shown(n) \subseteq PaneID /\ SplitIDs(n) \subseteq SplitID
         /\ Shown(n) = {} => n = Nil
<1>1. /\ Leaves(n) \in Seq(PaneID) /\ IsInjective(Leaves(n)) /\ SplitIDs(n) \subseteq SplitID
      /\ Leaves(n) = <<>> => n = Nil
  BY LayoutLaws
<1>2. Shown(n) \subseteq PaneID
  BY <1>1, LenProperties, ElementOfSeq DEF Shown, ToSet
<1>3. Shown(n) = {} => Leaves(n) = <<>>
  <2> DEFINE s == Leaves(n)
  <2>1. s \in Seq(PaneID) /\ Len(s) \in Nat /\ DOMAIN s = 1 .. Len(s)
    BY <1>1, LenProperties
  <2> HIDE DEF s
  <2>2. CASE Len(s) = 0
    BY <2>1, <2>2, EmptySeq DEF s
  <2>3. CASE Len(s) # 0
    <3>1. s[1] \in ToSet(s)
      BY <2>1, <2>3 DEF ToSet
    <3> QED BY <3>1 DEF Shown, s
  <2> QED BY <2>2, <2>3
<1> QED BY <1>1, <1>2, <1>3

\* The place of an element in a list
LEMMA IndexFacts ==
  ASSUME NEW S, NEW s \in Seq(S), NEW x \in ToSet(s)
  PROVE  IndexIn(s, x) \in 1 .. Len(s) /\ s[IndexIn(s, x)] = x
  BY LenProperties DEF IndexIn, ToSet

\* An insertion shows the inserted pane too and adds at most the given split.
LEMMA InsertFacts ==
  ASSUME NEW n \in Layouts, NEW p \in PaneID \ Shown(n),
         NEW id \in (1 .. SplitLimit) \ SplitIDs(n),
         NEW a \in Placings, a.target \in Shown(n),
         RequiresSplit(n, a.target, a.direction) => id \in SplitID
  PROVE  LET m == Insert(n, p, a, id) IN
         /\ m \in Layouts
         /\ Shown(m) = Shown(n) \cup {p}
         /\ SplitIDs(m) = SplitIDs(n) \cup (IF RequiresSplit(n, a.target, a.direction) THEN {id} ELSE {})
<1> DEFINE m == Insert(n, p, a, id)
           side == IF a.before THEN "before" ELSE "after"
           s == Leaves(n)
<1>1. /\ m \in Layouts
      /\ Leaves(m) = Beside(s, a.target, side, p)
      /\ SplitIDs(m) = SplitIDs(n) \cup (IF RequiresSplit(n, a.target, a.direction) THEN {id} ELSE {})
  BY LayoutLaws DEF Shown, Shows
<1> HIDE DEF m, side
<1>2. s \in Seq(PaneID) /\ a.target \in ToSet(s)
  BY LayoutFacts DEF Shown
<1> DEFINE i == IndexIn(s, a.target) + (IF side = "before" THEN 0 ELSE 1)
<1> HIDE DEF s
<1>3. IndexIn(s, a.target) \in 1 .. Len(s) /\ Len(s) \in Nat /\ s # <<>>
  BY <1>2, IndexFacts, LenProperties
<1>4. i \in 1 .. (Len(s) + 1)
  BY <1>3
<1>5. Beside(s, a.target, side, p) = InsertAt(s, i, p)
  BY <1>3 DEF Beside
<1> HIDE DEF i
<1>6. ToSet(InsertAt(s, i, p)) = ToSet(s) \cup {p}
  BY <1>2, <1>4, InsertAtSet
<1> QED BY <1>1, <1>5, <1>6 DEF Shown, s, m

\* A removal hides the pane, adds no split, and what it leaves as a hint is
\* about another pane and a split of the layout.
LEMMA RemoveFacts ==
  ASSUME NEW n \in Layouts, NEW p \in Shown(n)
  PROVE  /\ RemoveLeaf(n, p) \in Layouts
         /\ Shown(RemoveLeaf(n, p)) = Shown(n) \ {p}
         /\ SplitIDs(RemoveLeaf(n, p)) \subseteq SplitIDs(n)
         /\ HintFor(n, p) # NoHint =>
              /\ HintFor(n, p) \in Hints /\ HintFor(n, p).split \in SplitIDs(n)
              /\ HintFor(n, p).target # p
<1> DEFINE s == Leaves(n)
           h == HintFor(n, p)
<1>1. /\ RemoveLeaf(n, p) \in Layouts
      /\ Leaves(RemoveLeaf(n, p)) = Without(s, p)
      /\ SplitIDs(RemoveLeaf(n, p)) \subseteq SplitIDs(n)
      /\ h # NoHint => h \in Hints /\ h.split \in SplitIDs(n) /\ Neighbouring(h, s, p)
  BY LayoutLaws DEF Shown
<1>2. s \in Seq(PaneID) /\ IsInjective(s) /\ p \in ToSet(s)
  BY LayoutFacts DEF Shown
<1> HIDE DEF s, h
<1>3. ToSet(Without(s, p)) = ToSet(s) \ {p}
  BY <1>2, WithoutSet
<1>4. Neighbouring(h, s, p) => h.target # p
  <2>1. IndexIn(s, p) \in Int
    BY <1>2, IndexFacts
  <2> QED BY <2>1 DEF Neighbouring
<1> QED BY <1>1, <1>3, <1>4 DEF Shown, s, h

(***************************************************************************)
(* The copy of a frontend, field by field: what applying the event of each *)
(* kind of command changes in a snapshot, and nothing else.                *)
(***************************************************************************)
Fields == {"windows", "tree", "nextSplitID", "panes", "nextPaneID", "paneWindow",
           "stashed", "toolOf", "tools", "labels", "attentions"}
IsSnapshot(s) == s = [f \in Fields |-> s[f]]

\* Two snapshots with the same fields are the same.
LEMMA SameSnapshot ==
  ASSUME NEW s, NEW t, IsSnapshot(s), IsSnapshot(t),
         s.windows = t.windows, s.tree = t.tree, s.nextSplitID = t.nextSplitID,
         s.panes = t.panes, s.nextPaneID = t.nextPaneID, s.paneWindow = t.paneWindow,
         s.stashed = t.stashed, s.toolOf = t.toolOf, s.tools = t.tools,
         s.labels = t.labels, s.attentions = t.attentions
  PROVE  s = t
  BY DEF IsSnapshot, Fields

\* A new pane
LEMMA PaneCreatedFields ==
  ASSUME NEW s, IsSnapshot(s), NEW e, e.kind = "pane_created"
  PROVE  LET t == ApplyEvent(s, e) IN
         /\ IsSnapshot(t)
         /\ t.windows = s.windows \cup {e.window.id}
         /\ t.tree = [s.tree EXCEPT ![e.window.id] = e.window.layout]
         /\ t.nextSplitID = Max({s.nextSplitID} \cup {id + 1 : id \in SplitIDs(e.window.layout)})
         /\ t.panes = s.panes \cup {e.pane.id}
         /\ t.nextPaneID = (IF e.pane.id >= s.nextPaneID THEN e.pane.id + 1 ELSE s.nextPaneID)
         /\ t.paneWindow = [s.paneWindow EXCEPT ![e.pane.id] = e.pane.window]
         /\ t.toolOf = [s.toolOf EXCEPT ![e.pane.id] = e.pane.tool]
         /\ t.tools = (IF e.tool = NoTool THEN s.tools ELSE [s.tools EXCEPT ![e.pane.tool] = e.tool])
         /\ t.stashed = s.stashed /\ t.labels = s.labels /\ t.attentions = s.attentions
<1> DEFINE a == UpsertTool(s, e.pane.tool, e.tool)
           b == UpsertPane(a, e.pane)
           c == BumpNextPaneID(b, e.pane)
           d == UpsertWindow(c, e.window)
           r == BumpNextSplitID(d, e.window)
<1>0. ApplyEvent(s, e) = r
  BY DEF ApplyEvent
<1> HIDE DEF a, b, c, d, r
<1>1. /\ IsSnapshot(a)
      /\ a.tools = (IF e.tool = NoTool THEN s.tools ELSE [s.tools EXCEPT ![e.pane.tool] = e.tool])
      /\ a.windows = s.windows /\ a.tree = s.tree /\ a.nextSplitID = s.nextSplitID
      /\ a.panes = s.panes /\ a.nextPaneID = s.nextPaneID
      /\ a.paneWindow = s.paneWindow /\ a.stashed = s.stashed /\ a.toolOf = s.toolOf
      /\ a.labels = s.labels /\ a.attentions = s.attentions
  BY DEF a, UpsertTool, IsSnapshot, Fields
<1>2. /\ IsSnapshot(b)
      /\ b.panes = a.panes \cup {e.pane.id}
      /\ b.paneWindow = [a.paneWindow EXCEPT ![e.pane.id] = e.pane.window]
      /\ b.toolOf = [a.toolOf EXCEPT ![e.pane.id] = e.pane.tool]
      /\ b.windows = a.windows /\ b.tree = a.tree /\ b.nextSplitID = a.nextSplitID
      /\ b.nextPaneID = a.nextPaneID /\ b.stashed = a.stashed /\ b.tools = a.tools
      /\ b.labels = a.labels /\ b.attentions = a.attentions
  BY <1>1 DEF b, UpsertPane, IsSnapshot, Fields
<1>3. /\ IsSnapshot(c)
      /\ c.nextPaneID = (IF e.pane.id >= b.nextPaneID THEN e.pane.id + 1 ELSE b.nextPaneID)
      /\ c.windows = b.windows /\ c.tree = b.tree /\ c.nextSplitID = b.nextSplitID
      /\ c.panes = b.panes /\ c.paneWindow = b.paneWindow /\ c.stashed = b.stashed
      /\ c.toolOf = b.toolOf /\ c.tools = b.tools /\ c.labels = b.labels
      /\ c.attentions = b.attentions
  BY <1>2 DEF c, BumpNextPaneID, IsSnapshot, Fields
<1>4. /\ IsSnapshot(d)
      /\ d.windows = c.windows \cup {e.window.id}
      /\ d.tree = [c.tree EXCEPT ![e.window.id] = e.window.layout]
      /\ d.nextSplitID = c.nextSplitID /\ d.panes = c.panes
      /\ d.nextPaneID = c.nextPaneID /\ d.paneWindow = c.paneWindow
      /\ d.stashed = c.stashed /\ d.toolOf = c.toolOf /\ d.tools = c.tools
      /\ d.labels = c.labels /\ d.attentions = c.attentions
  BY <1>3 DEF d, UpsertWindow, IsSnapshot, Fields
<1>5. /\ IsSnapshot(r)
      /\ r.nextSplitID = Max({d.nextSplitID} \cup {id + 1 : id \in SplitIDs(e.window.layout)})
      /\ r.windows = d.windows /\ r.tree = d.tree /\ r.panes = d.panes
      /\ r.nextPaneID = d.nextPaneID /\ r.paneWindow = d.paneWindow
      /\ r.stashed = d.stashed /\ r.toolOf = d.toolOf /\ r.tools = d.tools
      /\ r.labels = d.labels /\ r.attentions = d.attentions
  BY <1>4 DEF r, BumpNextSplitID, IsSnapshot, Fields
<1> QED BY <1>0, <1>1, <1>2, <1>3, <1>4, <1>5

\* A pane that has moved, to another window or within its own
LEMMA PaneMovedFields ==
  ASSUME NEW s, IsSnapshot(s), NEW e, e.kind = "pane_moved"
  PROVE  LET t == ApplyEvent(s, e) IN
         /\ IsSnapshot(t)
         /\ t.windows = (s.windows \cup {e.source.id}) \cup {e.window.id}
         /\ t.tree = [[s.tree EXCEPT ![e.source.id] = e.source.layout]
                            EXCEPT ![e.window.id] = e.window.layout]
         /\ t.nextSplitID = Max({s.nextSplitID} \cup {id + 1 : id \in SplitIDs(e.window.layout)})
         /\ t.panes = s.panes \cup {e.pane.id}
         /\ t.paneWindow = [s.paneWindow EXCEPT ![e.pane.id] = e.pane.window]
         /\ t.toolOf = [s.toolOf EXCEPT ![e.pane.id] = e.pane.tool]
         /\ t.nextPaneID = s.nextPaneID /\ t.stashed = s.stashed /\ t.tools = s.tools
         /\ t.labels = s.labels /\ t.attentions = s.attentions
<1> DEFINE a == UpsertPane(s, e.pane)
           b == UpsertWindow(a, e.source)
           c == UpsertWindow(b, e.window)
           r == BumpNextSplitID(c, e.window)
<1>0. ApplyEvent(s, e) = r
  BY DEF ApplyEvent
<1> HIDE DEF a, b, c, r
<1>1. /\ IsSnapshot(a)
      /\ a.panes = s.panes \cup {e.pane.id}
      /\ a.paneWindow = [s.paneWindow EXCEPT ![e.pane.id] = e.pane.window]
      /\ a.toolOf = [s.toolOf EXCEPT ![e.pane.id] = e.pane.tool]
      /\ a.windows = s.windows /\ a.tree = s.tree /\ a.nextSplitID = s.nextSplitID
      /\ a.nextPaneID = s.nextPaneID /\ a.stashed = s.stashed /\ a.tools = s.tools
      /\ a.labels = s.labels /\ a.attentions = s.attentions
  BY DEF a, UpsertPane, IsSnapshot, Fields
<1>2. /\ IsSnapshot(b)
      /\ b.windows = a.windows \cup {e.source.id}
      /\ b.tree = [a.tree EXCEPT ![e.source.id] = e.source.layout]
      /\ b.nextSplitID = a.nextSplitID /\ b.panes = a.panes
      /\ b.nextPaneID = a.nextPaneID /\ b.paneWindow = a.paneWindow
      /\ b.stashed = a.stashed /\ b.toolOf = a.toolOf /\ b.tools = a.tools
      /\ b.labels = a.labels /\ b.attentions = a.attentions
  BY <1>1 DEF b, UpsertWindow, IsSnapshot, Fields
<1>3. /\ IsSnapshot(c)
      /\ c.windows = b.windows \cup {e.window.id}
      /\ c.tree = [b.tree EXCEPT ![e.window.id] = e.window.layout]
      /\ c.nextSplitID = b.nextSplitID /\ c.panes = b.panes
      /\ c.nextPaneID = b.nextPaneID /\ c.paneWindow = b.paneWindow
      /\ c.stashed = b.stashed /\ c.toolOf = b.toolOf /\ c.tools = b.tools
      /\ c.labels = b.labels /\ c.attentions = b.attentions
  BY <1>2 DEF c, UpsertWindow, IsSnapshot, Fields
<1>4. /\ IsSnapshot(r)
      /\ r.nextSplitID = Max({c.nextSplitID} \cup {id + 1 : id \in SplitIDs(e.window.layout)})
      /\ r.windows = c.windows /\ r.tree = c.tree /\ r.panes = c.panes
      /\ r.nextPaneID = c.nextPaneID /\ r.paneWindow = c.paneWindow
      /\ r.stashed = c.stashed /\ r.toolOf = c.toolOf /\ r.tools = c.tools
      /\ r.labels = c.labels /\ r.attentions = c.attentions
  BY <1>3 DEF r, BumpNextSplitID, IsSnapshot, Fields
<1> QED BY <1>0, <1>1, <1>2, <1>3, <1>4

\* A pane that was stashed
LEMMA PaneStashedFields ==
  ASSUME NEW s, IsSnapshot(s), NEW e, e.kind = "pane_stashed"
  PROVE  LET t == ApplyEvent(s, e) IN
         /\ IsSnapshot(t)
         /\ t.windows = s.windows \cup {e.window.id}
         /\ t.tree = [s.tree EXCEPT ![e.window.id] = e.window.layout]
         /\ t.panes = s.panes \cup {e.pane.id}
         /\ t.paneWindow = [s.paneWindow EXCEPT ![e.pane.id] = e.pane.window]
         /\ t.stashed = [s.stashed EXCEPT ![e.pane.id] = e.hint]
         /\ t.toolOf = [s.toolOf EXCEPT ![e.pane.id] = e.pane.tool]
         /\ t.nextSplitID = s.nextSplitID /\ t.nextPaneID = s.nextPaneID
         /\ t.tools = s.tools /\ t.labels = s.labels /\ t.attentions = s.attentions
<1> DEFINE a == UpsertPane(s, e.pane)
           b == UpsertWindow(a, e.window)
           r == [b EXCEPT !.stashed[e.pane.id] = e.hint]
<1>0. ApplyEvent(s, e) = r
  BY DEF ApplyEvent
<1> HIDE DEF a, b, r
<1>1. /\ IsSnapshot(a)
      /\ a.panes = s.panes \cup {e.pane.id}
      /\ a.paneWindow = [s.paneWindow EXCEPT ![e.pane.id] = e.pane.window]
      /\ a.toolOf = [s.toolOf EXCEPT ![e.pane.id] = e.pane.tool]
      /\ a.windows = s.windows /\ a.tree = s.tree /\ a.nextSplitID = s.nextSplitID
      /\ a.nextPaneID = s.nextPaneID /\ a.stashed = s.stashed /\ a.tools = s.tools
      /\ a.labels = s.labels /\ a.attentions = s.attentions
  BY DEF a, UpsertPane, IsSnapshot, Fields
<1>2. /\ IsSnapshot(b)
      /\ b.windows = a.windows \cup {e.window.id}
      /\ b.tree = [a.tree EXCEPT ![e.window.id] = e.window.layout]
      /\ b.nextSplitID = a.nextSplitID /\ b.panes = a.panes
      /\ b.nextPaneID = a.nextPaneID /\ b.paneWindow = a.paneWindow
      /\ b.stashed = a.stashed /\ b.toolOf = a.toolOf /\ b.tools = a.tools
      /\ b.labels = a.labels /\ b.attentions = a.attentions
  BY <1>1 DEF b, UpsertWindow, IsSnapshot, Fields
<1>3. /\ IsSnapshot(r)
      /\ r.stashed = [b.stashed EXCEPT ![e.pane.id] = e.hint]
      /\ r.windows = b.windows /\ r.tree = b.tree /\ r.nextSplitID = b.nextSplitID
      /\ r.panes = b.panes /\ r.nextPaneID = b.nextPaneID
      /\ r.paneWindow = b.paneWindow /\ r.toolOf = b.toolOf /\ r.tools = b.tools
      /\ r.labels = b.labels /\ r.attentions = b.attentions
  BY <1>2 DEF r, IsSnapshot, Fields
<1> QED BY <1>0, <1>1, <1>2, <1>3

\* A pane that was restored
LEMMA PaneRestoredFields ==
  ASSUME NEW s, IsSnapshot(s), NEW e, e.kind = "pane_restored"
  PROVE  LET t == ApplyEvent(s, e) IN
         /\ IsSnapshot(t)
         /\ t.windows = s.windows \cup {e.window.id}
         /\ t.tree = [s.tree EXCEPT ![e.window.id] = e.window.layout]
         /\ t.nextSplitID = Max({s.nextSplitID} \cup {id + 1 : id \in SplitIDs(e.window.layout)})
         /\ t.panes = s.panes \cup {e.pane.id}
         /\ t.paneWindow = [s.paneWindow EXCEPT ![e.pane.id] = e.pane.window]
         /\ t.stashed = [s.stashed EXCEPT ![e.pane.id] = NotStashed]
         /\ t.toolOf = [s.toolOf EXCEPT ![e.pane.id] = e.pane.tool]
         /\ t.nextPaneID = s.nextPaneID /\ t.tools = s.tools /\ t.labels = s.labels
         /\ t.attentions = s.attentions
<1> DEFINE a == UpsertPane(s, e.pane)
           b == UpsertWindow(a, e.window)
           c == BumpNextSplitID(b, e.window)
           r == [c EXCEPT !.stashed[e.pane.id] = NotStashed]
<1>0. ApplyEvent(s, e) = r
  BY DEF ApplyEvent
<1> HIDE DEF a, b, c, r
<1>1. /\ IsSnapshot(a)
      /\ a.panes = s.panes \cup {e.pane.id}
      /\ a.paneWindow = [s.paneWindow EXCEPT ![e.pane.id] = e.pane.window]
      /\ a.toolOf = [s.toolOf EXCEPT ![e.pane.id] = e.pane.tool]
      /\ a.windows = s.windows /\ a.tree = s.tree /\ a.nextSplitID = s.nextSplitID
      /\ a.nextPaneID = s.nextPaneID /\ a.stashed = s.stashed /\ a.tools = s.tools
      /\ a.labels = s.labels /\ a.attentions = s.attentions
  BY DEF a, UpsertPane, IsSnapshot, Fields
<1>2. /\ IsSnapshot(b)
      /\ b.windows = a.windows \cup {e.window.id}
      /\ b.tree = [a.tree EXCEPT ![e.window.id] = e.window.layout]
      /\ b.nextSplitID = a.nextSplitID /\ b.panes = a.panes
      /\ b.nextPaneID = a.nextPaneID /\ b.paneWindow = a.paneWindow
      /\ b.stashed = a.stashed /\ b.toolOf = a.toolOf /\ b.tools = a.tools
      /\ b.labels = a.labels /\ b.attentions = a.attentions
  BY <1>1 DEF b, UpsertWindow, IsSnapshot, Fields
<1>3. /\ IsSnapshot(c)
      /\ c.nextSplitID = Max({b.nextSplitID} \cup {id + 1 : id \in SplitIDs(e.window.layout)})
      /\ c.windows = b.windows /\ c.tree = b.tree /\ c.panes = b.panes
      /\ c.nextPaneID = b.nextPaneID /\ c.paneWindow = b.paneWindow
      /\ c.stashed = b.stashed /\ c.toolOf = b.toolOf /\ c.tools = b.tools
      /\ c.labels = b.labels /\ c.attentions = b.attentions
  BY <1>2 DEF c, BumpNextSplitID, IsSnapshot, Fields
<1>4. /\ IsSnapshot(r)
      /\ r.stashed = [c.stashed EXCEPT ![e.pane.id] = NotStashed]
      /\ r.windows = c.windows /\ r.tree = c.tree /\ r.nextSplitID = c.nextSplitID
      /\ r.panes = c.panes /\ r.nextPaneID = c.nextPaneID
      /\ r.paneWindow = c.paneWindow /\ r.toolOf = c.toolOf /\ r.tools = c.tools
      /\ r.labels = c.labels /\ r.attentions = c.attentions
  BY <1>3 DEF r, IsSnapshot, Fields
<1> QED BY <1>0, <1>1, <1>2, <1>3, <1>4

\* A pane that was closed
LEMMA PaneClosedFields ==
  ASSUME NEW s, IsSnapshot(s), NEW e, e.kind = "pane_closed"
  PROVE  LET t == ApplyEvent(s, e) IN
         /\ IsSnapshot(t)
         /\ t.windows = (IF e.window.id = 0 THEN s.windows ELSE s.windows \cup {e.window.id})
         /\ t.tree = (IF e.window.id = 0 THEN s.tree
                       ELSE [s.tree EXCEPT ![e.window.id] = e.window.layout])
         /\ t.panes = s.panes \ {e.pane.id}
         /\ t.paneWindow = [s.paneWindow EXCEPT ![e.pane.id] = 0]
         /\ t.stashed = [s.stashed EXCEPT ![e.pane.id] = NotStashed]
         /\ t.toolOf = [s.toolOf EXCEPT ![e.pane.id] = None]
         /\ t.tools = (IF e.tool = None THEN s.tools ELSE [s.tools EXCEPT ![e.tool] = NoTool])
         /\ t.labels = {m \in s.labels : \A l \in e.labels : ~ SameKey(l, m)}
         /\ t.attentions = {a \in s.attentions : \A g \in e.attentions : a.id # g.id}
         /\ t.nextSplitID = s.nextSplitID /\ t.nextPaneID = s.nextPaneID
<1> DEFINE gone == [s EXCEPT !.panes = @ \ {e.pane.id}, !.paneWindow[e.pane.id] = 0,
                              !.toolOf[e.pane.id] = None, !.stashed[e.pane.id] = NotStashed]
           shown == IF e.window.id = 0 THEN gone ELSE UpsertWindow(gone, e.window)
           untooled == IF e.tool = None THEN shown ELSE [shown EXCEPT !.tools[e.tool] = NoTool]
           u == RemoveLabels(untooled, e.labels)
           r == RemoveAttentions(u, e.attentions)
<1>0. ApplyEvent(s, e) = r
  BY DEF ApplyEvent, PaneClosed
<1> HIDE DEF gone, shown, untooled, u, r
<1>1. /\ IsSnapshot(gone)
      /\ gone.panes = s.panes \ {e.pane.id}
      /\ gone.paneWindow = [s.paneWindow EXCEPT ![e.pane.id] = 0]
      /\ gone.stashed = [s.stashed EXCEPT ![e.pane.id] = NotStashed]
      /\ gone.toolOf = [s.toolOf EXCEPT ![e.pane.id] = None]
      /\ gone.windows = s.windows /\ gone.tree = s.tree
      /\ gone.nextSplitID = s.nextSplitID /\ gone.nextPaneID = s.nextPaneID
      /\ gone.tools = s.tools /\ gone.labels = s.labels
      /\ gone.attentions = s.attentions
  BY DEF gone, IsSnapshot, Fields
<1>2. /\ IsSnapshot(shown)
      /\ shown.windows = (IF e.window.id = 0 THEN gone.windows ELSE gone.windows \cup {e.window.id})
      /\ shown.tree = (IF e.window.id = 0 THEN gone.tree
                       ELSE [gone.tree EXCEPT ![e.window.id] = e.window.layout])
      /\ shown.nextSplitID = gone.nextSplitID /\ shown.panes = gone.panes
      /\ shown.nextPaneID = gone.nextPaneID /\ shown.paneWindow = gone.paneWindow
      /\ shown.stashed = gone.stashed /\ shown.toolOf = gone.toolOf
      /\ shown.tools = gone.tools /\ shown.labels = gone.labels
      /\ shown.attentions = gone.attentions
  BY <1>1 DEF shown, UpsertWindow, IsSnapshot, Fields
<1>3. /\ IsSnapshot(untooled)
      /\ untooled.tools = (IF e.tool = None THEN shown.tools ELSE [shown.tools EXCEPT ![e.tool] = NoTool])
      /\ untooled.windows = shown.windows /\ untooled.tree = shown.tree
      /\ untooled.nextSplitID = shown.nextSplitID /\ untooled.panes = shown.panes
      /\ untooled.nextPaneID = shown.nextPaneID
      /\ untooled.paneWindow = shown.paneWindow /\ untooled.stashed = shown.stashed
      /\ untooled.toolOf = shown.toolOf /\ untooled.labels = shown.labels
      /\ untooled.attentions = shown.attentions
  BY <1>2 DEF untooled, IsSnapshot, Fields
<1>4. /\ IsSnapshot(u)
      /\ u.labels = {m \in untooled.labels : \A l \in e.labels : ~ SameKey(l, m)}
      /\ u.windows = untooled.windows /\ u.tree = untooled.tree
      /\ u.nextSplitID = untooled.nextSplitID /\ u.panes = untooled.panes
      /\ u.nextPaneID = untooled.nextPaneID /\ u.paneWindow = untooled.paneWindow
      /\ u.stashed = untooled.stashed /\ u.toolOf = untooled.toolOf
      /\ u.tools = untooled.tools /\ u.attentions = untooled.attentions
  BY <1>3 DEF u, RemoveLabels, IsSnapshot, Fields
<1>5. /\ IsSnapshot(r)
      /\ r.attentions = {a \in u.attentions : \A g \in e.attentions : a.id # g.id}
      /\ r.windows = u.windows /\ r.tree = u.tree /\ r.nextSplitID = u.nextSplitID
      /\ r.panes = u.panes /\ r.nextPaneID = u.nextPaneID
      /\ r.paneWindow = u.paneWindow /\ r.stashed = u.stashed /\ r.toolOf = u.toolOf
      /\ r.tools = u.tools /\ r.labels = u.labels
  BY <1>4 DEF r, RemoveAttentions, IsSnapshot, Fields
<1> QED BY <1>0, <1>1, <1>2, <1>3, <1>4, <1>5

\* A split with other weights
LEMMA SplitResizedFields ==
  ASSUME NEW s, IsSnapshot(s), NEW e, e.kind = "split_resized"
  PROVE  LET t == ApplyEvent(s, e) IN
         /\ IsSnapshot(t)
         /\ t.windows = s.windows \cup {e.window.id}
         /\ t.tree = [s.tree EXCEPT ![e.window.id] = e.window.layout]
         /\ t.nextSplitID = s.nextSplitID /\ t.panes = s.panes
         /\ t.nextPaneID = s.nextPaneID /\ t.paneWindow = s.paneWindow
         /\ t.stashed = s.stashed /\ t.toolOf = s.toolOf /\ t.tools = s.tools
         /\ t.labels = s.labels /\ t.attentions = s.attentions
  BY DEF ApplyEvent, UpsertWindow, IsSnapshot, Fields

\* A window that was deleted
LEMMA WindowDeletedFields ==
  ASSUME NEW s, IsSnapshot(s), NEW e, e.kind = "window_deleted"
  PROVE  LET t == ApplyEvent(s, e) IN
         /\ IsSnapshot(t)
         /\ t.windows = s.windows \ {e.window.id}
         /\ t.labels = {m \in s.labels : \A l \in e.labels : ~ SameKey(l, m)}
         /\ t.tree = s.tree /\ t.nextSplitID = s.nextSplitID /\ t.panes = s.panes
         /\ t.nextPaneID = s.nextPaneID /\ t.paneWindow = s.paneWindow
         /\ t.stashed = s.stashed /\ t.toolOf = s.toolOf /\ t.tools = s.tools
         /\ t.attentions = s.attentions
<1> DEFINE a == [s EXCEPT !.windows = @ \ {e.window.id}]
           r == RemoveLabels(a, e.labels)
<1>0. ApplyEvent(s, e) = r
  BY DEF ApplyEvent
<1> HIDE DEF a, r
<1>1. /\ IsSnapshot(a)
      /\ a.windows = s.windows \ {e.window.id}
      /\ a.tree = s.tree /\ a.nextSplitID = s.nextSplitID /\ a.panes = s.panes
      /\ a.nextPaneID = s.nextPaneID /\ a.paneWindow = s.paneWindow
      /\ a.stashed = s.stashed /\ a.toolOf = s.toolOf /\ a.tools = s.tools
      /\ a.labels = s.labels /\ a.attentions = s.attentions
  BY DEF a, IsSnapshot, Fields
<1>2. /\ IsSnapshot(r)
      /\ r.labels = {m \in a.labels : \A l \in e.labels : ~ SameKey(l, m)}
      /\ r.windows = a.windows /\ r.tree = a.tree /\ r.nextSplitID = a.nextSplitID
      /\ r.panes = a.panes /\ r.nextPaneID = a.nextPaneID
      /\ r.paneWindow = a.paneWindow /\ r.stashed = a.stashed /\ r.toolOf = a.toolOf
      /\ r.tools = a.tools /\ r.attentions = a.attentions
  BY <1>1 DEF r, RemoveLabels, IsSnapshot, Fields
<1> QED BY <1>0, <1>1, <1>2

\* A label that was set
LEMMA LabelSetFields ==
  ASSUME NEW s, IsSnapshot(s), NEW e, e.kind = "label_set"
  PROVE  LET t == ApplyEvent(s, e) IN
         /\ IsSnapshot(t)
         /\ t.labels = {m \in s.labels : ~ SameKey(e.label, m)} \cup {e.label}
         /\ t.windows = s.windows /\ t.tree = s.tree /\ t.nextSplitID = s.nextSplitID
         /\ t.panes = s.panes /\ t.nextPaneID = s.nextPaneID
         /\ t.paneWindow = s.paneWindow /\ t.stashed = s.stashed /\ t.toolOf = s.toolOf
         /\ t.tools = s.tools /\ t.attentions = s.attentions
  BY DEF ApplyEvent, UpsertLabel, IsSnapshot, Fields

\* A label that was removed
LEMMA LabelRemovedFields ==
  ASSUME NEW s, IsSnapshot(s), NEW e, e.kind = "label_removed"
  PROVE  LET t == ApplyEvent(s, e) IN
         /\ IsSnapshot(t)
         /\ t.labels = {m \in s.labels : \A l \in e.labels : ~ SameKey(l, m)}
         /\ t.windows = s.windows /\ t.tree = s.tree /\ t.nextSplitID = s.nextSplitID
         /\ t.panes = s.panes /\ t.nextPaneID = s.nextPaneID
         /\ t.paneWindow = s.paneWindow /\ t.stashed = s.stashed /\ t.toolOf = s.toolOf
         /\ t.tools = s.tools /\ t.attentions = s.attentions
  BY DEF ApplyEvent, RemoveLabels, IsSnapshot, Fields

\* The labels of a source that were removed
LEMMA LabelSourceClearedFields ==
  ASSUME NEW s, IsSnapshot(s), NEW e, e.kind = "label_source_cleared"
  PROVE  LET t == ApplyEvent(s, e) IN
         /\ IsSnapshot(t)
         /\ t.labels = {m \in s.labels : \A l \in e.labels : ~ SameKey(l, m)}
         /\ t.windows = s.windows /\ t.tree = s.tree /\ t.nextSplitID = s.nextSplitID
         /\ t.panes = s.panes /\ t.nextPaneID = s.nextPaneID
         /\ t.paneWindow = s.paneWindow /\ t.stashed = s.stashed /\ t.toolOf = s.toolOf
         /\ t.tools = s.tools /\ t.attentions = s.attentions
  BY DEF ApplyEvent, RemoveLabels, IsSnapshot, Fields

\* A tool with another state
LEMMA ToolStateUpdatedFields ==
  ASSUME NEW s, IsSnapshot(s), NEW e, e.kind = "tool_state_updated"
  PROVE  LET t == ApplyEvent(s, e) IN
         /\ IsSnapshot(t)
         /\ t.tools = (IF e.tool = NoTool THEN s.tools ELSE [s.tools EXCEPT ![e.descriptor] = e.tool])
         /\ t.windows = s.windows /\ t.tree = s.tree /\ t.nextSplitID = s.nextSplitID
         /\ t.panes = s.panes /\ t.nextPaneID = s.nextPaneID
         /\ t.paneWindow = s.paneWindow /\ t.stashed = s.stashed /\ t.toolOf = s.toolOf
         /\ t.labels = s.labels /\ t.attentions = s.attentions
  BY DEF ApplyEvent, UpsertTool, IsSnapshot, Fields

\* An attention that was raised or acknowledged
LEMMA AttentionChangedFields ==
  ASSUME NEW s, IsSnapshot(s), NEW e, e.kind = "attention_changed"
  PROVE  LET t == ApplyEvent(s, e) IN
         /\ IsSnapshot(t)
         /\ t.attentions = {b \in {c \in s.attentions : c.id # e.attention.id} \cup {e.attention} :
                              \A g \in e.removed : b.id # g.id}
         /\ t.windows = s.windows /\ t.tree = s.tree /\ t.nextSplitID = s.nextSplitID
         /\ t.panes = s.panes /\ t.nextPaneID = s.nextPaneID
         /\ t.paneWindow = s.paneWindow /\ t.stashed = s.stashed /\ t.toolOf = s.toolOf
         /\ t.tools = s.tools /\ t.labels = s.labels
<1> DEFINE o == RemoveAttentions(s, {e.attention})
           a == [o EXCEPT !.attentions = @ \cup {e.attention}]
           r == RemoveAttentions(a, e.removed)
<1>0. ApplyEvent(s, e) = r
  BY DEF ApplyEvent, UpsertAttention
<1> HIDE DEF o, a, r
<1>1. /\ IsSnapshot(o)
      /\ o.attentions = {b \in s.attentions : b.id # e.attention.id}
      /\ o.windows = s.windows /\ o.tree = s.tree /\ o.nextSplitID = s.nextSplitID
      /\ o.panes = s.panes /\ o.nextPaneID = s.nextPaneID
      /\ o.paneWindow = s.paneWindow /\ o.stashed = s.stashed /\ o.toolOf = s.toolOf
      /\ o.tools = s.tools /\ o.labels = s.labels
  BY DEF o, RemoveAttentions, IsSnapshot, Fields
<1>2. /\ IsSnapshot(a)
      /\ a.attentions = o.attentions \cup {e.attention}
      /\ a.windows = o.windows /\ a.tree = o.tree /\ a.nextSplitID = o.nextSplitID
      /\ a.panes = o.panes /\ a.nextPaneID = o.nextPaneID
      /\ a.paneWindow = o.paneWindow /\ a.stashed = o.stashed /\ a.toolOf = o.toolOf
      /\ a.tools = o.tools /\ a.labels = o.labels
  BY <1>1 DEF a, IsSnapshot, Fields
<1>3. /\ IsSnapshot(r)
      /\ r.attentions = {b \in a.attentions : \A g \in e.removed : b.id # g.id}
      /\ r.windows = a.windows /\ r.tree = a.tree /\ r.nextSplitID = a.nextSplitID
      /\ r.panes = a.panes /\ r.nextPaneID = a.nextPaneID
      /\ r.paneWindow = a.paneWindow /\ r.stashed = a.stashed /\ r.toolOf = a.toolOf
      /\ r.tools = a.tools /\ r.labels = a.labels
  BY <1>2 DEF r, RemoveAttentions, IsSnapshot, Fields
<1> QED BY <1>0, <1>1, <1>2, <1>3

\* The attentions of a source that were removed
LEMMA AttentionSourceClearedFields ==
  ASSUME NEW s, IsSnapshot(s), NEW e, e.kind = "attention_source_cleared"
  PROVE  LET t == ApplyEvent(s, e) IN
         /\ IsSnapshot(t)
         /\ t.attentions = {b \in s.attentions : \A g \in e.removed : b.id # g.id}
         /\ t.windows = s.windows /\ t.tree = s.tree /\ t.nextSplitID = s.nextSplitID
         /\ t.panes = s.panes /\ t.nextPaneID = s.nextPaneID
         /\ t.paneWindow = s.paneWindow /\ t.stashed = s.stashed /\ t.toolOf = s.toolOf
         /\ t.tools = s.tools /\ t.labels = s.labels
  BY DEF ApplyEvent, RemoveAttentions, IsSnapshot, Fields

(***************************************************************************)
(* The inductive invariant: types, every pane at one place, split          *)
(* identifiers allocated and used once, references to what exists, a copy  *)
(* that agrees with the state, drafts that were true when they were read.  *)
(***************************************************************************)
StashHints == {NotStashed} \cup {Stashed(h, w) : h \in Hints \cup {NoHint}, w \in Windows}
Draft == [descriptor : Instances \cup {None}, read : Tool, gone : BOOLEAN]

LayoutType ==
  /\ windows \in SUBSET Windows
  /\ tree \in [Windows -> Layouts]
  /\ nextSplitID \in 1 .. SplitLimit
  /\ panes \in SUBSET PaneID /\ nextPaneID \in 1 .. PaneLimit
  /\ paneWindow \in [PaneID -> Windows \cup {0}]
  /\ stashed \in [PaneID -> StashHints]

PlaceInv ==
  /\ 1 \in windows
  /\ \A w \in Windows \ windows : tree[w] = Nil
  /\ \A w \in Windows : \A p \in Shown(tree[w]) :
       p \in panes /\ paneWindow[p] = w /\ ~ IsStashed(p)
  /\ \A p \in panes :
       /\ p < nextPaneID /\ paneWindow[p] \in Windows
       /\ ~ IsStashed(p) => p \in Shown(tree[paneWindow[p]])
  /\ \A p \in PaneID \ panes : paneWindow[p] = 0 /\ stashed[p] = NotStashed

SplitInv ==
  /\ \A v, w \in Windows : v # w => SplitIDs(tree[v]) \cap SplitIDs(tree[w]) = {}
  /\ \A w \in Windows : \A id \in SplitIDs(tree[w]) : id < nextSplitID
  /\ \A p \in PaneID : stashed[p].split < nextSplitID /\ stashed[p].target # p

LayoutInv == LayoutType /\ PlaceInv /\ SplitInv

LabelInv ==
  /\ labels \in SUBSET Label
  /\ \A l \in labels : l.target.id \in (IF l.target.kind = "window" THEN windows ELSE panes)
  /\ \A l, m \in labels : SameKey(l, m) => l = m

\* The attentions atts below the identifier next, and the index of them
Indexed(atts, keys, next) ==
  /\ atts \in SUBSET Attention /\ keys \in [Sources \X PaneID -> Nat]
  /\ \A a \in atts : a.id < next
  /\ \A a, b \in atts : a.id = b.id \/ KeyOf(a) = KeyOf(b) => a = b
  /\ \A a \in atts : keys[KeyOf(a)] = a.id
  /\ \A k \in Sources \X PaneID : keys[k] # 0 => \E a \in atts : KeyOf(a) = k

AttentionInv ==
  /\ Indexed(attentions, attentionKeys, nextAttentionID) /\ nextAttentionID \in Nat \ {0}
  /\ \A a \in attentions : a.pane \in panes
  /\ IsFiniteSet(attentions) /\ Cardinality(attentions) <= AttentionLimit

ToolInv ==
  /\ toolOf \in [PaneID -> Instances \cup {None}] /\ tools \in [Instances -> Tool]
  /\ \A p \in PaneID \ panes : toolOf[p] = None
  /\ \A d \in Instances : tools[d] # NoTool <=> \E p \in panes : toolOf[p] = d

\* Of tools a copy may lag behind in the generation.
CopyInv ==
  /\ IsSnapshot(copy)
  /\ copy.windows = windows /\ copy.tree = tree /\ copy.nextSplitID = nextSplitID
  /\ copy.panes = panes /\ copy.nextPaneID = nextPaneID /\ copy.paneWindow = paneWindow
  /\ copy.stashed = stashed /\ copy.toolOf = toolOf /\ copy.labels = labels
  /\ copy.attentions = attentions
CopyLag ==
  /\ copy.tools \in [Instances -> Tool]
  /\ \A d \in Instances :
       copy.tools[d].state = tools[d].state /\ copy.tools[d].generation <= tools[d].generation

\* What a client has read of an instance that is still there is no newer than
\* the instance, and the same state when it has the same generation.
DraftInv ==
  /\ drafts \in [Clients -> Draft]
  /\ \A c \in Clients :
       LET d == drafts[c].descriptor IN
       d # None /\ ~ drafts[c].gone =>
         /\ tools[d] # NoTool
         /\ drafts[c].read.generation <= tools[d].generation
         /\ drafts[c].read.generation = tools[d].generation => drafts[c].read.state = tools[d].state

ObjectsInv ==
  LayoutInv /\ LabelInv /\ AttentionInv /\ ToolInv /\ CopyInv /\ CopyLag /\ DraftInv

(***************************************************************************)
(* The layout part of the invariant                                        *)
(***************************************************************************)

\* No pane has the identifier zero.
LEMMA NoPaneZero == 0 \notin PaneID
  BY ObjectsAssumption DEF PaneID

\* The layout m is n with the pane p in it, and its split, if it needed one,
\* is new or of no layout.
Inserted(n, p, m) ==
  /\ m \in Layouts /\ Shown(m) = Shown(n) \cup {p}
  /\ nextSplitID' \in 1 .. SplitLimit
  /\ \A id \in SplitIDs(m) :
       /\ id < nextSplitID'
       /\ id \in SplitIDs(n) \/ \A v \in Windows : id \notin SplitIDs(tree[v])
  /\ nextSplitID' = nextSplitID \/ (nextSplitID' = nextSplitID + 1 /\ nextSplitID \in SplitIDs(m))

\* An insertion that allocates its split
LEMMA AllocatedInsertion ==
  ASSUME LayoutInv, NEW n \in Layouts, \A id \in SplitIDs(n) : id < nextSplitID,
         NEW p \in PaneID \ Shown(n), NEW a \in Placings, a.target \in Shown(n),
         AllocateSplit(n, a.target, a.direction)
  PROVE  Inserted(n, p, Insert(n, p, a, nextSplitID))
<1> DEFINE m == Insert(n, p, a, nextSplitID)
           need == RequiresSplit(n, a.target, a.direction)
<1>1. nextSplitID \in 1 .. SplitLimit /\ SplitLimit \in Nat
  BY ObjectsAssumption DEF LayoutInv, LayoutType
<1>2. nextSplitID \in (1 .. SplitLimit) \ SplitIDs(n)
  BY <1>1
<1>3. need => nextSplitID < SplitLimit /\ nextSplitID \in SplitID /\ nextSplitID' = nextSplitID + 1
  BY <1>1 DEF AllocateSplit, SplitID
<1>4. ~ need => nextSplitID' = nextSplitID
  BY DEF AllocateSplit
<1>5. /\ m \in Layouts /\ Shown(m) = Shown(n) \cup {p}
      /\ SplitIDs(m) = SplitIDs(n) \cup (IF need THEN {nextSplitID} ELSE {})
  BY <1>2, <1>3, InsertFacts
<1>6. \A v \in Windows : nextSplitID \notin SplitIDs(tree[v])
  BY <1>1 DEF LayoutInv, SplitInv
<1>7. \A id \in SplitIDs(n) : id \in Int
  BY LayoutFacts DEF SplitID
<1> HIDE DEF m, need
<1>8. CASE need
  BY <1>8, <1>1, <1>3, <1>5, <1>6, <1>7 DEF Inserted, m
<1>9. CASE ~ need
  BY <1>9, <1>1, <1>4, <1>5 DEF Inserted, m
<1> QED BY <1>8, <1>9

\* What the event of an insertion makes of the next split identifier
LEMMA InsertedBump ==
  ASSUME LayoutInv, NEW n, NEW p, NEW m, Inserted(n, p, m)
  PROVE  nextSplitID' = Max({nextSplitID} \cup {id + 1 : id \in SplitIDs(m)})
<1>1. nextSplitID \in Nat /\ nextSplitID' \in Nat
  BY ObjectsAssumption DEF LayoutInv, LayoutType, Inserted
<1>2. m \in Layouts
  BY DEF Inserted
<1>3. SplitIDs(m) \in SUBSET Nat
  BY <1>2, LayoutFacts DEF SplitID
<1>4. nextSplitID <= nextSplitID' /\ \A id \in SplitIDs(m) : id < nextSplitID'
  BY <1>1 DEF Inserted
<1>5. nextSplitID = nextSplitID' \/ \E id \in SplitIDs(m) : id + 1 = nextSplitID'
  BY DEF Inserted
<1> QED BY <1>1, <1>3, <1>4, <1>5, MaxIs

\* The next split identifier only grows.
LEMMA InsertedType ==
  ASSUME LayoutInv, NEW n, NEW p, NEW m, Inserted(n, p, m)
  PROVE  /\ nextSplitID \in 1 .. SplitLimit /\ nextSplitID' \in 1 .. SplitLimit
         /\ nextSplitID <= nextSplitID' /\ m \in Layouts
  BY DEF LayoutInv, LayoutType, Inserted

\* Layouts that gain only splits of no other layout still share none.
LEMMA SplitsStayApart ==
  ASSUME LayoutInv, NEW w \in Windows, NEW new,
         nextSplitID' \in 1 .. SplitLimit, nextSplitID <= nextSplitID',
         \A v \in Windows : \A id \in SplitIDs(tree'[v]) : id \in SplitIDs(tree[v]) \/ (v = w /\ id \in new),
         \A id \in new : id < nextSplitID' /\ \A v \in Windows : id \notin SplitIDs(tree[v]),
         \A p \in PaneID : stashed'[p].split < nextSplitID' /\ stashed'[p].target # p
  PROVE  SplitInv'
<1>1. ASSUME NEW u \in Windows, NEW v \in Windows, u # v
      PROVE  SplitIDs(tree'[u]) \cap SplitIDs(tree'[v]) = {}
  BY <1>1 DEF LayoutInv, SplitInv
<1>2. ASSUME NEW v \in Windows, NEW id \in SplitIDs(tree'[v])
      PROVE  id < nextSplitID'
  <2>1. CASE id \in new
    BY <2>1
  <2>2. CASE id \in SplitIDs(tree[v])
    <3>1. id < nextSplitID
      BY <2>2 DEF LayoutInv, SplitInv
    <3>2. tree[v] \in Layouts
      BY DEF LayoutInv, LayoutType
    <3>3. id \in Int /\ nextSplitID \in Int
      BY <2>2, <3>2, LayoutFacts DEF LayoutInv, LayoutType, SplitID
    <3> QED BY <3>1, <3>3
  <2> QED BY <2>1, <2>2
<1> QED BY <1>1, <1>2 DEF SplitInv

\* The split of a hint is an identifier or zero.
LEMMA SplitsOfHints ==
  ASSUME LayoutInv, NEW p \in PaneID
  PROVE  stashed[p].split \in Int
<1>1. PICK h \in Hints \cup {NoHint}, w \in Windows \cup {0} : stashed[p] = Stashed(h, w)
  <2>1. stashed[p] \in StashHints
    BY DEF LayoutInv, LayoutType
  <2> QED BY <2>1 DEF StashHints, NotStashed
<1>2. stashed[p].split = h.split
  BY <1>1 DEF Stashed
<1>3. CASE h = NoHint
  <2>1. NoHint.split = 0
    BY DEF NoHint
  <2> QED BY <1>2, <1>3, <2>1
<1>4. CASE h \in Hints
  <2>1. h.split \in SplitID
    BY <1>4 DEF Hints
  <2> QED BY <1>2, <2>1, ObjectsAssumption DEF SplitID
<1> QED BY <1>1, <1>3, <1>4

\* The stashed panes keep their hints.
LEMMA HintsKept ==
  ASSUME LayoutInv, UNCHANGED stashed, nextSplitID' \in 1 .. SplitLimit, nextSplitID <= nextSplitID'
  PROVE  \A p \in PaneID : stashed'[p].split < nextSplitID' /\ stashed'[p].target # p
<1>1. \A p \in PaneID : stashed[p].split \in Int
  BY SplitsOfHints
<1>2. nextSplitID \in Int
  BY DEF LayoutInv, LayoutType
<1> QED BY <1>1, <1>2 DEF LayoutInv, SplitInv

\* A hint is about the pane that left it: what HintsKept says of stashed
\* panes, typed.
LEMMA StashedType ==
  ASSUME LayoutInv, NEW p \in PaneID
  PROVE  /\ stashed[p] \in StashHints
         /\ IsStashed(p) => stashed[p].window \in Windows
         /\ ~ IsStashed(p) => stashed[p] = NotStashed
<1>1. stashed[p] \in StashHints
  BY DEF LayoutInv, LayoutType
<1>2. stashed[p] = NotStashed \/ stashed[p].window \in Windows
  BY <1>1 DEF StashHints, Stashed
<1>3. NotStashed.window = 0 /\ 0 \notin Windows
  BY DEF NotStashed, Stashed, Windows
<1> QED BY <1>1, <1>2, <1>3 DEF IsStashed

\* A new pane in the layout of a window
LEMMA NewPaneLaidOut ==
  ASSUME LayoutInv, NEW w \in windows, NEW p, NEW d, NEW tool, NEW m,
         AddPane(p, w, d, tool), Inserted(tree[w], p, m), tree' = [tree EXCEPT ![w] = m]
  PROVE  LayoutInv'
<1>1. /\ p = nextPaneID /\ nextPaneID' = nextPaneID + 1 /\ nextPaneID < PaneLimit
      /\ panes' = panes \cup {p} /\ paneWindow' = [paneWindow EXCEPT ![p] = w]
      /\ windows' = windows /\ stashed' = stashed
  BY DEF AddPane
<1>2. /\ m \in Layouts /\ Shown(m) = Shown(tree[w]) \cup {p} /\ nextSplitID' \in 1 .. SplitLimit
      /\ nextSplitID <= nextSplitID'
  BY DEF Inserted, LayoutInv, LayoutType
<1>3. PaneLimit \in Nat /\ nextPaneID \in 1 .. PaneLimit /\ w \in Windows
  BY ObjectsAssumption DEF LayoutInv, LayoutType
<1>4. p \in PaneID /\ nextPaneID' \in 1 .. PaneLimit /\ w # 0
  BY <1>1, <1>3 DEF PaneID, Windows
<1>5. p \notin panes /\ ~ IsStashed(p) /\ \A q \in panes : q < nextPaneID /\ q \in PaneID
  <2>1. \A q \in panes : q < nextPaneID /\ q \in PaneID
    BY DEF LayoutInv, PlaceInv, LayoutType
  <2>2. p \notin panes
    BY <1>1, <1>3, <2>1
  <2>3. stashed[p] = NotStashed
    BY <1>4, <2>2 DEF LayoutInv, PlaceInv
  <2> QED BY <2>1, <2>2, <2>3 DEF IsStashed, NotStashed, Stashed
<1>6. LayoutType'
  BY <1>1, <1>2, <1>3, <1>4 DEF LayoutInv, LayoutType
<1>7. \A v \in Windows : Shown(tree'[v]) = Shown(tree[v]) \cup (IF v = w THEN {p} ELSE {})
  BY <1>2 DEF LayoutInv, LayoutType
<1>8. PlaceInv'
  <2>1. 1 \in windows' /\ \A v \in Windows \ windows' : tree'[v] = Nil
    BY <1>1 DEF LayoutInv, LayoutType, PlaceInv
  <2>2. ASSUME NEW v \in Windows, NEW q \in Shown(tree'[v])
        PROVE  q \in panes' /\ paneWindow'[q] = v /\ ~ IsStashed(q)'
    <3>1. CASE q = p
      <4>1. v = w
        BY <3>1, <1>5, <1>7, <2>2 DEF LayoutInv, PlaceInv
      <4> QED BY <4>1, <3>1, <1>1, <1>4, <1>5 DEF LayoutInv, LayoutType, IsStashed
    <3>2. CASE q # p
      <4>1. q \in Shown(tree[v])
        BY <3>2, <1>7, <2>2
      <4>2. q \in panes /\ paneWindow[q] = v /\ ~ IsStashed(q) /\ q \in PaneID
        BY <4>1 DEF LayoutInv, PlaceInv, LayoutType
      <4> QED BY <4>2, <3>2, <1>1 DEF LayoutInv, LayoutType, IsStashed
    <3> QED BY <3>1, <3>2
  <2>3. ASSUME NEW q \in panes'
        PROVE  /\ q < nextPaneID' /\ paneWindow'[q] \in Windows
               /\ ~ IsStashed(q)' => q \in Shown(tree'[paneWindow'[q]])
    <3>1. CASE q = p
      BY <3>1, <1>1, <1>3, <1>4, <1>7 DEF LayoutInv, LayoutType
    <3>2. CASE q # p
      <4>1. q \in panes /\ q < nextPaneID /\ q \in PaneID /\ q \in Int
        BY <3>2, <1>1, <1>5 DEF PaneID
      <4>2. paneWindow'[q] = paneWindow[q] /\ paneWindow[q] \in Windows
        BY <4>1, <3>2, <1>1 DEF LayoutInv, LayoutType, PlaceInv
      <4>3. ~ IsStashed(q)' => q \in Shown(tree[paneWindow[q]])
        BY <4>1, <1>1 DEF LayoutInv, PlaceInv, IsStashed
      <4>4. q < nextPaneID'
        BY <4>1, <1>1, <1>3
      <4> QED BY <4>2, <4>3, <4>4, <1>7
    <3> QED BY <3>1, <3>2
  <2>4. ASSUME NEW q \in PaneID \ panes'
        PROVE  paneWindow'[q] = 0 /\ stashed'[q] = NotStashed
    <3>1. q \notin panes /\ q # p
      BY <2>4, <1>1
    <3> QED BY <3>1, <1>1 DEF LayoutInv, LayoutType, PlaceInv
  <2> QED BY <2>1, <2>2, <2>3, <2>4 DEF PlaceInv, IsStashed
<1>9. SplitInv'
  <2> DEFINE new == SplitIDs(m) \ SplitIDs(tree[w])
  <2>1. \A v \in Windows : \A id \in SplitIDs(tree'[v]) : id \in SplitIDs(tree[v]) \/ (v = w /\ id \in new)
    BY <1>3 DEF LayoutInv, LayoutType
  <2>2. \A id \in new : id < nextSplitID' /\ \A v \in Windows : id \notin SplitIDs(tree[v])
    BY DEF Inserted
  <2>3. \A q \in PaneID : stashed'[q].split < nextSplitID' /\ stashed'[q].target # q
    BY <1>1, <1>2, HintsKept
  <2> HIDE DEF new
  <2> QED BY <2>1, <2>2, <2>3, <1>2, <1>3, SplitsStayApart
<1> QED BY <1>6, <1>8, <1>9 DEF LayoutInv

\* The first pane of a window
LEMMA CreatePaneInserts ==
  ASSUME LayoutInv, NEW w \in Windows, NEW p \in PaneID, NEW d, NEW tool, CreatePane(w, p, d, tool)
  PROVE  Inserted(tree[w], p, Leaf(p)) /\ w \in windows /\ tree' = [tree EXCEPT ![w] = Leaf(p)]
<1>1. tree[w] = Nil /\ nextSplitID' = nextSplitID /\ w \in windows /\ tree' = [tree EXCEPT ![w] = Leaf(p)]
  BY DEF CreatePane
<1>2. nextSplitID' \in 1 .. SplitLimit
  BY <1>1 DEF LayoutInv, LayoutType
<1> QED BY <1>1, <1>2, SmallLayouts DEF Inserted

\* Beside a pane with equal weights
LEMMA AfterFacts ==
  ASSUME NEW t \in PaneID, NEW d \in Directions
  PROVE  After(t, d) \in Placings /\ After(t, d).target = t /\ After(t, d).direction = d
  BY ObjectsAssumption DEF After, Placing, Placings, Weight

\* A pane beside another one
LEMMA SplitPaneInserts ==
  ASSUME LayoutInv, NEW t \in PaneID, NEW direction \in Directions, NEW p \in PaneID,
         NEW d, NEW tool, SplitPane(t, direction, p, d, tool)
  PROVE  LET w == paneWindow[t]
             m == Insert(tree[w], p, After(t, direction), nextSplitID)
         IN Inserted(tree[w], p, m) /\ w \in windows /\ tree' = [tree EXCEPT ![w] = m]
<1> DEFINE w == paneWindow[t]
           a == After(t, direction)
           m == Insert(tree[w], p, a, nextSplitID)
<1>1. /\ t \in panes /\ ~ IsStashed(t) /\ AllocateSplit(tree[w], t, direction)
      /\ tree' = [tree EXCEPT ![w] = m] /\ p = nextPaneID
  BY DEF SplitPane, OnScreen, AddPane
<1>2. a \in Placings /\ a.target = t /\ a.direction = direction
  BY AfterFacts
<1>3. w \in Windows /\ t \in Shown(tree[w])
  BY <1>1 DEF LayoutInv, PlaceInv
<1>4. w \in windows
  BY <1>3, SmallLayouts DEF LayoutInv, PlaceInv
<1>5. p \notin Shown(tree[w])
  <2>1. \A q \in panes : q < nextPaneID
    BY DEF LayoutInv, PlaceInv
  <2>2. nextPaneID \in Int
    BY DEF LayoutInv, LayoutType
  <2>3. p \notin panes
    BY <1>1, <2>1, <2>2
  <2> QED BY <2>3, <1>3 DEF LayoutInv, PlaceInv
<1>6. tree[w] \in Layouts /\ \A id \in SplitIDs(tree[w]) : id < nextSplitID
  BY <1>3 DEF LayoutInv, LayoutType, SplitInv
<1> HIDE DEF w, a
<1>7. Inserted(tree[w], p, m)
  BY <1>1, <1>2, <1>3, <1>5, <1>6, AllocatedInsertion
<1> QED BY <1>1, <1>4, <1>7 DEF w, a

\* A layout whose leaves are the same, or lose the pane that is closed or
\* stashed, and whose splits are among the old ones: nothing else appears.
LEMMA LayoutShrinks ==
  ASSUME LayoutInv, tree' \in [Windows -> Layouts], UNCHANGED nextSplitID,
         \A v \in Windows : SplitIDs(tree'[v]) \subseteq SplitIDs(tree[v]),
         \A p \in PaneID : stashed'[p].split < nextSplitID /\ stashed'[p].target # p
  PROVE  SplitInv'
<1>1. nextSplitID' \in 1 .. SplitLimit /\ nextSplitID <= nextSplitID' /\ 1 \in Windows
  BY DEF LayoutInv, LayoutType, Windows
<1> DEFINE none == {}
<1>2. \A id \in none : id < nextSplitID' /\ \A v \in Windows : id \notin SplitIDs(tree[v])
  OBVIOUS
<1> HIDE DEF none
<1>3. \A v \in Windows : \A id \in SplitIDs(tree'[v]) : id \in SplitIDs(tree[v]) \/ (v = 1 /\ id \in none)
  OBVIOUS
<1>4. \A p \in PaneID : stashed'[p].split < nextSplitID' /\ stashed'[p].target # p
  OBVIOUS
<1> QED BY <1>1, <1>2, <1>3, <1>4, SplitsStayApart

\* New weights of a split
LEMMA ResizeSplitLayout ==
  ASSUME LayoutInv, NEW id \in SplitID, NEW ws \in ResizeTo, ResizeSplit(id, ws)
  PROVE  LayoutInv'
<1>1. PICK w \in windows :
        /\ CanResize(tree[w], id, ws)
        /\ tree' = [tree EXCEPT ![w] = WithWeights(@, id, ws)]
        /\ UNCHANGED <<windows, nextSplitID, panes, nextPaneID, paneWindow, stashed>>
  BY DEF ResizeSplit
<1> DEFINE m == WithWeights(tree[w], id, ws)
<1>2. w \in Windows /\ tree[w] \in Layouts /\ tree \in [Windows -> Layouts]
  BY DEF LayoutInv, LayoutType
<1>3. m \in Layouts /\ Leaves(m) = Leaves(tree[w]) /\ SplitIDs(m) = SplitIDs(tree[w])
  BY <1>1, <1>2, LayoutLaws
<1>4. tree' = [tree EXCEPT ![w] = m]
  BY <1>1, <1>2
<1> HIDE DEF m
<1>5. tree' \in [Windows -> Layouts]
  BY <1>2, <1>3, <1>4
<1>6. \A v \in Windows : Shown(tree'[v]) = Shown(tree[v]) /\ SplitIDs(tree'[v]) = SplitIDs(tree[v])
  BY <1>2, <1>3, <1>4 DEF Shown
<1>7. LayoutType'
  BY <1>1, <1>5 DEF LayoutInv, LayoutType
<1>8. PlaceInv'
  <2>1. \A v \in Windows \ windows : tree'[v] = Nil
    BY <1>1, <1>2, <1>4 DEF LayoutInv, PlaceInv
  <2> QED BY <1>1, <1>6, <2>1 DEF LayoutInv, LayoutType, PlaceInv, IsStashed
<1>9. SplitInv'
  BY <1>1, <1>5, <1>6, LayoutShrinks DEF LayoutInv, SplitInv
<1> QED BY <1>7, <1>8, <1>9 DEF LayoutInv

\* A window that is empty leaves nothing behind.
LEMMA DeleteWindowLayout ==
  ASSUME LayoutInv, NEW w \in Windows, DeleteWindow(w)
  PROVE  LayoutInv'
<1>1. /\ w \in windows /\ w # 1 /\ tree[w] = Nil /\ windows' = windows \ {w}
      /\ UNCHANGED <<tree, nextSplitID, panes, nextPaneID, paneWindow, stashed>>
  BY DEF DeleteWindow
<1>2. LayoutType'
  BY <1>1 DEF LayoutInv, LayoutType
<1>3. PlaceInv'
  BY <1>1 DEF LayoutInv, LayoutType, PlaceInv, IsStashed
<1>4. SplitInv'
  BY <1>1 DEF LayoutInv, SplitInv
<1> QED BY <1>2, <1>3, <1>4 DEF LayoutInv

\* A pane that is not in the layouts, or out of them, is in none.
LEMMA PaneOut ==
  ASSUME LayoutInv, NEW p \in panes
  PROVE  /\ paneWindow[p] \in Windows /\ p \in PaneID
         /\ OnScreen(p) => paneWindow[p] \in windows /\ p \in Shown(tree[paneWindow[p]])
         /\ \A v \in Windows : p \in Shown(tree[v]) => v = paneWindow[p] /\ ~ IsStashed(p)
<1>1. paneWindow[p] \in Windows /\ p \in PaneID
  BY DEF LayoutInv, LayoutType, PlaceInv
<1>2. OnScreen(p) => p \in Shown(tree[paneWindow[p]])
  BY DEF LayoutInv, PlaceInv, OnScreen
<1>3. paneWindow[p] \notin windows => Shown(tree[paneWindow[p]]) = {}
  BY <1>1, SmallLayouts DEF LayoutInv, PlaceInv
<1> QED BY <1>1, <1>2, <1>3 DEF LayoutInv, PlaceInv

\* Out of the layout, with the hint to come back
LEMMA StashPaneLayout ==
  ASSUME LayoutInv, NEW p \in PaneID, StashPane(p)
  PROVE  LayoutInv'
<1> DEFINE w == paneWindow[p]
           n == tree[w]
           m == RemoveLeaf(n, p)
           h == HintFor(n, p)
<1>1. /\ p \in panes /\ OnScreen(p)
      /\ stashed' = [stashed EXCEPT ![p] = Stashed(h, w)]
      /\ tree' = [tree EXCEPT ![w] = m]
      /\ UNCHANGED <<windows, nextSplitID, panes, nextPaneID, paneWindow>>
  BY DEF StashPane, OnScreen
<1>2. w \in Windows /\ w \in windows /\ p \in Shown(n) /\ n \in Layouts
  BY <1>1, PaneOut DEF LayoutInv, LayoutType
<1>3. /\ m \in Layouts /\ Shown(m) = Shown(n) \ {p} /\ SplitIDs(m) \subseteq SplitIDs(n)
      /\ h # NoHint => h \in Hints /\ h.split \in SplitIDs(n) /\ h.target # p
  BY <1>2, RemoveFacts
<1>4. \A id \in SplitIDs(n) : id < nextSplitID
  BY <1>2 DEF LayoutInv, SplitInv
<1>5. tree \in [Windows -> Layouts] /\ stashed \in [PaneID -> StashHints]
      /\ nextSplitID \in 1 .. SplitLimit
  BY DEF LayoutInv, LayoutType
<1> HIDE DEF m, h
<1>6. Stashed(h, w) \in StashHints
  BY <1>2, <1>3 DEF StashHints
<1>7. LayoutType'
  <2>1. tree' \in [Windows -> Layouts]
    BY <1>1, <1>2, <1>3, <1>5
  <2>2. stashed' \in [PaneID -> StashHints]
    BY <1>1, <1>5, <1>6
  <2> QED BY <2>1, <2>2, <1>1 DEF LayoutInv, LayoutType
<1>8. \A v \in Windows : Shown(tree'[v]) = (IF v = w THEN Shown(n) \ {p} ELSE Shown(tree[v]))
  BY <1>1, <1>2, <1>3, <1>5
<1>9. /\ \A q \in PaneID : q # p => stashed'[q] = stashed[q] /\ (IsStashed(q)' <=> IsStashed(q))
      /\ IsStashed(p)'
  <2>1. \A q \in PaneID : q # p => stashed'[q] = stashed[q]
    BY <1>1, <1>5
  <2>2. stashed'[p].window = w /\ w # 0
    BY <1>1, <1>2, <1>5 DEF Stashed, Windows
  <2> QED BY <2>1, <2>2 DEF IsStashed
<1> HIDE DEF n
<1>10. PlaceInv'
  <2>1. 1 \in windows' /\ \A v \in Windows \ windows' : tree'[v] = Nil
    BY <1>1, <1>2, <1>5 DEF LayoutInv, PlaceInv
  <2>2. ASSUME NEW v \in Windows, NEW q \in Shown(tree'[v])
        PROVE  q \in panes' /\ paneWindow'[q] = v /\ ~ IsStashed(q)'
    <3>1. q \in Shown(tree[v]) /\ (v = w => q # p)
      BY <1>8, <2>2 DEF n
    <3>2. q \in panes /\ paneWindow[q] = v /\ ~ IsStashed(q)
      BY <3>1 DEF LayoutInv, PlaceInv
    <3>3. q # p /\ q \in PaneID
      BY <3>1, <3>2 DEF LayoutInv, LayoutType
    <3> QED BY <3>2, <3>3, <1>1, <1>9
  <2>3. ASSUME NEW q \in panes'
        PROVE  /\ q < nextPaneID' /\ paneWindow'[q] \in Windows
               /\ ~ IsStashed(q)' => q \in Shown(tree'[paneWindow'[q]])
    <3>1. q \in panes /\ q \in PaneID
      BY <1>1 DEF LayoutInv, LayoutType
    <3>2. q < nextPaneID /\ paneWindow[q] \in Windows /\ (~ IsStashed(q) => q \in Shown(tree[paneWindow[q]]))
      BY <3>1 DEF LayoutInv, PlaceInv
    <3>3. ~ IsStashed(q)' => q # p /\ ~ IsStashed(q)
      BY <3>1, <1>9
    <3>4. ~ IsStashed(q)' => q \in Shown(tree'[paneWindow[q]])
      BY <3>2, <3>3, <1>8 DEF n
    <3> QED BY <3>2, <3>4, <1>1
  <2>4. ASSUME NEW q \in PaneID \ panes' PROVE paneWindow'[q] = 0 /\ stashed'[q] = NotStashed
    BY <1>1, <1>9 DEF LayoutInv, PlaceInv
  <2> QED BY <2>1, <2>2, <2>3, <2>4 DEF PlaceInv, IsStashed
<1>11. SplitInv'
  <2>1. tree' \in [Windows -> Layouts] /\ UNCHANGED nextSplitID
    BY <1>1, <1>2, <1>3, <1>5
  <2>2. \A v \in Windows : SplitIDs(tree'[v]) \subseteq SplitIDs(tree[v])
    BY <1>1, <1>2, <1>3, <1>5 DEF n
  <2>3. Stashed(h, w).split < nextSplitID /\ Stashed(h, w).target # p
    <3>1. CASE h = NoHint
      <4>1. Stashed(NoHint, w).split = 0 /\ Stashed(NoHint, w).target = 0
        BY DEF NoHint, Stashed
      <4>2. 0 < nextSplitID /\ p # 0
        BY <1>5 DEF PaneID
      <4> QED BY <3>1, <4>1, <4>2
    <3>2. CASE h # NoHint
      BY <3>2, <1>3, <1>4 DEF Stashed
    <3> QED BY <3>1, <3>2
  <2>4. \A q \in PaneID : stashed'[q].split < nextSplitID /\ stashed'[q].target # q
    BY <2>3, <1>1, <1>5, <1>9 DEF LayoutInv, SplitInv
  <2> QED BY <2>1, <2>2, <2>4, LayoutShrinks
<1> QED BY <1>7, <1>10, <1>11 DEF LayoutInv

\* Closing a pane takes it out of the layout or out of the stash.
LEMMA ClosePaneLayout ==
  ASSUME LayoutInv, NEW p \in PaneID, ClosePane(p)
  PROVE  LayoutInv'
<1> DEFINE w == paneWindow[p]
           n == tree[w]
           m == RemoveLeaf(n, p)
<1>1. /\ p \in panes /\ panes' = panes \ {p}
      /\ tree' = (IF IsStashed(p) THEN tree ELSE [tree EXCEPT ![w] = m])
      /\ paneWindow' = [paneWindow EXCEPT ![p] = 0]
      /\ stashed' = [stashed EXCEPT ![p] = NotStashed]
      /\ UNCHANGED <<windows, nextSplitID, nextPaneID>>
  BY DEF ClosePane
<1>2. /\ w \in Windows /\ n \in Layouts
      /\ ~ IsStashed(p) => w \in windows /\ p \in Shown(n)
      /\ \A v \in Windows : p \in Shown(tree[v]) => v = w /\ ~ IsStashed(p)
  BY <1>1, PaneOut DEF OnScreen, LayoutInv, LayoutType
<1>3. ~ IsStashed(p) => /\ m \in Layouts /\ Shown(m) = Shown(n) \ {p}
                        /\ SplitIDs(m) \subseteq SplitIDs(n)
  BY <1>2, RemoveFacts
<1>4. /\ tree \in [Windows -> Layouts] /\ stashed \in [PaneID -> StashHints]
      /\ paneWindow \in [PaneID -> Windows \cup {0}] /\ nextSplitID \in 1 .. SplitLimit
  BY DEF LayoutInv, LayoutType
<1> HIDE DEF m
<1>5. /\ tree' \in [Windows -> Layouts]
      /\ \A v \in Windows : /\ Shown(tree'[v]) = Shown(tree[v]) \ {p}
                            /\ SplitIDs(tree'[v]) \subseteq SplitIDs(tree[v])
                            /\ v # w \/ IsStashed(p) => tree'[v] = tree[v]
  <2>1. CASE IsStashed(p)
    <3>1. tree' = tree
      BY <2>1, <1>1
    <3> QED BY <3>1, <2>1, <1>2, <1>4
  <2>2. CASE ~ IsStashed(p)
    <3>1. tree' = [tree EXCEPT ![w] = m]
      BY <2>2, <1>1
    <3>2. tree' \in [Windows -> Layouts] /\ tree'[w] = m /\ \A v \in Windows : v # w => tree'[v] = tree[v]
      BY <3>1, <2>2, <1>2, <1>3, <1>4
    <3> QED BY <3>2, <2>2, <1>2, <1>3
  <2> QED BY <2>1, <2>2
<1> HIDE DEF n, w
<1>6. LayoutType'
  <2>1. NotStashed \in StashHints
    BY DEF StashHints
  <2>2. stashed' \in [PaneID -> StashHints] /\ paneWindow' \in [PaneID -> Windows \cup {0}]
    BY <2>1, <1>1, <1>4
  <2> QED BY <2>2, <1>1, <1>5 DEF LayoutInv, LayoutType
<1>7. \A q \in PaneID : q # p => /\ stashed'[q] = stashed[q] /\ paneWindow'[q] = paneWindow[q]
                                 /\ (IsStashed(q)' <=> IsStashed(q))
  <2>1. \A q \in PaneID : q # p => stashed'[q] = stashed[q] /\ paneWindow'[q] = paneWindow[q]
    BY <1>1, <1>4
  <2> QED BY <2>1 DEF IsStashed
<1>8. stashed'[p] = NotStashed /\ paneWindow'[p] = 0
  BY <1>1, <1>4
<1>9. PlaceInv'
  <2>1. 1 \in windows' /\ \A v \in Windows \ windows' : tree'[v] = Nil
    <3>1. ASSUME NEW v \in Windows \ windows PROVE tree'[v] = Nil
      <4>1. v # w \/ IsStashed(p)
        BY <1>2 DEF w
      <4> QED BY <4>1, <1>5 DEF LayoutInv, PlaceInv
    <3> QED BY <3>1, <1>1 DEF LayoutInv, PlaceInv
  <2>2. ASSUME NEW v \in Windows, NEW q \in Shown(tree'[v])
        PROVE  q \in panes' /\ paneWindow'[q] = v /\ ~ IsStashed(q)'
    <3>1. q \in Shown(tree[v]) /\ q # p
      BY <1>5, <2>2
    <3>2. q \in panes /\ paneWindow[q] = v /\ ~ IsStashed(q) /\ q \in PaneID
      BY <3>1 DEF LayoutInv, PlaceInv, LayoutType
    <3> QED BY <3>1, <3>2, <1>1, <1>7
  <2>3. ASSUME NEW q \in panes'
        PROVE  /\ q < nextPaneID' /\ paneWindow'[q] \in Windows
               /\ ~ IsStashed(q)' => q \in Shown(tree'[paneWindow'[q]])
    <3>1. q \in panes /\ q # p /\ q \in PaneID
      BY <1>1 DEF LayoutInv, LayoutType
    <3>2. /\ q < nextPaneID /\ paneWindow[q] \in Windows
          /\ ~ IsStashed(q) => q \in Shown(tree[paneWindow[q]])
      BY <3>1 DEF LayoutInv, PlaceInv
    <3>3. paneWindow'[q] = paneWindow[q] /\ (IsStashed(q)' <=> IsStashed(q))
      BY <3>1, <1>7
    <3>4. Shown(tree'[paneWindow[q]]) = Shown(tree[paneWindow[q]]) \ {p}
      BY <3>2, <1>5
    <3> QED BY <3>1, <3>2, <3>3, <3>4, <1>1
  <2>4. ASSUME NEW q \in PaneID \ panes' PROVE paneWindow'[q] = 0 /\ stashed'[q] = NotStashed
    BY <1>1, <1>7, <1>8 DEF LayoutInv, PlaceInv
  <2> QED BY <2>1, <2>2, <2>3, <2>4 DEF PlaceInv, IsStashed
<1>10. SplitInv'
  <2>1. NotStashed.split = 0 /\ NotStashed.target = 0
    BY DEF NotStashed, Stashed, NoHint
  <2>2. 0 < nextSplitID /\ p # 0
    BY <1>4 DEF PaneID
  <2>3. \A q \in PaneID : stashed'[q].split < nextSplitID /\ stashed'[q].target # q
    BY <2>1, <2>2, <1>7, <1>8 DEF LayoutInv, SplitInv
  <2>4. UNCHANGED nextSplitID /\ \A v \in Windows : SplitIDs(tree'[v]) \subseteq SplitIDs(tree[v])
    BY <1>1, <1>5
  <2> QED BY <2>3, <2>4, <1>5, LayoutShrinks
<1> QED BY <1>6, <1>9, <1>10 DEF LayoutInv

\* Where a moved pane goes: what its window becomes
LEMMA MovePaneInserts ==
  ASSUME LayoutInv, NEW p \in PaneID, NEW w \in Windows, NEW t \in PaneID \cup {0},
         NEW direction \in Directions \cup {NoDirection}, MovePane(p, w, t, direction)
  PROVE  LET from == paneWindow[p]
             left == RemoveLeaf(tree[from], p)
             into == IF w = from THEN left ELSE tree[w]
             m == IF t = 0 THEN Leaf(p) ELSE Insert(into, p, After(t, direction), nextSplitID)
         IN /\ p \in panes /\ OnScreen(p) /\ from \in Windows /\ from \in windows /\ w \in windows
            /\ p \in Shown(tree[from]) /\ p \notin Shown(into)
            /\ left \in Layouts /\ Shown(left) = Shown(tree[from]) \ {p}
            /\ SplitIDs(left) \subseteq SplitIDs(tree[from])
            /\ Inserted(into, p, m)
            /\ tree' = [tree EXCEPT ![from] = left, ![w] = m]
<1> DEFINE from == paneWindow[p]
           left == RemoveLeaf(tree[from], p)
           into == IF w = from THEN left ELSE tree[w]
           m == IF t = 0 THEN Leaf(p) ELSE Insert(into, p, After(t, direction), nextSplitID)
<1>1. /\ OnScreen(p) /\ p \in panes /\ w \in windows
      /\ IF tree[w] = Nil THEN t = 0 /\ direction = NoDirection ELSE t \in PaneID /\ Shows(into, t)
      /\ IF t = 0 THEN direction = NoDirection /\ UNCHANGED nextSplitID
         ELSE direction # NoDirection /\ AllocateSplit(into, t, direction)
      /\ tree' = [tree EXCEPT ![from] = left, ![w] = m]
  BY DEF MovePane, OnScreen
<1>2. /\ from \in Windows /\ from \in windows /\ p \in Shown(tree[from])
      /\ \A v \in Windows : p \in Shown(tree[v]) => v = from
  BY <1>1, PaneOut
<1>3. tree[from] \in Layouts /\ tree[w] \in Layouts /\ nextSplitID \in 1 .. SplitLimit
  BY <1>2 DEF LayoutInv, LayoutType
<1>4. /\ left \in Layouts /\ Shown(left) = Shown(tree[from]) \ {p}
      /\ SplitIDs(left) \subseteq SplitIDs(tree[from])
  BY <1>2, <1>3, RemoveFacts
<1>5. /\ into \in Layouts /\ p \notin Shown(into)
      /\ \A id \in SplitIDs(into) : id < nextSplitID
  <2>1. \A id \in SplitIDs(tree[w]) \cup SplitIDs(tree[from]) : id < nextSplitID
    BY <1>2 DEF LayoutInv, SplitInv
  <2>2. CASE w = from
    BY <2>1, <2>2, <1>4
  <2>3. CASE w # from
    BY <2>1, <2>3, <1>2, <1>3
  <2> QED BY <2>2, <2>3
<1> HIDE DEF left
<1>6. Inserted(into, p, m)
  <2>1. CASE t = 0
    <3>1. tree[w] = Nil
      <4>1. tree[w] # Nil => t \in PaneID
        BY <1>1
      <4> QED BY <4>1, <2>1, NoPaneZero
    <3>2. w # from
      BY <3>1, <1>2, SmallLayouts
    <3>3. into = Nil /\ m = Leaf(p) /\ nextSplitID' = nextSplitID
      BY <3>1, <3>2, <2>1, <1>1
    <3> HIDE DEF into, m
    <3> QED BY <3>3, <1>3, SmallLayouts DEF Inserted
  <2>2. CASE t # 0
    <3> DEFINE a == After(t, direction)
    <3>1. t \in PaneID /\ direction \in Directions /\ AllocateSplit(into, t, direction)
      BY <2>2, <1>1
    <3>2. t \in Shown(into)
      BY <2>2, <1>1 DEF Shows, Shown
    <3>3. a \in Placings /\ a.target = t /\ a.direction = direction
      BY <3>1, AfterFacts
    <3>4. m = Insert(into, p, a, nextSplitID)
      BY <2>2
    <3> HIDE DEF into, m, a
    <3>5. Inserted(into, p, Insert(into, p, a, nextSplitID))
      BY <3>1, <3>2, <3>3, <1>5, AllocatedInsertion
    <3> QED BY <3>4, <3>5
  <2> QED BY <2>1, <2>2
<1> HIDE DEF from, into, m
<1> QED BY <1>1, <1>2, <1>4, <1>5, <1>6 DEF from, left, into, m

\* A pane moved within its window or to another one
LEMMA MovePaneLayout ==
  ASSUME LayoutInv, NEW p \in PaneID, NEW w \in Windows, NEW t \in PaneID \cup {0},
         NEW direction \in Directions \cup {NoDirection}, MovePane(p, w, t, direction)
  PROVE  LayoutInv'
<1> DEFINE from == paneWindow[p]
           left == RemoveLeaf(tree[from], p)
           into == IF w = from THEN left ELSE tree[w]
           m == IF t = 0 THEN Leaf(p) ELSE Insert(into, p, After(t, direction), nextSplitID)
<1>1. /\ p \in panes /\ OnScreen(p) /\ from \in Windows /\ from \in windows /\ w \in windows
      /\ p \in Shown(tree[from]) /\ p \notin Shown(into)
      /\ left \in Layouts /\ Shown(left) = Shown(tree[from]) \ {p}
      /\ SplitIDs(left) \subseteq SplitIDs(tree[from])
      /\ Inserted(into, p, m)
      /\ tree' = [tree EXCEPT ![from] = left, ![w] = m]
  BY MovePaneInserts
<1>2. /\ paneWindow' = [paneWindow EXCEPT ![p] = w]
      /\ UNCHANGED <<windows, panes, nextPaneID, stashed>>
  BY DEF MovePane
<1>3. /\ tree \in [Windows -> Layouts] /\ paneWindow \in [PaneID -> Windows \cup {0}]
      /\ nextSplitID \in 1 .. SplitLimit /\ nextSplitID' \in 1 .. SplitLimit
      /\ nextSplitID <= nextSplitID'
      /\ \A v \in Windows : p \in Shown(tree[v]) => v = from
  <2>1. nextSplitID \in 1 .. SplitLimit /\ nextSplitID' \in 1 .. SplitLimit /\ nextSplitID <= nextSplitID'
    <3>1. Inserted(into, p, m)
      BY <1>1
    <3> HIDE DEF into
    <3> QED BY <3>1, InsertedType
  <2>2. tree \in [Windows -> Layouts] /\ paneWindow \in [PaneID -> Windows \cup {0}]
    BY DEF LayoutInv, LayoutType
  <2>3. \A v \in Windows : p \in Shown(tree[v]) => v = from
    BY <1>1, PaneOut
  <2> QED BY <2>1, <2>2, <2>3
<1> HIDE DEF left, m
<1>4. m \in Layouts /\ Shown(m) = Shown(into) \cup {p}
  BY <1>1 DEF Inserted
<1>5. /\ tree' \in [Windows -> Layouts]
      /\ \A v \in Windows : tree'[v] = (IF v = w THEN m ELSE IF v = from THEN left ELSE tree[v])
  BY <1>1, <1>3, <1>4
<1>6. \A v \in Windows : Shown(tree'[v]) = (Shown(tree[v]) \ {p}) \cup (IF v = w THEN {p} ELSE {})
  <2> SUFFICES ASSUME NEW v \in Windows
               PROVE  Shown(tree'[v]) = (Shown(tree[v]) \ {p}) \cup (IF v = w THEN {p} ELSE {})
    OBVIOUS
  <2>1. CASE v = w
    <3>1. Shown(into) = Shown(tree[w]) \ {p}
      BY <1>1, <1>3
    <3>2. Shown(tree'[v]) = Shown(into) \cup {p}
      BY <2>1, <1>4, <1>5
    <3> HIDE DEF into, from
    <3> QED BY <3>1, <3>2, <2>1
  <2>2. CASE v # w /\ v = from
    <3>1. tree'[v] = left
      BY <2>2, <1>5
    <3> HIDE DEF from
    <3> QED BY <3>1, <2>2, <1>1
  <2>3. CASE v # w /\ v # from
    <3>1. tree'[v] = tree[v] /\ p \notin Shown(tree[v])
      BY <2>3, <1>3, <1>5
    <3> HIDE DEF from
    <3> QED BY <3>1, <2>3
  <2> QED BY <2>1, <2>2, <2>3
<1>7. /\ paneWindow' \in [PaneID -> Windows \cup {0}] /\ paneWindow'[p] = w
      /\ \A q \in PaneID : q # p => paneWindow'[q] = paneWindow[q]
  BY <1>2, <1>3
<1>8. LayoutType'
  BY <1>2, <1>3, <1>5, <1>7 DEF LayoutInv, LayoutType
<1>9. ~ IsStashed(p)
  BY <1>1 DEF OnScreen
<1>10. PlaceInv'
  <2>1. 1 \in windows' /\ \A v \in Windows \ windows' : tree'[v] = Nil
    <3>1. ASSUME NEW v \in Windows \ windows PROVE tree'[v] = Nil
      <4>1. v # w /\ v # from
        BY <1>1
      <4>2. tree'[v] = tree[v]
        BY <4>1, <1>5
      <4> QED BY <4>2 DEF LayoutInv, PlaceInv
    <3> QED BY <3>1, <1>2 DEF LayoutInv, PlaceInv
  <2>2. ASSUME NEW v \in Windows, NEW q \in Shown(tree'[v])
        PROVE  q \in panes' /\ paneWindow'[q] = v /\ ~ IsStashed(q)'
    <3>1. (q = p /\ v = w) \/ (q # p /\ q \in Shown(tree[v]))
      BY <1>6, <2>2
    <3>2. CASE q = p /\ v = w
      BY <3>2, <1>1, <1>2, <1>7, <1>9 DEF IsStashed
    <3>3. CASE q # p /\ q \in Shown(tree[v])
      <4>1. q \in panes /\ paneWindow[q] = v /\ ~ IsStashed(q) /\ q \in PaneID
        BY <3>3 DEF LayoutInv, PlaceInv, LayoutType
      <4> QED BY <4>1, <3>3, <1>2, <1>7 DEF IsStashed
    <3> QED BY <3>1, <3>2, <3>3
  <2>3. ASSUME NEW q \in panes'
        PROVE  /\ q < nextPaneID' /\ paneWindow'[q] \in Windows
               /\ ~ IsStashed(q)' => q \in Shown(tree'[paneWindow'[q]])
    <3>1. q \in panes /\ q \in PaneID
      BY <1>2 DEF LayoutInv, LayoutType
    <3>2. /\ q < nextPaneID /\ paneWindow[q] \in Windows
          /\ ~ IsStashed(q) => q \in Shown(tree[paneWindow[q]])
      BY <3>1 DEF LayoutInv, PlaceInv
    <3>3. CASE q = p
      <4>1. p \in Shown(tree'[w])
        BY <1>6
      <4> QED BY <4>1, <3>2, <3>3, <1>2, <1>7
    <3>4. CASE q # p
      <4>1. paneWindow'[q] = paneWindow[q] /\ (IsStashed(q)' <=> IsStashed(q))
        BY <3>1, <3>4, <1>2, <1>7 DEF IsStashed
      <4>2. ~ IsStashed(q) => q \in Shown(tree'[paneWindow[q]])
        BY <3>2, <3>4, <1>6
      <4> QED BY <4>1, <4>2, <3>2, <1>2
    <3> QED BY <3>3, <3>4
  <2>4. ASSUME NEW q \in PaneID \ panes' PROVE paneWindow'[q] = 0 /\ stashed'[q] = NotStashed
    BY <1>1, <1>2, <1>7 DEF LayoutInv, PlaceInv
  <2> QED BY <2>1, <2>2, <2>3, <2>4 DEF PlaceInv, IsStashed
<1>11. SplitInv'
  <2> DEFINE new == SplitIDs(m) \ SplitIDs(into)
  <2>1. \A id \in new : id < nextSplitID' /\ \A v \in Windows : id \notin SplitIDs(tree[v])
    BY <1>1 DEF Inserted
  <2>2. \A v \in Windows : \A id \in SplitIDs(tree'[v]) : id \in SplitIDs(tree[v]) \/ (v = w /\ id \in new)
    <3> SUFFICES ASSUME NEW v \in Windows, NEW id \in SplitIDs(tree'[v])
                 PROVE  id \in SplitIDs(tree[v]) \/ (v = w /\ id \in new)
      OBVIOUS
    <3>1. CASE v = w
      <4>1. id \in new \/ id \in SplitIDs(into)
        BY <3>1, <1>5
      <4>2. SplitIDs(into) \subseteq SplitIDs(tree[w])
        BY <1>1
      <4> QED BY <4>1, <4>2, <3>1
    <3>2. CASE v # w /\ v = from
      <4>1. tree'[v] = left
        BY <3>2, <1>5
      <4> QED BY <4>1, <3>2, <1>1
    <3>3. CASE v # w /\ v # from
      <4>1. tree'[v] = tree[v]
        BY <3>3, <1>5
      <4> QED BY <4>1
    <3> QED BY <3>1, <3>2, <3>3
  <2>3. \A q \in PaneID : stashed'[q].split < nextSplitID' /\ stashed'[q].target # q
    BY <1>2, <1>3, HintsKept
  <2> HIDE DEF new
  <2> QED BY <2>1, <2>2, <2>3, <1>3, SplitsStayApart
<1> QED BY <1>8, <1>10, <1>11 DEF LayoutInv

\* A place to restore a pane at that the code accepts
Restorable(place) ==
  /\ place.window \in windows
  /\ tree[place.window] # Nil =>
       place.at \in Placings /\ place.at.target \in Shown(tree[place.window])

\* Where a pane comes back: in its old split if no layout has it
LEMMA RestorePaneInserts ==
  ASSUME LayoutInv, NEW p \in PaneID, NEW place, Restorable(place), RestorePane(p, place)
  PROVE  LET w == place.window
             id == IF OriginalSplitFree(p) THEN stashed[p].split ELSE nextSplitID
             m == IF tree[w] = Nil THEN Leaf(p) ELSE Insert(tree[w], p, place.at, id)
         IN /\ p \in panes /\ IsStashed(p) /\ w \in windows
            /\ p \notin Shown(tree[w])
            /\ Inserted(tree[w], p, m)
            /\ tree' = [tree EXCEPT ![w] = m]
<1> DEFINE w == place.window
           reuse == OriginalSplitFree(p)
           id == IF reuse THEN stashed[p].split ELSE nextSplitID
           a == place.at
           m == IF tree[w] = Nil THEN Leaf(p) ELSE Insert(tree[w], p, a, id)
<1>1. /\ p \in panes /\ IsStashed(p) /\ w \in windows
      /\ IF tree[w] = Nil \/ reuse THEN UNCHANGED nextSplitID
         ELSE AllocateSplit(tree[w], a.target, a.direction)
      /\ tree' = [tree EXCEPT ![w] = IF @ = Nil THEN Leaf(p) ELSE Insert(@, p, a, id)]
  BY DEF RestorePane
<1>2. /\ w \in Windows /\ tree[w] \in Layouts /\ tree \in [Windows -> Layouts]
      /\ nextSplitID \in 1 .. SplitLimit /\ SplitLimit \in Nat
  BY <1>1, ObjectsAssumption DEF LayoutInv, LayoutType
<1>3. tree' = [tree EXCEPT ![w] = m]
  BY <1>1, <1>2
<1>4. \A v \in Windows : p \notin Shown(tree[v])
  BY <1>1, PaneOut
<1>5. Inserted(tree[w], p, m)
  <2>1. CASE tree[w] = Nil
    <3>1. m = Leaf(p) /\ nextSplitID' = nextSplitID
      BY <2>1, <1>1
    <3> HIDE DEF m
    <3> QED BY <3>1, <2>1, <1>2, SmallLayouts DEF Inserted
  <2>2. CASE tree[w] # Nil /\ reuse
    <3>1. id = stashed[p].split /\ nextSplitID' = nextSplitID /\ m = Insert(tree[w], p, a, id)
      BY <2>2, <1>1
    <3>2. id # 0 /\ \A v \in windows : id \notin SplitIDs(tree[v])
      BY <2>2 DEF OriginalSplitFree
    <3>3. \A v \in Windows : id \notin SplitIDs(tree[v])
      BY <3>2, SmallLayouts DEF LayoutInv, PlaceInv
    <3>4. id \in SplitID
      <4>1. PICK h \in Hints \cup {NoHint}, v \in Windows \cup {0} : stashed[p] = Stashed(h, v)
        BY StashedType DEF StashHints, NotStashed
      <4>2. id = h.split
        BY <3>1, <4>1 DEF Stashed
      <4>3. NoHint.split = 0
        BY DEF NoHint
      <4>4. h \in Hints
        BY <4>1, <4>2, <4>3, <3>2
      <4> QED BY <4>2, <4>4 DEF Hints
    <3>5. id < nextSplitID
      BY <3>1 DEF LayoutInv, SplitInv
    <3>6. a \in Placings /\ a.target \in Shown(tree[w])
      BY <2>2 DEF Restorable
    <3> HIDE DEF id, m, a, reuse, w
    <3>7. id \in (1 .. SplitLimit) \ SplitIDs(tree[w])
      BY <3>3, <3>4, <1>2 DEF SplitID
    <3> DEFINE i == Insert(tree[w], p, a, id)
    <3>8. /\ i \in Layouts /\ Shown(i) = Shown(tree[w]) \cup {p}
          /\ SplitIDs(i) \subseteq SplitIDs(tree[w]) \cup {id}
      BY <3>4, <3>6, <3>7, <1>2, <1>4, InsertFacts
    <3>9. \A j \in SplitIDs(tree[w]) : j < nextSplitID
      BY <1>2 DEF LayoutInv, SplitInv
    <3> HIDE DEF i
    <3>10. \A j \in SplitIDs(i) : j < nextSplitID' /\ (j \in SplitIDs(tree[w]) \/ \A v \in Windows : j \notin SplitIDs(tree[v]))
      BY <3>1, <3>3, <3>5, <3>8, <3>9
    <3>11. Inserted(tree[w], p, i)
      BY <3>1, <3>8, <3>10, <1>2 DEF Inserted
    <3> QED BY <3>1, <3>11 DEF i
  <2>3. CASE tree[w] # Nil /\ ~ reuse
    <3>1. id = nextSplitID /\ AllocateSplit(tree[w], a.target, a.direction)
          /\ m = Insert(tree[w], p, a, id)
      BY <2>3, <1>1
    <3>2. a \in Placings /\ a.target \in Shown(tree[w])
      BY <2>3 DEF Restorable
    <3>3. \A j \in SplitIDs(tree[w]) : j < nextSplitID
      BY <1>2 DEF LayoutInv, SplitInv
    <3> HIDE DEF id, m, a, reuse, w
    <3>4. Inserted(tree[w], p, Insert(tree[w], p, a, nextSplitID))
      BY <3>1, <3>2, <3>3, <1>2, <1>4, AllocatedInsertion
    <3> QED BY <3>1, <3>4
  <2> QED BY <2>1, <2>2, <2>3
<1> HIDE DEF w, m, id, a, reuse
<1> QED BY <1>1, <1>2, <1>3, <1>4, <1>5 DEF w, m, id, a, reuse

\* A stashed pane comes back into a layout.
LEMMA RestorePaneLayout ==
  ASSUME LayoutInv, NEW p \in PaneID, NEW place, Restorable(place), RestorePane(p, place)
  PROVE  LayoutInv'
<1> DEFINE w == place.window
           id == IF OriginalSplitFree(p) THEN stashed[p].split ELSE nextSplitID
           m == IF tree[w] = Nil THEN Leaf(p) ELSE Insert(tree[w], p, place.at, id)
<1>1. /\ p \in panes /\ IsStashed(p) /\ w \in windows
      /\ p \notin Shown(tree[w])
      /\ Inserted(tree[w], p, m)
      /\ tree' = [tree EXCEPT ![w] = m]
  BY RestorePaneInserts
<1>2. /\ paneWindow' = [paneWindow EXCEPT ![p] = w]
      /\ stashed' = [stashed EXCEPT ![p] = NotStashed]
      /\ UNCHANGED <<windows, panes, nextPaneID>>
  BY DEF RestorePane
<1> HIDE DEF w, id, m
<1>3. /\ nextSplitID \in 1 .. SplitLimit /\ nextSplitID' \in 1 .. SplitLimit
      /\ nextSplitID <= nextSplitID' /\ m \in Layouts
  BY <1>1, InsertedType
<1>4. /\ w \in Windows /\ tree \in [Windows -> Layouts] /\ stashed \in [PaneID -> StashHints]
      /\ paneWindow \in [PaneID -> Windows \cup {0}]
  BY <1>1 DEF LayoutInv, LayoutType
<1>5. Shown(m) = Shown(tree[w]) \cup {p}
  BY <1>1 DEF Inserted
<1>6. \A v \in Windows : p \notin Shown(tree[v])
  BY <1>1, PaneOut
<1>7. /\ tree' \in [Windows -> Layouts] /\ tree'[w] = m
      /\ \A v \in Windows : v # w => tree'[v] = tree[v]
  BY <1>1, <1>3, <1>4
<1>8. /\ paneWindow' \in [PaneID -> Windows \cup {0}] /\ paneWindow'[p] = w
      /\ stashed' \in [PaneID -> StashHints] /\ stashed'[p] = NotStashed
      /\ \A q \in PaneID : q # p => paneWindow'[q] = paneWindow[q] /\ stashed'[q] = stashed[q]
  <2>1. NotStashed \in StashHints
    BY DEF StashHints
  <2> QED BY <2>1, <1>2, <1>4
<1>9. ~ IsStashed(p)' /\ \A q \in PaneID : q # p => (IsStashed(q)' <=> IsStashed(q))
  <2>1. NotStashed.window = 0
    BY DEF NotStashed, Stashed
  <2> QED BY <2>1, <1>8 DEF IsStashed
<1>10. LayoutType'
  BY <1>2, <1>3, <1>7, <1>8 DEF LayoutInv, LayoutType
<1>11. PlaceInv'
  <2>1. 1 \in windows' /\ \A v \in Windows \ windows' : tree'[v] = Nil
    BY <1>1, <1>2, <1>7 DEF LayoutInv, PlaceInv
  <2>2. ASSUME NEW v \in Windows, NEW q \in Shown(tree'[v])
        PROVE  q \in panes' /\ paneWindow'[q] = v /\ ~ IsStashed(q)'
    <3>1. CASE q = p
      <4>1. v = w
        BY <3>1, <2>2, <1>6, <1>7
      <4> QED BY <4>1, <3>1, <1>1, <1>2, <1>8, <1>9
    <3>2. CASE q # p
      <4>1. q \in Shown(tree[v])
        BY <3>2, <2>2, <1>5, <1>7
      <4>2. q \in panes /\ paneWindow[q] = v /\ ~ IsStashed(q) /\ q \in PaneID
        BY <4>1 DEF LayoutInv, PlaceInv, LayoutType
      <4> QED BY <4>2, <3>2, <1>2, <1>8, <1>9
    <3> QED BY <3>1, <3>2
  <2>3. ASSUME NEW q \in panes'
        PROVE  /\ q < nextPaneID' /\ paneWindow'[q] \in Windows
               /\ ~ IsStashed(q)' => q \in Shown(tree'[paneWindow'[q]])
    <3>1. q \in panes /\ q \in PaneID
      BY <1>2 DEF LayoutInv, LayoutType
    <3>2. /\ q < nextPaneID /\ paneWindow[q] \in Windows
          /\ ~ IsStashed(q) => q \in Shown(tree[paneWindow[q]])
      BY <3>1 DEF LayoutInv, PlaceInv
    <3>3. CASE q = p
      BY <3>2, <3>3, <1>2, <1>4, <1>5, <1>7, <1>8
    <3>4. CASE q # p
      <4>1. paneWindow'[q] = paneWindow[q] /\ (IsStashed(q)' <=> IsStashed(q))
        BY <3>1, <3>4, <1>8, <1>9
      <4>2. Shown(tree[paneWindow[q]]) \subseteq Shown(tree'[paneWindow[q]])
        BY <3>2, <1>5, <1>7
      <4> QED BY <4>1, <4>2, <3>2, <1>2
    <3> QED BY <3>3, <3>4
  <2>4. ASSUME NEW q \in PaneID \ panes' PROVE paneWindow'[q] = 0 /\ stashed'[q] = NotStashed
    BY <1>1, <1>2, <1>8 DEF LayoutInv, PlaceInv
  <2> QED BY <2>1, <2>2, <2>3, <2>4 DEF PlaceInv, IsStashed
<1>12. SplitInv'
  <2> DEFINE new == SplitIDs(m) \ SplitIDs(tree[w])
  <2>1. \A j \in new : j < nextSplitID' /\ \A v \in Windows : j \notin SplitIDs(tree[v])
    BY <1>1 DEF Inserted
  <2>2. \A v \in Windows : \A j \in SplitIDs(tree'[v]) : j \in SplitIDs(tree[v]) \/ (v = w /\ j \in new)
    BY <1>7
  <2>3. \A q \in PaneID : stashed'[q].split < nextSplitID' /\ stashed'[q].target # q
    <3>1. NotStashed.split = 0 /\ NotStashed.target = 0
      BY DEF NotStashed, Stashed, NoHint
    <3>2. ASSUME NEW q \in PaneID, q # p PROVE stashed[q].split < nextSplitID' /\ stashed[q].target # q
      <4>1. stashed[q].split < nextSplitID /\ stashed[q].target # q
        BY DEF LayoutInv, SplitInv
      <4>2. stashed[q].split \in Int
        BY SplitsOfHints
      <4> QED BY <4>1, <4>2, <1>3
    <3>3. 0 < nextSplitID'
      BY <1>3
    <3> QED BY <3>1, <3>2, <3>3, <1>8, NoPaneZero
  <2> HIDE DEF new
  <2> QED BY <2>1, <2>2, <2>3, <1>3, <1>4, SplitsStayApart
<1> QED BY <1>10, <1>11, <1>12 DEF LayoutInv

\* Where the code restores a pane by its hint there is a leaf to go to, and so
\* where a request names one.
LEMMA HintedPlaceRestorable ==
  ASSUME LayoutInv, NEW p \in PaneID
  PROVE  Restorable(HintedPlace(p))
<1> DEFINE h == stashed[p]
<1>1. CASE h.window \in windows /\ NeighbourThere(h)
  <2> DEFINE a == Placing(h.target, h.direction, h.before, h.weight, h.targetWeight, FALSE)
  <2>1. HintedPlace(p) = [window |-> h.window, at |-> a]
    BY <1>1 DEF HintedPlace
  <2>2. ASSUME tree[h.window] # Nil PROVE a \in Placings /\ a.target \in Shown(tree[h.window])
    <3>1. h.target \in Shown(tree[h.window]) /\ h.window \in Windows
      BY <1>1, <2>2 DEF NeighbourThere, Shows, Shown, LayoutInv, LayoutType
    <3>2. h.target \in PaneID
      BY <3>1, LayoutFacts DEF LayoutInv, LayoutType
    <3>3. PICK g \in Hints \cup {NoHint}, v \in Windows \cup {0} : h = Stashed(g, v)
      BY StashedType DEF StashHints, NotStashed
    <3>4. /\ h.target = g.target /\ h.direction = g.direction /\ h.before = g.before
          /\ h.weight = g.weight /\ h.targetWeight = g.targetWeight
      BY <3>3 DEF Stashed
    <3>5. NoHint.target = 0
      BY DEF NoHint
    <3>6. g \in Hints
      BY <3>2, <3>3, <3>4, <3>5, NoPaneZero
    <3>7. /\ g.target \in PaneID /\ g.direction \in Directions /\ g.before \in BOOLEAN
          /\ g.weight \in Weight /\ g.targetWeight \in Weight
      BY <3>6 DEF Hints
    <3> HIDE DEF h
    <3>8. a \in Placings
      BY <3>4, <3>7 DEF Placing, Placings
    <3> QED BY <3>8, <3>1 DEF Placing
  <2> HIDE DEF h, a
  <2> QED BY <1>1, <2>1, <2>2 DEF Restorable
<1>2. CASE ~ (h.window \in windows /\ NeighbourThere(h))
  <2>1. FirstWindow = 1 /\ 1 \in windows /\ 1 \in Windows /\ tree[1] \in Layouts
    BY DEF FirstWindow, LayoutInv, PlaceInv, LayoutType, Windows
  <2> DEFINE t == IF tree[1] = Nil THEN 0 ELSE Leaves(tree[1])[1]
             a == Placing(t, "vertical", FALSE, 1, 1, FALSE)
  <2>2. HintedPlace(p) = [window |-> 1, at |-> a]
    BY <1>2, <2>1 DEF HintedPlace
  <2>3. ASSUME tree[1] # Nil PROVE a \in Placings /\ a.target \in Shown(tree[1])
    <3>1. t \in Shown(tree[1])
      <4> DEFINE s == Leaves(tree[1])
      <4>1. s \in Seq(PaneID) /\ s # <<>>
        BY <2>1, <2>3, LayoutFacts, LayoutLaws
      <4>2. 1 \in DOMAIN s
        BY <4>1
      <4> QED BY <2>3, <4>2 DEF Shown, ToSet
    <3>2. t \in PaneID
      BY <3>1, <2>1, LayoutFacts
    <3> HIDE DEF t
    <3> QED BY <3>1, <3>2, ObjectsAssumption DEF Placing, Placings, Weight, Directions
  <2> HIDE DEF a
  <2> QED BY <2>1, <2>2, <2>3 DEF Restorable
<1> QED BY <1>1, <1>2

\* validateRestorePlacement
LEMMA GivenPlaceRestorable ==
  ASSUME LayoutInv, NEW w \in windows, NEW t \in PaneID \cup {0},
         NEW direction \in Directions \cup {NoDirection}, PlaceAccepted(w, t, direction)
  PROVE  Restorable(GivenPlace(w, t, direction))
<1> DEFINE a == Placing(t, direction, FALSE, 1, 1, FALSE)
<1>1. ASSUME tree[w] # Nil PROVE a \in Placings /\ a.target \in Shown(tree[w])
  <2>1. t \in PaneID /\ direction \in Directions /\ t \in Shown(tree[w])
    <3>1. t \in PaneID /\ direction # NoDirection /\ Shows(tree[w], t)
      BY <1>1 DEF PlaceAccepted
    <3> QED BY <3>1 DEF Shows, Shown
  <2> QED BY <2>1, ObjectsAssumption DEF Placing, Placings, Weight
<1>2. GivenPlace(w, t, direction) = [window |-> w, at |-> a]
  BY DEF GivenPlace
<1> HIDE DEF a
<1>3. GivenPlace(w, t, direction).window = w /\ GivenPlace(w, t, direction).at = a
  BY <1>2
<1> QED BY <1>1, <1>3 DEF Restorable

\* Commands that are not about the layout leave it alone.
LEMMA LayoutFrame == LayoutInv /\ UNCHANGED layoutVars => LayoutInv'
<1> SUFFICES ASSUME LayoutInv, UNCHANGED layoutVars PROVE LayoutInv'
  OBVIOUS
<1>1. UNCHANGED <<windows, tree, nextSplitID, panes, nextPaneID, paneWindow, stashed>>
  BY DEF layoutVars
<1>2. LayoutType'
  BY <1>1 DEF LayoutInv, LayoutType
<1>3. PlaceInv'
  BY <1>1 DEF LayoutInv, PlaceInv, IsStashed
<1>4. SplitInv'
  BY <1>1 DEF LayoutInv, SplitInv
<1> QED BY <1>2, <1>3, <1>4 DEF LayoutInv

(***************************************************************************)
(* Labels                                                                  *)
(***************************************************************************)

\* What a label may be on
Labelled(t, ws, ps) == t.id \in (IF t.kind = "window" THEN ws ELSE ps)

\* Fewer labels, on what still exists
LEMMA FewerLabels ==
  ASSUME LabelInv, labels' \subseteq labels,
         \A l \in labels' : Labelled(l.target, windows', panes')
  PROVE  LabelInv'
<1>1. labels' \in SUBSET Label
  BY DEF LabelInv
<1>2. \A l \in labels' : l.target.id \in (IF l.target.kind = "window" THEN windows' ELSE panes')
  BY DEF Labelled
<1>3. \A l, m \in labels' : SameKey(l, m) => l = m
  BY DEF LabelInv
<1> QED BY <1>1, <1>2, <1>3 DEF LabelInv

\* Windows and panes that only become more leave labels alone.
LEMMA LabelFrame ==
  ASSUME LabelInv, UNCHANGED labels, windows \subseteq windows', panes \subseteq panes'
  PROVE  LabelInv'
<1>1. \A l \in labels : Labelled(l.target, windows', panes')
  BY DEF LabelInv, Labelled
<1> QED BY <1>1, FewerLabels

\* A label replaces the one with the same target and source.
LEMMA SetLabelStep ==
  ASSUME LabelInv, LayoutInv, NEW kind \in {"window", "pane"}, NEW id \in PaneID \cup Windows,
         NEW source \in Sources, NEW value \in Values, SetLabel(Target(kind, id), source, value)
  PROVE  LabelInv'
<1> DEFINE t == Target(kind, id)
           l == [target |-> t, source |-> source, value |-> value]
<1>1. /\ TargetExists(Snapshot, t)
      /\ labels' = {m \in labels : ~ SameKey(l, m)} \cup {l}
      /\ UNCHANGED labelOnly
  BY DEF SetLabel
<1>2. windows' = windows /\ panes' = panes
  BY <1>1 DEF labelOnly, layoutVars
<1>3. l \in Label
  BY DEF Label, Target
<1>4. t.id \in (IF t.kind = "window" THEN windows ELSE panes)
  BY <1>1 DEF TargetExists, Snapshot
<1>5. l.target = t
  OBVIOUS
<1> HIDE DEF l, t
<1>6. labels' \in SUBSET Label
  BY <1>1, <1>3 DEF LabelInv
<1>7. \A m \in labels' : m.target.id \in (IF m.target.kind = "window" THEN windows' ELSE panes')
  BY <1>1, <1>2, <1>4, <1>5 DEF LabelInv
<1>8. \A m, n \in labels' : SameKey(m, n) => m = n
  <2>1. \A m \in labels : SameKey(l, m) <=> SameKey(m, l)
    BY DEF SameKey
  <2>2. \A m, n \in labels : SameKey(m, n) => m = n
    BY DEF LabelInv
  <2> QED BY <1>1, <2>1, <2>2
<1> QED BY <1>6, <1>7, <1>8 DEF LabelInv

\* Labels removed one by one, with their source, window or pane
LEMMA RemoveLabelStep ==
  ASSUME LabelInv, NEW l \in labels, RemoveLabel(l)
  PROVE  LabelInv'
<1>1. labels' = labels \ {l} /\ UNCHANGED <<windows, panes>>
  BY DEF RemoveLabel, labelOnly, layoutVars
<1>2. \A m \in labels' : Labelled(m.target, windows', panes')
  BY <1>1 DEF LabelInv, Labelled
<1> QED BY <1>1, <1>2, FewerLabels

\* Every label of a source is removed.
LEMMA RemoveLabelsBySourceStep ==
  ASSUME LabelInv, NEW source \in Sources, RemoveLabelsBySource(source)
  PROVE  LabelInv'
<1>1. labels' \subseteq labels /\ UNCHANGED <<windows, panes>>
  BY DEF RemoveLabelsBySource, labelOnly, layoutVars
<1>2. \A m \in labels' : Labelled(m.target, windows', panes')
  BY <1>1 DEF LabelInv, Labelled
<1> QED BY <1>1, <1>2, FewerLabels

\* A window takes its labels with it.
LEMMA DeleteWindowLabels ==
  ASSUME LabelInv, NEW w \in Windows, DeleteWindow(w)
  PROVE  LabelInv'
<1>1. /\ windows' = windows \ {w} /\ panes' = panes
      /\ labels' = labels \ {l \in labels : l.target = Target("window", w)}
  BY DEF DeleteWindow
<1>2. ASSUME NEW m \in labels' PROVE Labelled(m.target, windows', panes')
  <2>1. m \in labels /\ m.target # Target("window", w)
    BY <1>1
  <2>2. m.target \in [kind : {"window", "pane"}, id : PaneID \cup Windows]
    BY <2>1 DEF LabelInv, Label
  <2>3. m.target.kind = "window" => m.target.id # w
    BY <2>1, <2>2 DEF Target
  <2> QED BY <2>1, <2>3, <1>1 DEF LabelInv, Labelled
<1> QED BY <1>1, <1>2, FewerLabels

\* A pane takes its labels with it.
LEMMA ClosePaneLabels ==
  ASSUME LabelInv, NEW p \in PaneID, ClosePane(p)
  PROVE  LabelInv'
<1>1. /\ windows' = windows /\ panes' = panes \ {p}
      /\ labels' = labels \ {l \in labels : l.target = Target("pane", p)}
  BY DEF ClosePane
<1>2. ASSUME NEW m \in labels' PROVE Labelled(m.target, windows', panes')
  <2>1. m \in labels /\ m.target # Target("pane", p)
    BY <1>1
  <2>2. m.target \in [kind : {"window", "pane"}, id : PaneID \cup Windows]
    BY <2>1 DEF LabelInv, Label
  <2>3. m.target.kind # "window" => m.target.id # p
    BY <2>1, <2>2 DEF Target
  <2> QED BY <2>1, <2>3, <1>1 DEF LabelInv, Labelled
<1> QED BY <1>1, <1>2, FewerLabels

(***************************************************************************)
(* Tools                                                                   *)
(***************************************************************************)

\* An instance is there exactly while a pane shows it.
LEMMA AddPaneTools ==
  ASSUME LayoutInv, ToolInv, NEW p \in PaneID, NEW w, NEW d \in Instances \cup {None},
         NEW tool \in Tool, d # None => tool # NoTool, AddPane(p, w, d, tool)
  PROVE  ToolInv'
<1>1. /\ p = nextPaneID /\ panes' = panes \cup {p} /\ toolOf' = [toolOf EXCEPT ![p] = d]
      /\ tools' = IF d = None \/ tools[d] # NoTool THEN tools ELSE [tools EXCEPT ![d] = tool]
  BY DEF AddPane, RegisterTool
<1>2. p \notin panes
  <2>1. nextPaneID \in Int /\ \A q \in panes : q < nextPaneID
    BY DEF LayoutInv, LayoutType, PlaceInv
  <2> QED BY <1>1, <2>1
<1>3. /\ toolOf \in [PaneID -> Instances \cup {None}] /\ tools \in [Instances -> Tool]
      /\ panes \subseteq PaneID /\ None \notin Instances
  BY ObjectsAssumption DEF ToolInv, LayoutInv, LayoutType
<1>4. toolOf' \in [PaneID -> Instances \cup {None}] /\ tools' \in [Instances -> Tool]
  <2>1. CASE d = None \/ tools[d] # NoTool
    BY <2>1, <1>1, <1>3
  <2>2. CASE ~ (d = None \/ tools[d] # NoTool)
    BY <2>2, <1>1, <1>3
  <2> QED BY <2>1, <2>2
<1>5. \A q \in PaneID \ panes' : toolOf'[q] = None
  BY <1>1, <1>3 DEF ToolInv
<1>6. ASSUME NEW e \in Instances
      PROVE  tools'[e] # NoTool <=> \E q \in panes' : toolOf'[q] = e
  <2>1. \A q \in panes : toolOf'[q] = toolOf[q]
    BY <1>1, <1>2, <1>3
  <2>2. tools[e] # NoTool <=> \E q \in panes : toolOf[q] = e
    BY DEF ToolInv
  <2>3. toolOf'[p] = d
    BY <1>1, <1>3
  <2>4. CASE e = d
    <3>1. tools'[e] # NoTool
      BY <2>4, <1>1, <1>3
    <3> QED BY <3>1, <2>3, <2>4, <1>1
  <2>5. CASE e # d
    <3>1. tools'[e] = tools[e]
      BY <2>5, <1>1, <1>3
    <3> QED BY <3>1, <2>1, <2>2, <2>3, <2>5, <1>1
  <2> QED BY <2>4, <2>5
<1> QED BY <1>4, <1>5, <1>6 DEF ToolInv

\* The last pane that shows an instance takes it away.
LEMMA ClosePaneTools ==
  ASSUME LayoutInv, ToolInv, NEW p \in PaneID, ClosePane(p)
  PROVE  ToolInv'
<1> DEFINE d == toolOf[p]
           lastView == d # None /\ \A q \in panes \ {p} : toolOf[q] # d
<1>1. /\ p \in panes /\ panes' = panes \ {p} /\ toolOf' = [toolOf EXCEPT ![p] = None]
      /\ tools' = IF lastView THEN [tools EXCEPT ![d] = NoTool] ELSE tools
  BY DEF ClosePane
<1>2. /\ toolOf \in [PaneID -> Instances \cup {None}] /\ tools \in [Instances -> Tool]
      /\ panes \subseteq PaneID /\ None \notin Instances /\ NoTool \in Tool
  BY ObjectsAssumption DEF ToolInv, LayoutInv, LayoutType, Tool
<1>3. toolOf' \in [PaneID -> Instances \cup {None}] /\ toolOf'[p] = None
      /\ \A q \in PaneID : q # p => toolOf'[q] = toolOf[q]
  BY <1>1, <1>2
<1>4. /\ tools' \in [Instances -> Tool]
      /\ \A e \in Instances : tools'[e] = IF lastView /\ e = d THEN NoTool ELSE tools[e]
  <2>1. CASE lastView
    BY <2>1, <1>1, <1>2
  <2>2. CASE ~ lastView
    BY <2>2, <1>1, <1>2
  <2> QED BY <2>1, <2>2
<1>5. \A q \in PaneID \ panes' : toolOf'[q] = None
  BY <1>1, <1>3 DEF ToolInv
<1>6. ASSUME NEW e \in Instances
      PROVE  tools'[e] # NoTool <=> \E q \in panes' : toolOf'[q] = e
  <2>1. tools[e] # NoTool <=> \E q \in panes : toolOf[q] = e
    BY DEF ToolInv
  <2>2. (\E q \in panes' : toolOf'[q] = e) <=> \E q \in panes \ {p} : toolOf[q] = e
    BY <1>1, <1>2, <1>3
  <2>3. CASE e = d
    <3>1. lastView <=> ~ \E q \in panes \ {p} : toolOf[q] = e
      BY <2>3, <1>2
    <3>2. tools[e] # NoTool
      BY <2>1, <2>3, <1>1
    <3> QED BY <3>1, <3>2, <2>2, <2>3, <1>4
  <2>4. CASE e # d
    <3>1. tools'[e] = tools[e]
      BY <2>4, <1>4
    <3> QED BY <3>1, <2>1, <2>2, <2>4
  <2> QED BY <2>3, <2>4
<1> QED BY <1>3, <1>4, <1>5, <1>6 DEF ToolInv

\* An update replaces an instance by one of the next generation.
LEMMA UpdateToolStateTools ==
  ASSUME ToolInv, DraftInv, NEW c \in Clients, NEW edited \in ToolStates, UpdateToolState(c, edited)
  PROVE  ToolInv'
<1> DEFINE d == drafts[c].descriptor
           next == [generation |-> tools[d].generation + 1, state |-> edited]
<1>1. /\ d # None /\ tools[d] # NoTool /\ tools' = [tools EXCEPT ![d] = next]
      /\ UNCHANGED <<toolOf, panes>>
  BY DEF UpdateToolState, layoutVars
<1>2. d \in Instances
  BY <1>1 DEF DraftInv, Draft
<1>3. tools[d] \in Tool /\ tools \in [Instances -> Tool]
  BY <1>2 DEF ToolInv
<1>4. tools[d].generation \in Nat
  BY <1>3 DEF Tool, NoTool
<1>5. next \in Tool /\ next # NoTool
  <2>1. tools[d].generation + 1 \in Nat \ {0}
    BY <1>4
  <2> QED BY <2>1 DEF Tool, NoTool
<1> HIDE DEF next
<1>6. tools' \in [Instances -> Tool] /\ \A e \in Instances : tools'[e] # NoTool <=> tools[e] # NoTool
  BY <1>1, <1>2, <1>3, <1>5
<1> QED BY <1>1, <1>6 DEF ToolInv

\* What leaves panes and instances alone
LEMMA ToolFrame == ToolInv /\ UNCHANGED <<toolVars, panes>> => ToolInv'
  BY DEF ToolInv, toolVars

(***************************************************************************)
(* Attentions                                                              *)
(***************************************************************************)

\* Every non-empty set of natural numbers has a least element.
LEMMA LeastNumber ==
  ASSUME NEW T, T \subseteq Nat, T # {}
  PROVE  \E n \in T : \A m \in T : n <= m
<1> DEFINE R == OpToRel(<, Nat)
<1>1. IsWellFoundedOn(R, Nat)
  BY NatLessThanWellFounded
<1>2. \A m, n \in Nat : m < n => <<m, n>> \in R
  BY DEF OpToRel
<1> HIDE DEF R
<1>3. PICK n \in T : \A m \in T : ~ (<<m, n>> \in R)
  BY <1>1, WFMin
<1>4. \A m \in T : ~ (m < n)
  BY <1>2, <1>3, Zenon
<1> QED
  BY <1>4

\* A set that is at its limit has exactly one attention that goes first.
LEMMA EvictedFacts ==
  ASSUME NEW all \in SUBSET Attention, IsFiniteSet(all),
         \A a, b \in all : a.id = b.id => a = b, Cardinality(all) <= AttentionLimit + 1
  PROVE  /\ Evicted(all) \subseteq all /\ IsFiniteSet(all \ Evicted(all))
         /\ Cardinality(all \ Evicted(all)) <= AttentionLimit
<1>1. CASE Cardinality(all) <= AttentionLimit
  <2>1. Evicted(all) = {} /\ all \ Evicted(all) = all
    BY <1>1 DEF Evicted
  <2> QED BY <2>1, <1>1
<1>2. CASE ~ (Cardinality(all) <= AttentionLimit)
  <2> DEFINE First(x) == \A b \in all \ {x} : GoesBefore(x, b)
             x == CHOOSE a \in all : First(a)
  <2>0. Cardinality(all) \in Nat /\ AttentionLimit \in Nat
    BY FS_CardinalityType, ObjectsAssumption
  <2>1. all # {}
    BY <1>2, <2>0, FS_EmptySet
  <2>2. \A a \in all : a.acked \in Nat /\ a.updated \in Nat /\ a.id \in Nat
    BY DEF Attention
  <2> DEFINE acked == {a \in all : a.acked # 0}
             tier == IF acked = {} THEN all ELSE acked
             times == {a.updated : a \in tier}
  <2>3. tier \subseteq all /\ tier # {}
    BY <2>1
  <2>4. PICK u \in times : \A v \in times : u <= v
    <3>1. times \subseteq Nat /\ times # {}
      BY <2>2, <2>3
    <3> HIDE DEF times
    <3> QED BY <3>1, LeastNumber
  <2> DEFINE oldest == {a \in tier : a.updated = u}
             ids == {a.id : a \in oldest}
  <2>5. oldest \subseteq tier /\ oldest # {}
    BY <2>4
  <2>6. PICK i \in ids : \A j \in ids : i <= j
    <3>1. ids \subseteq Nat /\ ids # {}
      BY <2>2, <2>3, <2>5
    <3> HIDE DEF ids
    <3> QED BY <3>1, LeastNumber
  <2>7. PICK f \in oldest : f.id = i
    BY <2>6
  <2>8. f \in all /\ f \in tier /\ f.updated = u
    BY <2>3, <2>7
  <2>9. ASSUME NEW b \in all \ {f} PROVE GoesBefore(f, b)
    <3>1. b.id # f.id /\ b.id \in Nat /\ f.id \in Nat /\ f.updated \in Nat /\ b.updated \in Nat
      BY <2>2, <2>8
    <3>2. CASE b \notin tier
      <4>1. acked # {} /\ b.acked = 0 /\ f.acked # 0
        BY <3>2, <2>8
      <4> QED BY <4>1 DEF GoesBefore
    <3>3. CASE b \in tier
      <4>1. f.updated <= b.updated
        BY <3>3, <2>4, <2>8
      <4>2. b.updated = f.updated => f.id <= b.id
        BY <3>3, <2>6, <2>7, <2>8
      <4>3. (f.acked = 0) <=> (b.acked = 0)
        BY <3>3, <2>8
      <4>4. f.updated < b.updated \/ (f.updated = b.updated /\ f.id < b.id)
        BY <4>1, <4>2, <3>1
      <4> QED BY <4>3, <4>4 DEF GoesBefore
    <3> QED BY <3>2, <3>3
  <2> HIDE DEF acked, tier, times, oldest, ids
  <2>10. First(f)
    BY <2>9
  <2>11. x \in all
    BY <2>8, <2>10
  <2>12. Evicted(all) = {x}
    BY <1>2 DEF Evicted
  <2> HIDE DEF x
  <2>13. IsFiniteSet(all \ {x}) /\ Cardinality(all \ {x}) = Cardinality(all) - 1
    BY <2>11, FS_RemoveElement
  <2>14. Cardinality(all) - 1 <= AttentionLimit
    BY <2>0
  <2> QED BY <2>11, <2>12, <2>13, <2>14
<1> QED BY <1>1, <1>2

\* The index follows the attentions that go.
LEMMA IndexedWithout ==
  ASSUME NEW atts, NEW keys, NEW next, Indexed(atts, keys, next), NEW gone \in SUBSET atts
  PROVE  Indexed(atts \ gone, KeysWithout(keys, gone), next)
<1> DEFINE rest == KeysWithout(keys, gone)
<1>1. /\ atts \in SUBSET Attention /\ keys \in [Sources \X PaneID -> Nat]
      /\ \A a \in atts : a.id < next
      /\ \A a, b \in atts : a.id = b.id \/ KeyOf(a) = KeyOf(b) => a = b
      /\ \A a \in atts : keys[KeyOf(a)] = a.id /\ KeyOf(a) \in Sources \X PaneID
      /\ \A k \in Sources \X PaneID : keys[k] # 0 => \E a \in atts : KeyOf(a) = k
  BY DEF Indexed, Attention, KeyOf
<1>2. rest = [k \in Sources \X PaneID |-> IF \E g \in gone : k = KeyOf(g) THEN 0 ELSE keys[k]]
  BY <1>1 DEF KeysWithout
<1>3. rest \in [Sources \X PaneID -> Nat]
  BY <1>1, <1>2
<1>4. ASSUME NEW k \in Sources \X PaneID, rest[k] # 0
      PROVE  \E a \in atts \ gone : KeyOf(a) = k
  <2>1. ~ \E g \in gone : k = KeyOf(g)
    BY <1>2, <1>4
  <2>2. rest[k] = keys[k]
    BY <2>1, <1>2
  <2> QED BY <2>1, <2>2, <1>1, <1>4
<1>5. ASSUME NEW a \in atts \ gone PROVE rest[KeyOf(a)] = a.id
  <2>1. ~ \E g \in gone : KeyOf(a) = KeyOf(g)
    BY <1>1
  <2> QED BY <2>1, <1>1, <1>2
<1> HIDE DEF rest
<1>6. /\ atts \ gone \in SUBSET Attention
      /\ \A a \in atts \ gone : a.id < next
      /\ \A a, b \in atts \ gone : a.id = b.id \/ KeyOf(a) = KeyOf(b) => a = b
  BY <1>1
<1> QED BY <1>3, <1>4, <1>5, <1>6 DEF Indexed, rest

\* An attention that is there changes, but for its identifier and its key.
LEMMA IndexedReplaced ==
  ASSUME NEW atts, NEW keys, NEW next, Indexed(atts, keys, next), NEW a \in atts,
         NEW b \in Attention, b.id = a.id, KeyOf(b) = KeyOf(a)
  PROVE  Indexed((atts \ {a}) \cup {b}, keys, next)
<1> DEFINE new == (atts \ {a}) \cup {b}
<1>1. /\ atts \in SUBSET Attention /\ keys \in [Sources \X PaneID -> Nat]
      /\ \A c \in atts : c.id < next
      /\ \A c, d \in atts : c.id = d.id \/ KeyOf(c) = KeyOf(d) => c = d
      /\ \A c \in atts : keys[KeyOf(c)] = c.id
      /\ \A k \in Sources \X PaneID : keys[k] # 0 => \E c \in atts : KeyOf(c) = k
  BY DEF Indexed
<1>2. new \in SUBSET Attention /\ \A c \in new : c.id < next
  BY <1>1
<1>3. \A c, d \in new : c.id = d.id \/ KeyOf(c) = KeyOf(d) => c = d
  BY <1>1
<1>4. /\ \A c \in new : keys[KeyOf(c)] = c.id
      /\ \A k \in Sources \X PaneID : keys[k] # 0 => \E c \in new : KeyOf(c) = k
  BY <1>1
<1> HIDE DEF new
<1> QED BY <1>1, <1>2, <1>3, <1>4 DEF Indexed, new

\* A new attention, and the one that leaves for it
LEMMA RaiseNewStep ==
  ASSUME LayoutInv, AttentionInv, NEW p \in PaneID, NEW source \in Sources, NEW value \in Values,
         NEW at \in 1 .. TimeLimit, RaiseNew(p, source, value, at)
  PROVE  AttentionInv'
<1> DEFINE a == [id |-> nextAttentionID, pane |-> p, source |-> source, value |-> value,
                 updated |-> at, acked |-> 0]
           all == attentions \cup {a}
           gone == Evicted(all)
           keys == [attentionKeys EXCEPT ![<<source, p>>] = a.id]
<1>1. /\ p \in panes /\ attentionKeys[<<source, p>>] = 0
      /\ nextAttentionID' = nextAttentionID + 1
      /\ attentions' = all \ gone
      /\ attentionKeys' = KeysWithout(keys, gone)
      /\ panes' = panes
  BY DEF RaiseNew, attentionOnly, layoutVars
<1>2. /\ Indexed(attentions, attentionKeys, nextAttentionID) /\ nextAttentionID \in Nat \ {0}
      /\ \A b \in attentions : b.pane \in panes
      /\ IsFiniteSet(attentions) /\ Cardinality(attentions) <= AttentionLimit
  BY DEF AttentionInv
<1>3. a.id = nextAttentionID /\ KeyOf(a) = <<source, p>> /\ a.pane = p
  BY DEF KeyOf
<1>4. a \in Attention
  BY <1>2 DEF Attention
<1> HIDE DEF a
<1>5. \A b \in attentions : KeyOf(b) # <<source, p>> /\ b.id # a.id /\ b.id \in Nat
  <2>1. ASSUME NEW b \in attentions PROVE KeyOf(b) # <<source, p>>
    <3>1. b.id # 0
      BY <1>2 DEF Indexed, Attention
    <3> QED BY <3>1, <1>1, <1>2 DEF Indexed
  <2>2. ASSUME NEW b \in attentions PROVE b.id # a.id /\ b.id \in Nat
    <3>1. b.id < nextAttentionID /\ b.id \in Nat
      BY <1>2 DEF Indexed, Attention
    <3> QED BY <3>1, <1>2, <1>3
  <2> QED BY <2>1, <2>2
<1>6. Indexed(all, keys, nextAttentionID + 1)
  <2>1. all \in SUBSET Attention /\ keys \in [Sources \X PaneID -> Nat]
    BY <1>2, <1>3, <1>4 DEF Indexed
  <2>2. \A b \in all : b.id < nextAttentionID + 1
    BY <1>2, <1>3, <1>5 DEF Indexed
  <2>3. \A b, c \in all : b.id = c.id \/ KeyOf(b) = KeyOf(c) => b = c
    BY <1>2, <1>3, <1>5 DEF Indexed
  <2>4. ASSUME NEW k \in Sources \X PaneID
        PROVE  /\ \A b \in all : KeyOf(b) = k => keys[k] = b.id
               /\ keys[k] # 0 => \E b \in all : KeyOf(b) = k
    <3>0. attentionKeys \in [Sources \X PaneID -> Nat]
      BY <1>2 DEF Indexed
    <3>1. CASE k = <<source, p>>
      <4>1. keys[k] = a.id
        BY <3>0, <3>1
      <4>2. a \in all /\ KeyOf(a) = k
        BY <3>1, <1>3
      <4> QED BY <4>1, <4>2, <3>1, <1>5
    <3>2. CASE k # <<source, p>>
      <4>1. keys[k] = attentionKeys[k]
        BY <3>0, <3>2
      <4>2. /\ \A b \in attentions : KeyOf(b) = k => attentionKeys[k] = b.id
            /\ attentionKeys[k] # 0 => \E b \in attentions : KeyOf(b) = k
        BY <1>2 DEF Indexed
      <4> QED BY <4>1, <4>2, <3>2, <1>3
    <3> QED BY <3>1, <3>2
  <2>5. \A b \in all : KeyOf(b) \in Sources \X PaneID
    BY <2>1 DEF Attention, KeyOf
  <2> HIDE DEF all, keys
  <2> QED BY <2>1, <2>2, <2>3, <2>4, <2>5 DEF Indexed
<1>7. IsFiniteSet(all) /\ Cardinality(all) <= AttentionLimit + 1
  <2>1. /\ IsFiniteSet(all)
        /\ Cardinality(all) = IF a \in attentions THEN Cardinality(attentions) ELSE Cardinality(attentions) + 1
    BY <1>2, FS_AddElement
  <2>2. Cardinality(attentions) \in Nat /\ AttentionLimit \in Nat
    BY <1>2, FS_CardinalityType, ObjectsAssumption
  <2> QED BY <2>1, <2>2, <1>2
<1>9. \A b \in all : b.pane \in panes
  BY <1>1, <1>2, <1>3
<1> HIDE DEF all, keys
<1>8. /\ gone \subseteq all /\ IsFiniteSet(all \ gone) /\ Cardinality(all \ gone) <= AttentionLimit
  <2>1. all \in SUBSET Attention /\ \A b, c \in all : b.id = c.id => b = c
    BY <1>6 DEF Indexed
  <2> QED BY <2>1, <1>7, EvictedFacts
<1> HIDE DEF gone
<1>10. Indexed(all \ gone, KeysWithout(keys, gone), nextAttentionID + 1)
  BY <1>6, <1>8, IndexedWithout
<1>11. nextAttentionID + 1 \in Nat \ {0}
  BY <1>2
<1> QED BY <1>1, <1>8, <1>9, <1>10, <1>11 DEF AttentionInv

\* Attentions of which one is replaced by another with its identifier and key
LEMMA AttentionReplaced ==
  ASSUME AttentionInv, NEW a \in attentions, NEW b \in Attention, b.id = a.id, KeyOf(b) = KeyOf(a),
         b.pane = a.pane, attentions' = (attentions \ {a}) \cup {b},
         UNCHANGED <<attentionKeys, nextAttentionID, panes>>
  PROVE  AttentionInv'
<1>1. /\ Indexed(attentions, attentionKeys, nextAttentionID) /\ nextAttentionID \in Nat \ {0}
      /\ \A c \in attentions : c.pane \in panes
      /\ IsFiniteSet(attentions) /\ Cardinality(attentions) <= AttentionLimit
  BY DEF AttentionInv
<1>2. Indexed((attentions \ {a}) \cup {b}, attentionKeys, nextAttentionID)
  BY <1>1, IndexedReplaced
<1> DEFINE rest == attentions \ {a}
<1>3. IsFiniteSet(rest) /\ Cardinality(rest) = Cardinality(attentions) - 1
  BY <1>1, FS_RemoveElement
<1> HIDE DEF rest
<1>4. /\ IsFiniteSet(rest \cup {b})
      /\ Cardinality(rest \cup {b}) = IF b \in rest THEN Cardinality(rest) ELSE Cardinality(rest) + 1
  BY <1>3, FS_AddElement
<1>5. Cardinality(attentions) \in Nat /\ AttentionLimit \in Nat
  BY <1>1, FS_CardinalityType, ObjectsAssumption
<1>6. Cardinality(rest \cup {b}) <= AttentionLimit
  BY <1>1, <1>3, <1>4, <1>5
<1>7. \A c \in attentions' : c.pane \in panes'
  BY <1>1
<1> QED BY <1>1, <1>2, <1>4, <1>6, <1>7 DEF AttentionInv, rest

\* The same attention again, or acknowledged
LEMMA RaiseAgainStep ==
  ASSUME AttentionInv, NEW a \in attentions, NEW value \in Values, NEW at \in 1 .. TimeLimit,
         RaiseAgain(a, value, at)
  PROVE  AttentionInv'
<1> DEFINE b == [a EXCEPT !.value = value, !.updated = at, !.acked = 0]
<1>1. /\ attentions' = (attentions \ {a}) \cup {b}
      /\ UNCHANGED <<attentionKeys, nextAttentionID, panes>>
  BY DEF RaiseAgain, attentionOnly, layoutVars
<1>2. a \in Attention /\ at \in Nat
  BY DEF AttentionInv, Indexed
<1>3. b \in Attention /\ b.id = a.id /\ b.source = a.source /\ b.pane = a.pane
  BY <1>2 DEF Attention
<1> HIDE DEF b
<1>4. KeyOf(b) = KeyOf(a)
  BY <1>3 DEF KeyOf
<1> QED BY <1>1, <1>3, <1>4, AttentionReplaced

\* An acknowledgement keeps the identifier and the key.
LEMMA AcknowledgeStep ==
  ASSUME AttentionInv, NEW a \in attentions, NEW at \in 1 .. TimeLimit, AcknowledgeAttention(a, at)
  PROVE  AttentionInv'
<1> DEFINE b == [a EXCEPT !.acked = at]
<1>1. /\ attentions' = (attentions \ {a}) \cup {b}
      /\ UNCHANGED <<attentionKeys, nextAttentionID, panes>>
  BY DEF AcknowledgeAttention, attentionOnly, layoutVars
<1>2. a \in Attention /\ at \in Nat
  BY DEF AttentionInv, Indexed
<1>3. b \in Attention /\ b.id = a.id /\ b.source = a.source /\ b.pane = a.pane
  BY <1>2 DEF Attention
<1> HIDE DEF b
<1>4. KeyOf(b) = KeyOf(a)
  BY <1>3 DEF KeyOf
<1> QED BY <1>1, <1>3, <1>4, AttentionReplaced

\* Fewer attentions, and the index without them
LEMMA FewerAttentions ==
  ASSUME AttentionInv, NEW gone \in SUBSET attentions, attentions' = attentions \ gone,
         attentionKeys' = KeysWithout(attentionKeys, gone), UNCHANGED nextAttentionID,
         \A a \in attentions' : a.pane \in panes'
  PROVE  AttentionInv'
<1>1. /\ Indexed(attentions, attentionKeys, nextAttentionID) /\ nextAttentionID \in Nat \ {0}
      /\ IsFiniteSet(attentions) /\ Cardinality(attentions) <= AttentionLimit
  BY DEF AttentionInv
<1>2. Indexed(attentions \ gone, KeysWithout(attentionKeys, gone), nextAttentionID)
  BY <1>1, IndexedWithout
<1> DEFINE rest == attentions \ gone
<1>3. rest \in SUBSET attentions
  OBVIOUS
<1> HIDE DEF rest
<1>4. IsFiniteSet(rest) /\ Cardinality(rest) <= Cardinality(attentions)
  BY <1>1, <1>3, FS_Subset
<1>5. Cardinality(rest) \in Nat /\ Cardinality(attentions) \in Nat /\ AttentionLimit \in Nat
  BY <1>1, <1>4, FS_CardinalityType, ObjectsAssumption
<1>6. Cardinality(rest) <= AttentionLimit
  BY <1>1, <1>4, <1>5
<1> QED BY <1>1, <1>2, <1>4, <1>6 DEF AttentionInv, rest

\* The attentions of a source go.
LEMMA RemoveAttentionsBySourceStep ==
  ASSUME AttentionInv, NEW source \in Sources, RemoveAttentionsBySource(source)
  PROVE  AttentionInv'
<1> DEFINE gone == {a \in attentions : a.source = source}
<1>1. /\ attentions' = attentions \ gone /\ attentionKeys' = KeysWithout(attentionKeys, gone)
      /\ UNCHANGED <<nextAttentionID, panes>>
  BY DEF RemoveAttentionsBySource, attentionOnly, layoutVars
<1>2. gone \in SUBSET attentions
  OBVIOUS
<1> HIDE DEF gone
<1>3. \A a \in attentions' : a.pane \in panes'
  BY <1>1 DEF AttentionInv
<1> QED BY <1>1, <1>2, <1>3, FewerAttentions

\* The attentions of a pane go with it, all the sources at once.
LEMMA ClosePaneAttentions ==
  ASSUME AttentionInv, NEW p \in PaneID, ClosePane(p)
  PROVE  AttentionInv'
<1> DEFINE gone == {a \in attentions : a.pane = p}
<1>1. /\ attentions' = attentions \ gone /\ panes' = panes \ {p}
      /\ attentionKeys' = [k \in DOMAIN attentionKeys |-> IF k[2] = p THEN 0 ELSE attentionKeys[k]]
      /\ UNCHANGED nextAttentionID
  BY DEF ClosePane
<1>2. /\ Indexed(attentions, attentionKeys, nextAttentionID) /\ nextAttentionID \in Nat \ {0}
      /\ \A c \in attentions : c.pane \in panes
  BY DEF AttentionInv
<1>3. attentionKeys' = KeysWithout(attentionKeys, gone)
  <2>0. attentionKeys \in [Sources \X PaneID -> Nat]
    BY <1>2 DEF Indexed
  <2>1. ASSUME NEW k \in Sources \X PaneID
        PROVE  (IF k[2] = p THEN 0 ELSE attentionKeys[k])
                 = (IF \E g \in gone : k = KeyOf(g) THEN 0 ELSE attentionKeys[k])
    <3>1. ASSUME NEW g \in gone, k = KeyOf(g) PROVE k[2] = p
      BY <3>1 DEF KeyOf
    <3>2. CASE k[2] = p /\ ~ \E g \in gone : k = KeyOf(g)
      <4>1. ASSUME attentionKeys[k] # 0 PROVE FALSE
        <5>1. PICK a \in attentions : KeyOf(a) = k
          BY <4>1, <1>2 DEF Indexed
        <5>2. k[2] = a.pane
          BY <5>1 DEF KeyOf
        <5> QED BY <5>1, <5>2, <3>2
      <4> QED BY <4>1, <3>2
    <3> QED BY <3>1, <3>2
  <2> HIDE DEF gone
  <2> QED BY <2>0, <2>1, <1>1 DEF KeysWithout
<1>4. gone \in SUBSET attentions /\ \A a \in attentions' : a.pane \in panes'
  BY <1>1, <1>2
<1> HIDE DEF gone
<1> QED BY <1>1, <1>3, <1>4, FewerAttentions

\* Attentions stay as they are while no pane goes.
LEMMA AttentionFrame ==
  AttentionInv /\ UNCHANGED attentionVars /\ panes \subseteq panes' => AttentionInv'
  BY DEF AttentionInv, attentionVars

(***************************************************************************)
(* The copy of a frontend                                                  *)
(***************************************************************************)

\* What a copy shows of the instances ts after a pane of d came with tool
WithTool(ts, d, tool) == IF tool = NoTool THEN ts ELSE [ts EXCEPT ![d] = tool]

\* The copy after a new pane
LEMMA NewPaneCopy ==
  ASSUME LayoutInv, ToolInv, CopyInv, NEW w \in windows, NEW p \in PaneID, NEW d, NEW tool, NEW m,
         AddPane(p, w, d, tool), Inserted(tree[w], p, m), tree' = [tree EXCEPT ![w] = m]
  PROVE  /\ CopyInv'
         /\ copy'.tools = WithTool(copy.tools, d, tool)
<1> DEFINE e == [kind |-> "pane_created", pane |-> PaneRecord(p), window |-> WindowRecord(w),
                 tool |-> tool]
<1>1. /\ p = nextPaneID /\ nextPaneID' = nextPaneID + 1
      /\ panes' = panes \cup {p} /\ paneWindow' = [paneWindow EXCEPT ![p] = w]
      /\ toolOf' = [toolOf EXCEPT ![p] = d]
      /\ UNCHANGED <<windows, stashed, labels, attentions>>
      /\ copy' = ApplyEvent(copy, e)
  BY DEF AddPane, attentionVars, Publish
<1>2. /\ e.kind = "pane_created" /\ e.tool = tool
      /\ e.window.id = w /\ e.window.layout = tree'[w]
      /\ e.pane.id = p /\ e.pane.window = paneWindow'[p] /\ e.pane.tool = toolOf'[p]
  BY DEF PaneRecord, WindowRecord
<1> HIDE DEF e
<1>3. /\ w \in Windows /\ tree \in [Windows -> Layouts] /\ paneWindow \in [PaneID -> Windows \cup {0}]
      /\ toolOf \in [PaneID -> Instances \cup {None}]
  BY DEF LayoutInv, LayoutType, ToolInv
<1>4. tree'[w] = m /\ paneWindow'[p] = w /\ toolOf'[p] = d
  BY <1>1, <1>3
<1>5. nextSplitID' = Max({nextSplitID} \cup {id + 1 : id \in SplitIDs(m)})
  BY InsertedBump
<1>6. /\ IsSnapshot(copy)
      /\ copy.windows = windows /\ copy.tree = tree /\ copy.nextSplitID = nextSplitID
      /\ copy.panes = panes /\ copy.nextPaneID = nextPaneID /\ copy.paneWindow = paneWindow
      /\ copy.stashed = stashed /\ copy.toolOf = toolOf /\ copy.labels = labels
      /\ copy.attentions = attentions
  BY DEF CopyInv
<1> DEFINE t == ApplyEvent(copy, e)
<1>7. /\ IsSnapshot(t)
      /\ t.windows = copy.windows \cup {e.window.id}
      /\ t.tree = [copy.tree EXCEPT ![e.window.id] = e.window.layout]
      /\ t.nextSplitID = Max({copy.nextSplitID} \cup {id + 1 : id \in SplitIDs(e.window.layout)})
      /\ t.panes = copy.panes \cup {e.pane.id}
      /\ t.nextPaneID = (IF e.pane.id >= copy.nextPaneID THEN e.pane.id + 1 ELSE copy.nextPaneID)
      /\ t.paneWindow = [copy.paneWindow EXCEPT ![e.pane.id] = e.pane.window]
      /\ t.toolOf = [copy.toolOf EXCEPT ![e.pane.id] = e.pane.tool]
      /\ t.tools = (IF e.tool = NoTool THEN copy.tools ELSE [copy.tools EXCEPT ![e.pane.tool] = e.tool])
      /\ t.stashed = copy.stashed /\ t.labels = copy.labels /\ t.attentions = copy.attentions
  BY <1>2, <1>6, PaneCreatedFields
<1> HIDE DEF t
<1>8. copy' = t
  BY <1>1 DEF t
<1>9. t.windows = windows' /\ t.tree = tree' /\ t.panes = panes' /\ t.paneWindow = paneWindow'
      /\ t.toolOf = toolOf'
  BY <1>1, <1>2, <1>4, <1>6, <1>7
<1>10. t.nextSplitID = nextSplitID'
  BY <1>2, <1>4, <1>5, <1>6, <1>7
<1>11. t.nextPaneID = nextPaneID'
  <2>1. nextPaneID \in Int
    BY DEF LayoutInv, LayoutType
  <2> QED BY <2>1, <1>1, <1>2, <1>6, <1>7
<1>12. t.stashed = stashed' /\ t.labels = labels' /\ t.attentions = attentions'
  BY <1>1, <1>6, <1>7
<1>13. t.tools = WithTool(copy.tools, d, tool)
  BY <1>2, <1>4, <1>7 DEF WithTool
<1> QED BY <1>7, <1>8, <1>9, <1>10, <1>11, <1>12, <1>13 DEF CopyInv

\* The copy after a move: the layout left and the layout entered
LEMMA MovePaneCopy ==
  ASSUME LayoutInv, ToolInv, CopyInv, NEW p \in PaneID, NEW w \in Windows, NEW t \in PaneID \cup {0},
         NEW direction \in Directions \cup {NoDirection}, MovePane(p, w, t, direction)
  PROVE  CopyInv' /\ copy'.tools = copy.tools
<1> DEFINE from == paneWindow[p]
           left == RemoveLeaf(tree[from], p)
           into == IF w = from THEN left ELSE tree[w]
           m == IF t = 0 THEN Leaf(p) ELSE Insert(into, p, After(t, direction), nextSplitID)
           e == [kind |-> "pane_moved", pane |-> PaneRecord(p), source |-> WindowRecord(from),
                 window |-> WindowRecord(w)]
<1>1. /\ p \in panes /\ from \in Windows /\ from \in windows /\ w \in windows
      /\ left \in Layouts /\ Inserted(into, p, m)
      /\ tree' = [tree EXCEPT ![from] = left, ![w] = m]
  BY MovePaneInserts
<1>2. /\ paneWindow' = [paneWindow EXCEPT ![p] = w]
      /\ UNCHANGED <<windows, panes, nextPaneID, stashed, toolOf, labels, attentions>>
      /\ copy' = ApplyEvent(copy, e)
  BY DEF MovePane, toolVars, attentionVars, Publish
<1>3. /\ e.kind = "pane_moved"
      /\ e.window.id = w /\ e.window.layout = tree'[w]
      /\ e.source.id = from /\ e.source.layout = tree'[from]
      /\ e.pane.id = p /\ e.pane.window = paneWindow'[p] /\ e.pane.tool = toolOf'[p]
  BY DEF PaneRecord, WindowRecord
<1> HIDE DEF e, from, left, into, m
<1>4. /\ tree \in [Windows -> Layouts] /\ paneWindow \in [PaneID -> Windows \cup {0}]
      /\ toolOf \in [PaneID -> Instances \cup {None}]
  BY DEF LayoutInv, LayoutType, ToolInv
<1>5. tree'[w] = m /\ paneWindow'[p] = w /\ toolOf'[p] = toolOf[p]
  BY <1>1, <1>2, <1>4
<1>6. nextSplitID' = Max({nextSplitID} \cup {id + 1 : id \in SplitIDs(m)})
  BY <1>1, InsertedBump
<1>7. /\ IsSnapshot(copy)
      /\ copy.windows = windows /\ copy.tree = tree /\ copy.nextSplitID = nextSplitID
      /\ copy.panes = panes /\ copy.nextPaneID = nextPaneID /\ copy.paneWindow = paneWindow
      /\ copy.stashed = stashed /\ copy.toolOf = toolOf /\ copy.labels = labels
      /\ copy.attentions = attentions
  BY DEF CopyInv
<1> DEFINE r == ApplyEvent(copy, e)
<1>8. /\ IsSnapshot(r)
      /\ r.windows = (copy.windows \cup {e.source.id}) \cup {e.window.id}
      /\ r.tree = [[copy.tree EXCEPT ![e.source.id] = e.source.layout]
                         EXCEPT ![e.window.id] = e.window.layout]
      /\ r.nextSplitID = Max({copy.nextSplitID} \cup {id + 1 : id \in SplitIDs(e.window.layout)})
      /\ r.panes = copy.panes \cup {e.pane.id}
      /\ r.paneWindow = [copy.paneWindow EXCEPT ![e.pane.id] = e.pane.window]
      /\ r.toolOf = [copy.toolOf EXCEPT ![e.pane.id] = e.pane.tool]
      /\ r.nextPaneID = copy.nextPaneID /\ r.stashed = copy.stashed /\ r.tools = copy.tools
      /\ r.labels = copy.labels /\ r.attentions = copy.attentions
  BY <1>3, <1>7, PaneMovedFields
<1> HIDE DEF r
<1>9. copy' = r
  BY <1>2 DEF r
<1>10. r.tree = tree'
  <2>1. [tree EXCEPT ![from] = tree'[from], ![w] = tree'[w]] = tree'
    BY <1>1, <1>4
  <2> QED BY <2>1, <1>3, <1>7, <1>8
<1>11. r.windows = windows' /\ r.panes = panes' /\ r.paneWindow = paneWindow' /\ r.toolOf = toolOf'
  BY <1>1, <1>2, <1>3, <1>4, <1>5, <1>7, <1>8
<1>12. r.nextSplitID = nextSplitID'
  BY <1>3, <1>5, <1>6, <1>7, <1>8
<1>13. /\ r.nextPaneID = nextPaneID' /\ r.stashed = stashed' /\ r.labels = labels'
       /\ r.attentions = attentions' /\ r.tools = copy.tools
  BY <1>2, <1>7, <1>8
<1> QED BY <1>8, <1>9, <1>10, <1>11, <1>12, <1>13 DEF CopyInv

\* The copy after new weights
LEMMA ResizeSplitCopy ==
  ASSUME LayoutInv, CopyInv, NEW id \in SplitID, NEW ws \in ResizeTo, ResizeSplit(id, ws)
  PROVE  CopyInv' /\ copy'.tools = copy.tools
<1>0. PICK w \in windows :
        /\ tree' = [tree EXCEPT ![w] = WithWeights(@, id, ws)]
        /\ UNCHANGED <<windows, nextSplitID, panes, nextPaneID, paneWindow, stashed, toolOf, labels,
                       attentions>>
        /\ copy' = ApplyEvent(copy, [kind |-> "split_resized", window |-> WindowRecord(w)])
  BY DEF ResizeSplit, toolVars, attentionVars, Publish
<1> DEFINE e == [kind |-> "split_resized", window |-> WindowRecord(w)]
<1>1. copy' = ApplyEvent(copy, e)
  BY <1>0
<1>2. e.kind = "split_resized" /\ e.window.id = w /\ e.window.layout = tree'[w]
  BY DEF WindowRecord
<1> HIDE DEF e
<1>3. /\ IsSnapshot(copy)
      /\ copy.windows = windows /\ copy.tree = tree /\ copy.nextSplitID = nextSplitID
      /\ copy.panes = panes /\ copy.nextPaneID = nextPaneID /\ copy.paneWindow = paneWindow
      /\ copy.stashed = stashed /\ copy.toolOf = toolOf /\ copy.labels = labels
      /\ copy.attentions = attentions
  BY DEF CopyInv
<1> DEFINE r == ApplyEvent(copy, e)
<1>4. /\ IsSnapshot(r)
      /\ r.windows = copy.windows \cup {e.window.id}
      /\ r.tree = [copy.tree EXCEPT ![e.window.id] = e.window.layout]
      /\ r.nextSplitID = copy.nextSplitID /\ r.panes = copy.panes
      /\ r.nextPaneID = copy.nextPaneID /\ r.paneWindow = copy.paneWindow
      /\ r.stashed = copy.stashed /\ r.toolOf = copy.toolOf /\ r.tools = copy.tools
      /\ r.labels = copy.labels /\ r.attentions = copy.attentions
  BY <1>2, <1>3, SplitResizedFields
<1> HIDE DEF r
<1>5. copy' = r
  BY <1>1 DEF r
<1>6. r.windows = windows' /\ r.tree = tree'
  <2>1. tree \in [Windows -> Layouts] /\ w \in Windows
    BY DEF LayoutInv, LayoutType
  <2>2. tree' = [tree EXCEPT ![w] = tree'[w]]
    BY <2>1, <1>0
  <2> QED BY <2>2, <1>0, <1>2, <1>3, <1>4
<1>7. /\ r.nextSplitID = nextSplitID' /\ r.panes = panes' /\ r.nextPaneID = nextPaneID'
      /\ r.paneWindow = paneWindow' /\ r.stashed = stashed' /\ r.toolOf = toolOf'
      /\ r.labels = labels' /\ r.attentions = attentions' /\ r.tools = copy.tools
  BY <1>0, <1>3, <1>4
<1> QED BY <1>4, <1>5, <1>6, <1>7 DEF CopyInv

\* The copy after a pane was stashed
LEMMA StashPaneCopy ==
  ASSUME LayoutInv, ToolInv, CopyInv, NEW p \in PaneID, StashPane(p)
  PROVE  CopyInv' /\ copy'.tools = copy.tools
<1> DEFINE e == [kind |-> "pane_stashed", pane |-> PaneRecord(p),
                 window |-> WindowRecord(paneWindow[p]), hint |-> stashed'[p]]
<1>1. /\ copy' = ApplyEvent(copy, e)
      /\ UNCHANGED <<windows, nextSplitID, panes, nextPaneID, paneWindow, toolOf, labels, attentions>>
      /\ p \in panes
      /\ stashed' = [stashed EXCEPT ![p] = Stashed(HintFor(tree[paneWindow[p]], p), paneWindow[p])]
      /\ tree' = [tree EXCEPT ![paneWindow[p]] = RemoveLeaf(@, p)]
  BY DEF StashPane, OnScreen, toolVars, attentionVars, Publish
<1>2. /\ e.kind = "pane_stashed" /\ e.hint = stashed'[p]
      /\ e.window.id = paneWindow[p] /\ e.window.layout = tree'[paneWindow[p]]
      /\ e.pane.id = p /\ e.pane.window = paneWindow'[p] /\ e.pane.tool = toolOf'[p]
  BY DEF PaneRecord, WindowRecord
<1> HIDE DEF e
<1>3. /\ IsSnapshot(copy)
      /\ copy.windows = windows /\ copy.tree = tree /\ copy.nextSplitID = nextSplitID
      /\ copy.panes = panes /\ copy.nextPaneID = nextPaneID /\ copy.paneWindow = paneWindow
      /\ copy.stashed = stashed /\ copy.toolOf = toolOf /\ copy.labels = labels
      /\ copy.attentions = attentions
  BY DEF CopyInv
<1> DEFINE r == ApplyEvent(copy, e)
<1>4. /\ IsSnapshot(r)
      /\ r.windows = copy.windows \cup {e.window.id}
      /\ r.tree = [copy.tree EXCEPT ![e.window.id] = e.window.layout]
      /\ r.panes = copy.panes \cup {e.pane.id}
      /\ r.paneWindow = [copy.paneWindow EXCEPT ![e.pane.id] = e.pane.window]
      /\ r.stashed = [copy.stashed EXCEPT ![e.pane.id] = e.hint]
      /\ r.toolOf = [copy.toolOf EXCEPT ![e.pane.id] = e.pane.tool]
      /\ r.nextSplitID = copy.nextSplitID /\ r.nextPaneID = copy.nextPaneID
      /\ r.tools = copy.tools /\ r.labels = copy.labels /\ r.attentions = copy.attentions
  BY <1>2, <1>3, PaneStashedFields
<1> HIDE DEF r
<1>5. copy' = r
  BY <1>1 DEF r
<1>6. /\ tree \in [Windows -> Layouts] /\ paneWindow \in [PaneID -> Windows \cup {0}]
      /\ toolOf \in [PaneID -> Instances \cup {None}] /\ stashed \in [PaneID -> StashHints]
      /\ paneWindow[p] \in Windows
  BY <1>1 DEF LayoutInv, LayoutType, PlaceInv, ToolInv
<1>7. paneWindow[p] \in windows
  BY <1>1, PaneOut DEF StashPane
<1>8. /\ tree' = [tree EXCEPT ![paneWindow[p]] = tree'[paneWindow[p]]]
      /\ stashed' = [stashed EXCEPT ![p] = stashed'[p]]
      /\ paneWindow' = [paneWindow EXCEPT ![p] = paneWindow'[p]]
      /\ toolOf' = [toolOf EXCEPT ![p] = toolOf'[p]]
  BY <1>1, <1>6
<1>9. /\ r.windows = windows' /\ r.tree = tree' /\ r.panes = panes' /\ r.paneWindow = paneWindow'
      /\ r.stashed = stashed' /\ r.toolOf = toolOf'
  BY <1>1, <1>2, <1>3, <1>4, <1>7, <1>8
<1>10. /\ r.nextSplitID = nextSplitID' /\ r.nextPaneID = nextPaneID'
       /\ r.labels = labels' /\ r.attentions = attentions' /\ r.tools = copy.tools
  BY <1>1, <1>3, <1>4
<1> QED BY <1>4, <1>5, <1>9, <1>10 DEF CopyInv

\* The copy after a pane came back
LEMMA RestorePaneCopy ==
  ASSUME LayoutInv, ToolInv, CopyInv, NEW p \in PaneID, NEW place, Restorable(place),
         RestorePane(p, place)
  PROVE  CopyInv' /\ copy'.tools = copy.tools
<1> DEFINE e == [kind |-> "pane_restored", pane |-> PaneRecord(p),
                 window |-> WindowRecord(place.window)]
<1>1. /\ copy' = ApplyEvent(copy, e)
      /\ UNCHANGED <<windows, panes, nextPaneID, toolOf, labels, attentions>>
      /\ p \in panes
      /\ place.window \in windows
      /\ stashed' = [stashed EXCEPT ![p] = NotStashed]
      /\ paneWindow' = [paneWindow EXCEPT ![p] = place.window]
  BY DEF RestorePane, toolVars, attentionVars, Publish
<1>2. /\ e.kind = "pane_restored"
      /\ e.window.id = place.window /\ e.window.layout = tree'[place.window]
      /\ e.pane.id = p /\ e.pane.window = paneWindow'[p] /\ e.pane.tool = toolOf'[p]
  BY DEF PaneRecord, WindowRecord
<1> HIDE DEF e
<1>3. /\ IsSnapshot(copy)
      /\ copy.windows = windows /\ copy.tree = tree /\ copy.nextSplitID = nextSplitID
      /\ copy.panes = panes /\ copy.nextPaneID = nextPaneID /\ copy.paneWindow = paneWindow
      /\ copy.stashed = stashed /\ copy.toolOf = toolOf /\ copy.labels = labels
      /\ copy.attentions = attentions
  BY DEF CopyInv
<1> DEFINE r == ApplyEvent(copy, e)
<1>4. /\ IsSnapshot(r)
      /\ r.windows = copy.windows \cup {e.window.id}
      /\ r.tree = [copy.tree EXCEPT ![e.window.id] = e.window.layout]
      /\ r.nextSplitID = Max({copy.nextSplitID} \cup {id + 1 : id \in SplitIDs(e.window.layout)})
      /\ r.panes = copy.panes \cup {e.pane.id}
      /\ r.paneWindow = [copy.paneWindow EXCEPT ![e.pane.id] = e.pane.window]
      /\ r.stashed = [copy.stashed EXCEPT ![e.pane.id] = NotStashed]
      /\ r.toolOf = [copy.toolOf EXCEPT ![e.pane.id] = e.pane.tool]
      /\ r.nextPaneID = copy.nextPaneID /\ r.tools = copy.tools /\ r.labels = copy.labels
      /\ r.attentions = copy.attentions
  BY <1>2, <1>3, PaneRestoredFields
<1> HIDE DEF r
<1>5. copy' = r
  BY <1>1 DEF r
<1>6. /\ tree \in [Windows -> Layouts] /\ paneWindow \in [PaneID -> Windows \cup {0}]
      /\ toolOf \in [PaneID -> Instances \cup {None}] /\ stashed \in [PaneID -> StashHints]
      /\ paneWindow[p] \in Windows
  BY <1>1 DEF LayoutInv, LayoutType, PlaceInv, ToolInv
<1> DEFINE w == place.window
           id == IF OriginalSplitFree(p) THEN stashed[p].split ELSE nextSplitID
           m == IF tree[w] = Nil THEN Leaf(p) ELSE Insert(tree[w], p, place.at, id)
<1>7. Inserted(tree[w], p, m) /\ tree' = [tree EXCEPT ![w] = m]
  BY RestorePaneInserts
<1> HIDE DEF w, id, m
<1>8. w \in windows /\ w \in Windows /\ w = place.window
  BY <1>1 DEF LayoutInv, LayoutType, w
<1>9. nextSplitID' = Max({nextSplitID} \cup {j + 1 : j \in SplitIDs(m)})
  BY <1>7, InsertedBump
<1>10. tree'[w] = m
  BY <1>6, <1>7, <1>8
<1>11. /\ tree' = [tree EXCEPT ![w] = tree'[w]]
       /\ paneWindow' = [paneWindow EXCEPT ![p] = paneWindow'[p]]
       /\ toolOf' = [toolOf EXCEPT ![p] = toolOf'[p]]
  BY <1>1, <1>6, <1>7, <1>8
<1>12. /\ r.windows = windows' /\ r.tree = tree' /\ r.panes = panes' /\ r.paneWindow = paneWindow'
       /\ r.stashed = stashed' /\ r.toolOf = toolOf'
  BY <1>1, <1>2, <1>3, <1>4, <1>8, <1>11
<1>13. r.nextSplitID = nextSplitID'
  BY <1>2, <1>3, <1>4, <1>8, <1>9, <1>10
<1>14. /\ r.nextPaneID = nextPaneID' /\ r.labels = labels' /\ r.attentions = attentions'
       /\ r.tools = copy.tools
  BY <1>1, <1>3, <1>4
<1> QED BY <1>4, <1>5, <1>12, <1>13, <1>14 DEF CopyInv

\* The copy after a pane was closed, with what went with it
LEMMA ClosePaneCopy ==
  ASSUME LayoutInv, ToolInv, LabelInv, AttentionInv, CopyInv, NEW p \in PaneID, ClosePane(p)
  PROVE  LET d == toolOf[p]
             lastView == d # None /\ \A q \in panes \ {p} : toolOf[q] # d
         IN CopyInv' /\ copy'.tools = IF lastView THEN [copy.tools EXCEPT ![d] = NoTool] ELSE copy.tools
<1> DEFINE w == paneWindow[p]
           d == toolOf[p]
           lastView == d # None /\ \A q \in panes \ {p} : toolOf[q] # d
           goneLabels == {l \in labels : l.target = Target("pane", p)}
           gone == {a \in attentions : a.pane = p}
           e == [kind |-> "pane_closed", pane |-> [id |-> p],
                 window |-> IF w \in windows THEN WindowRecord(w) ELSE [id |-> 0],
                 labels |-> goneLabels, attentions |-> gone,
                 tool |-> IF lastView THEN d ELSE None]
<1>1. /\ p \in panes /\ copy' = ApplyEvent(copy, e)
      /\ tree' = (IF IsStashed(p) THEN tree ELSE [tree EXCEPT ![w] = RemoveLeaf(@, p)])
      /\ panes' = panes \ {p}
      /\ paneWindow' = [paneWindow EXCEPT ![p] = 0]
      /\ stashed' = [stashed EXCEPT ![p] = NotStashed]
      /\ toolOf' = [toolOf EXCEPT ![p] = None]
      /\ labels' = labels \ goneLabels
      /\ attentions' = attentions \ gone
      /\ UNCHANGED <<windows, nextSplitID, nextPaneID>>
  BY DEF ClosePane, Publish
<1>2. /\ e.kind = "pane_closed" /\ e.pane.id = p /\ e.labels = goneLabels /\ e.attentions = gone
      /\ e.tool = IF lastView THEN d ELSE None
      /\ w \in windows => e.window.id = w /\ e.window.layout = tree'[w]
      /\ w \notin windows => e.window.id = 0
  BY DEF WindowRecord
<1> HIDE DEF e
<1>3. /\ IsSnapshot(copy)
      /\ copy.windows = windows /\ copy.tree = tree /\ copy.nextSplitID = nextSplitID
      /\ copy.panes = panes /\ copy.nextPaneID = nextPaneID /\ copy.paneWindow = paneWindow
      /\ copy.stashed = stashed /\ copy.toolOf = toolOf /\ copy.labels = labels
      /\ copy.attentions = attentions
  BY DEF CopyInv
<1> DEFINE r == ApplyEvent(copy, e)
<1>4. /\ IsSnapshot(r)
      /\ r.windows = (IF e.window.id = 0 THEN copy.windows ELSE copy.windows \cup {e.window.id})
      /\ r.tree = (IF e.window.id = 0 THEN copy.tree
                    ELSE [copy.tree EXCEPT ![e.window.id] = e.window.layout])
      /\ r.panes = copy.panes \ {e.pane.id}
      /\ r.paneWindow = [copy.paneWindow EXCEPT ![e.pane.id] = 0]
      /\ r.stashed = [copy.stashed EXCEPT ![e.pane.id] = NotStashed]
      /\ r.toolOf = [copy.toolOf EXCEPT ![e.pane.id] = None]
      /\ r.tools = (IF e.tool = None THEN copy.tools ELSE [copy.tools EXCEPT ![e.tool] = NoTool])
      /\ r.labels = {m \in copy.labels : \A l \in e.labels : ~ SameKey(l, m)}
      /\ r.attentions = {a \in copy.attentions : \A g \in e.attentions : a.id # g.id}
      /\ r.nextSplitID = copy.nextSplitID /\ r.nextPaneID = copy.nextPaneID
  BY <1>2, <1>3, PaneClosedFields
<1> HIDE DEF r
<1>5. copy' = r
  BY <1>1 DEF r
<1>6. /\ tree \in [Windows -> Layouts] /\ windows \subseteq Windows /\ 0 \notin Windows
      /\ toolOf \in [PaneID -> Instances \cup {None}] /\ None \notin Instances
  BY ObjectsAssumption DEF LayoutInv, LayoutType, ToolInv, Windows
<1>7. r.windows = windows' /\ r.tree = tree'
  <2>1. CASE w \in windows
    <3>1. w \in Windows /\ w # 0
      BY <2>1, <1>6
    <3>2. tree' = [tree EXCEPT ![w] = tree'[w]]
      <4>1. CASE IsStashed(p)
        <5>1. tree' = tree
          BY <4>1, <1>1
        <5> QED BY <5>1, <3>1, <1>6
      <4>2. CASE ~ IsStashed(p)
        <5>1. tree' = [tree EXCEPT ![w] = RemoveLeaf(@, p)]
          BY <4>2, <1>1
        <5> QED BY <5>1, <3>1, <1>6
      <4> QED BY <4>1, <4>2
    <3>3. r.windows = windows \cup {w} /\ r.tree = [tree EXCEPT ![w] = tree'[w]]
      BY <2>1, <3>1, <1>2, <1>3, <1>4
    <3> HIDE DEF w
    <3> QED BY <2>1, <3>2, <3>3, <1>1
  <2>2. CASE w \notin windows
    <3>1. IsStashed(p)
      BY <2>2, <1>1, PaneOut DEF OnScreen
    <3> QED BY <2>2, <3>1, <1>1, <1>2, <1>3, <1>4
  <2> QED BY <2>1, <2>2
<1>8. r.labels = labels'
  <2>1. \A l \in goneLabels : \A m \in labels : SameKey(l, m) => m \in goneLabels
    BY DEF SameKey
  <2>2. \A l \in goneLabels : SameKey(l, l)
    BY DEF SameKey
  <2>3. goneLabels \subseteq labels
    OBVIOUS
  <2> HIDE DEF goneLabels
  <2> QED BY <2>1, <2>2, <2>3, <1>1, <1>2, <1>3, <1>4
<1>9. r.attentions = attentions'
  <2>1. \A a, b \in attentions : a.id = b.id => a = b
    BY DEF AttentionInv, Indexed
  <2>2. gone \subseteq attentions
    OBVIOUS
  <2> HIDE DEF gone
  <2> QED BY <2>1, <2>2, <1>1, <1>2, <1>3, <1>4
<1>10. r.tools = IF lastView THEN [copy.tools EXCEPT ![d] = NoTool] ELSE copy.tools
  <2>1. lastView => d # None
    OBVIOUS
  <2> HIDE DEF lastView, d
  <2> QED BY <2>1, <1>2, <1>4
<1>11. /\ r.panes = panes' /\ r.paneWindow = paneWindow' /\ r.stashed = stashed'
       /\ r.toolOf = toolOf' /\ r.nextSplitID = nextSplitID' /\ r.nextPaneID = nextPaneID'
  BY <1>1, <1>2, <1>3, <1>4
<1> HIDE DEF lastView, d
<1>12. CopyInv'
  BY <1>4, <1>5, <1>7, <1>8, <1>9, <1>11 DEF CopyInv
<1> QED BY <1>5, <1>10, <1>12 DEF lastView, d

\* Who goes for a new attention was there, or is the new one.
LEMMA RaiseNewEvicts ==
  ASSUME AttentionInv, NEW p \in PaneID, NEW source \in Sources, NEW value \in Values,
         NEW at \in 1 .. TimeLimit
  PROVE  LET a == [id |-> nextAttentionID, pane |-> p, source |-> source, value |-> value,
                   updated |-> at, acked |-> 0]
         IN Evicted(attentions \cup {a}) \subseteq attentions \cup {a}
<1> DEFINE a == [id |-> nextAttentionID, pane |-> p, source |-> source, value |-> value,
                 updated |-> at, acked |-> 0]
           all == attentions \cup {a}
<1>1. /\ Indexed(attentions, attentionKeys, nextAttentionID) /\ nextAttentionID \in Nat \ {0}
      /\ IsFiniteSet(attentions) /\ Cardinality(attentions) <= AttentionLimit
  BY DEF AttentionInv
<1>2. a \in Attention /\ a.id = nextAttentionID
  BY <1>1 DEF Attention
<1> HIDE DEF a
<1>3. all \in SUBSET Attention
  BY <1>1, <1>2 DEF Indexed
<1>4. \A b, c \in all : b.id = c.id => b = c
  <2>1. \A b \in attentions : b.id \in Nat /\ b.id < nextAttentionID
    BY <1>1 DEF Indexed, Attention
  <2>2. \A b \in attentions : b.id # a.id
    BY <2>1, <1>1, <1>2
  <2> QED BY <2>2, <1>1 DEF Indexed
<1>5. /\ IsFiniteSet(all)
      /\ Cardinality(all) = IF a \in attentions THEN Cardinality(attentions) ELSE Cardinality(attentions) + 1
  BY <1>1, FS_AddElement
<1>6. Cardinality(attentions) \in Nat /\ AttentionLimit \in Nat
  BY <1>1, FS_CardinalityType, ObjectsAssumption
<1>7. Cardinality(all) <= AttentionLimit + 1
  BY <1>1, <1>5, <1>6
<1> HIDE DEF all
<1>8. Evicted(all) \subseteq all
  BY <1>3, <1>4, <1>5, <1>7, EvictedFacts
<1> QED BY <1>8 DEF all, a

\* The copy after a window was deleted, with its labels
LEMMA DeleteWindowCopy ==
  ASSUME CopyInv, NEW w \in Windows, DeleteWindow(w)
  PROVE  CopyInv' /\ copy'.tools = copy.tools
<1> DEFINE gone == {l \in labels : l.target = Target("window", w)}
           e == [kind |-> "window_deleted", window |-> [id |-> w], labels |-> gone]
<1>1. /\ copy' = ApplyEvent(copy, e)
      /\ windows' = windows \ {w}
      /\ labels' = labels \ gone
      /\ UNCHANGED <<tree, nextSplitID, panes, nextPaneID, paneWindow, stashed, toolOf,
                     attentions>>
  BY DEF DeleteWindow, toolVars, attentionVars, Publish
<1>2. e.kind = "window_deleted" /\ e.window.id = w /\ e.labels = gone
  OBVIOUS
<1> HIDE DEF e
<1>3. /\ IsSnapshot(copy)
      /\ copy.windows = windows /\ copy.tree = tree /\ copy.nextSplitID = nextSplitID
      /\ copy.panes = panes /\ copy.nextPaneID = nextPaneID /\ copy.paneWindow = paneWindow
      /\ copy.stashed = stashed /\ copy.toolOf = toolOf /\ copy.labels = labels
      /\ copy.attentions = attentions
  BY DEF CopyInv
<1> DEFINE r == ApplyEvent(copy, e)
<1>4. /\ IsSnapshot(r)
      /\ r.windows = copy.windows \ {e.window.id}
      /\ r.labels = {m \in copy.labels : \A l \in e.labels : ~ SameKey(l, m)}
      /\ r.tree = copy.tree /\ r.nextSplitID = copy.nextSplitID /\ r.panes = copy.panes
      /\ r.nextPaneID = copy.nextPaneID /\ r.paneWindow = copy.paneWindow
      /\ r.stashed = copy.stashed /\ r.toolOf = copy.toolOf /\ r.tools = copy.tools
      /\ r.attentions = copy.attentions
  BY <1>2, <1>3, WindowDeletedFields
<1> HIDE DEF r
<1>5. copy' = r
  BY <1>1 DEF r
<1>6. /\ r.tree = tree' /\ r.nextSplitID = nextSplitID' /\ r.panes = panes'
      /\ r.nextPaneID = nextPaneID' /\ r.paneWindow = paneWindow' /\ r.stashed = stashed'
      /\ r.toolOf = toolOf' /\ r.attentions = attentions'
  BY <1>1, <1>3, <1>4
<1>7. r.labels = labels' /\ r.windows = windows'
  <2>1. \A l \in gone : \A m \in labels : SameKey(l, m) => m \in gone
    BY DEF SameKey
  <2>2. \A l \in gone : SameKey(l, l)
    BY DEF SameKey
  <2>3. gone \subseteq labels
    OBVIOUS
  <2> HIDE DEF gone
  <2> QED BY <2>1, <2>2, <2>3, <1>1, <1>2, <1>3, <1>4
<1>8. r.tools = copy.tools
  BY <1>4
<1> QED BY <1>4, <1>5, <1>6, <1>7, <1>8 DEF CopyInv

\* The copy after a label was set
LEMMA SetLabelCopy ==
  ASSUME CopyInv, NEW t, NEW source, NEW value, SetLabel(t, source, value)
  PROVE  CopyInv' /\ copy'.tools = copy.tools
<1> DEFINE l == [target |-> t, source |-> source, value |-> value]
           e == [kind |-> "label_set", label |-> l]
<1>1. /\ copy' = ApplyEvent(copy, e)
      /\ labels' = {m \in labels : ~ SameKey(l, m)} \cup {l}
      /\ UNCHANGED <<windows, tree, nextSplitID, panes, nextPaneID, paneWindow, stashed,
                     toolOf, attentions>>
  BY DEF SetLabel, labelOnly, layoutVars, toolVars, attentionVars, Publish
<1>2. e.kind = "label_set" /\ e.label = l
  OBVIOUS
<1> HIDE DEF e
<1>3. /\ IsSnapshot(copy)
      /\ copy.windows = windows /\ copy.tree = tree /\ copy.nextSplitID = nextSplitID
      /\ copy.panes = panes /\ copy.nextPaneID = nextPaneID /\ copy.paneWindow = paneWindow
      /\ copy.stashed = stashed /\ copy.toolOf = toolOf /\ copy.labels = labels
      /\ copy.attentions = attentions
  BY DEF CopyInv
<1> DEFINE r == ApplyEvent(copy, e)
<1>4. /\ IsSnapshot(r)
      /\ r.labels = {m \in copy.labels : ~ SameKey(e.label, m)} \cup {e.label}
      /\ r.windows = copy.windows /\ r.tree = copy.tree /\ r.nextSplitID = copy.nextSplitID
      /\ r.panes = copy.panes /\ r.nextPaneID = copy.nextPaneID
      /\ r.paneWindow = copy.paneWindow /\ r.stashed = copy.stashed /\ r.toolOf = copy.toolOf
      /\ r.tools = copy.tools /\ r.attentions = copy.attentions
  BY <1>2, <1>3, LabelSetFields
<1> HIDE DEF r
<1>5. copy' = r
  BY <1>1 DEF r
<1>6. /\ r.windows = windows' /\ r.tree = tree' /\ r.nextSplitID = nextSplitID'
      /\ r.panes = panes' /\ r.nextPaneID = nextPaneID' /\ r.paneWindow = paneWindow'
      /\ r.stashed = stashed' /\ r.toolOf = toolOf' /\ r.attentions = attentions'
  BY <1>1, <1>3, <1>4
<1>7. r.labels = labels'
  BY <1>1, <1>2, <1>3, <1>4
<1>8. r.tools = copy.tools
  BY <1>4
<1> QED BY <1>4, <1>5, <1>6, <1>7, <1>8 DEF CopyInv

\* The copy after a label was removed
LEMMA RemoveLabelCopy ==
  ASSUME LabelInv, CopyInv, NEW l \in labels, RemoveLabel(l)
  PROVE  CopyInv' /\ copy'.tools = copy.tools
<1> DEFINE gone == {l}
           e == [kind |-> "label_removed", labels |-> gone]
<1>1. /\ copy' = ApplyEvent(copy, e)
      /\ labels' = labels \ gone
      /\ UNCHANGED <<windows, tree, nextSplitID, panes, nextPaneID, paneWindow, stashed,
                     toolOf, attentions>>
  BY DEF RemoveLabel, labelOnly, layoutVars, toolVars, attentionVars, Publish
<1>2. e.kind = "label_removed" /\ e.labels = gone
  OBVIOUS
<1> HIDE DEF e
<1>3. /\ IsSnapshot(copy)
      /\ copy.windows = windows /\ copy.tree = tree /\ copy.nextSplitID = nextSplitID
      /\ copy.panes = panes /\ copy.nextPaneID = nextPaneID /\ copy.paneWindow = paneWindow
      /\ copy.stashed = stashed /\ copy.toolOf = toolOf /\ copy.labels = labels
      /\ copy.attentions = attentions
  BY DEF CopyInv
<1> DEFINE r == ApplyEvent(copy, e)
<1>4. /\ IsSnapshot(r)
      /\ r.labels = {m \in copy.labels : \A k \in e.labels : ~ SameKey(k, m)}
      /\ r.windows = copy.windows /\ r.tree = copy.tree /\ r.nextSplitID = copy.nextSplitID
      /\ r.panes = copy.panes /\ r.nextPaneID = copy.nextPaneID
      /\ r.paneWindow = copy.paneWindow /\ r.stashed = copy.stashed /\ r.toolOf = copy.toolOf
      /\ r.tools = copy.tools /\ r.attentions = copy.attentions
  BY <1>2, <1>3, LabelRemovedFields
<1> HIDE DEF r
<1>5. copy' = r
  BY <1>1 DEF r
<1>6. /\ r.windows = windows' /\ r.tree = tree' /\ r.nextSplitID = nextSplitID'
      /\ r.panes = panes' /\ r.nextPaneID = nextPaneID' /\ r.paneWindow = paneWindow'
      /\ r.stashed = stashed' /\ r.toolOf = toolOf' /\ r.attentions = attentions'
  BY <1>1, <1>3, <1>4
<1>7. r.labels = labels'
  <2>1. \A k \in gone : \A m \in labels : SameKey(k, m) => m \in gone
    BY DEF LabelInv
  <2>2. \A k \in gone : SameKey(k, k)
    BY DEF SameKey
  <2>3. gone \subseteq labels
    OBVIOUS
  <2> HIDE DEF gone
  <2> QED BY <2>1, <2>2, <2>3, <1>1, <1>2, <1>3, <1>4
<1>8. r.tools = copy.tools
  BY <1>4
<1> QED BY <1>4, <1>5, <1>6, <1>7, <1>8 DEF CopyInv

\* The copy after the labels of a source were removed
LEMMA RemoveLabelsBySourceCopy ==
  ASSUME CopyInv, NEW source, RemoveLabelsBySource(source)
  PROVE  CopyInv' /\ copy'.tools = copy.tools
<1> DEFINE gone == {l \in labels : l.source = source}
           e == [kind |-> "label_source_cleared", labels |-> gone]
<1>1. /\ copy' = ApplyEvent(copy, e)
      /\ labels' = labels \ gone
      /\ UNCHANGED <<windows, tree, nextSplitID, panes, nextPaneID, paneWindow, stashed,
                     toolOf, attentions>>
  BY DEF RemoveLabelsBySource, labelOnly, layoutVars, toolVars, attentionVars, Publish
<1>2. e.kind = "label_source_cleared" /\ e.labels = gone
  OBVIOUS
<1> HIDE DEF e
<1>3. /\ IsSnapshot(copy)
      /\ copy.windows = windows /\ copy.tree = tree /\ copy.nextSplitID = nextSplitID
      /\ copy.panes = panes /\ copy.nextPaneID = nextPaneID /\ copy.paneWindow = paneWindow
      /\ copy.stashed = stashed /\ copy.toolOf = toolOf /\ copy.labels = labels
      /\ copy.attentions = attentions
  BY DEF CopyInv
<1> DEFINE r == ApplyEvent(copy, e)
<1>4. /\ IsSnapshot(r)
      /\ r.labels = {m \in copy.labels : \A l \in e.labels : ~ SameKey(l, m)}
      /\ r.windows = copy.windows /\ r.tree = copy.tree /\ r.nextSplitID = copy.nextSplitID
      /\ r.panes = copy.panes /\ r.nextPaneID = copy.nextPaneID
      /\ r.paneWindow = copy.paneWindow /\ r.stashed = copy.stashed /\ r.toolOf = copy.toolOf
      /\ r.tools = copy.tools /\ r.attentions = copy.attentions
  BY <1>2, <1>3, LabelSourceClearedFields
<1> HIDE DEF r
<1>5. copy' = r
  BY <1>1 DEF r
<1>6. /\ r.windows = windows' /\ r.tree = tree' /\ r.nextSplitID = nextSplitID'
      /\ r.panes = panes' /\ r.nextPaneID = nextPaneID' /\ r.paneWindow = paneWindow'
      /\ r.stashed = stashed' /\ r.toolOf = toolOf' /\ r.attentions = attentions'
  BY <1>1, <1>3, <1>4
<1>7. r.labels = labels'
  <2>1. \A l \in gone : \A m \in labels : SameKey(l, m) => m \in gone
    BY DEF SameKey
  <2>2. \A l \in gone : SameKey(l, l)
    BY DEF SameKey
  <2>3. gone \subseteq labels
    OBVIOUS
  <2> HIDE DEF gone
  <2> QED BY <2>1, <2>2, <2>3, <1>1, <1>2, <1>3, <1>4
<1>8. r.tools = copy.tools
  BY <1>4
<1> QED BY <1>4, <1>5, <1>6, <1>7, <1>8 DEF CopyInv

\* The copy after a new attention, without the one that left for it
LEMMA RaiseNewCopy ==
  ASSUME AttentionInv, CopyInv, NEW p \in PaneID, NEW source \in Sources, NEW value \in Values,
         NEW at \in 1 .. TimeLimit, RaiseNew(p, source, value, at)
  PROVE  CopyInv' /\ copy'.tools = copy.tools
<1> DEFINE a == [id |-> nextAttentionID, pane |-> p, source |-> source, value |-> value,
                 updated |-> at, acked |-> 0]
           gone == Evicted(attentions \cup {a})
           e == [kind |-> "attention_changed", attention |-> a, removed |-> gone]
<1>1. /\ copy' = ApplyEvent(copy, e)
      /\ attentions' = (attentions \cup {a}) \ gone
      /\ UNCHANGED <<windows, tree, nextSplitID, panes, nextPaneID, paneWindow, stashed,
                     toolOf, labels>>
  BY DEF RaiseNew, attentionOnly, layoutVars, toolVars, Publish
<1>2. e.kind = "attention_changed" /\ e.attention = a /\ e.removed = gone
  OBVIOUS
<1> HIDE DEF e
<1>3. /\ IsSnapshot(copy)
      /\ copy.windows = windows /\ copy.tree = tree /\ copy.nextSplitID = nextSplitID
      /\ copy.panes = panes /\ copy.nextPaneID = nextPaneID /\ copy.paneWindow = paneWindow
      /\ copy.stashed = stashed /\ copy.toolOf = toolOf /\ copy.labels = labels
      /\ copy.attentions = attentions
  BY DEF CopyInv
<1> DEFINE r == ApplyEvent(copy, e)
<1>4. /\ IsSnapshot(r)
      /\ r.attentions = {b \in {c \in copy.attentions : c.id # e.attention.id} \cup {e.attention} :
                           \A g \in e.removed : b.id # g.id}
      /\ r.windows = copy.windows /\ r.tree = copy.tree /\ r.nextSplitID = copy.nextSplitID
      /\ r.panes = copy.panes /\ r.nextPaneID = copy.nextPaneID
      /\ r.paneWindow = copy.paneWindow /\ r.stashed = copy.stashed /\ r.toolOf = copy.toolOf
      /\ r.tools = copy.tools /\ r.labels = copy.labels
  BY <1>2, <1>3, AttentionChangedFields
<1> HIDE DEF r
<1>5. copy' = r
  BY <1>1 DEF r
<1>6. /\ r.windows = windows' /\ r.tree = tree' /\ r.nextSplitID = nextSplitID'
      /\ r.panes = panes' /\ r.nextPaneID = nextPaneID' /\ r.paneWindow = paneWindow'
      /\ r.stashed = stashed' /\ r.toolOf = toolOf' /\ r.labels = labels'
  BY <1>1, <1>3, <1>4
<1>7. r.attentions = attentions'
  <2>0. a.id = nextAttentionID
    OBVIOUS
  <2> HIDE DEF gone, a
  <2>1. /\ attentions \in SUBSET Attention /\ \A b \in attentions : b.id < nextAttentionID
        /\ \A b, c \in attentions : b.id = c.id => b = c
        /\ nextAttentionID \in Nat
    BY DEF AttentionInv, Indexed
  <2>2. \A b \in attentions : b.id \in Nat
    BY <2>1 DEF Attention
  <2>3. \A b \in attentions : b.id # a.id
    BY <2>0, <2>1, <2>2
  <2>4. gone \subseteq attentions \cup {a}
    BY RaiseNewEvicts DEF gone, a
  <2>5. r.attentions = {b \in {c \in attentions : c.id # a.id} \cup {a} : \A g \in gone : b.id # g.id}
    BY <1>2, <1>3, <1>4
  <2>6. {c \in attentions : c.id # a.id} = attentions
    BY <2>3
  <2>7. \A b, g \in attentions \cup {a} : b.id = g.id => b = g
    BY <2>1, <2>3
  <2> QED BY <2>4, <2>5, <2>6, <2>7, <1>1
<1>8. r.tools = copy.tools
  BY <1>4
<1> QED BY <1>4, <1>5, <1>6, <1>7, <1>8 DEF CopyInv

\* The copy after an attention was raised again
LEMMA RaiseAgainCopy ==
  ASSUME AttentionInv, CopyInv, NEW a \in attentions, NEW value \in Values, NEW at \in 1 .. TimeLimit,
         RaiseAgain(a, value, at)
  PROVE  CopyInv' /\ copy'.tools = copy.tools
<1> DEFINE b == [a EXCEPT !.value = value, !.updated = at, !.acked = 0]
           e == [kind |-> "attention_changed", attention |-> b, removed |-> {}]
<1>1. /\ copy' = ApplyEvent(copy, e)
      /\ attentions' = (attentions \ {a}) \cup {b}
      /\ UNCHANGED <<windows, tree, nextSplitID, panes, nextPaneID, paneWindow, stashed,
                     toolOf, labels>>
  BY DEF RaiseAgain, attentionOnly, layoutVars, toolVars, Publish
<1>2. e.kind = "attention_changed" /\ e.attention = b /\ e.removed = {}
  OBVIOUS
<1> HIDE DEF e
<1>3. /\ IsSnapshot(copy)
      /\ copy.windows = windows /\ copy.tree = tree /\ copy.nextSplitID = nextSplitID
      /\ copy.panes = panes /\ copy.nextPaneID = nextPaneID /\ copy.paneWindow = paneWindow
      /\ copy.stashed = stashed /\ copy.toolOf = toolOf /\ copy.labels = labels
      /\ copy.attentions = attentions
  BY DEF CopyInv
<1> DEFINE r == ApplyEvent(copy, e)
<1>4. /\ IsSnapshot(r)
      /\ r.attentions = {o \in {c \in copy.attentions : c.id # e.attention.id} \cup {e.attention} :
                           \A g \in e.removed : o.id # g.id}
      /\ r.windows = copy.windows /\ r.tree = copy.tree /\ r.nextSplitID = copy.nextSplitID
      /\ r.panes = copy.panes /\ r.nextPaneID = copy.nextPaneID
      /\ r.paneWindow = copy.paneWindow /\ r.stashed = copy.stashed /\ r.toolOf = copy.toolOf
      /\ r.tools = copy.tools /\ r.labels = copy.labels
  BY <1>2, <1>3, AttentionChangedFields
<1> HIDE DEF r
<1>5. copy' = r
  BY <1>1 DEF r
<1>6. /\ r.windows = windows' /\ r.tree = tree' /\ r.nextSplitID = nextSplitID'
      /\ r.panes = panes' /\ r.nextPaneID = nextPaneID' /\ r.paneWindow = paneWindow'
      /\ r.stashed = stashed' /\ r.toolOf = toolOf' /\ r.labels = labels'
  BY <1>1, <1>3, <1>4
<1>7. r.attentions = attentions'
  <2>0. b.id = a.id
    BY DEF AttentionInv, Indexed, Attention
  <2> HIDE DEF b
  <2>1. \A c, d \in attentions : c.id = d.id => c = d
    BY DEF AttentionInv, Indexed
  <2>2. r.attentions = {c \in attentions : c.id # b.id} \cup {b}
    BY <1>2, <1>3, <1>4
  <2>3. {c \in attentions : c.id # b.id} = attentions \ {a}
    BY <2>0, <2>1
  <2> QED BY <2>2, <2>3, <1>1
<1>8. r.tools = copy.tools
  BY <1>4
<1> QED BY <1>4, <1>5, <1>6, <1>7, <1>8 DEF CopyInv

\* The copy after an attention was acknowledged
LEMMA AcknowledgeCopy ==
  ASSUME AttentionInv, CopyInv, NEW a \in attentions, NEW at \in 1 .. TimeLimit, AcknowledgeAttention(a, at)
  PROVE  CopyInv' /\ copy'.tools = copy.tools
<1> DEFINE b == [a EXCEPT !.acked = at]
           e == [kind |-> "attention_changed", attention |-> b, removed |-> {}]
<1>1. /\ copy' = ApplyEvent(copy, e)
      /\ attentions' = (attentions \ {a}) \cup {b}
      /\ UNCHANGED <<windows, tree, nextSplitID, panes, nextPaneID, paneWindow, stashed,
                     toolOf, labels>>
  BY DEF AcknowledgeAttention, attentionOnly, layoutVars, toolVars, Publish
<1>2. e.kind = "attention_changed" /\ e.attention = b /\ e.removed = {}
  OBVIOUS
<1> HIDE DEF e
<1>3. /\ IsSnapshot(copy)
      /\ copy.windows = windows /\ copy.tree = tree /\ copy.nextSplitID = nextSplitID
      /\ copy.panes = panes /\ copy.nextPaneID = nextPaneID /\ copy.paneWindow = paneWindow
      /\ copy.stashed = stashed /\ copy.toolOf = toolOf /\ copy.labels = labels
      /\ copy.attentions = attentions
  BY DEF CopyInv
<1> DEFINE r == ApplyEvent(copy, e)
<1>4. /\ IsSnapshot(r)
      /\ r.attentions = {o \in {c \in copy.attentions : c.id # e.attention.id} \cup {e.attention} :
                           \A g \in e.removed : o.id # g.id}
      /\ r.windows = copy.windows /\ r.tree = copy.tree /\ r.nextSplitID = copy.nextSplitID
      /\ r.panes = copy.panes /\ r.nextPaneID = copy.nextPaneID
      /\ r.paneWindow = copy.paneWindow /\ r.stashed = copy.stashed /\ r.toolOf = copy.toolOf
      /\ r.tools = copy.tools /\ r.labels = copy.labels
  BY <1>2, <1>3, AttentionChangedFields
<1> HIDE DEF r
<1>5. copy' = r
  BY <1>1 DEF r
<1>6. /\ r.windows = windows' /\ r.tree = tree' /\ r.nextSplitID = nextSplitID'
      /\ r.panes = panes' /\ r.nextPaneID = nextPaneID' /\ r.paneWindow = paneWindow'
      /\ r.stashed = stashed' /\ r.toolOf = toolOf' /\ r.labels = labels'
  BY <1>1, <1>3, <1>4
<1>7. r.attentions = attentions'
  <2>0. b.id = a.id
    BY DEF AttentionInv, Indexed, Attention
  <2> HIDE DEF b
  <2>1. \A c, d \in attentions : c.id = d.id => c = d
    BY DEF AttentionInv, Indexed
  <2>2. r.attentions = {c \in attentions : c.id # b.id} \cup {b}
    BY <1>2, <1>3, <1>4
  <2>3. {c \in attentions : c.id # b.id} = attentions \ {a}
    BY <2>0, <2>1
  <2> QED BY <2>2, <2>3, <1>1
<1>8. r.tools = copy.tools
  BY <1>4
<1> QED BY <1>4, <1>5, <1>6, <1>7, <1>8 DEF CopyInv

\* The copy after the attentions of a source were removed
LEMMA RemoveAttentionsBySourceCopy ==
  ASSUME AttentionInv, CopyInv, NEW source, RemoveAttentionsBySource(source)
  PROVE  CopyInv' /\ copy'.tools = copy.tools
<1> DEFINE gone == {a \in attentions : a.source = source}
           e == [kind |-> "attention_source_cleared", removed |-> gone]
<1>1. /\ copy' = ApplyEvent(copy, e)
      /\ attentions' = attentions \ gone
      /\ UNCHANGED <<windows, tree, nextSplitID, panes, nextPaneID, paneWindow, stashed,
                     toolOf, labels>>
  BY DEF RemoveAttentionsBySource, attentionOnly, layoutVars, toolVars, Publish
<1>2. e.kind = "attention_source_cleared" /\ e.removed = gone
  OBVIOUS
<1> HIDE DEF e
<1>3. /\ IsSnapshot(copy)
      /\ copy.windows = windows /\ copy.tree = tree /\ copy.nextSplitID = nextSplitID
      /\ copy.panes = panes /\ copy.nextPaneID = nextPaneID /\ copy.paneWindow = paneWindow
      /\ copy.stashed = stashed /\ copy.toolOf = toolOf /\ copy.labels = labels
      /\ copy.attentions = attentions
  BY DEF CopyInv
<1> DEFINE r == ApplyEvent(copy, e)
<1>4. /\ IsSnapshot(r)
      /\ r.attentions = {b \in copy.attentions : \A g \in e.removed : b.id # g.id}
      /\ r.windows = copy.windows /\ r.tree = copy.tree /\ r.nextSplitID = copy.nextSplitID
      /\ r.panes = copy.panes /\ r.nextPaneID = copy.nextPaneID
      /\ r.paneWindow = copy.paneWindow /\ r.stashed = copy.stashed /\ r.toolOf = copy.toolOf
      /\ r.tools = copy.tools /\ r.labels = copy.labels
  BY <1>2, <1>3, AttentionSourceClearedFields
<1> HIDE DEF r
<1>5. copy' = r
  BY <1>1 DEF r
<1>6. /\ r.windows = windows' /\ r.tree = tree' /\ r.nextSplitID = nextSplitID'
      /\ r.panes = panes' /\ r.nextPaneID = nextPaneID' /\ r.paneWindow = paneWindow'
      /\ r.stashed = stashed' /\ r.toolOf = toolOf' /\ r.labels = labels'
  BY <1>1, <1>3, <1>4
<1>7. r.attentions = attentions'
  <2>1. \A c, d \in attentions : c.id = d.id => c = d
    BY DEF AttentionInv, Indexed
  <2>2. gone \subseteq attentions
    OBVIOUS
  <2> HIDE DEF gone
  <2>3. r.attentions = {b \in attentions : \A g \in gone : b.id # g.id}
    BY <1>2, <1>3, <1>4
  <2> QED BY <2>1, <2>2, <2>3, <1>1
<1>8. r.tools = copy.tools
  BY <1>4
<1> QED BY <1>4, <1>5, <1>6, <1>7, <1>8 DEF CopyInv

\* The copy after a new state of a tool
LEMMA UpdateToolStateCopy ==
  ASSUME ToolInv, CopyInv, NEW c \in Clients, NEW edited \in ToolStates, UpdateToolState(c, edited)
  PROVE  CopyInv' /\ copy'.tools = [copy.tools EXCEPT ![drafts[c].descriptor] =
           [generation |-> tools[drafts[c].descriptor].generation + 1, state |-> edited]]
<1> DEFINE d == drafts[c].descriptor
           next == [generation |-> tools[d].generation + 1, state |-> edited]
           e == [kind |-> "tool_state_updated", descriptor |-> d, tool |-> next]
<1>1. /\ copy' = ApplyEvent(copy, e)
      /\ UNCHANGED <<windows, tree, nextSplitID, panes, nextPaneID, paneWindow, stashed,
                     toolOf, labels, attentions>>
  BY DEF UpdateToolState, layoutVars, attentionVars, Publish
<1>2. e.kind = "tool_state_updated" /\ e.descriptor = d /\ e.tool = next
  OBVIOUS
<1> HIDE DEF e
<1>3. /\ IsSnapshot(copy)
      /\ copy.windows = windows /\ copy.tree = tree /\ copy.nextSplitID = nextSplitID
      /\ copy.panes = panes /\ copy.nextPaneID = nextPaneID /\ copy.paneWindow = paneWindow
      /\ copy.stashed = stashed /\ copy.toolOf = toolOf /\ copy.labels = labels
      /\ copy.attentions = attentions
  BY DEF CopyInv
<1> DEFINE r == ApplyEvent(copy, e)
<1>4. /\ IsSnapshot(r)
      /\ r.tools = (IF e.tool = NoTool THEN copy.tools ELSE [copy.tools EXCEPT ![e.descriptor] = e.tool])
      /\ r.windows = copy.windows /\ r.tree = copy.tree /\ r.nextSplitID = copy.nextSplitID
      /\ r.panes = copy.panes /\ r.nextPaneID = copy.nextPaneID
      /\ r.paneWindow = copy.paneWindow /\ r.stashed = copy.stashed /\ r.toolOf = copy.toolOf
      /\ r.labels = copy.labels /\ r.attentions = copy.attentions
  BY <1>2, <1>3, ToolStateUpdatedFields
<1> HIDE DEF r
<1>5. copy' = r
  BY <1>1 DEF r
<1>6. /\ r.windows = windows' /\ r.tree = tree' /\ r.nextSplitID = nextSplitID'
      /\ r.panes = panes' /\ r.nextPaneID = nextPaneID' /\ r.paneWindow = paneWindow'
      /\ r.stashed = stashed' /\ r.toolOf = toolOf' /\ r.labels = labels'
      /\ r.attentions = attentions'
  BY <1>1, <1>3, <1>4
<1>7. next # NoTool
  <2>1. edited # None
    BY ObjectsAssumption
  <2> QED BY <2>1 DEF NoTool
<1>8. r.tools = [copy.tools EXCEPT ![d] = next]
  BY <1>2, <1>4, <1>7
<1> HIDE DEF next, d
<1>9. CopyInv'
  BY <1>4, <1>5, <1>6 DEF CopyInv
<1> QED BY <1>5, <1>8, <1>9 DEF next, d

(***************************************************************************)
(* How far a copy lags behind, and what clients have read                  *)
(***************************************************************************)

\* An instance has no state exactly when there is none, else a generation.
LEMMA ToolFacts ==
  ASSUME NEW t \in Tool
  PROVE  /\ t.generation \in Nat /\ (t = NoTool <=> t.state = None)
         /\ t # NoTool => 1 <= t.generation
<1>1. CASE t = NoTool
  BY <1>1 DEF NoTool
<1>2. CASE t \in [generation : Nat \ {0}, state : ToolStates]
  <2>1. t.generation \in Nat \ {0} /\ t.state \in ToolStates
    BY <1>2
  <2>2. t.state # None
    BY <2>1, ObjectsAssumption
  <2>3. t.generation \in Nat /\ 1 <= t.generation
    BY <2>1
  <2> QED BY <2>2, <2>3 DEF NoTool
<1> QED BY <1>1, <1>2 DEF Tool

\* Of an instance, a copy shows the state, and whether it is there.
LEMMA LagFacts ==
  ASSUME ToolInv, CopyLag, NEW d \in Instances
  PROVE  /\ tools[d] \in Tool /\ copy.tools[d] \in Tool
         /\ tools[d].generation \in Nat /\ copy.tools[d].generation \in Nat
         /\ copy.tools[d].state = tools[d].state
         /\ copy.tools[d].generation <= tools[d].generation
         /\ copy.tools[d] = NoTool <=> tools[d] = NoTool
<1>1. tools[d] \in Tool /\ copy.tools[d] \in Tool
  BY DEF ToolInv, CopyLag
<1>2. /\ tools[d].generation \in Nat /\ (tools[d] = NoTool <=> tools[d].state = None)
      /\ copy.tools[d].generation \in Nat /\ (copy.tools[d] = NoTool <=> copy.tools[d].state = None)
  BY <1>1, ToolFacts
<1>3. copy.tools[d].state = tools[d].state /\ copy.tools[d].generation <= tools[d].generation
  BY DEF CopyLag
<1> QED BY <1>1, <1>2, <1>3

\* What leaves the instances and their copies alone
LEMMA LagFrame ==
  ASSUME CopyLag, tools' = tools, copy'.tools = copy.tools
  PROVE  CopyLag'
  BY DEF CopyLag

\* What leaves the instances and the drafts alone
LEMMA DraftFrame ==
  ASSUME DraftInv, UNCHANGED <<tools, drafts>>
  PROVE  DraftInv'
  BY DEF DraftInv

\* A step that replaces one instance, by next, and its copy, by shown
LEMMA LagReplaced ==
  ASSUME CopyLag, ToolInv, NEW d \in Instances, NEW next, NEW shown \in Tool,
         shown.state = next.state, shown.generation <= next.generation,
         tools' = [tools EXCEPT ![d] = next], copy'.tools = [copy.tools EXCEPT ![d] = shown]
  PROVE  CopyLag'
<1>1. tools \in [Instances -> Tool] /\ copy.tools \in [Instances -> Tool]
  BY DEF ToolInv, CopyLag
<1>2. copy'.tools \in [Instances -> Tool]
  BY <1>1
<1>3. ASSUME NEW e \in Instances
      PROVE  copy'.tools[e].state = tools'[e].state /\ copy'.tools[e].generation <= tools'[e].generation
  <2>1. CASE e = d
    BY <2>1, <1>1
  <2>2. CASE e # d
    <3>1. copy'.tools[e] = copy.tools[e] /\ tools'[e] = tools[e]
      BY <2>2, <1>1
    <3> QED BY <3>1 DEF CopyLag
  <2> QED BY <2>1, <2>2
<1> QED BY <1>2, <1>3 DEF CopyLag

\* The tool of a new pane is the one the copy shows, or a fresh one.
LEMMA SpecTool ==
  ASSUME CopyLag, NEW d \in Instances \cup {None}, NEW tool \in Specs(d)
  PROVE  tool \in Tool /\ (d = None => tool = NoTool) /\ (d # None => tool # NoTool)
<1>1. CASE d = None
  BY <1>1 DEF Specs, Tool
<1>2. CASE d # None
  <2>1. d \in Instances /\ tool \in {NewTool} \cup ({copy.tools[d]} \ {NoTool})
    BY <1>2 DEF Specs
  <2>2. copy.tools[d] \in Tool
    BY <2>1 DEF CopyLag
  <2>3. NewTool \in Tool
    BY DEF NewTool, Tool, ToolStates
  <2>4. NewTool # NoTool
    BY DEF NewTool, NoTool
  <2> QED BY <1>2, <2>1, <2>2, <2>3, <2>4
<1> QED BY <1>1, <1>2

\* A copy takes the tool of the command, which registerTool may not have taken.
LEMMA AddPaneLag ==
  ASSUME ToolInv, CopyLag, NEW p, NEW w, NEW d \in Instances \cup {None},
         NEW tool \in Specs(d), AddPane(p, w, d, tool),
         copy'.tools = WithTool(copy.tools, d, tool)
  PROVE  CopyLag'
<1>0. copy'.tools = IF tool = NoTool THEN copy.tools ELSE [copy.tools EXCEPT ![d] = tool]
  BY DEF WithTool
<1>1. /\ tool \in Tool /\ (d = None => tool = NoTool) /\ (d # None => tool # NoTool)
  BY SpecTool
<1>2. /\ tools' = (IF d = None \/ tools[d] # NoTool THEN tools ELSE [tools EXCEPT ![d] = tool])
      /\ d # None /\ tools[d] # NoTool => tools[d].state = tool.state
  BY DEF AddPane, RegisterTool, SpecAccepted
<1>3. CASE d = None
  BY <1>3, <1>0, <1>1, <1>2, LagFrame
<1>4. CASE d # None
  <2>1. d \in Instances /\ copy'.tools = [copy.tools EXCEPT ![d] = tool]
    BY <1>4, <1>0, <1>1
  <2>2. /\ tools[d] \in Tool /\ tools[d].generation \in Nat /\ copy.tools[d].generation \in Nat
        /\ copy.tools[d].generation <= tools[d].generation
        /\ tools[d] \in Tool /\ (copy.tools[d] = NoTool <=> tools[d] = NoTool)
    BY <2>1, LagFacts
  <2>3. CASE tools[d] = NoTool
    <3>1. tools' = [tools EXCEPT ![d] = tool]
      BY <2>3, <1>2, <1>4
    <3>2. tool.generation <= tool.generation
      <4>1. tool.generation \in Nat
        BY <1>1, ToolFacts
      <4> QED BY <4>1
    <3> QED BY <2>1, <3>1, <3>2, <1>1, LagReplaced
  <2>4. CASE tools[d] # NoTool
    <3>1. tools' = tools /\ tools[d].state = tool.state
      BY <2>4, <1>2, <1>4
    <3>2. tools' = [tools EXCEPT ![d] = tools[d]]
      BY <3>1, <2>1 DEF ToolInv
    <3>3. tool = NewTool \/ tool = copy.tools[d]
      BY <1>4 DEF Specs
    <3>4. tool.generation <= tools[d].generation
      <4>1. 1 <= tools[d].generation
        BY <2>2, <2>4, ToolFacts
      <4>2. NewTool.generation = 1
        BY DEF NewTool
      <4> QED BY <4>1, <4>2, <3>3, <2>2
    <3> QED BY <2>1, <3>1, <3>2, <3>4, <1>1, LagReplaced
  <2> QED BY <2>3, <2>4
<1> QED BY <1>3, <1>4

\* A new pane registers no instance that a draft is about.
LEMMA AddPaneDrafts ==
  ASSUME ToolInv, DraftInv, NEW p, NEW w, NEW d \in Instances \cup {None}, NEW tool \in Tool,
         AddPane(p, w, d, tool)
  PROVE  DraftInv'
<1>1. /\ tools' = (IF d = None \/ tools[d] # NoTool THEN tools ELSE [tools EXCEPT ![d] = tool])
      /\ drafts' = drafts
  BY DEF AddPane, RegisterTool
<1>2. CASE d = None \/ tools[d] # NoTool
  BY <1>2, <1>1, DraftFrame
<1>3. CASE ~ (d = None \/ tools[d] # NoTool)
  <2>1. tools' = [tools EXCEPT ![d] = tool] /\ tools[d] = NoTool /\ tools \in [Instances -> Tool]
    BY <1>3, <1>1 DEF ToolInv
  <2>2. ASSUME NEW c \in Clients, drafts[c].descriptor # None, ~ drafts[c].gone
        PROVE  tools'[drafts[c].descriptor] = tools[drafts[c].descriptor]
    <3>1. drafts[c].descriptor \in Instances
      BY <2>2 DEF DraftInv, Draft
    <3>2. tools[drafts[c].descriptor] # NoTool
      BY <2>2 DEF DraftInv
    <3> QED BY <3>1, <3>2, <2>1
  <2> QED BY <2>2, <1>1 DEF DraftInv
<1> QED BY <1>2, <1>3

\* The last pane of an instance takes it away for the copy too, and every
\* draft of it is marked.
LEMMA ClosePaneLag ==
  ASSUME ToolInv, CopyLag, DraftInv, NEW p \in PaneID, ClosePane(p),
         LET d == toolOf[p]
             lastView == d # None /\ \A q \in panes \ {p} : toolOf[q] # d
         IN copy'.tools = IF lastView THEN [copy.tools EXCEPT ![d] = NoTool] ELSE copy.tools
  PROVE  CopyLag' /\ DraftInv'
<1> DEFINE d == toolOf[p]
           lastView == d # None /\ \A q \in panes \ {p} : toolOf[q] # d
<1>1. /\ tools' = (IF lastView THEN [tools EXCEPT ![d] = NoTool] ELSE tools)
      /\ drafts' = [c \in Clients |-> [drafts[c] EXCEPT !.gone =
                                         @ \/ (lastView /\ drafts[c].descriptor = d)]]
  BY DEF ClosePane
<1>2. copy'.tools = IF lastView THEN [copy.tools EXCEPT ![d] = NoTool] ELSE copy.tools
  OBVIOUS
<1>3. lastView \in BOOLEAN /\ (lastView => d \in Instances)
  BY DEF ToolInv
<1>4. tools \in [Instances -> Tool] /\ drafts \in [Clients -> Draft]
  BY DEF ToolInv, DraftInv
<1> HIDE DEF lastView, d
<1>5. CopyLag'
  <2>1. CASE lastView
    <3>1. NoTool \in Tool /\ NoTool.generation <= NoTool.generation
      BY DEF Tool, NoTool
    <3> QED BY <2>1, <3>1, <1>1, <1>2, <1>3, LagReplaced
  <2>2. CASE ~ lastView
    BY <2>2, <1>1, <1>2, LagFrame
  <2> QED BY <2>1, <2>2
<1>6. ASSUME NEW c \in Clients
      PROVE  /\ drafts'[c].descriptor = drafts[c].descriptor /\ drafts'[c].read = drafts[c].read
             /\ drafts'[c].gone = (drafts[c].gone \/ (lastView /\ drafts[c].descriptor = d))
             /\ drafts'[c] \in Draft
  BY <1>1, <1>3, <1>4 DEF Draft
<1>7. ASSUME NEW c \in Clients, drafts'[c].descriptor # None, ~ drafts'[c].gone
      PROVE  tools'[drafts[c].descriptor] = tools[drafts[c].descriptor] /\ ~ drafts[c].gone
  <2>1. ~ drafts[c].gone /\ ~ (lastView /\ drafts[c].descriptor = d)
    BY <1>6, <1>7
  <2>2. drafts[c].descriptor \in Instances
    BY <1>6, <1>7 DEF DraftInv, Draft
  <2> QED BY <2>1, <2>2, <1>1, <1>3, <1>4
<1>8. drafts' \in [Clients -> Draft]
  BY <1>1, <1>6
<1>9. DraftInv'
  BY <1>6, <1>7, <1>8 DEF DraftInv
<1> QED BY <1>5, <1>9

\* An update shows in the copy at once, and older drafts stay older.
LEMMA UpdateToolStateLag ==
  ASSUME ToolInv, CopyInv, CopyLag, DraftInv, NEW c \in Clients, NEW edited \in ToolStates,
         UpdateToolState(c, edited)
  PROVE  CopyLag' /\ DraftInv'
<1> DEFINE d == drafts[c].descriptor
           next == [generation |-> tools[d].generation + 1, state |-> edited]
<1>1. /\ d # None /\ tools[d] # NoTool /\ tools' = [tools EXCEPT ![d] = next]
      /\ drafts' = [drafts EXCEPT ![c] = NoDraft]
  BY DEF UpdateToolState
<1>2. copy'.tools = [copy.tools EXCEPT ![d] = next]
  BY UpdateToolStateCopy
<1>3. d \in Instances /\ drafts \in [Clients -> Draft] /\ tools \in [Instances -> Tool]
  BY <1>1 DEF DraftInv, Draft, ToolInv
<1>4. tools[d].generation \in Nat
  BY <1>3, LagFacts
<1>5. next \in Tool /\ next.generation = tools[d].generation + 1 /\ next # NoTool
  <2>1. tools[d].generation + 1 \in Nat \ {0}
    BY <1>4
  <2> QED BY <2>1 DEF Tool, NoTool
<1> HIDE DEF next
<1>6. CopyLag'
  <2>1. next.generation <= next.generation
    BY <1>4, <1>5
  <2> QED BY <2>1, <1>1, <1>2, <1>3, <1>5, LagReplaced
<1>7. drafts' \in [Clients -> Draft]
  <2>1. NoDraft \in Draft
    BY DEF NoDraft, Draft, Tool
  <2> QED BY <2>1, <1>1, <1>3
<1>8. ASSUME NEW b \in Clients, drafts'[b].descriptor # None, ~ drafts'[b].gone
      PROVE  LET e == drafts'[b].descriptor IN
             /\ tools'[e] # NoTool
             /\ drafts'[b].read.generation <= tools'[e].generation
             /\ drafts'[b].read.generation = tools'[e].generation => drafts'[b].read.state = tools'[e].state
  <2> DEFINE e == drafts[b].descriptor
  <2>1. b # c
    BY <1>8, <1>1, <1>3 DEF NoDraft
  <2>2. drafts'[b] = drafts[b]
    BY <2>1, <1>1, <1>3
  <2>3. /\ e \in Instances /\ tools[e] # NoTool /\ drafts[b].read \in Tool
        /\ drafts[b].read.generation <= tools[e].generation
        /\ drafts[b].read.generation = tools[e].generation => drafts[b].read.state = tools[e].state
    BY <2>2, <1>8 DEF DraftInv, Draft
  <2>4. drafts[b].read.generation \in Nat
    BY <2>3, ToolFacts
  <2>5. CASE e = d
    <3>1. tools'[e] = next
      BY <2>5, <1>1, <1>3
    <3>2. drafts[b].read.generation < next.generation
      BY <2>3, <2>4, <2>5, <1>4, <1>5
    <3>3. drafts[b].read.generation <= next.generation /\ drafts[b].read.generation # next.generation
      BY <3>2, <2>4, <1>4, <1>5
    <3> QED BY <3>1, <3>3, <1>5, <2>2
  <2>6. CASE e # d
    <3>1. tools'[e] = tools[e]
      BY <2>6, <2>3, <1>1, <1>3
    <3> QED BY <3>1, <2>2, <2>3
  <2> QED BY <2>5, <2>6
<1>9. DraftInv'
  BY <1>7, <1>8 DEF DraftInv
<1> QED BY <1>6, <1>9

\* What a client reads of a copy is true of the instance.
LEMMA ReadToolDrafts ==
  ASSUME ToolInv, CopyLag, DraftInv, NEW c \in Clients, NEW d \in Instances, ReadTool(c, d)
  PROVE  DraftInv'
<1> DEFINE new == [descriptor |-> d, read |-> copy.tools[d], gone |-> FALSE]
<1>1. copy.tools[d] # NoTool /\ drafts' = [drafts EXCEPT ![c] = new] /\ tools' = tools
  BY DEF ReadTool, toolVars
<1>2. /\ tools[d] # NoTool /\ copy.tools[d] \in Tool /\ copy.tools[d].state = tools[d].state
      /\ copy.tools[d].generation <= tools[d].generation
  BY <1>1, LagFacts
<1>3. new \in Draft /\ new.descriptor = d /\ new.read = copy.tools[d]
  BY <1>2 DEF Draft
<1> HIDE DEF new
<1>4. drafts \in [Clients -> Draft] /\ drafts' \in [Clients -> Draft]
  BY <1>1, <1>3 DEF DraftInv
<1>5. \A b \in Clients : drafts'[b] = IF b = c THEN new ELSE drafts[b]
  BY <1>1, <1>4
<1> QED BY <1>1, <1>2, <1>3, <1>4, <1>5 DEF DraftInv

\* A copy that nothing has changed, of a state that nothing has changed
LEMMA CopyFrame ==
  ASSUME CopyInv, UNCHANGED <<layoutVars, toolOf, labels, attentions, copy>>
  PROVE  CopyInv'
  BY DEF CopyInv, layoutVars

(***************************************************************************)
(* The inductive invariant holds.                                          *)
(***************************************************************************)

\* The empty workspace a daemon starts with
LEMMA InitialObjects == ObjectsInit => ObjectsInv
<1> SUFFICES ASSUME ObjectsInit PROVE ObjectsInv
  OBVIOUS
<1>1. /\ windows = Windows /\ tree = [w \in Windows |-> Nil] /\ nextSplitID = 1
      /\ panes = {} /\ nextPaneID = 1 /\ paneWindow = [p \in PaneID |-> 0]
      /\ stashed = [p \in PaneID |-> NotStashed] /\ toolOf = [p \in PaneID |-> None]
      /\ tools = [d \in Instances |-> NoTool] /\ labels = {} /\ attentions = {}
      /\ attentionKeys = [k \in Sources \X PaneID |-> 0] /\ nextAttentionID = 1
      /\ copy = Snapshot /\ drafts = [c \in Clients |-> NoDraft]
  BY DEF ObjectsInit, Empty
<1>2. NotStashed.window = 0 /\ NotStashed.split = 0 /\ NotStashed.target = 0
  <2>1. NoHint.split = 0
    BY DEF NoHint
  <2>2. NoHint.target = 0
    BY DEF NoHint
  <2> QED BY <2>1, <2>2 DEF NotStashed, Stashed
<1>3. Nil \in Layouts /\ Leaves(Nil) = <<>> /\ SplitIDs(Nil) = {}
  BY LayoutLaws
<1>4. LayoutType
  <2>1. NotStashed \in StashHints
    BY DEF StashHints
  <2> QED BY <1>1, <1>3, <2>1, ObjectsAssumption DEF LayoutType
<1>5. PlaceInv
  <2>1. Shown(Nil) = {}
    BY <1>3 DEF Shown, ToSet
  <2>2. 1 \in Windows
    BY DEF Windows
  <2> QED BY <1>1, <2>1, <2>2 DEF PlaceInv
<1>6. SplitInv
  <2>1. \A p \in PaneID : stashed[p].split < nextSplitID /\ stashed[p].target # p
    BY <1>1, <1>2, NoPaneZero
  <2> QED BY <1>1, <1>3, <2>1 DEF SplitInv
<1>7. LabelInv
  BY <1>1 DEF LabelInv
<1>8. AttentionInv
  <2>1. IsFiniteSet(attentions) /\ Cardinality(attentions) <= AttentionLimit
    BY <1>1, FS_EmptySet, ObjectsAssumption
  <2>2. Indexed(attentions, attentionKeys, nextAttentionID)
    BY <1>1 DEF Indexed
  <2> QED BY <1>1, <2>1, <2>2 DEF AttentionInv
<1>9. ToolInv
  BY <1>1 DEF ToolInv, Tool
<1>10. CopyInv
  BY <1>1 DEF CopyInv, Snapshot, IsSnapshot, Fields
<1>11. CopyLag
  <2>1. copy.tools = tools
    BY <1>1 DEF Snapshot
  <2>2. NoTool.generation <= NoTool.generation /\ NoTool \in Tool
    BY DEF NoTool, Tool
  <2> QED BY <2>1, <2>2, <1>1 DEF CopyLag
<1>12. DraftInv
  <2>1. NoDraft \in Draft /\ NoDraft.descriptor = None
    BY DEF NoDraft, Draft, Tool
  <2> QED BY <1>1, <2>1 DEF DraftInv
<1> QED BY <1>4, <1>5, <1>6, <1>7, <1>8, <1>9, <1>10, <1>11, <1>12 DEF ObjectsInv, LayoutInv

\* The other objects after a command that is about the layout only
LEMMA LayoutOnly ==
  ASSUME ObjectsInv, LayoutInv', CopyInv', copy'.tools = copy.tools,
         UNCHANGED <<windows, panes, toolVars, labels, attentionVars, drafts>>
  PROVE  ObjectsInv'
<1>1. LayoutInv /\ LabelInv /\ AttentionInv /\ ToolInv /\ CopyInv /\ CopyLag /\ DraftInv
  BY DEF ObjectsInv
<1>2. UNCHANGED <<toolOf, tools, labels>>
  BY DEF toolVars
<1>3. LabelInv'
  BY <1>1, LabelFrame
<1>4. AttentionInv'
  BY <1>1, AttentionFrame
<1>5. ToolInv'
  BY <1>1, ToolFrame
<1>6. CopyLag'
  BY <1>1, <1>2, LagFrame
<1>7. DraftInv'
  BY <1>1, <1>2, DraftFrame
<1> QED BY <1>3, <1>4, <1>5, <1>6, <1>7 DEF ObjectsInv

\* The other objects after a command that is about labels or attentions only
LEMMA NotesOnly ==
  ASSUME ObjectsInv, LabelInv', AttentionInv', CopyInv', copy'.tools = copy.tools,
         UNCHANGED <<layoutVars, toolVars, drafts>>
  PROVE  ObjectsInv'
<1>1. LayoutInv /\ LabelInv /\ AttentionInv /\ ToolInv /\ CopyInv /\ CopyLag /\ DraftInv
  BY DEF ObjectsInv
<1>2. UNCHANGED <<toolOf, tools, panes>>
  BY DEF toolVars, layoutVars
<1>3. LayoutInv'
  BY <1>1, LayoutFrame
<1>4. ToolInv'
  BY <1>1, <1>2, ToolFrame
<1>5. CopyLag'
  BY <1>1, <1>2, LagFrame
<1>6. DraftInv'
  BY <1>1, <1>2, DraftFrame
<1> QED BY <1>3, <1>4, <1>5, <1>6 DEF ObjectsInv

\* A new pane at p of window w, whose layout has become m
LEMMA NewPaneKeeps ==
  ASSUME ObjectsInv, NEW w \in windows, NEW p \in PaneID, NEW d \in Instances \cup {None},
         NEW tool \in Specs(d), NEW m, AddPane(p, w, d, tool), Inserted(tree[w], p, m),
         tree' = [tree EXCEPT ![w] = m]
  PROVE  ObjectsInv'
<1>1. LayoutInv /\ LabelInv /\ AttentionInv /\ ToolInv /\ CopyInv /\ CopyLag /\ DraftInv
  BY DEF ObjectsInv
<1>2. tool \in Tool /\ (d # None => tool # NoTool)
  BY <1>1, SpecTool
<1>3. LayoutInv'
  BY <1>1, NewPaneLaidOut
<1>4. /\ CopyInv'
      /\ copy'.tools = WithTool(copy.tools, d, tool)
  BY <1>1, NewPaneCopy
<1>5. CopyLag'
  BY <1>1, <1>4, AddPaneLag
<1>6. DraftInv'
  BY <1>1, <1>2, AddPaneDrafts
<1>7. ToolInv'
  BY <1>1, <1>2, AddPaneTools
<1>8. UNCHANGED <<windows, labels, attentionVars>> /\ panes \subseteq panes'
  BY DEF AddPane
<1>9. LabelInv'
  BY <1>1, <1>8, LabelFrame
<1>10. AttentionInv'
  BY <1>1, <1>8, AttentionFrame
<1> QED BY <1>3, <1>4, <1>5, <1>6, <1>7, <1>9, <1>10 DEF ObjectsInv

\* A pane that is closed
LEMMA ClosePaneKeeps ==
  ASSUME ObjectsInv, NEW p \in PaneID, ClosePane(p)
  PROVE  ObjectsInv'
<1>1. LayoutInv /\ LabelInv /\ AttentionInv /\ ToolInv /\ CopyInv /\ CopyLag /\ DraftInv
  BY DEF ObjectsInv
<1>2. LayoutInv' /\ LabelInv' /\ AttentionInv' /\ ToolInv'
  BY <1>1, ClosePaneLayout, ClosePaneLabels, ClosePaneAttentions, ClosePaneTools
<1>3. LET d == toolOf[p]
          lastView == d # None /\ \A q \in panes \ {p} : toolOf[q] # d
      IN CopyInv' /\ copy'.tools = IF lastView THEN [copy.tools EXCEPT ![d] = NoTool] ELSE copy.tools
  BY <1>1, ClosePaneCopy
<1>4. CopyLag' /\ DraftInv'
  BY <1>1, <1>3, ClosePaneLag
<1> QED BY <1>2, <1>3, <1>4 DEF ObjectsInv

\* A pane created, split off or closed
LEMMA PaneStepKeeps ==
  ASSUME ObjectsInv, NEW d \in Instances \cup {None}, PaneStep(d)
  PROVE  ObjectsInv'
<1>0. LayoutInv
  BY DEF ObjectsInv
<1>1. ASSUME NEW w \in Windows, NEW p \in PaneID, NEW tool \in Specs(d), CreatePane(w, p, d, tool)
      PROVE  ObjectsInv'
  <2>1. Inserted(tree[w], p, Leaf(p)) /\ w \in windows /\ tree' = [tree EXCEPT ![w] = Leaf(p)]
    BY <1>0, <1>1, CreatePaneInserts
  <2>2. AddPane(p, w, d, tool)
    BY <1>1 DEF CreatePane
  <2> QED BY <2>1, <2>2, NewPaneKeeps
<1>2. ASSUME NEW t \in PaneID, NEW p \in PaneID, NEW direction \in Directions, NEW tool \in Specs(d),
             SplitPane(t, direction, p, d, tool)
      PROVE  ObjectsInv'
  <2> DEFINE w == paneWindow[t]
             m == Insert(tree[w], p, After(t, direction), nextSplitID)
  <2>1. Inserted(tree[w], p, m) /\ w \in windows /\ tree' = [tree EXCEPT ![w] = m]
    BY <1>0, <1>2, SplitPaneInserts
  <2>2. AddPane(p, w, d, tool)
    BY <1>2 DEF SplitPane
  <2> HIDE DEF m, w
  <2> QED BY <2>1, <2>2, NewPaneKeeps
<1>3. ASSUME NEW p \in PaneID, ClosePane(p) PROVE ObjectsInv'
  BY <1>3, ClosePaneKeeps
<1> QED BY <1>1, <1>2, <1>3 DEF PaneStep

\* A pane moved, stashed or restored, a split resized
LEMMA LayoutStepKeeps ==
  ASSUME ObjectsInv, MoveStep \/ StashStep \/ ResizeStep
  PROVE  ObjectsInv'
<1>0. LayoutInv /\ ToolInv /\ CopyInv
  BY DEF ObjectsInv
<1>1. ASSUME NEW p \in PaneID, NEW w \in Windows, NEW t \in PaneID \cup {0},
             NEW direction \in Directions \cup {NoDirection}, MovePane(p, w, t, direction)
      PROVE  ObjectsInv'
  <2>1. LayoutInv'
    BY <1>0, <1>1, MovePaneLayout
  <2>2. CopyInv' /\ copy'.tools = copy.tools
    BY <1>0, <1>1, MovePaneCopy
  <2>3. UNCHANGED <<windows, panes, toolVars, labels, attentionVars, drafts>>
    BY <1>1 DEF MovePane
  <2> QED BY <2>1, <2>2, <2>3, LayoutOnly
<1>2. ASSUME NEW p \in PaneID, StashPane(p) PROVE ObjectsInv'
  <2>1. LayoutInv'
    BY <1>0, <1>2, StashPaneLayout
  <2>2. CopyInv' /\ copy'.tools = copy.tools
    BY <1>0, <1>2, StashPaneCopy
  <2>3. UNCHANGED <<windows, panes, toolVars, labels, attentionVars, drafts>>
    BY <1>2 DEF StashPane
  <2> QED BY <2>1, <2>2, <2>3, LayoutOnly
<1>3. ASSUME NEW p \in PaneID, NEW place, Restorable(place), RestorePane(p, place)
      PROVE  ObjectsInv'
  <2>1. LayoutInv'
    BY <1>0, <1>3, RestorePaneLayout
  <2>2. CopyInv' /\ copy'.tools = copy.tools
    BY <1>0, <1>3, RestorePaneCopy
  <2>3. UNCHANGED <<windows, panes, toolVars, labels, attentionVars, drafts>>
    BY <1>3 DEF RestorePane
  <2> QED BY <2>1, <2>2, <2>3, LayoutOnly
<1>4. ASSUME NEW p \in PaneID, RestorePane(p, HintedPlace(p)) PROVE ObjectsInv'
  <2>1. Restorable(HintedPlace(p))
    BY <1>0, HintedPlaceRestorable
  <2> QED BY <2>1, <1>4, <1>3
<1>5. ASSUME NEW p \in PaneID, NEW w \in Windows, NEW t \in PaneID \cup {0},
             NEW direction \in Directions \cup {NoDirection},
             PlaceAccepted(w, t, direction), RestorePane(p, GivenPlace(w, t, direction))
      PROVE  ObjectsInv'
  <2>1. GivenPlace(w, t, direction).window = w
    BY DEF GivenPlace
  <2>2. w \in windows
    BY <1>5, <2>1 DEF RestorePane
  <2>3. Restorable(GivenPlace(w, t, direction))
    BY <1>0, <1>5, <2>2, GivenPlaceRestorable
  <2> QED BY <2>3, <1>5, <1>3
<1>6. ASSUME NEW id \in SplitID, NEW ws \in ResizeTo, ResizeSplit(id, ws) PROVE ObjectsInv'
  <2>1. LayoutInv'
    BY <1>0, <1>6, ResizeSplitLayout
  <2>2. CopyInv' /\ copy'.tools = copy.tools
    BY <1>0, <1>6, ResizeSplitCopy
  <2>3. UNCHANGED <<windows, panes, toolVars, labels, attentionVars, drafts>>
    BY <1>6 DEF ResizeSplit
  <2> QED BY <2>1, <2>2, <2>3, LayoutOnly
<1>7. CASE MoveStep
  BY <1>7, <1>1 DEF MoveStep
<1>8. CASE StashStep
  BY <1>8, <1>2, <1>4, <1>5 DEF StashStep
<1>9. CASE ResizeStep
  BY <1>9, <1>6 DEF ResizeStep
<1> QED BY <1>7, <1>8, <1>9

\* A window deleted, with its labels
LEMMA WindowStepKeeps ==
  ASSUME ObjectsInv, WindowStep
  PROVE  ObjectsInv'
<1>1. PICK w \in Windows : DeleteWindow(w)
  BY DEF WindowStep
<1>2. LayoutInv /\ LabelInv /\ AttentionInv /\ ToolInv /\ CopyInv /\ CopyLag /\ DraftInv
  BY DEF ObjectsInv
<1>3. UNCHANGED <<panes, toolVars, attentionVars, drafts>>
  BY <1>1 DEF DeleteWindow
<1>4. UNCHANGED <<toolOf, tools>>
  BY <1>3 DEF toolVars
<1>5. LayoutInv' /\ LabelInv'
  BY <1>1, <1>2, DeleteWindowLayout, DeleteWindowLabels
<1>6. CopyInv' /\ copy'.tools = copy.tools
  BY <1>1, <1>2, DeleteWindowCopy
<1>7. AttentionInv'
  BY <1>2, <1>3, AttentionFrame
<1>8. ToolInv'
  BY <1>2, <1>3, ToolFrame
<1>9. CopyLag' /\ DraftInv'
  BY <1>2, <1>3, <1>4, <1>6, LagFrame, DraftFrame
<1> QED BY <1>5, <1>6, <1>7, <1>8, <1>9 DEF ObjectsInv

\* A label set or removed
LEMMA LabelStepKeeps ==
  ASSUME ObjectsInv, LabelStep
  PROVE  ObjectsInv'
<1>0. LayoutInv /\ LabelInv /\ AttentionInv /\ CopyInv
  BY DEF ObjectsInv
<1>1. ASSUME UNCHANGED labelOnly PROVE AttentionInv' /\ UNCHANGED <<layoutVars, toolVars, drafts>>
  <2>1. UNCHANGED <<layoutVars, toolVars, attentionVars, drafts>>
    BY <1>1 DEF labelOnly
  <2>2. panes' = panes
    BY <2>1 DEF layoutVars
  <2> QED BY <2>1, <2>2, <1>0, AttentionFrame
<1>2. ASSUME NEW source \in Sources, RemoveLabelsBySource(source) PROVE ObjectsInv'
  <2>1. LabelInv'
    BY <1>0, <1>2, RemoveLabelsBySourceStep
  <2>2. CopyInv' /\ copy'.tools = copy.tools
    BY <1>0, <1>2, RemoveLabelsBySourceCopy
  <2>3. UNCHANGED labelOnly
    BY <1>2 DEF RemoveLabelsBySource
  <2> QED BY <2>1, <2>2, <2>3, <1>1, NotesOnly
<1>3. ASSUME NEW source \in Sources, NEW value \in Values, NEW kind \in {"window", "pane"},
             NEW id \in PaneID \cup Windows, SetLabel(Target(kind, id), source, value)
      PROVE  ObjectsInv'
  <2>1. LabelInv'
    BY <1>0, <1>3, SetLabelStep
  <2>2. CopyInv' /\ copy'.tools = copy.tools
    BY <1>0, <1>3, SetLabelCopy
  <2>3. UNCHANGED labelOnly
    BY <1>3 DEF SetLabel
  <2> QED BY <2>1, <2>2, <2>3, <1>1, NotesOnly
<1>4. ASSUME NEW l \in labels, RemoveLabel(l) PROVE ObjectsInv'
  <2>1. LabelInv'
    BY <1>0, <1>4, RemoveLabelStep
  <2>2. CopyInv' /\ copy'.tools = copy.tools
    BY <1>0, <1>4, RemoveLabelCopy
  <2>3. UNCHANGED labelOnly
    BY <1>4 DEF RemoveLabel
  <2> QED BY <2>1, <2>2, <2>3, <1>1, NotesOnly
<1> QED BY <1>2, <1>3, <1>4 DEF LabelStep

\* An attention raised, acknowledged or removed
LEMMA AttentionStepKeeps ==
  ASSUME ObjectsInv, AttentionStep
  PROVE  ObjectsInv'
<1>0. LayoutInv /\ LabelInv /\ AttentionInv /\ CopyInv
  BY DEF ObjectsInv
<1>1. ASSUME UNCHANGED attentionOnly PROVE LabelInv' /\ UNCHANGED <<layoutVars, toolVars, drafts>>
  <2>1. UNCHANGED <<layoutVars, toolVars, labels, drafts>>
    BY <1>1 DEF attentionOnly
  <2>2. panes' = panes /\ windows' = windows
    BY <2>1 DEF layoutVars
  <2> QED BY <2>1, <2>2, <1>0, LabelFrame
<1>2. ASSUME NEW source \in Sources, RemoveAttentionsBySource(source) PROVE ObjectsInv'
  <2>1. AttentionInv'
    BY <1>0, <1>2, RemoveAttentionsBySourceStep
  <2>2. CopyInv' /\ copy'.tools = copy.tools
    BY <1>0, <1>2, RemoveAttentionsBySourceCopy
  <2>3. UNCHANGED attentionOnly
    BY <1>2 DEF RemoveAttentionsBySource
  <2> QED BY <2>1, <2>2, <2>3, <1>1, NotesOnly
<1>3. ASSUME NEW source \in Sources, NEW p \in PaneID, NEW value \in Values, NEW at \in 1 .. TimeLimit,
             RaiseNew(p, source, value, at)
      PROVE  ObjectsInv'
  <2>1. AttentionInv'
    BY <1>0, <1>3, RaiseNewStep
  <2>2. CopyInv' /\ copy'.tools = copy.tools
    BY <1>0, <1>3, RaiseNewCopy
  <2>3. UNCHANGED attentionOnly
    BY <1>3 DEF RaiseNew
  <2> QED BY <2>1, <2>2, <2>3, <1>1, NotesOnly
<1>4. ASSUME NEW a \in attentions, NEW at \in 1 .. TimeLimit, AcknowledgeAttention(a, at)
      PROVE  ObjectsInv'
  <2>1. AttentionInv'
    BY <1>0, <1>4, AcknowledgeStep
  <2>2. CopyInv' /\ copy'.tools = copy.tools
    BY <1>0, <1>4, AcknowledgeCopy
  <2>3. UNCHANGED attentionOnly
    BY <1>4 DEF AcknowledgeAttention
  <2> QED BY <2>1, <2>2, <2>3, <1>1, NotesOnly
<1>5. ASSUME NEW a \in attentions, NEW at \in 1 .. TimeLimit, NEW value \in Values,
             RaiseAgain(a, value, at)
      PROVE  ObjectsInv'
  <2>1. AttentionInv'
    BY <1>0, <1>5, RaiseAgainStep
  <2>2. CopyInv' /\ copy'.tools = copy.tools
    BY <1>0, <1>5, RaiseAgainCopy
  <2>3. UNCHANGED attentionOnly
    BY <1>5 DEF RaiseAgain
  <2> QED BY <2>1, <2>2, <2>3, <1>1, NotesOnly
<1> QED BY <1>2, <1>3, <1>4, <1>5 DEF AttentionStep

\* A tool read or updated
LEMMA ToolStepKeeps ==
  ASSUME ObjectsInv, ToolStep
  PROVE  ObjectsInv'
<1>0. LayoutInv /\ LabelInv /\ AttentionInv /\ ToolInv /\ CopyInv /\ CopyLag /\ DraftInv
  BY DEF ObjectsInv
<1>1. ASSUME UNCHANGED <<layoutVars, labels, attentionVars>>
      PROVE  LayoutInv' /\ LabelInv' /\ AttentionInv'
  <2>1. windows' = windows /\ panes' = panes
    BY <1>1 DEF layoutVars
  <2>2. LayoutInv'
    BY <1>0, <1>1, LayoutFrame
  <2>3. LabelInv'
    BY <1>0, <1>1, <2>1, LabelFrame
  <2>4. AttentionInv'
    BY <1>0, <1>1, <2>1, AttentionFrame
  <2> QED BY <2>2, <2>3, <2>4
<1>2. ASSUME NEW c \in Clients, NEW d \in Instances, ReadTool(c, d) PROVE ObjectsInv'
  <2>1. UNCHANGED <<layoutVars, toolVars, labels, attentionVars, copy>>
    BY <1>2 DEF ReadTool
  <2>2. UNCHANGED <<panes, toolOf, tools, attentions>>
    BY <2>1 DEF layoutVars, toolVars, attentionVars
  <2>3. ToolInv'
    BY <1>0, <2>1, <2>2, ToolFrame
  <2>4. CopyInv'
    BY <1>0, <2>1, <2>2, CopyFrame
  <2>5. CopyLag'
    BY <1>0, <2>1, <2>2, LagFrame
  <2>6. DraftInv'
    BY <1>0, <1>2, ReadToolDrafts
  <2> QED BY <1>1, <2>1, <2>3, <2>4, <2>5, <2>6 DEF ObjectsInv
<1>3. ASSUME NEW c \in Clients, NEW edited \in ToolStates, UpdateToolState(c, edited) PROVE ObjectsInv'
  <2>1. UNCHANGED <<layoutVars, labels, attentionVars>>
    BY <1>3 DEF UpdateToolState
  <2>2. ToolInv'
    BY <1>0, <1>3, UpdateToolStateTools
  <2>3. CopyInv'
    BY <1>0, <1>3, UpdateToolStateCopy
  <2>4. CopyLag' /\ DraftInv'
    BY <1>0, <1>3, UpdateToolStateLag
  <2> QED BY <1>1, <2>1, <2>2, <2>3, <2>4 DEF ObjectsInv
<1> QED BY <1>2, <1>3 DEF ToolStep

\* Nothing happens.
LEMMA ObjectsStutter == ObjectsInv /\ UNCHANGED objectVars => ObjectsInv'
<1> SUFFICES ASSUME ObjectsInv, UNCHANGED objectVars PROVE ObjectsInv'
  OBVIOUS
<1>1. UNCHANGED <<layoutVars, toolVars, labels, attentionVars, copy, drafts>>
  BY DEF objectVars
<1>2. UNCHANGED <<windows, panes, toolOf, attentions>>
  BY <1>1 DEF layoutVars, toolVars, attentionVars
<1>3. LayoutInv' /\ CopyInv'
  BY <1>1, <1>2, LayoutFrame, CopyFrame DEF ObjectsInv
<1> QED BY <1>1, <1>2, <1>3, LayoutOnly

\* Every step keeps the invariant.
LEMMA ObjectsStep == ObjectsInv /\ [ObjectsNext]_objectVars => ObjectsInv'
<1> SUFFICES ASSUME ObjectsInv, [ObjectsNext]_objectVars PROVE ObjectsInv'
  OBVIOUS
<1>1. CASE UNCHANGED objectVars
  BY <1>1, ObjectsStutter
<1>2. CASE MoveStep \/ StashStep \/ ResizeStep
  BY <1>2, LayoutStepKeeps
<1>3. CASE WindowStep
  BY <1>3, WindowStepKeeps
<1>4. CASE LabelStep
  BY <1>4, LabelStepKeeps
<1>5. CASE AttentionStep
  BY <1>5, AttentionStepKeeps
<1>6. CASE ToolStep
  BY <1>6, ToolStepKeeps
<1>7. CASE \E d \in Instances \cup {None} : PaneStep(d)
  BY <1>7, PaneStepKeeps
<1> QED BY <1>1, <1>2, <1>3, <1>4, <1>5, <1>6, <1>7 DEF ObjectsNext

\* What the objects of Core satisfy at every moment, and what makes every
\* command keep it: the panes, splits, labels, attentions, tools and the copy.
THEOREM ObjectsInvariant == ObjectsSpec => []ObjectsInv
<1>1. ObjectsInv /\ [ObjectsNext]_objectVars => ObjectsInv'
  BY ObjectsStep
<1>2. ObjectsInit => ObjectsInv
  BY InitialObjects
<1> QED BY <1>1, <1>2, PTL DEF ObjectsSpec

(***************************************************************************)
(* What follows from the invariant                                         *)
(***************************************************************************)

\* A copy is the state but for what it shows of tools.
LEMMA CopyEquals ==
  ASSUME CopyInv
  PROVE  copy = [Snapshot EXCEPT !.tools = copy.tools]
<1> DEFINE r == [Snapshot EXCEPT !.tools = copy.tools]
<1>1. /\ IsSnapshot(r)
      /\ r.windows = windows /\ r.tree = tree /\ r.nextSplitID = nextSplitID /\ r.panes = panes
      /\ r.nextPaneID = nextPaneID /\ r.paneWindow = paneWindow /\ r.stashed = stashed
      /\ r.toolOf = toolOf /\ r.tools = copy.tools /\ r.labels = labels
      /\ r.attentions = attentions
  BY DEF Snapshot, IsSnapshot, Fields
<1> HIDE DEF r
<1>2. copy = r
  BY <1>1, SameSnapshot DEF CopyInv
<1> QED BY <1>2 DEF r

\* The types of the objects
THEOREM ObjectsTypeCorrect == ObjectsSpec => []ObjectsTypeOK
<1>1. ObjectsInv => ObjectsTypeOK
  <2> SUFFICES ASSUME ObjectsInv PROVE ObjectsTypeOK
    OBVIOUS
  <2>1. /\ windows \in SUBSET Windows /\ tree \in [Windows -> Layouts]
        /\ nextSplitID \in 1 .. SplitLimit
        /\ panes \in SUBSET PaneID /\ nextPaneID \in 1 .. PaneLimit
        /\ paneWindow \in [PaneID -> Windows \cup {0}] /\ stashed \in [PaneID -> StashHints]
    BY DEF ObjectsInv, LayoutInv, LayoutType
  <2>2. /\ toolOf \in [PaneID -> Instances \cup {None}] /\ tools \in [Instances -> Tool]
        /\ labels \in SUBSET Label /\ attentions \in SUBSET Attention
        /\ attentionKeys \in [Sources \X PaneID -> Nat] /\ nextAttentionID \in Nat \ {0}
        /\ drafts \in [Clients -> Draft]
    BY DEF ObjectsInv, ToolInv, LabelInv, AttentionInv, Indexed, DraftInv
  <2>3. CopyInv /\ copy.tools \in [Instances -> Tool]
    BY DEF ObjectsInv, CopyLag
  <2>4. copy = [Snapshot EXCEPT !.tools = copy.tools]
    BY <2>3, CopyEquals
  <2> QED BY <2>1, <2>2, <2>3, <2>4 DEF ObjectsTypeOK, StashHints, Draft
<1> QED BY <1>1, ObjectsInvariant, PTL

\* A frontend that applies every event holds Core's state, and lags behind in
\* nothing but the generation of a tool (ApplyEvent, registerTool).
THEOREM CopiesAreFaithful == ObjectsSpec => []CopyFaithful
<1>1. ObjectsInv => CopyFaithful
  <2> SUFFICES ASSUME ObjectsInv PROVE CopyFaithful
    OBVIOUS
  <2>1. CopyInv /\ CopyLag
    BY DEF ObjectsInv
  <2>2. copy = [Snapshot EXCEPT !.tools = copy.tools]
    BY <2>1, CopyEquals
  <2> QED BY <2>1, <2>2 DEF CopyFaithful, CopyLag
<1> QED BY <1>1, ObjectsInvariant, PTL

\* A snapshot with the fields of the state, but for what it shows of tools
LEMMA AcceptedSnapshot ==
  ASSUME ObjectsInv, NEW s,
         s.windows = windows, s.tree = tree, s.nextSplitID = nextSplitID, s.panes = panes,
         s.nextPaneID = nextPaneID, s.paneWindow = paneWindow, s.stashed = stashed,
         s.toolOf = toolOf, s.labels = labels, s.attentions = attentions,
         \A d \in Instances : s.tools[d] = NoTool <=> tools[d] = NoTool
  PROVE  SnapshotValid(s)
<1>1. LayoutInv /\ LabelInv /\ AttentionInv /\ ToolInv
  BY DEF ObjectsInv
<1>2. LayoutType /\ PlaceInv /\ SplitInv
  BY <1>1 DEF LayoutInv
<1>3. LayoutsValid(s)
  <2>1. \A w \in Windows : s.tree[w] \in Layouts
    BY <1>2 DEF LayoutType
  <2>2. \A v, w \in Windows : v # w => SplitIDs(s.tree[v]) \cap SplitIDs(s.tree[w]) = {}
    BY <1>2 DEF SplitInv
  <2>3. Shown(Nil) = {}
    BY LayoutLaws DEF Shown, ToSet
  <2>4. ASSUME NEW w \in Windows, NEW p \in Shown(tree[w])
        PROVE  w \in windows /\ p \in panes /\ paneWindow[p] = w /\ ~ IsStashed(p)
    <3>1. w \in windows
      BY <2>3, <2>4, <1>2 DEF PlaceInv
    <3> QED BY <3>1, <2>4, <1>2 DEF PlaceInv
  <2>5. ASSUME NEW p \in panes
        PROVE  IsStashed(p) <=> \A w \in windows : p \notin Shown(tree[w])
    <3>1. windows \subseteq Windows
      BY <1>2 DEF LayoutType
    <3>2. CASE IsStashed(p)
      BY <3>1, <3>2, <2>4
    <3>3. CASE ~ IsStashed(p)
      <4>1. paneWindow[p] \in Windows /\ p \in Shown(tree[paneWindow[p]])
        BY <3>3, <1>2 DEF PlaceInv
      <4> QED BY <4>1, <2>4, <3>3
    <3> QED BY <3>2, <3>3
  <2>6. \A w \in Windows : \A p \in ToSet(Leaves(s.tree[w])) :
          w \in s.windows /\ p \in s.panes /\ s.paneWindow[p] = w
    BY <2>4 DEF Shown
  <2>7. \A p \in s.panes : s.stashed[p].window # 0 <=> \A w \in s.windows : ~ Shows(s.tree[w], p)
    BY <2>5 DEF Shown, Shows, IsStashed
  <2> QED BY <2>1, <2>2, <2>6, <2>7 DEF LayoutsValid
<1>4. HintsValid(s)
  <2> SUFFICES ASSUME NEW p \in panes
               PROVE  LET h == stashed[p] IN
                      IF h.target = 0 THEN h = Stashed(NoHint, h.window)
                      ELSE /\ h.target # p /\ h.direction \in Directions
                           /\ h.weight > 0 /\ h.targetWeight > 0 /\ h.split > 0
    BY DEF HintsValid
  <2>1. p \in PaneID /\ stashed[p] \in StashHints /\ stashed[p].target # p
    BY <1>2 DEF LayoutType, SplitInv
  <2>2. NoHint.target = 0
    BY DEF NoHint
  <2>3. CASE stashed[p] = NotStashed
    BY <2>2, <2>3 DEF NotStashed, Stashed
  <2>4. ASSUME NEW w \in Windows, stashed[p] = Stashed(NoHint, w)
        PROVE  stashed[p].target = 0 /\ stashed[p] = Stashed(NoHint, stashed[p].window)
    BY <2>2, <2>4 DEF Stashed
  <2>5. ASSUME NEW h \in Hints, NEW w \in Windows, stashed[p] = Stashed(h, w)
        PROVE  /\ stashed[p].target # 0 /\ stashed[p].direction \in Directions
               /\ stashed[p].weight > 0 /\ stashed[p].targetWeight > 0 /\ stashed[p].split > 0
    <3>1. /\ stashed[p].target = h.target /\ stashed[p].direction = h.direction
          /\ stashed[p].weight = h.weight /\ stashed[p].targetWeight = h.targetWeight
          /\ stashed[p].split = h.split
      BY <2>5 DEF Stashed
    <3>2. /\ h.target \in PaneID /\ h.direction \in Directions /\ h.weight \in Weight
          /\ h.targetWeight \in Weight /\ h.split \in SplitID
      BY <2>5 DEF Hints
    <3>3. \A n \in Weight : n > 0
      BY ObjectsAssumption DEF Weight
    <3>4. \A n \in SplitID : n > 0
      BY ObjectsAssumption DEF SplitID
    <3> QED BY <3>1, <3>2, <3>3, <3>4, NoPaneZero
  <2> QED BY <2>1, <2>3, <2>4, <2>5 DEF StashHints
<1>5. ReferencesValid(s)
  <2>1. \A p \in panes : toolOf[p] # None => s.tools[toolOf[p]] # NoTool
    <3>1. panes \subseteq PaneID
      BY <1>2 DEF LayoutType
    <3>2. \A p \in panes : toolOf[p] # None => toolOf[p] \in Instances
      BY <1>1, <3>1 DEF ToolInv
    <3>3. \A p \in panes : toolOf[p] # None => tools[toolOf[p]] # NoTool
      BY <1>1, <3>2 DEF ToolInv
    <3> QED BY <3>2, <3>3
  <2>2. \A l, m \in labels : TargetExists(s, l.target) /\ (SameKey(l, m) => l = m)
    BY <1>1 DEF LabelInv, TargetExists
  <2>3. \A a, b \in attentions :
          a.pane \in panes /\ (a.id = b.id \/ KeyOf(a) = KeyOf(b) => a = b)
    BY <1>1 DEF AttentionInv, Indexed
  <2> QED BY <2>1, <2>2, <2>3 DEF ReferencesValid
<1>6. NextIdentifiersValid(s)
  <2>1. panes \subseteq PaneID /\ windows \subseteq Windows
    BY <1>2 DEF LayoutType
  <2> QED BY <2>1, <1>2 DEF NextIdentifiersValid, PlaceInv, SplitInv
<1> QED BY <1>3, <1>4, <1>5, <1>6 DEF SnapshotValid

\* After every command the state and every frontend's copy are ones that
\* stateFromSnapshot accepts, so that neither a further command nor the next
\* start is refused; and the indexes beside the state agree with it.
THEOREM StatesAreAccepted == ObjectsSpec => []StateAccepted
<1>1. ObjectsInv => StateAccepted
  <2> SUFFICES ASSUME ObjectsInv PROVE StateAccepted
    OBVIOUS
  <2>1. AttentionInv /\ ToolInv /\ CopyInv /\ CopyLag
    BY DEF ObjectsInv
  <2>2. SnapshotValid(Snapshot)
    <3> DEFINE s == Snapshot
    <3>1. /\ s.windows = windows /\ s.tree = tree /\ s.nextSplitID = nextSplitID /\ s.panes = panes
          /\ s.nextPaneID = nextPaneID /\ s.paneWindow = paneWindow /\ s.stashed = stashed
          /\ s.toolOf = toolOf /\ s.tools = tools /\ s.labels = labels /\ s.attentions = attentions
      BY DEF Snapshot
    <3> HIDE DEF s
    <3> QED BY <3>1, AcceptedSnapshot DEF s
  <2>3. SnapshotValid(copy)
    <3>1. \A d \in Instances : copy.tools[d] = NoTool <=> tools[d] = NoTool
      BY <2>1, LagFacts
    <3> QED BY <3>1, <2>1, AcceptedSnapshot DEF CopyInv
  <2>4. IndexesExact
    BY <2>1 DEF AttentionInv, Indexed, ToolInv, IndexesExact
  <2> QED BY <2>2, <2>3, <2>4 DEF StateAccepted
<1> QED BY <1>1, ObjectsInvariant, PTL

\* Who changes what a client has read
LEMMA DraftsChange ==
  ASSUME ObjectsNext
  PROVE  \/ drafts' = drafts
         \/ \E c \in Clients, d \in Instances : ReadTool(c, d)
         \/ \E c \in Clients, edited \in ToolStates : UpdateToolState(c, edited)
         \/ \E p \in PaneID : ClosePane(p)
<1>1. CASE MoveStep
  BY <1>1 DEF MoveStep, MovePane
<1>2. CASE StashStep
  <2>1. \A p \in PaneID : StashPane(p) => drafts' = drafts
    BY DEF StashPane
  <2>2. \A p, place : RestorePane(p, place) => drafts' = drafts
    BY DEF RestorePane
  <2> QED BY <1>2, <2>1, <2>2 DEF StashStep
<1>3. CASE WindowStep
  BY <1>3 DEF WindowStep, DeleteWindow
<1>4. CASE ResizeStep
  BY <1>4 DEF ResizeStep, ResizeSplit
<1>5. CASE LabelStep
  BY <1>5 DEF LabelStep, SetLabel, RemoveLabel, RemoveLabelsBySource, labelOnly
<1>6. CASE AttentionStep
  <2>1. \A p, source, value, at : RaiseNew(p, source, value, at) => drafts' = drafts
    BY DEF RaiseNew, attentionOnly
  <2>2. \A a, value, at : RaiseAgain(a, value, at) => drafts' = drafts
    BY DEF RaiseAgain, attentionOnly
  <2>3. \A a, at : AcknowledgeAttention(a, at) => drafts' = drafts
    BY DEF AcknowledgeAttention, attentionOnly
  <2>4. \A source : RemoveAttentionsBySource(source) => drafts' = drafts
    BY DEF RemoveAttentionsBySource, attentionOnly
  <2> QED BY <1>6, <2>1, <2>2, <2>3, <2>4 DEF AttentionStep
<1>7. CASE ToolStep
  BY <1>7 DEF ToolStep
<1>8. ASSUME NEW d \in Instances \cup {None}, PaneStep(d)
      PROVE  drafts' = drafts \/ \E p \in PaneID : ClosePane(p)
  BY <1>8 DEF PaneStep, CreatePane, SplitPane, AddPane
<1> QED BY <1>1, <1>2, <1>3, <1>4, <1>5, <1>6, <1>7, <1>8 DEF ObjectsNext

\* Optimistic concurrency (updateToolState): an accepted update was made of the
\* state it replaces, unless the instance was closed in between.
THEOREM UpdatesAreOfTheLatest == ObjectsSpec => UpdatesSeeLatest
<1> DEFINE Seen == \A c \in Clients :
             drafts'[c] = NoDraft /\ drafts[c] # NoDraft /\ ~ drafts[c].gone
               => drafts[c].read.state = tools[drafts[c].descriptor].state
<1>1. ObjectsInv /\ [ObjectsNext]_objectVars => [Seen]_objectVars
  <2> SUFFICES ASSUME ObjectsInv, ObjectsNext PROVE Seen
    OBVIOUS
  <2> SUFFICES ASSUME NEW c \in Clients, drafts'[c] = NoDraft, drafts[c] # NoDraft, ~ drafts[c].gone
               PROVE  drafts[c].read.state = tools[drafts[c].descriptor].state
    OBVIOUS
  <2>0. DraftInv /\ drafts \in [Clients -> Draft] /\ NoDraft.descriptor = None /\ None \notin Instances
    BY ObjectsAssumption DEF ObjectsInv, DraftInv, NoDraft
  <2>1. CASE drafts' = drafts
    BY <2>1
  <2>2. ASSUME NEW b \in Clients, NEW d \in Instances, ReadTool(b, d) PROVE FALSE
    <3> DEFINE new == [descriptor |-> d, read |-> copy.tools[d], gone |-> FALSE]
    <3>1. drafts' = [drafts EXCEPT ![b] = new]
      BY <2>2 DEF ReadTool
    <3>2. new.descriptor # None
      BY <2>0
    <3> HIDE DEF new
    <3>3. drafts'[c] = new \/ drafts'[c] = drafts[c]
      BY <3>1, <2>0
    <3> QED BY <3>2, <3>3, <2>0
  <2>3. ASSUME NEW b \in Clients, NEW edited \in ToolStates, UpdateToolState(b, edited)
        PROVE  drafts[c].read.state = tools[drafts[c].descriptor].state
    <3>1. /\ drafts' = [drafts EXCEPT ![b] = NoDraft] /\ drafts[b].descriptor # None
          /\ tools[drafts[b].descriptor].generation = drafts[b].read.generation
      BY <2>3 DEF UpdateToolState, SameGeneration
    <3>2. b = c
      BY <3>1, <2>0
    <3> QED BY <3>1, <3>2, <2>0 DEF DraftInv
  <2>4. ASSUME NEW p \in PaneID, ClosePane(p) PROVE FALSE
    <3> DEFINE d == toolOf[p]
               lastView == d # None /\ \A q \in panes \ {p} : toolOf[q] # d
    <3>1. drafts'[c] = [drafts[c] EXCEPT !.gone = @ \/ (lastView /\ drafts[c].descriptor = d)]
      BY <2>4 DEF ClosePane
    <3>2. drafts[c] \in Draft
      BY <2>0
    <3>3. drafts'[c].descriptor = drafts[c].descriptor
      BY <3>1, <3>2 DEF Draft
    <3>4. drafts[c].descriptor = None
      BY <3>3, <2>0
    <3>5. (lastView /\ drafts[c].descriptor = d) = FALSE
      BY <3>4
    <3> HIDE DEF lastView, d
    <3>6. drafts'[c] = [drafts[c] EXCEPT !.gone = drafts[c].gone]
      BY <3>1, <3>2, <3>5 DEF Draft
    <3>7. drafts'[c] = drafts[c]
      BY <3>2, <3>6 DEF Draft
    <3> QED BY <3>7
  <2> QED BY <2>1, <2>2, <2>3, <2>4, DraftsChange
<1> QED BY <1>1, ObjectsInvariant, PTL DEF ObjectsSpec, UpdatesSeeLatest

(***************************************************************************)
(* The commands on trees are the commands of CoreState on their leaves.    *)
(***************************************************************************)

\* The operators on lists are those of CoreState.
LEMMA SameLists ==
  /\ \A s : Structure!ToSet(s) = ToSet(s)
  /\ \A s, x : Structure!IndexIn(s, x) = IndexIn(s, x)
  /\ \A s, x : Structure!Without(s, x) = Without(s, x)
  /\ \A s, t, side, p : Structure!Beside(s, t, side, p) = Beside(s, t, side, p)
  /\ \A s : Structure!FirstPane(s) = FirstPane(s)
<1>1. \A s : Structure!ToSet(s) = ToSet(s)
  BY DEF Structure!ToSet, ToSet
<1>2. \A s, x : Structure!IndexIn(s, x) = IndexIn(s, x)
  BY DEF Structure!IndexIn, IndexIn
<1>3. \A s, i : Structure!RemoveAt(s, i) = RemoveAt(s, i)
  BY DEF Structure!RemoveAt, RemoveAt
<1>4. \A s, i, x : Structure!InsertAt(s, i, x) = InsertAt(s, i, x)
  BY DEF Structure!InsertAt, InsertAt
<1>5. \A s, x : Structure!Without(s, x) = Without(s, x)
  BY <1>1, <1>2, <1>3 DEF Structure!Without, Without
<1>6. \A s, t, side, p : Structure!Beside(s, t, side, p) = Beside(s, t, side, p)
  BY <1>2, <1>4 DEF Structure!Beside, Beside
<1>7. \A s : Structure!FirstPane(s) = FirstPane(s)
  BY DEF Structure!FirstPane, FirstPane
<1> QED BY <1>1, <1>2, <1>5, <1>6, <1>7

\* The leaves of the layouts when one of them is replaced
LEMMA LeavesExcept ==
  ASSUME LayoutInv, NEW w \in Windows, NEW m, tree' = [tree EXCEPT ![w] = m]
  PROVE  [v \in Windows |-> Leaves(tree'[v])]
           = [[v \in Windows |-> Leaves(tree[v])] EXCEPT ![w] = Leaves(m)]
<1>1. tree \in [Windows -> Layouts]
  BY DEF LayoutInv, LayoutType
<1> QED BY <1>1

\* Where an inserted pane is among the leaves, if its split is allocated for it
LEMMA AllocatedLeaves ==
  ASSUME LayoutInv, NEW n \in Layouts, \A id \in SplitIDs(n) : id < nextSplitID,
         NEW p \in PaneID \ Shown(n), NEW a \in Placings, a.target \in Shown(n),
         AllocateSplit(n, a.target, a.direction)
  PROVE  Leaves(Insert(n, p, a, nextSplitID))
           = Beside(Leaves(n), a.target, IF a.before THEN "before" ELSE "after", p)
<1> DEFINE need == RequiresSplit(n, a.target, a.direction)
           new == IF need THEN {nextSplitID} ELSE {}
<1>1. nextSplitID \in 1 .. SplitLimit /\ SplitLimit \in Nat
  BY ObjectsAssumption DEF LayoutInv, LayoutType
<1>2. nextSplitID \in (1 .. SplitLimit) \ SplitIDs(n)
  BY <1>1
<1>3. need => nextSplitID \in SplitID
  BY <1>1 DEF AllocateSplit, SplitID
<1>4. new \subseteq SplitID
  BY <1>3
<1>5. p \in PaneID \ ToSet(Leaves(n)) /\ a \in {b \in Placings : Shows(n, b.target)}
  BY DEF Shown, Shows
<1> QED BY <1>2, <1>4, <1>5, LayoutLaws

\* The split a hint names, while no layout has it
LEMMA FreeSplit ==
  ASSUME LayoutInv, NEW p \in PaneID, OriginalSplitFree(p)
  PROVE  stashed[p].split \in SplitID /\ \A v \in Windows : stashed[p].split \notin SplitIDs(tree[v])
<1>1. stashed[p].split # 0 /\ \A v \in windows : stashed[p].split \notin SplitIDs(tree[v])
  BY DEF OriginalSplitFree
<1>2. PICK h \in Hints \cup {NoHint}, v \in Windows \cup {0} : stashed[p] = Stashed(h, v)
  BY StashedType DEF StashHints, NotStashed
<1>3. stashed[p].split = h.split
  BY <1>2 DEF Stashed
<1>4. NoHint.split = 0
  BY DEF NoHint
<1>5. h \in Hints
  BY <1>1, <1>2, <1>3, <1>4
<1>6. stashed[p].split \in SplitID
  BY <1>3, <1>5 DEF Hints
<1>7. \A u \in Windows : stashed[p].split \notin SplitIDs(tree[u])
  BY <1>1, SmallLayouts DEF LayoutInv, PlaceInv
<1> QED BY <1>6, <1>7

\* Where a restored pane is among the leaves
LEMMA RestoredLeaves ==
  ASSUME LayoutInv, NEW p \in PaneID, NEW place, Restorable(place), RestorePane(p, place)
  PROVE  LET w == place.window
             a == place.at
             side == IF a.before THEN "before" ELSE "after"
         IN /\ w \in windows /\ p \in panes /\ IsStashed(p)
            /\ \E m \in Layouts : /\ tree' = [tree EXCEPT ![w] = m]
                                  /\ Leaves(m) = IF tree[w] = Nil THEN <<p>>
                                                 ELSE Beside(Leaves(tree[w]), a.target, side, p)
<1> DEFINE w == place.window
           a == place.at
           reuse == OriginalSplitFree(p)
           id == IF reuse THEN stashed[p].split ELSE nextSplitID
           m == IF tree[w] = Nil THEN Leaf(p) ELSE Insert(tree[w], p, a, id)
           side == IF a.before THEN "before" ELSE "after"
<1>1. /\ p \in panes /\ IsStashed(p) /\ w \in windows /\ p \notin Shown(tree[w])
      /\ m \in Layouts /\ tree' = [tree EXCEPT ![w] = m]
  BY RestorePaneInserts DEF Inserted
<1>2. w \in Windows /\ tree[w] \in Layouts
  BY <1>1 DEF LayoutInv, LayoutType
<1>3. Leaves(m) = IF tree[w] = Nil THEN <<p>> ELSE Beside(Leaves(tree[w]), a.target, side, p)
  <2>1. CASE tree[w] = Nil
    BY <2>1, LayoutLaws
  <2>2. CASE tree[w] # Nil
    <3> DEFINE n == tree[w]
    <3>1. a \in Placings /\ a.target \in Shown(n)
      BY <2>2 DEF Restorable
    <3>2. m = Insert(n, p, a, id)
      BY <2>2
    <3>3. CASE reuse
      <4>1. id \in SplitID /\ id \notin SplitIDs(n)
        BY <3>3, <1>2, FreeSplit
      <4>2. id \in (1 .. SplitLimit) \ SplitIDs(n)
        BY <4>1, ObjectsAssumption DEF SplitID
      <4>3. p \in PaneID \ ToSet(Leaves(n)) /\ a \in {b \in Placings : Shows(n, b.target)}
        BY <1>1, <3>1 DEF Shown, Shows
      <4> DEFINE new == IF RequiresSplit(n, a.target, a.direction) THEN {id} ELSE {}
      <4>4. new \subseteq SplitID
        BY <4>1
      <4> HIDE DEF id, m, n, a
      <4>5. Leaves(Insert(n, p, a, id)) = Beside(Leaves(n), a.target, side, p)
        BY <4>2, <4>3, <4>4, <1>2, LayoutLaws DEF n
      <4> QED BY <4>5, <3>2, <2>2 DEF n
    <3>4. CASE ~ reuse
      <4>1. id = nextSplitID /\ AllocateSplit(n, a.target, a.direction)
        BY <3>4, <2>2 DEF RestorePane
      <4>2. \A j \in SplitIDs(n) : j < nextSplitID
        BY <1>2 DEF LayoutInv, SplitInv
      <4> HIDE DEF id, m, n, a
      <4>3. Leaves(Insert(n, p, a, nextSplitID)) = Beside(Leaves(n), a.target, side, p)
        BY <4>1, <4>2, <3>1, <1>1, <1>2, AllocatedLeaves DEF n
      <4> QED BY <4>1, <4>3, <3>2, <2>2 DEF n
    <3> QED BY <3>3, <3>4
  <2> QED BY <2>1, <2>2
<1> HIDE DEF m, side, a, w
<1> QED BY <1>1, <1>3 DEF a, w, side

\* A window that exists is visible, and the first one is the first visible.
LEMMA WindowsVisible ==
  ASSUME LayoutInv
  PROVE  /\ \A w \in windows : Structure!IsVisible(w)
         /\ \A w : Structure!IsVisible(w) => w \in windows
         /\ Structure!FirstVisibleWindow = 1 /\ FirstWindow = 1
<1>1. 1 \in windows /\ windows \subseteq {1, 2}
  BY DEF LayoutInv, LayoutType, PlaceInv, Windows
<1> DEFINE ids == IF windows = Windows THEN <<1, 2>> ELSE <<1>>
<1>2. windows = {1} \/ windows = {1, 2}
  BY <1>1
<1>3. ToSet(ids) = windows /\ ids # <<>> /\ ids[1] = 1
  BY <1>2 DEF ToSet, Windows
<1>4. ToSet(<<1>>) = {1}
  BY DEF ToSet
<1>5. \A w : Structure!IsVisible(w) => w \in windows
  BY DEF Structure!IsVisible
<1>6. \A w \in windows : Structure!IsVisible(w)
  BY <1>1, <1>3, <1>4, SameLists
     DEF Structure!IsVisible, Structure!IsStashedWindow, Structure!Workspaces, Windows
<1>7. Structure!FirstShowing = 1
  BY <1>3 DEF Structure!FirstShowing
<1>8. Structure!FirstVisibleWindow = 1
  BY <1>3, <1>7 DEF Structure!FirstVisibleWindow
<1> QED BY <1>1, <1>5, <1>6, <1>8 DEF FirstWindow

\* A pane that is on the screen is a leaf of its window.
LEMMA ScreenRefined ==
  ASSUME LayoutInv, NEW p \in PaneID, OnScreen(p)
  PROVE  /\ Structure!OnScreen(p) /\ paneWindow[p] \in windows /\ paneWindow[p] \in Windows
         /\ p \in ToSet(Leaves(tree[paneWindow[p]]))
<1>1. p \in panes /\ ~ IsStashed(p)
  BY DEF OnScreen
<1>2. paneWindow[p] \in Windows /\ paneWindow[p] \in windows /\ p \in Shown(tree[paneWindow[p]])
  BY <1>1, PaneOut DEF OnScreen
<1>3. Structure!OnScreen(p)
  BY <1>1, <1>2 DEF Structure!OnScreen, Structure!IsStashedPane, Structure!IsStashedWindow, IsStashed
<1> QED BY <1>2, <1>3 DEF Shown

\* Creating the first pane of a window
LEMMA CreatePaneRefined ==
  ASSUME LayoutInv, NEW w \in Windows, NEW p \in PaneID, NEW d, NEW tool, CreatePane(w, p, d, tool)
  PROVE  Structure!CreatePane(w, p)
<1>1. /\ w \in windows /\ tree[w] = Nil /\ tree' = [tree EXCEPT ![w] = Leaf(p)]
      /\ nextPaneID < PaneLimit /\ p = nextPaneID /\ nextPaneID' = nextPaneID + 1
      /\ panes' = panes \cup {p} /\ paneWindow' = [paneWindow EXCEPT ![p] = w]
      /\ UNCHANGED <<windows, stashed>>
  BY DEF CreatePane, AddPane
<1>2. Leaves(Nil) = <<>> /\ Leaves(Leaf(p)) = <<p>>
  BY LayoutLaws
<1>3. [v \in Windows |-> Leaves(tree'[v])] = [[v \in Windows |-> Leaves(tree[v])] EXCEPT ![w] = <<p>>]
  <2>1. tree \in [Windows -> Layouts]
    BY DEF LayoutInv, LayoutType
  <2> QED BY <2>1, <1>1, <1>2
<1> QED BY <1>1, <1>2, <1>3
        DEF Structure!CreatePane, Structure!AddPane, Structure!AllocatePane, Structure!IsStashedWindow,
            Structure!workspaceVars, Structure!windowVars, Structure!frontendVars, IsStashed

\* Splitting a pane
LEMMA SplitPaneRefined ==
  ASSUME LayoutInv, NEW t \in PaneID, NEW direction \in Directions, NEW p \in PaneID,
         NEW d, NEW tool, SplitPane(t, direction, p, d, tool)
  PROVE  Structure!SplitPane(t, p)
<1> DEFINE w == paneWindow[t]
           a == After(t, direction)
           m == Insert(tree[w], p, a, nextSplitID)
<1>1. /\ OnScreen(t) /\ AllocateSplit(tree[w], t, direction)
      /\ tree' = [tree EXCEPT ![w] = m]
      /\ nextPaneID < PaneLimit /\ p = nextPaneID /\ nextPaneID' = nextPaneID + 1
      /\ panes' = panes \cup {p} /\ paneWindow' = [paneWindow EXCEPT ![p] = w]
      /\ UNCHANGED <<windows, stashed>>
  BY SplitPaneInserts DEF SplitPane, AddPane
<1>2. /\ Structure!OnScreen(t) /\ w \in windows /\ w \in Windows /\ t \in ToSet(Leaves(tree[w]))
      /\ tree[w] \in Layouts /\ t \in Shown(tree[w])
  BY <1>1, ScreenRefined DEF LayoutInv, LayoutType, Shown
<1>3. p \notin Shown(tree[w])
  <2>1. nextPaneID \in Int /\ \A q \in panes : q < nextPaneID
    BY DEF LayoutInv, LayoutType, PlaceInv
  <2> QED BY <2>1, <1>1, <1>2 DEF LayoutInv, PlaceInv
<1>4. a \in Placings /\ a.target = t /\ a.direction = direction /\ a.before = FALSE
  BY AfterFacts DEF After, Placing
<1>5. \A id \in SplitIDs(tree[w]) : id < nextSplitID
  BY <1>2 DEF LayoutInv, SplitInv
<1> HIDE DEF a
<1>6. Leaves(m) = Beside(Leaves(tree[w]), t, "after", p)
  BY <1>1, <1>2, <1>3, <1>4, <1>5, AllocatedLeaves
<1> HIDE DEF m
<1>7. [v \in Windows |-> Leaves(tree'[v])]
        = [[v \in Windows |-> Leaves(tree[v])] EXCEPT ![w] = Beside(Leaves(tree[w]), t, "after", p)]
  BY <1>1, <1>2, <1>6, LeavesExcept
<1> QED BY <1>1, <1>2, <1>7, SameLists
        DEF Structure!SplitPane, Structure!AddPane, Structure!AllocatePane,
            Structure!workspaceVars, Structure!windowVars, Structure!frontendVars, IsStashed

\* Stashing a pane: the hint names a neighbour.
LEMMA StashPaneRefined ==
  ASSUME LayoutInv, NEW p \in PaneID, StashPane(p)
  PROVE  Structure!StashPane(p)
<1> DEFINE w == paneWindow[p]
           s == Leaves(tree[w])
           h == HintFor(tree[w], p)
           side == IF h.before THEN "before" ELSE "after"
<1>1. /\ OnScreen(p) /\ stashed' = [stashed EXCEPT ![p] = Stashed(h, w)]
      /\ tree' = [tree EXCEPT ![w] = RemoveLeaf(tree[w], p)]
      /\ UNCHANGED <<windows, panes, nextPaneID, paneWindow>>
  BY DEF StashPane
<1>2. /\ Structure!OnScreen(p) /\ w \in windows /\ w \in Windows /\ p \in ToSet(s)
      /\ tree[w] \in Layouts /\ s \in Seq(PaneID)
  BY <1>1, ScreenRefined, LayoutFacts DEF LayoutInv, LayoutType
<1>3. Leaves(RemoveLeaf(tree[w], p)) = Without(s, p)
  BY <1>2, LayoutLaws
<1>4. [v \in Windows |-> Leaves(tree'[v])]
        = [[v \in Windows |-> Leaves(tree[v])] EXCEPT ![w] = Without(s, p)]
  BY <1>1, <1>2, <1>3, LeavesExcept
<1>5. Stashed(h, w).target = h.target /\ Stashed(h, w).before = h.before /\ Stashed(h, w).window = w
  BY DEF Stashed
<1>6. IF Len(s) = 1 THEN h = NoHint ELSE h \in Hints /\ Neighbouring(h, s, p)
  BY <1>2, LayoutLaws
<1> HIDE DEF s, h
<1>7. [target |-> h.target, side |-> side] \in Structure!Neighbours(s, p)
  <2>1. CASE Len(s) = 1
    <3>1. NoHint.target = 0 /\ NoHint.before = FALSE
      BY DEF NoHint
    <3> QED BY <2>1, <3>1, <1>6 DEF Structure!Neighbours
  <2>2. CASE Len(s) # 1
    <3> DEFINE i == IndexIn(s, p)
               j == IndexIn(s, h.target)
    <3>1. h.target \in ToSet(s) /\ (IF h.before THEN j = i + 1 ELSE j < i) /\ h.before \in BOOLEAN
      BY <2>2, <1>6 DEF Neighbouring, Hints
    <3>2. i \in 1 .. Len(s) /\ j \in 1 .. Len(s) /\ s[j] = h.target /\ DOMAIN s = 1 .. Len(s)
      BY <3>1, <1>2, IndexFacts, LenProperties
    <3>3. Structure!IndexIn(s, p) = i
      BY SameLists
    <3> HIDE DEF i, j
    <3>4. CASE h.before
      BY <3>1, <3>2, <3>3, <3>4, <2>2 DEF Structure!Neighbours
    <3>5. CASE ~ h.before
      <4>1. j \in 1 .. (i - 1)
        BY <3>1, <3>2, <3>5
      <4> QED BY <4>1, <3>2, <3>3, <3>5, <2>2 DEF Structure!Neighbours
    <3> QED BY <3>4, <3>5
  <2> QED BY <2>1, <2>2
<1>8. w # 0
  BY <1>2 DEF Windows
<1> DEFINE old == [q \in PaneID |->
              [workspace |-> IF IsStashed(q) THEN 1 ELSE 0, window |-> stashed[q].window,
               target |-> stashed[q].target, side |-> IF stashed[q].before THEN "before" ELSE "after"]]
           new == [q \in PaneID |->
              [workspace |-> IF IsStashed(q)' THEN 1 ELSE 0, window |-> stashed'[q].window,
               target |-> stashed'[q].target, side |-> IF stashed'[q].before THEN "before" ELSE "after"]]
<1>9. new = [old EXCEPT ![p] = [workspace |-> 1, window |-> w, target |-> h.target, side |-> side]]
  <2>1. \A q \in PaneID : q # p => stashed'[q] = stashed[q] /\ IsStashed(q)' = IsStashed(q)
    BY <1>1 DEF LayoutInv, LayoutType, IsStashed
  <2>2. stashed'[p] = Stashed(h, w) /\ IsStashed(p)'
    BY <1>1, <1>5, <1>8 DEF LayoutInv, LayoutType, IsStashed
  <2> QED BY <2>1, <2>2, <1>5
<1>10. Structure!HidePane(p, w)
  BY DEF Structure!HidePane
<1>11. UNCHANGED <<windows, panes, nextPaneID, paneWindow>>
  BY <1>1
<1> HIDE DEF side
<1> QED BY <1>2, <1>4, <1>7, <1>9, <1>10, <1>11, SameLists
        DEF Structure!StashPane, Structure!workspaceVars, Structure!windowVars, Structure!idVars, s

\* Moving a pane, within its window or to another one
LEMMA MovePaneRefined ==
  ASSUME LayoutInv, NEW p \in PaneID, NEW w \in Windows, NEW t \in PaneID \cup {0},
         NEW direction \in Directions \cup {NoDirection}, MovePane(p, w, t, direction)
  PROVE  IF w = paneWindow[p] THEN Structure!MovePaneWithin(p, t)
         ELSE Structure!MovePaneAcross(p, w, t)
<1> DEFINE from == paneWindow[p]
           left == RemoveLeaf(tree[from], p)
           into == IF w = from THEN left ELSE tree[w]
           m == IF t = 0 THEN Leaf(p) ELSE Insert(into, p, After(t, direction), nextSplitID)
           lists == [v \in Windows |-> Leaves(tree[v])]
<1>1. /\ OnScreen(p) /\ from \in Windows /\ w \in windows
      /\ p \in Shown(tree[from]) /\ p \notin Shown(into) /\ left \in Layouts
      /\ SplitIDs(left) \subseteq SplitIDs(tree[from])
      /\ tree' = [tree EXCEPT ![from] = left, ![w] = m]
  BY MovePaneInserts
<1>2. /\ t # p
      /\ IF tree[w] = Nil THEN t = 0 ELSE t \in PaneID /\ Shows(into, t)
      /\ t # 0 => direction # NoDirection /\ AllocateSplit(into, t, direction)
      /\ paneWindow' = [paneWindow EXCEPT ![p] = w]
      /\ UNCHANGED <<windows, panes, nextPaneID, stashed>>
  BY DEF MovePane
<1>3. tree \in [Windows -> Layouts] /\ paneWindow \in [PaneID -> Windows \cup {0}]
  BY DEF LayoutInv, LayoutType
<1>4. Structure!OnScreen(p) /\ p \in ToSet(Leaves(tree[from]))
  BY <1>1, ScreenRefined
<1>5. Leaves(left) = Without(Leaves(tree[from]), p)
  BY <1>3, <1>4, <1>1, LayoutLaws
<1>6. tree[w] = Nil => w # from
  BY <1>1, SmallLayouts
<1>7. Leaves(m) = Beside(Leaves(into), t, "after", p)
  <2>1. CASE tree[w] = Nil
    <3>1. t = 0 /\ into = Nil
      BY <2>1, <1>2, <1>6
    <3>2. Leaves(m) = <<p>> /\ Leaves(into) = <<>>
      BY <3>1, LayoutLaws
    <3> HIDE DEF m, into
    <3> QED BY <3>2 DEF Beside
  <2>2. CASE tree[w] # Nil
    <3> DEFINE a == After(t, direction)
    <3>1. t \in PaneID /\ t # 0 /\ t \in Shown(into)
      BY <2>2, <1>2, NoPaneZero DEF Shows, Shown
    <3>2. direction \in Directions /\ AllocateSplit(into, t, direction)
      BY <3>1, <1>2
    <3>3. a \in Placings /\ a.target = t /\ a.direction = direction
      BY <3>1, <3>2, AfterFacts
    <3>4. a.before = FALSE
      BY DEF After, Placing
    <3>5. into \in Layouts /\ \A id \in SplitIDs(into) : id < nextSplitID
      BY <1>1, <1>3 DEF LayoutInv, SplitInv
    <3>6. m = Insert(into, p, a, nextSplitID)
      BY <3>1
    <3> HIDE DEF a, into, m
    <3> QED BY <3>1, <3>2, <3>3, <3>4, <3>5, <3>6, <1>1, AllocatedLeaves
  <2> QED BY <2>1, <2>2
<1> HIDE DEF left, m
<1>8. [v \in Windows |-> Leaves(tree'[v])] = [lists EXCEPT ![from] = Leaves(left), ![w] = Leaves(m)]
  BY <1>1, <1>3
<1>9. CASE w = from
  <2>1. t \in ToSet(Leaves(left)) /\ Leaves(m) = Beside(Leaves(left), t, "after", p)
    BY <1>9, <1>2, <1>6, <1>7 DEF Shows
  <2>2. t \in ToSet(Leaves(tree[from]))
    <3>1. Shown(left) = Shown(tree[from]) \ {p}
      BY MovePaneInserts DEF left
    <3> QED BY <2>1, <3>1 DEF Shown
  <2>3. paneWindow' = paneWindow
    BY <1>2, <1>3, <1>9
  <2>4. [v \in Windows |-> Leaves(tree'[v])]
          = [lists EXCEPT ![from] = Beside(Without(Leaves(tree[from]), p), t, "after", p)]
    BY <1>8, <1>9, <1>1, <1>5, <2>1
  <2>5. lists[from] = Leaves(tree[from])
    BY <1>1
  <2>6. UNCHANGED <<Structure!idVars, Structure!workspaceVars, Structure!windowVars,
                    Structure!paneVars, Structure!frontendVars>>
    BY <1>2, <2>3 DEF Structure!idVars, Structure!workspaceVars, Structure!windowVars,
                      Structure!paneVars, Structure!frontendVars, IsStashed
  <2>7. Structure!MovePaneWithin(p, t)
    BY <1>2, <1>4, <2>2, <2>4, <2>5, <2>6, SameLists DEF Structure!MovePaneWithin
  <2> QED BY <2>7, <1>9
<1>10. CASE w # from
  <2>1. Leaves(m) = Beside(Leaves(tree[w]), t, "after", p)
    BY <1>10, <1>7
  <2>2. IF Leaves(tree[w]) = <<>> THEN t = 0 ELSE t \in ToSet(Leaves(tree[w]))
    <3>1. Leaves(tree[w]) = <<>> <=> tree[w] = Nil
      BY <1>3, LayoutLaws
    <3> QED BY <3>1, <1>2, <1>10 DEF Shows
  <2>3. [v \in Windows |-> Leaves(tree'[v])]
          = [lists EXCEPT ![from] = Without(Leaves(tree[from]), p),
                          ![w] = Beside(Leaves(tree[w]), t, "after", p)]
    BY <1>8, <1>5, <2>1
  <2>4. lists[w] = Leaves(tree[w]) /\ [lists EXCEPT ![from] = Without(Leaves(tree[from]), p)][w] = Leaves(tree[w])
    BY <1>10
  <2>5. Structure!MovePaneAcross(p, w, t)
    BY <1>1, <1>2, <1>4, <1>10, <2>2, <2>3, <2>4, SameLists
       DEF Structure!MovePaneAcross, Structure!IsStashedWindow, Structure!idVars, Structure!workspaceVars,
           Structure!windowVars, IsStashed
  <2> QED BY <2>5, <1>10
<1> QED BY <1>9, <1>10

\* Closing a pane
LEMMA ClosePaneRefined ==
  ASSUME LayoutInv, NEW p \in PaneID, ClosePane(p)
  PROVE  Structure!ClosePane(p)
<1> DEFINE w == paneWindow[p]
           m == RemoveLeaf(tree[w], p)
<1>1. /\ p \in panes /\ panes' = panes \ {p}
      /\ tree' = (IF IsStashed(p) THEN tree ELSE [tree EXCEPT ![w] = m])
      /\ paneWindow' = [paneWindow EXCEPT ![p] = 0]
      /\ stashed' = [stashed EXCEPT ![p] = NotStashed]
      /\ UNCHANGED <<windows, nextPaneID>>
  BY DEF ClosePane
<1>2. /\ w \in Windows /\ tree \in [Windows -> Layouts] /\ stashed \in [PaneID -> StashHints]
      /\ ~ IsStashed(p) => p \in ToSet(Leaves(tree[w]))
  BY <1>1, PaneOut DEF OnScreen, LayoutInv, LayoutType, Shown
<1>3. ~ IsStashed(p) => Leaves(m) = Without(Leaves(tree[w]), p)
  BY <1>2, LayoutLaws
<1> HIDE DEF m
<1>4. [v \in Windows |-> Leaves(tree'[v])]
        = [[v \in Windows |-> Leaves(tree[v])] EXCEPT
             ![w] = IF IsStashed(p) THEN Leaves(tree[w]) ELSE Without(Leaves(tree[w]), p)]
  BY <1>1, <1>2, <1>3
<1>5. NotStashed.window = 0 /\ NotStashed.target = 0 /\ NotStashed.before = FALSE
  BY DEF NotStashed, Stashed, NoHint
<1> DEFINE old == [q \in PaneID |->
              [workspace |-> IF IsStashed(q) THEN 1 ELSE 0, window |-> stashed[q].window,
               target |-> stashed[q].target, side |-> IF stashed[q].before THEN "before" ELSE "after"]]
           new == [q \in PaneID |->
              [workspace |-> IF IsStashed(q)' THEN 1 ELSE 0, window |-> stashed'[q].window,
               target |-> stashed'[q].target, side |-> IF stashed'[q].before THEN "before" ELSE "after"]]
<1>6. new = [old EXCEPT ![p] = [workspace |-> 0, window |-> 0, target |-> 0, side |-> "after"]]
  <2>1. \A q \in PaneID : q # p => stashed'[q] = stashed[q] /\ IsStashed(q)' = IsStashed(q)
    BY <1>1, <1>2 DEF IsStashed
  <2>2. stashed'[p] = NotStashed /\ ~ IsStashed(p)'
    BY <1>1, <1>2, <1>5 DEF IsStashed
  <2> HIDE DEF w
  <2> QED BY <2>1, <2>2, <1>5
<1>7. Structure!HidePane(p, w)
  BY DEF Structure!HidePane
<1>8. Structure!IsStashedPane(p) = IsStashed(p)
  BY DEF Structure!IsStashedPane, IsStashed
<1> QED BY <1>1, <1>2, <1>4, <1>6, <1>7, <1>8, SameLists
        DEF Structure!ClosePane, Structure!idVars, Structure!workspaceVars, Structure!windowVars,
            Structure!NoPaneHint

\* The place c of CoreState is the place of a tree, where only the window
\* matters while the window is empty.
SamePlace(c, place) ==
  /\ c.window = place.window
  /\ tree[place.window] # Nil =>
       c.target = place.at.target /\ c.side = IF place.at.before THEN "before" ELSE "after"

\* Restoring a pane, at a place that is the same in CoreState
LEMMA RestoreAtRefined ==
  ASSUME LayoutInv, NEW p \in PaneID, NEW place, Restorable(place), RestorePane(p, place),
         NEW c, SamePlace(c, place)
  PROVE  Structure!RestoreAt(p, c)
<1> DEFINE w == place.window
           a == place.at
           s == Leaves(tree[w])
           side == IF a.before THEN "before" ELSE "after"
<1>1. /\ w \in windows /\ p \in panes /\ IsStashed(p)
      /\ \E m \in Layouts : /\ tree' = [tree EXCEPT ![w] = m]
                            /\ Leaves(m) = IF tree[w] = Nil THEN <<p>> ELSE Beside(s, a.target, side, p)
  BY RestoredLeaves
<1>2. /\ paneWindow' = [paneWindow EXCEPT ![p] = w]
      /\ stashed' = [stashed EXCEPT ![p] = NotStashed]
      /\ UNCHANGED <<windows, panes, nextPaneID>>
  BY DEF RestorePane
<1>3. /\ w \in Windows /\ tree \in [Windows -> Layouts] /\ stashed \in [PaneID -> StashHints]
  BY <1>1 DEF LayoutInv, LayoutType
<1>4. PICK m \in Layouts : /\ tree' = [tree EXCEPT ![w] = m]
                           /\ Leaves(m) = IF tree[w] = Nil THEN <<p>> ELSE Beside(s, a.target, side, p)
  BY <1>1
<1>5. Leaves(m) = Beside(s, c.target, c.side, p)
  <2>1. CASE tree[w] = Nil
    <3>1. s = <<>> /\ Leaves(m) = <<p>>
      BY <2>1, <1>4, LayoutLaws
    <3> HIDE DEF s
    <3> QED BY <3>1 DEF Beside
  <2>2. CASE tree[w] # Nil
    <3>1. c.target = a.target /\ c.side = side
      BY <2>2 DEF SamePlace
    <3> QED BY <3>1, <2>2, <1>4
  <2> QED BY <2>1, <2>2
<1>6. [v \in Windows |-> Leaves(tree'[v])]
        = [[v \in Windows |-> Leaves(tree[v])] EXCEPT ![w] = Beside(s, c.target, c.side, p)]
  BY <1>3, <1>4, <1>5
<1>7. NotStashed.window = 0 /\ NotStashed.target = 0 /\ NotStashed.before = FALSE
  BY DEF NotStashed, Stashed, NoHint
<1> DEFINE old == [q \in PaneID |->
              [workspace |-> IF IsStashed(q) THEN 1 ELSE 0, window |-> stashed[q].window,
               target |-> stashed[q].target, side |-> IF stashed[q].before THEN "before" ELSE "after"]]
           new == [q \in PaneID |->
              [workspace |-> IF IsStashed(q)' THEN 1 ELSE 0, window |-> stashed'[q].window,
               target |-> stashed'[q].target, side |-> IF stashed'[q].before THEN "before" ELSE "after"]]
<1>8. new = [old EXCEPT ![p] = [workspace |-> 0, window |-> 0, target |-> 0, side |-> "after"]]
  <2>1. \A q \in PaneID : q # p => stashed'[q] = stashed[q] /\ IsStashed(q)' = IsStashed(q)
    BY <1>2, <1>3 DEF IsStashed
  <2>2. stashed'[p] = NotStashed /\ ~ IsStashed(p)'
    BY <1>2, <1>3, <1>7 DEF IsStashed
  <2> QED BY <2>1, <2>2, <1>7
<1>9. Structure!CanRestore(p, c)
  <2>1. w # 0
    BY <1>3 DEF Windows
  <2>2. w = c.window
    BY DEF SamePlace
  <2> QED BY <2>1, <2>2, <1>1 DEF Structure!CanRestore, Structure!IsStashedPane, IsStashed
<1>10. w = c.window
  BY DEF SamePlace
<1> DEFINE lists == [v \in Windows |-> Leaves(tree[v])]
<1>11. lists[w] = s
  BY <1>3
<1>12. UNCHANGED <<Structure!idVars, Structure!workspaceVars, Structure!windowVars, panes,
                   Structure!frontendVars>>
  BY <1>2 DEF Structure!idVars, Structure!workspaceVars, Structure!windowVars, Structure!frontendVars
<1> HIDE DEF w, s, side, a
<1> QED BY <1>2, <1>6, <1>8, <1>9, <1>10, <1>11, <1>12, SameLists
        DEF Structure!RestoreAt, Structure!NoPaneHint

\* Back to where the hint says
LEMMA RestoreHintedRefined ==
  ASSUME LayoutInv, NEW p \in PaneID, RestorePane(p, HintedPlace(p))
  PROVE  Structure!RestorePane(p, "f")
<1> DEFINE h == stashed[p]
           side == IF h.before THEN "before" ELSE "after"
           place == HintedPlace(p)
<1>0. PICK c : c = Structure!HintedPlacement(p, "f")
  OBVIOUS
<1>1. Restorable(place)
  BY HintedPlaceRestorable
<1>2. /\ \A w \in windows : Structure!IsVisible(w)
      /\ \A w : Structure!IsVisible(w) => w \in windows
      /\ Structure!FirstVisibleWindow = 1 /\ FirstWindow = 1
  BY WindowsVisible
<1>3. tree \in [Windows -> Layouts] /\ windows \subseteq Windows /\ 1 \in Windows
  BY DEF LayoutInv, LayoutType, Windows
<1>4. \A v \in Windows : Leaves(tree[v]) = <<>> <=> tree[v] = Nil
  BY <1>3, LayoutLaws
<1>5. SamePlace(c, place)
  <2>1. CASE h.window \in windows /\ NeighbourThere(h)
    <3> DEFINE at == Placing(h.target, h.direction, h.before, h.weight, h.targetWeight, FALSE)
    <3>1. place = [window |-> h.window, at |-> at]
      BY <2>1 DEF HintedPlace
    <3>2. place.window = h.window /\ place.at.target = h.target /\ place.at.before = h.before
      BY <3>1 DEF Placing
    <3>3. h.window \in Windows /\ Structure!IsVisible(h.window)
      BY <2>1, <1>2, <1>3
    <3>4. CASE tree[h.window] = Nil
      <4>1. c = Structure!Placement(h.window, 0, "after")
        BY <1>0, <3>3, <3>4, <1>4 DEF Structure!HintedPlacement
      <4> QED BY <4>1, <3>2, <3>4 DEF Structure!Placement, SamePlace
    <3>5. CASE tree[h.window] # Nil
      <4>1. h.target \in ToSet(Leaves(tree[h.window])) /\ Leaves(tree[h.window]) # <<>>
        BY <2>1, <3>3, <3>5, <1>4 DEF NeighbourThere, Shows
      <4>2. c = Structure!Placement(h.window, h.target, side)
        BY <1>0, <3>3, <4>1, SameLists DEF Structure!HintedPlacement
      <4> QED BY <4>2, <3>2 DEF Structure!Placement, SamePlace
    <3> QED BY <3>4, <3>5
  <2>2. CASE ~ (h.window \in windows /\ NeighbourThere(h))
    <3> DEFINE s == Leaves(tree[1])
               t == IF tree[1] = Nil THEN 0 ELSE s[1]
    <3>1. place = [window |-> 1, at |-> Placing(t, "vertical", FALSE, 1, 1, FALSE)]
      BY <2>2, <1>2 DEF HintedPlace
    <3>2. place.window = 1 /\ place.at.target = t /\ place.at.before = FALSE
      BY <3>1 DEF Placing
    <3>3. Structure!IsVisible(h.window) =>
            Leaves(tree[h.window]) # <<>> /\ h.target \notin ToSet(Leaves(tree[h.window]))
      BY <2>2, <1>2, <1>3, <1>4 DEF NeighbourThere, Shows
    <3>4. Structure!IsVisible(h.window) => h.window \in Windows
      BY <1>2, <1>3
    <3>5. c = Structure!DefaultPlacement(1)
      BY <1>0, <3>3, <3>4, <1>2, SameLists DEF Structure!HintedPlacement
    <3>6. c = Structure!Placement(1, FirstPane(s), "after")
      BY <3>5, <1>3, SameLists DEF Structure!DefaultPlacement
    <3>7. FirstPane(s) = t
      BY <1>3, <1>4 DEF FirstPane
    <3> HIDE DEF t, place
    <3> QED BY <3>2, <3>6, <3>7 DEF Structure!Placement, SamePlace
  <2> QED BY <2>1, <2>2
<1> HIDE DEF place
<1>6. RestorePane(p, place)
  BY DEF place
<1>7. Structure!RestoreAt(p, c)
  BY <1>1, <1>5, <1>6, RestoreAtRefined
<1> QED BY <1>0, <1>7 DEF Structure!RestorePane, Structure!RestoreAt, Structure!CanRestore

\* To a place that was asked for
LEMMA RestoreGivenRefined ==
  ASSUME LayoutInv, NEW p \in PaneID, NEW w \in Windows, NEW t \in PaneID \cup {0},
         NEW direction \in Directions \cup {NoDirection},
         PlaceAccepted(w, t, direction), RestorePane(p, GivenPlace(w, t, direction))
  PROVE  Structure!RestorePaneTo(p, w, t)
<1> DEFINE place == GivenPlace(w, t, direction)
           c == Structure!Placement(w, t, "after")
           s == Leaves(tree[w])
<1>1. place.window = w /\ place.at.target = t /\ place.at.before = FALSE
  BY DEF GivenPlace, Placing
<1>2. w \in windows
  BY <1>1 DEF RestorePane
<1>3. Restorable(place)
  BY <1>2, GivenPlaceRestorable
<1>4. c.window = w /\ c.target = t /\ c.side = "after"
  BY DEF Structure!Placement
<1>5. SamePlace(c, place)
  BY <1>1, <1>4 DEF SamePlace
<1> HIDE DEF place, c
<1>8. Structure!RestoreAt(p, c)
  BY <1>3, <1>5, RestoreAtRefined DEF place
<1>6. Structure!IsVisible(w)
  BY <1>2, WindowsVisible
<1>7. Structure!Placement(w, t, "after") \in Structure!Placements(w)
  <2>1. s = <<>> <=> tree[w] = Nil
    BY LayoutLaws DEF LayoutInv, LayoutType
  <2>2. CASE tree[w] = Nil
    <3>1. t = 0
      BY <2>2 DEF PlaceAccepted
    <3> QED BY <3>1, <2>1, <2>2 DEF Structure!Placements
  <2>3. CASE tree[w] # Nil
    <3>1. t \in ToSet(s)
      BY <2>3 DEF PlaceAccepted, Shows
    <3> QED BY <3>1, <2>1, <2>3, SameLists DEF Structure!Placements
  <2> QED BY <2>2, <2>3
<1> QED BY <1>6, <1>7, <1>8 DEF Structure!RestorePaneTo, c

\* Deleting the second window, which is empty
LEMMA DeleteWindowRefined ==
  ASSUME LayoutInv, NEW w \in Windows, DeleteWindow(w)
  PROVE  Structure!DeleteWindow(w)
<1>1. /\ w \in windows /\ w # 1 /\ tree[w] = Nil /\ windows' = windows \ {w}
      /\ UNCHANGED <<tree, panes, nextPaneID, paneWindow, stashed>>
  BY DEF DeleteWindow
<1>2. w = 2 /\ windows = Windows /\ windows' = {1} /\ windows' # Windows
  <2>1. windows \subseteq {1, 2} /\ 1 \in windows /\ Windows = {1, 2} /\ w \in {1, 2}
    BY DEF LayoutInv, LayoutType, PlaceInv, Windows
  <2>2. w = 2
    BY <2>1, <1>1
  <2>3. windows = {1, 2}
    BY <2>1, <2>2, <1>1
  <2>4. windows' = {1}
    BY <2>2, <2>3, <1>1
  <2> QED BY <2>1, <2>2, <2>3, <2>4
<1> DEFINE both == <<1, 2>>
<1>3. Without(both, 2) = <<1>>
  <2>1. ToSet(both) = {1, 2} /\ DOMAIN both = {1, 2} /\ Len(both) = 2
    BY DEF ToSet
  <2>2. IndexIn(both, 2) = 2
    BY <2>1 DEF IndexIn
  <2>3. RemoveAt(both, 2) = <<1>>
    <3>1. both \in Seq(Nat) /\ Len(both) = 2 /\ both[1] = 1
      OBVIOUS
    <3> DEFINE a == SubSeq(both, 1, 1)
               b == SubSeq(both, 3, 2)
    <3>2. a \in Seq(Nat) /\ Len(a) = 1 /\ a[1] = 1
      BY <3>1, SubSeqProperties
    <3>3. b = <<>>
      BY <3>1, SubSeqProperties, EmptySeq
    <3>4. RemoveAt(both, 2) = a \o b
      BY <3>1 DEF RemoveAt
    <3> HIDE DEF a, b, both
    <3>5. a = <<1>>
      BY <3>2
    <3> QED BY <3>2, <3>3, <3>4, <3>5
  <2> QED BY <2>1, <2>2, <2>3 DEF Without
<1>4. Leaves(tree[w]) = <<>>
  BY <1>1, LayoutLaws
<1>5. <<IF windows' = Windows THEN <<1, 2>> ELSE <<1>>>>
        = [<<IF windows = Windows THEN both ELSE <<1>>>> EXCEPT ![1] = Without(both, 2)]
  BY <1>2, <1>3
<1>6. [v \in Windows |-> IF v \in windows' THEN "main" ELSE "unnamed"]
        = [[v \in Windows |-> IF v \in windows THEN "main" ELSE "unnamed"] EXCEPT ![w] = "unnamed"]
  BY <1>1
<1>7. [v \in Windows |-> IF v \in windows' THEN 1 ELSE 0]
        = [[v \in Windows |-> IF v \in windows THEN 1 ELSE 0] EXCEPT ![w] = 0]
  BY <1>1
<1>8. Structure!ResetFocus(Structure!FrontendsOnWindow(w))
  BY DEF Structure!ResetFocus, Structure!FrontendsOnWindow
<1> QED BY <1>1, <1>2, <1>4, <1>5, <1>6, <1>7, <1>8, SameLists
        DEF Structure!DeleteWindow, Structure!IsStashedWindow, Structure!idVars, Structure!paneVars, IsStashed

\* Whatever leaves the layouts and the panes alone changes nothing of CoreState.
LEMMA StructureUnchanged ==
  ASSUME UNCHANGED <<windows, panes, nextPaneID, paneWindow, stashed>>,
         \A v \in Windows : Leaves(tree'[v]) = Leaves(tree[v])
  PROVE  UNCHANGED Structure!vars
<1>1. [v \in Windows |-> Leaves(tree'[v])] = [v \in Windows |-> Leaves(tree[v])]
  OBVIOUS
<1> QED BY <1>1 DEF Structure!vars, Structure!idVars, Structure!workspaceVars, Structure!windowVars,
                    Structure!paneVars, Structure!frontendVars, IsStashed

\* A resize is not seen in the leaves.
LEMMA ResizeSplitRefined ==
  ASSUME LayoutInv, NEW id \in SplitID, NEW ws \in ResizeTo, ResizeSplit(id, ws)
  PROVE  UNCHANGED Structure!vars
<1>1. PICK w \in windows :
        /\ CanResize(tree[w], id, ws)
        /\ tree' = [tree EXCEPT ![w] = WithWeights(@, id, ws)]
        /\ UNCHANGED <<windows, panes, nextPaneID, paneWindow, stashed>>
  BY DEF ResizeSplit
<1> DEFINE m == WithWeights(tree[w], id, ws)
<1>2. w \in Windows /\ tree[w] \in Layouts /\ tree \in [Windows -> Layouts]
  BY DEF LayoutInv, LayoutType
<1>3. Leaves(m) = Leaves(tree[w])
  BY <1>1, <1>2, LayoutLaws
<1>4. tree' = [tree EXCEPT ![w] = m]
  BY <1>1, <1>2
<1> HIDE DEF m
<1>5. \A v \in Windows : Leaves(tree'[v]) = Leaves(tree[v])
  BY <1>2, <1>3, <1>4
<1> QED BY <1>1, <1>5, StructureUnchanged

\* Commands on panes
LEMMA PaneStepRefined ==
  ASSUME LayoutInv, NEW d, PaneStep(d)
  PROVE  Structure!Next
<1>1. ASSUME NEW w \in Windows, NEW p \in PaneID, NEW tool, CreatePane(w, p, d, tool) PROVE Structure!Next
  <2>1. Structure!CreatePane(w, p)
    BY <1>1, CreatePaneRefined
  <2> QED BY <2>1 DEF Structure!Next, Structure!Mutation, Structure!Commit, Structure!WindowID,
                      Structure!PaneID, Windows, PaneID
<1>2. ASSUME NEW t \in PaneID, NEW p \in PaneID, NEW direction \in Directions, NEW tool,
             SplitPane(t, direction, p, d, tool)
      PROVE  Structure!Next
  <2>1. Structure!SplitPane(t, p)
    BY <1>2, SplitPaneRefined
  <2> QED BY <2>1 DEF Structure!Next, Structure!Mutation, Structure!Commit, Structure!PaneID, PaneID
<1>3. ASSUME NEW p \in PaneID, ClosePane(p) PROVE Structure!Next
  <2>1. Structure!ClosePane(p)
    BY <1>3, ClosePaneRefined
  <2> QED BY <2>1 DEF Structure!Next, Structure!Mutation, Structure!Commit, Structure!PaneID, PaneID
<1> QED BY <1>1, <1>2, <1>3 DEF PaneStep

\* Moves
LEMMA MoveStepRefined ==
  ASSUME LayoutInv, MoveStep
  PROVE  Structure!Next
<1>1. PICK p \in PaneID, w \in Windows, t \in PaneID \cup {0}, direction \in Directions \cup {NoDirection} :
        MovePane(p, w, t, direction)
  BY DEF MoveStep
<1>2. CASE w = paneWindow[p]
  <2>1. Structure!MovePaneWithin(p, t)
    BY <1>1, <1>2, MovePaneRefined
  <2>2. t \in PaneID
    <3>1. tree[w] # Nil
      BY <1>1, <1>2, MovePaneInserts, SmallLayouts
    <3> QED BY <3>1, <1>1 DEF MovePane
  <2> QED BY <2>1, <2>2 DEF Structure!Next, Structure!Mutation, Structure!Commit, Structure!PaneID, PaneID
<1>3. CASE w # paneWindow[p]
  <2>1. Structure!MovePaneAcross(p, w, t)
    BY <1>1, <1>3, MovePaneRefined
  <2>2. w \in Structure!WindowID /\ p \in Structure!PaneID /\ t \in Structure!PaneID \cup {0}
    BY DEF Structure!WindowID, Structure!PaneID, Windows, PaneID
  <2> QED BY <2>1, <2>2 DEF Structure!Next, Structure!Mutation, Structure!Commit
<1> QED BY <1>2, <1>3

\* The stash
LEMMA StashStepRefined ==
  ASSUME LayoutInv, StashStep
  PROVE  Structure!Next
<1>1. ASSUME NEW p \in PaneID, StashPane(p) PROVE Structure!Next
  <2>1. Structure!StashPane(p)
    BY <1>1, StashPaneRefined
  <2> QED BY <2>1 DEF Structure!Next, Structure!Mutation, Structure!Commit, Structure!PaneID, PaneID
<1>2. ASSUME NEW p \in PaneID, RestorePane(p, HintedPlace(p)) PROVE Structure!Next
  <2>1. Structure!RestorePane(p, "f")
    BY <1>2, RestoreHintedRefined
  <2> QED BY <2>1 DEF Structure!Next, Structure!Mutation, Structure!Commit, Structure!PaneID, PaneID
<1>3. ASSUME NEW p \in PaneID, NEW w \in Windows, NEW t \in PaneID \cup {0},
             NEW direction \in Directions \cup {NoDirection},
             PlaceAccepted(w, t, direction), RestorePane(p, GivenPlace(w, t, direction))
      PROVE  Structure!Next
  <2>1. Structure!RestorePaneTo(p, w, t)
    BY <1>3, RestoreGivenRefined
  <2>2. w \in Structure!WindowID /\ p \in Structure!PaneID /\ t \in Structure!PaneID \cup {0}
    BY DEF Structure!WindowID, Structure!PaneID, Windows, PaneID
  <2> QED BY <2>1, <2>2 DEF Structure!Next, Structure!Mutation, Structure!Commit
<1> QED BY <1>1, <1>2, <1>3 DEF StashStep

\* Every step is one of CoreState, or changes nothing that is in CoreState.
LEMMA StepRefined ==
  ObjectsInv /\ [ObjectsNext]_objectVars => [Structure!Next]_(Structure!vars)
<1> SUFFICES ASSUME ObjectsInv, [ObjectsNext]_objectVars PROVE Structure!Next \/ UNCHANGED Structure!vars
  OBVIOUS
<1>1. LayoutInv
  BY DEF ObjectsInv
<1>2. ASSUME UNCHANGED layoutVars PROVE UNCHANGED Structure!vars
  <2>1. UNCHANGED <<windows, tree, panes, nextPaneID, paneWindow, stashed>>
    BY <1>2 DEF layoutVars
  <2>2. \A v \in Windows : Leaves(tree'[v]) = Leaves(tree[v])
    BY <2>1
  <2> QED BY <2>1, <2>2, StructureUnchanged
<1>3. CASE UNCHANGED objectVars
  BY <1>2, <1>3 DEF objectVars
<1>4. CASE MoveStep
  BY <1>1, <1>4, MoveStepRefined
<1>5. CASE StashStep
  BY <1>1, <1>5, StashStepRefined
<1>6. CASE WindowStep
  <2>1. PICK w \in Windows : DeleteWindow(w)
    BY <1>6 DEF WindowStep
  <2>2. Structure!DeleteWindow(w)
    BY <1>1, <2>1, DeleteWindowRefined
  <2>3. w \in Structure!WindowID
    BY DEF Structure!WindowID, Windows
  <2> QED BY <2>2, <2>3 DEF Structure!Next, Structure!Mutation, Structure!Commit
<1>7. CASE ResizeStep
  BY <1>1, <1>7, ResizeSplitRefined DEF ResizeStep
<1>8. CASE LabelStep
  <2>1. UNCHANGED layoutVars
    BY <1>8 DEF LabelStep, RemoveLabelsBySource, SetLabel, RemoveLabel, labelOnly
  <2> QED BY <2>1, <1>2
<1>9. CASE AttentionStep
  <2>1. UNCHANGED layoutVars
    <3>1. \A source : RemoveAttentionsBySource(source) => UNCHANGED layoutVars
      BY DEF RemoveAttentionsBySource, attentionOnly
    <3>2. \A p, source, value, at : RaiseNew(p, source, value, at) => UNCHANGED layoutVars
      BY DEF RaiseNew, attentionOnly
    <3>3. \A a, value, at : RaiseAgain(a, value, at) => UNCHANGED layoutVars
      BY DEF RaiseAgain, attentionOnly
    <3>4. \A a, at : AcknowledgeAttention(a, at) => UNCHANGED layoutVars
      BY DEF AcknowledgeAttention, attentionOnly
    <3> QED BY <3>1, <3>2, <3>3, <3>4, <1>9 DEF AttentionStep
  <2> QED BY <2>1, <1>2
<1>10. CASE ToolStep
  <2>1. UNCHANGED layoutVars
    BY <1>10 DEF ToolStep, ReadTool, UpdateToolState
  <2> QED BY <2>1, <1>2
<1>11. CASE \E d \in Instances \cup {None} : PaneStep(d)
  BY <1>1, <1>11, PaneStepRefined
<1> QED BY <1>3, <1>4, <1>5, <1>6, <1>7, <1>8, <1>9, <1>10, <1>11 DEF ObjectsNext

\* Every command on the trees, the splits and the hints of a window is, on the
\* leaves, the command of CoreState whose theorems speak of lists, or changes no
\* leaf: what is proved of CoreState's steps holds of the program's layouts.
THEOREM TreesImplementLists == ObjectsSpec => StructureRefined
<1>1. ObjectsInv /\ [ObjectsNext]_objectVars => [Structure!Next]_(Structure!vars)
  BY StepRefined
<1> QED BY <1>1, ObjectsInvariant, PTL DEF ObjectsSpec, StructureRefined
=============================================================================
