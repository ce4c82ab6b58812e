---------------------------- MODULE ExternalProofs ----------------------------
(***************************************************************************)
(* That the sessions of an external plugin leave nothing to each other,    *)
(* that withdrawn grants are not used, and that the registry can always be *)
(* resolved: for any number of sessions, packages and dialogues.           *)
(***************************************************************************)
EXTENDS ExternalPlugins, FiniteSetTheorems, WellFoundedInduction, TLAPS

(* The operation has taken the session it stops out of Manager.sessions,   *)
(* and that session may still have a process.                              *)
Stopping == op.pc \in {"deactivate", "gate", "fail", "wait"}

(* A session that may still do something is that of Manager.sessions or    *)
(* the one being stopped, and only a peer that works serves it.            *)
SessionOK(g) ==
  /\ session[g].process = "none" <=> session[g].peer = "none"
  /\ session[g].process = "done" => session[g].peer = "down"
  /\ session[g].active =>
       /\ session[g].peer \in {"up", "failing"}
       /\ current = g \/ (op.pc = "deactivate" /\ op.generation = g)
       /\ session[g].grant => records.grant
  /\ session[g].process \notin {"none", "done"} =>
       current = g \/ (Stopping /\ op.generation = g)

SessionInv == \A g \in Generations : SessionOK(g)

(* Between stop and start Manager.sessions is empty, and whoever promised  *)
(* a start has a generation for it.                                        *)
OperationInv ==
  /\ Stopping \/ op.pc = "clean" => current = 0 /\ op.generation \in Generations
  /\ op.pc \in {"publish", "start"} => current = 0
  /\ op.pc = "start" => Unused # {}
  /\ op.entry.enabled /\ op.pc \notin {"start", "initialize"} => Unused # {}
  /\ closed => op.entry = NoEntry /\ op.pc \notin {"publish", "start", "initialize"}

(* A dialogue that somebody waits for is that of a session.                *)
DialogInv ==
  /\ \A d \in Dialogs : dialog[d].pc # "none" => dialog[d].generation \in Generations
  /\ SlotsReleased

(* During an operation the registry is ahead of the records, by the entry  *)
(* that is going to be published.                                          *)
RegistryInv ==
  /\ records.package \in packages \cup {None}
  /\ ~ torn => registry.package \in packages \cup {None}
  /\ ~ torn /\ (closed \/ op.pc \in {"idle", "start", "initialize"}) => registry = records
  /\ ~ closed /\ op.pc \notin {"idle", "start", "initialize"} =>
       /\ ~ torn
       /\ registry = op.entry
       /\ op.old = None \/ op.old # op.entry.package

ExternalInv ==
  /\ ExternalTypeOK
  /\ SessionInv
  /\ OperationInv
  /\ DialogInv
  /\ CleanedWhenStopped
  /\ RegistryInv
-----------------------------------------------------------------------------
(* What a step leaves alone                                                *)

SessionType ==
  [active : BOOLEAN, grant : BOOLEAN,
   process : {"none", "running", "killed", "exited", "done"},
   peer : {"none", "up", "failing", "waiting", "cleaning", "down"}]

\* No session but g changes.
OnlySession(g) ==
  /\ session' \in [Generations -> SessionType]
  /\ \A h \in Generations \ {g} : session'[h] = session[h]

\* A generation is used when it has a process.
LEMMA UnusedFrame ==
  ASSUME Unused # {},
         \A h \in Generations : session[h].process = "none" => session'[h].process = "none"
  PROVE  Unused' # {}
  BY DEF Unused

\* The sessions and the operation fit together unless one of them moves.
LEMMA SessionFrame ==
  ASSUME SessionInv, OperationInv, UNCHANGED <<session, current, records, op, closed>>
  PROVE  SessionInv' /\ OperationInv'
  BY DEF SessionInv, SessionOK, OperationInv, Stopping, Unused

\* They go on to do so when one session moves and is still as it may be.
LEMMA OneSessionFrame ==
  ASSUME SessionInv, OperationInv, UNCHANGED <<current, records, op, closed>>,
         NEW g \in Generations, OnlySession(g), SessionOK(g)',
         session[g].process = "none" => session'[g].process = "none"
  PROVE  SessionInv' /\ OperationInv'
<1>1. SessionInv'
  <2>1. SUFFICES ASSUME NEW h \in Generations \ {g} PROVE SessionOK(h)'
    BY DEF SessionInv
  <2>2. session'[h] = session[h] /\ SessionOK(h)
    BY DEF OnlySession, SessionInv
  <2> QED
    BY <2>2 DEF SessionOK, Stopping
<1>2. Unused # {} => Unused' # {}
  BY UnusedFrame DEF OnlySession
<1> QED
  BY <1>1, <1>2 DEF OperationInv, Stopping

\* The dialogues keep their slots while no session starts or ends.
LEMMA DialogFrame ==
  ASSUME DialogInv, UNCHANGED <<dialog, slots, current>>,
         \A h \in Generations : session'[h].active = session[h].active,
         slots \subseteq Dialogs
  PROVE  DialogInv'
<1>1. \A d \in slots : current \in Generations
  BY DEF DialogInv, SlotsReleased
<1> QED
  BY <1>1 DEF DialogInv, SlotsReleased

\* A label stays that of a session which is not dealt with.
LEMMA LabelFrame ==
  ASSUME CleanedWhenStopped, label \in Generations \cup {0}, label' \in {0, label},
         \A h \in Generations : session'[h].peer = "down" => session[h].peer = "down"
  PROVE  CleanedWhenStopped'
  BY DEF CleanedWhenStopped

\* The registry is as good as before when neither it nor the operation moves.
LEMMA RegistryFrame ==
  ASSUME RegistryInv, UNCHANGED <<registry, packages, torn, records, closed, op>>
  PROVE  RegistryInv'
  BY DEF RegistryInv
-----------------------------------------------------------------------------
(* The host API and the dialogues                                          *)

\* An API call begins.
LEMMA EnterAPIStep ==
  ASSUME ExternalInv, NEW g \in Generations, EnterAPI(g)
  PROVE  ExternalInv'
<1> USE DEF EnterAPI, diskVars, managerVars, dialogVars
<1>1. ExternalTypeOK'
  BY DEF ExternalInv, ExternalTypeOK
<1>2. SessionInv' /\ OperationInv'
  BY SessionFrame DEF ExternalInv
<1>3. DialogInv' /\ CleanedWhenStopped' /\ RegistryInv'
  BY DialogFrame, LabelFrame, RegistryFrame DEF ExternalInv, ExternalTypeOK
<1> QED
  BY <1>1, <1>2, <1>3 DEF ExternalInv

\* It ends; only an active session leaves a label, and its peer works.
LEMMA LeaveAPIStep ==
  ASSUME ExternalInv, NEW g \in Generations, LeaveAPI(g)
  PROVE  ExternalInv'
<1> USE DEF LeaveAPI, diskVars, managerVars, dialogVars
<1>1. ExternalTypeOK'
  BY DEF ExternalInv, ExternalTypeOK, MayWrite
<1>2. SessionInv' /\ OperationInv'
  BY SessionFrame DEF ExternalInv
<1>3. DialogInv' /\ RegistryInv'
  BY DialogFrame, RegistryFrame DEF ExternalInv, ExternalTypeOK
<1>4. CleanedWhenStopped'
  BY DEF ExternalInv, SessionInv, SessionOK, CleanedWhenStopped, MayWrite
<1> QED
  BY <1>1, <1>2, <1>3, <1>4 DEF ExternalInv

\* What the dialogues do among themselves leaves the sessions alone.
LEMMA DialogStep ==
  ASSUME ExternalInv, DialogInv', slots' \subseteq Dialogs,
         dialog' \in [Dialogs -> [pc : {"none", "respond", "open", "finish", "notify"},
                                  generation : Generations \cup {0}, sync : BOOLEAN]],
         UNCHANGED <<diskVars, managerVars, op, session, api, label>>
  PROVE  ExternalInv'
<1> USE DEF diskVars, managerVars
<1>1. ExternalTypeOK'
  BY DEF ExternalInv, ExternalTypeOK
<1>2. SessionInv' /\ OperationInv'
  BY SessionFrame DEF ExternalInv
<1>3. CleanedWhenStopped' /\ RegistryInv'
  BY LabelFrame, RegistryFrame DEF ExternalInv, ExternalTypeOK
<1> QED
  BY <1>1, <1>2, <1>3 DEF ExternalInv

\* A dialogue is requested by the current session, which is active.
LEMMA BeginInteractionStep ==
  ASSUME ExternalInv, NEW g \in Generations, NEW d \in Dialogs, NEW sync \in BOOLEAN,
         BeginInteraction(g, d, sync)
  PROVE  ExternalInv'
<1>1. /\ slots' \subseteq Dialogs
      /\ dialog' \in [Dialogs -> [pc : {"none", "respond", "open", "finish", "notify"},
                                  generation : Generations \cup {0}, sync : BOOLEAN]]
  BY DEF ExternalInv, ExternalTypeOK, BeginInteraction
<1>2. /\ \A e \in Dialogs \ {d} : dialog'[e] = dialog[e]
      /\ dialog'[d].generation = g /\ dialog'[d].pc \in {"open", "respond"}
  BY DEF ExternalInv, ExternalTypeOK, BeginInteraction
<1>3. DialogInv'
  BY <1>1, <1>2 DEF ExternalInv, ExternalTypeOK, DialogInv, SlotsReleased, BeginInteraction,
     IsCurrent, managerVars
<1> QED
  BY <1>1, <1>3, DialogStep DEF BeginInteraction

\* A dialogue goes on, keeping its slot only while it has one to give back.
LEMMA WindStep ==
  ASSUME ExternalInv, NEW d \in Dialogs,
         Respond(d) \/ EndDialog(d) \/ FinishInteraction(d) \/ Notify(d) \/ Detach(d)
  PROVE  ExternalInv'
<1> USE DEF Respond, EndDialog, FinishInteraction, Notify, Detach, Aborted, NoDialog
<1>1. /\ slots' \subseteq slots /\ slots \subseteq Dialogs
      /\ dialog' \in [Dialogs -> [pc : {"none", "respond", "open", "finish", "notify"},
                                  generation : Generations \cup {0}, sync : BOOLEAN]]
  <2> DEFINE T == [pc : {"none", "respond", "open", "finish", "notify"},
                   generation : Generations \cup {0}, sync : BOOLEAN]
             To(p) == [dialog[d] EXCEPT !.pc = p]
  <2>1. dialog \in [Dialogs -> T] /\ slots \subseteq Dialogs
    BY DEF ExternalInv, ExternalTypeOK
  <2>2. NoDialog \in T /\ To("open") \in T /\ To("finish") \in T /\ To("notify") \in T
    BY <2>1
  <2>3. \/ dialog' = dialog
        \/ dialog' = [dialog EXCEPT ![d] = NoDialog]
        \/ dialog' = [dialog EXCEPT ![d] = To("open")]
        \/ dialog' = [dialog EXCEPT ![d] = To("finish")]
        \/ dialog' = [dialog EXCEPT ![d] = To("notify")]
    BY <2>1
  <2>4. slots' \subseteq slots
    OBVIOUS
  <2> HIDE DEF T, To, NoDialog
  <2> QED
    <3>1. dialog' \in [Dialogs -> T]
      BY <2>1, <2>2, <2>3
    <3> QED
      BY <2>1, <2>4, <3>1 DEF T
<1>2. \A e \in Dialogs \ {d} : dialog'[e] = dialog[e]
  BY DEF ExternalInv, ExternalTypeOK
<1>3. dialog'[d] = dialog[d]
        \/ (dialog'[d].pc = "none" /\ d \notin slots')
        \/ (/\ dialog'[d].generation = dialog[d].generation
            /\ dialog[d].pc # "none"
            /\ dialog'[d].pc \in {"open", "finish"} \/ d \notin slots')
  BY DEF ExternalInv, ExternalTypeOK, DialogInv, SlotsReleased
<1>4. UNCHANGED <<diskVars, managerVars, op, session, api, label>>
  OBVIOUS
<1>5. DialogInv'
  BY <1>1, <1>2, <1>3, <1>4 DEF ExternalInv, DialogInv, SlotsReleased, managerVars
<1> QED
  BY <1>1, <1>4, <1>5, DialogStep
-----------------------------------------------------------------------------
(* The failure of a session                                                *)

\* A peer fails once.  Its process is still to be dealt with.
LEMMA FailStep ==
  ASSUME ExternalInv, NEW g \in Generations, Fail(g), UNCHANGED op
  PROVE  ExternalInv'
<1> USE DEF Fail, Set, diskVars, managerVars, dialogVars
<1>1. /\ OnlySession(g)
      /\ session[g].peer = "up" /\ session'[g].peer = "failing"
      /\ session'[g].process = session[g].process
      /\ session'[g].active = session[g].active
      /\ session'[g].grant = session[g].grant
  BY DEF ExternalInv, ExternalTypeOK, OnlySession, SessionType
<1>2. ExternalTypeOK'
  BY <1>1 DEF ExternalInv, ExternalTypeOK, OnlySession, SessionType
<1>3. SessionOK(g)'
  BY <1>1 DEF ExternalInv, SessionInv, SessionOK, Stopping
<1>4. SessionInv' /\ OperationInv'
  BY <1>1, <1>3, OneSessionFrame DEF ExternalInv
<1>5. DialogInv' /\ CleanedWhenStopped' /\ RegistryInv'
  BY <1>1, DialogFrame, LabelFrame, RegistryFrame DEF ExternalInv, ExternalTypeOK, OnlySession
<1> QED
  BY <1>2, <1>4, <1>5 DEF ExternalInv

\* The session is marked inactive, and its slots are released, in one step.
LEMMA FailedStep ==
  ASSUME ExternalInv, NEW g \in Generations, Failed(g)
  PROVE  ExternalInv'
<1> USE DEF Failed, diskVars, dialogVars
<1>1. /\ OnlySession(g)
      /\ session[g].peer = "failing" /\ session'[g].peer = "waiting"
      /\ session'[g].process \in {session[g].process, "killed"}
      /\ session'[g].process = "killed" => session[g].process \in {"running", "killed"}
      /\ ~ session'[g].active
  BY DEF ExternalInv, ExternalTypeOK, OnlySession, SessionType, Killed
<1>2. ExternalTypeOK'
  BY <1>1 DEF ExternalInv, ExternalTypeOK, OnlySession, SessionType, Told, Released
<1>3. SessionOK(g)'
  BY <1>1 DEF ExternalInv, SessionInv, SessionOK, Stopping
<1>4. SessionInv' /\ OperationInv'
  BY <1>1, <1>3, OneSessionFrame DEF ExternalInv, SessionInv, SessionOK
<1>5. DialogInv'
  BY <1>1 DEF ExternalInv, DialogInv, SlotsReleased, Released, OnlySession, ExternalTypeOK
<1>6. CleanedWhenStopped' /\ RegistryInv'
  BY <1>1, LabelFrame, RegistryFrame DEF ExternalInv, ExternalTypeOK, OnlySession
<1> QED
  BY <1>2, <1>4, <1>5, <1>6 DEF ExternalInv

\* A session that waits for the gate still has its process, so that no other
\* one can be current: whatever label is its own will be removed.
LEMMA LockGateStep ==
  ASSUME ExternalInv, NEW g \in Generations, LockGate(g)
  PROVE  ExternalInv'
<1> USE DEF LockGate, Set, diskVars, managerVars, dialogVars
<1>1. /\ OnlySession(g)
      /\ session[g].peer = "waiting"
      /\ session'[g].peer = IF MayClean(g) THEN "cleaning" ELSE "down"
      /\ session'[g].process = session[g].process
      /\ session'[g].active = session[g].active
  BY DEF ExternalInv, ExternalTypeOK, OnlySession, SessionType
<1>2. ~ session[g].active /\ session[g].process \notin {"none", "done"}
  BY <1>1 DEF ExternalInv, SessionInv, SessionOK
<1>3. session'[g].peer = "cleaning"
  BY <1>1, <1>2 DEF ExternalInv, SessionInv, SessionOK, OperationInv, MayClean
<1>4. ExternalTypeOK'
  BY <1>1 DEF ExternalInv, ExternalTypeOK, OnlySession, SessionType
<1>5. SessionOK(g)'
  BY <1>1, <1>2, <1>3 DEF ExternalInv, SessionInv, SessionOK, Stopping
<1>6. SessionInv' /\ OperationInv'
  BY <1>1, <1>5, OneSessionFrame DEF ExternalInv
<1>7. DialogInv' /\ CleanedWhenStopped' /\ RegistryInv'
  BY <1>1, <1>3, DialogFrame, LabelFrame, RegistryFrame
  DEF ExternalInv, ExternalTypeOK, OnlySession
<1> QED
  BY <1>4, <1>6, <1>7 DEF ExternalInv

\* Then no label is left.
LEMMA RemoveSourcesStep ==
  ASSUME ExternalInv, NEW g \in Generations, RemoveSources(g)
  PROVE  ExternalInv'
<1> USE DEF RemoveSources, Set, diskVars, managerVars, dialogVars
<1>1. /\ OnlySession(g)
      /\ session[g].peer = "cleaning" /\ session'[g].peer = "down"
      /\ session'[g].process = session[g].process
      /\ session'[g].active = session[g].active
  BY DEF ExternalInv, ExternalTypeOK, OnlySession, SessionType
<1>2. ~ session[g].active /\ session[g].process \notin {"none", "done"}
  BY <1>1 DEF ExternalInv, SessionInv, SessionOK
<1>3. ExternalTypeOK'
  BY <1>1 DEF ExternalInv, ExternalTypeOK, OnlySession, SessionType
<1>4. SessionOK(g)'
  BY <1>1, <1>2 DEF ExternalInv, SessionInv, SessionOK, Stopping
<1>5. SessionInv' /\ OperationInv'
  BY <1>1, <1>4, OneSessionFrame DEF ExternalInv
<1>6. DialogInv' /\ CleanedWhenStopped' /\ RegistryInv'
  BY <1>1, DialogFrame, RegistryFrame
  DEF ExternalInv, ExternalTypeOK, OnlySession, CleanedWhenStopped
<1> QED
  BY <1>3, <1>5, <1>6 DEF ExternalInv

\* The process ends by itself or is killed, and its end is seen when the
\* failure of the session is dealt with.
LEMMA ProcessStep ==
  ASSUME ExternalInv, NEW g \in Generations,
         \/ ProcessExits(g)
         \/ /\ session[g].process = "exited" /\ session[g].peer = "down"
            /\ session' = Set(g, "process", "done")
            /\ UNCHANGED <<diskVars, managerVars, op, api, label, dialogVars>>
  PROVE  ExternalInv'
<1> USE DEF ProcessExits, Set, diskVars, managerVars, dialogVars
<1>1. /\ OnlySession(g)
      /\ session[g].process \in {"running", "killed", "exited"}
      /\ \/ session'[g].process = "exited"
         \/ session'[g].process = "done" /\ session[g].peer = "down"
      /\ session'[g].peer = session[g].peer
      /\ session'[g].active = session[g].active
      /\ session'[g].grant = session[g].grant
      /\ UNCHANGED <<diskVars, managerVars, op, api, label, dialogVars>>
  BY DEF ExternalInv, ExternalTypeOK, OnlySession, SessionType
<1>2. ExternalTypeOK'
  BY <1>1 DEF ExternalInv, ExternalTypeOK, OnlySession, SessionType
<1>3. SessionOK(g)'
  BY <1>1 DEF ExternalInv, SessionInv, SessionOK, Stopping
<1>4. SessionInv' /\ OperationInv'
  BY <1>1, <1>3, OneSessionFrame DEF ExternalInv
<1>5. DialogInv' /\ CleanedWhenStopped' /\ RegistryInv'
  BY <1>1, DialogFrame, LabelFrame, RegistryFrame DEF ExternalInv, ExternalTypeOK, OnlySession
<1> QED
  BY <1>2, <1>4, <1>5 DEF ExternalInv
-----------------------------------------------------------------------------
(* Operations                                                              *)

OperationType ==
  [pc : {"idle", "stop", "deactivate", "gate", "fail", "wait", "clean", "publish",
         "start", "initialize"},
   entry : Entries, old : Packages \cup {None}, generation : Generations \cup {0}]

\* An edited entry names the package of the entry, the copy, or none.
LEMMA EditsType ==
  ASSUME NEW e \in Entries, NEW p \in Packages, NEW entry \in Edits(e, p)
  PROVE  entry \in Entries /\ entry.package \in {None, p, e.package}
<1> DEFINE Good(x) == x \in Entries /\ x.package \in {None, p, e.package}
<1>1. NoEntry \in Entries /\ NoEntry.package = None
  BY DEF Entries, NoEntry
<1>2. ASSUME NEW x \in Entries, NEW b \in BOOLEAN
      PROVE  /\ [x EXCEPT !.enabled = b] \in Entries
             /\ [x EXCEPT !.enabled = b].package = x.package
             /\ [x EXCEPT !.grant = b] \in Entries
             /\ [x EXCEPT !.grant = b].package = x.package
             /\ [x EXCEPT !.package = p] \in Entries
             /\ [x EXCEPT !.package = p].package = p
             /\ [x EXCEPT !.package = p, !.enabled = FALSE] \in Entries
             /\ [x EXCEPT !.package = p, !.enabled = FALSE].package = p
  BY DEF Entries
<1>3. /\ Good(NoEntry) /\ Good([NoEntry EXCEPT !.package = p])
      /\ Good([e EXCEPT !.package = p, !.enabled = FALSE])
      /\ \A b \in BOOLEAN : Good([e EXCEPT !.enabled = b]) /\ Good([e EXCEPT !.grant = b])
  BY <1>1, <1>2, Zenon
<1> HIDE DEF Good
<1>4. Good(entry)
  BY <1>3, Zenon DEF Edits
<1> QED
  BY <1>4 DEF Good

\* Manage works on an entry whose package is there, and copies the new one.
LEMMA ManageStep ==
  ASSUME ExternalInv, Manage
  PROVE  ExternalInv'
<1>0. PICK p \in Packages \ packages : \E entry \in Edits(records, p) :
        /\ entry.enabled => MayStart
        /\ registry' = entry
        /\ packages' = packages \cup Copied(entry)
        /\ torn' = FALSE
        /\ records' = BeforeStop(entry)
        /\ op' = [NoOperation EXCEPT
             !.pc = "stop", !.entry = entry,
             !.old = IF entry.package = records.package THEN None ELSE records.package]
  BY DEF Manage
<1>1. PICK entry \in Edits(records, p) :
        /\ entry.enabled => MayStart
        /\ registry' = entry
        /\ packages' = packages \cup Copied(entry)
        /\ torn' = FALSE
        /\ records' = BeforeStop(entry)
        /\ op' = [NoOperation EXCEPT
             !.pc = "stop", !.entry = entry,
             !.old = IF entry.package = records.package THEN None ELSE records.package]
  BY <1>0
<1>2. /\ op.pc = "idle" /\ ~ closed
      /\ UNCHANGED <<current, failure, started, closed, session, api, label, dialogVars>>
  BY DEF Manage
<1>3. entry \in Entries /\ entry.package \in {None, p, records.package}
  BY EditsType DEF ExternalInv, ExternalTypeOK
<1> DEFINE old == IF entry.package = records.package THEN None ELSE records.package
<1>4. op' = [pc |-> "stop", entry |-> entry, old |-> old, generation |-> 0]
  BY <1>1 DEF NoOperation
<1>5. /\ records' = records
      /\ packages \subseteq packages' /\ packages' \subseteq Packages
      /\ entry.package \in packages' \cup {None}
  BY <1>1, <1>3 DEF BeforeStop, Copied, ExternalInv, ExternalTypeOK, RegistryInv
<1>6. ExternalTypeOK'
  <2>1. old \in Packages \cup {None} /\ 0 \in Generations \cup {0}
    BY DEF ExternalInv, ExternalTypeOK, Entries
  <2> HIDE DEF old
  <2>2. op' \in OperationType
    BY <1>3, <1>4, <2>1 DEF OperationType
  <2> QED
    BY <1>1, <1>2, <1>3, <1>5, <2>2 DEF ExternalInv, ExternalTypeOK, OperationType, dialogVars
<1>7. SessionInv' /\ OperationInv'
  BY <1>1, <1>2, <1>4, <1>5
  DEF ExternalInv, SessionInv, SessionOK, OperationInv, Stopping, MayStart, Unused
<1>8. DialogInv' /\ CleanedWhenStopped'
  BY <1>2, DialogFrame, LabelFrame DEF ExternalInv, ExternalTypeOK, dialogVars
<1>9. RegistryInv'
  BY <1>1, <1>2, <1>4, <1>5 DEF ExternalInv, RegistryInv
<1> QED
  BY <1>6, <1>7, <1>8, <1>9 DEF ExternalInv

\* A save that fails removes only what it had copied itself.
LEMMA SaveFailsStep ==
  ASSUME ExternalInv, SaveFails
  PROVE  ExternalInv'
<1>0. PICK p \in Packages \ packages : \E entry \in Edits(records, p) :
        /\ \/ UNCHANGED <<registry, torn>>
           \/ registry' = entry /\ torn' = TRUE
        /\ packages' = AfterFailure(entry)
  BY DEF SaveFails
<1>1. PICK entry \in Edits(records, p) :
        /\ \/ UNCHANGED <<registry, torn>>
           \/ registry' = entry /\ torn' = TRUE
        /\ packages' = AfterFailure(entry)
  BY <1>0
<1>2. /\ op.pc = "idle" /\ ~ closed
      /\ UNCHANGED <<managerVars, op, session, api, label, dialogVars>>
  BY DEF SaveFails
<1>3. entry \in Entries /\ entry.package \in {None, p, records.package}
  BY EditsType DEF ExternalInv, ExternalTypeOK
<1>4. packages' = packages
  BY <1>1, <1>3 DEF AfterFailure, Copied
<1>5. ExternalTypeOK'
  BY <1>1, <1>2, <1>3, <1>4 DEF ExternalInv, ExternalTypeOK, managerVars, dialogVars
<1>6. SessionInv' /\ OperationInv'
  BY <1>2, SessionFrame DEF ExternalInv, managerVars
<1>7. DialogInv' /\ CleanedWhenStopped'
  BY <1>2, DialogFrame, LabelFrame DEF ExternalInv, ExternalTypeOK, managerVars, dialogVars
<1>8. RegistryInv'
  BY <1>1, <1>2, <1>4 DEF ExternalInv, RegistryInv, managerVars
<1> QED
  BY <1>5, <1>6, <1>7, <1>8 DEF ExternalInv

\* StartEnabled and Close only begin an operation.
LEMMA BeginStep ==
  ASSUME ExternalInv, StartEnabled \/ CloseManager
  PROVE  ExternalInv'
<1> USE DEF StartEnabled, CloseManager, diskVars, dialogVars
<1>1. /\ op.pc = "idle" /\ ~ closed
      /\ UNCHANGED <<diskVars, records, current, failure, session, api, label, dialogVars>>
      /\ started' \in BOOLEAN /\ closed' \in BOOLEAN
  BY DEF ExternalInv, ExternalTypeOK
<1>2. \/ op' = op /\ ~ closed'
      \/ /\ op' = [pc |-> "start", entry |-> NoEntry, old |-> None, generation |-> 0]
         /\ current = 0 /\ Unused # {} /\ ~ closed'
      \/ /\ op' = [pc |-> "stop", entry |-> NoEntry, old |-> None, generation |-> 0]
         /\ closed'
  BY DEF ExternalInv, ExternalTypeOK, NoOperation, MayStart
<1>3. ExternalTypeOK'
  <2>1. NoEntry \in Entries
    BY DEF NoEntry, Entries
  <2>2. op' \in OperationType
    BY <1>2, <2>1 DEF ExternalInv, ExternalTypeOK, OperationType
  <2> QED
    BY <1>1, <2>2 DEF ExternalInv, ExternalTypeOK, OperationType
<1>4. SessionInv' /\ OperationInv'
  <2>1. NoEntry.enabled = FALSE /\ Unused' = Unused
    BY <1>1 DEF NoEntry, Unused
  <2>2. SessionInv'
    BY <1>1, <1>2 DEF ExternalInv, SessionInv, SessionOK, Stopping
  <2>3. OperationInv'
    BY <1>1, <1>2, <2>1 DEF ExternalInv, OperationInv, Stopping
  <2> QED
    BY <2>2, <2>3
<1>5. DialogInv' /\ CleanedWhenStopped'
  BY <1>1, DialogFrame, LabelFrame DEF ExternalInv, ExternalTypeOK
<1>6. RegistryInv'
  BY <1>1, <1>2 DEF ExternalInv, RegistryInv
<1> QED
  BY <1>3, <1>4, <1>5, <1>6 DEF ExternalInv

\* Where an operation goes when it goes on.
LEMMA OperationMoves ==
  ASSUME ExternalTypeOK
  PROVE  /\ NoOperation \in OperationType
         /\ NoOperation.pc = "idle" /\ NoOperation.entry = NoEntry
         /\ NoEntry.enabled = FALSE
         /\ \A pc \in {"deactivate", "gate", "fail", "wait", "clean", "publish", "start",
                       "initialize"} :
              Goto(pc) => /\ op' \in OperationType
                          /\ op'.pc = pc /\ op'.entry = op.entry /\ op'.old = op.old
                          /\ op'.generation = op.generation
<1>1. NoEntry \in Entries /\ NoEntry.enabled = FALSE
  BY DEF NoEntry, Entries
<1>2. NoOperation \in OperationType /\ NoOperation.pc = "idle" /\ NoOperation.entry = NoEntry
  BY <1>1 DEF NoOperation, OperationType
<1>3. op \in OperationType
  BY DEF ExternalTypeOK, OperationType
<1> QED
  BY <1>1, <1>2, <1>3 DEF Goto, OperationType

\* stop takes the session and all slots at once.
LEMMA StopStep ==
  ASSUME ExternalInv, Stop
  PROVE  ExternalInv'
<1> USE DEF Stop, diskVars
<1>1. /\ op.pc = "stop" /\ current' = 0 /\ slots' = {}
      /\ UNCHANGED <<diskVars, records, failure, started, closed, session, api, label, dialog>>
  OBVIOUS
<1>2. /\ op' \in OperationType
      /\ \/ current = 0 /\ closed /\ op' = NoOperation
         \/ /\ current = 0 /\ ~ closed
            /\ op'.pc = "publish" /\ op'.entry = op.entry /\ op'.old = op.old
         \/ /\ current # 0 /\ op'.pc = "deactivate" /\ op'.generation = current
            /\ op'.entry = op.entry /\ op'.old = op.old
  <2>1. CASE current = 0
    BY <2>1, OperationMoves DEF ExternalInv, AfterStop, Done
  <2>2. CASE current # 0
    BY <2>2 DEF ExternalInv, ExternalTypeOK, OperationType
  <2> QED
    BY <2>1, <2>2
<1>3. NoOperation.pc = "idle" /\ NoOperation.entry = NoEntry /\ NoEntry.enabled = FALSE
  BY OperationMoves DEF ExternalInv
<1>4. ExternalTypeOK'
  BY <1>1, <1>2 DEF ExternalInv, ExternalTypeOK, OperationType
<1>5. SessionInv'
  <2>1. SUFFICES ASSUME NEW g \in Generations PROVE SessionOK(g)'
    BY DEF SessionInv
  <2>2. SessionOK(g) /\ g # 0
    BY ExternalAssumption DEF ExternalInv, SessionInv
  <2> QED
    BY <1>1, <1>2, <2>2 DEF SessionOK, Stopping
<1>6. Unused' = Unused
  BY <1>1 DEF Unused
<1>7. OperationInv'
  BY <1>1, <1>2, <1>3, <1>6 DEF ExternalInv, OperationInv, Stopping, ExternalTypeOK
<1>8. DialogInv'
  BY <1>1 DEF ExternalInv, DialogInv, SlotsReleased
<1>9. CleanedWhenStopped' /\ RegistryInv'
  BY <1>1, <1>2, <1>3, LabelFrame DEF ExternalInv, ExternalTypeOK, RegistryInv
<1> QED
  BY <1>4, <1>5, <1>7, <1>8, <1>9 DEF ExternalInv

\* Steps of stop after which the session is as it was
LEMMA StoppingStep ==
  ASSUME ExternalInv, PassGate \/ AwaitExit
  PROVE  ExternalInv'
<1> USE DEF PassGate, AwaitExit, diskVars, managerVars, dialogVars
<1>1. /\ UNCHANGED <<diskVars, managerVars, session, api, label, dialogVars>>
      /\ op' \in OperationType
      /\ op'.entry = op.entry /\ op'.old = op.old /\ op'.generation = op.generation
      /\ \/ op.pc = "gate" /\ op'.pc = "fail"
         \/ /\ op.pc = "wait" /\ op'.pc = "clean"
            /\ session[op.generation].process = "done"
  BY OperationMoves DEF ExternalInv, HasExited
<1>2. ExternalTypeOK'
  BY <1>1 DEF ExternalInv, ExternalTypeOK, OperationType
<1>3. SessionInv'
  BY <1>1 DEF ExternalInv, SessionInv, SessionOK, Stopping
<1>4. OperationInv'
  BY <1>1 DEF ExternalInv, OperationInv, Stopping, Unused
<1>5. DialogInv' /\ CleanedWhenStopped' /\ RegistryInv'
  BY <1>1, DialogFrame, LabelFrame DEF ExternalInv, ExternalTypeOK, RegistryInv
<1> QED
  BY <1>2, <1>3, <1>4, <1>5 DEF ExternalInv

\* The session being stopped is marked, or its process is killed; it has no
\* slot any more.
LEMMA MarkStep ==
  ASSUME ExternalInv, Deactivate \/ CancelProcess
  PROVE  ExternalInv'
<1> USE DEF Deactivate, CancelProcess, Set, diskVars, managerVars, dialogVars
<1> DEFINE g == op.generation
<1>1. /\ UNCHANGED <<diskVars, managerVars, api, label, dialogVars>>
      /\ op.pc \in {"deactivate", "fail"}
      /\ g \in Generations /\ current = 0
  BY DEF ExternalInv, OperationInv, Stopping
<1>2. /\ op' \in OperationType
      /\ op'.entry = op.entry /\ op'.old = op.old /\ op'.generation = op.generation
      /\ op.pc = "deactivate" => op'.pc = "gate"
      /\ op.pc = "fail" => op'.pc = "wait"
  BY OperationMoves DEF ExternalInv
<1>3. /\ OnlySession(g)
      /\ session'[g].peer = session[g].peer
      /\ session'[g].grant = session[g].grant
      /\ session'[g].active => op.pc = "fail" /\ session[g].active
      /\ session'[g].process = session[g].process
           \/ (session[g].process = "running" /\ session'[g].process = "killed")
  <2>1. session \in [Generations -> SessionType]
    BY DEF ExternalInv, ExternalTypeOK, SessionType
  <2> HIDE DEF g
  <2>2. CASE op.pc = "deactivate" /\ session' = [session EXCEPT ![g]["active"] = FALSE]
    BY <1>1, <2>1, <2>2 DEF OnlySession, SessionType
  <2>3. CASE op.pc = "fail" /\ session' = [session EXCEPT ![g]["process"] = Killed(g)]
    BY <1>1, <2>1, <2>3 DEF OnlySession, SessionType, Killed
  <2> QED
    BY <2>2, <2>3 DEF g
<1>4. ExternalTypeOK'
  BY <1>1, <1>2, <1>3
  DEF ExternalInv, ExternalTypeOK, OperationType, OnlySession, SessionType
<1>5. SessionInv'
  <2>1. SUFFICES ASSUME NEW h \in Generations PROVE SessionOK(h)'
    BY DEF SessionInv
  <2>2. SessionOK(h) /\ h # 0
    BY ExternalAssumption DEF ExternalInv, SessionInv
  <2>3. CASE h = g
    BY <1>1, <1>2, <1>3, <2>2, <2>3 DEF SessionOK, Stopping
  <2>4. CASE h # g
    <3>1. session'[h] = session[h]
      BY <1>3, <2>4 DEF OnlySession
    <3> QED
      BY <1>1, <1>2, <2>2, <2>4, <3>1 DEF SessionOK, Stopping
  <2> QED
    BY <2>3, <2>4
<1>6. Unused # {} => Unused' # {}
  BY <1>1, <1>3, UnusedFrame DEF OnlySession
<1>7. OperationInv'
  BY <1>1, <1>2, <1>6 DEF ExternalInv, OperationInv, Stopping
<1>8. DialogInv'
  BY <1>1, ExternalAssumption DEF ExternalInv, ExternalTypeOK, DialogInv, SlotsReleased
<1>9. CleanedWhenStopped' /\ RegistryInv'
  BY <1>1, <1>2, <1>3, LabelFrame DEF ExternalInv, ExternalTypeOK, RegistryInv, OnlySession
<1> QED
  BY <1>4, <1>5, <1>7, <1>8, <1>9 DEF ExternalInv

\* The session is done with before its sources are removed a last time.
LEMMA CleanStoppedStep ==
  ASSUME ExternalInv, CleanStopped
  PROVE  ExternalInv'
<1> USE DEF CleanStopped, diskVars, managerVars, dialogVars
<1>1. /\ UNCHANGED <<diskVars, managerVars, session, api, dialogVars>>
      /\ op.pc = "clean" /\ current = 0 /\ op.generation \in Generations
      /\ label' = 0
  BY DEF ExternalInv, OperationInv, MayClean
<1>2. /\ op' \in OperationType
      /\ \/ closed /\ op' = NoOperation
         \/ ~ closed /\ op'.pc = "publish" /\ op'.entry = op.entry /\ op'.old = op.old
  BY OperationMoves DEF ExternalInv, AfterStop, Done
<1>3. NoOperation.pc = "idle" /\ NoOperation.entry = NoEntry /\ NoEntry.enabled = FALSE
  BY OperationMoves DEF ExternalInv
<1>4. ExternalTypeOK'
  BY <1>1, <1>2 DEF ExternalInv, ExternalTypeOK, OperationType
<1>5. SessionInv'
  BY <1>1 DEF ExternalInv, SessionInv, SessionOK, Stopping
<1>6. OperationInv'
  BY <1>1, <1>2, <1>3 DEF ExternalInv, OperationInv, Stopping, Unused
<1>7. DialogInv'
  BY <1>1, DialogFrame DEF ExternalInv, ExternalTypeOK
<1>8. CleanedWhenStopped' /\ RegistryInv'
  BY <1>1, <1>2, <1>3, LabelFrame DEF ExternalInv, ExternalTypeOK, RegistryInv
<1> QED
  BY <1>4, <1>5, <1>6, <1>7, <1>8 DEF ExternalInv

\* The records follow the registry when no session is active: the one that
\* had the old grants has been stopped.
LEMMA PublishStep ==
  ASSUME ExternalInv, Publish
  PROVE  ExternalInv'
<1> USE DEF Publish, dialogVars
<1>1. /\ UNCHANGED <<registry, torn, current, started, closed, session, api, label, dialogVars>>
      /\ op.pc = "publish" /\ current = 0 /\ ~ closed
      /\ records' = op.entry /\ failure' = FALSE /\ packages' = packages \ {op.old}
      /\ op.entry \in Entries
  BY DEF ExternalInv, OperationInv, ExternalTypeOK
<1>2. /\ op' \in OperationType
      /\ \/ op.entry.enabled /\ op'.pc = "start" /\ op'.entry = op.entry
         \/ op' = NoOperation
  BY OperationMoves DEF ExternalInv, Done
<1>3. NoOperation.pc = "idle" /\ NoOperation.entry = NoEntry /\ NoEntry.enabled = FALSE
  BY OperationMoves DEF ExternalInv
<1>4. ExternalTypeOK'
  BY <1>1, <1>2 DEF ExternalInv, ExternalTypeOK, OperationType
<1>5. SessionInv'
  <2>1. SUFFICES ASSUME NEW g \in Generations PROVE SessionOK(g)'
    BY DEF SessionInv
  <2>2. SessionOK(g) /\ g # 0
    BY ExternalAssumption DEF ExternalInv, SessionInv
  <2> QED
    BY <1>1, <2>2 DEF SessionOK, Stopping
<1>6. OperationInv'
  BY <1>1, <1>2, <1>3 DEF ExternalInv, OperationInv, Stopping, Unused
<1>7. DialogInv' /\ CleanedWhenStopped'
  BY <1>1, DialogFrame, LabelFrame DEF ExternalInv, ExternalTypeOK
<1>8. RegistryInv'
  BY <1>1, <1>2, <1>3 DEF ExternalInv, RegistryInv, Entries
<1> QED
  BY <1>4, <1>5, <1>6, <1>7, <1>8 DEF ExternalInv

(* Every non-empty set of natural numbers has a least element.             *)
LEMMA LeastNumber ==
  ASSUME NEW T, T \subseteq Nat, T # {}
  PROVE  \E n \in T : \A m \in T : n <= m
<1> DEFINE R == OpToRel(<, Nat)
<1>1. IsWellFoundedOn(R, Nat)
  BY NatLessThanWellFounded
<1>2. \A m, n \in Nat : m < n => <<m, n>> \in R
  BY DEF OpToRel
<1> HIDE DEF R
<1>3. PICK n \in T : \A m \in T : ~ (<<m, n>> \in R)
  BY <1>1, WFMin
<1>4. \A m \in T : ~ (m < n)
  BY <1>2, <1>3, Zenon
<1> QED
  BY <1>4

\* The generation that starts is a new one, and there is one.
LEMMA NextUnused ==
  ASSUME Unused # {}
  PROVE  (CHOOSE h \in Unused : \A i \in Unused : h <= i) \in Unused
<1>1. Unused \subseteq Nat
  BY ExternalAssumption DEF Unused
<1>2. \E h \in Unused : \A i \in Unused : h <= i
  BY <1>1, LeastNumber
<1> QED
  BY <1>2

\* The process starts, with the grants of the records, when no other session
\* has one; or it does not, and nothing has changed but the failure.
LEMMA StartStep ==
  ASSUME ExternalInv, Start
  PROVE  ExternalInv'
<1> DEFINE g == CHOOSE h \in Unused : \A i \in Unused : h <= i
<1>1. /\ op.pc = "start" /\ current = 0 /\ ~ closed
      /\ UNCHANGED <<diskVars, records, started, closed, api, label, dialogVars>>
      /\ g \in Unused
  BY NextUnused DEF Start, ExternalInv, OperationInv
<1>2. NoOperation.pc = "idle" /\ NoOperation.entry = NoEntry /\ NoEntry.enabled = FALSE
  BY OperationMoves DEF ExternalInv
<1>3. CASE failure' = TRUE /\ Done /\ UNCHANGED <<current, session>>
  <2>1. op' = NoOperation /\ op' \in OperationType
    BY <1>3, OperationMoves DEF ExternalInv, Done
  <2>2. ExternalTypeOK'
    BY <1>1, <1>3, <2>1 DEF ExternalInv, ExternalTypeOK, OperationType, diskVars, dialogVars
  <2>3. SessionInv' /\ OperationInv'
    BY <1>1, <1>2, <1>3, <2>1
    DEF ExternalInv, SessionInv, SessionOK, OperationInv, Stopping, Unused
  <2>4. DialogInv' /\ CleanedWhenStopped'
    BY <1>1, <1>3, DialogFrame, LabelFrame DEF ExternalInv, ExternalTypeOK, dialogVars
  <2>5. RegistryInv'
    BY <1>1, <1>2, <2>1 DEF ExternalInv, RegistryInv, diskVars
  <2> QED
    BY <2>2, <2>3, <2>4, <2>5 DEF ExternalInv
<1>4. CASE /\ session' = [session EXCEPT ![g] =
                 [active |-> TRUE, grant |-> records.grant, process |-> "running", peer |-> "up"]]
           /\ current' = g
           /\ failure' = FALSE
           /\ op' = [op EXCEPT !.pc = "initialize", !.generation = g]
  <2> HIDE DEF g
  <2>1. g \in Generations /\ g # 0
    BY <1>1, ExternalAssumption DEF Unused
  <2>2. /\ op' \in OperationType
        /\ op'.pc = "initialize" /\ op'.entry = op.entry
    BY <1>4, <2>1 DEF ExternalInv, ExternalTypeOK, OperationType
  <2>3. /\ OnlySession(g)
        /\ session'[g].active /\ session'[g].process = "running" /\ session'[g].peer = "up"
        /\ session'[g].grant = records.grant
    BY <1>4, <2>1 DEF ExternalInv, ExternalTypeOK, OnlySession, SessionType, Entries
  <2>4. ExternalTypeOK'
    BY <1>1, <1>4, <2>1, <2>2, <2>3
    DEF ExternalInv, ExternalTypeOK, OperationType, OnlySession, SessionType, diskVars, dialogVars
  <2>5. SessionInv'
    <3>1. SUFFICES ASSUME NEW h \in Generations PROVE SessionOK(h)'
      BY DEF SessionInv
    <3>2. SessionOK(h) /\ h # 0
      BY ExternalAssumption DEF ExternalInv, SessionInv
    <3>3. CASE h = g
      BY <1>1, <1>4, <2>3, <3>3 DEF SessionOK, Stopping
    <3>4. CASE h # g
      <4>1. session'[h] = session[h]
        BY <2>3, <3>4 DEF OnlySession
      <4> QED
        BY <1>1, <3>2, <4>1 DEF SessionOK, Stopping
    <3> QED
      BY <3>3, <3>4
  <2>6. OperationInv'
    BY <1>1, <2>2 DEF ExternalInv, OperationInv, Stopping
  <2>7. DialogInv'
    <3>1. slots = {}
      BY <1>1, ExternalAssumption DEF ExternalInv, ExternalTypeOK, DialogInv, SlotsReleased
    <3> QED
      BY <1>1, <3>1 DEF ExternalInv, DialogInv, SlotsReleased, dialogVars
  <2>8. CleanedWhenStopped'
    BY <1>1, <2>3 DEF ExternalInv, ExternalTypeOK, OnlySession, CleanedWhenStopped
  <2>9. RegistryInv'
    BY <1>1, <2>2 DEF ExternalInv, RegistryInv, diskVars
  <2> QED
    BY <2>4, <2>5, <2>6, <2>7, <2>8, <2>9 DEF ExternalInv
<1> QED
  BY <1>3, <1>4 DEF Start

\* The operation is over when the new session is initialised.
LEMMA InitializedStep ==
  ASSUME ExternalInv, Initialized
  PROVE  ExternalInv'
<1> USE DEF Initialized, Done, diskVars, managerVars, dialogVars
<1>1. /\ NoOperation.pc = "idle" /\ NoOperation.entry = NoEntry /\ NoEntry.enabled = FALSE
      /\ op' = NoOperation /\ op' \in OperationType
  BY OperationMoves DEF ExternalInv
<1>2. ExternalTypeOK'
  BY <1>1 DEF ExternalInv, ExternalTypeOK, OperationType
<1>3. SessionInv' /\ OperationInv'
  BY <1>1 DEF ExternalInv, SessionInv, SessionOK, OperationInv, Stopping, Unused
<1>4. DialogInv' /\ CleanedWhenStopped'
  BY DialogFrame, LabelFrame DEF ExternalInv, ExternalTypeOK
<1>5. RegistryInv'
  BY <1>1 DEF ExternalInv, RegistryInv
<1> QED
  BY <1>2, <1>3, <1>4, <1>5 DEF ExternalInv
-----------------------------------------------------------------------------
(* All steps                                                               *)

\* The daemon starts with the registry it finds, and without a session.
LEMMA InitExternalInv == ExternalInit => ExternalInv
<1> SUFFICES ASSUME ExternalInit PROVE ExternalInv
  OBVIOUS
<1> USE DEF ExternalInit
<1>1. /\ NoOperation.pc = "idle" /\ NoOperation.entry = NoEntry /\ NoEntry.enabled = FALSE
      /\ NoOperation \in OperationType
  BY DEF NoOperation, NoEntry, OperationType, Entries
<1>2. /\ \A g \in Generations : session[g] = NoSession
      /\ session \in [Generations -> SessionType]
      /\ \A d \in Dialogs : dialog[d] = NoDialog
      /\ dialog \in [Dialogs -> [pc : {"none", "respond", "open", "finish", "notify"},
                                 generation : Generations \cup {0}, sync : BOOLEAN]]
  BY DEF NoSession, NoDialog, SessionType
<1>3. ExternalTypeOK
  BY <1>1, <1>2 DEF ExternalTypeOK, OperationType, SessionType, Entries
<1>4. SessionInv /\ OperationInv
  BY <1>1, <1>2 DEF SessionInv, SessionOK, NoSession, OperationInv, Stopping
<1>5. DialogInv /\ CleanedWhenStopped
  BY <1>2 DEF DialogInv, SlotsReleased, NoDialog, CleanedWhenStopped
<1>6. RegistryInv
  BY <1>1 DEF RegistryInv
<1> QED
  BY <1>3, <1>4, <1>5, <1>6 DEF ExternalInv

\* Nothing of the invariant is about what does not move.
LEMMA StutterStep ==
  ASSUME ExternalInv, UNCHANGED vars
  PROVE  ExternalInv'
<1> USE DEF vars, diskVars, managerVars, dialogVars
<1>1. ExternalTypeOK' /\ SessionInv' /\ OperationInv' /\ RegistryInv'
  BY SessionFrame, RegistryFrame DEF ExternalInv, ExternalTypeOK
<1>2. DialogInv' /\ CleanedWhenStopped'
  BY DialogFrame, LabelFrame DEF ExternalInv, ExternalTypeOK
<1> QED
  BY <1>1, <1>2 DEF ExternalInv

\* Whatever happens keeps the invariant.
LEMMA NextExternalInv == ExternalInv /\ [ExternalNext]_vars => ExternalInv'
<1> SUFFICES ASSUME ExternalInv, [ExternalNext]_vars PROVE ExternalInv'
  OBVIOUS
<1>1. CASE Manage
  BY <1>1, ManageStep
<1>2. CASE SaveFails
  BY <1>2, SaveFailsStep
<1>3. CASE StartEnabled \/ CloseManager
  BY <1>3, BeginStep
<1>4. CASE Operate
  <2>1. CASE Stop
    BY <2>1, StopStep
  <2>2. CASE Deactivate \/ CancelProcess
    BY <2>2, MarkStep
  <2>3. CASE PassGate \/ AwaitExit
    BY <2>3, StoppingStep
  <2>4. CASE ShutdownFails
    <3>1. op.generation \in Generations
      BY <2>4 DEF ShutdownFails, ExternalInv, OperationInv, Stopping
    <3> QED
      BY <2>4, <3>1, FailStep DEF ShutdownFails
  <2>5. CASE CleanStopped
    BY <2>5, CleanStoppedStep
  <2>6. CASE Publish
    BY <2>6, PublishStep
  <2>7. CASE Start
    BY <2>7, StartStep
  <2>8. CASE Initialized
    BY <2>8, InitializedStep
  <2> QED
    BY <1>4, <2>1, <2>2, <2>3, <2>4, <2>5, <2>6, <2>7, <2>8, Zenon DEF Operate
<1>5. ASSUME NEW g \in Generations,
             \/ EnterAPI(g) \/ LeaveAPI(g)
             \/ PeerFails(g) \/ ProcessExits(g) \/ Settle(g)
             \/ \E d \in Dialogs, sync \in BOOLEAN : BeginInteraction(g, d, sync)
      PROVE  ExternalInv'
  <2>1. CASE EnterAPI(g)
    BY <2>1, EnterAPIStep
  <2>2. CASE LeaveAPI(g)
    BY <2>2, LeaveAPIStep
  <2>3. CASE PeerFails(g)
    BY <2>3, FailStep DEF PeerFails
  <2>4. CASE ProcessExits(g)
    BY <2>4, ProcessStep
  <2>5. CASE Failed(g)
    BY <2>5, FailedStep
  <2>6. CASE LockGate(g)
    BY <2>6, LockGateStep
  <2>7. CASE RemoveSources(g)
    BY <2>7, RemoveSourcesStep
  <2>8. CASE ExitSeen(g)
    <3>1. CASE PeerFails(g)
      BY <3>1, FailStep DEF PeerFails
    <3>2. CASE ~ PeerFails(g)
      BY <2>8, <3>2, ProcessStep DEF ExitSeen
    <3> QED
      BY <3>1, <3>2
  <2>9. CASE \E d \in Dialogs, sync \in BOOLEAN : BeginInteraction(g, d, sync)
    BY <2>9, BeginInteractionStep
  <2> QED
    BY <1>5, <2>1, <2>2, <2>3, <2>4, <2>5, <2>6, <2>7, <2>8, <2>9, Zenon DEF Settle
<1>6. ASSUME NEW d \in Dialogs, Wind(d) \/ Answer(d) \/ Detach(d)
      PROVE  ExternalInv'
  BY <1>6, WindStep DEF Wind, Answer, GiveUp
<1>7. CASE Closed \/ UNCHANGED vars
  BY <1>7, StutterStep DEF Closed
<1> QED
  BY <1>1, <1>2, <1>3, <1>4, <1>5, <1>6, <1>7, Zenon DEF ExternalNext

\* The state of the manager, its sessions, its dialogues and the registry is
\* always one of those that fit together.
THEOREM ExternalInvariantHolds == ExternalSpec => []ExternalInv
  BY InitExternalInv, NextExternalInv, PTL DEF ExternalSpec

\* Every variable of the manager always has its type.
THEOREM ExternalTypeCorrect == ExternalSpec => []ExternalTypeOK
<1>1. ExternalInv => ExternalTypeOK
  BY DEF ExternalInv
<1> QED
  BY <1>1, ExternalInvariantHolds, PTL

\* At most one process of a plugin runs, whatever fails and whenever
\* (runtime.go:247).
LEMMA OneProcessHolds == ExternalInv => OneProcess
<1> SUFFICES ASSUME ExternalInv PROVE OneProcess
  OBVIOUS
<1> DEFINE Live == {g \in Generations : session[g].process \in {"running", "killed"}}
<1>1. \A g, h \in Live : g = h
  <2>1. ASSUME NEW g \in Live PROVE current = g \/ (current = 0 /\ op.generation = g)
    BY <2>1 DEF ExternalInv, SessionInv, SessionOK, OperationInv
  <2>2. 0 \notin Generations
    BY ExternalAssumption
  <2> QED
    BY <2>1, <2>2
<1>2. \E g : Live \subseteq {g}
  BY <1>1
<1>3. PICK g : Live \subseteq {g}
  BY <1>2
<1>4. Live = {} \/ Live = {g}
  BY <1>3
<1>5. Cardinality(Live) \in {0, 1}
  BY <1>4, FS_EmptySet, FS_Singleton
<1> QED
  BY <1>5 DEF OneProcess

\* A session that has been stopped leaves its successor neither its process,
\* nor a label, nor a dialogue (runtime.go:217, interactions.go:68).
THEOREM SessionsStayApart == ExternalSpec => []SessionsApart
<1>1. ExternalInv => SessionsApart
  BY OneProcessHolds DEF ExternalInv, DialogInv, SessionsApart
<1> QED
  BY <1>1, ExternalInvariantHolds, PTL

\* The registry names a package that is there, and between operations it is
\* what the manager works with (manager.go:395).
THEOREM RegistryIsResolvable == ExternalSpec => []RegistryResolvable
<1>1. ExternalInv => RegistryResolvable
  BY DEF ExternalInv, RegistryInv, RegistryResolvable
<1> QED
  BY <1>1, ExternalInvariantHolds, PTL

\* A label is written only with a grant that is in force (manager.go:338).
THEOREM GrantsAreCurrent == ExternalSpec => GrantsCurrent
<1>1. ExternalInv /\ [ExternalNext]_vars => [label' \notin {0, label} => records.grant]_vars
  <2> SUFFICES ASSUME ExternalInv, ExternalNext, label' \notin {0, label}
               PROVE  records.grant
    BY DEF vars
  <2>1. CASE \E g \in Generations : LeaveAPI(g)
    <3>1. PICK g \in Generations : LeaveAPI(g)
      BY <2>1
    <3> QED
      BY <3>1 DEF LeaveAPI, MayWrite, ExternalInv, SessionInv, SessionOK
  <2>2. CASE ~ \E g \in Generations : LeaveAPI(g)
    <3>1. label' \in {0, label}
      BY <2>2, Zenon
      DEF ExternalNext, Manage, SaveFails, StartEnabled, CloseManager, Operate, Stop, Deactivate,
          PassGate, ShutdownFails, CancelProcess, AwaitExit, CleanStopped, Publish, Start,
          Initialized, EnterAPI, PeerFails, Fail, ProcessExits, Settle, Failed, LockGate,
          RemoveSources, ExitSeen, BeginInteraction, Wind, Respond, GiveUp, Answer, EndDialog,
          FinishInteraction, Notify, Detach, Closed, vars
    <3> QED
      BY <3>1
  <2> QED
    BY <2>1, <2>2
<1> QED
  BY <1>1, ExternalInvariantHolds, PTL DEF ExternalSpec, GrantsCurrent
=============================================================================
