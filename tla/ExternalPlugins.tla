---------------------------- MODULE ExternalPlugins ----------------------------
(***************************************************************************)
(* One external plugin: its entry in the registry, the sessions that       *)
(* follow each other, the failure of a session, which can come at any time *)
(* and from any goroutine, against the management operations, and what the *)
(* plugin does meanwhile: write labels and open dialogues at a frontend.   *)
(*                                                                         *)
(* Manage, Close and StartEnabled hold opMu, so one operation is in        *)
(* progress; m.mu is held only within a step.  The gate of a session is    *)
(* held by the API handlers that are between their check and their end.    *)
(***************************************************************************)
EXTENDS Naturals, FiniteSets

CONSTANTS
  Generations,     \* of its sessions: how often it may be started, a bound
  Packages,        \* names of package copies
  Dialogs,         \* dialogues that may be requested at a time, a bound
  None

ASSUME ExternalAssumption ==
  /\ Generations \subseteq Nat \ {0} /\ IsFiniteSet(Generations)
  /\ IsFiniteSet(Packages) /\ None \notin Packages
  /\ IsFiniteSet(Dialogs)

VARIABLES
  registry,   \* the entry of the plugin in registry.json,
  packages,   \*   and the package copies on the disk
  records,    \* the entry in Manager.records
  current,    \* the generation in Manager.sessions, or 0
  failure,    \* whether Manager.failures tells why the plugin does not run
  started,    \* StartEnabled has run
  closed,
  op,         \* the operation that holds opMu
  session,    \* the sessions by generation
  api,        \* the generations with a host API call in progress
  label,      \* the generation that wrote the label the plugin has in Core, or 0
  dialog,     \* the dialogues, and the goroutine that waits for each
  slots,      \* Manager.interactions
  torn        \* the last save has failed, but replaced registry.json

diskVars == <<registry, packages, torn>>
managerVars == <<records, current, failure, started, closed>>
dialogVars == <<dialog, slots>>
vars == <<diskVars, managerVars, op, session, api, label, dialogVars>>

Entries == [package : Packages \cup {None}, enabled : BOOLEAN, grant : BOOLEAN]
NoEntry == [package |-> None, enabled |-> FALSE, grant |-> FALSE]

NoSession == [active |-> FALSE, grant |-> FALSE, process |-> "none", peer |-> "none"]
NoDialog == [pc |-> "none", generation |-> 0, sync |-> FALSE]
NoOperation == [pc |-> "idle", entry |-> NoEntry, old |-> None, generation |-> 0]

ExternalTypeOK ==
  /\ registry \in Entries /\ records \in Entries
  /\ packages \subseteq Packages
  /\ current \in Generations \cup {0} /\ label \in Generations \cup {0}
  /\ failure \in BOOLEAN /\ started \in BOOLEAN /\ closed \in BOOLEAN
  /\ op \in [pc : {"idle", "stop", "deactivate", "gate", "fail", "wait", "clean", "publish",
                   "start", "initialize"},
             entry : Entries, old : Packages \cup {None}, generation : Generations \cup {0}]
  /\ session \in [Generations ->
       [active : BOOLEAN, grant : BOOLEAN,
        process : {"none", "running", "killed", "exited", "done"},
        peer : {"none", "up", "failing", "waiting", "cleaning", "down"}]]
  /\ api \subseteq Generations
  /\ dialog \in [Dialogs ->
       [pc : {"none", "respond", "open", "finish", "notify"},
        generation : Generations \cup {0}, sync : BOOLEAN]]
  /\ slots \subseteq Dialogs
  /\ torn \in BOOLEAN

Unused == {g \in Generations : session[g].process = "none"}
Set(g, field, value) == [session EXCEPT ![g][field] = value]
-----------------------------------------------------------------------------
(* The gate, and what a session leaves in Core                             *)

\* A dialogue that a command waits for keeps the gate of its API call.
Waiting(d, g) == dialog[d].pc \in {"open", "finish"} /\ dialog[d].sync /\ dialog[d].generation = g

GateFree(g) ==
  /\ g \notin api
  /\ \A d \in Dialogs : ~ Waiting(d, g)
  /\ session[g].peer # "cleaning"

CleanIfCurrent(g) == current = g

\* cleanupSources leaves the labels of a later session alone.
MayClean(g) == current \in {0, g}
-----------------------------------------------------------------------------
(* The host API                                                            *)

EnterAPI(g) ==
  /\ session[g].active
  /\ session[g].peer \in {"up", "failing"}
  /\ g \notin api
  /\ api' = api \cup {g}
  /\ UNCHANGED <<diskVars, managerVars, op, session, label, dialogVars>>

\* The check of ExecuteChecked, within the executor
MayWrite(g) == session[g].active /\ session[g].grant

\* Any API call ends, after api_ms at the latest; it may set or remove the label.
LeaveAPI(g) ==
  /\ g \in api
  /\ api' = api \ {g}
  /\ \/ UNCHANGED label
     \/ MayWrite(g) /\ label' \in {0, g}
  /\ UNCHANGED <<diskVars, managerVars, op, session, dialogVars>>
-----------------------------------------------------------------------------
(* Dialogues                                                               *)

\* stop removes the session before it marks it inactive.
IsCurrent(g) == current = g

\* frontend.interact from a command waits for the answer; from view.input it
\* is answered at once, and the dialogue is opened after the response.  When no
\* slot is left the plugin fails, as PeerFails allows it to at any time.
BeginInteraction(g, d, sync) ==
  /\ session[g].active /\ IsCurrent(g)
  /\ session[g].peer \in {"up", "failing"}
  /\ dialog[d].pc = "none"
  /\ slots' = slots \cup {d}
  /\ dialog' = [dialog EXCEPT ![d] =
       [pc |-> IF sync THEN "open" ELSE "respond", generation |-> g, sync |-> sync]]
  /\ UNCHANGED <<diskVars, managerVars, op, session, api, label>>

\* rpcAfterResponse, if the response could not be sent
Aborted(d) == slots \ {d}

Respond(d) ==
  LET g == dialog[d].generation IN
  /\ dialog[d].pc = "respond"
  /\ \/ /\ session[g].peer = "up"
        /\ dialog' = [dialog EXCEPT ![d].pc = "open"]
        /\ UNCHANGED slots
     \/ /\ session[g].peer # "up"
        /\ dialog' = [dialog EXCEPT ![d] = NoDialog]
        /\ slots' = Aborted(d)
  /\ UNCHANGED <<diskVars, managerVars, op, session, api, label>>

NotCancelled(d) == FALSE

\* The context of the dialogue, which is also that of the session's API
Cancelled(d) == d \notin slots \/ ~ session[dialog[d].generation].active

EndDialog(d) ==
  /\ dialog[d].pc = "open"
  /\ dialog' = [dialog EXCEPT ![d].pc = "finish"]
  /\ UNCHANGED <<diskVars, managerVars, op, session, api, label, slots>>

\* The user answers, the frontend fails, or interaction_ms is over.
Answer(d) == EndDialog(d)
GiveUp(d) == EndDialog(d) /\ Cancelled(d)

FinishInteraction(d) ==
  LET told == d \in slots /\ session[dialog[d].generation].active /\ ~ dialog[d].sync IN
  /\ dialog[d].pc = "finish"
  /\ slots' = slots \ {d}
  /\ dialog' = [dialog EXCEPT ![d] = IF told THEN [@ EXCEPT !.pc = "notify"] ELSE NoDialog]
  /\ UNCHANGED <<diskVars, managerVars, op, session, api, label>>

\* interaction.result; a peer that has failed does not send it.
Notify(d) ==
  /\ dialog[d].pc = "notify"
  /\ dialog' = [dialog EXCEPT ![d] = NoDialog]
  /\ UNCHANGED <<diskVars, managerVars, op, session, api, label, slots>>

\* Detach of the frontend, or view.close
Detach(d) ==
  /\ d \in slots
  /\ slots' = slots \ {d}
  /\ UNCHANGED <<diskVars, managerVars, op, session, api, label, dialog>>
-----------------------------------------------------------------------------
(* The failure of a session                                                *)

\* Peer.Fail does its work once; who calls it meanwhile waits for the end.
\* Protocol errors, timeouts, overflows and repeated handler errors end here.
Fail(g) ==
  /\ session[g].peer = "up"
  /\ session' = Set(g, "peer", "failing")
  /\ UNCHANGED <<diskVars, managerVars, api, label, dialogVars>>

PeerFails(g) == Fail(g) /\ UNCHANGED op

Killed(g) == IF session[g].process = "running" THEN "killed" ELSE session[g].process

\* What failed makes of Manager.failures, in the step that ends the session
Told(g) == failure \/ current = g
Released(g) == IF current = g THEN {d \in slots : dialog[d].generation # g} ELSE slots

Failed(g) ==
  /\ session[g].peer = "failing"
  /\ session' = [session EXCEPT
       ![g].active = FALSE, ![g].process = Killed(g), ![g].peer = "waiting"]
  /\ failure' = Told(g)
  /\ slots' = Released(g)
  /\ UNCHANGED <<diskVars, records, current, started, closed, op, api, label, dialog>>

\* cleanupSources takes the gate, looks whether another session runs,
LockGate(g) ==
  /\ session[g].peer = "waiting"
  /\ GateFree(g)
  /\ session' = Set(g, "peer", IF MayClean(g) THEN "cleaning" ELSE "down")
  /\ UNCHANGED <<diskVars, managerVars, op, api, label, dialogVars>>

\* and removes the labels and attentions of the plugin.
RemoveSources(g) ==
  /\ session[g].peer = "cleaning"
  /\ label' = 0
  /\ session' = Set(g, "peer", "down")
  /\ UNCHANGED <<diskVars, managerVars, op, api, dialogVars>>

ProcessExits(g) ==
  /\ session[g].process \in {"running", "killed"}
  /\ session' = Set(g, "process", "exited")
  /\ UNCHANGED <<diskVars, managerVars, op, api, label, dialogVars>>

\* The goroutine that waits for the process fails the peer, or waits until
\* somebody else has, and closes done.
ExitSeen(g) ==
  /\ session[g].process = "exited"
  /\ \/ PeerFails(g)
     \/ /\ session[g].peer = "down"
        /\ session' = Set(g, "process", "done")
        /\ UNCHANGED <<diskVars, managerVars, op, api, label, dialogVars>>
-----------------------------------------------------------------------------
(* Operations                                                              *)

Goto(pc) == op' = [op EXCEPT !.pc = pc]
Done == op' = NoOperation
AfterStop == IF closed THEN Done ELSE Goto("publish")

\* install and update copy the package p; enable, disable, grant, revoke and
\* restart, which changes nothing, work on an entry that has one; uninstall
\* with --purge also on one that has none.
Edits(e, p) ==
  IF e.package = None
  THEN {NoEntry, [NoEntry EXCEPT !.package = p]}
  ELSE {NoEntry, [e EXCEPT !.package = p, !.enabled = FALSE]}
         \cup {[e EXCEPT !.enabled = b] : b \in BOOLEAN}
         \cup {[e EXCEPT !.grant = b] : b \in BOOLEAN}

Copied(entry) == {entry.package} \ {records.package, None}

PublishedEarly(entry) == entry

\* The grants are published when the sessions that had the old ones are stopped.
BeforeStop(entry) == records

MayStart == Unused # {}

\* Manage, up to save
Manage ==
  /\ op.pc = "idle" /\ ~ closed
  /\ \E p \in Packages \ packages : \E entry \in Edits(records, p) :
       /\ entry.enabled => MayStart
       /\ registry' = entry
       /\ packages' = packages \cup Copied(entry)
       /\ torn' = FALSE
       /\ records' = BeforeStop(entry)
       /\ op' = [NoOperation EXCEPT
            !.pc = "stop", !.entry = entry,
            !.old = IF entry.package = records.package THEN None ELSE records.package]
  /\ UNCHANGED <<current, failure, started, closed, session, api, label, dialogVars>>

WithoutOld(entry) == packages \ {records.package}

\* save fails, before or after registry.json has been replaced: the copy is removed.
AfterFailure(entry) == packages \ Copied(entry)

SaveFails ==
  /\ op.pc = "idle" /\ ~ closed
  /\ \E p \in Packages \ packages : \E entry \in Edits(records, p) :
       /\ \/ UNCHANGED <<registry, torn>>
          \/ registry' = entry /\ torn' = TRUE
       /\ packages' = AfterFailure(entry)
  /\ UNCHANGED <<managerVars, op, session, api, label, dialogVars>>

StartEnabled ==
  /\ op.pc = "idle" /\ ~ closed /\ ~ started
  /\ started' = TRUE
  /\ IF records.enabled /\ current = 0
     THEN MayStart /\ op' = [NoOperation EXCEPT !.pc = "start"]
     ELSE UNCHANGED op
  /\ UNCHANGED <<diskVars, records, current, failure, closed, session, api, label,
                 dialogVars>>

CloseManager ==
  /\ op.pc = "idle" /\ ~ closed
  /\ closed' = TRUE
  /\ op' = [NoOperation EXCEPT !.pc = "stop"]
  /\ UNCHANGED <<diskVars, records, current, failure, started, session, api, label,
                 dialogVars>>

\* The part of stop under m.mu
Stop ==
  /\ op.pc = "stop"
  /\ current' = 0
  /\ slots' = {}
  /\ IF current = 0
     THEN AfterStop
     ELSE op' = [op EXCEPT !.pc = "deactivate", !.generation = current]
  /\ UNCHANGED <<diskVars, records, failure, started, closed, session, api, label, dialog>>

Deactivate ==
  /\ op.pc = "deactivate"
  /\ session' = Set(op.generation, "active", FALSE)
  /\ Goto("gate")
  /\ UNCHANGED <<diskVars, managerVars, api, label, dialogVars>>

\* The gate is taken and released, and the plugin told to shut down, which it
\* may or may not answer.
PassGate ==
  /\ op.pc = "gate"
  /\ GateFree(op.generation)
  /\ Goto("fail")
  /\ UNCHANGED <<diskVars, managerVars, session, api, label, dialogVars>>

ShutdownFails == op.pc = "fail" /\ Fail(op.generation) /\ UNCHANGED op

CancelProcess ==
  /\ op.pc = "fail"
  /\ session[op.generation].peer = "down"
  /\ session' = Set(op.generation, "process", Killed(op.generation))
  /\ Goto("wait")
  /\ UNCHANGED <<diskVars, managerVars, api, label, dialogVars>>

HasExited(g) == session[g].process = "done"

AwaitExit ==
  /\ op.pc = "wait"
  /\ HasExited(op.generation)
  /\ Goto("clean")
  /\ UNCHANGED <<diskVars, managerVars, session, api, label, dialogVars>>

CleanStopped ==
  /\ op.pc = "clean"
  /\ GateFree(op.generation)
  /\ label' = IF MayClean(op.generation) THEN 0 ELSE label
  /\ AfterStop
  /\ UNCHANGED <<diskVars, managerVars, session, api, dialogVars>>

\* The entry is published, and the old package removed.
Publish ==
  /\ op.pc = "publish"
  /\ records' = op.entry
  /\ failure' = FALSE
  /\ packages' = packages \ {op.old}
  /\ IF op.entry.enabled THEN Goto("start") ELSE Done
  /\ UNCHANGED <<registry, torn, current, started, closed, session, api, label, dialogVars>>

\* The process may not start; its generation is not used then.
Start ==
  /\ op.pc = "start"
  /\ \/ failure' = TRUE /\ Done /\ UNCHANGED <<current, session>>
     \/ LET g == CHOOSE h \in Unused : \A i \in Unused : h <= i IN
        /\ session' = [session EXCEPT ![g] =
             [active |-> TRUE, grant |-> records.grant, process |-> "running", peer |-> "up"]]
        /\ current' = g
        /\ failure' = FALSE
        /\ op' = [op EXCEPT !.pc = "initialize", !.generation = g]
  /\ UNCHANGED <<diskVars, records, started, closed, api, label, dialogVars>>

\* initialize is answered, or has failed the peer.
Initialized ==
  /\ op.pc = "initialize"
  /\ Done
  /\ UNCHANGED <<diskVars, managerVars, session, api, label, dialogVars>>
-----------------------------------------------------------------------------
ExternalInit ==
  /\ registry \in Entries
  /\ registry.package = None => registry = NoEntry
  /\ packages = {registry.package} \ {None}
  /\ records = registry
  /\ current = 0 /\ label = 0
  /\ failure = FALSE /\ started = FALSE /\ closed = FALSE
  /\ op = NoOperation
  /\ session = [g \in Generations |-> NoSession]
  /\ api = {}
  /\ dialog = [d \in Dialogs |-> NoDialog]
  /\ slots = {}
  /\ torn = FALSE

\* What the holder of opMu does next
Operate ==
  \/ Stop \/ Deactivate \/ PassGate \/ ShutdownFails \/ CancelProcess \/ AwaitExit
  \/ CleanStopped \/ Publish \/ Start \/ Initialized

\* The goroutines of a session that has failed or lost its process
Settle(g) == Failed(g) \/ LockGate(g) \/ RemoveSources(g) \/ ExitSeen(g)

Wind(d) == Respond(d) \/ GiveUp(d) \/ FinishInteraction(d) \/ Notify(d)

Closed == closed /\ op.pc = "idle" /\ UNCHANGED vars

ExternalNext ==
  \/ Manage \/ SaveFails \/ StartEnabled \/ CloseManager \/ Operate
  \/ \E g \in Generations :
       \/ EnterAPI(g) \/ LeaveAPI(g)
       \/ PeerFails(g) \/ ProcessExits(g) \/ Settle(g)
       \/ \E d \in Dialogs, sync \in BOOLEAN : BeginInteraction(g, d, sync)
  \/ \E d \in Dialogs : Wind(d) \/ Answer(d) \/ Detach(d)
  \/ Closed

ExternalSpec == ExternalInit /\ [][ExternalNext]_vars

\* Goroutines run, an API call ends within api_ms and a killed process exits;
\* nobody answers a dialogue, and a plugin does nothing by itself.
ExternalFairness ==
  /\ WF_vars(Operate)
  /\ \A g \in Generations :
       /\ WF_vars(LeaveAPI(g)) /\ WF_vars(Settle(g))
       /\ WF_vars(session[g].process = "killed" /\ ProcessExits(g))
  /\ \A d \in Dialogs : WF_vars(Wind(d))

FairExternalSpec == ExternalSpec /\ ExternalFairness
-----------------------------------------------------------------------------
(* Properties                                                              *)

\* Two processes of one plugin, which share a data directory, never run at the
\* same time: stop waits for the old one (runtime.go:247).
OneProcess ==
  Cardinality({g \in Generations : session[g].process \in {"running", "killed"}}) <= 1

\* When the failure of a session is dealt with, no label of it is left or can
\* still be written by an API call that was in progress.
CleanedWhenStopped == label # 0 => session[label].peer # "down"

\* The slots of dialogues, which all plugins share, are held for the running
\* session only, and by a dialogue that will give its slot back.
SlotsReleased ==
  \A d \in slots :
    /\ dialog[d].pc \in {"respond", "open", "finish"}
    /\ dialog[d].generation = current
    /\ session[current].active

\* A session that has been stopped leaves nothing to its successor: neither its
\* process, nor a label, nor a dialogue.
SessionsApart == OneProcess /\ CleanedWhenStopped /\ SlotsReleased

\* No API call takes effect on a grant that has been withdrawn: a session ends
\* before the changed grants are published (manager.go:338).
GrantsCurrent == [][label' \notin {0, label} => records.grant]_vars

\* Whatever fails, and wherever the daemon dies, the registry names a package
\* that is there; between operations it is what the manager works with.  This
\* does not hold while only syncDirectory has failed.
RegistryResolvable ==
  ~ torn =>
    /\ registry.package \in packages \cup {None}
    /\ records.package \in packages \cup {None}
    /\ op.pc = "idle" => registry = records

\* Stopping, restarting and changing a plugin ends without a user's answer: the
\* dialogues of the session are cancelled, and no new one gets in between.  A
\* session that has failed comes to its end, process included, without any
\* operation.
ManageEnds ==
  /\ op.pc # "idle" ~> op.pc = "idle"
  /\ \A g \in Generations : session[g].peer = "failing" ~> session[g].process = "done"
================================================================================
