------------------------------ MODULE PluginHost ------------------------------
(***************************************************************************)
(* One built-in plugin in its host: the goroutine that calls it back with  *)
(* Core events and terminal events, the callbacks, which go on after they  *)
(* are given up, its writes of labels and attentions under labelGate, the  *)
(* budget of its terminal queue, and the cleanup when it is disabled.      *)
(* Plugins share nothing but Core, so one stands for all.                  *)
(***************************************************************************)
EXTENDS Integers, FiniteSets, Sequences

CONSTANTS
  Callbacks,             \* callback goroutines: a bound of the model
  Sizes,                 \* of terminal events
  TerminalQueueBytes,    \* Config of the host
  TerminalQueueCapacity, \* of the channel terminalEvents
  EventQueueCapacity,    \* of the Core subscription
  ConsecutiveErrorLimit, \* Config of the host
  None

ASSUME PluginHostAssumption ==
  /\ IsFiniteSet(Callbacks) /\ Callbacks # {} /\ None \notin Callbacks
  /\ Sizes \subseteq Nat \ {0}
  /\ TerminalQueueBytes \in Nat \ {0}
  /\ TerminalQueueCapacity \in Nat \ {0}
  /\ EventQueueCapacity \in Nat \ {0}
  /\ ConsecutiveErrorLimit \in Nat \ {0}

Outcomes == {"ok", "error", "panic"}
Writes == {"set", "remove", "raise"}
Cleanup == {"labels", "attentions", "unsubscribe", "done"}

VARIABLES
  active,     \* runtime.active
  closing,    \* whether Host.Close has cancelled the context of the host
  pc,         \* where run is
  awaited,    \* the callback run waits for, if any
  errors,     \* consecutiveErrors
  callback,   \* each callback goroutine: none, running, or its outcome
  gate,       \* who holds labelGate, to write what
  pending,    \* the number of events in the subscription
  subscribed, \* the subscription: "live", "overflow" or "closed"
  terminal,   \* terminalEvents: the sizes of what is queued
  reserved,   \* what PublishTerminalEvent has accounted and not yet queued
  taken,      \* what run has received and not yet released
  bytes,      \* terminalBytes
  stop,       \* whether runtime.stop holds an error
  label,      \* whether Core has a label of this plugin,
  attention,  \*   and an attention
  late        \* the number of writes done since the plugin is disabled

runVars == <<active, closing, pc, awaited, errors>>
terminalVars == <<terminal, reserved, taken, bytes, stop>>
coreVars == <<pending, subscribed, label, attention>>
vars == <<runVars, callback, gate, terminalVars, coreVars, late>>

Total(sizes) ==
  LET sum[n \in 0 .. Len(sizes)] == IF n = 0 THEN 0 ELSE sum[n - 1] + sizes[n]
  IN  sum[Len(sizes)]

PluginTypeOK ==
  /\ active \in BOOLEAN /\ closing \in BOOLEAN
  /\ pc \in {"init", "call", "select", "release"} \cup Cleanup
  /\ awaited \in Callbacks \cup {None}
  /\ errors \in 0 .. ConsecutiveErrorLimit
  /\ callback \in [Callbacks -> {"none", "running"} \cup Outcomes]
  /\ gate \in [holder : Callbacks \cup {None}, write : Writes \cup {None}]
  /\ pending \in 0 .. EventQueueCapacity
  /\ subscribed \in {"live", "overflow", "closed"}
  /\ terminal \in Seq(Sizes) /\ Len(terminal) <= TerminalQueueCapacity
  /\ reserved \in Sizes \cup {0} /\ taken \in Sizes \cup {0}
  /\ bytes \in 0 .. TerminalQueueBytes
  /\ stop \in BOOLEAN
  /\ label \in BOOLEAN /\ attention \in BOOLEAN
  /\ late \in Nat
-----------------------------------------------------------------------------
(* Core                                                                    *)

\* One more event in the subscription; at the limit it is closed instead.
Publish ==
  IF subscribed = "live" /\ pending = EventQueueCapacity
  THEN subscribed' = "overflow" /\ UNCHANGED pending
  ELSE /\ pending' = IF subscribed = "live" THEN pending + 1 ELSE pending
       /\ UNCHANGED subscribed

Silent == UNCHANGED <<pending, subscribed>>

\* Another client of Core
CoreEvent ==
  /\ subscribed = "live"
  /\ Publish
  /\ UNCHANGED <<runVars, callback, gate, terminalVars, label, attention, late>>
-----------------------------------------------------------------------------
(* run                                                                     *)

\* Every way out of run disables the plugin and runs the deferred cleanup.
Leave ==
  /\ active' = FALSE
  /\ pc' = "labels"
  /\ awaited' = None
  /\ UNCHANGED <<closing, errors>>

Free(c) == callback[c] = "none"

StartCallback(c) ==
  /\ Free(c)
  /\ callback' = [callback EXCEPT ![c] = "running"]
  /\ awaited' = c

Initialize(c) ==
  /\ pc = "init" /\ awaited = None
  /\ StartCallback(c)
  /\ UNCHANGED <<active, closing, pc, errors, gate, terminalVars, coreVars, late>>

HandleEvent(c) ==
  /\ pc = "select"
  /\ pending > 0
  /\ pending' = pending - 1
  /\ StartCallback(c)
  /\ pc' = "call"
  /\ UNCHANGED <<active, closing, errors, gate, terminalVars, subscribed, label,
                 attention, late>>

EventsEnded ==
  /\ pc = "select"
  /\ subscribed # "live" /\ pending = 0
  /\ Leave
  /\ UNCHANGED <<callback, gate, terminalVars, coreVars, late>>

ReceiveTerminalEvent ==
  /\ pc = "select"
  /\ terminal # << >>
  /\ \E c \in Callbacks : Free(c)  \* the bound: it is handled in a goroutine
  /\ taken' = Head(terminal)
  /\ terminal' = Tail(terminal)
  /\ pc' = "release"
  /\ UNCHANGED <<active, closing, awaited, errors, callback, gate, reserved, bytes,
                 stop, coreVars, late>>

HandleTerminalEvent(c) ==
  /\ pc = "release"
  /\ bytes' = bytes - taken
  /\ taken' = 0
  /\ StartCallback(c)
  /\ pc' = "call"
  /\ UNCHANGED <<active, closing, errors, gate, terminal, reserved, stop, coreVars,
                 late>>

Stopped ==
  /\ pc = "select"
  /\ closing \/ stop
  /\ Leave
  /\ stop' \in {stop, FALSE}
  /\ UNCHANGED <<callback, gate, terminal, reserved, taken, bytes, coreVars, late>>

\* An error of Initialize disables the plugin, later ones do at the limit.
Failed ==
  IF pc = "init" \/ errors + 1 >= ConsecutiveErrorLimit
  THEN Leave
  ELSE /\ errors' = errors + 1
       /\ pc' = "select"
       /\ awaited' = None
       /\ UNCHANGED <<active, closing>>

CallbackReturned ==
  /\ awaited # None
  /\ callback[awaited] \in Outcomes
  /\ CASE callback[awaited] = "ok" ->
            /\ errors' = 0
            /\ pc' = "select"
            /\ awaited' = None
            /\ UNCHANGED <<active, closing>>
       [] callback[awaited] = "error" -> Failed
       [] callback[awaited] = "panic" -> Leave
  /\ callback' = [callback EXCEPT ![awaited] = "none"]
  /\ UNCHANGED <<gate, terminalVars, coreVars, late>>

\* The callback is given up: its goroutine goes on, its outcome is for nobody.
GiveUp ==
  callback' = [callback EXCEPT ![awaited] = IF @ \in Outcomes THEN "none" ELSE @]

\* CallbackTimeout is over: no callback may follow one that still runs.
AfterTimeout == Leave

CallbackTimeout ==
  /\ awaited # None
  /\ AfterTimeout
  /\ GiveUp
  /\ UNCHANGED <<gate, terminalVars, coreVars, late>>

\* Host.Close has cancelled the context of the callback.
CallbackCancelled ==
  /\ awaited # None
  /\ closing
  /\ Failed
  /\ GiveUp
  /\ UNCHANGED <<gate, terminalVars, coreVars, late>>

RemoveAttentions == attention' = FALSE

\* The deferred calls: two commands of Core, each an event if it removes
\* something, then the subscription is closed.
CleanUp ==
  /\ \/ /\ pc = "labels"
        /\ pc' = "attentions"
        /\ label' = FALSE
        /\ IF label THEN Publish ELSE Silent
        /\ UNCHANGED attention
     \/ /\ pc = "attentions"
        /\ pc' = "unsubscribe"
        /\ RemoveAttentions
        /\ IF attention THEN Publish ELSE Silent
        /\ UNCHANGED label
     \/ /\ pc = "unsubscribe"
        /\ pc' = "done"
        /\ subscribed' = IF subscribed = "live" THEN "closed" ELSE subscribed
        /\ UNCHANGED <<pending, label, attention>>
  /\ UNCHANGED <<active, closing, awaited, errors, callback, gate, terminalVars, late>>
-----------------------------------------------------------------------------
(* The callbacks of the plugin and its writes                              *)

\* labelWriter has the gate and has found the plugin active; the command is
\* still to come.
UncheckedWriter == TRUE
ActiveWriter == active

EnterGate(c, write) ==
  /\ callback[c] = "running"
  /\ gate.holder = None
  /\ ActiveWriter
  /\ gate' = [holder |-> c, write |-> write]
  /\ UNCHANGED <<runVars, callback, terminalVars, coreVars, late>>

LeaveGate == gate' = [holder |-> None, write |-> None]

\* A label is set, an attention raised (Core says so unless nothing changed),
\* or a label removed.
Execute ==
  /\ gate.holder # None
  /\ LeaveGate
  /\ late' = IF active THEN late ELSE late + 1
  /\ label' = (gate.write = "set" \/ (gate.write # "remove" /\ label))
  /\ attention' = (gate.write = "raise" \/ attention)
  /\ \/ Publish
     \/ /\ \/ gate.write = "set" /\ label
           \/ gate.write = "raise" /\ attention
           \/ gate.write = "remove" /\ ~ label
        /\ Silent
  /\ UNCHANGED <<runVars, callback, terminalVars>>

\* The context of the callback may be over by now.
ExecuteRefused ==
  /\ gate.holder # None
  /\ LeaveGate
  /\ UNCHANGED <<runVars, callback, terminalVars, coreVars, late>>

Return(c, outcome) ==
  /\ callback[c] = "running"
  /\ gate.holder # c
  /\ callback' = [callback EXCEPT ![c] = IF c = awaited THEN outcome ELSE "none"]
  /\ UNCHANGED <<runVars, gate, terminalVars, coreVars, late>>
-----------------------------------------------------------------------------
(* PublishTerminalEvent, by one goroutine of the daemon                    *)

\* disable, and an error for run unless it has one already
DisableOnly == active' = FALSE /\ UNCHANGED <<closing, pc, awaited, errors, stop>>
Overflow ==
  /\ active' = FALSE
  /\ stop' = TRUE
  /\ UNCHANGED <<closing, pc, awaited, errors>>

WithinBudget(size) == bytes + size <= TerminalQueueBytes

Reserve(size) ==
  /\ active
  /\ reserved = 0
  /\ IF WithinBudget(size)
     THEN /\ bytes' = bytes + size
          /\ reserved' = size
          /\ UNCHANGED <<runVars, stop>>
     ELSE /\ Overflow
          /\ UNCHANGED <<bytes, reserved>>
  /\ UNCHANGED <<callback, gate, terminal, taken, coreVars, late>>

KeepReservation == bytes
Unreserved == bytes - reserved

Enqueue ==
  /\ reserved # 0
  /\ reserved' = 0
  /\ IF Len(terminal) < TerminalQueueCapacity
     THEN /\ terminal' = Append(terminal, reserved)
          /\ UNCHANGED <<runVars, bytes, stop>>
     ELSE /\ bytes' = Unreserved
          /\ Overflow
          /\ UNCHANGED terminal
  /\ UNCHANGED <<callback, gate, taken, coreVars, late>>
-----------------------------------------------------------------------------
(* Host.Close                                                              *)

Close ==
  /\ ~ closing
  /\ closing' = TRUE
  /\ UNCHANGED <<active, pc, awaited, errors, callback, gate, terminalVars, coreVars,
                 late>>

CloseSubscription ==
  /\ closing
  /\ subscribed = "live"
  /\ subscribed' = "closed"
  /\ UNCHANGED <<runVars, callback, gate, terminalVars, pending, label, attention,
                 late>>
-----------------------------------------------------------------------------
PluginInit ==
  /\ active = TRUE /\ closing = FALSE
  /\ pc = "init" /\ awaited = None /\ errors = 0
  /\ callback = [c \in Callbacks |-> "none"]
  /\ gate = [holder |-> None, write |-> None]
  /\ pending = 0 /\ subscribed = "live"
  /\ terminal = << >> /\ reserved = 0 /\ taken = 0 /\ bytes = 0 /\ stop = FALSE
  /\ label = FALSE /\ attention = FALSE
  /\ late = 0

\* The goroutine of run
Run ==
  \/ \E c \in Callbacks : Initialize(c) \/ HandleEvent(c) \/ HandleTerminalEvent(c)
  \/ ReceiveTerminalEvent
  \/ EventsEnded \/ Stopped
  \/ CallbackReturned \/ CallbackTimeout \/ CallbackCancelled
  \/ CleanUp

PluginNext ==
  \/ Run
  \/ \E c \in Callbacks :
       \/ \E write \in Writes : EnterGate(c, write)
       \/ \E outcome \in Outcomes : Return(c, outcome)
  \/ Execute \/ ExecuteRefused
  \/ \E size \in Sizes : Reserve(size)
  \/ Enqueue
  \/ CoreEvent
  \/ Close \/ CloseSubscription

PluginSpec == PluginInit /\ [][PluginNext]_vars

\* run goes on whenever it can, and chooses at random among the channels that
\* are ready, so that it does not ignore one of them for ever; a timer fires
\* and a cancelled context is noticed.  Nothing makes a callback return.
FairPluginSpec ==
  /\ PluginSpec
  /\ WF_vars(Run)
  /\ SF_vars(Stopped) /\ SF_vars(EventsEnded)
  /\ WF_vars(CloseSubscription)
  /\ WF_vars(Enqueue)
-----------------------------------------------------------------------------
(* terminalBytes is what is queued and what is on its way in or out: no    *)
(* path through PublishTerminalEvent and run leaks a part of the budget,   *)
(* which would disable a healthy observer in the end.                      *)
BudgetExact == bytes = Total(terminal) + reserved + taken

(* Until the host closes, callbacks are called one after another: one that *)
(* has timed out and still runs is the last (awaitCallback, run).          *)
OneCallbackAtATime ==
  ~ closing => Cardinality({c \in Callbacks : callback[c] # "none"}) <= 1

(* Once a plugin is disabled at most one write of it reaches Core, however *)
(* many callbacks are still running: the one that held labelGate           *)
(* (labelWriter). Without it both its labels and its attentions are gone.  *)
CleanedUp ==
  /\ late <= 1
  /\ pc = "done" /\ late = 0 => ~ label /\ ~ attention

(* A callback that was given up, but still runs, neither runs beside the   *)
(* next one nor brings back what the cleanup of its plugin has removed.    *)
GivenUpHarmless == OneCallbackAtATime /\ CleanedUp

(* A plugin that is disabled, from whatever goroutine, is cleaned up in    *)
(* the end, although its callbacks may never return; and so is every       *)
(* plugin of a host that closes.                                           *)
DisabledIsCleanedUp == (~ active \/ closing) ~> (pc = "done")
=============================================================================
