----------------------------- MODULE Connection -----------------------------
(* The connections of the frontends: the commands that arrive on one, its
   subscription to Core, the plugin calls and the editors started through it, and
   the requests that the daemon sends back (internal/protocol, daemon/plugin.go
   and internal/client).  A plugin call leaves the ordered handler of its
   connection and keeps commandGate until it returns; a plugin command may ask
   the frontend for a dialogue, or make it navigate, while the call lasts.

   Frames in one direction are delivered in order, and streammux runs one handler
   of a connection at a time (protocol.go:669).  A context that has ended makes a
   step of Core either fail or still succeed, as Core.submit does.  The plugin is
   the environment: ExternalPlugins and RpcPeer model it. *)
EXTENDS Naturals, Sequences

CONSTANTS
    Clients,      \* one connection each; its subscription bears its name
    Requests,     \* what the clients ask for, each at most once
    OwnerOf,      \* the client of a request
    Operations,   \* the combinations of operations that the clients choose from
    EditorOf,     \* the "open" whose editor a "finish" or a "drop" names
    Nobody

OperationKinds == {"none", "command", "terminal", "stop", "open", "finish", "drop", "interact",
                   "navigate"}

ASSUME ConnectionAssumption ==
    /\ Operations \subseteq [Requests -> OperationKinds]
    /\ OwnerOf \in [Requests -> Clients]
    /\ EditorOf \in [Requests -> Requests]
    /\ Nobody \notin Clients

VARIABLES
    operation,    \* the operation of a request, chosen from the start
    stage,        \* how far it has got
    gaveUp,       \* calls whose caller has ended their context
    cancelled,    \* calls that a "cancel" has reached
    up,           \* connections that are open
    inbox,        \* frames for the daemon that no handler has seen
    down,         \* frames for the client
    seen,         \* revision of the client's projection, 0 before its first one
    revision,     \* of Core
    events,       \* of a subscription, not forwarded yet
    subscribed,   \* subscriptions that Core knows
    sync,         \* where the handler of "sync" is, and the snapshot it returns
    stored,       \* connections whose Protocol.subscription is set
    forwarding,   \* those with forwardEvents running
    links,        \* server.pluginFrontends
    closing,      \* where Protocol.Close is
    dropping,     \* editors that Detach has collected
    editor,       \* of an "open": its pluginEditors entry, file, pane and session
    contexts,     \* invocations of the plugin manager
    ask,          \* the host operation of a running plugin command
    screen,       \* what the client makes of it
    stopping, stopped

connectionVars == <<up, inbox, down, seen>>
coreVars == <<revision, events, subscribed>>
syncVars == <<sync, stored, forwarding>>
closeVars == <<links, closing, dropping>>
callVars == <<contexts, ask, screen>>
stopVars == <<stopping, stopped>>
clientVars == <<operation, stage, gaveUp, cancelled, connectionVars, coreVars, syncVars, closeVars,
                editor, callVars, stopVars>>

NoAsk == [at |-> "none", kind |-> "none", to |-> Nobody, minimum |-> 0]
NoEditor == [entry |-> "none", file |-> FALSE, pane |-> "none"]
NoSync == [at |-> "idle", snapshot |-> 0]

\* Some connections are open.  A frontend is started with a client that is
\* synchronized (cui calls Sync, then Run); the others are about to be.
ConnectionInit ==
    /\ operation \in Operations
    /\ stage = [r \in Requests |-> "unsent"] /\ gaveUp = {} /\ cancelled = {}
    /\ up \in SUBSET Clients /\ inbox = [c \in Clients |-> <<>>] /\ down = [c \in Clients |-> <<>>]
    /\ revision = 1 /\ events = [c \in Clients |-> <<>>]
    /\ stored \in SUBSET up
    /\ subscribed = stored /\ forwarding = stored /\ links = stored
    /\ seen = [c \in Clients |-> IF c \in stored THEN 1 ELSE 0]
    /\ sync = [c \in Clients |-> NoSync]
    /\ closing = [c \in Clients |-> IF c \in up THEN "no" ELSE "closed"] /\ dropping = [c \in Clients |-> {}]
    /\ editor = [r \in Requests |-> NoEditor]
    /\ contexts = {} /\ ask = [r \in Requests |-> NoAsk] /\ screen = [r \in Requests |-> "none"]
    /\ stopping = FALSE /\ stopped = FALSE

----------------------------------------------------------------------------
(* The gate.  A reader that comes while daemon_stop waits for the gate waits
   behind it; one that comes after daemon_stop began is refused. *)

CallStages == {"called", "filed", "started", "unwanted", "checked", "claimed", "admitted",
               "captured"}
Holding == {r \in Requests : stage[r] \in CallStages}
           \cup {c \in Clients : sync[c].at \in {"subscribed", "stored"}}
Waiting == \E r \in Requests : stage[r] = "flushing" /\ ~stopped

\* callCtx, which ends with the connection's context or by a "cancel"
Ended(r) == r \in cancelled \/ closing[OwnerOf[r]] # "no"

\* "run", named for what the plugin will ask for, if anything
Runs == {"interact", "navigate"}

Frame(kind, r) == [kind |-> kind, request |-> r, revision |-> 0]
Projected(kind, n) == [kind |-> kind, request |-> Nobody, revision |-> n]
ToClient(c, f) == down' = IF c \in up THEN [down EXCEPT ![c] = Append(@, f)] ELSE down

\* The handler of connection c is free and takes a frame of this kind.
Take(c, kind, r) ==
    /\ c \in up /\ inbox[c] # <<>> /\ Head(inbox[c]) = Frame(kind, r)
    /\ sync[c].at = "idle" /\ ~\E s \in Requests : OwnerOf[s] = c /\ stage[s] = "flushing"
    /\ ~Waiting
    /\ inbox' = [inbox EXCEPT ![c] = Tail(@)]

\* A command of Core: its event goes to every subscription.
Mutate ==
    /\ revision' = revision + 1
    /\ events' = [c \in Clients |-> IF c \in subscribed THEN Append(events[c], revision + 1)
                                    ELSE events[c]]

----------------------------------------------------------------------------
(* The client library and its user. *)

\* The operations of a client wait for Sync.  Those on an editor follow the
\* answer of the "open".
Send(r) ==
    LET c == OwnerOf[r] IN
    /\ stage[r] = "unsent" /\ operation[r] # "none" /\ c \in up /\ seen[c] # 0
    /\ operation[r] \in {"finish", "drop"} => stage[EditorOf[r]] = "over"
    /\ stage' = [stage EXCEPT ![r] = "sent"]
    /\ inbox' = [inbox EXCEPT ![c] = Append(@, Frame("request", r))]
    /\ UNCHANGED <<operation, gaveUp, cancelled, up, down, seen, coreVars, syncVars, closeVars, editor,
                   callVars, stopVars>>

SendSync(c) ==
    /\ c \in up /\ seen[c] = 0 /\ sync[c] = NoSync /\ inbox[c] = <<>> /\ down[c] = <<>>
    /\ c \notin stored
    /\ inbox' = [inbox EXCEPT ![c] = Append(@, Frame("sync", Nobody))]
    /\ UNCHANGED <<operation, stage, gaveUp, cancelled, up, down, seen, coreVars, syncVars, closeVars,
                   editor, callVars, stopVars>>

\* Client.Plugin: the caller's context has ended, and a "cancel" with the same
\* identifier follows the request.
GiveUp(r) ==
    LET c == OwnerOf[r] IN
    /\ operation[r] \in {"open"} \cup Runs /\ stage[r] \notin {"unsent", "over"}
    /\ c \in up /\ r \notin gaveUp
    /\ gaveUp' = gaveUp \cup {r}
    /\ inbox' = [inbox EXCEPT ![c] = Append(@, Frame("cancel", r))]
    /\ UNCHANGED <<operation, stage, cancelled, up, down, seen, coreVars, syncVars, closeVars,
                   editor, callVars, stopVars>>

\* The frontend ends, or the transport fails: what is on its way is lost, and
\* so are its dialogues and pending requests.
Disconnect(c) ==
    /\ c \in up
    /\ up' = up \ {c}
    /\ inbox' = [inbox EXCEPT ![c] = <<>>] /\ down' = [down EXCEPT ![c] = <<>>]
    /\ screen' = [r \in Requests |-> IF ask[r].to = c /\ screen[r] # "none" THEN "over" ELSE screen[r]]
    /\ stage' = [r \in Requests |-> IF OwnerOf[r] = c /\ stage[r] \in {"unsent", "sent"}
                                    THEN "over" ELSE stage[r]]
    /\ UNCHANGED <<operation, gaveUp, cancelled, seen, coreVars, syncVars, closeVars, editor, contexts,
                   ask, stopVars>>

\* The handlers of the client's stream, each merged with what the event loop does
\* first: an event is applied to the projection;
Arrives(c, kinds) == c \in up /\ down[c] # <<>> /\ Head(down[c]).kind \in kinds
Consume(c) == down' = [down EXCEPT ![c] = Tail(@)]
frontendRest == <<operation, stage, gaveUp, cancelled, up, inbox, coreVars, syncVars, closeVars,
                  editor, contexts, ask, stopVars>>

ReceiveProjection(c) ==
    /\ Arrives(c, {"snapshot", "event"}) /\ Consume(c)
    /\ seen' = [seen EXCEPT ![c] = Head(down[c]).revision]
    /\ UNCHANGED <<screen, frontendRest>>

\* a dialogue is shown, or refused while another one is open;
ReceiveDialogue(c) ==
    /\ Arrives(c, {"interact"}) /\ Consume(c)
    /\ LET busy == \E q \in Requests : ask[q].to = c /\ screen[q] = "shown"
       IN screen' = [screen EXCEPT ![Head(down[c]).request] = IF busy THEN "refused" ELSE "shown"]
    /\ UNCHANGED <<seen, frontendRest>>

\* one that is withdrawn is closed;
ReceiveWithdrawal(c) ==
    /\ Arrives(c, {"withdraw"}) /\ Consume(c)
    /\ LET r == Head(down[c]).request
       IN screen' = [screen EXCEPT ![r] = IF @ = "shown" THEN "over" ELSE @]
    /\ UNCHANGED <<seen, frontendRest>>

\* and a navigation waits for its revision.
ReceiveNavigation(c) ==
    /\ Arrives(c, {"navigate"}) /\ Consume(c)
    /\ screen' = [screen EXCEPT ![Head(down[c]).request] = "waiting"]
    /\ UNCHANGED <<seen, frontendRest>>

\* The response of the client reaches peer.Call if it still waits.
Reply(r) == ask' = IF ask[r].at = "sent" THEN [ask EXCEPT ![r].at = "replied"] ELSE ask

\* The user answers a dialogue; a refused one is answered at once.
Respond(r) ==
    /\ screen[r] \in {"shown", "refused"}
    /\ screen' = [screen EXCEPT ![r] = "over"] /\ Reply(r)
    /\ UNCHANGED <<operation, stage, gaveUp, cancelled, connectionVars, coreVars, syncVars,
                   closeVars, editor, contexts, stopVars>>

\* processFrontendControls: the event loop sends set_focus and waits for it;
Navigate(r) ==
    LET c == ask[r].to IN
    /\ screen[r] = "waiting" /\ seen[c] >= ask[r].minimum
    /\ ~\E q \in Requests : ask[q].to = c /\ screen[q] \in {"focusing", "focused"}
    /\ screen' = [screen EXCEPT ![r] = "focusing"]
    /\ inbox' = [inbox EXCEPT ![c] = Append(@, Frame("focus", r))]
    /\ UNCHANGED <<operation, stage, gaveUp, cancelled, up, down, seen, coreVars, syncVars,
                   closeVars, editor, contexts, ask, stopVars>>

\* until it is answered or commandTimeout is over.
Navigated(r) ==
    /\ screen[r] \in {"focusing", "focused"}
    /\ screen' = [screen EXCEPT ![r] = "over"] /\ Reply(r)
    /\ UNCHANGED <<operation, stage, gaveUp, cancelled, connectionVars, coreVars, syncVars,
                   closeVars, editor, contexts, stopVars>>

----------------------------------------------------------------------------
(* The handlers of the daemon. *)

\* Every command of Core has an operation; the operations of terminals may change
\* Core or not.  Both run under the gate, and are refused without a subscription.
CoreOperations == {"command"}
TerminalOperations == {"terminal", "stop"}

HandleCommand(r) ==
    /\ operation[r] \in CoreOperations /\ Take(OwnerOf[r], "request", r)
    /\ stage' = [stage EXCEPT ![r] = "over"]
    /\ IF stopping \/ OwnerOf[r] \notin stored THEN UNCHANGED <<revision, events>> ELSE Mutate
    /\ UNCHANGED <<operation, gaveUp, cancelled, up, down, seen, subscribed, syncVars, closeVars,
                   editor, callVars, stopVars>>

HandleTerminal(r) ==
    /\ operation[r] \in TerminalOperations /\ operation[r] # "stop"
    /\ Take(OwnerOf[r], "request", r)
    /\ stage' = [stage EXCEPT ![r] = "over"]
    /\ \/ ~stopping /\ OwnerOf[r] \in stored /\ Mutate
       \/ UNCHANGED <<revision, events>>
    /\ UNCHANGED <<operation, gaveUp, cancelled, up, down, seen, subscribed, syncVars, closeVars,
                   editor, callVars, stopVars>>

\* The set_focus of a frontend that navigates.
HandleFocus(r) ==
    /\ Take(ask[r].to, "focus", r)
    /\ IF stopping THEN UNCHANGED <<revision, events>> ELSE Mutate
    /\ screen' = IF screen[r] = "focusing" THEN [screen EXCEPT ![r] = "focused"] ELSE screen
    /\ UNCHANGED <<operation, stage, gaveUp, cancelled, up, down, seen, subscribed, syncVars,
                   closeVars, editor, contexts, ask, stopVars>>

\* The cancellation of a plugin call is a command like the others.
HandleCancel(r) ==
    /\ Take(OwnerOf[r], "cancel", r)
    /\ cancelled' = IF stopping \/ stage[r] \notin CallStages THEN cancelled ELSE cancelled \cup {r}
    /\ UNCHANGED <<operation, stage, gaveUp, up, down, seen, coreVars, syncVars, closeVars,
                   editor, callVars, stopVars>>

\* DaemonStop answers, and AfterResponse takes the gate for writing.
HandleStop(r) ==
    /\ operation[r] = "stop" /\ Take(OwnerOf[r], "request", r)
    /\ IF stopping \/ OwnerOf[r] \notin stored
       THEN stage' = [stage EXCEPT ![r] = "over"] /\ UNCHANGED stopping
       ELSE stage' = [stage EXCEPT ![r] = "flushing"] /\ stopping' = TRUE
    /\ UNCHANGED <<operation, gaveUp, cancelled, up, down, seen, coreVars, syncVars, closeVars,
                   editor, callVars, stopped>>

Flush(r) ==
    /\ stage[r] = "flushing" /\ Holding = {}
    /\ stopped' = TRUE /\ stage' = [stage EXCEPT ![r] = "over"]
    /\ UNCHANGED <<operation, gaveUp, cancelled, connectionVars, coreVars, syncVars, closeVars,
                   editor, callVars, stopping>>

\* A plugin operation leaves the handler for a goroutine, which keeps the gate.
HandlePlugin(r) ==
    /\ operation[r] \in {"open", "finish", "drop"} \cup Runs /\ Take(OwnerOf[r], "request", r)
    /\ stage' = [stage EXCEPT ![r] = IF stopping \/ OwnerOf[r] \notin stored THEN "over" ELSE "called"]
    /\ UNCHANGED <<operation, gaveUp, cancelled, up, down, seen, coreVars, syncVars, closeVars,
                   editor, callVars, stopVars>>

----------------------------------------------------------------------------
(* "sync": synchronize under the gate, then the response, then forwardEvents. *)

Subscribe(c) ==
    /\ IF c \in stored \/ stopping \/ closing[c] # "no"
       THEN Take(c, "sync", Nobody) /\ UNCHANGED <<sync, subscribed>>
       ELSE /\ Take(c, "sync", Nobody)
            /\ sync' = [sync EXCEPT ![c] = [at |-> "subscribed", snapshot |-> revision]]
            /\ subscribed' = subscribed \cup {c}
    /\ UNCHANGED <<operation, stage, gaveUp, cancelled, up, down, seen, revision, events, stored,
                   forwarding, closeVars, editor, callVars, stopVars>>

Store(c) ==
    /\ sync[c].at = "subscribed"
    /\ sync' = [sync EXCEPT ![c].at = "stored"] /\ stored' = stored \cup {c}
    /\ UNCHANGED <<operation, stage, gaveUp, cancelled, connectionVars, coreVars, forwarding,
                   closeVars, editor, callVars, stopVars>>

AttachForwarding(c) ==
    /\ sync[c].at = "stored" /\ forwarding' = forwarding \cup {c}
    /\ sync' = [sync EXCEPT ![c].at = "attached"] /\ links' = links \cup {c}
    /\ UNCHANGED <<operation, stage, gaveUp, cancelled, connectionVars, coreVars, stored,
                   closing, dropping, editor, callVars, stopVars>>

\* Attach makes the link; the gate is released before the response.
Attach(c) ==
    /\ sync[c].at = "stored"
    /\ sync' = [sync EXCEPT ![c].at = "attached"] /\ links' = links \cup {c}
    /\ UNCHANGED <<operation, stage, gaveUp, cancelled, connectionVars, coreVars, stored,
                   forwarding, closing, dropping, editor, callVars, stopVars>>

AnswerSync(c) ==
    /\ sync[c].at = "attached"
    /\ sync' = [sync EXCEPT ![c].at = "idle"]
    /\ IF c \in up
       THEN /\ forwarding' = forwarding \cup {c} /\ UNCHANGED subscribed
            /\ ToClient(c, Projected("snapshot", sync[c].snapshot))
       ELSE subscribed' = subscribed \ {c} /\ UNCHANGED <<forwarding, down>>
    /\ UNCHANGED <<operation, stage, gaveUp, cancelled, up, inbox, seen, revision, events, stored,
                   closeVars, editor, callVars, stopVars>>

ForwardEvent(c) ==
    /\ c \in forwarding \cap up /\ closing[c] = "no" /\ events[c] # <<>>
    /\ events' = [events EXCEPT ![c] = Tail(@)]
    /\ ToClient(c, Projected("event", Head(events[c])))
    /\ UNCHANGED <<operation, stage, gaveUp, cancelled, up, inbox, seen, revision, subscribed,
                   syncVars, closeVars, editor, callVars, stopVars>>

----------------------------------------------------------------------------
(* Protocol.Close: the context ends, the subscription is taken and closed, and
   Detach cleans up what the plugins have for the frontend. *)

CancelConnection(c) ==
    /\ c \notin up /\ closing[c] = "no"
    /\ closing' = [closing EXCEPT ![c] = "cancelled"]
    /\ UNCHANGED <<operation, stage, gaveUp, cancelled, connectionVars, coreVars, syncVars, links,
                   dropping, editor, callVars, stopVars>>

\* Core.Subscribe ends a subscription with its context.
EndSubscription(c) ==
    /\ closing[c] # "no" /\ c \in subscribed
    /\ subscribed' = subscribed \ {c}
    /\ UNCHANGED <<operation, stage, gaveUp, cancelled, connectionVars, revision, events, syncVars,
                   closeVars, editor, callVars, stopVars>>

TakeSubscription(c) ==
    /\ closing[c] = "cancelled"
    /\ closing' = [closing EXCEPT ![c] = IF c \in stored THEN "taken" ELSE "closed"]
    /\ stored' = stored \ {c}
    /\ UNCHANGED <<operation, stage, gaveUp, cancelled, connectionVars, coreVars, sync, forwarding,
                   links, dropping, editor, callVars, stopVars>>

\* The subscription is closed, and Manager.Detach ends the invocations.
DetachInvocations(c) ==
    /\ closing[c] = "taken"
    /\ closing' = [closing EXCEPT ![c] = "detached"] /\ subscribed' = subscribed \ {c}
    /\ contexts' = {r \in contexts : OwnerOf[r] # c}
    /\ UNCHANGED <<operation, stage, gaveUp, cancelled, connectionVars, revision, events, syncVars,
                   links, dropping, editor, ask, screen, stopVars>>

Owned(c) == {r \in Requests : OwnerOf[r] = c /\ editor[r].entry = "kept"}

DetachLink(c) ==
    /\ closing[c] = "detached"
    /\ closing' = [closing EXCEPT ![c] = "unlinked"]
    /\ links' = links \ {c} /\ dropping' = [dropping EXCEPT ![c] = Owned(c)]
    /\ UNCHANGED <<operation, stage, gaveUp, cancelled, connectionVars, coreVars, syncVars, editor,
                   callVars, stopVars>>

\* What managePluginEditor does with an entry that it has removed.
CleanEditor(e) == editor' = [editor EXCEPT ![e] = [entry |-> "over", file |-> FALSE, pane |-> "gone"]]

\* The editors are cancelled one by one; another call may have claimed one.
DropEditor(c) ==
    /\ closing[c] = "unlinked" /\ dropping[c] # {}
    /\ \E e \in dropping[c] :
         \/ /\ editor[e].entry = "kept"
            /\ editor' = [editor EXCEPT ![e].entry = "dropped"] /\ UNCHANGED dropping
         \/ /\ editor[e].entry = "dropped"
            /\ CleanEditor(e) /\ dropping' = [dropping EXCEPT ![c] = @ \ {e}]
         \/ /\ editor[e].entry \in {"claimed", "over"}
            /\ dropping' = [dropping EXCEPT ![c] = @ \ {e}] /\ UNCHANGED editor
    /\ UNCHANGED <<operation, stage, gaveUp, cancelled, connectionVars, coreVars, syncVars, links,
                   closing, callVars, stopVars>>

Closed(c) == closing[c] = "closed" \/ (closing[c] = "unlinked" /\ dropping[c] = {})

----------------------------------------------------------------------------
(* managePluginEditor.  The events of its commands are left out. *)

callRest == <<operation, gaveUp, cancelled, connectionVars, coreVars, syncVars, closeVars, stopVars>>
To(r, next) == stage' = [stage EXCEPT ![r] = next]

FileEditor(r) ==
    /\ operation[r] = "open" /\ stage[r] = "called"
    /\ IF Ended(r) \/ OwnerOf[r] \notin subscribed
       THEN To(r, "over") /\ UNCHANGED editor
       ELSE To(r, "filed") /\ editor' = [editor EXCEPT ![r].file = TRUE]
    /\ UNCHANGED <<callVars, callRest>>

\* Under terminalMu: the transient pane and its process, or neither.
StartEditor(r) ==
    /\ stage[r] = "filed"
    /\ \/ To(r, "started") /\ editor' = [editor EXCEPT ![r].pane = "running"]
       \/ To(r, "over") /\ editor' = [editor EXCEPT ![r] = NoEditor]
    /\ UNCHANGED <<callVars, callRest>>

KeepUnchecked(r) ==
    /\ stage[r] = "started"
    /\ To(r, "over") /\ editor' = [editor EXCEPT ![r].entry = "kept"]
    /\ UNCHANGED <<callVars, callRest>>

\* Under server.mu, as DetachLink: the frontend may be gone by now.
KeepEditor(r) ==
    /\ stage[r] = "started"
    /\ IF Ended(r) \/ OwnerOf[r] \notin links
       THEN To(r, "unwanted") /\ UNCHANGED editor
       ELSE To(r, "over") /\ editor' = [editor EXCEPT ![r].entry = "kept"]
    /\ UNCHANGED <<callVars, callRest>>

DiscardEditor(r) ==
    /\ stage[r] = "unwanted"
    /\ To(r, "over") /\ CleanEditor(r)
    /\ UNCHANGED <<callVars, callRest>>

\* The process ends, and any frontend may delete its pane then.
EditorEnds(e) ==
    /\ editor[e].pane \in {"running", "exited"}
    /\ editor' = [editor EXCEPT ![e].pane = IF @ = "running" THEN "exited" ELSE "gone"]
    /\ UNCHANGED <<stage, callVars, callRest>>

Mine(r) == editor[EditorOf[r]].entry = "kept" /\ OwnerOf[EditorOf[r]] = OwnerOf[r]

CheckEditor(r) ==
    /\ operation[r] = "finish" /\ stage[r] = "called"
    /\ To(r, IF ~Ended(r) /\ Mine(r) /\ editor[EditorOf[r]].pane = "exited" THEN "checked" ELSE "over")
    /\ UNCHANGED <<editor, callVars, callRest>>

ClaimEditor(r) ==
    /\ stage[r] = "checked" \/ (operation[r] = "drop" /\ stage[r] = "called")
    /\ IF Mine(r)
       THEN To(r, "claimed") /\ editor' = [editor EXCEPT ![EditorOf[r]].entry = "claimed"]
       ELSE To(r, "over") /\ UNCHANGED editor
    /\ UNCHANGED <<callVars, callRest>>

FinishEditor(r) ==
    /\ stage[r] = "claimed"
    /\ To(r, "over") /\ CleanEditor(EditorOf[r])
    /\ UNCHANGED <<callVars, callRest>>

----------------------------------------------------------------------------
(* runCommand, and PluginOperation for the plugin's requests to a frontend. *)

Running(c) == {r \in Requests : OwnerOf[r] = c /\ stage[r] \in {"admitted", "captured"}}

AdmitRun(r) ==
    /\ operation[r] \in Runs /\ stage[r] = "called"
    /\ To(r, IF Ended(r) \/ Running(OwnerOf[r]) # {} \/ OwnerOf[r] \notin subscribed
             THEN "over" ELSE "admitted")
    /\ UNCHANGED <<editor, callVars, callRest>>

\* captureInvocation does not look at the frontend again under its mutex.
CaptureRun(r) ==
    /\ stage[r] = "admitted"
    /\ \/ To(r, "captured") /\ contexts' = contexts \cup {r}
       \/ To(r, "over") /\ UNCHANGED contexts
    /\ UNCHANGED <<editor, ask, screen, callRest>>

AskFrontend(r) ==
    /\ stage[r] = "captured" /\ ask[r] = NoAsk /\ r \in contexts
    /\ \/ /\ operation[r] = "interact" /\ OwnerOf[r] \in links
          /\ ask' = [ask EXCEPT ![r] = [at |-> "linked", kind |-> "interact", to |-> OwnerOf[r],
                                        minimum |-> 0]]
       \/ \E c \in links \cap subscribed :
            /\ operation[r] = "navigate"
            /\ ask' = [ask EXCEPT ![r] = [at |-> "linked", kind |-> "navigate", to |-> c,
                                          minimum |-> revision]]
    /\ UNCHANGED <<stage, editor, contexts, screen, callRest>>

\* One navigation at a time on a link; a context that ended sends nothing.
SendAsk(r) ==
    LET c == ask[r].to IN
    /\ ask[r].at = "linked"
    /\ ask[r].kind = "navigate" =>
        ~\E q \in Requests : ask[q].to = c /\ ask[q].kind = "navigate" /\ ask[q].at = "sent"
    /\ IF r \in contexts /\ c \in links \cap up
       THEN ask' = [ask EXCEPT ![r].at = "sent"] /\ ToClient(c, Frame(ask[r].kind, r))
       ELSE ask' = [ask EXCEPT ![r].at = "done"] /\ UNCHANGED down
    /\ UNCHANGED <<operation, stage, gaveUp, cancelled, up, inbox, seen, coreVars, syncVars,
                   closeVars, editor, contexts, screen, stopVars>>

WithdrawSilently(r) ==
    /\ ask[r].at = "sent" /\ ask' = [ask EXCEPT ![r].at = "done"]
    /\ UNCHANGED <<stage, editor, contexts, screen, callRest>>

WithdrawEnded(r) ==
    /\ ask[r].at = "sent" /\ r \notin contexts
    /\ ask' = [ask EXCEPT ![r].at = "done"] /\ ToClient(ask[r].to, Frame("withdraw", r))
    /\ UNCHANGED <<operation, stage, gaveUp, cancelled, up, inbox, seen, coreVars, syncVars,
                   closeVars, editor, contexts, screen, stopVars>>

\* Call ends without a response: with its context, the link, the connection, or
\* the deadline of a host operation (interaction_ms, api_ms).
Withdraw(r) ==
    /\ ask[r].at = "sent"
    /\ ask' = [ask EXCEPT ![r].at = "done"]
    /\ IF ask[r].kind = "interact" THEN ToClient(ask[r].to, Frame("withdraw", r)) ELSE UNCHANGED down
    /\ UNCHANGED <<operation, stage, gaveUp, cancelled, up, inbox, seen, coreVars, syncVars,
                   closeVars, editor, contexts, screen, stopVars>>

CompleteAsk(r) ==
    /\ ask[r].at = "replied" /\ ask' = [ask EXCEPT ![r].at = "done"]
    /\ UNCHANGED <<stage, editor, contexts, screen, callRest>>

\* The time of a dialogue does not count for the deadline of the command.
Interacting(r) == ask[r].kind = "interact" /\ ask[r].at # "done"

ReturnRun(r) ==
    /\ stage[r] = "captured"
    /\ To(r, "over") /\ contexts' = contexts \ {r}
    /\ UNCHANGED <<editor, ask, screen, callRest>>

ExpireRun(r) == (Ended(r) \/ ~Interacting(r)) /\ ReturnRun(r)

----------------------------------------------------------------------------

\* What the daemon does for a request once its handler has it, and for the
\* question of its plugin.
CallStep(r) ==
    \/ HandleCommand(r) \/ HandleTerminal(r) \/ HandleStop(r) \/ HandlePlugin(r) \/ Flush(r)
    \/ FileEditor(r) \/ StartEditor(r) \/ KeepEditor(r) \/ DiscardEditor(r)
    \/ CheckEditor(r) \/ ClaimEditor(r) \/ FinishEditor(r)
    \/ AdmitRun(r) \/ CaptureRun(r) \/ ExpireRun(r)

AskStep(r) == SendAsk(r) \/ Withdraw(r) \/ CompleteAsk(r)
HandleNested(r) == HandleCancel(r) \/ HandleFocus(r)
SyncStep(c) == Subscribe(c) \/ Store(c) \/ Attach(c) \/ AnswerSync(c)
CloseStep(c) ==
    \/ CancelConnection(c) \/ EndSubscription(c) \/ TakeSubscription(c)
    \/ DetachInvocations(c) \/ DetachLink(c) \/ DropEditor(c)
ClientStep(c) ==
    \/ ReceiveProjection(c) \/ ReceiveDialogue(c) \/ ReceiveWithdrawal(c)
    \/ ReceiveNavigation(c) \/ ForwardEvent(c)
NavigateStep(r) == Navigate(r) \/ Navigated(r)

\* Goroutines, handlers and timers.
InternalStep ==
    \/ \E r \in Requests : CallStep(r) \/ AskStep(r) \/ HandleNested(r) \/ NavigateStep(r)
    \/ \E c \in Clients : SyncStep(c) \/ CloseStep(c) \/ ClientStep(c)

\* Users, plugins and editors.
OutsideStep ==
    \/ \E r \in Requests :
        Send(r) \/ GiveUp(r) \/ Respond(r) \/ EditorEnds(r) \/ AskFrontend(r) \/ ReturnRun(r)
    \/ \E c \in Clients : SendSync(c) \/ Disconnect(c)

ConnectionNext == InternalStep \/ OutsideStep

\* The system does not rest while one of its own steps is possible.  No step can be
\* repeated for ever, so that this weak assumption lets every one be taken.
ConnectionFairness == WF_clientVars(InternalStep)

ConnectionSpec == ConnectionInit /\ [][ConnectionNext]_clientVars /\ ConnectionFairness

----------------------------------------------------------------------------

Frames ==
    [kind : {"request", "sync", "cancel", "focus", "snapshot", "event", "interact", "navigate",
             "withdraw"},
     request : Requests \cup {Nobody}, revision : Nat]

ConnectionTypeOK ==
    /\ operation \in [Requests -> OperationKinds]
    /\ stage \in [Requests -> CallStages \cup {"unsent", "sent", "flushing", "over"}]
    /\ gaveUp \subseteq Requests /\ cancelled \subseteq Requests /\ contexts \subseteq Requests
    /\ up \subseteq Clients /\ subscribed \subseteq Clients
    /\ stored \subseteq Clients /\ forwarding \subseteq Clients /\ links \subseteq Clients
    /\ inbox \in [Clients -> Seq(Frames)] /\ down \in [Clients -> Seq(Frames)]
    /\ seen \in [Clients -> Nat] /\ revision \in Nat /\ events \in [Clients -> Seq(Nat)]
    /\ sync \in [Clients -> [at : {"idle", "subscribed", "stored", "attached"}, snapshot : Nat]]
    /\ closing \in [Clients ->
                      {"no", "cancelled", "taken", "detached", "unlinked", "closed"}]
    /\ dropping \in [Clients -> SUBSET Requests]
    /\ editor \in [Requests -> [entry : {"none", "kept", "dropped", "claimed", "over"},
                                file : BOOLEAN, pane : {"none", "running", "exited", "gone"}]]
    /\ ask \in [Requests -> [at : {"none", "linked", "sent", "replied", "done"},
                             kind : {"none", "interact", "navigate"},
                             to : Clients \cup {Nobody}, minimum : Nat]]
    /\ screen \in [Requests -> {"none", "shown", "refused", "waiting", "focusing", "focused",
                                "over"}]
    /\ stopping \in BOOLEAN /\ stopped \in BOOLEAN

\* Where the frames are that change the projection
Projecting(q) == {i \in DOMAIN q : q[i].kind \in {"snapshot", "event"}}

\* From revision n on, or from any if there is none yet, they take one step each.
StepByStep(q, n) ==
    \A i \in Projecting(q) :
        LET before == {j \in Projecting(q) : j < i} IN
        /\ before = {} /\ n # 0 => q[i].revision = n + 1
        /\ \A k \in before : (\A j \in before : j <= k) => q[i].revision = q[k].revision + 1

(* The frames of a connection let its projection take one step after another: the
   snapshot of "sync" comes before the events, and none is lost, repeated or
   overtaken; when nothing is on its way the client has Core's state
   (handleCommand, protocol.go:603-618, and forwardEvents). *)
ProjectionInStep ==
    \A c \in Clients :
        /\ StepByStep(down[c], seen[c])
        /\ c \in up \cap forwarding /\ Projecting(down[c]) = {} /\ events[c] = <<>> =>
            seen[c] = revision

(* When a connection is closed and its calls have returned, its frontend has left
   no editor behind: no entry, no file, no pane and no process; and the plugins
   have no invocation of it.  An "open" that the disconnection overtakes cleans up
   itself, whatever the order (plugin.go:74-92 and 386-405). *)
NothingLeftBehind ==
    \A c \in Clients :
        Closed(c) /\ (\A r \in Requests : OwnerOf[r] = c => stage[r] = "over")
        => /\ \A r \in Requests : OwnerOf[r] = c => editor[r].entry \notin {"kept", "dropped"}
           /\ \A r \in Requests : OwnerOf[r] = c =>
                ~editor[r].file /\ editor[r].pane \in {"none", "gone"}
           /\ \A r \in contexts : OwnerOf[r] # c

(* daemon_stop gets the gate although plugin commands may hold it, wait for a
   frontend whose own command waits behind it, or for a user who never answers:
   deadlines break the circle (terminal.go:413-423 and server.go:464-474). *)
StopCompletes == \A r \in Requests : stage[r] = "flushing" ~> stopped

(* A dialogue is closed when the command that asked for it is over, and no user has
   to answer it (plugin.go:302-312 and client/plugin.go:75-93). *)
DialoguesEnd == \A r \in Requests : screen[r] = "shown" /\ stage[r] = "over" ~> screen[r] # "shown"
=============================================================================
