------------------------------ MODULE RpcPeer ------------------------------
(* The JSON-RPC peer through which the daemon and one plugin process talk
   (internal/plugin/external/rpc.go), and the way a session uses it for its calls
   (runtime.go:258).  The host's calls run in goroutines of their own; read,
   write and handle are the three goroutines of the peer.  A message on its way
   from the plugin is one the plugin has not sent yet: nothing the plugin does
   depends on whether the host has read it.  The messages of the host have one
   size, those of the plugin each have their own. *)
EXTENDS Naturals, Sequences, FiniteSets

CONSTANTS
    Calls,              \* calls of the host; a call is named by its identifier
    Requests,           \* messages of the plugin; one is named by its identifier
    Dialogs,            \* those that call frontend.interact
    Notes,              \* notifications: no identifier, and no response
    Size, LargestMessage,  \* what a message of the plugin is charged with
    ControlQueue,       \* capacity of both queues and bound on unfinished messages
    ControlBytes,       \* bound on the bytes of either direction,
    ControlMessages,    \* which holds that many messages of the host
    CanceledLimit,      \* remembered cancellations
    HandlerErrorLimit,  \* consecutive error responses that stop a session
    Window, WindowBytes,  \* messages, and their sizes, that a polite plugin has open
    None

\* A byte of a message is named by the message and its place.
BytesOf(messages) ==
    Cardinality({byte \in messages \X (1 .. LargestMessage) : byte[2] <= Size[byte[1]]})

\* Beside what a polite plugin has open the host may hold its dialogues and one
\* message that it has handled and not released yet.
ASSUME RpcAssumption ==
    /\ Dialogs \subseteq Requests /\ Notes \subseteq Requests
    /\ IsFiniteSet(Dialogs) /\ Window \in Nat /\ WindowBytes \in Nat
    /\ LargestMessage \in Nat \ {0} /\ Size \in [Requests -> 1 .. LargestMessage]
    /\ Window + Cardinality(Dialogs) + 1 <= ControlQueue
    /\ WindowBytes + BytesOf(Dialogs) + LargestMessage <= ControlBytes
    /\ ControlQueue \in Nat \ {0} /\ ControlBytes \in Nat \ {0}
    /\ ControlMessages \in Nat \ {0}
    /\ None \notin {"ok", "remote", "failed", "plugin", "host"}

VARIABLES
    calls,      \* where a call is; it returns with "ok" or "error"
    reply,      \* the channel of a call, of capacity one
    pending, canceled,
    incoming,   \* identifiers in incomingIDs
    count, inBytes,  \* incomingCount, incomingBytes
    requests,   \* the queue between read and handle
    stage,      \* how far a message of the plugin has got
    outgoing,   \* queued or being written
    bytes,      \* in messages of the host
    reader,     \* what read is about to put into the channel of a call
    cause,      \* the first Fail: "plugin" for what the plugin sent, or "host"
    err, cancelled,
    handlerErrors,
    asked,      \* calls that the plugin has received and not answered
    answered,   \* calls it has answered without an error
    polite,     \* whether the plugin has kept to the protocol
    open,       \* messages of which the plugin cannot know that they were handled
    confirms    \* the notifications that the response to a request will tell of

failVars == <<err, cancelled>>
inVars == <<incoming, count, inBytes, requests, stage>>
outVars == <<outgoing, bytes>>
pluginVars == <<asked, answered, polite, open, confirms>>
rpcVars == <<calls, reply, pending, canceled, incoming, count, inBytes, requests, stage,
             outgoing, bytes, reader, cause, err, cancelled, handlerErrors,
             asked, answered, polite, open, confirms>>

Idle == [step |-> "idle", call |-> None, outcome |-> None]
Stopped == [Idle EXCEPT !.step = "stopped"]

RpcInit ==
    /\ calls = [c \in Calls |-> "idle"]
    /\ reply = [c \in Calls |-> None]
    /\ pending = {} /\ canceled = {} /\ incoming = {} /\ count = 0 /\ inBytes = 0
    /\ requests = <<>> /\ stage = [r \in Requests |-> "idle"]
    /\ outgoing = <<>> /\ bytes = 0
    /\ reader = Idle /\ cause = None /\ err = None /\ cancelled = FALSE
    /\ handlerErrors = 0
    /\ asked = {} /\ answered = {} /\ polite = TRUE
    /\ open = {} /\ confirms = [r \in Requests |-> {}]

----------------------------------------------------------------------------
(* Failure.  Fail runs once: the first caller decides why. *)

Fail(e) == cause' = IF cause = None THEN e ELSE cause

\* The part of Fail under p.mu.  A channel holds one response: with a second one
\* the goroutine would wait while it holds the mutex.
FailPending ==
    /\ cause # None /\ err = None
    /\ \A c \in pending : reply[c] = None
    /\ err' = cause
    /\ reply' = [c \in Calls |-> IF c \in pending THEN "failed" ELSE reply[c]]
    /\ pending' = {}
    /\ UNCHANGED <<calls, canceled, inVars, outVars, reader, cause, cancelled,
                   handlerErrors, pluginVars>>

\* The rest of Fail: the context is cancelled and the streams are closed.
CancelPeer ==
    /\ err # None /\ ~cancelled
    /\ cancelled' = TRUE
    /\ UNCHANGED <<calls, reply, pending, canceled, inVars, outVars, reader, cause,
                   err, handlerErrors, pluginVars>>

\* Close, the exit of the process, or an unreadable message.
CloseFromOutside ==
    /\ cause = None /\ Fail("host")
    /\ UNCHANGED <<calls, reply, pending, canceled, inVars, outVars, reader, failVars,
                   handlerErrors, pluginVars>>

----------------------------------------------------------------------------
(* send *)

SendOutcome ==
    IF bytes + 1 > ControlMessages THEN "overflow"
    ELSE IF cancelled THEN "closed"
    ELSE IF Len(outgoing) > ControlQueue THEN "overflow" ELSE "sent"

\* One more message fits than the queue holds: the one that is being written.
Send(kind, id) ==
    IF SendOutcome = "sent"
    THEN outgoing' = Append(outgoing, [kind |-> kind, id |-> id]) /\ bytes' = bytes + 1
    ELSE UNCHANGED outVars

FailIfOverflow(otherwise) ==
    IF SendOutcome = "overflow" THEN Fail("host") ELSE otherwise

----------------------------------------------------------------------------
(* Call, and session.call which looks at its outcome: an error response counts, any
   other error but a cancellation stops the session, a success starts the count
   again. *)

Settle(outcome) ==
    \/ /\ outcome = "ok"
       /\ handlerErrors' = 0 /\ UNCHANGED cause
    \/ /\ outcome = "remote"
       /\ handlerErrors' = handlerErrors + 1
       /\ IF handlerErrors' >= HandlerErrorLimit THEN Fail("host") ELSE UNCHANGED cause
    \/ /\ outcome \in {"failed", "deadline"}
       /\ Fail("host") /\ UNCHANGED handlerErrors
    \/ /\ outcome = "cancelled"
       /\ UNCHANGED <<handlerErrors, cause>>

Return(c, outcome) ==
    /\ calls' = [calls EXCEPT ![c] = IF outcome = "ok" THEN "ok" ELSE "error"]
    /\ pending' = pending \ {c}

\* A call is refused after the failure of the peer and at the limit of calls.
Register(c) ==
    /\ calls[c] = "idle"
    /\ \/ /\ err # None \/ Cardinality(pending) >= ControlQueue
          /\ Return(c, "failed") /\ Settle("failed")
       \/ /\ err = None /\ Cardinality(pending) < ControlQueue
          /\ pending' = pending \cup {c}
          /\ calls' = [calls EXCEPT ![c] = "registered"]
          /\ UNCHANGED <<cause, handlerErrors>>
    /\ UNCHANGED <<reply, canceled, inVars, outVars, reader, failVars, pluginVars>>

\* A closed peer makes the call return Err(), which is success if that is nil.
PeerError == IF err = None THEN "ok" ELSE "failed"

SendCall(c) ==
    /\ calls[c] = "registered"
    /\ Send("call", c)
    /\ \/ /\ SendOutcome = "sent"
          /\ calls' = [calls EXCEPT ![c] = "waiting"]
          /\ UNCHANGED <<pending, handlerErrors, cause>>
       \/ /\ SendOutcome = "overflow"
          /\ Return(c, "failed") /\ Settle("failed")
       \/ /\ SendOutcome = "closed"
          /\ Return(c, PeerError) /\ Settle(PeerError)
    /\ UNCHANGED <<reply, canceled, inVars, reader, failVars, pluginVars>>

TakeReply(c) ==
    /\ calls[c] = "waiting" /\ reply[c] # None
    /\ Return(c, reply[c]) /\ Settle(reply[c])
    /\ reply' = [reply EXCEPT ![c] = None]
    /\ UNCHANGED <<canceled, inVars, outVars, reader, failVars, pluginVars>>

SeePeerCancelled(c) ==
    /\ calls[c] = "waiting" /\ cancelled
    /\ Return(c, PeerError) /\ Settle(PeerError)
    /\ UNCHANGED <<reply, canceled, inVars, outVars, reader, failVars, pluginVars>>

ExpireSilently(c, why) ==
    /\ calls[c] = "waiting"
    /\ calls' = [calls EXCEPT ![c] = why]
    /\ pending' = pending \ {c}
    /\ UNCHANGED <<reply, canceled, inVars, outVars, reader, cause, failVars, handlerErrors, pluginVars>>

\* The context of the call is over: its caller has gone or its deadline has passed.
\* Only a call that is still pending is remembered as cancelled.
Expire(c, why) ==
    /\ calls[c] = "waiting"
    /\ calls' = [calls EXCEPT ![c] = why]
    /\ pending' = pending \ {c}
    /\ canceled' = IF c \in pending THEN canceled \cup {c} ELSE canceled
    /\ IF Cardinality(canceled') > CanceledLimit THEN Fail("host") ELSE UNCHANGED cause
    /\ UNCHANGED <<reply, inVars, outVars, reader, failVars, handlerErrors, pluginVars>>

NotifyCancel(c) ==
    /\ calls[c] \in {"cancelled", "deadline"}
    /\ Send("cancel", c)
    /\ calls' = [calls EXCEPT ![c] = "error"]
    /\ IF calls[c] = "deadline" THEN Fail("host") ELSE FailIfOverflow(UNCHANGED cause)
    /\ UNCHANGED <<reply, pending, canceled, inVars, reader, failVars, handlerErrors,
                   pluginVars>>

----------------------------------------------------------------------------
(* read *)

\* What read does with a response, as far as the unlock.
Receive(c, outcome) ==
    /\ canceled' = canceled \ {c} /\ pending' = pending \ {c}
    /\ \/ /\ c \in pending
          /\ reader' = [step |-> "deliver", call |-> c, outcome |-> outcome]
          /\ UNCHANGED cause
       \/ /\ c \notin pending /\ c \in canceled
          /\ UNCHANGED <<reader, cause>>
       \/ /\ c \notin pending /\ c \notin canceled
          /\ reader' = Stopped /\ Fail("plugin")

\* The plugin answers a call it has received.
ReadResponse(c, outcome) ==
    /\ reader.step = "idle" /\ cause = None
    /\ c \in asked
    /\ asked' = asked \ {c}
    /\ answered' = IF outcome = "ok" THEN answered \cup {c} ELSE answered
    /\ Receive(c, outcome)
    /\ UNCHANGED <<calls, reply, inVars, outVars, failVars, handlerErrors, polite, open, confirms>>

\* It answers what it has not been asked, or has answered already.
ReadStrayResponse(c) ==
    /\ reader.step = "idle" /\ cause = None /\ polite
    /\ c \notin asked
    /\ polite' = FALSE /\ answered' = answered \cup {c}
    /\ Receive(c, "ok")
    /\ UNCHANGED <<calls, reply, inVars, outVars, failVars, handlerErrors, asked, open, confirms>>

Deliver ==
    /\ reader.step = "deliver" /\ reply[reader.call] = None
    /\ reply' = [reply EXCEPT ![reader.call] = reader.outcome]
    /\ reader' = Idle
    /\ UNCHANGED <<calls, pending, canceled, inVars, outVars, cause, failVars, handlerErrors,
                   pluginVars>>

\* A message: its identifier is recorded, it is charged, counted, then queued.
Admit(r) ==
    /\ incoming' = IF r \in Notes THEN incoming ELSE incoming \cup {r}
    /\ \/ /\ r \in incoming
          /\ reader' = Stopped /\ Fail("plugin") /\ UNCHANGED <<count, inBytes, requests, stage>>
       \/ /\ r \notin incoming /\ inBytes + Size[r] > ControlBytes
          /\ inBytes' = inBytes + Size[r]
          /\ reader' = Stopped /\ Fail("plugin") /\ UNCHANGED <<count, requests, stage>>
       \/ /\ r \notin incoming /\ inBytes + Size[r] <= ControlBytes
          /\ inBytes' = inBytes + Size[r] /\ count' = count + 1
          /\ IF count + 1 > ControlQueue
             THEN reader' = Stopped /\ Fail("plugin") /\ UNCHANGED <<requests, stage>>
             ELSE /\ requests' = Append(requests, r)
                  /\ stage' = [stage EXCEPT ![r] = "queued"]
                  /\ UNCHANGED <<reader, cause>>

\* Messages that are handled one after the other.
Serial == Requests \ Dialogs

\* A polite plugin has at most so many messages, and bytes, of which it does not
\* know that they were handled.  The response to a request that is handled in its
\* turn tells it of the notifications before.
ReadRequest(r) ==
    /\ reader.step = "idle" /\ cause = None
    /\ stage[r] = "idle"
    /\ polite' = (polite /\ Cardinality(open) < Window /\ BytesOf(open) + Size[r] <= WindowBytes)
    /\ open' = open \cup {r}
    /\ confirms' = [confirms EXCEPT ![r] = IF r \in Serial \ Notes THEN open \cap Serial \cap Notes ELSE {}]
    /\ Admit(r)
    /\ UNCHANGED <<calls, reply, pending, canceled, outVars, failVars, handlerErrors, asked, answered>>

\* An identifier is used again before the host has released it.
ReadDuplicate(r) ==
    /\ reader.step = "idle" /\ cause = None
    /\ r \in incoming /\ polite
    /\ polite' = FALSE
    /\ Admit(r)
    /\ UNCHANGED <<calls, reply, pending, canceled, outVars, failVars, handlerErrors,
                   asked, answered, open, confirms>>

----------------------------------------------------------------------------
(* write *)

\* The plugin has the message, and its bytes are given back.
Write ==
    /\ outgoing # <<>> /\ cause = None
    /\ outgoing' = Tail(outgoing) /\ bytes' = bytes - 1
    /\ asked' = IF Head(outgoing).kind = "call" THEN asked \cup {Head(outgoing).id} ELSE asked
    /\ open' = IF Head(outgoing).kind = "response"
               THEN open \ ({Head(outgoing).id} \cup confirms[Head(outgoing).id]) ELSE open
    /\ UNCHANGED <<calls, reply, pending, canceled, inVars, reader, cause, failVars,
                   handlerErrors, answered, polite, confirms>>

----------------------------------------------------------------------------
(* handle and handleMessage.  One message is handled at a time, but a dialogue has
   a goroutine of its own. *)

Handled(r) == stage[r] \in {"handling", "returned"}

TakeRequest ==
    /\ requests # <<>> /\ cause = None
    /\ \A r \in Serial : ~Handled(r)
    /\ stage' = [stage EXCEPT ![Head(requests)] = "handling"]
    /\ requests' = Tail(requests)
    /\ UNCHANGED <<calls, reply, pending, canceled, incoming, count, inBytes, outVars, reader, cause,
                   failVars, handlerErrors, pluginVars>>

\* The handler returns with a response, of a result or of an error.
Respond(r) ==
    /\ r \notin Notes /\ stage[r] = "handling"
    /\ Send("response", r)
    /\ FailIfOverflow(UNCHANGED cause)
    /\ stage' = [stage EXCEPT ![r] = "returned"]
    /\ UNCHANGED <<calls, reply, pending, canceled, incoming, count, inBytes, requests, reader,
                   failVars, handlerErrors, pluginVars>>

\* It returns, and nobody is told.
FinishNotification(r) ==
    /\ r \in Notes /\ stage[r] = "handling"
    /\ stage' = [stage EXCEPT ![r] = "returned"]
    /\ UNCHANGED <<calls, reply, pending, canceled, incoming, count, inBytes, requests, outVars,
                   reader, cause, failVars, handlerErrors, pluginVars>>

\* It returns with an error that stops the peer: any error of a notification.
HandlerFails(r) ==
    /\ stage[r] = "handling"
    /\ Fail("host")
    /\ stage' = [stage EXCEPT ![r] = "returned"]
    /\ UNCHANGED <<calls, reply, pending, canceled, incoming, count, inBytes, requests, outVars, reader,
                   failVars, handlerErrors, pluginVars>>

ReleaseIdentifierOnly(r) ==
    /\ stage[r] = "returned"
    /\ stage' = [stage EXCEPT ![r] = "released"]
    /\ incoming' = incoming \ {r} /\ UNCHANGED <<count, inBytes>>
    /\ UNCHANGED <<calls, reply, pending, canceled, requests, outVars, reader, cause, failVars,
                   handlerErrors, pluginVars>>

\* The deferred calls of handleMessage, after the response has been queued: all of
\* them at the time of the last one.
Release(r) ==
    /\ stage[r] = "returned"
    /\ stage' = [stage EXCEPT ![r] = "released"]
    /\ incoming' = incoming \ {r} /\ count' = count - 1 /\ inBytes' = inBytes - Size[r]
    /\ UNCHANGED <<calls, reply, pending, canceled, requests, outVars, reader, cause, failVars,
                   handlerErrors, pluginVars>>

----------------------------------------------------------------------------

Finished(c) == calls[c] \in {"ok", "error"}

\* The peer is closed and its goroutines have ended.
Closed ==
    /\ cancelled
    /\ \A c \in Calls : Finished(c) \/ calls[c] = "idle"
    /\ UNCHANGED rpcVars

CallStep(c) ==
    \/ Register(c) \/ SendCall(c) \/ TakeReply(c) \/ SeePeerCancelled(c)
    \/ \E why \in {"cancelled", "deadline"} : Expire(c, why)
    \/ NotifyCancel(c)

RpcNext ==
    \/ FailPending \/ CancelPeer \/ CloseFromOutside
    \/ \E c \in Calls :
          \/ CallStep(c)
          \/ \E outcome \in {"ok", "remote"} : ReadResponse(c, outcome)
          \/ ReadStrayResponse(c)
    \/ Deliver
    \/ \E r \in Requests :
          \/ ReadRequest(r) \/ ReadDuplicate(r)
          \/ Respond(r) \/ FinishNotification(r) \/ HandlerFails(r) \/ Release(r)
    \/ Write \/ TakeRequest
    \/ Closed

RpcSpec == RpcInit /\ [][RpcNext]_rpcVars

----------------------------------------------------------------------------

RpcTypeOK ==
    /\ calls \in [Calls -> {"idle", "registered", "waiting", "cancelled", "deadline", "ok", "error"}]
    /\ reply \in [Calls -> {None, "ok", "remote", "failed"}]
    /\ pending \subseteq Calls /\ canceled \subseteq Calls /\ incoming \subseteq Requests
    /\ Len(requests) <= ControlQueue /\ Len(outgoing) <= ControlQueue + 1

(* A plugin that answers every call once, uses every identifier once and has at
   most Window messages of WindowBytes open, requests that were not answered and
   notifications that no later answer tells of, is never stopped for a violation of
   the protocol or for the number and sizes of its messages: not by a response to a
   cancelled call (rpc.go:239-248, 262-276), not by the messages that the host has
   answered and not yet released from its byte budget and its count (rpc.go:309-313,
   366-370), and a message that was counted finds room in the queue (rpc.go:314-320).
   The peer may still be stopped by the errors of handlers, its own queue to the
   plugin, or from outside. *)
PoliteNeverStopped ==
    /\ polite => cause # "plugin"
    /\ Len(requests) <= ControlQueue

(* A call succeeds only if the plugin has answered it: Err() is set before the
   context of the peer is cancelled (rpc.go:159-176), so that neither a send nor a
   call that sees the cancelled context takes a missing error for a success. *)
SuccessIsAnswered ==
    \A c \in Calls : calls[c] = "ok" => c \in answered

(* The byte count of the queue to the plugin is what is queued or being written, and
   the count and the bytes of incoming messages are of those that are queued or
   handled, on every path (rpc.go:178-211, 296-330, 366-370). *)
AccountsExact ==
    /\ bytes = Len(outgoing)
    /\ cause # "plugin" =>
         LET held == {r \in Requests : stage[r] = "queued" \/ Handled(r)} IN
         count = Cardinality(held) /\ inBytes = BytesOf(held)

(* Neither read nor Fail waits on the channel of a call, which holds one response: the
   one would stop reading, the other would hold the mutex that every call needs
   (rpc.go:159-166, 263-281). *)
RepliesFit ==
    /\ reader.step = "deliver" => reply[reader.call] = None
    /\ cause # None /\ err = None => \A c \in pending : reply[c] = None

(* The books of the peer are exact, so that neither side waits for, or gets, what the
   other never sent. *)
BooksExact == AccountsExact /\ SuccessIsAnswered /\ RepliesFit

=============================================================================
