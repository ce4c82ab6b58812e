--------------------------- MODULE RpcPeerProofs ---------------------------
(***************************************************************************)
(* That a plugin which keeps the protocol is never stopped for it, and     *)
(* that the books of the peer are exact, for any calls, messages, sizes    *)
(* and limits.                                                             *)
(***************************************************************************)
EXTENDS RpcPeer, Integers, FiniteSetTheorems, SequenceTheorems, TLAPS

CallStates == {"idle", "registered", "waiting", "cancelled", "deadline", "ok", "error"}
Stages == {"idle", "queued", "handling", "returned", "released"}
Causes == {None, "plugin", "host"}
Message == [kind : {"call", "cancel", "response"}, id : Calls \cup Requests]

PeerType ==
  /\ calls \in [Calls -> CallStates]
  /\ reply \in [Calls -> {None, "ok", "remote", "failed"}]
  /\ pending \in SUBSET Calls /\ canceled \in SUBSET Calls
  /\ asked \in SUBSET Calls /\ answered \in SUBSET Calls
  /\ incoming \in SUBSET Requests /\ count \in Int /\ inBytes \in Int
  /\ open \in SUBSET Requests /\ confirms \in [Requests -> SUBSET Requests]
  /\ requests \in Seq(Requests)
  /\ stage \in [Requests -> Stages]
  /\ outgoing \in Seq(Message) /\ bytes = Len(outgoing)
  /\ Len(outgoing) <= ControlQueue + 1
  /\ reader \in [step : {"idle", "deliver", "stopped"}, call : Calls \cup {None},
                 outcome : {None, "ok", "remote"}]
  /\ cause \in Causes /\ err \in Causes

\* Fail sets the error before it cancels the context, and it never changes.
FailInv ==
  /\ err # None => err = cause
  /\ cancelled => err # None
  /\ reader.step = "stopped" => cause # None

\* A channel that read or Fail may write to is empty; what is in it, or was
\* returned, has been answered.
CallInv ==
  /\ \A c \in pending : calls[c] \in {"registered", "waiting"} /\ reply[c] = None
  /\ \A c \in Calls : calls[c] = "idle" => reply[c] = None
  /\ reader.step = "deliver" =>
       /\ reader.call \in Calls \ pending
       /\ reply[reader.call] = None /\ calls[reader.call] # "idle"
       /\ reader.outcome \in {"ok", "remote"}
       /\ reader.outcome = "ok" => reader.call \in answered
  /\ \A c \in Calls : calls[c] = "ok" \/ reply[c] = "ok" => c \in answered

\* The plugin has the call, or will get it.
Sent(c) ==
  c \in asked \/ \E i \in 1 .. Len(outgoing) : outgoing[i] = [kind |-> "call", id |-> c]

\* A call is in the queue once, and not when the plugin has it.
SentOnce ==
  /\ \A i \in 1 .. Len(outgoing) : outgoing[i].kind = "call" => outgoing[i].id \in Calls \ asked
  /\ \A i, j \in 1 .. Len(outgoing) :
       outgoing[i].kind = "call" /\ outgoing[i] = outgoing[j] => i = j

\* What a polite plugin can still answer is pending or remembered as cancelled.
Known(c) == Sent(c) \/ calls[c] = "registered" => c \in pending \cup canceled

AskInv ==
  /\ SentOnce
  /\ \A c \in Calls : Sent(c) => calls[c] \notin {"idle", "registered"}
  /\ polite /\ cause = None => \A c \in Calls : Known(c)

Active == {r \in Requests : stage[r] \in {"queued", "handling", "returned"}}

\* The count, the bytes and the identifiers are those of the messages in
\* progress, of which at most one is handled unless it is a dialogue.
RequestInv ==
  /\ \A i \in 1 .. Len(requests) : stage[requests[i]] = "queued"
  /\ \A i, j \in 1 .. Len(requests) : requests[i] = requests[j] => i = j
  /\ IsFiniteSet(Active) /\ Cardinality(Active) <= ControlQueue
  /\ \A q, r \in Serial : Handled(q) /\ Handled(r) => q = r
  /\ cause # "plugin" =>
       /\ incoming = Active \ Notes
       /\ count = Cardinality(Active) /\ inBytes = BytesOf(Active)

\* The plugin takes for open what is queued or handled in its turn: what the
\* response to a request tells of has been released when the request is taken.
Ended(r) == stage[r] \in {"returned", "released"}

Behind(r, n) ==
  \A i, j \in 1 .. Len(requests) : requests[i] = r /\ requests[j] = n => j < i

OpenInv ==
  /\ IsFiniteSet(open)
  /\ cause = None =>
       /\ \A r \in open : stage[r] # "idle"
       /\ \A r \in Serial : stage[r] \in {"queued", "handling"} => r \in open
       /\ \A r \in Requests : stage[r] = "queued" => \E i \in 1 .. Len(requests) : requests[i] = r
       /\ \A i \in 1 .. Len(outgoing) : outgoing[i].kind = "response" =>
            outgoing[i].id \in Requests /\ Ended(outgoing[i].id)
       /\ \A r \in Requests : \A n \in confirms[r] :
            /\ r \in Serial \ Notes /\ n \in Serial \cap Notes /\ stage[n] # "idle"
            /\ stage[r] = "queued" => Behind(r, n)
            /\ stage[r] = "handling" \/ Ended(r) => stage[n] = "released"

PoliteInv == polite => cause # "plugin"

PeerInv == PeerType /\ FailInv /\ CallInv /\ AskInv /\ RequestInv /\ OpenInv /\ PoliteInv

-----------------------------------------------------------------------------
(* What messages are charged with                                         *)

Bytes(messages) == {byte \in messages \X (1 .. LargestMessage) : byte[2] <= Size[byte[1]]}

(* The bytes of finitely many messages are finitely many, those of two parts
   together are at most those of both, and of fewer messages not more.     *)
LEMMA BytesFinite ==
  ASSUME NEW S, IsFiniteSet(S)
  PROVE  IsFiniteSet(Bytes(S)) /\ BytesOf(S) = Cardinality(Bytes(S)) /\ BytesOf(S) \in Nat
<1>1. IsFiniteSet(1 .. LargestMessage)
  BY FS_Interval, RpcAssumption
<1>2. IsFiniteSet(S \X (1 .. LargestMessage))
  BY <1>1, FS_Product
<1>3. Bytes(S) \in SUBSET (S \X (1 .. LargestMessage))
  BY DEF Bytes
<1>4. IsFiniteSet(Bytes(S))
  BY <1>2, <1>3, FS_Subset
<1>5. BytesOf(S) = Cardinality(Bytes(S))
  BY DEF Bytes, BytesOf
<1> QED
  BY <1>4, <1>5, FS_CardinalityType

(* Nothing is charged for no message.                                      *)
LEMMA BytesOfNone == BytesOf({}) = 0
<1>1. Bytes({}) = {}
  BY DEF Bytes
<1> QED
  BY <1>1, BytesFinite, FS_EmptySet

(* The bytes of a message are as many as its size.                         *)
LEMMA BytesOfOne ==
  ASSUME NEW r \in Requests
  PROVE  BytesOf({r}) = Size[r] /\ Size[r] \in Nat /\ Size[r] <= LargestMessage
<1>1. Size[r] \in 1 .. LargestMessage /\ LargestMessage \in Nat
  BY RpcAssumption
<1> DEFINE Byte == [i \in 1 .. Size[r] |-> <<r, i>>]
<1>2. Byte \in Bijection(1 .. Size[r], Bytes({r}))
  <2>1. \A i \in 1 .. Size[r] : Byte[i] = <<r, i>>
    OBVIOUS
  <2>2. \A i \in 1 .. Size[r] : <<r, i>> \in Bytes({r})
    BY <1>1 DEF Bytes
  <2>3. Byte \in [1 .. Size[r] -> Bytes({r})]
    BY <2>2
  <2>4. \A i, j \in 1 .. Size[r] : Byte[i] = Byte[j] => i = j
    BY <2>1
  <2>5. \A byte \in Bytes({r}) : \E i \in 1 .. Size[r] : Byte[i] = byte
    <3> SUFFICES ASSUME NEW byte \in Bytes({r})
                 PROVE  \E i \in 1 .. Size[r] : Byte[i] = byte
      OBVIOUS
    <3>1. byte = <<r, byte[2]>> /\ byte[2] \in 1 .. Size[r]
      BY <1>1 DEF Bytes
    <3> QED
      BY <2>1, <3>1
  <2> HIDE DEF Byte
  <2>6. Byte \in Injection(1 .. Size[r], Bytes({r}))
    BY <2>3, <2>4 DEF Injection, IsInjective
  <2>7. Byte \in Surjection(1 .. Size[r], Bytes({r}))
    BY <2>3, <2>5 DEF Surjection
  <2> QED
    BY <2>6, <2>7 DEF Bijection
<1>3. IsFiniteSet(1 .. Size[r]) /\ Cardinality(1 .. Size[r]) = Size[r]
  <2>1. 1 \in Int /\ Size[r] \in Int
    BY <1>1
  <2>2. /\ IsFiniteSet(1 .. Size[r])
        /\ Cardinality(1 .. Size[r]) = IF 1 > Size[r] THEN 0 ELSE Size[r] - 1 + 1
    BY <2>1, FS_Interval, Zenon
  <2> QED
    BY <1>1, <2>2
<1>4. ExistsBijection(1 .. Size[r], Bytes({r}))
  BY <1>2 DEF ExistsBijection
<1>5. Cardinality(Bytes({r})) = Size[r]
  BY <1>3, <1>4, FS_Bijection
<1>6. IsFiniteSet({r})
  BY FS_Singleton
<1>7. BytesOf({r}) = Cardinality(Bytes({r}))
  BY <1>6, BytesFinite
<1> QED
  BY <1>1, <1>5, <1>7

(* Two parts without a common message are charged with the sum.            *)
LEMMA BytesOfUnion ==
  ASSUME NEW S, NEW T, IsFiniteSet(S), IsFiniteSet(T)
  PROVE  /\ BytesOf(S \cup T) <= BytesOf(S) + BytesOf(T)
         /\ S \cap T = {} => BytesOf(S \cup T) = BytesOf(S) + BytesOf(T)
         /\ S \subseteq T => BytesOf(S) <= BytesOf(T)
<1>1. IsFiniteSet(S \cup T)
  BY FS_Union
<1>2. /\ IsFiniteSet(Bytes(S)) /\ IsFiniteSet(Bytes(T))
      /\ BytesOf(S) = Cardinality(Bytes(S)) /\ BytesOf(T) = Cardinality(Bytes(T))
      /\ BytesOf(S \cup T) = Cardinality(Bytes(S \cup T))
      /\ BytesOf(S) \in Nat /\ BytesOf(T) \in Nat /\ BytesOf(S \cup T) \in Nat
  BY <1>1, BytesFinite
<1>3. Bytes(S \cup T) = Bytes(S) \cup Bytes(T)
  BY DEF Bytes
<1>4. Cardinality(Bytes(S) \cup Bytes(T))
        = Cardinality(Bytes(S)) + Cardinality(Bytes(T)) - Cardinality(Bytes(S) \cap Bytes(T))
  BY <1>2, FS_Union
<1>5. Cardinality(Bytes(S) \cap Bytes(T)) \in Nat
  BY <1>2, FS_Intersection, FS_CardinalityType
<1>6. S \cap T = {} => Cardinality(Bytes(S) \cap Bytes(T)) = 0
  <2>1. S \cap T = {} => Bytes(S) \cap Bytes(T) = {}
    BY DEF Bytes
  <2> QED
    BY <2>1, FS_EmptySet
<1>7. S \subseteq T => Cardinality(Bytes(S)) <= Cardinality(Bytes(T))
  <2>1. S \subseteq T => Bytes(S) \in SUBSET Bytes(T)
    BY DEF Bytes
  <2> QED
    BY <1>2, <2>1, FS_Subset
<1>8. BytesOf(S \cup T)
        = BytesOf(S) + BytesOf(T) - Cardinality(Bytes(S) \cap Bytes(T))
  BY <1>2, <1>3, <1>4, Zenon
<1>9. BytesOf(S \cup T) <= BytesOf(S) + BytesOf(T)
  BY <1>2, <1>5, <1>8
<1>10. S \cap T = {} => BytesOf(S \cup T) = BytesOf(S) + BytesOf(T)
  BY <1>2, <1>6, <1>8
<1>11. S \subseteq T => BytesOf(S) <= BytesOf(T)
  BY <1>2, <1>7
<1> QED
  BY <1>9, <1>10, <1>11

(* One message more, and one less                                          *)
LEMMA BytesChange ==
  ASSUME NEW S, IsFiniteSet(S), NEW r \in Requests
  PROVE  /\ r \notin S => BytesOf(S \cup {r}) = BytesOf(S) + Size[r]
         /\ r \in S => BytesOf(S \ {r}) = BytesOf(S) - Size[r]
<1>1. IsFiniteSet({r}) /\ IsFiniteSet(S \ {r})
  BY FS_Singleton, FS_RemoveElement
<1>2. BytesOf({r}) = Size[r] /\ Size[r] \in Nat
  BY BytesOfOne
<1>3. ASSUME r \notin S PROVE BytesOf(S \cup {r}) = BytesOf(S) + Size[r]
  <2>1. S \cap {r} = {}
    BY <1>3
  <2> QED
    BY <1>1, <1>2, <2>1, BytesOfUnion
<1>4. ASSUME r \in S PROVE BytesOf(S \ {r}) = BytesOf(S) - Size[r]
  <2>1. (S \ {r}) \cap {r} = {} /\ (S \ {r}) \cup {r} = S
    BY <1>4
  <2>2. BytesOf(S \ {r}) \in Nat
    BY <1>1, BytesFinite
  <2>3. BytesOf((S \ {r}) \cup {r}) = BytesOf(S \ {r}) + BytesOf({r})
    BY <1>1, <2>1, BytesOfUnion
  <2>4. BytesOf(S) = BytesOf(S \ {r}) + Size[r]
    BY <1>2, <2>1, <2>3, Zenon
  <2> QED
    BY <1>2, <2>2, <2>4
<1> QED
  BY <1>3, <1>4

-----------------------------------------------------------------------------
(* What the parts of the invariant depend on                              *)

(* The reasons of a failure are distinct.                                  *)
LEMMA HostCauses == None # "plugin" /\ None # "host"
  BY RpcAssumption

(* What leaves the incoming side alone and blames nobody keeps its books.  *)
LEMMA RequestFrame ==
  ASSUME PeerInv, UNCHANGED inVars, cause' # "plugin" => cause # "plugin"
  PROVE  RequestInv'
<1>1. Active' = Active
  BY DEF Active, inVars
<1> QED
  BY <1>1 DEF PeerInv, RequestInv, Handled, inVars

(* What leaves the incoming side alone and sends no response keeps what is
   open.                                                                   *)
LEMMA OpenFrame ==
  ASSUME PeerInv, UNCHANGED <<inVars, open, confirms>>, cause' = None => cause = None,
         \A i \in 1 .. Len(outgoing') : outgoing'[i].kind = "response" =>
           \E j \in 1 .. Len(outgoing) : outgoing'[i] = outgoing[j]
  PROVE  OpenInv'
<1>1. IsFiniteSet(open')
  BY DEF PeerInv, OpenInv
<1> SUFFICES ASSUME cause' = None PROVE OpenInv'
  BY <1>1 DEF OpenInv
<1>2. UNCHANGED <<requests, stage, open, confirms>> /\ cause = None
  BY DEF inVars
<1>3. \A i \in 1 .. Len(outgoing') : outgoing'[i].kind = "response" =>
        outgoing'[i].id \in Requests /\ stage'[outgoing'[i].id] \in {"returned", "released"}
  <2> SUFFICES ASSUME NEW i \in 1 .. Len(outgoing'), outgoing'[i].kind = "response"
               PROVE  outgoing'[i].id \in Requests /\ stage'[outgoing'[i].id] \in {"returned", "released"}
    OBVIOUS
  <2>1. PICK j \in 1 .. Len(outgoing) : outgoing'[i] = outgoing[j]
    OBVIOUS
  <2>2. outgoing[j].id \in Requests /\ Ended(outgoing[j].id)
    BY <1>2, <2>1 DEF PeerInv, OpenInv
  <2> QED
    BY <1>2, <2>1, <2>2 DEF Ended
<1> QED
  BY <1>1, <1>2, <1>3 DEF PeerInv, OpenInv, Behind, Ended

(* A message whose handler returns, or which is released                   *)
LEMMA OpenMoves ==
  ASSUME PeerInv, NEW r \in Requests, NEW s \in {"returned", "released"},
         stage[r] \in {"handling", "returned"}, stage' = [stage EXCEPT ![r] = s],
         s = "returned" => stage[r] = "handling", s = "released" => stage[r] = "returned",
         UNCHANGED <<requests, open, confirms>>, cause' = None => cause = None,
         \A i \in 1 .. Len(outgoing') : outgoing'[i].kind = "response" =>
           \/ \E j \in 1 .. Len(outgoing) : outgoing'[i] = outgoing[j]
           \/ outgoing'[i].id = r
  PROVE  OpenInv'
<1>1. IsFiniteSet(open')
  BY DEF PeerInv, OpenInv
<1> SUFFICES ASSUME cause' = None PROVE OpenInv'
  BY <1>1 DEF OpenInv
<1>2. /\ cause = None /\ stage'[r] = s
      /\ \A q \in Requests : q # r => stage'[q] = stage[q]
      /\ open \subseteq Requests /\ confirms \in [Requests -> SUBSET Requests]
      /\ Serial \subseteq Requests
  BY DEF PeerInv, PeerType, Serial
<1>3. OpenInv
  BY DEF PeerInv
<1>4. \A i \in 1 .. Len(outgoing') : outgoing'[i].kind = "response" =>
        outgoing'[i].id \in Requests /\ stage'[outgoing'[i].id] \in {"returned", "released"}
  <2> SUFFICES ASSUME NEW i \in 1 .. Len(outgoing'), outgoing'[i].kind = "response"
               PROVE  outgoing'[i].id \in Requests /\ stage'[outgoing'[i].id] \in {"returned", "released"}
    OBVIOUS
  <2>1. Ended(r)'
    BY <1>2 DEF Ended
  <2>2. CASE outgoing'[i].id = r
    BY <2>1, <2>2 DEF Ended
  <2>3. CASE outgoing'[i].id # r
    <3>1. PICK j \in 1 .. Len(outgoing) : outgoing'[i] = outgoing[j]
      BY <2>3
    <3>2. outgoing[j].id \in Requests /\ Ended(outgoing[j].id)
      BY <1>2, <1>3, <3>1 DEF OpenInv
    <3> QED
      BY <1>2, <2>3, <3>1, <3>2 DEF Ended
  <2> QED
    BY <2>2, <2>3
<1>5. \A q \in open' : stage'[q] # "idle"
  BY <1>2, <1>3 DEF OpenInv
<1>6. \A q \in Serial : stage'[q] \in {"queued", "handling"} => q \in open'
  BY <1>2, <1>3 DEF OpenInv
<1>7. \A q \in Requests : stage'[q] = "queued" => \E i \in 1 .. Len(requests') : requests'[i] = q
  BY <1>2, <1>3 DEF OpenInv
<1>8. ASSUME NEW q \in Requests, NEW n \in confirms'[q]
      PROVE  /\ q \in Serial \ Notes /\ n \in Serial \cap Notes /\ stage'[n] # "idle"
             /\ stage'[q] = "queued" => Behind(q, n)'
             /\ stage'[q] = "handling" \/ Ended(q)' => stage'[n] = "released"
  <2>1. /\ q \in Serial \ Notes /\ n \in Serial \cap Notes /\ stage[n] # "idle"
        /\ stage[q] = "queued" => Behind(q, n)
        /\ stage[q] = "handling" \/ Ended(q) => stage[n] = "released"
    BY <1>2, <1>3, <1>8 DEF OpenInv
  <2>2. stage'[n] # "idle" /\ (stage'[q] = "queued" => Behind(q, n)')
    BY <1>2, <2>1 DEF Behind
  <2>3. stage'[q] = "handling" \/ Ended(q)' => stage[q] = "handling" \/ Ended(q)
    BY <1>2 DEF Ended
  <2>4. stage[n] = "released" => stage'[n] = "released"
    BY <1>2
  <2> QED
    BY <2>1, <2>2, <2>3, <2>4
<1> QED
  BY <1>1, <1>4, <1>5, <1>6, <1>7, <1>8 DEF OpenInv, Ended

(* What leaves the calls and the queue to the plugin alone.                *)
LEMMA AskFrame ==
  ASSUME PeerInv, UNCHANGED <<calls, pending, canceled, outVars, asked>>,
         polite' => polite, cause # None => cause' # None
  PROVE  AskInv'
  BY DEF PeerInv, AskInv, SentOnce, Known, Sent, outVars

(* The queue to the plugin takes a message or stays as it is.              *)
LEMMA SendTypes ==
  ASSUME PeerType, NEW kind \in {"call", "cancel", "response"},
         NEW id \in Calls \cup Requests, Send(kind, id)
  PROVE  /\ outgoing' \in Seq(Message) /\ bytes' = Len(outgoing')
         /\ Len(outgoing') <= ControlQueue + 1
         /\ \/ SendOutcome # "sent" /\ outgoing' = outgoing
            \/ /\ SendOutcome = "sent"
               /\ outgoing' = Append(outgoing, [kind |-> kind, id |-> id])
<1>1. [kind |-> kind, id |-> id] \in Message
  BY DEF Message
<1>2. outgoing \in Seq(Message) /\ bytes = Len(outgoing) /\ Len(outgoing) <= ControlQueue + 1
  BY DEF PeerType
<1>3. CASE SendOutcome = "sent"
  <2>1. Len(outgoing) <= ControlQueue
    BY <1>2, <1>3, RpcAssumption DEF SendOutcome
  <2>2. outgoing' = Append(outgoing, [kind |-> kind, id |-> id]) /\ bytes' = bytes + 1
    BY <1>3 DEF Send
  <2>3. /\ outgoing' \in Seq(Message) /\ Len(outgoing') = Len(outgoing) + 1
        /\ Len(outgoing) \in Nat
    BY <1>1, <1>2, <2>2
  <2>4. ControlQueue \in Nat
    BY RpcAssumption
  <2> QED
    BY <1>2, <1>3, <2>1, <2>2, <2>3, <2>4
<1>4. CASE SendOutcome # "sent"
  BY <1>2, <1>4 DEF Send, outVars
<1> QED
  BY <1>3, <1>4

(* A cancellation or a response is no call.                                *)
LEMMA SendNoCall ==
  ASSUME PeerInv, NEW kind \in {"cancel", "response"}, NEW id \in Calls \cup Requests,
         Send(kind, id), asked' = asked
  PROVE  SentOnce' /\ \A c \in Calls : Sent(c)' => Sent(c)
<1>1. PeerType /\ SentOnce
  BY DEF PeerInv, AskInv
<1>2. CASE outgoing' = outgoing
  BY <1>1, <1>2 DEF SentOnce, Sent
<1>3. CASE outgoing' = Append(outgoing, [kind |-> kind, id |-> id])
  <2>1. /\ Len(outgoing') = Len(outgoing) + 1 /\ Len(outgoing) \in Nat
        /\ \A i \in 1 .. Len(outgoing) : outgoing'[i] = outgoing[i]
        /\ outgoing'[Len(outgoing) + 1].kind # "call"
    BY <1>1, <1>3 DEF PeerType
  <2>2. \A i \in 1 .. Len(outgoing') : outgoing'[i].kind = "call" => i \in 1 .. Len(outgoing)
    BY <2>1
  <2> QED
    BY <1>1, <2>1, <2>2 DEF SentOnce, Sent
<1> QED
  BY <1>1, <1>2, <1>3, SendTypes

(* A call or a cancellation is no response.                                *)
LEMMA SendNoResponse ==
  ASSUME PeerInv, NEW kind \in {"call", "cancel"}, NEW id \in Calls \cup Requests,
         Send(kind, id)
  PROVE  \A i \in 1 .. Len(outgoing') : outgoing'[i].kind = "response" =>
           \E j \in 1 .. Len(outgoing) : outgoing'[i] = outgoing[j]
<1>1. outgoing \in Seq(Message)
  BY DEF PeerInv, PeerType
<1>2. CASE outgoing' = outgoing
  BY <1>2
<1>3. CASE outgoing' = Append(outgoing, [kind |-> kind, id |-> id])
  <2>1. /\ Len(outgoing') = Len(outgoing) + 1 /\ Len(outgoing) \in Nat
        /\ \A i \in 1 .. Len(outgoing) : outgoing'[i] = outgoing[i]
        /\ outgoing'[Len(outgoing) + 1].kind # "response"
    BY <1>1, <1>3
  <2> QED
    BY <2>1
<1> QED
  BY <1>2, <1>3, SendTypes DEF PeerInv

(* The reader stops after a failure.                                       *)
LEMMA StoppedReader == Stopped = [step |-> "stopped", call |-> None, outcome |-> None]
  BY DEF Stopped, Idle

(* What the peer does with a response                                      *)
LEMMA ReceiveMeans ==
  ASSUME PeerInv, NEW c \in Calls, NEW outcome \in {"ok", "remote"},
         reader.step = "idle", cause = None, Receive(c, outcome)
  PROVE  /\ pending' = pending \ {c} /\ canceled' = canceled \ {c}
         /\ reader' \in [step : {"idle", "deliver", "stopped"}, call : Calls \cup {None},
                         outcome : {None, "ok", "remote"}]
         /\ \/ /\ c \in pending /\ cause' = None
               /\ reader'.step = "deliver" /\ reader'.call = c /\ reader'.outcome = outcome
            \/ c \in canceled \ pending /\ cause' = None /\ reader' = reader
            \/ /\ c \notin pending \cup canceled /\ cause' = "plugin"
               /\ reader'.step = "stopped"
<1>1. pending' = pending \ {c} /\ canceled' = canceled \ {c}
  BY DEF Receive
<1>2. CASE c \in pending
  BY <1>1, <1>2 DEF Receive
<1>3. CASE c \in canceled \ pending
  BY <1>1, <1>3 DEF Receive, PeerInv, PeerType
<1>4. CASE c \notin pending \cup canceled
  <2>1. reader' = [step |-> "stopped", call |-> None, outcome |-> None] /\ cause' = "plugin"
    BY <1>4, StoppedReader DEF Receive, Fail
  <2> QED
    BY <1>1, <1>4, <2>1
<1> QED
  BY <1>2, <1>3, <1>4

(* and what it leaves of the invariant, whoever has sent it                *)
LEMMA ReceiveKeeps ==
  ASSUME PeerInv, NEW c \in Calls, NEW outcome \in {"ok", "remote"},
         reader.step = "idle", cause = None, Receive(c, outcome),
         outcome = "ok" => c \in answered', answered \subseteq answered',
         answered' \subseteq Calls, asked' \subseteq asked,
         UNCHANGED <<calls, reply, inVars, outVars, failVars, handlerErrors, open, confirms>>
  PROVE  PeerType' /\ FailInv' /\ CallInv' /\ RequestInv' /\ OpenInv'
<1>1. PeerType'
  BY ReceiveMeans DEF PeerInv, PeerType, Causes, inVars, outVars, failVars
<1>2. FailInv'
  BY ReceiveMeans, HostCauses DEF PeerInv, FailInv, failVars
<1>3. CallInv'
  BY ReceiveMeans DEF PeerInv, CallInv
<1>4. RequestInv'
  BY RequestFrame, HostCauses
<1>5. OpenInv'
  BY OpenFrame DEF outVars
<1> QED
  BY <1>1, <1>2, <1>3, <1>4, <1>5

(* The union of two finite sets is not larger than both together.          *)
LEMMA UnionBound ==
  ASSUME NEW S, NEW T, IsFiniteSet(S), IsFiniteSet(T)
  PROVE  /\ IsFiniteSet(S \cup T)
         /\ Cardinality(S) \in Nat /\ Cardinality(T) \in Nat /\ Cardinality(S \cup T) \in Nat
         /\ Cardinality(S \cup T) <= Cardinality(S) + Cardinality(T)
<1>1. IsFiniteSet(S \cup T) /\ IsFiniteSet(S \cap T)
  BY FS_Union, FS_Intersection
<1>2. /\ Cardinality(S) \in Nat /\ Cardinality(T) \in Nat /\ Cardinality(S \cap T) \in Nat
      /\ Cardinality(S \cup T) \in Nat
  BY <1>1, FS_CardinalityType
<1>3. Cardinality(S \cup T) = Cardinality(S) + Cardinality(T) - Cardinality(S \cap T)
  BY FS_Union
<1> QED
  BY <1>1, <1>2, <1>3

(* A polite message finds room: what the host has handled and not released
   are dialogues and at most one message more.                             *)
LEMMA RoomForPolite ==
  ASSUME PeerInv, cause = None, NEW r \in Requests,
         Cardinality(open) < Window, BytesOf(open) + Size[r] <= WindowBytes
  PROVE  count + 1 <= ControlQueue /\ inBytes + Size[r] <= ControlBytes
<1> DEFINE Late == {q \in Serial : stage[q] = "returned"}
           Held == (open \cup Dialogs) \cup Late
<1>1. IsFiniteSet(Active) /\ count = Cardinality(Active) /\ inBytes = BytesOf(Active)
  BY HostCauses DEF PeerInv, RequestInv
<1>2. /\ IsFiniteSet(Late) /\ Cardinality(Late) <= 1
      /\ BytesOf(Late) \in Nat /\ BytesOf(Late) <= LargestMessage
  <2>1. \A p, q \in Late : p = q
    BY DEF PeerInv, RequestInv, Handled
  <2>2. CASE Late = {}
    BY <2>2, FS_EmptySet, BytesOfNone, RpcAssumption
  <2>3. CASE Late # {}
    <3>1. PICK q \in Late : TRUE
      BY <2>3
    <3>2. Late = {q} /\ q \in Requests
      BY <2>1, <3>1 DEF Serial
    <3>3. IsFiniteSet({q}) /\ Cardinality({q}) = 1
      BY FS_Singleton
    <3>4. BytesOf({q}) \in Nat /\ BytesOf({q}) <= LargestMessage
      BY <3>2, BytesOfOne
    <3> QED
      BY <3>2, <3>3, <3>4
  <2> QED
    BY <2>2, <2>3
<1>3. Active \subseteq Held
  BY DEF Active, PeerInv, OpenInv, Serial
<1>4. IsFiniteSet(open) /\ IsFiniteSet(Dialogs)
  BY RpcAssumption DEF PeerInv, OpenInv
<1> HIDE DEF Late
<1>5. /\ IsFiniteSet(open \cup Dialogs)
      /\ Cardinality(open) \in Nat /\ Cardinality(Dialogs) \in Nat
      /\ Cardinality(open \cup Dialogs) <= Cardinality(open) + Cardinality(Dialogs)
      /\ Cardinality(open \cup Dialogs) \in Nat
  BY <1>4, UnionBound
<1>6. /\ IsFiniteSet(Held) /\ Cardinality(Late) \in Nat /\ Cardinality(Held) \in Nat
      /\ Cardinality(Held) <= Cardinality(open \cup Dialogs) + Cardinality(Late)
  BY <1>2, <1>5, UnionBound
<1>7. BytesOf(Held) <= BytesOf(open \cup Dialogs) + BytesOf(Late)
  BY <1>2, <1>5, BytesOfUnion
<1>8. BytesOf(open \cup Dialogs) <= BytesOf(open) + BytesOf(Dialogs)
  BY <1>4, BytesOfUnion
<1>9. /\ BytesOf(open) \in Nat /\ BytesOf(Dialogs) \in Nat /\ BytesOf(Held) \in Nat
      /\ BytesOf(open \cup Dialogs) \in Nat /\ BytesOf(Active) \in Nat
  BY <1>1, <1>4, <1>5, <1>6, BytesFinite
<1> HIDE DEF Held
<1>10. Cardinality(Active) <= Cardinality(Held) /\ Cardinality(Active) \in Nat
  BY <1>1, <1>3, <1>6, FS_Subset, FS_CardinalityType
<1>11. BytesOf(Active) <= BytesOf(Held)
  BY <1>1, <1>3, <1>6, BytesOfUnion
<1>12. count + 1 <= ControlQueue
  BY <1>1, <1>2, <1>5, <1>6, <1>10, RpcAssumption
<1>13. inBytes + Size[r] <= ControlBytes
  <2>1. Size[r] \in Nat
    BY BytesOfOne
  <2> QED
    BY <1>1, <1>2, <1>7, <1>8, <1>9, <1>11, <2>1, RpcAssumption
<1> QED
  BY <1>12, <1>13

(* A message that enters or leaves the host changes the count by one, and
   the bytes by its size.                                                  *)
LEMMA ActiveChanges ==
  ASSUME PeerInv, NEW r \in Requests, NEW s \in Stages, stage' = [stage EXCEPT ![r] = s]
  PROVE  /\ Active' = IF s \in {"idle", "released"} THEN Active \ {r} ELSE Active \cup {r}
         /\ IsFiniteSet(Active') /\ Cardinality(Active) \in Nat /\ Cardinality(Active') \in Nat
         /\ r \in Active /\ s = "released" =>
              /\ Cardinality(Active') = Cardinality(Active) - 1
              /\ BytesOf(Active') = BytesOf(Active) - Size[r]
         /\ r \notin Active /\ s = "queued" =>
              /\ Cardinality(Active') = Cardinality(Active) + 1
              /\ BytesOf(Active') = BytesOf(Active) + Size[r]
<1>1. Active' = IF s \in {"idle", "released"} THEN Active \ {r} ELSE Active \cup {r}
  BY DEF PeerInv, PeerType, Active, Stages
<1>2. IsFiniteSet(Active)
  BY DEF PeerInv, RequestInv
<1>3. /\ IsFiniteSet(Active \cup {r}) /\ IsFiniteSet(Active \ {r})
      /\ Cardinality(Active \cup {r}) = IF r \in Active THEN Cardinality(Active)
                                                        ELSE Cardinality(Active) + 1
      /\ Cardinality(Active \ {r}) = IF r \in Active THEN Cardinality(Active) - 1
                                                     ELSE Cardinality(Active)
  BY <1>2, FS_AddElement, FS_RemoveElement
<1>4. IsFiniteSet(Active')
  BY <1>1, <1>3, Zenon
<1>5. Cardinality(Active) \in Nat /\ Cardinality(Active') \in Nat
  BY <1>2, <1>4, FS_CardinalityType
<1>6. r \in Active /\ s = "released" =>
        /\ Cardinality(Active') = Cardinality(Active) - 1
        /\ BytesOf(Active') = BytesOf(Active) - Size[r]
  BY <1>1, <1>2, <1>3, BytesChange
<1>7. r \notin Active /\ s = "queued" =>
        /\ Cardinality(Active') = Cardinality(Active) + 1
        /\ BytesOf(Active') = BytesOf(Active) + Size[r]
  BY <1>1, <1>2, <1>3, BytesChange
<1> QED
  BY <1>1, <1>4, <1>5, <1>6, <1>7

(* The calls that wait are told of the failure.                            *)
LEMMA FailPendingKeepsPeerInv ==
  ASSUME PeerInv, FailPending
  PROVE  PeerInv'
<1>1. PeerType'
  BY DEF PeerInv, PeerType, CallStates, Stages, Causes, Message, FailPending,
         failVars, inVars, outVars, pluginVars
<1>2. FailInv'
  BY DEF PeerInv, FailInv, PeerType, FailPending,
         failVars, inVars, outVars, pluginVars
<1>3. CallInv'
  BY DEF PeerInv, CallInv, FailInv, PeerType, FailPending,
         failVars, inVars, outVars, pluginVars
<1>4. AskInv'
  BY DEF PeerInv, AskInv, SentOnce, Known, Sent, PeerType, FailPending,
         failVars, inVars, outVars, pluginVars
<1>5. RequestInv'
  BY RequestFrame, HostCauses DEF FailPending, failVars, inVars, outVars, pluginVars
<1>6. PoliteInv'
  BY DEF PeerInv, PoliteInv, FailPending,
         failVars, inVars, outVars, pluginVars
<1>7. OpenInv'
  BY OpenFrame, HostCauses DEF FailPending, inVars, outVars, pluginVars
<1> QED
  BY <1>1, <1>2, <1>3, <1>4, <1>5, <1>6, <1>7 DEF PeerInv

(* The context is cancelled after the error is set.                        *)
LEMMA CancelPeerKeepsPeerInv ==
  ASSUME PeerInv, CancelPeer
  PROVE  PeerInv'
<1>1. PeerType'
  BY DEF PeerInv, PeerType, CallStates, Stages, Causes, Message, CancelPeer,
         failVars, inVars, outVars, pluginVars
<1>2. FailInv'
  BY DEF PeerInv, FailInv, PeerType, CancelPeer,
         failVars, inVars, outVars, pluginVars
<1>3. CallInv'
  BY DEF PeerInv, CallInv, FailInv, PeerType, CancelPeer,
         failVars, inVars, outVars, pluginVars
<1>4. AskInv'
  BY AskFrame, HostCauses DEF PeerInv, CancelPeer, failVars, inVars, outVars, pluginVars
<1>5. RequestInv'
  BY RequestFrame, HostCauses DEF CancelPeer, failVars, inVars, outVars, pluginVars
<1>6. PoliteInv'
  BY DEF PeerInv, PoliteInv, CancelPeer,
         failVars, inVars, outVars, pluginVars
<1>7. OpenInv'
  BY OpenFrame, HostCauses DEF CancelPeer, inVars, outVars, pluginVars
<1> QED
  BY <1>1, <1>2, <1>3, <1>4, <1>5, <1>6, <1>7 DEF PeerInv

(* Closing from outside is the fault of the host.                          *)
LEMMA CloseFromOutsideKeepsPeerInv ==
  ASSUME PeerInv, CloseFromOutside
  PROVE  PeerInv'
<1>1. PeerType'
  BY DEF PeerInv, PeerType, CallStates, Stages, Causes, Message, CloseFromOutside, Fail,
         failVars, inVars, outVars, pluginVars
<1>2. FailInv'
  BY DEF PeerInv, FailInv, PeerType, CloseFromOutside, Fail,
         failVars, inVars, outVars, pluginVars
<1>3. CallInv'
  BY DEF PeerInv, CallInv, FailInv, PeerType, CloseFromOutside, Fail,
         failVars, inVars, outVars, pluginVars
<1>4. AskInv'
  BY AskFrame, HostCauses DEF PeerInv, CloseFromOutside, Fail, failVars, inVars, outVars, pluginVars
<1>5. RequestInv'
  BY RequestFrame, HostCauses DEF CloseFromOutside, Fail, failVars, inVars, outVars, pluginVars
<1>6. PoliteInv'
  BY DEF PeerInv, PoliteInv, CloseFromOutside, Fail,
         failVars, inVars, outVars, pluginVars
<1>7. OpenInv'
  BY OpenFrame, HostCauses DEF CloseFromOutside, Fail, inVars, outVars, pluginVars
<1> QED
  BY <1>1, <1>2, <1>3, <1>4, <1>5, <1>6, <1>7 DEF PeerInv

(* A call is pending before it is sent.                                    *)
LEMMA RegisterKeepsPeerInv ==
  ASSUME PeerInv, NEW c \in Calls, Register(c)
  PROVE  PeerInv'
<1>1. PeerType'
  BY DEF PeerInv, PeerType, CallStates, Stages, Causes, Message, Register, Return, Settle, Fail,
         failVars, inVars, outVars, pluginVars
<1>2. FailInv'
  BY DEF PeerInv, FailInv, PeerType, Register, Return, Settle, Fail,
         failVars, inVars, outVars, pluginVars
<1>3. CallInv'
  BY DEF PeerInv, CallInv, FailInv, PeerType, Register, Return, Settle, Fail,
         failVars, inVars, outVars, pluginVars
<1>4. AskInv'
  <2>1. /\ UNCHANGED <<outgoing, asked, polite>>
        /\ \A d \in Calls : Sent(d)' => Sent(d)
        /\ SentOnce'
    BY DEF PeerInv, AskInv, SentOnce, Sent, Register, outVars, pluginVars
  <2>2. /\ \A d \in Calls \ {c} : calls'[d] = calls[d]
        /\ ~ Sent(c)
        /\ canceled' = canceled
        /\ \/ cause' # None
           \/ cause' = cause /\ pending' = pending \cup {c}
    BY HostCauses DEF PeerInv, PeerType, AskInv, Register, Return, Settle, Fail
  <2> QED
    BY <2>1, <2>2 DEF PeerInv, AskInv, Known
<1>5. RequestInv'
  BY RequestFrame, HostCauses DEF Register, Return, Settle, Fail, failVars, inVars, outVars, pluginVars
<1>6. PoliteInv'
  BY DEF PeerInv, PoliteInv, Register, Return, Settle, Fail,
         failVars, inVars, outVars, pluginVars
<1>7. OpenInv'
  BY OpenFrame, HostCauses DEF Register, Return, Settle, Fail, inVars, outVars, pluginVars
<1> QED
  BY <1>1, <1>2, <1>3, <1>4, <1>5, <1>6, <1>7 DEF PeerInv

(* A call is sent once, or returns.                                        *)
LEMMA SendCallKeepsPeerInv ==
  ASSUME PeerInv, NEW c \in Calls, SendCall(c)
  PROVE  PeerInv'
<1>1. PeerType'
  <2>1. Send("call", c)
    BY DEF SendCall
  <2>2. outgoing' \in Seq(Message) /\ bytes' = Len(outgoing') /\ Len(outgoing') <= ControlQueue + 1
    BY <2>1, SendTypes DEF PeerInv
  <2>3. cause' \in Causes /\ err' \in Causes
    BY DEF PeerInv, PeerType, Causes, SendCall, Settle, Fail, failVars
  <2> QED
    BY <2>2, <2>3 DEF PeerInv, PeerType, CallStates, Stages, SendCall, Return, PeerError,
         failVars, inVars, pluginVars
<1>2. FailInv'
  BY DEF PeerInv, FailInv, PeerType, SendCall, Send, SendOutcome, Return, Settle, PeerError, Fail,
         failVars, inVars, outVars, pluginVars
<1>3. CallInv'
  BY DEF PeerInv, CallInv, FailInv, PeerType, SendCall, Send, SendOutcome, Return, Settle, PeerError, Fail,
         failVars, inVars, outVars, pluginVars
<1>4. AskInv'
  <2>1. /\ calls[c] = "registered" /\ ~ Sent(c) /\ PeerType /\ SentOnce
        /\ UNCHANGED <<asked, canceled, polite>> /\ Send("call", c)
        /\ cause # None => cause' # None
    BY HostCauses DEF PeerInv, AskInv, SendCall, Settle, Fail, pluginVars
  <2>2. CASE SendOutcome = "sent"
    <3>1. /\ outgoing' = Append(outgoing, [kind |-> "call", id |-> c])
          /\ calls' = [calls EXCEPT ![c] = "waiting"] /\ pending' = pending
      BY <2>2 DEF SendCall, Send
    <3>2. /\ Len(outgoing') = Len(outgoing) + 1 /\ Len(outgoing) \in Nat
          /\ \A i \in 1 .. Len(outgoing) : outgoing'[i] = outgoing[i]
          /\ outgoing'[Len(outgoing) + 1] = [kind |-> "call", id |-> c]
      BY <2>1, <3>1 DEF PeerType
    <3>3. \A i \in 1 .. Len(outgoing) : outgoing[i] # [kind |-> "call", id |-> c]
      BY <2>1 DEF Sent
    <3>4. SentOnce'
      BY <2>1, <3>2, <3>3 DEF SentOnce, Sent
    <3>5. \A d \in Calls : Sent(d)' => Sent(d) \/ d = c
      BY <2>1, <3>2 DEF Sent
    <3> QED
      BY <2>1, <3>1, <3>4, <3>5 DEF PeerInv, PeerType, AskInv, Known
  <2>3. CASE SendOutcome # "sent"
    <3>1. /\ outgoing' = outgoing /\ cause' # None
          /\ calls' = [calls EXCEPT ![c] = "error"]
      BY <2>3, HostCauses
         DEF PeerInv, FailInv, SendCall, Send, SendOutcome, PeerError, Return, Settle, Fail, outVars
    <3>2. SentOnce' /\ \A d \in Calls : Sent(d)' => Sent(d)
      BY <2>1, <3>1 DEF SentOnce, Sent
    <3> QED
      BY <3>1, <3>2 DEF PeerInv, PeerType, AskInv
  <2> QED
    BY <2>2, <2>3
<1>5. RequestInv'
  BY RequestFrame, HostCauses DEF SendCall, Send, SendOutcome, Return, Settle, PeerError, Fail, failVars, inVars, outVars, pluginVars
<1>6. PoliteInv'
  BY DEF PeerInv, PoliteInv, SendCall, Send, SendOutcome, Return, Settle, PeerError, Fail,
         failVars, inVars, outVars, pluginVars
<1>7. OpenInv'
  <2>1. Send("call", c) /\ UNCHANGED <<inVars, open, confirms>> /\ (cause' = None => cause = None)
    BY HostCauses DEF SendCall, Settle, Fail, pluginVars
  <2> QED
    BY <2>1, OpenFrame, SendNoResponse
<1> QED
  BY <1>1, <1>2, <1>3, <1>4, <1>5, <1>6, <1>7 DEF PeerInv

(* A call whose reply is taken was pending no more.                        *)
LEMMA TakeReplyKeepsPeerInv ==
  ASSUME PeerInv, NEW c \in Calls, TakeReply(c)
  PROVE  PeerInv'
<1>1. PeerType'
  BY DEF PeerInv, PeerType, CallStates, Stages, Causes, Message, TakeReply, Return, Settle, Fail,
         failVars, inVars, outVars, pluginVars
<1>2. FailInv'
  BY DEF PeerInv, FailInv, PeerType, TakeReply, Return, Settle, Fail,
         failVars, inVars, outVars, pluginVars
<1>3. CallInv'
  <2>1. calls[c] = "waiting" /\ reply[c] # None /\ pending' = pending \ {c}
    BY DEF TakeReply, Return
  <2>2. calls' = [calls EXCEPT ![c] = IF reply[c] = "ok" THEN "ok" ELSE "error"]
    BY DEF TakeReply, Return
  <2>3. reply' = [reply EXCEPT ![c] = None] /\ UNCHANGED <<reader, answered>>
    BY DEF TakeReply, pluginVars
  <2> QED
    BY <2>1, <2>2, <2>3, RpcAssumption DEF PeerInv, PeerType, CallInv
<1>4. AskInv'
  <2>1. /\ UNCHANGED <<outgoing, asked, polite>>
        /\ \A d \in Calls : Sent(d)' => Sent(d)
        /\ SentOnce'
    BY DEF PeerInv, AskInv, SentOnce, Sent, TakeReply, outVars, pluginVars
  <2>2. /\ \A d \in Calls \ {c} : calls'[d] = calls[d]
        /\ calls'[c] \in {"ok", "error"}
        /\ canceled' = canceled /\ pending' = pending
        /\ cause # None => cause' # None
    BY HostCauses DEF PeerInv, PeerType, CallInv, TakeReply, Return, Settle, Fail
  <2> QED
    BY <2>1, <2>2 DEF PeerInv, AskInv, Known
<1>5. RequestInv'
  BY RequestFrame, HostCauses DEF TakeReply, Return, Settle, Fail, failVars, inVars, outVars, pluginVars
<1>6. PoliteInv'
  BY DEF PeerInv, PoliteInv, TakeReply, Return, Settle, Fail,
         failVars, inVars, outVars, pluginVars
<1>7. OpenInv'
  BY OpenFrame, HostCauses DEF TakeReply, Return, Settle, Fail, inVars, outVars, pluginVars
<1> QED
  BY <1>1, <1>2, <1>3, <1>4, <1>5, <1>6, <1>7 DEF PeerInv

(* A call that sees the cancelled context fails.                           *)
LEMMA SeePeerCancelledKeepsPeerInv ==
  ASSUME PeerInv, NEW c \in Calls, SeePeerCancelled(c)
  PROVE  PeerInv'
<1>1. PeerType'
  BY DEF PeerInv, PeerType, CallStates, Stages, Causes, Message, SeePeerCancelled, Return, Settle, PeerError, Fail,
         failVars, inVars, outVars, pluginVars
<1>2. FailInv'
  BY DEF PeerInv, FailInv, PeerType, SeePeerCancelled, Return, Settle, PeerError, Fail,
         failVars, inVars, outVars, pluginVars
<1>3. CallInv'
  BY DEF PeerInv, CallInv, FailInv, PeerType, SeePeerCancelled, Return, Settle, PeerError, Fail,
         failVars, inVars, outVars, pluginVars
<1>4. AskInv'
  <2>1. /\ UNCHANGED <<outgoing, asked, polite>>
        /\ \A d \in Calls : Sent(d)' => Sent(d)
        /\ SentOnce'
    BY DEF PeerInv, AskInv, SentOnce, Sent, SeePeerCancelled, outVars, pluginVars
  <2>2. /\ \A d \in Calls \ {c} : calls'[d] = calls[d]
        /\ calls'[c] \in {"ok", "error"}
        /\ canceled' = canceled /\ cause # None
        /\ cause # None => cause' # None
    BY HostCauses DEF PeerInv, PeerType, FailInv, SeePeerCancelled, Return, Settle, Fail
  <2> QED
    BY <2>1, <2>2 DEF PeerInv, AskInv, Known
<1>5. RequestInv'
  BY RequestFrame, HostCauses DEF SeePeerCancelled, Return, Settle, PeerError, Fail, failVars, inVars, outVars, pluginVars
<1>6. PoliteInv'
  BY DEF PeerInv, PoliteInv, SeePeerCancelled, Return, Settle, PeerError, Fail,
         failVars, inVars, outVars, pluginVars
<1>7. OpenInv'
  BY OpenFrame, HostCauses DEF SeePeerCancelled, Return, Settle, PeerError, Fail, inVars, outVars, pluginVars
<1> QED
  BY <1>1, <1>2, <1>3, <1>4, <1>5, <1>6, <1>7 DEF PeerInv

(* A call that is given up stays known as cancelled.                       *)
LEMMA ExpireKeepsPeerInv ==
  ASSUME PeerInv, NEW c \in Calls, NEW why \in {"cancelled", "deadline"}, Expire(c, why)
  PROVE  PeerInv'
<1>1. PeerType'
  BY DEF PeerInv, PeerType, CallStates, Stages, Causes, Message, Expire, Fail,
         failVars, inVars, outVars, pluginVars
<1>2. FailInv'
  BY DEF PeerInv, FailInv, PeerType, Expire, Fail,
         failVars, inVars, outVars, pluginVars
<1>3. CallInv'
  BY DEF PeerInv, CallInv, FailInv, PeerType, Expire, Fail,
         failVars, inVars, outVars, pluginVars
<1>4. AskInv'
  BY DEF PeerInv, AskInv, SentOnce, Known, Sent, PeerType, Expire, Fail,
         failVars, inVars, outVars, pluginVars
<1>5. RequestInv'
  BY RequestFrame, HostCauses DEF Expire, Fail, failVars, inVars, outVars, pluginVars
<1>6. PoliteInv'
  BY DEF PeerInv, PoliteInv, Expire, Fail,
         failVars, inVars, outVars, pluginVars
<1>7. OpenInv'
  BY OpenFrame, HostCauses DEF Expire, Fail, inVars, outVars, pluginVars
<1> QED
  BY <1>1, <1>2, <1>3, <1>4, <1>5, <1>6, <1>7 DEF PeerInv

(* The cancellation is no call.                                            *)
LEMMA NotifyCancelKeepsPeerInv ==
  ASSUME PeerInv, NEW c \in Calls, NotifyCancel(c)
  PROVE  PeerInv'
<1>1. PeerType'
  <2>1. Send("cancel", c)
    BY DEF NotifyCancel
  <2>2. outgoing' \in Seq(Message) /\ bytes' = Len(outgoing') /\ Len(outgoing') <= ControlQueue + 1
    BY <2>1, SendTypes DEF PeerInv
  <2>3. cause' \in Causes /\ err' \in Causes
    BY DEF PeerInv, PeerType, Causes, NotifyCancel, FailIfOverflow, Fail, failVars
  <2> QED
    BY <2>2, <2>3 DEF PeerInv, PeerType, CallStates, Stages, NotifyCancel,
         failVars, inVars, pluginVars
<1>2. FailInv'
  BY DEF PeerInv, FailInv, PeerType, NotifyCancel, Send, SendOutcome, FailIfOverflow, Fail,
         failVars, inVars, outVars, pluginVars
<1>3. CallInv'
  BY DEF PeerInv, CallInv, FailInv, PeerType, NotifyCancel, Send, SendOutcome, FailIfOverflow, Fail,
         failVars, inVars, outVars, pluginVars
<1>4. AskInv'
  <2>1. Send("cancel", c) /\ UNCHANGED <<asked, pending, canceled, polite>>
    BY DEF NotifyCancel, pluginVars
  <2>2. SentOnce' /\ \A d \in Calls : Sent(d)' => Sent(d)
    BY <2>1, SendNoCall
  <2>3. /\ calls' = [calls EXCEPT ![c] = "error"]
        /\ cause # None => cause' # None
    BY HostCauses DEF NotifyCancel, FailIfOverflow, Fail
  <2>4. \A d \in Calls : calls'[d] = calls[d] \/ calls'[d] = "error"
    BY <2>3 DEF PeerInv, PeerType
  <2> QED
    BY <2>1, <2>2, <2>3, <2>4 DEF PeerInv, AskInv, Known
<1>5. RequestInv'
  BY RequestFrame, HostCauses DEF NotifyCancel, Send, SendOutcome, FailIfOverflow, Fail, failVars, inVars, outVars, pluginVars
<1>6. PoliteInv'
  BY DEF PeerInv, PoliteInv, NotifyCancel, Send, SendOutcome, FailIfOverflow, Fail,
         failVars, inVars, outVars, pluginVars
<1>7. OpenInv'
  <2>1. Send("cancel", c) /\ UNCHANGED <<inVars, open, confirms>> /\ (cause' = None => cause = None)
    BY HostCauses DEF NotifyCancel, FailIfOverflow, Fail, pluginVars
  <2> QED
    BY <2>1, OpenFrame, SendNoResponse
<1> QED
  BY <1>1, <1>2, <1>3, <1>4, <1>5, <1>6, <1>7 DEF PeerInv

(* What a polite plugin answers is pending or cancelled.                   *)
LEMMA ReadResponseKeepsPeerInv ==
  ASSUME PeerInv, NEW c \in Calls, NEW outcome \in {"ok", "remote"}, ReadResponse(c, outcome)
  PROVE  PeerInv'
<1>0. /\ reader.step = "idle" /\ cause = None /\ Receive(c, outcome)
      /\ outcome = "ok" => c \in answered'
      /\ answered \subseteq answered' /\ answered' \subseteq Calls /\ asked' \subseteq asked
      /\ UNCHANGED <<calls, reply, inVars, outVars, failVars, handlerErrors, open, confirms>>
  BY DEF PeerInv, PeerType, ReadResponse
<1>1. PeerType'
  BY <1>0, ReceiveKeeps
<1>2. FailInv'
  BY <1>0, ReceiveKeeps
<1>3. CallInv'
  BY <1>0, ReceiveKeeps
<1>4. AskInv'
  <2>1. /\ c \in asked /\ asked' = asked \ {c} /\ UNCHANGED <<outgoing, calls, polite>>
        /\ pending' = pending \ {c} /\ canceled' = canceled \ {c} /\ cause = None
    BY DEF ReadResponse, Receive, outVars
  <2>2. \A d \in Calls : Sent(d)' => Sent(d) /\ d # c
    <3>1. \A i \in 1 .. Len(outgoing) : outgoing[i] # [kind |-> "call", id |-> c]
      BY <2>1 DEF PeerInv, AskInv, SentOnce
    <3> QED
      BY <2>1, <3>1 DEF Sent
  <2>3. calls[c] # "registered"
    BY <2>1 DEF PeerInv, AskInv, Sent
  <2>4. SentOnce'
    BY <2>1 DEF PeerInv, AskInv, SentOnce
  <2> QED
    BY <2>1, <2>2, <2>3, <2>4 DEF PeerInv, AskInv, Known
<1>5. RequestInv'
  BY <1>0, ReceiveKeeps
<1>6. PoliteInv'
  <2>1. polite' => Known(c) /\ Sent(c)
    BY DEF PeerInv, AskInv, Sent, ReadResponse
  <2>2. polite' => cause' = None
    BY <1>0, <2>1, ReceiveMeans DEF Known
  <2> QED
    BY <2>2, HostCauses DEF PoliteInv
<1>7. OpenInv'
  BY <1>0, ReceiveKeeps
<1> QED
  BY <1>1, <1>2, <1>3, <1>4, <1>5, <1>6, <1>7 DEF PeerInv

(* A stray response ends the politeness.                                   *)
LEMMA ReadStrayResponseKeepsPeerInv ==
  ASSUME PeerInv, NEW c \in Calls, ReadStrayResponse(c)
  PROVE  PeerInv'
<1>0. /\ reader.step = "idle" /\ cause = None /\ Receive(c, "ok")
      /\ c \in answered'
      /\ answered \subseteq answered' /\ answered' \subseteq Calls /\ asked' \subseteq asked
      /\ UNCHANGED <<calls, reply, inVars, outVars, failVars, handlerErrors, open, confirms>>
  BY DEF PeerInv, PeerType, ReadStrayResponse
<1>1. PeerType'
  BY <1>0, ReceiveKeeps
<1>2. FailInv'
  BY <1>0, ReceiveKeeps
<1>3. CallInv'
  BY <1>0, ReceiveKeeps
<1>4. AskInv'
  BY DEF PeerInv, AskInv, SentOnce, Sent, ReadStrayResponse, outVars
<1>5. RequestInv'
  BY <1>0, ReceiveKeeps
<1>6. PoliteInv'
  BY DEF PoliteInv, ReadStrayResponse
<1>7. OpenInv'
  BY <1>0, ReceiveKeeps
<1> QED
  BY <1>1, <1>2, <1>3, <1>4, <1>5, <1>6, <1>7 DEF PeerInv

(* The response goes into an empty channel.                                *)
LEMMA DeliverKeepsPeerInv ==
  ASSUME PeerInv, Deliver
  PROVE  PeerInv'
<1>1. PeerType'
  BY DEF PeerInv, PeerType, CallStates, Stages, Causes, Message, Deliver, Idle,
         failVars, inVars, outVars, pluginVars
<1>2. FailInv'
  BY DEF PeerInv, FailInv, PeerType, Deliver, Idle,
         failVars, inVars, outVars, pluginVars
<1>3. CallInv'
  BY DEF PeerInv, CallInv, FailInv, PeerType, Deliver, Idle,
         failVars, inVars, outVars, pluginVars
<1>4. AskInv'
  BY AskFrame, HostCauses DEF PeerInv, Deliver, Idle, failVars, inVars, outVars, pluginVars
<1>5. RequestInv'
  BY RequestFrame, HostCauses DEF Deliver, Idle, failVars, inVars, outVars, pluginVars
<1>6. PoliteInv'
  BY DEF PeerInv, PoliteInv, Deliver, Idle,
         failVars, inVars, outVars, pluginVars
<1>7. OpenInv'
  BY OpenFrame, HostCauses DEF Deliver, Idle, inVars, outVars, pluginVars
<1> QED
  BY <1>1, <1>2, <1>3, <1>4, <1>5, <1>6, <1>7 DEF PeerInv

(* A polite request finds its identifier free and room in the queue.       *)
LEMMA ReadRequestKeepsPeerInv ==
  ASSUME PeerInv, NEW r \in Requests, ReadRequest(r)
  PROVE  PeerInv'
<1>0. /\ reader.step = "idle" /\ cause = None /\ Admit(r) /\ stage[r] = "idle"
      /\ incoming = Active \ Notes /\ count = Cardinality(Active) /\ count \in Int
      /\ inBytes = BytesOf(Active) /\ inBytes \in Int /\ PeerType /\ RequestInv
  BY HostCauses DEF ReadRequest, PeerInv, PeerType, RequestInv
<1>s. Size[r] \in Nat
  BY BytesOfOne
<1>a. r \notin incoming /\ r \notin Active
  BY <1>0 DEF Active
<1> DEFINE Room == count + 1 <= ControlQueue /\ inBytes + Size[r] <= ControlBytes
<1>b. \/ /\ ~ Room /\ cause' = "plugin"
         /\ reader' = [step |-> "stopped", call |-> None, outcome |-> None]
         /\ UNCHANGED <<requests, stage>>
      \/ /\ Room /\ UNCHANGED <<cause, reader>>
         /\ requests' = Append(requests, r) /\ stage' = [stage EXCEPT ![r] = "queued"]
         /\ count' = count + 1 /\ inBytes' = inBytes + Size[r]
  BY <1>0, <1>s, <1>a, StoppedReader, RpcAssumption DEF Admit, Fail
<1>c. /\ incoming' = IF r \in Notes THEN incoming ELSE incoming \cup {r}
      /\ count' \in Int /\ inBytes' \in Int
  BY <1>0, <1>s, <1>a DEF Admit
<1>d. /\ open' = open \cup {r}
      /\ confirms' = [confirms EXCEPT ![r] = IF r \in Serial \ Notes THEN open \cap Serial \cap Notes ELSE {}]
      /\ outgoing' = outgoing
  BY DEF ReadRequest, outVars
<1> HIDE DEF Room
<1>1. PeerType'
  <2>1. /\ requests' \in Seq(Requests) /\ stage' \in [Requests -> Stages] /\ cause' \in Causes
        /\ count' \in Int /\ inBytes' \in Int /\ incoming' \in SUBSET Requests
        /\ open' \in SUBSET Requests /\ confirms' \in [Requests -> SUBSET Requests]
        /\ reader' \in [step : {"idle", "deliver", "stopped"}, call : Calls \cup {None},
                        outcome : {None, "ok", "remote"}]
    <3>1. /\ requests \in Seq(Requests) /\ stage \in [Requests -> Stages] /\ cause \in Causes
          /\ reader \in [step : {"idle", "deliver", "stopped"}, call : Calls \cup {None},
                         outcome : {None, "ok", "remote"}]
          /\ incoming \in SUBSET Requests
      BY <1>0 DEF PeerType
    <3>2. requests' \in Seq(Requests) /\ stage' \in [Requests -> Stages]
      <4>1. requests' = requests \/ requests' = Append(requests, r)
        BY <1>b
      <4>2. stage' = stage \/ stage' = [stage EXCEPT ![r] = "queued"]
        BY <1>b
      <4>3. requests' \in Seq(Requests)
        BY <3>1, <4>1
      <4> QED
        BY <3>1, <4>2, <4>3 DEF Stages
    <3>3. /\ cause' \in Causes
          /\ reader' \in [step : {"idle", "deliver", "stopped"}, call : Calls \cup {None},
                          outcome : {None, "ok", "remote"}]
      BY <1>b, <3>1 DEF Causes
    <3>4. open' \in SUBSET Requests /\ confirms' \in [Requests -> SUBSET Requests]
      BY <1>0, <1>d DEF PeerType
    <3> QED
      BY <1>c, <3>1, <3>2, <3>3, <3>4
  <2> QED
    BY <1>0, <2>1 DEF PeerType, ReadRequest, failVars, outVars
<1>2. FailInv'
  BY <1>0, <1>b, HostCauses DEF PeerInv, FailInv, ReadRequest, failVars
<1>3. CallInv'
  BY <1>b DEF PeerInv, CallInv, ReadRequest
<1>4. AskInv'
  BY AskFrame, HostCauses DEF PeerInv, ReadRequest, Admit, Stopped, Idle, Fail, failVars, inVars, outVars, pluginVars
<1>5. RequestInv'
  <2>1. CASE cause' = "plugin" /\ UNCHANGED <<requests, stage>>
    <3>1. Active' = Active
      BY <2>1 DEF Active
    <3> QED
      BY <1>0, <2>1, <3>1 DEF RequestInv, Handled
  <2>2. CASE /\ Room /\ cause' = cause
             /\ requests' = Append(requests, r) /\ stage' = [stage EXCEPT ![r] = "queued"]
             /\ count' = count + 1 /\ inBytes' = inBytes + Size[r]
    <3>1. /\ Active' = Active \cup {r} /\ IsFiniteSet(Active')
          /\ Cardinality(Active') = Cardinality(Active) + 1
          /\ BytesOf(Active') = BytesOf(Active) + Size[r]
      BY <1>0, <1>a, <2>2, ActiveChanges DEF Stages
    <3>2. /\ requests \in Seq(Requests) /\ Len(requests) \in Nat
          /\ Len(requests') = Len(requests) + 1 /\ requests'[Len(requests) + 1] = r
          /\ \A i \in 1 .. Len(requests) : requests'[i] = requests[i] /\ requests[i] \in Requests
      BY <1>0, <2>2 DEF PeerType
    <3>3. \A i \in 1 .. Len(requests) : requests[i] # r
      BY <1>0 DEF RequestInv
    <3>4. \A i \in 1 .. Len(requests') : stage'[requests'[i]] = "queued"
      BY <1>0, <2>2, <3>2, <3>3 DEF RequestInv, PeerType
    <3>5. \A i, j \in 1 .. Len(requests') : requests'[i] = requests'[j] => i = j
      BY <1>0, <3>2, <3>3 DEF RequestInv
    <3>6. \A q \in Requests : Handled(q)' <=> Handled(q)
      BY <1>0, <2>2 DEF Handled, PeerType
    <3>7. incoming' = Active' \ Notes
      BY <1>0, <1>c, <3>1
    <3>8. Cardinality(Active') <= ControlQueue
      BY <1>0, <2>2, <3>1 DEF Room
    <3>9. \A p, q \in Serial : Handled(p)' /\ Handled(q)' => p = q
      BY <1>0, <3>6 DEF RequestInv, Serial
    <3> QED
      BY <1>0, <2>2, <3>1, <3>4, <3>5, <3>7, <3>8, <3>9 DEF RequestInv
  <2> QED
    BY <1>b, <2>1, <2>2
<1>6. PoliteInv'
  <2>1. polite' => Cardinality(open) < Window /\ BytesOf(open) + Size[r] <= WindowBytes
    BY DEF ReadRequest
  <2>2. polite' => Room
    BY <1>0, <2>1, RoomForPolite DEF Room
  <2>3. Room => cause' # "plugin"
    BY <1>0, <1>b, HostCauses
  <2> QED
    BY <2>2, <2>3 DEF PoliteInv
<1>7. OpenInv'
  <2>1. IsFiniteSet(open')
    BY <1>d, FS_AddElement DEF PeerInv, OpenInv
  <2> SUFFICES ASSUME cause' = None PROVE OpenInv'
    BY <2>1 DEF OpenInv
  <2>2. requests' = Append(requests, r) /\ stage' = [stage EXCEPT ![r] = "queued"]
    BY <1>b, HostCauses
  <2>3. /\ \A q \in Requests : stage'[q] = IF q = r THEN "queued" ELSE stage[q]
        /\ \A q \in Requests : q # r => confirms'[q] = confirms[q]
        /\ confirms'[r] = IF r \in Serial \ Notes THEN open \cap Serial \cap Notes ELSE {}
        /\ open \subseteq Requests /\ Serial \subseteq Requests
    BY <1>0, <1>d, <2>2 DEF PeerType, Serial
  <2>4. /\ Len(requests) \in Nat /\ Len(requests') = Len(requests) + 1
        /\ requests'[Len(requests) + 1] = r
        /\ \A i \in 1 .. Len(requests) : requests'[i] = requests[i] /\ requests[i] # r
    <3>1. requests \in Seq(Requests)
      BY <1>0 DEF PeerType
    <3>2. \A i \in 1 .. Len(requests) : requests[i] # r
      BY <1>0 DEF RequestInv
    <3> QED
      BY <2>2, <3>1, <3>2
  <2>5. OpenInv /\ cause = None
    BY <1>0 DEF PeerInv
  <2>6. \A q \in open' : stage'[q] # "idle"
    BY <1>d, <2>3, <2>5 DEF OpenInv
  <2>7. \A q \in Serial : stage'[q] \in {"queued", "handling"} => q \in open'
    BY <1>d, <2>3, <2>5 DEF OpenInv
  <2>8. \A q \in Requests : stage'[q] = "queued" => \E i \in 1 .. Len(requests') : requests'[i] = q
    <3> SUFFICES ASSUME NEW q \in Requests, stage'[q] = "queued"
                 PROVE  \E i \in 1 .. Len(requests') : requests'[i] = q
      OBVIOUS
    <3>1. CASE q = r
      BY <2>4, <3>1
    <3>2. CASE q # r
      <4>1. PICK i \in 1 .. Len(requests) : requests[i] = q
        BY <2>3, <2>5, <3>2 DEF OpenInv
      <4> QED
        BY <2>4, <4>1
    <3> QED
      BY <3>1, <3>2
  <2>9. \A i \in 1 .. Len(outgoing') : outgoing'[i].kind = "response" =>
          outgoing'[i].id \in Requests /\ stage'[outgoing'[i].id] \in {"returned", "released"}
    BY <1>0, <1>d, <2>3, <2>5 DEF OpenInv, Ended
  <2>10. ASSUME NEW q \in Requests, NEW n \in confirms'[q]
         PROVE  /\ q \in Serial \ Notes /\ n \in Serial \cap Notes /\ stage'[n] # "idle"
                /\ stage'[q] = "queued" => Behind(q, n)'
                /\ stage'[q] = "handling" \/ Ended(q)' => stage'[n] = "released"
    <3>1. CASE q = r
      <4>1. r \in Serial \ Notes /\ n \in open \cap Serial \cap Notes /\ n # r
        BY <2>3, <2>10, <3>1
      <4>2. Behind(r, n)'
        BY <2>4, <4>1 DEF Behind
      <4> QED
        BY <2>3, <2>5, <3>1, <4>1, <4>2 DEF OpenInv, Ended
    <3>2. CASE q # r
      <4>1. /\ q \in Serial \ Notes /\ n \in Serial \cap Notes /\ stage[n] # "idle"
            /\ stage[q] = "queued" => Behind(q, n)
            /\ stage[q] = "handling" \/ Ended(q) => stage[n] = "released"
        BY <2>3, <2>5, <2>10, <3>2 DEF OpenInv
      <4>2. n # r
        BY <1>0, <4>1
      <4>3. Behind(q, n) => Behind(q, n)'
        BY <2>4, <3>2, <4>2 DEF Behind
      <4> QED
        BY <2>3, <3>2, <4>1, <4>2, <4>3 DEF Ended
    <3> QED
      BY <3>1, <3>2
  <2> QED
    BY <2>1, <2>6, <2>7, <2>8, <2>9, <2>10 DEF OpenInv, Ended
<1> QED
  BY <1>1, <1>2, <1>3, <1>4, <1>5, <1>6, <1>7 DEF PeerInv

(* A repeated identifier ends the politeness.                              *)
LEMMA ReadDuplicateKeepsPeerInv ==
  ASSUME PeerInv, NEW r \in Requests, ReadDuplicate(r)
  PROVE  PeerInv'
<1>0. /\ cause = None /\ cause' = "plugin"
      /\ reader' = [step |-> "stopped", call |-> None, outcome |-> None]
      /\ UNCHANGED <<count, inBytes, requests, stage, open, confirms>> /\ incoming' \subseteq Requests
  BY StoppedReader DEF PeerInv, PeerType, ReadDuplicate, Admit, Fail
<1>1. PeerType'
  BY <1>0 DEF PeerInv, PeerType, Causes, ReadDuplicate, failVars, outVars
<1>2. FailInv'
  BY <1>0, HostCauses DEF PeerInv, FailInv, ReadDuplicate, failVars
<1>3. CallInv'
  BY <1>0 DEF PeerInv, CallInv, ReadDuplicate
<1>4. AskInv'
  BY AskFrame, HostCauses DEF PeerInv, ReadDuplicate, Admit, Stopped, Idle, Fail, failVars, inVars, outVars, pluginVars
<1>5. RequestInv'
  <2>1. Active' = Active
    BY <1>0 DEF Active
  <2> QED
    BY <1>0, <2>1 DEF PeerInv, RequestInv, Handled
<1>6. PoliteInv'
  BY DEF PoliteInv, ReadDuplicate
<1>7. OpenInv'
  BY <1>0, HostCauses DEF PeerInv, OpenInv, ReadDuplicate
<1> QED
  BY <1>1, <1>2, <1>3, <1>4, <1>5, <1>6, <1>7 DEF PeerInv

(* A response is no call, and its request stays counted.                   *)
LEMMA RespondKeepsPeerInv ==
  ASSUME PeerInv, NEW r \in Requests, Respond(r)
  PROVE  PeerInv'
<1>1. PeerType'
  <2>1. Send("response", r)
    BY DEF Respond
  <2>2. outgoing' \in Seq(Message) /\ bytes' = Len(outgoing') /\ Len(outgoing') <= ControlQueue + 1
    BY <2>1, SendTypes DEF PeerInv
  <2>3. cause' \in Causes /\ err' \in Causes
    BY DEF PeerInv, PeerType, Causes, Respond, FailIfOverflow, Fail, failVars
  <2> QED
    BY <2>2, <2>3 DEF PeerInv, PeerType, CallStates, Stages, Respond,
         failVars, inVars, pluginVars
<1>2. FailInv'
  BY DEF PeerInv, FailInv, PeerType, Respond, Send, SendOutcome, FailIfOverflow, Fail,
         failVars, inVars, outVars, pluginVars
<1>3. CallInv'
  BY DEF PeerInv, CallInv, FailInv, PeerType, Respond, Send, SendOutcome, FailIfOverflow, Fail,
         failVars, inVars, outVars, pluginVars
<1>4. AskInv'
  <2>1. Send("response", r) /\ UNCHANGED <<asked, calls, pending, canceled, polite>>
    BY DEF Respond, pluginVars
  <2>2. SentOnce' /\ \A d \in Calls : Sent(d)' => Sent(d)
    BY <2>1, SendNoCall
  <2>3. cause # None => cause' # None
    BY HostCauses DEF Respond, FailIfOverflow, Fail
  <2> QED
    BY <2>1, <2>2, <2>3 DEF PeerInv, AskInv, Known
<1>5. RequestInv'
  <2>1. stage' = [stage EXCEPT ![r] = "returned"] /\ stage[r] = "handling"
        /\ UNCHANGED <<requests, incoming, count, inBytes>> /\ (cause' # "plugin" => cause # "plugin")
    BY HostCauses DEF Respond, FailIfOverflow, Fail, PeerInv, PeerType
  <2>2. /\ Active' = Active /\ IsFiniteSet(Active')
        /\ Cardinality(Active) \in Nat /\ Cardinality(Active') \in Nat
    BY <2>1, ActiveChanges DEF Stages, Active
  <2>3. \A i \in 1 .. Len(requests') : stage'[requests'[i]] = "queued"
    BY <2>1 DEF PeerInv, PeerType, RequestInv
  <2>4. \A q \in Requests : Handled(q)' => Handled(q)
    BY <2>1 DEF Handled, PeerInv, PeerType
  <2> QED
    BY <2>1, <2>2, <2>3, <2>4 DEF PeerInv, PeerType, RequestInv, Serial
<1>6. PoliteInv'
  BY DEF PeerInv, PoliteInv, Respond, Send, SendOutcome, FailIfOverflow, Fail,
         failVars, inVars, outVars, pluginVars
<1>7. OpenInv'
  <2>1. /\ PeerType /\ Send("response", r)
        /\ stage[r] = "handling" /\ stage' = [stage EXCEPT ![r] = "returned"]
        /\ UNCHANGED <<requests, open, confirms>> /\ (cause' = None => cause = None)
    BY HostCauses DEF PeerInv, Respond, FailIfOverflow, Fail, pluginVars
  <2>2. \A i \in 1 .. Len(outgoing') : outgoing'[i].kind = "response" =>
          \/ \E j \in 1 .. Len(outgoing) : outgoing'[i] = outgoing[j]
          \/ outgoing'[i].id = r
    <3>1. CASE outgoing' = outgoing
      BY <3>1
    <3>2. CASE outgoing' = Append(outgoing, [kind |-> "response", id |-> r])
      <4>1. /\ Len(outgoing') = Len(outgoing) + 1 /\ Len(outgoing) \in Nat
            /\ \A i \in 1 .. Len(outgoing) : outgoing'[i] = outgoing[i]
            /\ outgoing'[Len(outgoing) + 1].id = r
        BY <2>1, <3>2 DEF PeerType
      <4> QED
        BY <4>1
    <3> QED
      BY <2>1, <3>1, <3>2, SendTypes
  <2> QED
    BY <2>1, <2>2, OpenMoves
<1> QED
  BY <1>1, <1>2, <1>3, <1>4, <1>5, <1>6, <1>7 DEF PeerInv

(* A notification is handled without a response.                           *)
LEMMA FinishNotificationKeepsPeerInv ==
  ASSUME PeerInv, NEW r \in Requests, FinishNotification(r)
  PROVE  PeerInv'
<1>1. PeerType'
  BY DEF PeerInv, PeerType, CallStates, Stages, Causes, Message, FinishNotification,
         failVars, inVars, outVars, pluginVars
<1>2. FailInv'
  BY DEF PeerInv, FailInv, PeerType, FinishNotification,
         failVars, inVars, outVars, pluginVars
<1>3. CallInv'
  BY DEF PeerInv, CallInv, FailInv, PeerType, FinishNotification,
         failVars, inVars, outVars, pluginVars
<1>4. AskInv'
  BY AskFrame, HostCauses DEF PeerInv, FinishNotification, failVars, inVars, outVars, pluginVars
<1>5. RequestInv'
  <2>1. stage' = [stage EXCEPT ![r] = "returned"] /\ stage[r] = "handling"
        /\ UNCHANGED <<requests, incoming, count, inBytes>> /\ (cause' # "plugin" => cause # "plugin")
    BY HostCauses DEF FinishNotification, PeerInv, PeerType
  <2>2. /\ Active' = Active /\ IsFiniteSet(Active')
        /\ Cardinality(Active) \in Nat /\ Cardinality(Active') \in Nat
    BY <2>1, ActiveChanges DEF Stages, Active
  <2>3. \A i \in 1 .. Len(requests') : stage'[requests'[i]] = "queued"
    BY <2>1 DEF PeerInv, PeerType, RequestInv
  <2>4. \A q \in Requests : Handled(q)' => Handled(q)
    BY <2>1 DEF Handled, PeerInv, PeerType
  <2> QED
    BY <2>1, <2>2, <2>3, <2>4 DEF PeerInv, PeerType, RequestInv, Serial
<1>6. PoliteInv'
  BY DEF PeerInv, PoliteInv, FinishNotification,
         failVars, inVars, outVars, pluginVars
<1>7. OpenInv'
  BY OpenMoves, HostCauses DEF FinishNotification, outVars, pluginVars
<1> QED
  BY <1>1, <1>2, <1>3, <1>4, <1>5, <1>6, <1>7 DEF PeerInv

(* A failing handler is the fault of the host.                             *)
LEMMA HandlerFailsKeepsPeerInv ==
  ASSUME PeerInv, NEW r \in Requests, HandlerFails(r)
  PROVE  PeerInv'
<1>1. PeerType'
  BY DEF PeerInv, PeerType, CallStates, Stages, Causes, Message, HandlerFails, Fail,
         failVars, inVars, outVars, pluginVars
<1>2. FailInv'
  BY DEF PeerInv, FailInv, PeerType, HandlerFails, Fail,
         failVars, inVars, outVars, pluginVars
<1>3. CallInv'
  BY DEF PeerInv, CallInv, FailInv, PeerType, HandlerFails, Fail,
         failVars, inVars, outVars, pluginVars
<1>4. AskInv'
  BY AskFrame, HostCauses DEF PeerInv, HandlerFails, Fail, failVars, inVars, outVars, pluginVars
<1>5. RequestInv'
  <2>1. stage' = [stage EXCEPT ![r] = "returned"] /\ stage[r] = "handling"
        /\ UNCHANGED <<requests, incoming, count, inBytes>> /\ (cause' # "plugin" => cause # "plugin")
    BY HostCauses DEF HandlerFails, Fail, PeerInv, PeerType
  <2>2. /\ Active' = Active /\ IsFiniteSet(Active')
        /\ Cardinality(Active) \in Nat /\ Cardinality(Active') \in Nat
    BY <2>1, ActiveChanges DEF Stages, Active
  <2>3. \A i \in 1 .. Len(requests') : stage'[requests'[i]] = "queued"
    BY <2>1 DEF PeerInv, PeerType, RequestInv
  <2>4. \A q \in Requests : Handled(q)' => Handled(q)
    BY <2>1 DEF Handled, PeerInv, PeerType
  <2> QED
    BY <2>1, <2>2, <2>3, <2>4 DEF PeerInv, PeerType, RequestInv, Serial
<1>6. PoliteInv'
  BY DEF PeerInv, PoliteInv, HandlerFails, Fail,
         failVars, inVars, outVars, pluginVars
<1>7. OpenInv'
  BY OpenMoves, HostCauses DEF HandlerFails, Fail, outVars, pluginVars
<1> QED
  BY <1>1, <1>2, <1>3, <1>4, <1>5, <1>6, <1>7 DEF PeerInv

(* A released request is counted no more.                                  *)
LEMMA ReleaseKeepsPeerInv ==
  ASSUME PeerInv, NEW r \in Requests, Release(r)
  PROVE  PeerInv'
<1>1. PeerType'
  BY DEF PeerInv, PeerType, CallStates, Stages, Causes, Message, Release,
         failVars, inVars, outVars, pluginVars
<1>2. FailInv'
  BY DEF PeerInv, FailInv, PeerType, Release,
         failVars, inVars, outVars, pluginVars
<1>3. CallInv'
  BY DEF PeerInv, CallInv, FailInv, PeerType, Release,
         failVars, inVars, outVars, pluginVars
<1>4. AskInv'
  BY AskFrame, HostCauses DEF PeerInv, Release, failVars, inVars, outVars, pluginVars
<1>5. RequestInv'
  <2>1. stage' = [stage EXCEPT ![r] = "released"] /\ stage[r] = "returned"
        /\ UNCHANGED <<requests, cause>> /\ incoming' = incoming \ {r}
        /\ count' = count - 1 /\ inBytes' = inBytes - Size[r]
    BY HostCauses DEF Release, PeerInv, PeerType
  <2>2. /\ Active' = Active \ {r} /\ IsFiniteSet(Active')
        /\ Cardinality(Active) \in Nat /\ Cardinality(Active') \in Nat
        /\ Cardinality(Active') = Cardinality(Active) - 1
        /\ BytesOf(Active') = BytesOf(Active) - Size[r]
    BY <2>1, ActiveChanges DEF Stages, Active
  <2>3. \A i \in 1 .. Len(requests') : stage'[requests'[i]] = "queued"
    BY <2>1 DEF PeerInv, PeerType, RequestInv
  <2>4. \A q \in Requests : Handled(q)' => Handled(q)
    BY <2>1 DEF Handled, PeerInv, PeerType
  <2>5. Cardinality(Active) <= ControlQueue => Cardinality(Active') <= ControlQueue
    BY <2>2, RpcAssumption
  <2>6. cause' # "plugin" =>
          /\ incoming' = Active' \ Notes
          /\ count' = Cardinality(Active') /\ inBytes' = BytesOf(Active')
    BY <2>1, <2>2 DEF PeerInv, RequestInv
  <2> QED
    BY <2>1, <2>2, <2>3, <2>4, <2>5, <2>6 DEF PeerInv, RequestInv, Serial
<1>6. PoliteInv'
  BY DEF PeerInv, PoliteInv, Release,
         failVars, inVars, outVars, pluginVars
<1>7. OpenInv'
  BY OpenMoves, HostCauses DEF Release, Fail, outVars, pluginVars
<1> QED
  BY <1>1, <1>2, <1>3, <1>4, <1>5, <1>6, <1>7 DEF PeerInv

(* The plugin has the message.                                             *)
LEMMA WriteKeepsPeerInv ==
  ASSUME PeerInv, Write
  PROVE  PeerInv'
<1>1. PeerType'
  <2>1. outgoing \in Seq(Message) /\ outgoing # <<>> /\ bytes = Len(outgoing)
    BY DEF PeerInv, PeerType, Write
  <2>2. /\ outgoing' = Tail(outgoing) /\ bytes' = bytes - 1
    BY DEF Write
  <2>3. /\ outgoing' \in Seq(Message) /\ bytes' = Len(outgoing') /\ Len(outgoing') <= Len(outgoing)
        /\ Len(outgoing) \in Nat /\ Len(outgoing') \in Nat
    BY <2>1, <2>2
  <2>4. asked' \in SUBSET Calls
    <3>1. Head(outgoing) = outgoing[1] /\ 1 \in 1 .. Len(outgoing)
      BY <2>1
    <3> QED
      BY <3>1 DEF PeerInv, PeerType, AskInv, SentOnce, Write
  <2>5. Len(outgoing') <= ControlQueue + 1
    BY <2>3, RpcAssumption DEF PeerInv, PeerType
  <2>6. open' \in SUBSET Requests
    BY DEF PeerInv, PeerType, Write
  <2> QED
    BY <2>3, <2>4, <2>5, <2>6 DEF PeerInv, PeerType, Write, failVars, inVars
<1>2. FailInv'
  BY DEF PeerInv, FailInv, PeerType, Write,
         failVars, inVars, outVars, pluginVars
<1>3. CallInv'
  BY DEF PeerInv, CallInv, FailInv, PeerType, Write,
         failVars, inVars, outVars, pluginVars
<1>4. AskInv'
  <2>1. /\ outgoing \in Seq(Message) /\ outgoing # <<>> /\ outgoing' = Tail(outgoing)
        /\ UNCHANGED <<calls, pending, canceled, cause, polite>>
    BY DEF PeerInv, PeerType, Write
  <2>2. /\ Len(outgoing) \in Nat \ {0} /\ Len(outgoing') = Len(outgoing) - 1
        /\ \A i \in 1 .. Len(outgoing') : outgoing'[i] = outgoing[i + 1] /\ i + 1 \in 1 .. Len(outgoing)
        /\ Head(outgoing) = outgoing[1] /\ outgoing[1] \in Message
    BY <2>1
  <2>3. asked' = IF outgoing[1].kind = "call" THEN asked \cup {outgoing[1].id} ELSE asked
    BY <2>2 DEF Write
  <2>4. outgoing[1].kind = "call" => outgoing[1] = [kind |-> "call", id |-> outgoing[1].id]
    BY <2>2 DEF Message
  <2>5. \A c \in Calls : Sent(c)' => Sent(c)
    BY <2>2, <2>3, <2>4 DEF Sent
  <2>6. \A i \in 1 .. Len(outgoing') : outgoing'[i].kind = "call" => outgoing'[i].id \in Calls \ asked'
    <3> SUFFICES ASSUME NEW i \in 1 .. Len(outgoing'), outgoing'[i].kind = "call"
                 PROVE  outgoing'[i].id \in Calls \ asked'
      OBVIOUS
    <3>1. outgoing[i + 1].kind = "call" /\ outgoing[i + 1].id \in Calls \ asked
      BY <2>2 DEF PeerInv, AskInv, SentOnce
    <3>2. outgoing[i + 1] # outgoing[1]
      BY <2>2, <3>1 DEF PeerInv, AskInv, SentOnce
    <3>3. outgoing[i + 1] \in Message
      BY <2>1, <2>2
    <3>4. outgoing[1].kind = "call" => outgoing[1].id # outgoing[i + 1].id
      BY <2>2, <3>1, <3>2, <3>3 DEF Message
    <3> QED
      BY <2>2, <2>3, <3>1, <3>4
  <2>7. \A i, j \in 1 .. Len(outgoing') :
          outgoing'[i].kind = "call" /\ outgoing'[i] = outgoing'[j] => i = j
    <3> SUFFICES ASSUME NEW i \in 1 .. Len(outgoing'), NEW j \in 1 .. Len(outgoing'),
                        outgoing'[i].kind = "call", outgoing'[i] = outgoing'[j]
                 PROVE  i = j
      OBVIOUS
    <3>1. i + 1 = j + 1
      BY <2>2 DEF PeerInv, AskInv, SentOnce
    <3> QED
      BY <3>1
  <2> QED
    BY <2>1, <2>5, <2>6, <2>7 DEF PeerInv, AskInv, SentOnce, Known
<1>5. RequestInv'
  BY RequestFrame, HostCauses DEF Write, failVars, inVars, outVars, pluginVars
<1>6. PoliteInv'
  BY DEF PeerInv, PoliteInv, Write,
         failVars, inVars, outVars, pluginVars
<1>7. OpenInv'
  <2>1. /\ outgoing \in Seq(Message) /\ outgoing # <<>> /\ outgoing' = Tail(outgoing)
        /\ UNCHANGED <<requests, stage, confirms>> /\ cause = None /\ OpenInv
        /\ confirms \in [Requests -> SUBSET Requests] /\ Serial \subseteq Requests
    BY DEF PeerInv, PeerType, Write, inVars, Serial
  <2>2. /\ Len(outgoing) \in Nat \ {0} /\ Len(outgoing') = Len(outgoing) - 1
        /\ \A i \in 1 .. Len(outgoing') : outgoing'[i] = outgoing[i + 1] /\ i + 1 \in 1 .. Len(outgoing)
        /\ Head(outgoing) = outgoing[1] /\ 1 \in 1 .. Len(outgoing)
    BY <2>1
  <2>3. open' = IF outgoing[1].kind = "response"
                THEN open \ ({outgoing[1].id} \cup confirms[outgoing[1].id]) ELSE open
    BY <2>2 DEF Write
  <2>4. IsFiniteSet(open') /\ open' \subseteq open
    <3>1. open' \in SUBSET open
      BY <2>3
    <3> QED
      BY <2>1, <3>1, FS_Subset DEF OpenInv
  <2>5. \A q \in Serial : stage[q] \in {"queued", "handling"} => q \in open'
    <3> SUFFICES ASSUME NEW q \in Serial, stage[q] \in {"queued", "handling"} PROVE q \in open'
      OBVIOUS
    <3>1. q \in open
      BY <2>1 DEF OpenInv
    <3>2. ASSUME outgoing[1].kind = "response"
          PROVE  q # outgoing[1].id /\ q \notin confirms[outgoing[1].id]
      <4>1. outgoing[1].id \in Requests /\ Ended(outgoing[1].id)
        BY <2>1, <2>2, <3>2 DEF OpenInv
      <4>2. \A n \in confirms[outgoing[1].id] : stage[n] = "released"
        BY <2>1, <4>1 DEF OpenInv
      <4> QED
        BY <4>1, <4>2 DEF Ended
    <3> QED
      BY <2>3, <3>1, <3>2
  <2>6. \A i \in 1 .. Len(outgoing') : outgoing'[i].kind = "response" =>
          outgoing'[i].id \in Requests /\ stage'[outgoing'[i].id] \in {"returned", "released"}
    BY <2>1, <2>2 DEF OpenInv, Ended
  <2>7. \A q \in open' : stage'[q] # "idle"
    BY <2>1, <2>4 DEF OpenInv
  <2>8. \A q \in Requests : \A n \in confirms'[q] :
          /\ q \in Serial \ Notes /\ n \in Serial \cap Notes /\ stage'[n] # "idle"
          /\ stage'[q] = "queued" => Behind(q, n)'
          /\ stage'[q] = "handling" \/ Ended(q)' => stage'[n] = "released"
    BY <2>1 DEF OpenInv, Behind, Ended
  <2>9. \A q \in Requests : stage'[q] = "queued" => \E i \in 1 .. Len(requests') : requests'[i] = q
    BY <2>1 DEF OpenInv
  <2> QED
    BY <2>1, <2>4, <2>5, <2>6, <2>7, <2>8, <2>9 DEF OpenInv, Ended
<1> QED
  BY <1>1, <1>2, <1>3, <1>4, <1>5, <1>6, <1>7 DEF PeerInv

(* One request is taken at a time, besides the dialogues.                  *)
LEMMA TakeRequestKeepsPeerInv ==
  ASSUME PeerInv, TakeRequest
  PROVE  PeerInv'
<1>1. PeerType'
  BY DEF PeerInv, PeerType, CallStates, Stages, Causes, Message, TakeRequest,
         failVars, inVars, outVars, pluginVars
<1>2. FailInv'
  BY DEF PeerInv, FailInv, PeerType, TakeRequest,
         failVars, inVars, outVars, pluginVars
<1>3. CallInv'
  BY DEF PeerInv, CallInv, FailInv, PeerType, TakeRequest,
         failVars, inVars, outVars, pluginVars
<1>4. AskInv'
  BY AskFrame, HostCauses DEF PeerInv, TakeRequest, failVars, inVars, outVars, pluginVars
<1>5. RequestInv'
  <2>1. /\ requests \in Seq(Requests) /\ requests # <<>> /\ requests' = Tail(requests)
        /\ stage' = [stage EXCEPT ![Head(requests)] = "handling"]
        /\ UNCHANGED <<incoming, count, inBytes, cause>>
        /\ \A r \in Serial : ~ Handled(r)
    BY DEF PeerInv, PeerType, TakeRequest
  <2>2. /\ Len(requests) \in Nat \ {0} /\ Len(requests') = Len(requests) - 1
        /\ \A i \in 1 .. Len(requests') : requests'[i] = requests[i + 1] /\ i + 1 \in 1 .. Len(requests)
        /\ Head(requests) = requests[1] /\ requests[1] \in Requests
        /\ \A i \in 1 .. Len(requests) : requests[i] \in Requests
    BY <2>1
  <2>3. stage[requests[1]] = "queued"
    BY <2>2 DEF PeerInv, RequestInv
  <2>4. stage' = [stage EXCEPT ![requests[1]] = "handling"]
    BY <2>1, <2>2
  <2>5. Active' = Active /\ IsFiniteSet(Active')
    BY <2>2, <2>3, <2>4, ActiveChanges DEF Stages, Active
  <2>6. \A i, j \in 1 .. Len(requests') : requests'[i] = requests'[j] => i = j
    <3> SUFFICES ASSUME NEW i \in 1 .. Len(requests'), NEW j \in 1 .. Len(requests'),
                        requests'[i] = requests'[j]
                 PROVE  i = j
      OBVIOUS
    <3>1. i + 1 = j + 1
      BY <2>2 DEF PeerInv, RequestInv
    <3> QED
      BY <3>1
  <2>7. \A i \in 1 .. Len(requests') : stage'[requests'[i]] = "queued"
    <3> SUFFICES ASSUME NEW i \in 1 .. Len(requests')
                 PROVE  stage'[requests'[i]] = "queued"
      OBVIOUS
    <3>1. requests[i + 1] # requests[1]
      BY <2>2 DEF PeerInv, RequestInv
    <3>2. stage[requests[i + 1]] = "queued"
      BY <2>2 DEF PeerInv, RequestInv
    <3> QED
      BY <2>2, <2>4, <3>1, <3>2 DEF PeerInv, PeerType
  <2>8. \A q \in Requests : Handled(q)' => Handled(q) \/ q = requests[1]
    BY <2>4 DEF Handled, PeerInv, PeerType
  <2> QED
    BY <2>1, <2>5, <2>6, <2>7, <2>8 DEF PeerInv, PeerType, RequestInv, Serial
<1>6. PoliteInv'
  BY DEF PeerInv, PoliteInv, TakeRequest,
         failVars, inVars, outVars, pluginVars
<1>7. OpenInv'
  <2>1. /\ requests \in Seq(Requests) /\ requests # <<>> /\ requests' = Tail(requests)
        /\ stage' = [stage EXCEPT ![Head(requests)] = "handling"] /\ stage \in [Requests -> Stages]
        /\ UNCHANGED <<outgoing, open, confirms>> /\ cause = None /\ OpenInv
        /\ \A q \in Serial : ~ Handled(q)
        /\ confirms \in [Requests -> SUBSET Requests]
        /\ open \subseteq Requests /\ Serial \subseteq Requests
    BY DEF PeerInv, PeerType, TakeRequest, outVars, pluginVars, Serial
  <2>2. /\ Len(requests) \in Nat \ {0} /\ Len(requests') = Len(requests) - 1
        /\ \A i \in 1 .. Len(requests') : requests'[i] = requests[i + 1] /\ i + 1 \in 1 .. Len(requests)
        /\ Head(requests) = requests[1] /\ requests[1] \in Requests
    BY <2>1
  <2>3. stage[requests[1]] = "queued"
    BY <2>2 DEF PeerInv, RequestInv
  <2>4. \A q \in Requests : stage'[q] = IF q = requests[1] THEN "handling" ELSE stage[q]
    BY <2>1, <2>2
  <2>5. \A q \in open' : stage'[q] # "idle"
    BY <2>1, <2>4 DEF OpenInv
  <2>6. \A q \in Serial : stage'[q] \in {"queued", "handling"} => q \in open'
    BY <2>1, <2>3, <2>4 DEF OpenInv
  <2>7. \A q \in Requests : stage'[q] = "queued" => \E i \in 1 .. Len(requests') : requests'[i] = q
    <3> SUFFICES ASSUME NEW q \in Requests, stage'[q] = "queued"
                 PROVE  \E i \in 1 .. Len(requests') : requests'[i] = q
      OBVIOUS
    <3>1. q # requests[1] /\ stage[q] = "queued"
      BY <2>4
    <3>2. PICK i \in 1 .. Len(requests) : requests[i] = q
      BY <2>1, <3>1 DEF OpenInv
    <3>3. i - 1 \in 1 .. Len(requests')
      BY <2>2, <3>1, <3>2
    <3>4. requests'[i - 1] = requests[(i - 1) + 1]
      BY <2>2, <3>3
    <3> QED
      BY <3>2, <3>3, <3>4
  <2>8. \A i \in 1 .. Len(outgoing') : outgoing'[i].kind = "response" =>
          outgoing'[i].id \in Requests /\ stage'[outgoing'[i].id] \in {"returned", "released"}
    BY <2>1, <2>3, <2>4 DEF OpenInv, Ended
  <2>9. ASSUME NEW q \in Requests, NEW n \in confirms'[q]
        PROVE  /\ q \in Serial \ Notes /\ n \in Serial \cap Notes /\ stage'[n] # "idle"
               /\ stage'[q] = "queued" => Behind(q, n)'
               /\ stage'[q] = "handling" \/ Ended(q)' => stage'[n] = "released"
    <3>1. /\ q \in Serial \ Notes /\ n \in Serial \cap Notes /\ stage[n] # "idle"
          /\ stage[q] = "queued" => Behind(q, n)
          /\ stage[q] = "handling" \/ Ended(q) => stage[n] = "released"
      BY <2>1, <2>9 DEF OpenInv
    <3>2. Behind(q, n) => Behind(q, n)'
      <4> SUFFICES ASSUME Behind(q, n), NEW i \in 1 .. Len(requests'), NEW j \in 1 .. Len(requests'),
                          requests'[i] = q, requests'[j] = n
                   PROVE  j < i
        BY DEF Behind
      <4>1. /\ i + 1 \in 1 .. Len(requests) /\ j + 1 \in 1 .. Len(requests)
            /\ requests[i + 1] = q /\ requests[j + 1] = n
        BY <2>2
      <4>2. j + 1 < i + 1
        BY <4>1 DEF Behind
      <4> QED
        BY <4>2
    <3>3. CASE q = requests[1]
      <4>1. stage[n] \notin {"handling", "returned"} /\ n \in Requests
        BY <2>1, <3>1 DEF Handled
      <4>2. stage[n] # "queued"
        <5> SUFFICES ASSUME stage[n] = "queued" PROVE FALSE
          OBVIOUS
        <5>1. PICK j \in 1 .. Len(requests) : requests[j] = n
          BY <2>1, <4>1 DEF OpenInv
        <5>2. Behind(q, n)
          BY <2>3, <3>1, <3>3
        <5>3. j < 1
          BY <2>2, <3>3, <5>1, <5>2 DEF Behind
        <5> QED
          BY <5>1, <5>3
      <4>3. stage[n] = "released"
        BY <2>1, <3>1, <4>1, <4>2 DEF Stages
      <4> QED
        BY <2>3, <2>4, <3>1, <3>3, <4>1, <4>3
    <3>4. CASE q # requests[1]
      <4>1. stage'[q] = stage[q] /\ n \in Requests
        BY <2>1, <2>4, <3>1, <3>4
      <4>2. stage[n] = "released" => stage'[n] = "released"
        BY <2>3, <2>4, <4>1
      <4>3. stage'[n] # "idle"
        BY <2>4, <3>1, <4>1
      <4> QED
        BY <3>1, <3>2, <4>1, <4>2, <4>3 DEF Ended
    <3> QED
      BY <3>3, <3>4
  <2> QED
    BY <2>1, <2>5, <2>6, <2>7, <2>8, <2>9 DEF OpenInv, Ended
<1> QED
  BY <1>1, <1>2, <1>3, <1>4, <1>5, <1>6, <1>7 DEF PeerInv

-----------------------------------------------------------------------------
(* The theorems                                                            *)

(* A new peer has sent and received nothing.                               *)
LEMMA InitPeerInv == RpcInit => PeerInv
<1> SUFFICES ASSUME RpcInit PROVE PeerInv
  OBVIOUS
<1>1. PeerType
  BY RpcAssumption DEF RpcInit, PeerType, CallStates, Stages, Causes, Idle
<1>2. FailInv /\ CallInv /\ PoliteInv
  BY HostCauses, RpcAssumption DEF RpcInit, FailInv, CallInv, PoliteInv, Idle
<1>3. AskInv
  BY DEF RpcInit, AskInv, SentOnce, Sent, Known
<1>4. RequestInv
  <2>1. Active = {}
    BY DEF RpcInit, Active
  <2>2. IsFiniteSet(Active) /\ Cardinality(Active) = 0
    BY <2>1, FS_EmptySet
  <2> QED
    BY <2>1, <2>2, BytesOfNone, RpcAssumption DEF RpcInit, RequestInv, Handled, Serial
<1>5. OpenInv
  BY FS_EmptySet DEF RpcInit, OpenInv, Serial
<1> QED
  BY <1>1, <1>2, <1>3, <1>4, <1>5 DEF PeerInv

(* A step that changes nothing keeps the invariant.                        *)
LEMMA StutterKeepsPeerInv ==
  ASSUME PeerInv, UNCHANGED rpcVars
  PROVE  PeerInv'
<1>1. /\ UNCHANGED <<calls, reply, pending, canceled, incoming, count, inBytes, requests, stage>>
      /\ UNCHANGED <<outgoing, bytes, reader, cause, err, cancelled>>
      /\ UNCHANGED <<asked, answered, polite, open, confirms>>
  BY DEF rpcVars
<1>2. PeerType' /\ FailInv' /\ CallInv' /\ PoliteInv'
  BY <1>1 DEF PeerInv, PeerType, FailInv, CallInv, PoliteInv
<1>3. AskInv'
  BY <1>1, AskFrame DEF outVars
<1>4. RequestInv'
  BY <1>1, RequestFrame DEF inVars
<1>5. OpenInv'
  BY <1>1, OpenFrame DEF inVars
<1> QED
  BY <1>2, <1>3, <1>4, <1>5 DEF PeerInv

(* Every step keeps the invariant.                                         *)
LEMMA StepKeepsPeerInv == PeerInv /\ [RpcNext]_rpcVars => PeerInv'
<1> SUFFICES ASSUME PeerInv, [RpcNext]_rpcVars PROVE PeerInv'
  OBVIOUS
<1>1. CASE FailPending \/ CancelPeer \/ CloseFromOutside \/ Deliver
  BY <1>1, FailPendingKeepsPeerInv, CancelPeerKeepsPeerInv, CloseFromOutsideKeepsPeerInv,
     DeliverKeepsPeerInv
<1>2. ASSUME NEW c \in Calls, CallStep(c) PROVE PeerInv'
  <2>1. ASSUME NEW why \in {"cancelled", "deadline"}, Expire(c, why) PROVE PeerInv'
    BY <2>1, ExpireKeepsPeerInv
  <2> QED
    BY <1>2, <2>1, RegisterKeepsPeerInv, SendCallKeepsPeerInv, TakeReplyKeepsPeerInv,
       SeePeerCancelledKeepsPeerInv, NotifyCancelKeepsPeerInv DEF CallStep
<1>3. ASSUME NEW c \in Calls, NEW outcome \in {"ok", "remote"}, ReadResponse(c, outcome)
      PROVE  PeerInv'
  BY <1>3, ReadResponseKeepsPeerInv
<1>4. ASSUME NEW c \in Calls, ReadStrayResponse(c) PROVE PeerInv'
  BY <1>4, ReadStrayResponseKeepsPeerInv
<1>5. ASSUME NEW r \in Requests, ReadRequest(r) \/ ReadDuplicate(r) PROVE PeerInv'
  BY <1>5, ReadRequestKeepsPeerInv, ReadDuplicateKeepsPeerInv
<1>6. ASSUME NEW r \in Requests,
             Respond(r) \/ FinishNotification(r) \/ HandlerFails(r) \/ Release(r)
      PROVE  PeerInv'
  BY <1>6, RespondKeepsPeerInv, FinishNotificationKeepsPeerInv, HandlerFailsKeepsPeerInv,
     ReleaseKeepsPeerInv
<1>7. CASE Write \/ TakeRequest
  BY <1>7, WriteKeepsPeerInv, TakeRequestKeepsPeerInv
<1>8. CASE Closed \/ UNCHANGED rpcVars
  BY <1>8, StutterKeepsPeerInv DEF Closed
<1> QED
  BY <1>1, <1>2, <1>3, <1>4, <1>5, <1>6, <1>7, <1>8 DEF RpcNext

(* The identifiers in the queue are distinct requests in progress, so that
   the queue is not longer than their bound.                               *)
LEMMA QueueFits ==
  ASSUME PeerInv
  PROVE  Len(requests) <= ControlQueue
<1> DEFINE At == [i \in 1 .. Len(requests) |-> requests[i]]
<1>1. requests \in Seq(Requests) /\ Len(requests) \in Nat
  BY DEF PeerInv, PeerType
<1>2. At \in Injection(1 .. Len(requests), Active)
  <2>1. \A i \in 1 .. Len(requests) : requests[i] \in Active
    BY <1>1 DEF PeerInv, RequestInv, Active
  <2>2. At \in [1 .. Len(requests) -> Active]
    BY <2>1
  <2>3. \A i, j \in 1 .. Len(requests) : At[i] = At[j] => i = j
    BY DEF PeerInv, RequestInv
  <2> HIDE DEF At
  <2> QED
    BY <2>2, <2>3 DEF Injection, IsInjective
<1>3. IsFiniteSet(Active) /\ Cardinality(Active) <= ControlQueue
  BY DEF PeerInv, RequestInv
<1>4. Cardinality(1 .. Len(requests)) <= Cardinality(Active)
  BY <1>2, <1>3, FS_Injection
<1>5. Cardinality(1 .. Len(requests)) = Len(requests)
  <2>1. Cardinality(1 .. Len(requests)) = IF 1 > Len(requests) THEN 0 ELSE Len(requests) - 1 + 1
    <3>1. 1 \in Int /\ Len(requests) \in Int
      BY <1>1
    <3> QED
      BY <3>1, FS_Interval, Zenon
  <2> QED
    BY <1>1, <2>1
<1>6. Cardinality(Active) \in Nat
  BY <1>3, FS_CardinalityType
<1> QED
  BY <1>1, <1>3, <1>4, <1>5, <1>6, RpcAssumption

(* The invariant holds in every reachable state.                           *)
THEOREM PeerInvariantHolds == RpcSpec => []PeerInv
<1>1. RpcInit => PeerInv
  BY InitPeerInv
<1>2. PeerInv /\ [RpcNext]_rpcVars => PeerInv'
  BY StepKeepsPeerInv
<1> QED
  BY <1>1, <1>2, PTL DEF RpcSpec

(* Types, and the capacities of both queues                                *)
THEOREM PeerTypeCorrect == RpcSpec => []RpcTypeOK
<1>1. PeerInv => RpcTypeOK
  <2> SUFFICES ASSUME PeerInv PROVE RpcTypeOK
    OBVIOUS
  <2> QED
    BY QueueFits DEF PeerInv, PeerType, CallStates, RpcTypeOK
<1> QED
  BY <1>1, PeerInvariantHolds, PTL

(* A plugin that answers every call once, uses every identifier once and has
   at most Window messages of WindowBytes open is never stopped for it
   (rpc.go:239-276, 296-330, 366-386).                                     *)
THEOREM PoliteIsNeverStopped == RpcSpec => []PoliteNeverStopped
<1>1. PeerInv => PoliteNeverStopped
  <2> SUFFICES ASSUME PeerInv PROVE PoliteNeverStopped
    OBVIOUS
  <2> QED
    BY QueueFits DEF PeerInv, PoliteInv, PoliteNeverStopped
<1> QED
  BY <1>1, PeerInvariantHolds, PTL

(* The counts and bytes of both directions are exact, a call succeeds only when the
   plugin has answered it, and neither read nor Fail waits on a channel
   (rpc.go:159-211, 263-330).                                              *)
THEOREM BooksAreExact == RpcSpec => []BooksExact
<1>1. PeerInv => BooksExact
  <2> SUFFICES ASSUME PeerInv PROVE BooksExact
    OBVIOUS
  <2>1. AccountsExact
    <3>1. {r \in Requests : stage[r] = "queued" \/ Handled(r)} = Active
      BY DEF Active, Handled
    <3> QED
      BY <3>1 DEF PeerInv, PeerType, RequestInv, AccountsExact
  <2>2. SuccessIsAnswered
    BY DEF PeerInv, CallInv, SuccessIsAnswered
  <2>3. RepliesFit
    BY DEF PeerInv, PeerType, CallInv, RepliesFit
  <2> QED
    BY <2>1, <2>2, <2>3 DEF BooksExact
<1> QED
  BY <1>1, PeerInvariantHolds, PTL

=============================================================================
