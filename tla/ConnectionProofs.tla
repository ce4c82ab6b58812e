---------------------------- MODULE ConnectionProofs ----------------------------
(***************************************************************************)
(* That the copies of all clients stay in step with Core, and that a       *)
(* closed connection leaves nothing behind: for any number of clients,     *)
(* requests and mutations.                                                 *)
(***************************************************************************)
EXTENDS Connection, SequenceTheorems, TLAPS

ScreenType == {"none", "shown", "refused", "waiting", "focusing", "focused", "over"}

\* What a command may have for its client while its connection is closing
Early == {"no", "cancelled"}

(* A client that is connected is not closed; a closing connection gives up *)
(* its subscription, its invocations, its link and its editors in turn.    *)
ClosingInv ==
  \A c \in Clients :
    /\ c \in up => closing[c] = "no"
    /\ c \notin up => inbox[c] = <<>> /\ down[c] = <<>>
    /\ dropping[c] # {} => closing[c] = "unlinked"
    /\ \A e \in dropping[c] : OwnerOf[e] = c

(* A request is on its way at most once, and not handled yet.              *)
RequestInv ==
  \A c \in Clients : \A i \in DOMAIN inbox[c] :
    LET r == inbox[c][i].request IN
    inbox[c][i].kind = "request" =>
      /\ r \in Requests /\ OwnerOf[r] = c /\ stage[r] = "sent"
      /\ \A j \in DOMAIN inbox[c] :
           inbox[c][j].kind = "request" /\ inbox[c][j].request = r => j = i

(* A question is asked by a command and has an address; who shows it is    *)
(* the client it was sent to, and still connected.                         *)
Open == ScreenType \ {"none", "over"}

AskInv ==
  /\ \A r \in Requests : ask[r].at # "none" => ask[r].kind \in Runs
  /\ \A r \in Requests : screen[r] \in Open => ask[r].at # "none" /\ ask[r].to \in up
  /\ \A c \in Clients : \A i \in DOMAIN down[c] :
       LET r == down[c][i].request IN
       down[c][i].kind \in Runs => r \in Requests /\ ask[r].at # "none" /\ ask[r].to = c

(* A call is handled for a client that is synchronized, until Close takes  *)
(* its subscription; a command has its context only while it runs.         *)
CallInv ==
  /\ \A r \in Requests :
       stage[r] \in CallStages =>
         /\ closing[OwnerOf[r]] # "closed"
         /\ closing[OwnerOf[r]] \in Early => OwnerOf[r] \in stored
  /\ \A r \in contexts : stage[r] = "captured"

(* Who cleans an editor up: the call that starts it, the connection while  *)
(* it has a link, Detach, or the call that has claimed it.                 *)
EditorOK(e) ==
  LET c == OwnerOf[e] IN
  /\ editor[e].entry = "none" =>
       /\ stage[e] \notin {"filed", "started", "unwanted"} =>
            ~ editor[e].file /\ editor[e].pane = "none"
       /\ stage[e] = "filed" => editor[e].pane = "none"
  /\ editor[e].entry # "none" => stage[e] = "over"
  /\ editor[e].entry = "kept" =>
       /\ closing[c] # "closed"
       /\ closing[c] \in Early => c \in stored
       /\ closing[c] = "unlinked" => e \in dropping[c]
  /\ editor[e].entry = "dropped" => e \in dropping[c]
  /\ editor[e].entry = "claimed" =>
       \E r \in Requests : stage[r] = "claimed" /\ EditorOf[r] = e /\ OwnerOf[r] = c
  /\ editor[e].entry = "over" => ~ editor[e].file /\ editor[e].pane = "gone"

EditorInv ==
  /\ \A e \in Requests : EditorOK(e)
  /\ \A r \in Requests : stage[r] = "claimed" => editor[EditorOf[r]].entry \in {"claimed", "over"}

(* The next event continues the snapshot that is still to be sent, or the  *)
(* last frame that was, and the last event is Core's revision.             *)
Joining(c) == sync[c].at # "idle"

Follows(q, n, m) ==
  /\ \A i \in DOMAIN q : q[i] = n + i
  /\ m = n + Len(q)

\* What a client has when it has read what is on its way to it
Reaches(q, s, n) ==
  /\ n # 0
  /\ Projecting(q) = {} => s = n
  /\ \A i \in Projecting(q) : (\A j \in Projecting(q) : j <= i) => q[i].revision = n

StreamOK(c) ==
  /\ c \in subscribed <=> c \in forwarding \/ Joining(c)
  /\ c \in stored <=> c \in forwarding \/ sync[c].at \in {"stored", "attached"}
  /\ c \in forwarding =>
       /\ ~ Joining(c)
       /\ \E n \in Nat : Reaches(down[c], seen[c], n) /\ Follows(events[c], n, revision)
  /\ c \notin forwarding => Projecting(down[c]) = {} /\ seen[c] = 0
  /\ Joining(c) =>
       /\ sync[c].snapshot # 0
       /\ Follows(events[c], sync[c].snapshot, revision)
  /\ c \notin subscribed => events[c] = <<>>

StreamInv ==
  /\ revision # 0
  /\ \A c \in up : StreamOK(c)
  /\ \A c \in Clients : StepByStep(down[c], seen[c])

ConnectionInv ==
  /\ ConnectionTypeOK
  /\ ClosingInv
  /\ RequestInv
  /\ AskInv
  /\ CallInv
  /\ EditorInv
  /\ StreamInv
-----------------------------------------------------------------------------
(* Queues of frames                                                        *)

\* A sequence with one element more
LEMMA AppendOf ==
  ASSUME NEW S, NEW q \in Seq(S), NEW x \in S
  PROVE  /\ Append(q, x) \in Seq(S)
         /\ Len(q) \in Nat /\ DOMAIN q = 1 .. Len(q)
         /\ DOMAIN Append(q, x) = 1 .. Len(q) + 1 /\ Len(Append(q, x)) = Len(q) + 1
         /\ \A i \in 1 .. Len(q) : Append(q, x)[i] = q[i]
         /\ Append(q, x)[Len(q) + 1] = x
  OBVIOUS

\* A sequence without its first element
LEMMA TailOf ==
  ASSUME NEW S, NEW q \in Seq(S), q # <<>>
  PROVE  /\ Tail(q) \in Seq(S)
         /\ Len(q) \in Nat /\ Len(q) >= 1 /\ DOMAIN q = 1 .. Len(q)
         /\ Head(q) = q[1] /\ Head(q) \in S
         /\ DOMAIN Tail(q) = 1 .. Len(q) - 1 /\ Len(Tail(q)) = Len(q) - 1
         /\ \A i \in 1 .. Len(q) - 1 : Tail(q)[i] = q[i + 1]
  OBVIOUS

\* The frames on their way to a client are read in step and lead it to n.
Leads(q, s, n) == StepByStep(q, s) /\ Reaches(q, s, n)

\* A frame that does not change the projection may be sent at any time.
LEMMA SendOther ==
  ASSUME NEW q \in Seq(Frames), NEW f \in Frames, f.kind \notin {"snapshot", "event"}
  PROVE  /\ Projecting(Append(q, f)) = Projecting(q)
         /\ \A s \in Nat : StepByStep(q, s) => StepByStep(Append(q, f), s)
         /\ \A s, n \in Nat : Reaches(q, s, n) => Reaches(Append(q, f), s, n)
<1> DEFINE p == Append(q, f)
<1>1. /\ DOMAIN q = 1 .. Len(q) /\ Len(q) \in Nat /\ DOMAIN p = 1 .. Len(q) + 1
      /\ \A i \in 1 .. Len(q) : p[i] = q[i]
      /\ p[Len(q) + 1] = f
  BY AppendOf
<1> HIDE DEF p
<1>2. Projecting(p) = Projecting(q)
  BY <1>1 DEF Projecting
<1>3. \A i \in Projecting(q) : p[i] = q[i]
  BY <1>1 DEF Projecting
<1>4. \A s \in Nat : StepByStep(q, s) => StepByStep(p, s)
  BY <1>2, <1>3 DEF StepByStep
<1>5. \A s, n \in Nat : Reaches(q, s, n) => Reaches(p, s, n)
  BY <1>2, <1>3 DEF Reaches
<1> QED
  BY <1>2, <1>4, <1>5 DEF p

\* It may be read at any time.
LEMMA ReadOther ==
  ASSUME NEW q \in Seq(Frames), q # <<>>, Head(q).kind \notin {"snapshot", "event"}
  PROVE  /\ Projecting(q) = {} => Projecting(Tail(q)) = {}
         /\ \A s \in Nat : StepByStep(q, s) => StepByStep(Tail(q), s)
         /\ \A s, n \in Nat : Reaches(q, s, n) => Reaches(Tail(q), s, n)
<1> DEFINE p == Tail(q)
<1>1. /\ DOMAIN q = 1 .. Len(q) /\ Len(q) \in Nat /\ DOMAIN p = 1 .. Len(q) - 1
      /\ \A i \in 1 .. Len(q) - 1 : p[i] = q[i + 1]
      /\ Head(q) = q[1]
  BY TailOf
<1> HIDE DEF p
<1>2. /\ Projecting(q) \subseteq Nat /\ Projecting(p) \subseteq Nat
      /\ \A i \in Projecting(q) : i - 1 \in Projecting(p) /\ p[i - 1] = q[i]
      /\ \A i \in Projecting(p) : i + 1 \in Projecting(q) /\ p[i] = q[i + 1]
  BY <1>1 DEF Projecting
<1>3. ASSUME NEW s \in Nat, StepByStep(q, s)
      PROVE  StepByStep(p, s)
  <2> SUFFICES ASSUME NEW i \in Projecting(p)
               PROVE  /\ {j \in Projecting(p) : j < i} = {} /\ s # 0 => p[i].revision = s + 1
                      /\ \A k \in {j \in Projecting(p) : j < i} :
                           (\A j \in {j \in Projecting(p) : j < i} : j <= k) =>
                             p[i].revision = p[k].revision + 1
    BY DEF StepByStep
  <2>1. i + 1 \in Projecting(q) /\ p[i] = q[i + 1]
    BY <1>2
  <2>2. ASSUME {j \in Projecting(p) : j < i} = {}
        PROVE  {j \in Projecting(q) : j < i + 1} = {}
    BY <1>2, <2>2
  <2>3. ASSUME NEW k \in Projecting(p), k < i, \A j \in Projecting(p) : j < i => j <= k
        PROVE  /\ k + 1 \in {j \in Projecting(q) : j < i + 1} /\ p[k] = q[k + 1]
               /\ \A j \in {j \in Projecting(q) : j < i + 1} : j <= k + 1
    <3>1. i \in Nat /\ k \in Nat /\ k + 1 \in Projecting(q) /\ p[k] = q[k + 1]
      BY <1>2, <2>3
    <3>2. ASSUME NEW j \in Projecting(q), j < i + 1 PROVE j <= k + 1
      <4>1. j \in Nat /\ j - 1 \in Projecting(p)
        BY <1>2, <3>2
      <4> QED
        BY <2>3, <3>1, <3>2, <4>1
    <3> QED
      BY <2>3, <3>1, <3>2
  <2> QED
    BY <1>3, <2>1, <2>2, <2>3 DEF StepByStep
<1>4. ASSUME NEW s \in Nat, NEW n \in Nat, Reaches(q, s, n)
      PROVE  Reaches(p, s, n)
  <2>1. Projecting(p) = {} => Projecting(q) = {}
    BY <1>2
  <2>2. ASSUME NEW i \in Projecting(p), \A j \in Projecting(p) : j <= i
        PROVE  i + 1 \in Projecting(q) /\ \A j \in Projecting(q) : j <= i + 1
    BY <1>2, <2>2
  <2> QED
    BY <1>2, <1>4, <2>1, <2>2 DEF Reaches
<1> QED
  BY <1>2, <1>3, <1>4 DEF p

\* The next event leads one revision further.
LEMMA SendEvent ==
  ASSUME NEW q \in Seq(Frames), NEW f \in Frames, f.kind = "event",
         NEW s \in Nat, NEW n \in Nat, Leads(q, s, n), f.revision = n + 1
  PROVE  Leads(Append(q, f), s, n + 1)
<1> DEFINE p == Append(q, f)
           l == Len(q) + 1
<1>1. /\ DOMAIN q = 1 .. Len(q) /\ Len(q) \in Nat /\ DOMAIN p = 1 .. l
      /\ \A i \in 1 .. Len(q) : p[i] = q[i]
      /\ p[l] = f
  BY AppendOf
<1> HIDE DEF p
<1>2. /\ Projecting(p) = Projecting(q) \cup {l} /\ l \in Nat
      /\ \A i \in Projecting(q) : p[i] = q[i] /\ i < l /\ i \in Nat
  BY <1>1 DEF Projecting
<1> HIDE DEF l
<1>3. Reaches(p, s, n + 1)
  BY <1>1, <1>2 DEF Reaches
<1>4. StepByStep(p, s)
  <2>1. \A i \in Projecting(q) :
          {j \in Projecting(p) : j < i} = {j \in Projecting(q) : j < i}
    BY <1>2
  <2>2. {j \in Projecting(p) : j < l} = Projecting(q)
    BY <1>2
  <2>3. Projecting(q) = {} /\ s # 0 => p[l].revision = s + 1
    BY <1>1 DEF Leads, Reaches
  <2>4. \A k \in Projecting(q) : (\A j \in Projecting(q) : j <= k) =>
          p[l].revision = p[k].revision + 1
    BY <1>1, <1>2 DEF Leads, Reaches
  <2>5. \A i \in Projecting(q) :
          LET before == {j \in Projecting(p) : j < i} IN
          /\ before = {} /\ s # 0 => p[i].revision = s + 1
          /\ \A k \in before : (\A j \in before : j <= k) => p[i].revision = p[k].revision + 1
    BY <1>2, <2>1 DEF Leads, StepByStep
  <2> QED
    BY <1>2, <2>2, <2>3, <2>4, <2>5 DEF StepByStep
<1> QED
  BY <1>3, <1>4 DEF Leads, p

\* The snapshot comes first, and leads to its own revision.
LEMMA SendSnapshot ==
  ASSUME NEW q \in Seq(Frames), NEW f \in Frames, f.kind = "snapshot",
         Projecting(q) = {}, f.revision # 0
  PROVE  Leads(Append(q, f), 0, f.revision)
<1> DEFINE p == Append(q, f)
           l == Len(q) + 1
<1>1. /\ DOMAIN q = 1 .. Len(q) /\ Len(q) \in Nat /\ DOMAIN p = 1 .. l
      /\ \A i \in 1 .. Len(q) : p[i] = q[i]
      /\ p[l] = f
  BY AppendOf
<1> HIDE DEF p
<1>2. Projecting(p) = {l} /\ l \in Nat
  BY <1>1 DEF Projecting
<1> HIDE DEF l
<1> QED
  BY <1>1, <1>2 DEF Leads, StepByStep, Reaches, p

\* A client that reads the next frame takes one step.
LEMMA ReadProjection ==
  ASSUME NEW q \in Seq(Frames), q # <<>>, Head(q).kind \in {"snapshot", "event"},
         NEW s \in Nat, NEW n \in Nat, Leads(q, s, n)
  PROVE  Leads(Tail(q), Head(q).revision, n)
<1> DEFINE p == Tail(q)
           v == Head(q).revision
<1>1. /\ DOMAIN q = 1 .. Len(q) /\ Len(q) \in Nat /\ Len(q) >= 1 /\ DOMAIN p = 1 .. Len(q) - 1
      /\ \A i \in 1 .. Len(q) - 1 : p[i] = q[i + 1]
      /\ Head(q) = q[1]
  BY TailOf
<1> HIDE DEF p
<1>2. /\ Projecting(q) \subseteq Nat \ {0} /\ Projecting(p) \subseteq Nat \ {0}
      /\ 1 \in Projecting(q) /\ q[1].revision = v
      /\ \A i \in Projecting(q) \ {1} : i - 1 \in Projecting(p) /\ p[i - 1] = q[i]
      /\ \A i \in Projecting(p) : i + 1 \in Projecting(q) /\ p[i] = q[i + 1]
  BY <1>1 DEF Projecting
<1> HIDE DEF v
<1>3. StepByStep(p, v)
  <2> SUFFICES ASSUME NEW i \in Projecting(p)
               PROVE  /\ {j \in Projecting(p) : j < i} = {} /\ v # 0 => p[i].revision = v + 1
                      /\ \A k \in {j \in Projecting(p) : j < i} :
                           (\A j \in {j \in Projecting(p) : j < i} : j <= k) =>
                             p[i].revision = p[k].revision + 1
    BY DEF StepByStep
  <2>1. i + 1 \in Projecting(q) /\ p[i] = q[i + 1]
    BY <1>2
  <2>2. ASSUME {j \in Projecting(p) : j < i} = {}
        PROVE  /\ 1 \in {j \in Projecting(q) : j < i + 1}
               /\ \A j \in {j \in Projecting(q) : j < i + 1} : j <= 1
    BY <1>2, <2>2
  <2>3. ASSUME NEW k \in Projecting(p), k < i, \A j \in Projecting(p) : j < i => j <= k
        PROVE  /\ k + 1 \in {j \in Projecting(q) : j < i + 1} /\ p[k] = q[k + 1]
               /\ \A j \in {j \in Projecting(q) : j < i + 1} : j <= k + 1
    <3>1. i \in Nat /\ k \in Nat /\ k + 1 \in Projecting(q) /\ p[k] = q[k + 1]
      BY <1>2, <2>3
    <3>2. ASSUME NEW j \in Projecting(q), j < i + 1 PROVE j <= k + 1
      <4>1. CASE j = 1
        BY <3>1, <4>1
      <4>2. CASE j # 1
        <5>1. j \in Nat /\ j - 1 \in Projecting(p)
          BY <1>2, <3>2, <4>2
        <5> QED
          BY <2>3, <3>1, <3>2, <5>1
      <4> QED
        BY <4>1, <4>2
    <3> QED
      BY <2>3, <3>1, <3>2
  <2>4. ASSUME {j \in Projecting(p) : j < i} = {}
        PROVE  p[i].revision = v + 1
    BY <1>2, <2>1, <2>2, <2>4 DEF Leads, StepByStep
  <2>5. ASSUME NEW k \in Projecting(p), k < i, \A j \in Projecting(p) : j < i => j <= k
        PROVE  p[i].revision = p[k].revision + 1
    BY <2>1, <2>3, <2>5 DEF Leads, StepByStep
  <2> QED
    BY <2>4, <2>5
<1>4. Reaches(p, v, n)
  <2>1. ASSUME Projecting(p) = {}, NEW j \in Projecting(q) PROVE j <= 1
    BY <1>2, <2>1
  <2>2. ASSUME NEW i \in Projecting(p), \A j \in Projecting(p) : j <= i
        PROVE  i + 1 \in Projecting(q) /\ \A j \in Projecting(q) : j <= i + 1
    <3>1. i \in Nat /\ i + 1 \in Projecting(q)
      BY <1>2
    <3>2. ASSUME NEW j \in Projecting(q) PROVE j <= i + 1
      <4>1. j = 1 \/ (j \in Nat /\ j - 1 \in Projecting(p))
        BY <1>2
      <4> QED
        BY <2>2, <3>1, <4>1
    <3> QED
      BY <3>1, <3>2
  <2>3. n # 0 /\ (Projecting(p) = {} => v = n)
    BY <1>2, <2>1 DEF Leads, Reaches
  <2>4. ASSUME NEW i \in Projecting(p), \A j \in Projecting(p) : j <= i
        PROVE  p[i].revision = n
    BY <1>2, <2>2, <2>4 DEF Leads, Reaches
  <2> QED
    BY <2>3, <2>4 DEF Reaches
<1> QED
  BY <1>3, <1>4 DEF Leads, p, v
-----------------------------------------------------------------------------
(* What a step leaves alone                                                *)

Stages == CallStages \cup {"unsent", "sent", "flushing", "over"}

EditorType ==
  [entry : {"none", "kept", "dropped", "claimed", "over"}, file : BOOLEAN,
   pane : {"none", "running", "exited", "gone"}]

AskType ==
  [at : {"none", "linked", "sent", "replied", "done"}, kind : {"none", "interact", "navigate"},
   to : Clients \cup {Nobody}, minimum : Nat]

SyncType == [at : {"idle", "subscribed", "stored", "attached"}, snapshot : Nat]

\* Of the requests and their editors only r and its editor change.
OnlyRequest(r) ==
  /\ stage' \in [Requests -> Stages]
  /\ \A s \in Requests \ {r} : stage'[s] = stage[s]

OnlyEditor(e) ==
  /\ editor' \in [Requests -> EditorType]
  /\ \A d \in Requests \ {e} : editor'[d] = editor[d]

\* Only clients that are connected send and are sent to.
LEMMA ClosingFrame ==
  ASSUME ClosingInv, UNCHANGED <<up, closing, dropping>>,
         \A c \in Clients : c \in up \/ (inbox'[c] = inbox[c] /\ down'[c] = down[c])
  PROVE  ClosingInv'
  BY DEF ClosingInv

\* A request that is on its way stays unhandled while its frame is not taken.
LEMMA RequestFrame ==
  ASSUME RequestInv, UNCHANGED inbox,
         \A r \in Requests : stage[r] = "sent" => stage'[r] = "sent"
  PROVE  RequestInv'
  BY DEF RequestInv

\* Another frame may follow it.
LEMMA RequestAppend ==
  ASSUME ConnectionTypeOK, RequestInv, UNCHANGED stage, NEW c \in Clients, NEW f \in Frames,
         f.kind # "request", inbox' = [inbox EXCEPT ![c] = Append(inbox[c], f)]
  PROVE  RequestInv' /\ inbox' \in [Clients -> Seq(Frames)]
<1>1. /\ Append(inbox[c], f) \in Seq(Frames)
      /\ DOMAIN Append(inbox[c], f) = 1 .. Len(inbox[c]) + 1
      /\ DOMAIN inbox[c] = 1 .. Len(inbox[c]) /\ Len(inbox[c]) \in Nat
      /\ \A i \in 1 .. Len(inbox[c]) : Append(inbox[c], f)[i] = inbox[c][i]
      /\ Append(inbox[c], f)[Len(inbox[c]) + 1] = f
  BY AppendOf DEF ConnectionTypeOK
<1>2. /\ inbox'[c] = Append(inbox[c], f)
      /\ \A d \in Clients \ {c} : inbox'[d] = inbox[d]
      /\ inbox' \in [Clients -> Seq(Frames)]
  BY <1>1 DEF ConnectionTypeOK
<1>3. \A i \in DOMAIN inbox'[c] :
        inbox'[c][i].kind = "request" => i \in DOMAIN inbox[c] /\ inbox'[c][i] = inbox[c][i]
  BY <1>1, <1>2
<1> QED
  BY <1>2, <1>3 DEF RequestInv

\* The handler of a connection takes a frame; the request of it, if it is one,
\* was on its way and is not any more.
LEMMA RequestTaken ==
  ASSUME ConnectionTypeOK, RequestInv, NEW c \in Clients, inbox[c] # <<>>,
         inbox' = [inbox EXCEPT ![c] = Tail(inbox[c])],
         \A r \in Requests : stage[r] = "sent" =>
           stage'[r] = "sent" \/ Head(inbox[c]) = Frame("request", r)
  PROVE  /\ RequestInv' /\ inbox' \in [Clients -> Seq(Frames)]
         /\ \A r : Head(inbox[c]) = Frame("request", r) =>
              r \in Requests /\ OwnerOf[r] = c /\ stage[r] = "sent"
<1>1. /\ Tail(inbox[c]) \in Seq(Frames)
      /\ DOMAIN inbox[c] = 1 .. Len(inbox[c]) /\ Len(inbox[c]) \in Nat /\ Len(inbox[c]) >= 1
      /\ Head(inbox[c]) = inbox[c][1]
      /\ DOMAIN Tail(inbox[c]) = 1 .. Len(inbox[c]) - 1
      /\ \A i \in 1 .. Len(inbox[c]) - 1 : Tail(inbox[c])[i] = inbox[c][i + 1]
  BY TailOf DEF ConnectionTypeOK
<1>2. /\ inbox'[c] = Tail(inbox[c])
      /\ \A d \in Clients \ {c} : inbox'[d] = inbox[d]
      /\ inbox' \in [Clients -> Seq(Frames)]
  BY <1>1 DEF ConnectionTypeOK
<1>3. \A r : /\ Frame("request", r).kind = "request"
             /\ Frame("request", r).request = r
  BY DEF Frame
<1>4. \A r : Head(inbox[c]) = Frame("request", r) =>
        r \in Requests /\ OwnerOf[r] = c /\ stage[r] = "sent"
  BY <1>1, <1>3 DEF RequestInv
<1>5. ASSUME NEW d \in Clients, NEW i \in DOMAIN inbox'[d], inbox'[d][i].kind = "request"
      PROVE  LET r == inbox'[d][i].request IN
             /\ r \in Requests /\ OwnerOf[r] = d /\ stage'[r] = "sent"
             /\ \A j \in DOMAIN inbox'[d] :
                  inbox'[d][j].kind = "request" /\ inbox'[d][j].request = r => j = i
  <2> DEFINE r == inbox'[d][i].request
  <2>1. CASE d = c
    <3>1. i + 1 \in DOMAIN inbox[c] /\ inbox'[c][i] = inbox[c][i + 1] /\ i \in Nat /\ i >= 1
      BY <1>1, <1>2, <2>1
    <3>2. r \in Requests /\ OwnerOf[r] = c /\ stage[r] = "sent"
      BY <1>5, <2>1, <3>1 DEF RequestInv
    <3>3. Head(inbox[c]) # Frame("request", r)
      BY <1>1, <1>3, <1>5, <2>1, <3>1 DEF RequestInv
    <3>4. ASSUME NEW j \in DOMAIN inbox'[c],
                 inbox'[c][j].kind = "request", inbox'[c][j].request = r
          PROVE  j = i
      <4>1. j + 1 \in DOMAIN inbox[c] /\ inbox'[c][j] = inbox[c][j + 1] /\ j \in Nat
        BY <1>1, <1>2, <2>1
      <4>2. j + 1 = i + 1
        BY <1>5, <2>1, <3>1, <3>4, <4>1 DEF RequestInv
      <4> QED
        BY <3>1, <4>1, <4>2
    <3> QED
      BY <2>1, <3>2, <3>3, <3>4
  <2>2. CASE d # c
    <3>1. inbox'[d] = inbox[d]
      BY <1>2, <2>2
    <3>2. /\ r \in Requests /\ OwnerOf[r] = d /\ stage[r] = "sent"
          /\ \A j \in DOMAIN inbox'[d] :
               inbox'[d][j].kind = "request" /\ inbox'[d][j].request = r => j = i
      BY <1>5, <3>1 DEF RequestInv
    <3> QED
      BY <1>4, <2>2, <3>2
  <2> QED
    BY <2>1, <2>2
<1>6. RequestInv'
  BY <1>5 DEF RequestInv
<1> QED
  BY <1>2, <1>4, <1>6

\* A question keeps its address, and none is shown that was not.
LEMMA AskFrame ==
  ASSUME AskInv, UNCHANGED <<up, down>>,
         \A r \in Requests : /\ ask'[r].kind = ask[r].kind /\ ask'[r].to = ask[r].to
                             /\ ask[r].at # "none" => ask'[r].at # "none"
                             /\ ask'[r].at # "none" => ask[r].at # "none",
         \A r \in Requests : screen'[r] \in Open => screen[r] \in Open
  PROVE  AskInv'
  BY DEF AskInv

\* A question goes on with the same address.
LEMMA AskMoves ==
  ASSUME ConnectionTypeOK, NEW r \in Requests, NEW x \in {"sent", "replied", "done"},
         ask' = [ask EXCEPT ![r].at = x]
  PROVE  /\ ask' \in [Requests -> AskType]
         /\ ask'[r].at = x
         /\ \A s \in Requests : ask'[s].kind = ask[s].kind /\ ask'[s].to = ask[s].to
         /\ \A s \in Requests \ {r} : ask'[s].at = ask[s].at
<1>1. ask \in [Requests -> AskType]
  BY DEF ConnectionTypeOK, AskType
<1>2. ask'[r] = [ask[r] EXCEPT !.at = x] /\ \A s \in Requests \ {r} : ask'[s] = ask[s]
  BY <1>1
<1>3. [ask[r] EXCEPT !.at = x] \in AskType
  BY <1>1 DEF AskType
<1> QED
  BY <1>1, <1>2, <1>3 DEF AskType

\* A call goes on or ends; none begins.
LEMMA CallFrame ==
  ASSUME CallInv, UNCHANGED <<closing, stored>>,
         \A r \in Requests : stage'[r] \in CallStages => stage[r] \in CallStages,
         \A r \in contexts' : stage'[r] = "captured"
  PROVE  CallInv'
  BY DEF CallInv

\* One call goes on that has not claimed an editor, with the editor it opens.
LEMMA EditorFrame ==
  ASSUME EditorInv, UNCHANGED <<closing, stored, dropping>>,
         NEW r \in Requests, OnlyRequest(r), OnlyEditor(r), EditorOK(r)',
         stage[r] # "claimed", stage'[r] # "claimed",
         editor[r].entry \in {"claimed", "over"} => editor'[r].entry \in {"claimed", "over"}
  PROVE  EditorInv'
<1>1. ASSUME NEW e \in Requests \ {r} PROVE EditorOK(e)'
  <2>1. EditorOK(e) /\ editor'[e] = editor[e] /\ stage'[e] = stage[e]
    BY DEF EditorInv, OnlyRequest, OnlyEditor
  <2>2. editor[e].entry = "claimed" =>
          \E s \in Requests : stage'[s] = "claimed" /\ EditorOf[s] = e /\ OwnerOf[s] = OwnerOf[e]
    BY <2>1 DEF EditorOK, OnlyRequest
  <2> QED
    BY <2>1, <2>2 DEF EditorOK
<1>2. ASSUME NEW s \in Requests, stage'[s] = "claimed"
      PROVE  editor'[EditorOf[s]].entry \in {"claimed", "over"}
  <2>1. stage[s] = "claimed" /\ EditorOf[s] \in Requests
    BY <1>2, ConnectionAssumption DEF OnlyRequest
  <2>2. editor[EditorOf[s]].entry \in {"claimed", "over"}
    BY <2>1 DEF EditorInv
  <2> QED
    BY <2>1, <2>2 DEF OnlyEditor
<1> QED
  BY <1>1, <1>2 DEF EditorInv

\* A request that is not a call yet, or not any more, leaves the editors alone.
LEMMA EditorStages ==
  ASSUME EditorInv, UNCHANGED <<editor, closing, stored, dropping>>,
         \A r \in Requests :
           \/ stage'[r] = stage[r]
           \/ /\ stage[r] \notin {"filed", "started", "unwanted", "claimed", "over"}
              /\ stage'[r] \notin {"filed", "started", "unwanted", "claimed"}
  PROVE  EditorInv'
<1>1. ASSUME NEW e \in Requests PROVE EditorOK(e)'
  <2>1. EditorOK(e)
    BY DEF EditorInv
  <2>2. editor[e].entry = "claimed" =>
          \E s \in Requests : stage'[s] = "claimed" /\ EditorOf[s] = e /\ OwnerOf[s] = OwnerOf[e]
    BY <2>1 DEF EditorOK
  <2> QED
    BY <2>1, <2>2 DEF EditorOK
<1> QED
  BY <1>1 DEF EditorInv

\* Nothing of the stream of events moves.
LEMMA StreamFrame ==
  ASSUME StreamInv, UNCHANGED <<up, down, seen, coreVars, syncVars>>
  PROVE  StreamInv'
  BY DEF StreamInv, StreamOK, Joining, coreVars, syncVars

\* Frames that do not change the projection may be sent and read.
LEMMA StreamFrames ==
  ASSUME ConnectionTypeOK, StreamInv, UNCHANGED <<up, seen, coreVars, syncVars>>,
         \A c \in Clients :
           \/ down'[c] = down[c]
           \/ \E f \in Frames : /\ f.kind \notin {"snapshot", "event"}
                                /\ down'[c] = Append(down[c], f)
           \/ /\ down[c] # <<>> /\ Head(down[c]).kind \notin {"snapshot", "event"}
              /\ down'[c] = Tail(down[c])
  PROVE  StreamInv'
<1> USE DEF coreVars, syncVars
<1>1. ASSUME NEW c \in Clients
      PROVE  /\ Projecting(down[c]) = {} => Projecting(down'[c]) = {}
             /\ \A s \in Nat : StepByStep(down[c], s) => StepByStep(down'[c], s)
             /\ \A s, n \in Nat : Reaches(down[c], s, n) => Reaches(down'[c], s, n)
  <2>1. down[c] \in Seq(Frames)
    BY DEF ConnectionTypeOK
  <2>2. CASE down'[c] = down[c]
    BY <2>2
  <2>3. CASE \E f \in Frames : /\ f.kind \notin {"snapshot", "event"}
                               /\ down'[c] = Append(down[c], f)
    BY <2>1, <2>3, SendOther, Zenon
  <2>4. CASE /\ down[c] # <<>> /\ Head(down[c]).kind \notin {"snapshot", "event"}
             /\ down'[c] = Tail(down[c])
    BY <2>1, <2>4, ReadOther, Zenon
  <2> QED
    BY <2>2, <2>3, <2>4
<1>2. \A c \in Clients : seen[c] \in Nat
  BY DEF ConnectionTypeOK
<1>3. up \subseteq Clients
  BY DEF ConnectionTypeOK
<1>4. \A c \in Clients : StepByStep(down'[c], seen'[c])
  BY <1>1, <1>2 DEF StreamInv
<1>5. ASSUME NEW c \in up PROVE StreamOK(c)'
  <2>1. StreamOK(c)
    BY DEF StreamInv
  <2>2. c \in forwarding =>
          \E n \in Nat : Reaches(down'[c], seen[c], n) /\ Follows(events[c], n, revision)
    BY <1>1, <1>2, <1>3, <2>1 DEF StreamOK
  <2> QED
    BY <1>1, <1>3, <2>1, <2>2 DEF StreamOK, Joining
<1> QED
  BY <1>4, <1>5 DEF StreamInv

\* A command of Core reaches everybody who has a subscription.
LEMMA StreamMutates ==
  ASSUME ConnectionTypeOK, StreamInv, Mutate, UNCHANGED <<up, down, seen, subscribed, syncVars>>
  PROVE  StreamInv' /\ revision' \in Nat /\ events' \in [Clients -> Seq(Nat)]
<1> USE DEF Mutate, syncVars
<1>1. /\ revision \in Nat /\ revision' = revision + 1 /\ up \subseteq Clients
      /\ \A c \in Clients : events[c] \in Seq(Nat)
  BY DEF ConnectionTypeOK
<1>2. ASSUME NEW c \in Clients
      PROVE  /\ events'[c] = IF c \in subscribed THEN Append(events[c], revision + 1) ELSE events[c]
             /\ events'[c] \in Seq(Nat)
             /\ \A n \in Nat : c \in subscribed /\ Follows(events[c], n, revision) =>
                  Follows(events'[c], n, revision')
  <2>1. events'[c] = IF c \in subscribed THEN Append(events[c], revision + 1) ELSE events[c]
    OBVIOUS
  <2>2. /\ Append(events[c], revision + 1) \in Seq(Nat)
        /\ DOMAIN events[c] = 1 .. Len(events[c]) /\ Len(events[c]) \in Nat
        /\ DOMAIN Append(events[c], revision + 1) = 1 .. Len(events[c]) + 1
        /\ Len(Append(events[c], revision + 1)) = Len(events[c]) + 1
        /\ \A i \in 1 .. Len(events[c]) : Append(events[c], revision + 1)[i] = events[c][i]
        /\ Append(events[c], revision + 1)[Len(events[c]) + 1] = revision + 1
    BY <1>1, AppendOf
  <2>3. events'[c] \in Seq(Nat)
    BY <1>1, <2>1, <2>2
  <2>4. ASSUME NEW n \in Nat, c \in subscribed, Follows(events[c], n, revision)
        PROVE  Follows(events'[c], n, revision')
    <3>1. \A i \in DOMAIN events'[c] : events'[c][i] = n + i
      <4>1. ASSUME NEW i \in 1 .. Len(events[c]) PROVE events'[c][i] = n + i
        BY <2>1, <2>2, <2>4 DEF Follows
      <4>2. events'[c][Len(events[c]) + 1] = n + (Len(events[c]) + 1)
        BY <1>1, <2>1, <2>2, <2>4 DEF Follows
      <4> QED
        BY <2>1, <2>2, <2>4, <4>1, <4>2
    <3>2. revision' = n + Len(events'[c])
      BY <1>1, <2>1, <2>2, <2>4 DEF Follows
    <3> QED
      BY <3>1, <3>2 DEF Follows
  <2> QED
    BY <2>1, <2>3, <2>4
<1>3. events' \in [Clients -> Seq(Nat)]
  BY <1>2
<1>4. ASSUME NEW c \in up PROVE StreamOK(c)'
  <2>1. StreamOK(c) /\ c \in Clients /\ sync[c].snapshot \in Nat
    BY <1>1 DEF StreamInv, ConnectionTypeOK
  <2>2. c \in forwarding =>
          \E n \in Nat : Reaches(down[c], seen[c], n) /\ Follows(events'[c], n, revision')
    BY <1>2, <2>1 DEF StreamOK
  <2>3. Joining(c) => Follows(events'[c], sync[c].snapshot, revision')
    BY <1>2, <2>1 DEF StreamOK
  <2>4. c \notin subscribed => events'[c] = <<>>
    BY <1>2, <2>1 DEF StreamOK
  <2> HIDE DEF Mutate
  <2> QED
    BY <2>1, <2>2, <2>3, <2>4 DEF StreamOK, Joining
<1>5. revision' # 0
  BY <1>1
<1> HIDE DEF Mutate
<1> QED
  BY <1>1, <1>3, <1>4, <1>5 DEF StreamInv
-----------------------------------------------------------------------------
(* The handlers                                                            *)

\* What a handler may make of the request that it takes
LEMMA HandledStep ==
  ASSUME ConnectionInv, NEW c \in Clients, c \in up, inbox[c] # <<>>,
         inbox' = [inbox EXCEPT ![c] = Tail(inbox[c])],
         Mutate \/ UNCHANGED <<revision, events>>,
         stage' \in [Requests -> Stages],
         \A r \in Requests :
           \/ stage'[r] = stage[r]
           \/ /\ Head(inbox[c]) = Frame("request", r)
              /\ stage'[r] \in {"over", "flushing", "called"}
              /\ stage'[r] = "called" => c \in stored,
         cancelled' \subseteq Requests, stopping' \in BOOLEAN,
         screen' \in [Requests -> ScreenType],
         \A r \in Requests : screen'[r] \in Open => screen[r] \in Open,
         UNCHANGED <<operation, gaveUp, up, down, seen, subscribed, syncVars, closeVars, editor,
                     contexts, ask, stopped>>
  PROVE  ConnectionInv'
<1> USE DEF syncVars, closeVars
<1>1. /\ RequestInv' /\ inbox' \in [Clients -> Seq(Frames)]
      /\ \A r : Head(inbox[c]) = Frame("request", r) =>
           r \in Requests /\ OwnerOf[r] = c /\ stage[r] = "sent"
  BY RequestTaken DEF ConnectionInv
<1>2. \A r \in Requests :
        \/ stage'[r] = stage[r]
        \/ /\ stage[r] = "sent" /\ OwnerOf[r] = c
           /\ stage'[r] \in {"over", "flushing", "called"}
           /\ stage'[r] = "called" => c \in stored
  BY <1>1
<1>3. StreamInv' /\ revision' \in Nat /\ events' \in [Clients -> Seq(Nat)]
  <2>1. CASE Mutate
    BY <2>1, StreamMutates DEF ConnectionInv
  <2>2. CASE UNCHANGED <<revision, events>>
    BY <2>2, StreamFrame DEF ConnectionInv, ConnectionTypeOK, coreVars
  <2> QED
    BY <2>1, <2>2
<1>4. ConnectionTypeOK'
  BY <1>1, <1>3 DEF ConnectionInv, ConnectionTypeOK, Stages, ScreenType
<1>5. ClosingInv'
  <2>1. \A d \in Clients : d \in up \/ inbox'[d] = inbox[d]
    BY DEF ConnectionInv, ConnectionTypeOK
  <2> QED
    BY <2>1, ClosingFrame DEF ConnectionInv
<1>6. AskInv'
  BY AskFrame DEF ConnectionInv
<1>7. CallInv'
  <2>1. closing[c] = "no"
    BY DEF ConnectionInv, ClosingInv
  <2>2. \A r \in Requests : stage'[r] \in CallStages =>
          stage[r] \in CallStages \/ (OwnerOf[r] = c /\ c \in stored)
    BY <1>2 DEF CallStages
  <2>3. \A r \in contexts : stage'[r] = "captured"
    BY <1>2 DEF ConnectionInv, CallInv, ConnectionTypeOK
  <2> QED
    BY <2>1, <2>2, <2>3 DEF ConnectionInv, CallInv, Early
<1>8. EditorInv'
  BY <1>2, EditorStages DEF ConnectionInv
<1> QED
  BY <1>1, <1>3, <1>4, <1>5, <1>6, <1>7, <1>8 DEF ConnectionInv

\* A command, whether it changes Core or not, is over when it has been handled.
LEMMA HandleCommandStep ==
  ASSUME ConnectionInv, NEW r \in Requests, HandleCommand(r) \/ HandleTerminal(r)
  PROVE  ConnectionInv'
<1> USE DEF HandleCommand, HandleTerminal, Take, callVars, stopVars
<1> DEFINE c == OwnerOf[r]
<1>1. /\ c \in Clients /\ c \in up /\ inbox[c] # <<>> /\ Head(inbox[c]) = Frame("request", r)
      /\ inbox' = [inbox EXCEPT ![c] = Tail(inbox[c])]
      /\ Mutate \/ UNCHANGED <<revision, events>>
      /\ stage' = [stage EXCEPT ![r] = "over"]
      /\ UNCHANGED <<operation, gaveUp, cancelled, up, down, seen, subscribed, syncVars, closeVars,
                     editor, contexts, ask, screen, stopping, stopped>>
  BY ConnectionAssumption
<1>2. /\ stage' \in [Requests -> Stages]
      /\ \A s \in Requests : stage'[s] = stage[s] \/ (s = r /\ stage'[s] = "over")
      /\ cancelled \subseteq Requests /\ stopping \in BOOLEAN
      /\ screen \in [Requests -> ScreenType]
  BY <1>1 DEF ConnectionInv, ConnectionTypeOK, Stages, ScreenType
<1> HIDE DEF HandleCommand, HandleTerminal, Take, c
<1> QED
  BY <1>1, <1>2, HandledStep

\* The focus that a navigation sets is a command; a "cancel" marks the call.
LEMMA HandleNestedStep ==
  ASSUME ConnectionInv, NEW r \in Requests, HandleNested(r)
  PROVE  ConnectionInv'
<1> DEFINE c == IF HandleFocus(r) THEN ask[r].to ELSE OwnerOf[r]
<1>1. /\ c \in up /\ inbox[c] # <<>> /\ Head(inbox[c]).kind # "request"
      /\ inbox' = [inbox EXCEPT ![c] = Tail(inbox[c])]
      /\ Mutate \/ UNCHANGED <<revision, events>>
      /\ cancelled' \in {cancelled, cancelled \cup {r}}
      /\ \/ screen' = screen
         \/ screen[r] = "focusing" /\ screen' = [screen EXCEPT ![r] = "focused"]
      /\ UNCHANGED <<operation, gaveUp, up, down, seen, subscribed, syncVars, closeVars,
                     editor, contexts, ask, stage, stopping, stopped>>
  <2>1. CASE HandleFocus(r)
    <3>1. c = ask[r].to
      BY <2>1
    <3>2. Take(c, "focus", r) /\ (Mutate \/ UNCHANGED <<revision, events>>)
      BY <2>1, <3>1 DEF HandleFocus
    <3> HIDE DEF c
    <3>3. /\ c \in up /\ inbox[c] # <<>> /\ Head(inbox[c]).kind # "request"
          /\ inbox' = [inbox EXCEPT ![c] = Tail(inbox[c])]
      BY <3>2 DEF Take, Frame
    <3> QED
      BY <2>1, <3>2, <3>3 DEF HandleFocus, stopVars
  <2>2. CASE ~ HandleFocus(r) /\ HandleCancel(r)
    <3>1. c = OwnerOf[r]
      BY <2>2
    <3> QED
      BY <2>2, <3>1 DEF HandleCancel, Take, Frame, callVars, stopVars, coreVars
  <2> QED
    BY <2>1, <2>2 DEF HandleNested
<1> HIDE DEF c
<1>2. /\ c \in Clients /\ cancelled' \subseteq Requests /\ screen' \in [Requests -> ScreenType]
      /\ \A s \in Requests : screen'[s] \in Open => screen[s] \in Open
      /\ stage' \in [Requests -> Stages] /\ stopping' \in BOOLEAN
  BY <1>1 DEF ConnectionInv, ConnectionTypeOK, Stages, ScreenType, Open
<1>3. \A s \in Requests : stage'[s] = stage[s]
  BY <1>1
<1> QED
  BY <1>1, <1>2, <1>3, HandledStep

\* A stop or a plugin call begins, or is refused.
LEMMA HandleCallStep ==
  ASSUME ConnectionInv, NEW r \in Requests, HandleStop(r) \/ HandlePlugin(r)
  PROVE  ConnectionInv'
<1> USE DEF HandleStop, HandlePlugin, Take, callVars, stopVars, coreVars
<1> DEFINE c == OwnerOf[r]
<1>1. /\ c \in Clients /\ c \in up /\ inbox[c] # <<>> /\ Head(inbox[c]) = Frame("request", r)
      /\ inbox' = [inbox EXCEPT ![c] = Tail(inbox[c])]
      /\ UNCHANGED <<revision, events>>
      /\ UNCHANGED <<operation, gaveUp, cancelled, up, down, seen, subscribed, syncVars, closeVars,
                     editor, contexts, ask, screen, stopped>>
      /\ stopping' \in {stopping, TRUE}
  BY ConnectionAssumption
<1>2. \E x \in {"over", "flushing", "called"} :
        stage' = [stage EXCEPT ![r] = x] /\ (x = "called" => c \in stored)
  BY DEF c
<1> HIDE DEF HandleStop, HandlePlugin, Take, c
<1>3. /\ cancelled \subseteq Requests /\ screen \in [Requests -> ScreenType]
      /\ stage \in [Requests -> Stages]
  BY DEF ConnectionInv, ConnectionTypeOK, Stages, ScreenType
<1>4. stopping' \in BOOLEAN
  BY <1>1 DEF ConnectionInv, ConnectionTypeOK
<1>5. PICK x \in {"over", "flushing", "called"} :
        stage' = [stage EXCEPT ![r] = x] /\ (x = "called" => c \in stored)
  BY <1>2
<1>6. /\ stage' \in [Requests -> Stages]
      /\ \A s \in Requests :
           \/ stage'[s] = stage[s]
           \/ /\ s = r /\ stage'[s] \in {"over", "flushing", "called"}
              /\ stage'[s] = "called" => c \in stored
  BY <1>3, <1>5 DEF Stages, CallStages
<1> QED
  BY <1>1, <1>3, <1>4, <1>6, HandledStep
-----------------------------------------------------------------------------
(* What the clients do                                                     *)

\* A step that only sends a frame to the daemon
LEMMA SentStep ==
  ASSUME ConnectionInv, NEW c \in up, NEW f \in Frames, f.kind # "request",
         inbox' = [inbox EXCEPT ![c] = Append(inbox[c], f)],
         gaveUp' \subseteq Requests, screen' \in [Requests -> ScreenType],
         \A r \in Requests : screen'[r] \in Open => screen[r] \in Open,
         UNCHANGED <<operation, stage, cancelled, up, down, seen, coreVars, syncVars, closeVars,
                     editor, contexts, ask, stopVars>>
  PROVE  ConnectionInv'
<1> USE DEF coreVars, syncVars, closeVars, stopVars
<1>1. c \in Clients
  BY DEF ConnectionInv, ConnectionTypeOK
<1>2. RequestInv' /\ inbox' \in [Clients -> Seq(Frames)]
  BY <1>1, RequestAppend DEF ConnectionInv
<1>3. ConnectionTypeOK'
  BY <1>2 DEF ConnectionInv, ConnectionTypeOK, ScreenType
<1>4. ClosingInv'
  BY ClosingFrame DEF ConnectionInv, ConnectionTypeOK
<1>5. StreamInv'
  BY StreamFrame DEF ConnectionInv
<1>6. AskInv' /\ CallInv' /\ EditorInv'
  BY AskFrame, EditorStages, CallFrame DEF ConnectionInv, CallInv
<1> QED
  BY <1>2, <1>3, <1>4, <1>5, <1>6 DEF ConnectionInv

\* A client synchronizes, gives a call up or navigates.
LEMMA ClientSends ==
  ASSUME ConnectionInv,
         (\E c \in Clients : SendSync(c)) \/ (\E r \in Requests : GiveUp(r) \/ Navigate(r))
  PROVE  ConnectionInv'
<1>1. \A kind \in {"sync", "cancel", "focus"}, r \in Requests \cup {Nobody} :
        Frame(kind, r) \in Frames /\ Frame(kind, r).kind # "request"
  BY DEF Frame, Frames
<1>2. screen \in [Requests -> ScreenType] /\ gaveUp \subseteq Requests
  BY DEF ConnectionInv, ConnectionTypeOK, ScreenType
<1>3. ASSUME NEW c \in Clients, SendSync(c) PROVE ConnectionInv'
  <2>1. /\ c \in up /\ inbox' = [inbox EXCEPT ![c] = Append(inbox[c], Frame("sync", Nobody))]
        /\ UNCHANGED <<operation, stage, gaveUp, cancelled, up, down, seen, coreVars, syncVars,
                       closeVars, editor, contexts, ask, screen, stopVars>>
    BY <1>3 DEF SendSync, callVars
  <2> QED
    BY <1>1, <1>2, <2>1, SentStep
<1>4. ASSUME NEW r \in Requests, GiveUp(r) PROVE ConnectionInv'
  <2> DEFINE c == OwnerOf[r]
  <2>1. /\ c \in up /\ inbox' = [inbox EXCEPT ![c] = Append(inbox[c], Frame("cancel", r))]
        /\ gaveUp' = gaveUp \cup {r}
        /\ UNCHANGED <<operation, stage, cancelled, up, down, seen, coreVars, syncVars,
                       closeVars, editor, contexts, ask, screen, stopVars>>
    BY <1>4 DEF GiveUp, callVars
  <2>2. gaveUp' \subseteq Requests
    BY <1>2, <2>1
  <2> HIDE DEF c
  <2> QED
    BY <1>1, <1>2, <2>1, <2>2, SentStep
<1>5. ASSUME NEW r \in Requests, Navigate(r) PROVE ConnectionInv'
  <2> DEFINE c == ask[r].to
  <2>1. /\ inbox' = [inbox EXCEPT ![c] = Append(inbox[c], Frame("focus", r))]
        /\ screen[r] = "waiting" /\ screen' = [screen EXCEPT ![r] = "focusing"]
        /\ UNCHANGED <<operation, stage, gaveUp, cancelled, up, down, seen, coreVars, syncVars,
                       closeVars, editor, contexts, ask, stopVars>>
    BY <1>5 DEF Navigate
  <2>2. /\ screen' \in [Requests -> ScreenType]
        /\ \A s \in Requests : screen'[s] \in Open => screen[s] \in Open
    BY <1>2, <2>1 DEF ScreenType, Open
  <2>3. c \in up
    BY <2>1 DEF ConnectionInv, AskInv, Open, ScreenType
  <2> HIDE DEF c
  <2> QED
    BY <1>1, <1>2, <2>1, <2>2, <2>3, SentStep
<1> QED
  BY <1>3, <1>4, <1>5

\* A request is sent once, when it was not on its way.
LEMMA SendStep ==
  ASSUME ConnectionInv, NEW r \in Requests, Send(r)
  PROVE  ConnectionInv'
<1> USE DEF coreVars, syncVars, closeVars, callVars, stopVars
<1> DEFINE c == OwnerOf[r]
           f == Frame("request", r)
<1>1. /\ c \in up /\ c \in Clients /\ stage[r] = "unsent"
      /\ stage' = [stage EXCEPT ![r] = "sent"]
      /\ inbox' = [inbox EXCEPT ![c] = Append(inbox[c], f)]
      /\ UNCHANGED <<operation, gaveUp, cancelled, up, down, seen, coreVars, syncVars, closeVars,
                     editor, callVars, stopVars>>
  BY ConnectionAssumption DEF Send
<1>2. f \in Frames /\ f.kind = "request" /\ f.request = r
  BY DEF Frame, Frames
<1>3. OwnerOf[r] = c
  OBVIOUS
<1> HIDE DEF c, f
<1>4. /\ stage' \in [Requests -> Stages] /\ stage'[r] = "sent"
      /\ \A s \in Requests \ {r} : stage'[s] = stage[s]
  BY <1>1 DEF ConnectionInv, ConnectionTypeOK, Stages
<1>5. /\ Append(inbox[c], f) \in Seq(Frames)
      /\ DOMAIN Append(inbox[c], f) = 1 .. Len(inbox[c]) + 1
      /\ DOMAIN inbox[c] = 1 .. Len(inbox[c]) /\ Len(inbox[c]) \in Nat
      /\ \A i \in 1 .. Len(inbox[c]) : Append(inbox[c], f)[i] = inbox[c][i]
      /\ Append(inbox[c], f)[Len(inbox[c]) + 1] = f
  BY <1>1, <1>2, AppendOf DEF ConnectionInv, ConnectionTypeOK
<1>6. /\ inbox'[c] = Append(inbox[c], f)
      /\ \A d \in Clients \ {c} : inbox'[d] = inbox[d]
      /\ inbox' \in [Clients -> Seq(Frames)]
  BY <1>1, <1>5 DEF ConnectionInv, ConnectionTypeOK
<1>7. RequestInv'
  <2>1. ASSUME NEW d \in Clients, NEW i \in DOMAIN inbox[d], inbox[d][i].kind = "request"
        PROVE  LET s == inbox[d][i].request IN
               /\ s \in Requests \ {r} /\ OwnerOf[s] = d /\ stage'[s] = "sent"
               /\ \A j \in DOMAIN inbox[d] :
                    inbox[d][j].kind = "request" /\ inbox[d][j].request = s => j = i
    BY <1>1, <1>4, <2>1 DEF ConnectionInv, RequestInv
  <2>2. ASSUME NEW i \in DOMAIN inbox'[c], inbox'[c][i].kind = "request"
        PROVE  LET s == inbox'[c][i].request IN
               /\ s \in Requests /\ OwnerOf[s] = c /\ stage'[s] = "sent"
               /\ \A j \in DOMAIN inbox'[c] :
                    inbox'[c][j].kind = "request" /\ inbox'[c][j].request = s => j = i
    <3>1. CASE i \in DOMAIN inbox[c]
      <4>1. inbox'[c][i] = inbox[c][i]
        BY <1>5, <1>6, <3>1
      <4>2. \A j \in DOMAIN inbox'[c] : j \in DOMAIN inbox[c] \/ inbox'[c][j].request = r
        BY <1>2, <1>5, <1>6
      <4>3. \A j \in DOMAIN inbox[c] : inbox'[c][j] = inbox[c][j]
        BY <1>5, <1>6
      <4> QED
        BY <1>1, <2>1, <2>2, <3>1, <4>1, <4>2, <4>3
    <3>2. CASE i \notin DOMAIN inbox[c]
      <4>1. i = Len(inbox[c]) + 1 /\ inbox'[c][i] = f
        BY <1>5, <1>6, <3>2
      <4>2. ASSUME NEW j \in DOMAIN inbox'[c], j # i
            PROVE  j \in DOMAIN inbox[c] /\ inbox'[c][j] = inbox[c][j]
        BY <1>5, <1>6, <4>1, <4>2
      <4>3. \A j \in DOMAIN inbox'[c] :
              inbox'[c][j].kind = "request" /\ inbox'[c][j].request = r => j = i
        BY <1>1, <2>1, <4>2
      <4> QED
        BY <1>2, <1>3, <1>4, <4>1, <4>3
    <3> QED
      BY <3>1, <3>2
  <2>3. ASSUME NEW d \in Clients \ {c} PROVE inbox'[d] = inbox[d]
    BY <1>6
  <2> QED
    BY <2>1, <2>2, <2>3 DEF RequestInv
<1>8. ConnectionTypeOK'
  BY <1>1, <1>4, <1>6 DEF ConnectionInv, ConnectionTypeOK, Stages
<1>9. ClosingInv'
  BY <1>1, <1>6, ClosingFrame DEF ConnectionInv
<1>10. StreamInv'
  BY <1>1, StreamFrame DEF ConnectionInv
<1>11. AskInv'
  BY <1>1, AskFrame DEF ConnectionInv
<1>12. CallInv'
  <2>1. \A s \in Requests : stage'[s] \in CallStages => stage[s] \in CallStages
    BY <1>4 DEF CallStages
  <2>2. \A s \in contexts' : stage'[s] = "captured"
    BY <1>1, <1>4 DEF ConnectionInv, ConnectionTypeOK, CallInv
  <2> QED
    BY <1>1, <2>1, <2>2, CallFrame DEF ConnectionInv
<1>13. EditorInv'
  <2>1. \A s \in Requests :
          \/ stage'[s] = stage[s]
          \/ /\ stage[s] \notin {"filed", "started", "unwanted", "claimed", "over"}
             /\ stage'[s] \notin {"filed", "started", "unwanted", "claimed"}
    BY <1>1, <1>4
  <2> QED
    BY <1>1, <2>1, EditorStages DEF ConnectionInv
<1> QED
  BY <1>7, <1>8, <1>9, <1>10, <1>11, <1>12, <1>13 DEF ConnectionInv

\* What is on its way, and what the client shows, is lost with the connection.
LEMMA DisconnectStep ==
  ASSUME ConnectionInv, NEW c \in Clients, Disconnect(c)
  PROVE  ConnectionInv'
<1> USE DEF coreVars, syncVars, closeVars, stopVars
<1>1. /\ c \in up /\ up' = up \ {c}
      /\ inbox' = [inbox EXCEPT ![c] = <<>>] /\ down' = [down EXCEPT ![c] = <<>>]
      /\ screen' = [r \in Requests |-> IF ask[r].to = c /\ screen[r] # "none" THEN "over"
                                       ELSE screen[r]]
      /\ stage' = [r \in Requests |-> IF OwnerOf[r] = c /\ stage[r] \in {"unsent", "sent"}
                                      THEN "over" ELSE stage[r]]
      /\ UNCHANGED <<operation, gaveUp, cancelled, seen, coreVars, syncVars, closeVars, editor,
                     contexts, ask, stopVars>>
  BY DEF Disconnect
<1>2. /\ inbox' \in [Clients -> Seq(Frames)] /\ down' \in [Clients -> Seq(Frames)]
      /\ inbox'[c] = <<>> /\ down'[c] = <<>>
      /\ \A d \in Clients \ {c} : inbox'[d] = inbox[d] /\ down'[d] = down[d]
  BY <1>1 DEF ConnectionInv, ConnectionTypeOK
<1>3. /\ stage' \in [Requests -> Stages] /\ screen' \in [Requests -> ScreenType]
      /\ \A r \in Requests : stage'[r] = stage[r] \/ (OwnerOf[r] = c /\ stage'[r] = "over"
                                                       /\ stage[r] \in {"unsent", "sent"})
  BY <1>1 DEF ConnectionInv, ConnectionTypeOK, Stages, ScreenType
<1>4. ConnectionTypeOK'
  BY <1>1, <1>2, <1>3 DEF ConnectionInv, ConnectionTypeOK, Stages, ScreenType
<1>5. ClosingInv'
  BY <1>1, <1>2 DEF ConnectionInv, ClosingInv
<1>6. RequestInv'
  <2>1. DOMAIN inbox'[c] = {}
    BY <1>2
  <2>2. ASSUME NEW d \in Clients \ {c}, NEW i \in DOMAIN inbox[d], inbox[d][i].kind = "request"
        PROVE  LET r == inbox[d][i].request IN
               /\ r \in Requests /\ OwnerOf[r] = d /\ stage'[r] = "sent"
               /\ \A j \in DOMAIN inbox[d] :
                    inbox[d][j].kind = "request" /\ inbox[d][j].request = r => j = i
    <3> DEFINE r == inbox[d][i].request
    <3>1. /\ r \in Requests /\ OwnerOf[r] = d /\ stage[r] = "sent"
          /\ \A j \in DOMAIN inbox[d] :
               inbox[d][j].kind = "request" /\ inbox[d][j].request = r => j = i
      BY <2>2 DEF ConnectionInv, RequestInv
    <3> HIDE DEF r
    <3>2. stage'[r] = "sent"
      BY <1>3, <3>1
    <3> QED
      BY <3>1, <3>2 DEF r
  <2>3. \A d \in Clients \ {c} : inbox'[d] = inbox[d]
    BY <1>2
  <2> QED
    BY <2>1, <2>2, <2>3 DEF RequestInv
<1>7. AskInv'
  <2>1. DOMAIN down'[c] = {}
    BY <1>2
  <2>2. \A r \in Requests : screen'[r] \in Open => screen[r] \in Open /\ ask[r].to # c
    BY <1>1 DEF Open, ScreenType
  <2> QED
    BY <1>1, <1>2, <2>1, <2>2 DEF ConnectionInv, AskInv
<1>8. CallInv'
  <2>1. \A r \in Requests : stage'[r] \in CallStages => stage[r] \in CallStages
    BY <1>3 DEF CallStages
  <2>2. \A r \in contexts' : stage'[r] = "captured"
    BY <1>1, <1>3 DEF ConnectionInv, ConnectionTypeOK, CallInv
  <2> QED
    BY <1>1, <2>1, <2>2, CallFrame DEF ConnectionInv
<1>9. EditorInv'
  <2>1. \A s \in Requests :
          \/ stage'[s] = stage[s]
          \/ /\ stage[s] \notin {"filed", "started", "unwanted", "claimed", "over"}
             /\ stage'[s] \notin {"filed", "started", "unwanted", "claimed"}
    BY <1>3
  <2> QED
    BY <1>1, <2>1, EditorStages DEF ConnectionInv
<1>10. StreamInv'
  <2>1. ASSUME NEW d \in up' PROVE StreamOK(d)'
    <3>1. d \in up /\ d \in Clients \ {c} /\ StreamOK(d)
      BY <1>1 DEF ConnectionInv, ConnectionTypeOK, StreamInv
    <3> QED
      BY <1>1, <1>2, <3>1 DEF StreamOK, Joining
  <2>2. DOMAIN down'[c] = {}
    BY <1>2
  <2>3. \A n : StepByStep(down'[c], n)
    BY <2>2 DEF StepByStep, Projecting
  <2> QED
    BY <1>1, <1>2, <2>1, <2>3 DEF ConnectionInv, StreamInv
<1> QED
  BY <1>4, <1>5, <1>6, <1>7, <1>8, <1>9, <1>10 DEF ConnectionInv

\* A client reads one frame.
LEMMA QueuesRead ==
  ASSUME ConnectionTypeOK, AskInv, UNCHANGED <<up, ask>>, NEW c \in Clients, down[c] # <<>>,
         down' = [down EXCEPT ![c] = Tail(down[c])],
         \A r \in Requests : screen'[r] \in Open => screen[r] \in Open \/
           (c \in up /\ Head(down[c]).kind \in Runs /\ r = Head(down[c]).request)
  PROVE  /\ down' \in [Clients -> Seq(Frames)]
         /\ down'[c] = Tail(down[c])
         /\ \A d \in Clients \ {c} : down'[d] = down[d]
         /\ AskInv'
<1>1. /\ Tail(down[c]) \in Seq(Frames)
      /\ DOMAIN down[c] = 1 .. Len(down[c]) /\ Len(down[c]) \in Nat /\ Len(down[c]) >= 1
      /\ Head(down[c]) = down[c][1]
      /\ DOMAIN Tail(down[c]) = 1 .. Len(down[c]) - 1
      /\ \A i \in 1 .. Len(down[c]) - 1 : Tail(down[c])[i] = down[c][i + 1]
  BY TailOf DEF ConnectionTypeOK
<1>2. /\ down' \in [Clients -> Seq(Frames)] /\ down'[c] = Tail(down[c])
      /\ \A d \in Clients \ {c} : down'[d] = down[d]
  BY <1>1 DEF ConnectionTypeOK
<1>3. \A i \in DOMAIN down'[c] : i + 1 \in DOMAIN down[c] /\ down'[c][i] = down[c][i + 1]
  BY <1>1, <1>2
<1>4. \A d \in Clients : \A i \in DOMAIN down'[d] : \E j \in DOMAIN down[d] :
        down'[d][i] = down[d][j]
  BY <1>2, <1>3
<1>5. ASSUME NEW r \in Requests, screen'[r] \in Open PROVE ask[r].at # "none" /\ ask[r].to \in up
  <2>1. CASE screen[r] \in Open
    BY <2>1 DEF AskInv
  <2>2. CASE c \in up /\ Head(down[c]).kind \in Runs /\ r = Head(down[c]).request
    <3>1. 1 \in DOMAIN down[c]
      BY <1>1
    <3> QED
      BY <1>1, <2>2, <3>1 DEF AskInv
  <2> QED
    BY <1>5, <2>1, <2>2
<1>6. AskInv'
  BY <1>4, <1>5 DEF AskInv
<1> QED
  BY <1>2, <1>6

\* It reads a frame that is about a question.
LEMMA ReceiveOtherStep ==
  ASSUME ConnectionInv, NEW c \in Clients,
         ReceiveDialogue(c) \/ ReceiveWithdrawal(c) \/ ReceiveNavigation(c)
  PROVE  ConnectionInv'
<1> USE DEF frontendRest, coreVars, syncVars, closeVars, stopVars
<1> DEFINE r == Head(down[c]).request
<1>1. /\ c \in up /\ down[c] # <<>> /\ Head(down[c]).kind \in {"interact", "withdraw", "navigate"}
      /\ down' = [down EXCEPT ![c] = Tail(down[c])]
      /\ UNCHANGED <<seen, frontendRest>>
  BY DEF ReceiveDialogue, ReceiveWithdrawal, ReceiveNavigation, Arrives, Consume
<1>2. /\ screen' \in [Requests -> ScreenType]
      /\ \A s \in Requests : screen'[s] \in Open =>
           screen[s] \in Open \/ (Head(down[c]).kind \in Runs /\ s = r)
  <2> HIDE DEF r
  <2>1. screen \in [Requests -> ScreenType]
    BY DEF ConnectionInv, ConnectionTypeOK, ScreenType
  <2>2. CASE ReceiveDialogue(c)
    <3>1. Head(down[c]).kind = "interact"
      BY <2>2 DEF ReceiveDialogue, Arrives
    <3>2. screen' = [screen EXCEPT ![r] = "refused"] \/ screen' = [screen EXCEPT ![r] = "shown"]
      BY <2>2 DEF ReceiveDialogue, r
    <3> QED
      BY <2>1, <3>1, <3>2 DEF ScreenType, Runs
  <2>3. CASE ReceiveWithdrawal(c)
    <3>1. screen' = [screen EXCEPT ![r] = IF screen[r] = "shown" THEN "over" ELSE screen[r]]
      BY <2>3 DEF ReceiveWithdrawal, r
    <3> QED
      BY <2>1, <3>1 DEF ScreenType, Open
  <2>4. CASE ReceiveNavigation(c)
    <3>1. Head(down[c]).kind = "navigate"
      BY <2>4 DEF ReceiveNavigation, Arrives
    <3>2. screen' = [screen EXCEPT ![r] = "waiting"]
      BY <2>4 DEF ReceiveNavigation, r
    <3> QED
      BY <2>1, <3>1, <3>2 DEF ScreenType, Runs
  <2> QED
    BY <2>2, <2>3, <2>4
<1> HIDE DEF r
<1>3. /\ down' \in [Clients -> Seq(Frames)] /\ down'[c] = Tail(down[c])
      /\ \A d \in Clients \ {c} : down'[d] = down[d]
      /\ AskInv'
  BY <1>1, <1>2, QueuesRead DEF ConnectionInv, r
<1>4. ConnectionTypeOK'
  BY <1>1, <1>2, <1>3 DEF ConnectionInv, ConnectionTypeOK, ScreenType
<1>5. ClosingInv' /\ RequestInv'
  BY <1>1, <1>3, ClosingFrame, RequestFrame DEF ConnectionInv
<1>6. StreamInv'
  <2>1. \A d \in Clients :
           \/ down'[d] = down[d]
           \/ /\ down[d] # <<>> /\ Head(down[d]).kind \notin {"snapshot", "event"}
              /\ down'[d] = Tail(down[d])
    BY <1>1, <1>3
  <2> QED
    BY <1>1, <2>1, StreamFrames DEF ConnectionInv
<1>7. CallInv' /\ EditorInv'
  BY <1>1, CallFrame, EditorStages DEF ConnectionInv, CallInv
<1> QED
  BY <1>3, <1>4, <1>5, <1>6, <1>7 DEF ConnectionInv

\* Its copy of Core's state takes one step.
LEMMA ReceiveProjectionStep ==
  ASSUME ConnectionInv, NEW c \in Clients, ReceiveProjection(c)
  PROVE  ConnectionInv'
<1> USE DEF frontendRest, coreVars, syncVars, closeVars, stopVars
<1> DEFINE v == Head(down[c]).revision
<1>1. /\ c \in up /\ down[c] # <<>> /\ Head(down[c]).kind \in {"snapshot", "event"}
      /\ down' = [down EXCEPT ![c] = Tail(down[c])]
      /\ seen' = [seen EXCEPT ![c] = v]
      /\ UNCHANGED <<screen, frontendRest>>
  BY DEF ReceiveProjection, Arrives, Consume
<1>2. /\ down' \in [Clients -> Seq(Frames)] /\ down'[c] = Tail(down[c])
      /\ \A d \in Clients \ {c} : down'[d] = down[d]
      /\ AskInv'
  BY <1>1, QueuesRead DEF ConnectionInv
<1>3. /\ down[c] \in Seq(Frames) /\ Head(down[c]) \in Frames
      /\ DOMAIN down[c] = 1 .. Len(down[c]) /\ Len(down[c]) \in Nat /\ Len(down[c]) >= 1
      /\ Head(down[c]) = down[c][1]
  BY <1>1, TailOf DEF ConnectionInv, ConnectionTypeOK
<1>4. v \in Nat
  BY <1>3 DEF Frames
<1> HIDE DEF v
<1>5. seen' \in [Clients -> Nat] /\ seen'[c] = v /\ \A d \in Clients \ {c} : seen'[d] = seen[d]
  BY <1>1, <1>4 DEF ConnectionInv, ConnectionTypeOK
<1>6. ConnectionTypeOK'
  BY <1>1, <1>2, <1>5 DEF ConnectionInv, ConnectionTypeOK
<1>7. ClosingInv' /\ RequestInv'
  BY <1>1, <1>2, ClosingFrame, RequestFrame DEF ConnectionInv
<1>8. CallInv' /\ EditorInv'
  BY <1>1, CallFrame, EditorStages DEF ConnectionInv, CallInv
<1>9. StreamInv'
  <2>1. StreamOK(c) /\ seen[c] \in Nat /\ StepByStep(down[c], seen[c])
    BY <1>1 DEF ConnectionInv, StreamInv, ConnectionTypeOK
  <2>2. Projecting(down[c]) # {}
    BY <1>1, <1>3 DEF Projecting
  <2>3. c \in forwarding /\ ~ Joining(c) /\ (c \in subscribed) /\ (c \in stored)
    BY <2>1, <2>2 DEF StreamOK
  <2>4. PICK n \in Nat : Reaches(down[c], seen[c], n) /\ Follows(events[c], n, revision)
    BY <2>1, <2>3 DEF StreamOK
  <2>5. Leads(down'[c], v, n)
    BY <1>1, <1>2, <1>3, <2>1, <2>4, ReadProjection DEF Leads, v
  <2>6. StreamOK(c)'
    BY <1>1, <1>5, <2>3, <2>4, <2>5 DEF StreamOK, Joining, Leads
  <2>7. ASSUME NEW d \in up \ {c} PROVE StreamOK(d)'
    <3>1. d \in Clients \ {c} /\ StreamOK(d)
      BY <2>7 DEF ConnectionInv, ConnectionTypeOK, StreamInv
    <3> QED
      BY <1>1, <1>2, <1>5, <3>1 DEF StreamOK, Joining
  <2>8. ASSUME NEW d \in Clients PROVE StepByStep(down'[d], seen'[d])
    <3>1. CASE d = c
      BY <1>5, <2>5, <3>1 DEF Leads
    <3>2. CASE d # c
      BY <1>2, <1>5, <3>2 DEF ConnectionInv, StreamInv
    <3> QED
      BY <3>1, <3>2
  <2> QED
    BY <1>1, <2>6, <2>7, <2>8 DEF ConnectionInv, StreamInv
<1> QED
  BY <1>2, <1>6, <1>7, <1>8, <1>9 DEF ConnectionInv

\* A screen closes, and its answer may reach the daemon.
LEMMA RespondStep ==
  ASSUME ConnectionInv, NEW r \in Requests, Respond(r) \/ Navigated(r)
  PROVE  ConnectionInv'
<1> USE DEF connectionVars, coreVars, syncVars, closeVars, stopVars
<1>1. /\ screen' = [screen EXCEPT ![r] = "over"]
      /\ ask' = [ask EXCEPT ![r].at = "replied"] \/ ask' = ask
      /\ ask' # ask => ask[r].at = "sent"
      /\ UNCHANGED <<operation, stage, gaveUp, cancelled, connectionVars, coreVars, syncVars,
                     closeVars, editor, contexts, stopVars>>
  BY DEF Respond, Navigated, Reply
<1>2. /\ screen' \in [Requests -> ScreenType]
      /\ \A s \in Requests : screen'[s] \in Open => screen[s] \in Open
  BY <1>1 DEF ConnectionInv, ConnectionTypeOK, ScreenType, Open
<1>3. /\ ask' \in [Requests -> AskType]
      /\ \A s \in Requests : /\ ask'[s].kind = ask[s].kind /\ ask'[s].to = ask[s].to
                             /\ ask'[s].at = ask[s].at \/ (ask[s].at = "sent" /\ ask'[s].at = "replied")
  <2>1. CASE ask' = ask
    BY <2>1 DEF ConnectionInv, ConnectionTypeOK, AskType
  <2>2. CASE ask[r].at = "sent" /\ ask' = [ask EXCEPT ![r].at = "replied"]
    BY <2>2, AskMoves DEF ConnectionInv
  <2> QED
    BY <1>1, <2>1, <2>2
<1>4. ConnectionTypeOK'
  BY <1>1, <1>2, <1>3 DEF ConnectionInv, ConnectionTypeOK, ScreenType, AskType
<1>5. AskInv'
  BY <1>1, <1>2, <1>3, AskFrame DEF ConnectionInv
<1>6. ClosingInv' /\ RequestInv' /\ StreamInv'
  BY <1>1, ClosingFrame, RequestFrame, StreamFrame DEF ConnectionInv
<1>7. CallInv' /\ EditorInv'
  BY <1>1, CallFrame, EditorStages DEF ConnectionInv, CallInv
<1> QED
  BY <1>4, <1>5, <1>6, <1>7 DEF ConnectionInv
-----------------------------------------------------------------------------
(* The stream of events                                                    *)

\* One frame more is on its way to client c.
SentTo(c, f) ==
  /\ down' \in [Clients -> Seq(Frames)]
  /\ down'[c] = Append(down[c], f)
  /\ \A d \in Clients \ {c} : down'[d] = down[d]
  /\ \A d \in Clients : \A i \in DOMAIN down'[d] :
       \/ i \in DOMAIN down[d] /\ down'[d][i] = down[d][i]
       \/ d = c /\ down'[d][i] = f

\* The daemon sends a frame.
LEMMA QueueSent ==
  ASSUME ConnectionTypeOK, NEW c \in Clients, NEW f \in Frames,
         down' = [down EXCEPT ![c] = Append(down[c], f)]
  PROVE  SentTo(c, f)
<1>1. /\ Append(down[c], f) \in Seq(Frames)
      /\ DOMAIN Append(down[c], f) = 1 .. Len(down[c]) + 1
      /\ DOMAIN down[c] = 1 .. Len(down[c]) /\ Len(down[c]) \in Nat
      /\ \A i \in 1 .. Len(down[c]) : Append(down[c], f)[i] = down[c][i]
      /\ Append(down[c], f)[Len(down[c]) + 1] = f
  BY AppendOf DEF ConnectionTypeOK
<1>2. /\ down' \in [Clients -> Seq(Frames)] /\ down'[c] = Append(down[c], f)
      /\ \A d \in Clients \ {c} : down'[d] = down[d]
  BY <1>1 DEF ConnectionTypeOK
<1>3. \A i \in DOMAIN down'[c] :
        (i \in DOMAIN down[c] /\ down'[c][i] = down[c][i]) \/ down'[c][i] = f
  BY <1>1, <1>2
<1> QED
  BY <1>2, <1>3 DEF SentTo

\* The next event is forwarded.
LEMMA ForwardStep ==
  ASSUME ConnectionInv, NEW c \in Clients, ForwardEvent(c)
  PROVE  ConnectionInv'
<1> USE DEF syncVars, closeVars, callVars, stopVars
<1> DEFINE v == Head(events[c])
           f == Projected("event", v)
<1>1. /\ c \in forwarding /\ c \in up /\ events[c] # <<>>
      /\ events' = [events EXCEPT ![c] = Tail(events[c])]
      /\ down' = [down EXCEPT ![c] = Append(down[c], f)]
      /\ UNCHANGED <<operation, stage, gaveUp, cancelled, up, inbox, seen, revision, subscribed,
                     syncVars, closeVars, editor, callVars, stopVars>>
  BY DEF ForwardEvent, ToClient
<1>2. /\ Tail(events[c]) \in Seq(Nat)
      /\ Len(events[c]) \in Nat /\ Len(events[c]) >= 1 /\ DOMAIN events[c] = 1 .. Len(events[c])
      /\ v = events[c][1] /\ v \in Nat
      /\ DOMAIN Tail(events[c]) = 1 .. Len(events[c]) - 1
      /\ Len(Tail(events[c])) = Len(events[c]) - 1
      /\ \A i \in 1 .. Len(events[c]) - 1 : Tail(events[c])[i] = events[c][i + 1]
  BY <1>1, TailOf DEF ConnectionInv, ConnectionTypeOK
<1>3. f \in Frames /\ f.kind = "event" /\ f.revision = v
  BY <1>2 DEF Projected, Frames
<1> HIDE DEF v, f
<1>4. /\ events' \in [Clients -> Seq(Nat)] /\ events'[c] = Tail(events[c])
      /\ \A d \in Clients \ {c} : events'[d] = events[d]
  BY <1>1, <1>2 DEF ConnectionInv, ConnectionTypeOK
<1>5. SentTo(c, f)
  <2>1. ConnectionTypeOK
    BY DEF ConnectionInv
  <2> QED
    BY <1>1, <1>3, <2>1, QueueSent
<1>6. ConnectionTypeOK'
  BY <1>1, <1>4, <1>5 DEF ConnectionInv, ConnectionTypeOK, SentTo
<1>7. ClosingInv' /\ RequestInv'
  BY <1>1, <1>5, ClosingFrame, RequestFrame DEF ConnectionInv, SentTo
<1>8. CallInv' /\ EditorInv'
  BY <1>1, CallFrame, EditorStages DEF ConnectionInv, CallInv
<1>9. AskInv'
  BY <1>1, <1>3, <1>5 DEF ConnectionInv, AskInv, Runs, SentTo
<1>10. StreamInv'
  <2>1. StreamOK(c) /\ seen[c] \in Nat /\ revision \in Nat /\ StepByStep(down[c], seen[c])
    BY <1>1 DEF ConnectionInv, StreamInv, ConnectionTypeOK
  <2>2. PICK n \in Nat : Reaches(down[c], seen[c], n) /\ Follows(events[c], n, revision)
    BY <1>1, <2>1 DEF StreamOK
  <2>3. v = n + 1
    <3>1. 1 \in DOMAIN events[c]
      BY <1>2
    <3> QED
      BY <1>2, <2>2, <3>1 DEF Follows
  <2>4. Follows(events'[c], n + 1, revision)
    <3>1. revision = n + 1 + (Len(events[c]) - 1)
      <4>1. revision = n + Len(events[c])
        BY <2>2 DEF Follows
      <4>2. Len(events[c]) \in Nat /\ n \in Nat
        BY <1>2, <2>2
      <4>3. ASSUME NEW a \in Nat, NEW b \in Nat PROVE a + b = a + 1 + (b - 1)
        OBVIOUS
      <4> QED
        BY <4>1, <4>2, <4>3
    <3>2. ASSUME NEW i \in 1 .. Len(events[c]) - 1 PROVE Tail(events[c])[i] = n + 1 + i
      <4>1. i + 1 \in DOMAIN events[c] /\ i \in Nat
        BY <1>2
      <4>2. events[c][i + 1] = n + (i + 1)
        BY <2>2, <4>1 DEF Follows
      <4> QED
        BY <1>2, <4>1, <4>2
    <3> QED
      BY <1>2, <1>4, <3>1, <3>2 DEF Follows
  <2>5. Leads(down'[c], seen[c], n + 1)
    <3>1. down[c] \in Seq(Frames) /\ Leads(down[c], seen[c], n)
      BY <2>1, <2>2 DEF Leads, ConnectionInv, ConnectionTypeOK
    <3> QED
      BY <1>3, <1>5, <2>1, <2>2, <2>3, <3>1, SendEvent DEF SentTo
  <2>6. StreamOK(c)'
    <3>1. Reaches(down'[c], seen[c], n + 1) /\ n + 1 \in Nat
      BY <2>5 DEF Leads
    <3>2. c \in subscribed /\ ~ Joining(c)
      BY <1>1, <2>1 DEF StreamOK
    <3> QED
      BY <1>1, <2>1, <2>4, <3>1, <3>2 DEF StreamOK, Joining
  <2>7. ASSUME NEW d \in up \ {c} PROVE StreamOK(d)'
    <3>1. d \in Clients \ {c} /\ StreamOK(d)
      BY <2>7 DEF ConnectionInv, ConnectionTypeOK, StreamInv
    <3> QED
      BY <1>1, <1>4, <1>5, <3>1 DEF StreamOK, Joining, SentTo
  <2>8. ASSUME NEW d \in Clients PROVE StepByStep(down'[d], seen'[d])
    <3>1. CASE d = c
      BY <1>1, <2>5, <3>1 DEF Leads
    <3>2. CASE d # c
      BY <1>1, <1>5, <3>2 DEF ConnectionInv, StreamInv, SentTo
    <3> QED
      BY <3>1, <3>2
  <2> QED
    BY <1>1, <2>6, <2>7, <2>8 DEF ConnectionInv, StreamInv
<1> QED
  BY <1>6, <1>7, <1>8, <1>9, <1>10 DEF ConnectionInv

\* Calls and editors go on when a connection gets its subscription.
LEMMA GrownFrame ==
  ASSUME ConnectionInv, UNCHANGED <<stage, closing, dropping, editor, contexts>>, stored \subseteq stored'
  PROVE  CallInv' /\ EditorInv'
<1>1. CallInv'
  BY DEF ConnectionInv, CallInv
<1>2. ASSUME NEW e \in Requests PROVE EditorOK(e)'
  BY DEF ConnectionInv, EditorInv, EditorOK
<1>3. \A r \in Requests : stage'[r] = "claimed" => editor'[EditorOf[r]].entry \in {"claimed", "over"}
  BY DEF ConnectionInv, EditorInv
<1> QED
  BY <1>1, <1>2, <1>3 DEF EditorInv

\* The other clients are not concerned by what happens to the stream of one.
LEMMA StreamOthers ==
  ASSUME ConnectionInv, NEW c \in Clients, UNCHANGED <<up, seen, revision>>,
         \A d \in Clients \ {c} :
           /\ down'[d] = down[d] /\ events'[d] = events[d] /\ sync'[d] = sync[d]
           /\ d \in subscribed' <=> d \in subscribed
           /\ d \in stored' <=> d \in stored
           /\ d \in forwarding' <=> d \in forwarding,
         c \in up => StreamOK(c)',
         StepByStep(down'[c], seen[c])
  PROVE  StreamInv'
<1>1. ASSUME NEW d \in up PROVE StreamOK(d)'
  <2>1. CASE d = c
    BY <2>1
  <2>2. CASE d # c
    <3>1. d \in Clients \ {c} /\ StreamOK(d)
      BY <2>2 DEF ConnectionInv, ConnectionTypeOK, StreamInv
    <3> QED
      BY <3>1 DEF StreamOK, Joining
  <2> QED
    BY <2>1, <2>2
<1>2. ASSUME NEW d \in Clients PROVE StepByStep(down'[d], seen'[d])
  <2>1. CASE d = c
    BY <2>1
  <2>2. CASE d # c
    BY <2>2 DEF ConnectionInv, StreamInv
  <2> QED
    BY <2>1, <2>2
<1> QED
  BY <1>1, <1>2 DEF ConnectionInv, StreamInv

\* A client that synchronizes gets a subscription at the revision of its
\* snapshot; a second "sync" is refused.
LEMMA SubscribeStep ==
  ASSUME ConnectionInv, NEW c \in Clients, Subscribe(c)
  PROVE  ConnectionInv'
<1> USE DEF closeVars, callVars, stopVars
<1>1. /\ c \in up /\ inbox[c] # <<>> /\ Head(inbox[c]).kind # "request"
      /\ inbox' = [inbox EXCEPT ![c] = Tail(inbox[c])]
      /\ sync[c].at = "idle"
      /\ UNCHANGED <<operation, stage, gaveUp, cancelled, up, down, seen, revision, events, stored,
                     forwarding, closeVars, editor, callVars, stopVars>>
  BY DEF Subscribe, Take, Frame
<1>2. \/ UNCHANGED <<sync, subscribed>>
      \/ /\ c \notin stored
         /\ sync' = [sync EXCEPT ![c] = [at |-> "subscribed", snapshot |-> revision]]
         /\ subscribed' = subscribed \cup {c}
  BY DEF Subscribe
<1>3. RequestInv' /\ inbox' \in [Clients -> Seq(Frames)]
  <2>1. \A r \in Requests : stage[r] = "sent" =>
          stage'[r] = "sent" \/ Head(inbox[c]) = Frame("request", r)
    BY <1>1
  <2>2. /\ ConnectionTypeOK /\ RequestInv
        /\ inbox[c] # <<>> /\ inbox' = [inbox EXCEPT ![c] = Tail(inbox[c])]
    BY <1>1 DEF ConnectionInv
  <2>3. RequestInv'
    BY <2>1, <2>2, RequestTaken
  <2>4. inbox' \in [Clients -> Seq(Frames)]
    BY <2>1, <2>2, RequestTaken
  <2> QED
    BY <2>3, <2>4
<1>4. ConnectionTypeOK'
  <2>1. revision \in Nat /\ sync \in [Clients -> SyncType] /\ subscribed \subseteq Clients
    BY DEF ConnectionInv, ConnectionTypeOK, SyncType
  <2>2. [at |-> "subscribed", snapshot |-> revision] \in SyncType
    BY <2>1 DEF SyncType
  <2>3. sync' \in [Clients -> SyncType] /\ subscribed' \subseteq Clients
    BY <1>2, <2>1, <2>2
  <2> QED
    BY <1>1, <1>3, <2>3 DEF ConnectionInv, ConnectionTypeOK, SyncType
<1>5. ClosingInv'
  <2>1. \A d \in Clients : d \in up \/ (inbox'[d] = inbox[d] /\ down'[d] = down[d])
    BY <1>1 DEF ConnectionInv, ConnectionTypeOK
  <2> QED
    BY <1>1, <2>1, ClosingFrame DEF ConnectionInv
<1>6. AskInv' /\ CallInv' /\ EditorInv'
  BY <1>1, AskFrame, GrownFrame DEF ConnectionInv
<1>7. StreamInv'
  <2>1. CASE UNCHANGED <<sync, subscribed>>
    BY <1>1, <2>1, StreamFrame DEF ConnectionInv, coreVars, syncVars
  <2>2. CASE /\ c \notin stored
             /\ sync' = [sync EXCEPT ![c] = [at |-> "subscribed", snapshot |-> revision]]
             /\ subscribed' = subscribed \cup {c}
    <3>1. StreamOK(c) /\ revision \in Nat /\ revision # 0
      BY <1>1 DEF ConnectionInv, ConnectionTypeOK, StreamInv
    <3>2. c \notin forwarding /\ c \notin subscribed /\ events[c] = <<>>
      BY <1>1, <2>2, <3>1 DEF StreamOK, Joining
    <3>3. Follows(<<>>, revision, revision)
      BY <3>1 DEF Follows
    <3>4. /\ sync'[c] = [at |-> "subscribed", snapshot |-> revision]
          /\ \A d \in Clients \ {c} : sync'[d] = sync[d]
      BY <2>2 DEF ConnectionInv, ConnectionTypeOK
    <3>5. StreamOK(c)'
      BY <1>1, <2>2, <3>1, <3>2, <3>3, <3>4 DEF StreamOK, Joining
    <3>6. \A d \in Clients \ {c} :
            /\ down'[d] = down[d] /\ events'[d] = events[d] /\ sync'[d] = sync[d]
            /\ d \in subscribed' <=> d \in subscribed
            /\ d \in stored' <=> d \in stored
            /\ d \in forwarding' <=> d \in forwarding
      BY <1>1, <2>2, <3>4
    <3>7. StepByStep(down'[c], seen[c])
      BY <1>1 DEF ConnectionInv, StreamInv
    <3> QED
      BY <1>1, <3>5, <3>6, <3>7, StreamOthers
  <2> QED
    BY <1>2, <2>1, <2>2
<1> QED
  BY <1>3, <1>4, <1>5, <1>6, <1>7 DEF ConnectionInv

\* The handler of "sync" of client c is at x, with the snapshot it had.
SyncAt(c, x) ==
  /\ sync' \in [Clients -> SyncType]
  /\ sync'[c].at = x /\ sync'[c].snapshot = sync[c].snapshot
  /\ \A d \in Clients \ {c} : sync'[d] = sync[d]

\* That is what a step of it does.
LEMMA SyncMoves ==
  ASSUME ConnectionTypeOK, NEW c \in Clients, NEW x \in {"idle", "stored", "attached"},
         sync' = [sync EXCEPT ![c].at = x]
  PROVE  SyncAt(c, x)
<1>1. sync \in [Clients -> SyncType] /\ sync[c] \in SyncType
  BY DEF ConnectionTypeOK, SyncType
<1>2. /\ sync'[c] = [sync[c] EXCEPT !.at = x]
      /\ \A d \in Clients \ {c} : sync'[d] = sync[d]
  BY <1>1
<1>3. [sync[c] EXCEPT !.at = x] \in SyncType
  BY <1>1 DEF SyncType
<1>4. sync' \in [Clients -> SyncType]
  BY <1>1, <1>3
<1> QED
  BY <1>1, <1>2, <1>4 DEF SyncAt, SyncType

\* The connection keeps the subscription, and the plugins get to know it.
LEMMA StoreStep ==
  ASSUME ConnectionInv, NEW c \in Clients, Store(c) \/ Attach(c)
  PROVE  ConnectionInv'
<1> USE DEF connectionVars, coreVars, closeVars, callVars, stopVars
<1>1. /\ \/ /\ sync[c].at = "subscribed" /\ sync' = [sync EXCEPT ![c].at = "stored"]
            /\ stored' = stored \cup {c} /\ links' = links
         \/ /\ sync[c].at = "stored" /\ sync' = [sync EXCEPT ![c].at = "attached"]
            /\ links' = links \cup {c} /\ stored' = stored
      /\ UNCHANGED <<operation, stage, gaveUp, cancelled, connectionVars, coreVars, forwarding,
                     closing, dropping, editor, callVars, stopVars>>
  BY DEF Store, Attach
<1>2. \E x \in {"stored", "attached"} : SyncAt(c, x)
  <2>1. ConnectionTypeOK
    BY DEF ConnectionInv
  <2>2. ASSUME sync' = [sync EXCEPT ![c].at = "stored"] PROVE SyncAt(c, "stored")
    BY <2>1, <2>2, SyncMoves
  <2>3. ASSUME sync' = [sync EXCEPT ![c].at = "attached"] PROVE SyncAt(c, "attached")
    BY <2>1, <2>3, SyncMoves
  <2> QED
    BY <1>1, <2>2, <2>3
<1>3. /\ sync' \in [Clients -> SyncType] /\ sync'[c].at \in {"stored", "attached"}
      /\ sync'[c].snapshot = sync[c].snapshot
      /\ \A d \in Clients \ {c} : sync'[d] = sync[d]
  <2>1. PICK x \in {"stored", "attached"} : SyncAt(c, x)
    BY <1>2
  <2> QED
    BY <2>1 DEF SyncAt
<1>5. ConnectionTypeOK'
  BY <1>1, <1>3 DEF ConnectionInv, ConnectionTypeOK, SyncType
<1>6. ClosingInv' /\ RequestInv' /\ AskInv'
  BY <1>1, ClosingFrame, RequestFrame, AskFrame DEF ConnectionInv
<1>7. CallInv' /\ EditorInv'
  BY <1>1, GrownFrame DEF ConnectionInv
<1>8. StreamInv'
  <2>1. c \in up => StreamOK(c)'
    <3>1. CASE c \in up
      <4>1. StreamOK(c) /\ Joining(c)
        BY <1>1, <3>1 DEF ConnectionInv, StreamInv, Joining
      <4>2. c \in stored'
        BY <1>1, <4>1 DEF StreamOK
      <4> QED
        BY <1>1, <1>3, <4>1, <4>2 DEF StreamOK, Joining
    <3> QED
      BY <3>1
  <2>2. \A d \in Clients \ {c} :
          /\ down'[d] = down[d] /\ events'[d] = events[d] /\ sync'[d] = sync[d]
          /\ d \in subscribed' <=> d \in subscribed
          /\ d \in stored' <=> d \in stored
          /\ d \in forwarding' <=> d \in forwarding
    BY <1>1, <1>3
  <2>3. StepByStep(down'[c], seen[c])
    BY <1>1 DEF ConnectionInv, StreamInv
  <2> QED
    BY <1>1, <2>1, <2>2, <2>3, StreamOthers
<1> QED
  BY <1>5, <1>6, <1>7, <1>8 DEF ConnectionInv

\* Its answer is sent, and the events follow.
LEMMA AnswerSyncStep ==
  ASSUME ConnectionInv, NEW c \in Clients, AnswerSync(c)
  PROVE  ConnectionInv'
<1> USE DEF closeVars, callVars, stopVars
<1> DEFINE f == Projected("snapshot", sync[c].snapshot)
<1>1. /\ sync[c].at = "attached" /\ sync' = [sync EXCEPT ![c].at = "idle"]
      /\ \/ /\ c \in up /\ forwarding' = forwarding \cup {c} /\ subscribed' = subscribed
            /\ down' = [down EXCEPT ![c] = Append(down[c], f)]
         \/ c \notin up /\ subscribed' = subscribed \ {c} /\ UNCHANGED <<forwarding, down>>
      /\ UNCHANGED <<operation, stage, gaveUp, cancelled, up, inbox, seen, revision, events, stored,
                     closeVars, editor, callVars, stopVars>>
  BY DEF AnswerSync, ToClient
<1>2. ConnectionTypeOK /\ sync[c].snapshot \in Nat
  BY DEF ConnectionInv, ConnectionTypeOK
<1>3. f \in Frames /\ f.kind = "snapshot" /\ f.revision = sync[c].snapshot
  BY <1>2 DEF Projected, Frames
<1> HIDE DEF f
<1>4. SyncAt(c, "idle")
  BY <1>1, <1>2, SyncMoves
<1>5. SentTo(c, f) \/ (c \notin up /\ down' = down)
  BY <1>1, <1>2, <1>3, QueueSent
<1>6. down' \in [Clients -> Seq(Frames)] /\ \A d \in Clients \ {c} : down'[d] = down[d]
  BY <1>2, <1>5 DEF SentTo, ConnectionTypeOK
<1>7. ConnectionTypeOK'
  BY <1>1, <1>4, <1>6 DEF ConnectionInv, ConnectionTypeOK, SyncAt, SyncType
<1>8. ClosingInv' /\ RequestInv'
  BY <1>1, <1>6, ClosingFrame, RequestFrame DEF ConnectionInv
<1>9. CallInv' /\ EditorInv'
  BY <1>1, GrownFrame DEF ConnectionInv
<1>10. AskInv'
  <2>1. \A d \in Clients : \A i \in DOMAIN down'[d] :
          (i \in DOMAIN down[d] /\ down'[d][i] = down[d][i]) \/ down'[d][i] = f
    BY <1>5 DEF SentTo
  <2> QED
    BY <1>1, <1>3, <2>1 DEF ConnectionInv, AskInv, Runs
<1>11. StreamInv'
  <2>1. ASSUME c \in up
        PROVE  StreamOK(c)' /\ StepByStep(down'[c], seen[c])
    <3>1. StreamOK(c) /\ Joining(c)
      BY <1>1, <2>1 DEF ConnectionInv, StreamInv, Joining
    <3>2. /\ c \notin forwarding /\ Projecting(down[c]) = {} /\ seen[c] = 0
          /\ sync[c].snapshot # 0 /\ Follows(events[c], sync[c].snapshot, revision)
          /\ c \in subscribed /\ c \in stored
      BY <1>1, <3>1 DEF StreamOK
    <3>3. down'[c] = Append(down[c], f) /\ down[c] \in Seq(Frames)
      BY <1>2, <1>5, <2>1 DEF SentTo, ConnectionTypeOK
    <3>4. Leads(down'[c], seen[c], sync[c].snapshot)
      <4>1. Leads(Append(down[c], f), 0, f.revision)
        BY <1>3, <3>2, <3>3, SendSnapshot
      <4> QED
        BY <1>3, <3>2, <3>3, <4>1
    <3>5. StreamOK(c)'
      BY <1>1, <1>2, <1>4, <2>1, <3>2, <3>4 DEF StreamOK, Joining, SyncAt, Leads
    <3> QED
      BY <3>4, <3>5 DEF Leads
  <2>2. StepByStep(down'[c], seen[c])
    <3>1. CASE c \notin up
      BY <1>1, <3>1 DEF ConnectionInv, StreamInv
    <3> QED
      BY <2>1, <3>1
  <2>3. \A d \in Clients \ {c} :
          /\ down'[d] = down[d] /\ events'[d] = events[d] /\ sync'[d] = sync[d]
          /\ d \in subscribed' <=> d \in subscribed
          /\ d \in stored' <=> d \in stored
          /\ d \in forwarding' <=> d \in forwarding
    BY <1>1, <1>4, <1>6 DEF SyncAt
  <2> QED
    BY <1>1, <2>1, <2>2, <2>3, StreamOthers
<1> QED
  BY <1>7, <1>8, <1>9, <1>10, <1>11 DEF ConnectionInv
-----------------------------------------------------------------------------
(* Protocol.Close                                                          *)

\* The connection of c is lost and gets to x, with the editors D to be dropped.
Closes(c, x, D) ==
  /\ c \notin up
  /\ x \in {"cancelled", "taken", "detached", "unlinked", "closed"}
  /\ closing' = [closing EXCEPT ![c] = x]
  /\ stored' \in {stored, stored \ {c}} /\ subscribed' \in {subscribed, subscribed \ {c}}
  /\ links' \subseteq links /\ contexts' \subseteq contexts
  /\ D \subseteq Requests /\ dropping' = [dropping EXCEPT ![c] = D]
  /\ x = "closed" => \A r \in Requests : OwnerOf[r] = c => stage[r] \notin CallStages
  /\ x \in Early => closing[c] \in Early /\ (c \in stored => c \in stored')
  /\ D # {} => x = "unlinked"
  /\ \A e \in D : OwnerOf[e] = c
  /\ UNCHANGED <<operation, stage, gaveUp, cancelled, up, inbox, down, seen, revision, events,
                 sync, forwarding, ask, screen, stopping, stopped>>

\* That keeps the invariant if the editors stay in order.
LEMMA ClosedStep ==
  ASSUME ConnectionInv, NEW c \in Clients, NEW x, NEW D, Closes(c, x, D),
         EditorInv', editor' \in [Requests -> EditorType]
  PROVE  ConnectionInv'
<1> USE DEF Closes
<1>1. /\ closing' \in [Clients ->
                         {"no", "cancelled", "taken", "detached", "unlinked", "closed"}]
      /\ dropping' \in [Clients -> SUBSET Requests]
      /\ closing'[c] = x /\ dropping'[c] = D
      /\ \A d \in Clients \ {c} : closing'[d] = closing[d] /\ dropping'[d] = dropping[d]
  BY DEF ConnectionInv, ConnectionTypeOK
<1>2. /\ stored' \subseteq stored /\ subscribed' \subseteq subscribed
      /\ \A d \in Clients \ {c} : /\ d \in stored' <=> d \in stored
                                  /\ d \in subscribed' <=> d \in subscribed
  OBVIOUS
<1>3. ConnectionTypeOK'
  BY <1>1, <1>2 DEF ConnectionInv, ConnectionTypeOK, EditorType
<1>4. ClosingInv'
  BY <1>1 DEF ConnectionInv, ClosingInv
<1>5. RequestInv'
  BY RequestFrame DEF ConnectionInv
<1>6. AskInv'
  BY AskFrame DEF ConnectionInv
<1>7. CallInv'
  <2>1. ASSUME NEW r \in Requests, stage'[r] \in CallStages
        PROVE  /\ closing'[OwnerOf[r]] # "closed"
               /\ closing'[OwnerOf[r]] \in Early => OwnerOf[r] \in stored'
    <3>1. /\ closing[OwnerOf[r]] # "closed" /\ OwnerOf[r] \in Clients
          /\ closing[OwnerOf[r]] \in Early => OwnerOf[r] \in stored
      BY <2>1, ConnectionAssumption DEF ConnectionInv, CallInv
    <3>2. CASE OwnerOf[r] = c
      BY <1>1, <2>1, <3>1, <3>2
    <3>3. CASE OwnerOf[r] # c
      BY <1>1, <1>2, <3>1, <3>3
    <3> QED
      BY <3>2, <3>3
  <2>2. \A r \in contexts' : stage'[r] = "captured"
    BY DEF ConnectionInv, CallInv
  <2> QED
    BY <2>1, <2>2 DEF CallInv
<1>8. StreamInv'
  <2>1. \A d \in Clients \ {c} :
          /\ down'[d] = down[d] /\ events'[d] = events[d] /\ sync'[d] = sync[d]
          /\ d \in subscribed' <=> d \in subscribed
          /\ d \in stored' <=> d \in stored
          /\ d \in forwarding' <=> d \in forwarding
    BY <1>2
  <2>2. StepByStep(down'[c], seen[c])
    BY DEF ConnectionInv, StreamInv
  <2> QED
    BY <2>1, <2>2, StreamOthers
<1> QED
  BY <1>3, <1>4, <1>5, <1>6, <1>7, <1>8 DEF ConnectionInv

\* The editors that are kept stay in somebody's hands.
LEMMA EditorKept ==
  ASSUME ConnectionInv, UNCHANGED <<stage, editor>>,
         \A e \in Requests :
           LET c == OwnerOf[e] IN
           /\ editor[e].entry = "kept" =>
                /\ closing'[c] # "closed"
                /\ closing'[c] \in Early => c \in stored'
                /\ closing'[c] = "unlinked" => e \in dropping'[c]
           /\ editor[e].entry = "dropped" => e \in dropping'[c]
  PROVE  EditorInv' /\ editor' \in [Requests -> EditorType]
<1>1. ASSUME NEW e \in Requests PROVE EditorOK(e)'
  BY DEF ConnectionInv, EditorInv, EditorOK
<1>2. editor' \in [Requests -> EditorType]
  BY DEF ConnectionInv, ConnectionTypeOK, EditorType
<1> QED
  BY <1>1, <1>2 DEF ConnectionInv, EditorInv

\* Its context ends, and Core ends the subscription with it.
LEMMA CancelStep ==
  ASSUME ConnectionInv, NEW c \in Clients, CancelConnection(c) \/ EndSubscription(c)
  PROVE  ConnectionInv'
<1> USE DEF connectionVars, coreVars, syncVars, closeVars, callVars, stopVars
<1> DEFINE x == IF CancelConnection(c) THEN "cancelled" ELSE closing[c]
<1>1. /\ closing' = [closing EXCEPT ![c] = x]
      /\ (closing[c] = "no" /\ x = "cancelled") \/ (closing[c] # "no" /\ x = closing[c])
      /\ subscribed' \in {subscribed, subscribed \ {c}}
      /\ UNCHANGED <<stored, links, contexts, dropping, editor>>
      /\ UNCHANGED <<operation, stage, gaveUp, cancelled, up, inbox, down, seen, revision, events,
                     sync, forwarding, ask, screen, stopping, stopped>>
  BY DEF CancelConnection, EndSubscription, ConnectionInv, ConnectionTypeOK
<1>2. c \notin up
  BY DEF CancelConnection, EndSubscription, ConnectionInv, ClosingInv
<1> HIDE DEF x
<1>3. /\ x \in {"cancelled", "taken", "detached", "unlinked", "closed"}
      /\ x = "closed" => closing[c] = "closed"
      /\ x \in Early => closing[c] \in Early
      /\ x = "unlinked" <=> closing[c] = "unlinked"
  BY <1>1 DEF ConnectionInv, ConnectionTypeOK, Early
<1>4. /\ dropping[c] \in SUBSET Requests /\ dropping' = [dropping EXCEPT ![c] = dropping[c]]
      /\ dropping[c] # {} => x = "unlinked"
      /\ \A e \in dropping[c] : OwnerOf[e] = c
  BY <1>1, <1>3 DEF ConnectionInv, ConnectionTypeOK, ClosingInv
<1>5. closing'[c] = x /\ \A d \in Clients \ {c} : closing'[d] = closing[d]
  BY <1>1 DEF ConnectionInv, ConnectionTypeOK
<1>6. EditorInv' /\ editor' \in [Requests -> EditorType]
  <2>1. ASSUME NEW e \in Requests
        PROVE  LET d == OwnerOf[e] IN
               /\ editor[e].entry = "kept" =>
                    /\ closing'[d] # "closed"
                    /\ closing'[d] \in Early => d \in stored'
                    /\ closing'[d] = "unlinked" => e \in dropping'[d]
               /\ editor[e].entry = "dropped" => e \in dropping'[d]
    <3>1. EditorOK(e) /\ OwnerOf[e] \in Clients
      BY ConnectionAssumption DEF ConnectionInv, EditorInv
    <3>2. CASE OwnerOf[e] = c
      BY <1>1, <1>3, <1>5, <3>1, <3>2 DEF EditorOK
    <3>3. CASE OwnerOf[e] # c
      BY <1>1, <1>5, <3>1, <3>3 DEF EditorOK
    <3> QED
      BY <3>2, <3>3
  <2> QED
    BY <1>1, <2>1, EditorKept
<1>7. x = "closed" => \A r \in Requests : OwnerOf[r] = c => stage[r] \notin CallStages
  BY <1>3 DEF ConnectionInv, CallInv
<1> QED
  <2>1. Closes(c, x, dropping[c])
    BY <1>1, <1>2, <1>3, <1>4, <1>7 DEF Closes
  <2> QED
    BY <1>6, <2>1, ClosedStep

\* Its subscription is taken, if it has one.
LEMMA TakeSubscriptionStep ==
  ASSUME ConnectionInv, NEW c \in Clients, TakeSubscription(c)
  PROVE  ConnectionInv'
<1> USE DEF connectionVars, coreVars, syncVars, closeVars, callVars, stopVars
<1> DEFINE x == IF c \in stored THEN "taken" ELSE "closed"
<1>1. /\ closing[c] = "cancelled" /\ closing' = [closing EXCEPT ![c] = x]
      /\ stored' = stored \ {c}
      /\ UNCHANGED <<subscribed, links, contexts, dropping, editor>>
      /\ UNCHANGED <<operation, stage, gaveUp, cancelled, up, inbox, down, seen, revision, events,
                     sync, forwarding, ask, screen, stopping, stopped>>
  BY DEF TakeSubscription
<1>2. c \notin up /\ dropping[c] = {}
  BY <1>1 DEF ConnectionInv, ClosingInv
<1>3. (c \in stored /\ x = "taken") \/ (c \notin stored /\ x = "closed")
  OBVIOUS
<1> HIDE DEF x
<1>4. dropping' = [dropping EXCEPT ![c] = {}]
  BY <1>1, <1>2 DEF ConnectionInv, ConnectionTypeOK
<1>5. closing'[c] = x /\ \A d \in Clients \ {c} : closing'[d] = closing[d]
  BY <1>1 DEF ConnectionInv, ConnectionTypeOK
<1>6. EditorInv' /\ editor' \in [Requests -> EditorType]
  <2>1. ASSUME NEW e \in Requests
        PROVE  LET d == OwnerOf[e] IN
               /\ editor[e].entry = "kept" =>
                    /\ closing'[d] # "closed"
                    /\ closing'[d] \in Early => d \in stored'
                    /\ closing'[d] = "unlinked" => e \in dropping'[d]
               /\ editor[e].entry = "dropped" => e \in dropping'[d]
    <3>1. EditorOK(e) /\ OwnerOf[e] \in Clients
      BY ConnectionAssumption DEF ConnectionInv, EditorInv
    <3>2. CASE OwnerOf[e] = c
      BY <1>1, <1>2, <1>3, <1>5, <3>1, <3>2 DEF EditorOK, Early
    <3>3. CASE OwnerOf[e] # c
      BY <1>1, <1>5, <3>1, <3>3 DEF EditorOK
    <3> QED
      BY <3>2, <3>3
  <2> QED
    BY <1>1, <2>1, EditorKept
<1>7. x = "closed" => \A r \in Requests : OwnerOf[r] = c => stage[r] \notin CallStages
  BY <1>1, <1>3 DEF ConnectionInv, CallInv, Early
<1>8. x \in {"cancelled", "taken", "detached", "unlinked", "closed"} /\ x \notin Early
  BY <1>3 DEF Early
<1> QED
  <2>1. Closes(c, x, {})
    BY <1>1, <1>2, <1>4, <1>7, <1>8 DEF Closes
  <2> QED
    BY <1>6, <2>1, ClosedStep

\* Its subscription and its invocations end.
LEMMA DetachInvocationsStep ==
  ASSUME ConnectionInv, NEW c \in Clients, DetachInvocations(c)
  PROVE  ConnectionInv'
<1> USE DEF connectionVars, syncVars, stopVars
<1>1. /\ closing[c] = "taken" /\ closing' = [closing EXCEPT ![c] = "detached"]
      /\ subscribed' = subscribed \ {c} /\ contexts' \subseteq contexts
      /\ UNCHANGED <<stored, links, dropping, editor>>
      /\ UNCHANGED <<operation, stage, gaveUp, cancelled, up, inbox, down, seen, revision, events,
                     sync, forwarding, ask, screen, stopping, stopped>>
  BY DEF DetachInvocations
<1>2. c \notin up /\ dropping[c] = {}
  BY <1>1 DEF ConnectionInv, ClosingInv
<1>3. dropping' = [dropping EXCEPT ![c] = {}]
  BY <1>1, <1>2 DEF ConnectionInv, ConnectionTypeOK
<1>4. closing'[c] = "detached" /\ \A d \in Clients \ {c} : closing'[d] = closing[d]
  BY <1>1 DEF ConnectionInv, ConnectionTypeOK
<1>5. EditorInv' /\ editor' \in [Requests -> EditorType]
  <2>1. ASSUME NEW e \in Requests
        PROVE  LET d == OwnerOf[e] IN
               /\ editor[e].entry = "kept" =>
                    /\ closing'[d] # "closed"
                    /\ closing'[d] \in Early => d \in stored'
                    /\ closing'[d] = "unlinked" => e \in dropping'[d]
               /\ editor[e].entry = "dropped" => e \in dropping'[d]
    <3>1. EditorOK(e) /\ OwnerOf[e] \in Clients
      BY ConnectionAssumption DEF ConnectionInv, EditorInv
    <3>2. CASE OwnerOf[e] = c
      BY <1>1, <1>2, <1>4, <3>1, <3>2 DEF EditorOK, Early
    <3>3. CASE OwnerOf[e] # c
      BY <1>1, <1>4, <3>1, <3>3 DEF EditorOK
    <3> QED
      BY <3>2, <3>3
  <2> QED
    BY <1>1, <2>1, EditorKept
<1>6. Closes(c, "detached", {})
  BY <1>1, <1>2, <1>3 DEF Closes, Early
<1> QED
  BY <1>5, <1>6, ClosedStep

\* Its link ends, and its editors are collected.
LEMMA DetachLinkStep ==
  ASSUME ConnectionInv, NEW c \in Clients, DetachLink(c)
  PROVE  ConnectionInv'
<1> USE DEF connectionVars, coreVars, syncVars, callVars, stopVars
<1>1. /\ closing[c] = "detached" /\ closing' = [closing EXCEPT ![c] = "unlinked"]
      /\ links' \subseteq links /\ dropping' = [dropping EXCEPT ![c] = Owned(c)]
      /\ UNCHANGED <<stored, subscribed, contexts, editor>>
      /\ UNCHANGED <<operation, stage, gaveUp, cancelled, up, inbox, down, seen, revision, events,
                     sync, forwarding, ask, screen, stopping, stopped>>
  BY DEF DetachLink
<1>2. c \notin up /\ dropping[c] = {}
  BY <1>1 DEF ConnectionInv, ClosingInv
<1>3. /\ closing'[c] = "unlinked" /\ \A d \in Clients \ {c} : closing'[d] = closing[d]
      /\ dropping'[c] = Owned(c) /\ \A d \in Clients \ {c} : dropping'[d] = dropping[d]
  BY <1>1 DEF ConnectionInv, ConnectionTypeOK
<1>4. EditorInv' /\ editor' \in [Requests -> EditorType]
  <2>1. ASSUME NEW e \in Requests
        PROVE  LET d == OwnerOf[e] IN
               /\ editor[e].entry = "kept" =>
                    /\ closing'[d] # "closed"
                    /\ closing'[d] \in Early => d \in stored'
                    /\ closing'[d] = "unlinked" => e \in dropping'[d]
               /\ editor[e].entry = "dropped" => e \in dropping'[d]
    <3>1. EditorOK(e) /\ OwnerOf[e] \in Clients
      BY ConnectionAssumption DEF ConnectionInv, EditorInv
    <3>2. CASE OwnerOf[e] = c
      BY <1>1, <1>2, <1>3, <3>1, <3>2 DEF EditorOK, Early, Owned
    <3>3. CASE OwnerOf[e] # c
      BY <1>1, <1>3, <3>1, <3>3 DEF EditorOK
    <3> QED
      BY <3>2, <3>3
  <2> QED
    BY <1>1, <2>1, EditorKept
<1>5. Closes(c, "unlinked", Owned(c))
  BY <1>1, <1>2 DEF Closes, Early, Owned
<1> QED
  BY <1>4, <1>5, ClosedStep

\* They are dropped one by one, but for one that a call has claimed.
LEMMA DropEditorStep ==
  ASSUME ConnectionInv, NEW c \in Clients, DropEditor(c)
  PROVE  ConnectionInv'
<1> USE DEF connectionVars, coreVars, syncVars, callVars, stopVars
<1>1. /\ closing[c] = "unlinked"
      /\ UNCHANGED <<stored, subscribed, contexts, links, closing>>
      /\ UNCHANGED <<operation, stage, gaveUp, cancelled, up, inbox, down, seen, revision, events,
                     sync, forwarding, ask, screen, stopping, stopped>>
  BY DEF DropEditor
<1>2. PICK e \in dropping[c] :
        \/ /\ editor[e].entry = "kept"
           /\ editor' = [editor EXCEPT ![e].entry = "dropped"] /\ dropping' = dropping
        \/ /\ editor[e].entry = "dropped"
           /\ editor' = [editor EXCEPT ![e] = [entry |-> "over", file |-> FALSE, pane |-> "gone"]]
           /\ dropping' = [dropping EXCEPT ![c] = dropping[c] \ {e}]
        \/ /\ editor[e].entry \in {"claimed", "over"}
           /\ dropping' = [dropping EXCEPT ![c] = dropping[c] \ {e}] /\ editor' = editor
  BY DEF DropEditor, CleanEditor
<1>3. /\ c \notin up /\ e \in Requests /\ OwnerOf[e] = c /\ EditorOK(e)
      /\ dropping[c] \subseteq Requests /\ dropping \in [Clients -> SUBSET Requests]
      /\ closing \in [Clients -> {"no", "cancelled", "taken", "detached", "unlinked", "closed"}]
      /\ \A d \in dropping[c] : OwnerOf[d] = c
      /\ editor \in [Requests -> EditorType]
  BY <1>1, <1>2 DEF ConnectionInv, ClosingInv, ConnectionTypeOK, EditorInv, EditorType
<1>4. \E D \in {dropping[c], dropping[c] \ {e}} :
        /\ dropping' = [dropping EXCEPT ![c] = D]
        /\ e \notin D => editor'[e].entry \in {"claimed", "over"}
  BY <1>2, <1>3
<1>5. PICK D \in {dropping[c], dropping[c] \ {e}} :
        /\ dropping' = [dropping EXCEPT ![c] = D]
        /\ e \notin D => editor'[e].entry \in {"claimed", "over"}
  BY <1>4
<1>6. dropping'[c] = D /\ \A d \in Clients \ {c} : dropping'[d] = dropping[d]
  BY <1>3, <1>5
<1>7. Closes(c, "unlinked", D)
  <2>1. closing' = [closing EXCEPT ![c] = "unlinked"]
    BY <1>1, <1>3
  <2> QED
    BY <1>1, <1>3, <1>5, <2>1 DEF Closes, Early
<1>8. /\ editor' \in [Requests -> EditorType]
      /\ \A d \in Requests \ {e} : editor'[d] = editor[d]
      /\ \/ editor'[e] = editor[e]
         \/ editor[e].entry = "kept" /\ editor'[e].entry = "dropped"
         \/ /\ editor[e].entry = "dropped"
            /\ editor'[e].entry = "over" /\ ~ editor'[e].file /\ editor'[e].pane = "gone"
  <2>1. CASE editor[e].entry = "kept" /\ editor' = [editor EXCEPT ![e].entry = "dropped"]
    <3>1. [editor[e] EXCEPT !.entry = "dropped"] \in EditorType
      BY <1>3 DEF EditorType
    <3>2. editor'[e] = [editor[e] EXCEPT !.entry = "dropped"]
      BY <1>3, <2>1
    <3> QED
      BY <1>3, <2>1, <3>1, <3>2 DEF EditorType
  <2>2. CASE /\ editor[e].entry = "dropped"
             /\ editor' = [editor EXCEPT ![e] = [entry |-> "over", file |-> FALSE, pane |-> "gone"]]
    BY <1>3, <2>2 DEF EditorType
  <2>3. CASE editor' = editor
    BY <1>3, <2>3
  <2> QED
    BY <1>2, <2>1, <2>2, <2>3
<1>9. EditorInv'
  <2>1. EditorOK(e)'
    <3>1. editor[e].entry # "none" => stage[e] = "over"
      BY <1>3 DEF EditorOK
    <3>2. e \in dropping'[c] \/ editor'[e].entry \in {"claimed", "over"}
      BY <1>5, <1>6
    <3>3. editor'[e].entry \in {"claimed", "over"} => editor[e].entry \in {"dropped", "claimed", "over"}
      BY <1>8
    <3> QED
      BY <1>1, <1>3, <1>8, <3>1, <3>2, <3>3 DEF EditorOK, Early
  <2>2. ASSUME NEW d \in Requests \ {e} PROVE EditorOK(d)'
    <3>1. EditorOK(d) /\ editor'[d] = editor[d]
      BY <1>8 DEF ConnectionInv, EditorInv
    <3>2. OwnerOf[d] \in Clients /\ (d \in dropping[OwnerOf[d]] => d \in dropping'[OwnerOf[d]])
      BY <1>5, <1>6, ConnectionAssumption
    <3> QED
      BY <1>1, <3>1, <3>2 DEF EditorOK
  <2>3. ASSUME NEW r \in Requests, stage'[r] = "claimed"
        PROVE  editor'[EditorOf[r]].entry \in {"claimed", "over"}
    <3>1. editor[EditorOf[r]].entry \in {"claimed", "over"} /\ EditorOf[r] \in Requests
      BY <1>1, <2>3, ConnectionAssumption DEF ConnectionInv, EditorInv
    <3> QED
      BY <1>8, <3>1
  <2> QED
    BY <2>1, <2>2, <2>3 DEF EditorInv
<1> QED
  BY <1>7, <1>8, <1>9, ClosedStep
-----------------------------------------------------------------------------
(* The questions of the plugins                                            *)

\* A question has a new state, and a frame about it may be sent to its address.
LEMMA AskedStep ==
  ASSUME ConnectionInv, NEW r \in Requests, ask[r].at # "none", NEW x \in {"sent", "replied", "done"},
         ask' = [ask EXCEPT ![r].at = x],
         NEW kind \in {"interact", "navigate", "withdraw"},
         \/ down' = down
         \/ ask[r].to \in up /\ down' = [down EXCEPT ![ask[r].to] = Append(down[ask[r].to], Frame(kind, r))],
         UNCHANGED <<operation, stage, gaveUp, cancelled, up, inbox, seen, coreVars, syncVars,
                     closeVars, editor, contexts, screen, stopVars>>
  PROVE  ConnectionInv'
<1> USE DEF closeVars, stopVars
<1> DEFINE c == ask[r].to
           f == Frame(kind, r)
<1>1. ConnectionTypeOK
  BY DEF ConnectionInv
<1>2. /\ ask' \in [Requests -> AskType]
      /\ ask'[r].at = x
      /\ \A s \in Requests : ask'[s].kind = ask[s].kind /\ ask'[s].to = ask[s].to
      /\ \A s \in Requests \ {r} : ask'[s].at = ask[s].at
  BY <1>1, AskMoves
<1>3. f \in Frames /\ f.kind = kind /\ f.request = r
  BY DEF Frame, Frames
<1>4. down' = down \/ (c \in up /\ down' = [down EXCEPT ![c] = Append(down[c], f)])
  OBVIOUS
<1>5. c = ask[r].to
  OBVIOUS
<1> HIDE DEF c, f
<1>6. down' = down \/ (c \in up /\ c \in Clients /\ SentTo(c, f))
  <2>1. ASSUME c \in up, down' = [down EXCEPT ![c] = Append(down[c], f)]
        PROVE  c \in Clients /\ SentTo(c, f)
    <3>1. c \in Clients
      BY <1>1, <2>1 DEF ConnectionTypeOK
    <3>2. f \in Frames
      BY <1>3
    <3> QED
      BY <1>1, <2>1, <3>1, <3>2, QueueSent
  <2> QED
    BY <1>4, <2>1
<1>7. down' \in [Clients -> Seq(Frames)] /\ \A d \in Clients : d \in up \/ down'[d] = down[d]
  BY <1>1, <1>6 DEF SentTo, ConnectionTypeOK
<1>8. ConnectionTypeOK'
  <2>1. UNCHANGED <<subscribed, revision, events, sync, stored, forwarding>>
    BY DEF coreVars, syncVars
  <2> QED
    BY <1>1, <1>2, <1>7, <2>1 DEF ConnectionTypeOK, AskType
<1>9. ClosingInv' /\ RequestInv'
  BY <1>7, ClosingFrame, RequestFrame DEF ConnectionInv
<1>10. CallInv' /\ EditorInv'
  BY CallFrame, EditorStages DEF ConnectionInv, CallInv, syncVars
<1>11. AskInv'
  <2>1. \A s \in Requests : ask[s].at # "none" <=> ask'[s].at # "none"
    BY <1>2
  <2>2. \A d \in Clients : \A i \in DOMAIN down'[d] :
          (i \in DOMAIN down[d] /\ down'[d][i] = down[d][i]) \/ (d = c /\ down'[d][i] = f)
    BY <1>6 DEF SentTo
  <2>3. ASSUME NEW d \in Clients, NEW i \in DOMAIN down'[d], down'[d][i].kind \in Runs
        PROVE  LET s == down'[d][i].request IN s \in Requests /\ ask'[s].at # "none" /\ ask'[s].to = d
    <3>1. CASE i \in DOMAIN down[d] /\ down'[d][i] = down[d][i]
      <4>1. LET s == down[d][i].request IN s \in Requests /\ ask[s].at # "none" /\ ask[s].to = d
        BY <2>3, <3>1 DEF ConnectionInv, AskInv
      <4> QED
        BY <1>2, <2>1, <3>1, <4>1
    <3>2. CASE d = c /\ down'[d][i] = f
      BY <1>2, <1>3, <1>5, <2>1, <3>2
    <3> QED
      BY <2>2, <3>1, <3>2
  <2>4. /\ \A s \in Requests : ask'[s].at # "none" => ask'[s].kind \in Runs
        /\ \A s \in Requests : screen'[s] \in Open => ask'[s].at # "none" /\ ask'[s].to \in up'
    BY <1>2, <2>1 DEF ConnectionInv, AskInv
  <2> QED
    BY <2>3, <2>4 DEF AskInv
<1>12. StreamInv'
  <2>1. \A d \in Clients :
          \/ down'[d] = down[d]
          \/ \E g \in Frames : g.kind \notin {"snapshot", "event"} /\ down'[d] = Append(down[d], g)
    BY <1>3, <1>6 DEF SentTo
  <2> QED
    BY <1>1, <2>1, StreamFrames DEF ConnectionInv
<1> QED
  BY <1>8, <1>9, <1>10, <1>11, <1>12 DEF ConnectionInv

\* A question is sent, withdrawn or completed.
LEMMA AskStepKeeps ==
  ASSUME ConnectionInv, NEW r \in Requests, AskStep(r)
  PROVE  ConnectionInv'
<1> DEFINE c == ask[r].to
<1>1. CASE SendAsk(r)
  <2>1. ask[r].kind \in Runs
    BY <1>1 DEF SendAsk, ConnectionInv, AskInv
  <2>2. CASE r \in contexts /\ c \in links \cap up
    <3>1. /\ ask' = [ask EXCEPT ![r].at = "sent"] /\ c \in up
          /\ down' = [down EXCEPT ![c] = Append(down[c], Frame(ask[r].kind, r))]
          /\ UNCHANGED <<operation, stage, gaveUp, cancelled, up, inbox, seen, coreVars, syncVars,
                         closeVars, editor, contexts, screen, stopVars>>
          /\ ask[r].at # "none"
      BY <1>1, <2>2 DEF SendAsk, ToClient
    <3> QED
      BY <2>1, <3>1, AskedStep DEF Runs
  <2>3. CASE ~ (r \in contexts /\ c \in links \cap up)
    <3>1. /\ ask' = [ask EXCEPT ![r].at = "done"] /\ down' = down
          /\ UNCHANGED <<operation, stage, gaveUp, cancelled, up, inbox, seen, coreVars, syncVars,
                         closeVars, editor, contexts, screen, stopVars>>
          /\ ask[r].at # "none"
      BY <1>1, <2>3 DEF SendAsk
    <3> QED
      BY <3>1, AskedStep
  <2> QED
    BY <2>2, <2>3
<1>2. CASE Withdraw(r)
  <2>1. /\ ask' = [ask EXCEPT ![r].at = "done"] /\ ask[r].at # "none"
        /\ \/ down' = down
           \/ c \in up /\ down' = [down EXCEPT ![c] = Append(down[c], Frame("withdraw", r))]
        /\ UNCHANGED <<operation, stage, gaveUp, cancelled, up, inbox, seen, coreVars, syncVars,
                       closeVars, editor, contexts, screen, stopVars>>
    BY <1>2 DEF Withdraw, ToClient
  <2> QED
    BY <2>1, AskedStep
<1>3. CASE CompleteAsk(r)
  <2>1. /\ ask' = [ask EXCEPT ![r].at = "done"] /\ ask[r].at # "none" /\ down' = down
        /\ UNCHANGED <<operation, stage, gaveUp, cancelled, up, inbox, seen, coreVars, syncVars,
                       closeVars, editor, contexts, screen, stopVars>>
    BY <1>3 DEF CompleteAsk, callRest, connectionVars
  <2> QED
    BY <2>1, AskedStep
<1> QED
  BY <1>1, <1>2, <1>3 DEF AskStep

\* It gets its address when nothing of it is on its way or shown.
LEMMA AskFrontendStep ==
  ASSUME ConnectionInv, NEW r \in Requests, AskFrontend(r)
  PROVE  ConnectionInv'
<1> USE DEF callRest, connectionVars, closeVars, stopVars
<1>1. PICK x \in [at : {"linked"}, kind : Runs, to : Clients, minimum : Nat] :
        ask' = [ask EXCEPT ![r] = x]
  <2>1. /\ revision \in Nat /\ links \subseteq Clients /\ OwnerOf[r] \in Clients
    BY ConnectionAssumption DEF ConnectionInv, ConnectionTypeOK
  <2> QED
    BY <2>1 DEF AskFrontend, Runs
<1>2. /\ ask[r] = NoAsk
      /\ UNCHANGED <<operation, stage, gaveUp, cancelled, up, inbox, down, seen, coreVars, syncVars,
                     closeVars, editor, contexts, screen, stopVars>>
  BY DEF AskFrontend
<1>3. /\ ask' \in [Requests -> AskType] /\ ask'[r] = x
      /\ \A s \in Requests \ {r} : ask'[s] = ask[s]
  BY <1>1 DEF ConnectionInv, ConnectionTypeOK, AskType, Runs
<1>4. ConnectionTypeOK'
  <2>1. UNCHANGED <<subscribed, revision, events, sync, stored, forwarding>>
    BY <1>2 DEF coreVars, syncVars
  <2> QED
    BY <1>2, <1>3, <2>1 DEF ConnectionInv, ConnectionTypeOK, AskType
<1>5. ask[r].at = "none"
  BY <1>2 DEF NoAsk
<1>6. AskInv'
  <2>1. ASSUME NEW s \in Requests PROVE ask'[s].at # "none" => ask'[s].kind \in Runs
    BY <1>1, <1>3 DEF ConnectionInv, AskInv
  <2>2. ASSUME NEW s \in Requests, screen'[s] \in Open
        PROVE  ask'[s].at # "none" /\ ask'[s].to \in up'
    <3>1. ask[s].at # "none" /\ ask[s].to \in up
      BY <1>2, <2>2 DEF ConnectionInv, AskInv
    <3> QED
      BY <1>2, <1>3, <1>5, <3>1
  <2>3. ASSUME NEW d \in Clients, NEW i \in DOMAIN down'[d], down'[d][i].kind \in Runs
        PROVE  LET s == down'[d][i].request IN s \in Requests /\ ask'[s].at # "none" /\ ask'[s].to = d
    <3>1. LET s == down[d][i].request IN s \in Requests /\ ask[s].at # "none" /\ ask[s].to = d
      BY <1>2, <2>3 DEF ConnectionInv, AskInv
    <3> QED
      BY <1>2, <1>3, <1>5, <3>1
  <2> QED
    BY <2>1, <2>2, <2>3 DEF AskInv
<1>7. ClosingInv' /\ RequestInv' /\ StreamInv'
  BY <1>2, ClosingFrame, RequestFrame, StreamFrame DEF ConnectionInv
<1>8. CallInv' /\ EditorInv'
  BY <1>2, CallFrame, EditorStages DEF ConnectionInv, CallInv, syncVars
<1> QED
  BY <1>4, <1>6, <1>7, <1>8 DEF ConnectionInv
-----------------------------------------------------------------------------
(* The calls and their editors                                             *)

\* A call goes on or ends: only its stage, an editor and its context change.
LEMMA LocalStep ==
  ASSUME ConnectionInv, NEW r \in Requests, OnlyRequest(r), stage[r] \in CallStages \cup {"flushing"},
         stage'[r] \in CallStages => stage[r] \in CallStages,
         editor' \in [Requests -> EditorType], EditorInv',
         contexts' \subseteq Requests, \A q \in contexts' : stage'[q] = "captured",
         stopped' \in BOOLEAN,
         UNCHANGED <<operation, gaveUp, cancelled, connectionVars, coreVars, syncVars, closeVars,
                     ask, screen, stopping>>
  PROVE  ConnectionInv'
<1> USE DEF connectionVars, coreVars, syncVars, closeVars
<1>1. ConnectionTypeOK'
  BY DEF ConnectionInv, ConnectionTypeOK, OnlyRequest, Stages, EditorType
<1>2. RequestInv'
  <2>1. stage[r] # "sent"
    BY DEF CallStages
  <2>2. \A s \in Requests : stage[s] = "sent" => stage'[s] = "sent"
    BY <2>1 DEF OnlyRequest
  <2> QED
    BY <2>2, RequestFrame DEF ConnectionInv
<1>3. ClosingInv' /\ AskInv' /\ StreamInv'
  BY ClosingFrame, AskFrame, StreamFrame DEF ConnectionInv
<1>4. CallInv'
  <2>1. \A s \in Requests : stage'[s] \in CallStages => stage[s] \in CallStages
    BY DEF OnlyRequest
  <2> QED
    BY <2>1, CallFrame DEF ConnectionInv
<1> QED
  BY <1>1, <1>2, <1>3, <1>4 DEF ConnectionInv

\* The contexts are those of calls that run, if r is not one of them.
LEMMA OtherContexts ==
  ASSUME ConnectionInv, NEW r \in Requests, OnlyRequest(r), stage[r] # "captured", UNCHANGED contexts
  PROVE  contexts' \subseteq Requests /\ \A q \in contexts' : stage'[q] = "captured"
<1>1. \A q \in contexts : q \in Requests /\ stage[q] = "captured"
  BY DEF ConnectionInv, ConnectionTypeOK, CallInv
<1> QED
  BY <1>1 DEF OnlyRequest

\* A call moves to another stage.
LEMMA ToMoves ==
  ASSUME ConnectionInv, NEW r \in Requests, NEW x \in Stages, To(r, x)
  PROVE  OnlyRequest(r) /\ stage'[r] = x
  BY DEF To, ConnectionInv, ConnectionTypeOK, OnlyRequest, Stages

\* The commands of plugins, and a stop, have no editor.
LEMMA RunStep ==
  ASSUME ConnectionInv, NEW r \in Requests,
         Flush(r) \/ CheckEditor(r) \/ AdmitRun(r) \/ CaptureRun(r) \/ ReturnRun(r)
  PROVE  ConnectionInv'
<1> USE DEF callRest, callVars, stopVars
<1>1. \E x \in Stages :
        /\ To(r, x)
        /\ stage[r] \in {"flushing", "called", "admitted", "captured"}
        /\ x \in {"checked", "admitted", "captured", "over"}
        /\ x # "over" => stage[r] \in {"called", "admitted"}
        /\ \/ contexts' = contexts /\ stage[r] # "captured"
           \/ contexts' = contexts \cup {r} /\ x = "captured"
           \/ contexts' = contexts \ {r}
  <2>1. CASE Flush(r)
    BY <2>1 DEF Flush, To, Stages
  <2>2. CASE CheckEditor(r)
    BY <2>2 DEF CheckEditor, Stages, CallStages
  <2>3. CASE AdmitRun(r)
    BY <2>3 DEF AdmitRun, Stages, CallStages
  <2>4. CASE CaptureRun(r)
    BY <2>4 DEF CaptureRun, Stages, CallStages
  <2>5. CASE ReturnRun(r)
    BY <2>5 DEF ReturnRun, Stages
  <2> QED
    BY <2>1, <2>2, <2>3, <2>4, <2>5
<1>2. /\ UNCHANGED <<operation, gaveUp, cancelled, connectionVars, coreVars, syncVars, closeVars,
                     editor, ask, screen, stopping>>
      /\ stopped' \in {stopped, TRUE}
  BY DEF Flush, CheckEditor, AdmitRun, CaptureRun, ReturnRun
<1>3. PICK x \in Stages :
        /\ To(r, x)
        /\ stage[r] \in {"flushing", "called", "admitted", "captured"}
        /\ x \in {"checked", "admitted", "captured", "over"}
        /\ x # "over" => stage[r] \in {"called", "admitted"}
        /\ \/ contexts' = contexts /\ stage[r] # "captured"
           \/ contexts' = contexts \cup {r} /\ x = "captured"
           \/ contexts' = contexts \ {r}
  BY <1>1
<1>4. OnlyRequest(r) /\ stage'[r] = x
  BY <1>3, ToMoves
<1>5. contexts' \subseteq Requests /\ \A q \in contexts' : stage'[q] = "captured"
  <2>1. \A q \in contexts : q \in Requests /\ stage[q] = "captured"
    BY DEF ConnectionInv, ConnectionTypeOK, CallInv
  <2> QED
    BY <1>3, <1>4, <2>1 DEF OnlyRequest
<1>6. editor' \in [Requests -> EditorType] /\ stopped' \in BOOLEAN
  BY <1>2 DEF ConnectionInv, ConnectionTypeOK, EditorType
<1>7. EditorInv'
  <2>1. \A s \in Requests :
          \/ stage'[s] = stage[s]
          \/ /\ stage[s] \notin {"filed", "started", "unwanted", "claimed", "over"}
             /\ stage'[s] \notin {"filed", "started", "unwanted", "claimed"}
    BY <1>3, <1>4 DEF OnlyRequest
  <2> QED
    BY <1>2, <2>1, EditorStages DEF ConnectionInv, closeVars, syncVars
<1>8. /\ stage[r] \in CallStages \cup {"flushing"}
      /\ stage'[r] \in CallStages => stage[r] \in CallStages
  BY <1>3, <1>4 DEF CallStages
<1> QED
  BY <1>2, <1>4, <1>5, <1>6, <1>7, <1>8, LocalStep

\* Who opens an editor files it, starts it, and keeps it or discards it.
LEMMA OpenStep ==
  ASSUME ConnectionInv, NEW r \in Requests,
         FileEditor(r) \/ StartEditor(r) \/ KeepEditor(r) \/ DiscardEditor(r)
  PROVE  ConnectionInv'
<1> USE DEF callRest, callVars, stopVars
<1> DEFINE c == OwnerOf[r]
<1>1. /\ UNCHANGED <<operation, gaveUp, cancelled, connectionVars, coreVars, syncVars, closeVars,
                     contexts, ask, screen, stopping, stopped>>
      /\ stage[r] \in {"called", "filed", "started", "unwanted"}
  BY DEF FileEditor, StartEditor, KeepEditor, DiscardEditor
<1>2. /\ editor[r].entry = "none" /\ EditorOK(r) /\ c \in Clients
      /\ closing[c] # "closed" /\ (closing[c] \in Early => c \in stored)
      /\ editor \in [Requests -> EditorType] /\ editor[r] \in EditorType
  BY <1>1, ConnectionAssumption
     DEF ConnectionInv, EditorInv, EditorOK, CallInv, CallStages, ConnectionTypeOK, EditorType
<1>3. \E x \in {"filed", "started", "unwanted", "over"}, y \in EditorType :
        /\ To(r, x) /\ editor' = [editor EXCEPT ![r] = y]
        /\ \/ x = "over" /\ y.entry = "none" /\ ~ y.file /\ y.pane = "none"
           \/ x = "filed" /\ y.entry = "none" /\ y.pane = "none"
           \/ x \in {"started", "unwanted"} /\ y.entry = "none"
           \/ x = "over" /\ y.entry = "kept" /\ closing[c] = "no"
           \/ x = "over" /\ y.entry = "over" /\ ~ y.file /\ y.pane = "gone"
  <2> HIDE DEF callRest, callVars, stopVars
  <2>1. CASE FileEditor(r)
    <3>1. stage[r] = "called" /\ ~ editor[r].file /\ editor[r].pane = "none"
      BY <1>2, <2>1 DEF FileEditor, EditorOK
    <3>2. CASE To(r, "over") /\ UNCHANGED editor
      <4>1. editor' = [editor EXCEPT ![r] = editor[r]]
        BY <1>2, <3>2
      <4> QED
        BY <1>2, <3>1, <3>2, <4>1
    <3>3. CASE To(r, "filed") /\ editor' = [editor EXCEPT ![r].file = TRUE]
      <4> DEFINE y == [editor[r] EXCEPT !.file = TRUE]
      <4>1. y \in EditorType /\ y.entry = "none" /\ y.pane = "none"
        BY <1>2, <3>1 DEF EditorType
      <4>2. editor' = [editor EXCEPT ![r] = y]
        BY <3>3
      <4> QED
        BY <3>3, <4>1, <4>2
    <3> QED
      BY <2>1, <3>2, <3>3 DEF FileEditor
  <2>2. CASE StartEditor(r)
    <3>1. CASE To(r, "started") /\ editor' = [editor EXCEPT ![r].pane = "running"]
      <4> DEFINE y == [editor[r] EXCEPT !.pane = "running"]
      <4>1. y \in EditorType /\ y.entry = "none"
        BY <1>2 DEF EditorType
      <4>2. editor' = [editor EXCEPT ![r] = y]
        BY <3>1
      <4> QED
        BY <3>1, <4>1, <4>2
    <3>2. CASE To(r, "over") /\ editor' = [editor EXCEPT ![r] = NoEditor]
      <4>1. NoEditor \in EditorType /\ NoEditor.entry = "none" /\ ~ NoEditor.file /\ NoEditor.pane = "none"
        BY DEF NoEditor, EditorType
      <4> QED
        BY <3>2, <4>1
    <3> QED
      BY <2>2, <3>1, <3>2 DEF StartEditor
  <2>3. CASE KeepEditor(r)
    <3>1. CASE To(r, "unwanted") /\ UNCHANGED editor
      <4>1. editor' = [editor EXCEPT ![r] = editor[r]]
        BY <1>2, <3>1
      <4> QED
        BY <1>2, <3>1, <4>1
    <3>2. CASE ~ Ended(r) /\ To(r, "over") /\ editor' = [editor EXCEPT ![r].entry = "kept"]
      <4> DEFINE y == [editor[r] EXCEPT !.entry = "kept"]
      <4>1. y \in EditorType /\ y.entry = "kept"
        BY <1>2 DEF EditorType
      <4>2. editor' = [editor EXCEPT ![r] = y] /\ closing[c] = "no"
        BY <3>2 DEF Ended
      <4> QED
        BY <3>2, <4>1, <4>2
    <3> QED
      BY <2>3, <3>1, <3>2 DEF KeepEditor
  <2>4. CASE DiscardEditor(r)
    <3> DEFINE y == [entry |-> "over", file |-> FALSE, pane |-> "gone"]
    <3>1. y \in EditorType /\ y.entry = "over" /\ ~ y.file /\ y.pane = "gone"
      BY DEF EditorType
    <3>2. To(r, "over") /\ editor' = [editor EXCEPT ![r] = y]
      BY <2>4 DEF DiscardEditor, CleanEditor
    <3> QED
      BY <3>1, <3>2
  <2> QED
    BY <2>1, <2>2, <2>3, <2>4
<1> HIDE DEF c
<1>4. PICK x \in {"filed", "started", "unwanted", "over"}, y \in EditorType :
        /\ To(r, x) /\ editor' = [editor EXCEPT ![r] = y]
        /\ \/ x = "over" /\ y.entry = "none" /\ ~ y.file /\ y.pane = "none"
           \/ x = "filed" /\ y.entry = "none" /\ y.pane = "none"
           \/ x \in {"started", "unwanted"} /\ y.entry = "none"
           \/ x = "over" /\ y.entry = "kept" /\ closing[c] = "no"
           \/ x = "over" /\ y.entry = "over" /\ ~ y.file /\ y.pane = "gone"
  BY <1>3
<1>5. OnlyRequest(r) /\ stage'[r] = x
  <2>1. x \in Stages
    BY DEF Stages, CallStages
  <2> QED
    BY <1>4, <2>1, ToMoves
<1>6. OnlyEditor(r) /\ editor'[r] = y
  BY <1>2, <1>4 DEF OnlyEditor
<1>7. EditorOK(r)'
  <2>1. UNCHANGED <<closing, stored, dropping>>
    BY <1>1 DEF closeVars, syncVars
  <2> QED
    BY <1>2, <1>4, <1>5, <1>6, <2>1 DEF EditorOK, c, Early
<1>8. EditorInv'
  <2>1. UNCHANGED <<closing, stored, dropping>> /\ stage[r] # "claimed" /\ stage'[r] # "claimed"
    BY <1>1, <1>4, <1>5 DEF closeVars, syncVars
  <2>2. EditorInv /\ editor[r].entry \notin {"claimed", "over"}
    BY <1>2 DEF ConnectionInv
  <2> QED
    BY <1>5, <1>6, <1>7, <2>1, <2>2, EditorFrame
<1>9. contexts' \subseteq Requests /\ \A q \in contexts' : stage'[q] = "captured"
  BY <1>1, <1>5, OtherContexts
<1>10. /\ stage[r] \in CallStages /\ stopped' \in BOOLEAN
       /\ editor' \in [Requests -> EditorType]
  BY <1>1, <1>6 DEF CallStages, ConnectionInv, ConnectionTypeOK, OnlyEditor
<1> QED
  BY <1>1, <1>5, <1>8, <1>9, <1>10, LocalStep

\* The process of an editor ends, and its pane is deleted.
LEMMA EditorEndsStep ==
  ASSUME ConnectionInv, NEW e \in Requests, EditorEnds(e)
  PROVE  ConnectionInv'
<1> USE DEF callRest, callVars, stopVars, connectionVars
<1>1. /\ UNCHANGED <<operation, stage, gaveUp, cancelled, up, inbox, down, seen, coreVars, syncVars,
                     closeVars, contexts, ask, screen, stopping, stopped>>
      /\ editor[e].pane \in {"running", "exited"}
  BY DEF EditorEnds
<1>2. PICK x \in {"exited", "gone"} : editor' = [editor EXCEPT ![e].pane = x]
  <2>1. editor' = [editor EXCEPT ![e].pane = IF editor[e].pane = "running" THEN "exited" ELSE "gone"]
    BY DEF EditorEnds
  <2> QED
    BY <2>1
<1>3. editor \in [Requests -> EditorType] /\ EditorOK(e)
  BY DEF ConnectionInv, ConnectionTypeOK, EditorInv, EditorType
<1>4. editor'[e] = [editor[e] EXCEPT !.pane = x] /\ \A d \in Requests \ {e} : editor'[d] = editor[d]
  BY <1>2, <1>3
<1>5. [editor[e] EXCEPT !.pane = x] \in EditorType
  BY <1>2, <1>3 DEF EditorType
<1>6. OnlyEditor(e) /\ editor'[e].entry = editor[e].entry /\ editor'[e].file = editor[e].file
  <2>1. editor' \in [Requests -> EditorType]
    BY <1>2, <1>3, <1>5
  <2> QED
    BY <1>3, <1>4, <2>1 DEF OnlyEditor, EditorType
<1>7. OnlyRequest(e)
  BY <1>1 DEF ConnectionInv, ConnectionTypeOK, OnlyRequest, Stages
<1>8. /\ stage[e] \in {"started", "unwanted", "over"}
      /\ editor[e].entry # "over" /\ (editor[e].entry # "none" => stage[e] = "over")
      /\ editor[e].entry = "none" => stage[e] \in {"started", "unwanted"}
  BY <1>1, <1>3 DEF EditorOK
<1>9. UNCHANGED <<closing, stored, dropping>>
  BY <1>1 DEF syncVars, closeVars
<1>10. EditorOK(e)'
  BY <1>1, <1>3, <1>6, <1>8, <1>9 DEF EditorOK
<1>11. EditorInv'
  <2>1. EditorInv /\ stage[e] # "claimed" /\ stage'[e] # "claimed"
    BY <1>1, <1>8 DEF ConnectionInv
  <2> QED
    BY <1>6, <1>7, <1>9, <1>10, <2>1, EditorFrame
<1>12. ConnectionTypeOK'
  BY <1>1, <1>6 DEF ConnectionInv, ConnectionTypeOK, OnlyEditor, EditorType, coreVars, syncVars, closeVars
<1>13. ClosingInv' /\ RequestInv' /\ AskInv' /\ StreamInv'
  BY <1>1, ClosingFrame, RequestFrame, AskFrame, StreamFrame DEF ConnectionInv, closeVars
<1>14. CallInv'
  BY <1>1, <1>9, CallFrame DEF ConnectionInv, CallInv
<1> QED
  BY <1>11, <1>12, <1>13, <1>14 DEF ConnectionInv

\* A call claims an editor of its frontend that is kept, or ends.
LEMMA ClaimEditorStep ==
  ASSUME ConnectionInv, NEW r \in Requests, ClaimEditor(r)
  PROVE  ConnectionInv'
<1> USE DEF callRest, callVars, stopVars
<1> DEFINE e == EditorOf[r]
<1>1. /\ UNCHANGED <<operation, gaveUp, cancelled, connectionVars, coreVars, syncVars, closeVars,
                     contexts, ask, screen, stopping, stopped>>
      /\ stage[r] \in {"checked", "called"}
  BY DEF ClaimEditor
<1>2. /\ e \in Requests /\ EditorOK(r) /\ EditorOK(e) /\ OwnerOf[r] \in Clients
      /\ editor \in [Requests -> EditorType]
  BY ConnectionAssumption DEF ConnectionInv, EditorInv, ConnectionTypeOK, EditorType
<1>3. UNCHANGED <<closing, stored, dropping>>
  BY <1>1 DEF syncVars, closeVars
<1>4. editor[r].entry = "none" /\ ~ editor[r].file /\ editor[r].pane = "none"
  BY <1>1, <1>2 DEF EditorOK
<1>5. CASE Mine(r)
  <2>1. /\ To(r, "claimed") /\ editor' = [editor EXCEPT ![e].entry = "claimed"]
        /\ editor[e].entry = "kept" /\ OwnerOf[e] = OwnerOf[r]
    BY <1>5 DEF ClaimEditor, Mine
  <2> HIDE DEF e
  <2>2. OnlyRequest(r) /\ stage'[r] = "claimed"
    <3>1. "claimed" \in Stages
      BY DEF Stages, CallStages
    <3> QED
      BY <2>1, <3>1, ToMoves
  <2>3. /\ editor' \in [Requests -> EditorType] /\ editor'[e].entry = "claimed"
        /\ \A d \in Requests \ {e} : editor'[d] = editor[d]
    <3>1. [editor[e] EXCEPT !.entry = "claimed"] \in EditorType
      BY <1>2 DEF EditorType
    <3>2. editor'[e] = [editor[e] EXCEPT !.entry = "claimed"]
      BY <1>2, <2>1
    <3> QED
      BY <1>2, <2>1, <3>1, <3>2 DEF EditorType
  <2>4. e # r /\ stage'[e] = "over"
    BY <1>2, <1>4, <2>1, <2>2 DEF EditorOK, OnlyRequest
  <2>5. EditorOf[r] = e
    BY DEF e
  <2>6. EditorOK(e)'
    BY <2>1, <2>2, <2>3, <2>4, <2>5 DEF EditorOK
  <2>7. EditorOK(r)'
    BY <1>4, <2>2, <2>3, <2>4 DEF EditorOK
  <2>8. ASSUME NEW d \in Requests \ {e, r} PROVE EditorOK(d)'
    <3>1. EditorOK(d) /\ editor'[d] = editor[d] /\ stage'[d] = stage[d]
      BY <2>2, <2>3 DEF ConnectionInv, EditorInv, OnlyRequest
    <3>2. editor[d].entry = "claimed" =>
            \E s \in Requests : stage'[s] = "claimed" /\ EditorOf[s] = d /\ OwnerOf[s] = OwnerOf[d]
      BY <1>1, <2>2, <3>1 DEF EditorOK, OnlyRequest
    <3> QED
      BY <1>3, <3>1, <3>2 DEF EditorOK
  <2>9. ASSUME NEW s \in Requests, stage'[s] = "claimed"
        PROVE  editor'[EditorOf[s]].entry \in {"claimed", "over"}
    <3>1. CASE s = r
      BY <2>3, <2>5, <3>1
    <3>2. CASE s # r
      <4>1. stage[s] = "claimed" /\ EditorOf[s] \in Requests
        BY <2>2, <2>9, <3>2, ConnectionAssumption DEF OnlyRequest
      <4>2. editor[EditorOf[s]].entry \in {"claimed", "over"}
        BY <4>1 DEF ConnectionInv, EditorInv
      <4> QED
        BY <2>1, <2>3, <4>1, <4>2
    <3> QED
      BY <3>1, <3>2
  <2>10. EditorInv'
    <3>1. \A d \in Requests : EditorOK(d)'
      BY <2>6, <2>7, <2>8
    <3> QED
      BY <2>9, <3>1 DEF EditorInv
  <2>11. contexts' \subseteq Requests /\ \A q \in contexts' : stage'[q] = "captured"
    BY <1>1, <2>2, OtherContexts
  <2>12. stage[r] \in CallStages /\ stopped' \in BOOLEAN
    BY <1>1 DEF CallStages, ConnectionInv, ConnectionTypeOK
  <2> QED
    BY <1>1, <2>2, <2>3, <2>10, <2>11, <2>12, LocalStep
<1>6. CASE ~ Mine(r)
  <2>1. To(r, "over") /\ UNCHANGED editor
    BY <1>6 DEF ClaimEditor
  <2> HIDE DEF e
  <2>2. OnlyRequest(r) /\ stage'[r] = "over"
    <3>1. "over" \in Stages
      BY DEF Stages, CallStages
    <3> QED
      BY <2>1, <3>1, ToMoves
  <2>3. EditorInv'
    <3>1. \A s \in Requests :
            \/ stage'[s] = stage[s]
            \/ /\ stage[s] \notin {"filed", "started", "unwanted", "claimed", "over"}
               /\ stage'[s] \notin {"filed", "started", "unwanted", "claimed"}
      BY <1>1, <2>2 DEF OnlyRequest
    <3> QED
      BY <1>3, <2>1, <3>1, EditorStages DEF ConnectionInv
  <2>4. contexts' \subseteq Requests /\ \A q \in contexts' : stage'[q] = "captured"
    BY <1>1, <2>2, OtherContexts
  <2>5. /\ stage[r] \in CallStages /\ stopped' \in BOOLEAN
        /\ editor' \in [Requests -> EditorType]
    BY <1>1, <1>2, <2>1 DEF CallStages, ConnectionInv, ConnectionTypeOK
  <2> QED
    BY <1>1, <2>2, <2>3, <2>4, <2>5, LocalStep
<1> QED
  BY <1>5, <1>6

\* A call that has claimed an editor cleans it up.
LEMMA FinishEditorStep ==
  ASSUME ConnectionInv, NEW r \in Requests, FinishEditor(r)
  PROVE  ConnectionInv'
<1> USE DEF callRest, callVars, stopVars
<1> DEFINE e == EditorOf[r]
<1>1. /\ UNCHANGED <<operation, gaveUp, cancelled, connectionVars, coreVars, syncVars, closeVars,
                     contexts, ask, screen, stopping, stopped>>
      /\ stage[r] = "claimed" /\ To(r, "over")
      /\ editor' = [editor EXCEPT ![e] = [entry |-> "over", file |-> FALSE, pane |-> "gone"]]
  BY DEF FinishEditor, CleanEditor
<1>2. /\ e \in Requests /\ EditorOK(r) /\ EditorOK(e)
      /\ editor \in [Requests -> EditorType] /\ editor[e].entry \in {"claimed", "over"}
  BY <1>1, ConnectionAssumption DEF ConnectionInv, EditorInv, ConnectionTypeOK, EditorType
<1>3. UNCHANGED <<closing, stored, dropping>>
  BY <1>1 DEF syncVars, closeVars
<1>4. EditorOf[r] = e
  OBVIOUS
<1> HIDE DEF e
<1>5. OnlyRequest(r) /\ stage'[r] = "over"
  <2>1. "over" \in Stages
    BY DEF Stages, CallStages
  <2> QED
    BY <1>1, <2>1, ToMoves
<1>6. /\ editor' \in [Requests -> EditorType]
      /\ editor'[e] = [entry |-> "over", file |-> FALSE, pane |-> "gone"]
      /\ \A d \in Requests \ {e} : editor'[d] = editor[d]
  <2>1. [entry |-> "over", file |-> FALSE, pane |-> "gone"] \in EditorType
    BY DEF EditorType
  <2> QED
    BY <1>1, <1>2, <2>1
<1>7. e # r /\ stage'[e] = "over"
  BY <1>1, <1>2, <1>5 DEF EditorOK, OnlyRequest
<1>8. EditorOK(e)'
  BY <1>6, <1>7 DEF EditorOK
<1>9. EditorOK(r)'
  <2>1. editor[r].entry = "none" /\ ~ editor[r].file /\ editor[r].pane = "none"
    BY <1>1, <1>2 DEF EditorOK
  <2> QED
    BY <1>5, <1>6, <1>7, <2>1 DEF EditorOK
<1>10. ASSUME NEW d \in Requests \ {e, r} PROVE EditorOK(d)'
  <2>1. EditorOK(d) /\ editor'[d] = editor[d] /\ stage'[d] = stage[d]
    BY <1>5, <1>6 DEF ConnectionInv, EditorInv, OnlyRequest
  <2>2. editor[d].entry = "claimed" =>
          \E s \in Requests : stage'[s] = "claimed" /\ EditorOf[s] = d /\ OwnerOf[s] = OwnerOf[d]
    BY <1>4, <1>5, <2>1 DEF EditorOK, OnlyRequest
  <2> QED
    BY <1>3, <2>1, <2>2 DEF EditorOK
<1>11. ASSUME NEW s \in Requests, stage'[s] = "claimed"
       PROVE  editor'[EditorOf[s]].entry \in {"claimed", "over"}
  <2>1. stage[s] = "claimed" /\ EditorOf[s] \in Requests
    BY <1>5, <1>11, ConnectionAssumption DEF OnlyRequest
  <2>2. editor[EditorOf[s]].entry \in {"claimed", "over"}
    BY <2>1 DEF ConnectionInv, EditorInv
  <2> QED
    BY <1>6, <2>1, <2>2
<1>12. EditorInv'
  <2>1. \A d \in Requests : EditorOK(d)'
    BY <1>8, <1>9, <1>10
  <2> QED
    BY <1>11, <2>1 DEF EditorInv
<1>13. contexts' \subseteq Requests /\ \A q \in contexts' : stage'[q] = "captured"
  <2>1. stage[r] # "captured"
    BY <1>1
  <2> QED
    BY <1>1, <1>5, <2>1, OtherContexts
<1>14. stage[r] \in CallStages /\ stopped' \in BOOLEAN
  BY <1>1 DEF CallStages, ConnectionInv, ConnectionTypeOK
<1> QED
  BY <1>1, <1>5, <1>6, <1>12, <1>13, <1>14, LocalStep
-----------------------------------------------------------------------------
(* Every behaviour                                                         *)

\* Some clients are synchronized at revision 1, and nothing is on its way.
LEMMA InitialConnection ==
  ASSUME ConnectionInit
  PROVE  ConnectionInv
<1> USE DEF ConnectionInit
<1>1. ConnectionTypeOK
  <2>1. <<>> \in Seq(Frames) /\ <<>> \in Seq(Nat)
    OBVIOUS
  <2>2. NoAsk \in AskType /\ NoEditor \in EditorType /\ NoSync \in SyncType
    BY DEF NoAsk, NoEditor, NoSync, AskType, EditorType, SyncType
  <2>3. operation \in [Requests -> OperationKinds]
    BY ConnectionAssumption
  <2>4. up \subseteq Clients /\ stored \subseteq Clients
    OBVIOUS
  <2>5. /\ ask \in [Requests -> AskType] /\ editor \in [Requests -> EditorType]
        /\ sync \in [Clients -> SyncType]
    BY <2>2
  <2>6. /\ inbox \in [Clients -> Seq(Frames)] /\ down \in [Clients -> Seq(Frames)]
        /\ events \in [Clients -> Seq(Nat)] /\ seen \in [Clients -> Nat]
    BY <2>1
  <2>7. /\ stage \in [Requests -> Stages] /\ screen \in [Requests -> ScreenType]
        /\ dropping \in [Clients -> SUBSET Requests]
        /\ closing \in [Clients -> {"no", "cancelled", "taken", "detached", "unlinked", "closed"}]
    BY DEF Stages, ScreenType
  <2>8. /\ gaveUp = {} /\ cancelled = {} /\ contexts = {} /\ revision = 1
        /\ subscribed = stored /\ forwarding = stored /\ links = stored
        /\ stopping = FALSE /\ stopped = FALSE
    OBVIOUS
  <2> HIDE DEF ConnectionInit
  <2> QED
    BY <2>3, <2>4, <2>5, <2>6, <2>7, <2>8
       DEF ConnectionTypeOK, AskType, EditorType, SyncType, Stages, ScreenType
<1>2. ClosingInv
  BY DEF ClosingInv
<1>3. RequestInv
  BY DEF RequestInv
<1>4. AskInv
  BY DEF AskInv, NoAsk, Open, ScreenType
<1>5. CallInv
  BY DEF CallInv, CallStages
<1>6. EditorInv
  BY DEF EditorInv, EditorOK, NoEditor
<1>7. StreamInv
  <2>1. Projecting(<<>>) = {}
    BY DEF Projecting
  <2>2. Reaches(<<>>, 1, 1) /\ Follows(<<>>, 1, 1) /\ \A n : StepByStep(<<>>, n)
    BY <2>1 DEF Reaches, Follows, StepByStep
  <2>3. ASSUME NEW c \in up PROVE StreamOK(c)
    <3>1. /\ c \in Clients /\ down[c] = <<>> /\ events[c] = <<>> /\ sync[c] = NoSync
          /\ c \in stored => seen[c] = 1
          /\ c \notin stored => seen[c] = 0
      BY <2>3
    <3>2. ~ Joining(c) /\ sync[c].at = "idle"
      BY <3>1 DEF Joining, NoSync
    <3> QED
      BY <2>1, <2>2, <3>1, <3>2 DEF StreamOK
  <2> QED
    BY <2>2, <2>3 DEF StreamInv
<1> QED
  BY <1>1, <1>2, <1>3, <1>4, <1>5, <1>6, <1>7 DEF ConnectionInv

\* What the daemon does for the requests
LEMMA RequestSteps ==
  ASSUME ConnectionInv, NEW r \in Requests,
         CallStep(r) \/ AskStep(r) \/ HandleNested(r) \/ NavigateStep(r)
  PROVE  ConnectionInv'
<1>1. CASE CallStep(r)
  BY <1>1, HandleCommandStep, HandleCallStep, OpenStep, RunStep, ClaimEditorStep, FinishEditorStep
     DEF CallStep, ExpireRun
<1>2. CASE AskStep(r) \/ HandleNested(r)
  BY <1>2, AskStepKeeps, HandleNestedStep
<1>3. CASE NavigateStep(r)
  BY <1>3, ClientSends, RespondStep DEF NavigateStep
<1> QED
  BY <1>1, <1>2, <1>3

\* What it does for the connections, and what the clients do
LEMMA ConnectionSteps ==
  ASSUME ConnectionInv, NEW c \in Clients, SyncStep(c) \/ CloseStep(c) \/ ClientStep(c)
  PROVE  ConnectionInv'
<1>1. CASE SyncStep(c)
  BY <1>1, SubscribeStep, StoreStep, AnswerSyncStep DEF SyncStep
<1>2. CASE CloseStep(c)
  BY <1>2, CancelStep, TakeSubscriptionStep, DetachInvocationsStep, DetachLinkStep, DropEditorStep
     DEF CloseStep
<1>3. CASE ClientStep(c)
  BY <1>3, ReceiveProjectionStep, ReceiveOtherStep, ForwardStep DEF ClientStep
<1> QED
  BY <1>1, <1>2, <1>3

\* What comes from outside
LEMMA OutsideSteps ==
  ASSUME ConnectionInv, OutsideStep
  PROVE  ConnectionInv'
<1>1. ASSUME NEW r \in Requests,
             \/ Send(r) \/ GiveUp(r) \/ Respond(r) \/ EditorEnds(r) \/ AskFrontend(r) \/ ReturnRun(r)
      PROVE  ConnectionInv'
  BY <1>1, SendStep, ClientSends, RespondStep, EditorEndsStep, AskFrontendStep, RunStep
<1>2. ASSUME NEW c \in Clients, SendSync(c) \/ Disconnect(c) PROVE ConnectionInv'
  BY <1>2, ClientSends, DisconnectStep
<1> QED
  BY <1>1, <1>2 DEF OutsideStep

\* A step that changes nothing keeps everything.
LEMMA ConnectionStutters ==
  ASSUME ConnectionInv, UNCHANGED clientVars
  PROVE  ConnectionInv'
<1> USE DEF clientVars, connectionVars, coreVars, syncVars, closeVars, callVars, stopVars
<1>1. ConnectionTypeOK'
  BY DEF ConnectionInv, ConnectionTypeOK
<1>2. ClosingInv' /\ RequestInv' /\ AskInv' /\ StreamInv'
  BY ClosingFrame, RequestFrame, AskFrame, StreamFrame DEF ConnectionInv
<1>3. CallInv' /\ EditorInv'
  BY CallFrame, EditorStages DEF ConnectionInv, CallInv
<1> QED
  BY <1>1, <1>2, <1>3 DEF ConnectionInv

(* The invariant holds in every state that the connections can get to.     *)
THEOREM ConnectionInvariantHolds == ConnectionSpec => []ConnectionInv
<1>1. ConnectionInit => ConnectionInv
  BY InitialConnection
<1>2. ConnectionInv /\ [ConnectionNext]_clientVars => ConnectionInv'
  BY RequestSteps, ConnectionSteps, OutsideSteps, ConnectionStutters
     DEF ConnectionNext, InternalStep
<1> QED
  BY <1>1, <1>2, PTL DEF ConnectionSpec

(* The variables of the connections keep their types.                      *)
THEOREM ConnectionTypeCorrect == ConnectionSpec => []ConnectionTypeOK
<1>1. ConnectionInv => ConnectionTypeOK
  BY DEF ConnectionInv
<1> QED
  BY <1>1, ConnectionInvariantHolds, PTL

(* The frames of every connection let its client take one step after       *)
(* another from its snapshot on, and a client that has read them all has   *)
(* Core's state (forwardEvents and the answer of "sync").                  *)
THEOREM ProjectionsStayInStep == ConnectionSpec => []ProjectionInStep
<1>1. ConnectionInv => ProjectionInStep
  <2> SUFFICES ASSUME ConnectionInv, NEW c \in Clients
               PROVE  /\ StepByStep(down[c], seen[c])
                      /\ c \in up \cap forwarding /\ Projecting(down[c]) = {} /\ events[c] = <<>> =>
                           seen[c] = revision
    BY DEF ProjectionInStep
  <2>1. StepByStep(down[c], seen[c])
    BY DEF ConnectionInv, StreamInv
  <2>2. ASSUME c \in up, c \in forwarding, Projecting(down[c]) = {}, events[c] = <<>>
        PROVE  seen[c] = revision
    <3>1. PICK n \in Nat : Reaches(down[c], seen[c], n) /\ Follows(events[c], n, revision)
      BY <2>2 DEF ConnectionInv, StreamInv, StreamOK
    <3>2. seen[c] = n
      BY <2>2, <3>1 DEF Reaches
    <3>3. revision = n + 0
      BY <2>2, <3>1 DEF Follows
    <3> QED
      BY <3>2, <3>3
  <2> QED
    BY <2>1, <2>2
<1> QED
  BY <1>1, ConnectionInvariantHolds, PTL

(* A connection that is closed, and whose calls have returned, has left no *)
(* editor and no invocation behind (Detach and managePluginEditor).        *)
THEOREM NothingIsLeftBehind == ConnectionSpec => []NothingLeftBehind
<1>1. ConnectionInv => NothingLeftBehind
  <2> SUFFICES ASSUME ConnectionInv, NEW c \in Clients, Closed(c),
                      \A r \in Requests : OwnerOf[r] = c => stage[r] = "over"
               PROVE  /\ \A r \in Requests : OwnerOf[r] = c => editor[r].entry \notin {"kept", "dropped"}
                      /\ \A r \in Requests : OwnerOf[r] = c =>
                           ~ editor[r].file /\ editor[r].pane \in {"none", "gone"}
                      /\ \A r \in contexts : OwnerOf[r] # c
    BY DEF NothingLeftBehind
  <2>1. dropping[c] = {}
    BY DEF Closed, ConnectionInv, ClosingInv
  <2>2. ASSUME NEW e \in Requests, OwnerOf[e] = c
        PROVE  /\ editor[e].entry \notin {"kept", "dropped"}
               /\ ~ editor[e].file /\ editor[e].pane \in {"none", "gone"}
    <3>1. EditorOK(e) /\ stage[e] = "over" /\ editor[e] \in EditorType
      BY <2>2 DEF ConnectionInv, EditorInv, ConnectionTypeOK, EditorType
    <3>2. editor[e].entry \notin {"kept", "dropped"}
      BY <2>1, <2>2, <3>1 DEF EditorOK, Closed
    <3>3. editor[e].entry # "claimed"
      BY <2>2, <3>1 DEF EditorOK
    <3>4. editor[e].entry \in {"none", "over"}
      BY <3>1, <3>2, <3>3 DEF EditorType
    <3> QED
      BY <3>1, <3>2, <3>4 DEF EditorOK
  <2>3. \A r \in contexts : OwnerOf[r] # c
    BY DEF ConnectionInv, CallInv, ConnectionTypeOK
  <2> QED
    BY <2>2, <2>3
<1> QED
  BY <1>1, ConnectionInvariantHolds, PTL
=============================================================================
