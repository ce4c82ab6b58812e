----------------------------- MODULE TerminalProofs -----------------------------
(***************************************************************************)
(* That processes and panes belong together and that panes tell the truth  *)
(* about their processes, for any number of panes, sessions, clients and   *)
(* plugins, whatever faults happen.                                        *)
(***************************************************************************)
EXTENDS TerminalLifecycle, SequenceTheorems, TLAPS

(* The type invariant, one part for each component                         *)
States == {"absent", "closed", "empty", "placeholder", "starting", "running",
           "stopping", "exited", "failed"}
Terminals == [state : States, id : Sessions \cup {None}, exit : Statuses \cup {None},
              hist : BOOLEAN]
SessionStates == {"unused", "running", "dying", "exited", "retained", "gone"}
SessionRecords == [state : SessionStates, status : Statuses \cup {None}]
Kinds == {"exited", "retained", "removed"}
Events == [kind : Kinds, id : Sessions]
Steps == {"prepare", "open", "activate", "kill", "close", "record", "drop"}
ClientRecords ==
  [op : Operations \cup {None}, pc : {"idle", "lock", "respond"} \cup Steps,
   pane : Panes \cup {None}, id : Sessions \cup {None}, live : BOOLEAN]

CoreType == term \in [Panes -> Terminals] /\ label \in [Panes -> Statuses \cup {None}]
SessionType == session \in [Sessions -> SessionRecords]
EventType == events \in Seq(Events)
LoopType == owner \in [Sessions -> Panes \cup {None}] /\ removing \subseteq Sessions
ClientType == lock \in Clients \cup {None} /\ client \in [Clients -> ClientRecords]
\* No event takes the daemon down.
FlagType == /\ stopping \in BOOLEAN /\ faults \subseteq FaultKinds
            /\ down \in {"no", "stop", "force", "refused"}
-----------------------------------------------------------------------------
Active == {"running", "stopping"}
Over == {"exited", "failed"}
Ended == {"exited", "retained", "gone"}

Has(queue, kind, s) == \E i \in DOMAIN queue : queue[i].kind = kind /\ queue[i].id = s

\* How many of its three events a session has published
Rank(kind) == IF kind = "exited" THEN 1 ELSE IF kind = "retained" THEN 2 ELSE 3
Published(state) ==
  IF state = "exited" THEN 1 ELSE IF state = "retained" THEN 2
  ELSE IF state = "gone" THEN 3 ELSE 0

\* What panes say of themselves
TermInv ==
  /\ \A p \in Panes :
       /\ term[p].hist => term[p].id # None
       /\ term[p].state \in Active => term[p].id # None
       /\ term[p].id # None => term[p].state \in Active \cup Over
       /\ term[p].exit # None <=> term[p].state \in Over
       /\ term[p].exit = "ptyError" <=> term[p].state = "failed"
  /\ \A p, q \in Panes : term[p].id # None /\ term[p].id = term[q].id => p = q

\* The events of a session come in their order, each once, and a session that is
\* gone whose exit is pending has its removal pending too.
Orderly(queue, sessions) ==
  /\ \A i \in DOMAIN queue : Rank(queue[i].kind) <= Published(sessions[queue[i].id].state)
  /\ \A i, j \in DOMAIN queue : i < j /\ queue[i].id = queue[j].id
       => Rank(queue[i].kind) < Rank(queue[j].kind)
  /\ \A s \in Sessions : sessions[s].state = "gone" /\ Has(queue, "exited", s)
       => Has(queue, "removed", s)

QueueInv == Orderly(events, session)

SessionInv ==
  \A s \in Sessions :
    /\ session[s].state \in Ended => session[s].status # None
    /\ session[s].state = "unused" => \A p \in Panes : term[p].id # s

\* An active pane has a live process, or its exit is still to be handled.
GhostInv ==
  down = "no" => \A p \in Panes : term[p].state \in Active =>
    Alive(term[p].id) \/ Has(events, "exited", term[p].id)

\* The exit of a pane is the one of its session, which it names until its
\* removal is handled.
ExitInv ==
  \A p \in Panes : term[p].id # None /\ term[p].exit # None =>
    /\ session[term[p].id].state \in Ended
    /\ term[p].exit = session[term[p].id].status
    /\ session[term[p].id].state = "gone" => Has(events, "removed", term[p].id)

LabelInv ==
  \A p \in Panes :
    /\ label[p] # None => label[p] = term[p].exit /\ NeedsErrorLabel(label[p])
    /\ /\ faults \cap {"cancel", "refuse"} = {}
       /\ NeedsErrorLabel(term[p].exit)
       /\ term[p].id # None => ~ Has(events, "exited", term[p].id)
       => label[p] # None

\* A live process has its pane, or is about to get it.
OwnerInv ==
  "kill" \notin faults =>
    \A s \in Sessions : Alive(s) =>
      \/ \E p \in Panes : term[p].id = s /\ term[p].state \in Active /\ owner[s] = p
      \/ \E c \in Clients : client[c].pc = "activate" /\ client[c].id = s

\* Who reserves a pane sees to it.
StartInv ==
  "refuse" \notin faults =>
    \A p \in Panes : term[p].state = "starting" =>
      \E c \in Clients : client[c].pc \in {"open", "activate"} /\ client[c].pane = p

\* What the holder of terminalMu knows of its pane and session
StepInv(c) ==
  /\ Pane(c) \in Panes
  /\ client[c].pc \in {"prepare", "drop"} =>
       Dismissible(Pane(c)) \/ term[Pane(c)].state = "empty"
  /\ client[c].pc \in {"open", "activate"} => term[Pane(c)].state = "starting"
  /\ client[c].pc = "activate" =>
       /\ client[c].id \in Sessions /\ session[client[c].id].state # "unused"
       /\ \A p \in Panes : term[p].id # client[c].id
       /\ Alive(client[c].id) \/ Has(events, "exited", client[c].id)
  /\ client[c].pc \in {"kill", "close", "record"} =>
       /\ term[Pane(c)].state = "stopping"
       /\ client[c].id \in Sessions /\ client[c].id = term[Pane(c)].id
  /\ client[c].pc \in {"close", "record"} => session[client[c].id].state \in {"retained", "gone"}

ClientInv ==
  \A c \in Clients :
    /\ client[c].pc \in Steps <=> lock = c
    /\ ~ client[c].live => "cancel" \in faults
    /\ lock = c => StepInv(c)

LifecycleInv ==
  /\ CoreType /\ SessionType /\ EventType /\ LoopType /\ ClientType /\ FlagType
  /\ TermInv /\ QueueInv /\ SessionInv /\ GhostInv /\ ExitInv /\ LabelInv
  /\ OwnerInv /\ StartInv /\ ClientInv
-----------------------------------------------------------------------------
(* The events of the manager                                                 *)

(* A kind of event is known by its rank.                                   *)
LEMMA Ranks ==
  /\ \A k \in Kinds : Rank(k) \in 1 .. 3
  /\ \A k, l \in Kinds : Rank(k) = Rank(l) => k = l
  /\ \A k \in Kinds : Rank(k) = 3 => k = "removed"
  /\ \A state \in SessionStates : /\ Published(state) \in 0 .. 3
                                  /\ Published(state) = 3 <=> state = "gone"
  BY DEF Kinds, Rank, SessionStates, Published

(* What is appended comes after what is there.                             *)
Appended(queue, kinds, s) ==
  /\ EventType'
  /\ Len(events') = Len(queue) + Len(kinds)
  /\ \A i \in 1 .. Len(queue) : events'[i] = queue[i]
  /\ \A i \in 1 .. Len(kinds) :
       events'[Len(queue) + i].kind = kinds[i] /\ events'[Len(queue) + i].id = s
  /\ \A k \in Kinds, t \in Sessions :
       Has(events', k, t) <=> \/ Has(queue, k, t)
                              \/ t = s /\ \E i \in 1 .. Len(kinds) : kinds[i] = k

(* So it is with what Publish appends.                                     *)
LEMMA PublishMeans ==
  ASSUME NEW queue \in Seq(Events), NEW kinds \in Seq(Kinds), NEW s \in Sessions,
         Publish(queue, kinds, s)
  PROVE  Appended(queue, kinds, s)
<1> DEFINE new == [i \in 1 .. Len(kinds) |-> [kind |-> kinds[i], id |-> s]]
<1>0. Len(kinds) \in Nat /\ Len(queue) \in Nat /\ DOMAIN kinds = 1 .. Len(kinds)
  BY LenProperties
<1>1. events' = queue \o new
  BY <1>0, Zenon DEF Publish
<1>2. \A i \in 1 .. Len(kinds) : /\ kinds[i] \in Kinds
                                 /\ [kind |-> kinds[i], id |-> s] \in Events
  BY <1>0, ElementOfSeq DEF Events
<1>3. new \in Seq(Events)
  <2>1. new \in [1 .. Len(kinds) -> Events]
    BY <1>2
  <2> QED
    BY <1>0, <2>1, SeqDef
<1>4. Len(new) = Len(kinds)
  BY <1>0, <1>3, LenProperties
<1>5. \A i \in 1 .. Len(kinds) : new[i].kind = kinds[i] /\ new[i].id = s
  OBVIOUS
<1> HIDE DEF new
<1>6. /\ events' \in Seq(Events) /\ Len(events') = Len(queue) + Len(kinds)
      /\ \A i \in 1 .. Len(queue) : events'[i] = queue[i]
      /\ \A i \in 1 .. Len(kinds) : events'[Len(queue) + i] = new[i]
  <2>1. /\ queue \o new \in Seq(Events) /\ Len(queue \o new) = Len(queue) + Len(new)
        /\ \A i \in 1 .. Len(queue) + Len(new) :
             (queue \o new)[i] = IF i <= Len(queue) THEN queue[i] ELSE new[i - Len(queue)]
    BY <1>3, ConcatProperties
  <2> QED
    BY <1>0, <1>1, <1>4, <2>1
<1>7. DOMAIN events' = 1 .. Len(events') /\ DOMAIN queue = 1 .. Len(queue)
  BY <1>6, LenProperties
<1>8. ASSUME NEW k \in Kinds, NEW t \in Sessions
      PROVE  Has(events', k, t) <=> \/ Has(queue, k, t)
                                    \/ t = s /\ \E i \in 1 .. Len(kinds) : kinds[i] = k
  <2>1. ASSUME Has(events', k, t)
        PROVE  \/ Has(queue, k, t)
               \/ t = s /\ \E i \in 1 .. Len(kinds) : kinds[i] = k
    <3>1. PICK i \in 1 .. Len(events') : events'[i].kind = k /\ events'[i].id = t
      BY <1>7, <2>1 DEF Has
    <3>2. CASE i <= Len(queue)
      <4>1. i \in DOMAIN queue /\ queue[i] = events'[i]
        BY <1>0, <1>6, <1>7, <3>1, <3>2
      <4> QED
        BY <3>1, <4>1 DEF Has
    <3>3. CASE ~ (i <= Len(queue))
      <4>1. i - Len(queue) \in 1 .. Len(kinds) /\ i = Len(queue) + (i - Len(queue))
        BY <1>0, <1>6, <3>3
      <4>2. events'[i] = new[i - Len(queue)]
        BY <1>6, <4>1
      <4> QED
        BY <1>5, <3>1, <4>1, <4>2
    <3> QED
      BY <3>2, <3>3
  <2>2. ASSUME Has(queue, k, t) PROVE Has(events', k, t)
    <3>1. PICK i \in 1 .. Len(queue) : queue[i].kind = k /\ queue[i].id = t
      BY <1>7, <2>2 DEF Has
    <3>2. i \in DOMAIN events' /\ events'[i] = queue[i]
      BY <1>0, <1>6, <1>7
    <3> QED
      BY <3>1, <3>2 DEF Has
  <2>3. ASSUME t = s, NEW i \in 1 .. Len(kinds), kinds[i] = k PROVE Has(events', k, t)
    <3>1. Len(queue) + i \in DOMAIN events' /\ events'[Len(queue) + i] = new[i]
      BY <1>0, <1>6, <1>7
    <3> QED
      BY <1>5, <2>3, <3>1 DEF Has
  <2> QED
    BY <2>1, <2>2, <2>3
<1> QED
  BY <1>5, <1>6, <1>8 DEF Appended, EventType

\* What a session publishes that goes from one state to another, in the order of
\* the kinds.  A session may be removed before it is retained.
Owed(kinds, before, after) ==
  /\ Published(before) <= Published(after)
  /\ \A i \in 1 .. Len(kinds) :
       Published(before) < Rank(kinds[i]) /\ Rank(kinds[i]) <= Published(after)
  /\ \A i, j \in 1 .. Len(kinds) : i < j => Rank(kinds[i]) < Rank(kinds[j])
  /\ before \notin Ended /\ after \in Ended => \E i \in 1 .. Len(kinds) : kinds[i] = "exited"
  /\ before # "gone" /\ after = "gone" => \E i \in 1 .. Len(kinds) : kinds[i] = "removed"

(* What a session owes keeps the order of the queue.                       *)
LEMMA PublishOrderly ==
  ASSUME SessionType, NEW queue \in Seq(Events), Orderly(queue, session),
         NEW s \in Sessions, NEW r \in SessionRecords,
         session' = [session EXCEPT ![s] = r],
         NEW kinds \in Seq(Kinds), Publish(queue, kinds, s),
         Owed(kinds, session[s].state, r.state)
  PROVE  SessionType' /\ QueueInv'
<1>1. /\ EventType'
      /\ Len(events') = Len(queue) + Len(kinds)
      /\ \A i \in 1 .. Len(queue) : events'[i] = queue[i]
      /\ \A i \in 1 .. Len(kinds) :
           /\ events'[Len(queue) + i].kind = kinds[i]
           /\ events'[Len(queue) + i].id = s
      /\ \A k \in Kinds, t \in Sessions :
           Has(events', k, t) <=> \/ Has(queue, k, t)
                                  \/ t = s /\ \E i \in 1 .. Len(kinds) : kinds[i] = k
  <2>1. Appended(queue, kinds, s)
    BY PublishMeans, Zenon
  <2> QED
    BY <2>1 DEF Appended
<1>2. /\ Len(queue) \in Nat /\ Len(kinds) \in Nat /\ DOMAIN queue = 1 .. Len(queue)
      /\ DOMAIN events' = 1 .. (Len(queue) + Len(kinds))
  BY <1>1, LenProperties DEF EventType
<1>3. /\ SessionType' /\ session'[s] = r /\ \A t \in Sessions \ {s} : session'[t] = session[t]
      /\ session[s].state \in SessionStates /\ r.state \in SessionStates
  BY DEF SessionType, SessionRecords
<1>4. /\ Published(session[s].state) \in 0 .. 3 /\ Published(r.state) \in 0 .. 3
      /\ Published(session[s].state) <= Published(r.state)
      /\ Published(r.state) = 3 <=> r.state = "gone"
      /\ Published(session[s].state) = 3 <=> session[s].state = "gone"
  BY <1>2, <1>3, Ranks DEF Owed
<1>5. \A i \in 1 .. Len(queue) :
        /\ queue[i].kind \in Kinds /\ queue[i].id \in Sessions
        /\ Rank(queue[i].kind) \in 1 .. 3
        /\ Rank(queue[i].kind) <= Published(session[queue[i].id].state)
  <2> SUFFICES ASSUME NEW i \in 1 .. Len(queue)
               PROVE  /\ queue[i].kind \in Kinds /\ queue[i].id \in Sessions
                      /\ Rank(queue[i].kind) \in 1 .. 3
                      /\ Rank(queue[i].kind) <= Published(session[queue[i].id].state)
    OBVIOUS
  <2>1. queue[i] \in Events
    BY ElementOfSeq
  <2>2. i \in DOMAIN queue
    BY <1>2
  <2> QED
    BY <2>1, <2>2, Ranks DEF Orderly, Events
<1>6. \A i \in DOMAIN events' : \/ i \in 1 .. Len(queue)
                               \/ i - Len(queue) \in 1 .. Len(kinds)
  BY <1>2
<1>7. \A i \in DOMAIN events' : i - Len(queue) \in 1 .. Len(kinds) =>
        /\ events'[i].kind = kinds[i - Len(queue)] /\ events'[i].id = s
        /\ Rank(events'[i].kind) \in 1 .. 3
        /\ Published(session[s].state) < Rank(events'[i].kind)
        /\ Rank(events'[i].kind) <= Published(r.state)
  <2> SUFFICES ASSUME NEW i \in DOMAIN events', i - Len(queue) \in 1 .. Len(kinds)
               PROVE  /\ events'[i].kind = kinds[i - Len(queue)] /\ events'[i].id = s
                      /\ Rank(events'[i].kind) \in 1 .. 3
                      /\ Published(session[s].state) < Rank(events'[i].kind)
                      /\ Rank(events'[i].kind) <= Published(r.state)
    OBVIOUS
  <2>1. i = Len(queue) + (i - Len(queue))
    BY <1>2
  <2>2. kinds[i - Len(queue)] \in Kinds
    BY ElementOfSeq
  <2> QED
    BY <1>1, <2>1, <2>2, Ranks DEF Owed
<1>8. \A i \in DOMAIN events' : Rank(events'[i].kind) <= Published(session'[events'[i].id].state)
  <2> TAKE i \in DOMAIN events'
  <2>1. CASE i \in 1 .. Len(queue)
    <3>1. /\ events'[i] = queue[i] /\ queue[i].id \in Sessions /\ Rank(queue[i].kind) \in 1 .. 3
          /\ Rank(queue[i].kind) <= Published(session[queue[i].id].state)
      BY <1>1, <1>5, <2>1
    <3>2. CASE queue[i].id = s
      BY <1>3, <1>4, <3>1, <3>2
    <3>3. CASE queue[i].id # s
      BY <1>3, <3>1, <3>3
    <3> QED
      BY <3>2, <3>3
  <2>2. CASE i - Len(queue) \in 1 .. Len(kinds)
    BY <1>2, <1>3, <1>4, <1>7, <2>2
  <2> QED
    BY <1>6, <2>1, <2>2
<1>9. ASSUME NEW i \in DOMAIN events', NEW j \in DOMAIN events', i < j,
             events'[i].id = events'[j].id
      PROVE  Rank(events'[i].kind) < Rank(events'[j].kind)
  <2>1. CASE j \in 1 .. Len(queue)
    <3>1. i \in 1 .. Len(queue)
      BY <1>2, <1>9, <2>1
    <3>2. events'[i] = queue[i] /\ events'[j] = queue[j]
      BY <1>1, <2>1, <3>1
    <3> QED
      BY <1>2, <1>9, <2>1, <3>1, <3>2 DEF Orderly
  <2>2. CASE j - Len(queue) \in 1 .. Len(kinds)
    <3>1. /\ Published(session[s].state) < Rank(events'[j].kind) /\ events'[j].id = s
          /\ Rank(events'[j].kind) \in 1 .. 3 /\ events'[j].kind = kinds[j - Len(queue)]
      BY <1>7, <2>2
    <3>2. CASE i \in 1 .. Len(queue)
      <4>1. events'[i] = queue[i] /\ queue[i].id = s
        BY <1>1, <1>9, <3>1, <3>2
      <4>2. Rank(queue[i].kind) \in 1 .. 3 /\ Rank(queue[i].kind) <= Published(session[s].state)
        BY <1>5, <3>2, <4>1
      <4> QED
        BY <1>2, <1>4, <2>2, <3>1, <4>1, <4>2
    <3>3. CASE i - Len(queue) \in 1 .. Len(kinds)
      <4>1. events'[i].kind = kinds[i - Len(queue)]
        BY <1>7, <3>3
      <4>2. i - Len(queue) < j - Len(queue)
        BY <1>2, <1>9
      <4> QED
        BY <2>2, <3>1, <3>3, <4>1, <4>2 DEF Owed
    <3> QED
      BY <1>6, <3>2, <3>3
  <2> QED
    BY <1>6, <2>1, <2>2
<1>10. ASSUME NEW t \in Sessions, session'[t].state = "gone", Has(events', "exited", t)
       PROVE  Has(events', "removed", t)
  <2>0. "exited" \in Kinds /\ "removed" \in Kinds
    BY DEF Kinds
  <2>1. CASE t # s
    BY <1>1, <1>3, <1>10, <2>0, <2>1 DEF Orderly
  <2>2. CASE t = s /\ session[s].state = "gone"
    <3>1. \A i \in 1 .. Len(kinds) : FALSE
      <4> TAKE i \in 1 .. Len(kinds)
      <4>1. kinds[i] \in Kinds
        BY ElementOfSeq
      <4> QED
        BY <1>4, <2>2, <4>1, Ranks DEF Owed
    <3> QED
      BY <1>1, <1>10, <2>0, <2>2, <3>1 DEF Orderly
  <2>3. CASE t = s /\ session[s].state # "gone"
    BY <1>1, <1>3, <1>10, <2>0, <2>3 DEF Owed
  <2> QED
    BY <2>1, <2>2, <2>3
<1> QED
  BY <1>3, <1>8, <1>9, <1>10 DEF QueueInv, Orderly

(* The head of the queue is the first event of its session.                *)
LEMMA TailOrderly ==
  ASSUME SessionType, EventType, QueueInv, events # << >>
  PROVE  /\ Tail(events) \in Seq(Events) /\ Orderly(Tail(events), session)
         /\ Head(events) \in Events
         /\ Rank(Head(events).kind) <= Published(session[Head(events).id].state)
         /\ \A k \in Kinds, t \in Sessions :
              /\ Has(Tail(events), k, t) => Has(events, k, t)
              /\ Has(events, k, t) =>
                   \/ Has(Tail(events), k, t)
                   \/ k = Head(events).kind /\ t = Head(events).id
              /\ t = Head(events).id /\ Rank(k) <= Rank(Head(events).kind)
                   => ~ Has(Tail(events), k, t)
<1>1. /\ Tail(events) \in Seq(Events) /\ Head(events) = events[1] /\ Len(events) \in Nat \ {0}
      /\ Len(Tail(events)) = Len(events) - 1
      /\ \A i \in 1 .. Len(Tail(events)) : Tail(events)[i] = events[i + 1]
  BY HeadTailProperties, EmptySeq DEF EventType
<1>2. /\ DOMAIN events = 1 .. Len(events) /\ DOMAIN Tail(events) = 1 .. Len(events) - 1
      /\ \A i \in 1 .. Len(events) : events[i] \in Events
  BY <1>1, LenProperties, ElementOfSeq DEF EventType
<1> DEFINE tail == Tail(events)
<1>3. /\ tail \in Seq(Events) /\ DOMAIN tail = 1 .. Len(events) - 1
      /\ \A i \in DOMAIN tail : i + 1 \in DOMAIN events /\ tail[i] = events[i + 1]
  BY <1>1, <1>2
<1>4. 1 \in DOMAIN events /\ events[1] \in Events
  BY <1>1, <1>2
<1> HIDE DEF tail
<1>5. /\ Rank(events[1].kind) \in 1 .. 3
      /\ Rank(events[1].kind) <= Published(session[events[1].id].state)
  BY <1>4, Ranks DEF QueueInv, Orderly, Events
<1>6. ASSUME NEW i \in DOMAIN tail, tail[i].id = events[1].id
      PROVE  Rank(events[1].kind) < Rank(tail[i].kind)
  <2>1. 1 < i + 1 /\ i + 1 \in DOMAIN events /\ tail[i] = events[i + 1]
    BY <1>1, <1>3
  <2> QED
    BY <1>4, <1>6, <2>1 DEF QueueInv, Orderly
<1>7. ASSUME NEW k \in Kinds, NEW t \in Sessions
      PROVE  /\ Has(tail, k, t) => Has(events, k, t)
             /\ Has(events, k, t) => \/ Has(tail, k, t)
                                     \/ k = events[1].kind /\ t = events[1].id
             /\ t = events[1].id /\ Rank(k) <= Rank(events[1].kind) => ~ Has(tail, k, t)
  <2>1. Has(tail, k, t) => Has(events, k, t)
    BY <1>3 DEF Has
  <2>2. ASSUME Has(events, k, t), ~ (k = events[1].kind /\ t = events[1].id)
        PROVE  Has(tail, k, t)
    <3>1. PICK i \in DOMAIN events : events[i].kind = k /\ events[i].id = t
      BY <2>2 DEF Has
    <3>2. i # 1
      BY <2>2, <3>1
    <3>3. i - 1 \in DOMAIN tail /\ i = (i - 1) + 1
      BY <1>1, <1>2, <1>3, <3>2
    <3>4. tail[i - 1] = events[i]
      BY <1>3, <3>3
    <3> QED
      BY <3>1, <3>3, <3>4 DEF Has
  <2>3. ASSUME t = events[1].id, Rank(k) <= Rank(events[1].kind), Has(tail, k, t)
        PROVE  FALSE
    <3>1. PICK i \in DOMAIN tail : tail[i].kind = k /\ tail[i].id = t
      BY <2>3 DEF Has
    <3>2. Rank(k) \in 1 .. 3
      BY Ranks
    <3> QED
      BY <1>5, <1>6, <2>3, <3>1, <3>2
  <2> QED
    BY <2>1, <2>2, <2>3
<1>8. Orderly(tail, session)
  <2>1. \A i \in DOMAIN tail : Rank(tail[i].kind) <= Published(session[tail[i].id].state)
    BY <1>3 DEF QueueInv, Orderly
  <2>2. ASSUME NEW i \in DOMAIN tail, NEW j \in DOMAIN tail, i < j, tail[i].id = tail[j].id
        PROVE  Rank(tail[i].kind) < Rank(tail[j].kind)
    <3>1. i + 1 < j + 1 /\ i + 1 \in DOMAIN events /\ j + 1 \in DOMAIN events
      BY <1>1, <1>3, <2>2
    <3> QED
      BY <1>3, <2>2, <3>1 DEF QueueInv, Orderly
  <2>3. ASSUME NEW t \in Sessions, session[t].state = "gone", Has(tail, "exited", t)
        PROVE  Has(tail, "removed", t)
    <3>1. "exited" \in Kinds /\ "removed" \in Kinds /\ Rank("exited") = 1
      BY DEF Kinds, Rank
    <3>2. Has(events, "removed", t)
      BY <1>7, <2>3, <3>1 DEF QueueInv, Orderly
    <3>3. ~ ("removed" = events[1].kind /\ t = events[1].id)
      BY <1>5, <1>7, <2>3, <3>1
    <3> QED
      BY <1>7, <3>1, <3>2, <3>3
  <2> QED
    BY <2>1, <2>2, <2>3 DEF Orderly
<1> QED
  BY <1>1, <1>4, <1>5, <1>7, <1>8 DEF tail
-----------------------------------------------------------------------------
(* The steps of a session                                                    *)

\* What a session goes through, it goes through once, and it tells.
SessionStep(s, queue) ==
  /\ SessionType' /\ EventType' /\ QueueInv'
  /\ \A t \in Sessions \ {s} : session'[t] = session[t]
  /\ session[s].state # "unused" /\ session'[s].state # "unused"
  /\ Alive(s)' => Alive(s)
  /\ session[s].state \in Ended =>
       session'[s].state \in Ended /\ session'[s].status = session[s].status
  /\ session'[s].state \in Ended => session'[s].status # None
  /\ session[s].state \in {"retained", "gone"} => session'[s].state \in {"retained", "gone"}
  /\ \A k \in Kinds, t \in Sessions :
       /\ Has(queue, k, t) => Has(events', k, t)
       /\ t # s /\ Has(events', k, t) => Has(queue, k, t)
       /\ k = "exited" /\ ~ Alive(s) /\ Has(events', k, t) => Has(queue, k, t)
  /\ Alive(s) /\ ~ Alive(s)' => Has(events', "exited", s)
  /\ session'[s].state = "gone" /\ session[s].state # "gone" => Has(events', "removed", s)

(* What is published, in its order, makes such a step.                     *)
LEMMA PublishedStep ==
  ASSUME SessionType, SessionInv, NEW queue \in Seq(Events), Orderly(queue, session),
         NEW s \in Sessions, NEW r \in SessionRecords,
         session' = [session EXCEPT ![s] = r],
         NEW kinds \in Seq(Kinds), Publish(queue, kinds, s),
         Owed(kinds, session[s].state, r.state),
         session[s].state # "unused", r.state # "unused",
         session[s].state \in Ended => r.status = session[s].status,
         r.state \in Ended => r.status # None
  PROVE  SessionStep(s, queue)
<1>1. SessionType' /\ QueueInv'
  BY PublishOrderly
<1>2. /\ EventType'
      /\ \A k \in Kinds, t \in Sessions :
           Has(events', k, t) <=> \/ Has(queue, k, t)
                                  \/ t = s /\ \E i \in 1 .. Len(kinds) : kinds[i] = k
  <2>1. Appended(queue, kinds, s)
    BY PublishMeans, Zenon
  <2> QED
    BY <2>1 DEF Appended
<1>3. /\ session'[s] = r /\ \A t \in Sessions \ {s} : session'[t] = session[t]
      /\ session[s].state \in SessionStates /\ r.state \in SessionStates
      /\ Len(kinds) \in Nat
  BY LenProperties DEF SessionType, SessionRecords
<1>4. /\ Published(session[s].state) \in 0 .. 3 /\ Published(r.state) \in 0 .. 3
      /\ Published(session[s].state) <= Published(r.state)
  BY <1>3, Ranks DEF Owed
<1>5. /\ Alive(s) <=> Published(session[s].state) = 0
      /\ Alive(s)' <=> Published(r.state) = 0
      /\ session[s].state \in Ended <=> Published(session[s].state) >= 1
      /\ r.state \in Ended <=> Published(r.state) >= 1
      /\ session[s].state \in {"retained", "gone"} <=> Published(session[s].state) >= 2
      /\ r.state \in {"retained", "gone"} <=> Published(r.state) >= 2
  BY <1>3 DEF Alive, Published, SessionStates, Ended
<1>6. /\ Alive(s) /\ ~ Alive(s)' => Has(events', "exited", s)
      /\ r.state = "gone" /\ session[s].state # "gone" => Has(events', "removed", s)
  BY <1>2, <1>4, <1>5 DEF Owed, Kinds
<1>7. ASSUME NEW k \in Kinds, NEW t \in Sessions
      PROVE  /\ Has(queue, k, t) => Has(events', k, t)
             /\ t # s /\ Has(events', k, t) => Has(queue, k, t)
             /\ k = "exited" /\ ~ Alive(s) /\ Has(events', k, t) => Has(queue, k, t)
  <2>1. ASSUME ~ Alive(s), NEW i \in 1 .. Len(kinds) PROVE kinds[i] # "exited"
    BY <1>4, <1>5, <2>1 DEF Owed, Rank
  <2> QED
    BY <1>2, <2>1
<1> QED
  BY <1>1, <1>2, <1>3, <1>4, <1>5, <1>6, <1>7 DEF SessionStep

(* The events that are published together                                  *)
LEMMA KindTuples ==
  /\ << >> \in Seq(Kinds)
  /\ <<"exited">> \in Seq(Kinds) /\ <<"retained">> \in Seq(Kinds)
  /\ <<"removed">> \in Seq(Kinds)
  /\ <<"exited", "retained">> \in Seq(Kinds) /\ <<"retained", "removed">> \in Seq(Kinds)
  /\ <<"exited", "retained", "removed">> \in Seq(Kinds)
  BY DEF Kinds

(* What is owed                                                            *)
LEMMA Debts ==
  /\ \A state \in {"running", "dying"} :
       /\ Owed(<<"exited">>, state, "exited")
       /\ Owed(<<"exited", "retained">>, state, "retained")
       /\ Owed(<<"exited", "retained", "removed">>, state, "gone")
  /\ Owed(<<"retained">>, "exited", "retained")
  /\ Owed(<<"retained", "removed">>, "exited", "gone")
  /\ \A state \in {"exited", "retained"} : Owed(<<"removed">>, state, "gone")
<1>1. /\ Len(<<"exited">>) = 1 /\ Len(<<"retained">>) = 1 /\ Len(<<"removed">>) = 1
      /\ Len(<<"exited", "retained">>) = 2 /\ Len(<<"retained", "removed">>) = 2
      /\ Len(<<"exited", "retained", "removed">>) = 3
  OBVIOUS
<1>2. 1 .. 1 = {1} /\ 1 .. 2 = {1, 2} /\ 1 .. 3 = {1, 2, 3}
  OBVIOUS
<1> QED
  BY <1>1, <1>2 DEF Owed, Published, Rank, Ended

(* Nothing happens to a session.                                           *)
LEMMA QuietStep ==
  ASSUME SessionType, SessionInv, NEW queue \in Seq(Events), Orderly(queue, session),
         NEW s \in Sessions, session[s].state # "unused",
         UNCHANGED session, events' = queue
  PROVE  SessionStep(s, queue)
<1>1. SessionType' /\ EventType' /\ QueueInv'
  BY DEF SessionType, EventType, QueueInv
<1> QED
  BY <1>1 DEF SessionInv, SessionStep, Alive

(* A session goes on, and publishes what it owes.                          *)
LEMMA NextStep ==
  ASSUME SessionType, SessionInv, NEW queue \in Seq(Events), Orderly(queue, session),
         NEW s \in Sessions, NEW state \in SessionStates, NEW status \in Statuses,
         session' = [session EXCEPT ![s] = [state |-> state, status |-> status]],
         NEW kinds \in Seq(Kinds), Publish(queue, kinds, s),
         Owed(kinds, session[s].state, state),
         session[s].state # "unused", state # "unused",
         session[s].state \in Ended => status = session[s].status,
         None \notin Statuses
  PROVE  SessionStep(s, queue) /\ session'[s].state = state
<1> DEFINE r == [state |-> state, status |-> status]
<1>1. r \in SessionRecords /\ r.state = state /\ r.status = status /\ status # None
  BY DEF SessionRecords, SessionStates
<1>2. session' = [session EXCEPT ![s] = r] /\ session'[s] = r
  BY DEF SessionType
<1> HIDE DEF r
<1>3. Owed(kinds, session[s].state, r.state)
  BY <1>1
<1> QED
  BY <1>1, <1>2, <1>3, PublishedStep

(* A process ends.                                                         *)
LEMMA ExitStep ==
  ASSUME SessionType, SessionInv, EventType, QueueInv, NEW s \in Sessions,
         NEW status \in Statuses, Alive(s), None \notin Statuses,
         session' = [session EXCEPT ![s] = [state |-> "exited", status |-> status]],
         Publish(events, <<"exited">>, s)
  PROVE  SessionStep(s, events)
<1>1. events \in Seq(Events) /\ Orderly(events, session) /\ "exited" \in SessionStates
  BY DEF EventType, QueueInv, SessionStates
<1>2. /\ Owed(<<"exited">>, session[s].state, "exited") /\ session[s].state # "unused"
      /\ session[s].state \notin Ended
  BY Debts DEF Alive, Ended
<1> QED
  BY <1>1, <1>2, KindTuples, NextStep

(* The state of an ended session changes, and nothing else of it.          *)
LEMMA KeepsStatus ==
  ASSUME SessionType, SessionInv, NEW s \in Sessions, session[s].state \in Ended,
         NEW state \in SessionStates, session' = [session EXCEPT ![s].state = state]
  PROVE  /\ session' = [session EXCEPT ![s] = [state |-> state, status |-> session[s].status]]
         /\ session[s].status \in Statuses
<1>1. session[s] \in SessionRecords /\ session[s].status # None
  BY DEF SessionType, SessionInv
<1>2. [session[s] EXCEPT !.state = state] = [state |-> state, status |-> session[s].status]
  BY <1>1 DEF SessionRecords
<1>3. session' = [session EXCEPT ![s] = [session[s] EXCEPT !.state = state]]
  OBVIOUS
<1> QED
  BY <1>1, <1>2, <1>3 DEF SessionRecords

(* The manager retains a session whose process has ended.                  *)
LEMMA RetainStep ==
  ASSUME SessionType, SessionInv, EventType, QueueInv, NEW s \in Sessions,
         session[s].state = "exited", None \notin Statuses,
         session' = [session EXCEPT ![s].state = "retained"],
         Publish(events, <<"retained">>, s)
  PROVE  SessionStep(s, events) /\ session'[s].state = "retained"
<1>1. /\ events \in Seq(Events) /\ Orderly(events, session) /\ "retained" \in SessionStates
      /\ session[s].state \in Ended /\ session[s].state # "unused"
  BY DEF EventType, QueueInv, SessionStates, Ended
<1>2. /\ session' = [session EXCEPT ![s] = [state |-> "retained", status |-> session[s].status]]
      /\ session[s].status \in Statuses
  BY <1>1, KeepsStatus
<1>3. Owed(<<"retained">>, session[s].state, "retained")
  BY Debts
<1> QED
  BY <1>1, <1>2, <1>3, KindTuples, NextStep

(* A session is removed once, by whoever comes first.                      *)
LEMMA RemoveStep ==
  ASSUME SessionType, SessionInv, NEW queue \in Seq(Events), Orderly(queue, session),
         NEW s \in Sessions, Remove(s, queue), None \notin Statuses
  PROVE  SessionStep(s, queue) /\ session'[s].state = "gone" /\ session[s].state \in Ended
<1>1. CASE session[s].state = "gone"
  <2>1. UNCHANGED session /\ events' = queue
    BY <1>1 DEF Remove
  <2> QED
    BY <1>1, <2>1, QuietStep DEF Ended
<1>2. CASE session[s].state \in {"exited", "retained"}
  <2>1. /\ session' = [session EXCEPT ![s].state = "gone"] /\ Publish(queue, <<"removed">>, s)
        /\ session[s].state \in Ended /\ session[s].state # "unused" /\ "gone" \in SessionStates
    BY <1>2 DEF Remove, Ended, SessionStates
  <2>2. /\ session' = [session EXCEPT ![s] = [state |-> "gone", status |-> session[s].status]]
        /\ session[s].status \in Statuses
    BY <2>1, KeepsStatus
  <2>3. Owed(<<"removed">>, session[s].state, "gone")
    BY <1>2, Debts
  <2> QED
    BY <2>1, <2>2, <2>3, KindTuples, NextStep
<1> QED
  BY <1>1, <1>2 DEF Remove

(* Kill has waited until the session is retained.                          *)
LEMMA KilledStep ==
  ASSUME SessionType, SessionInv, EventType, QueueInv, NEW s \in Sessions, Killed(s),
         Endings \cup {"killed"} \subseteq Statuses, None \notin Statuses
  PROVE  SessionStep(s, events) /\ session'[s].state = "retained"
<1>1. /\ events \in Seq(Events) /\ Orderly(events, session) /\ "retained" \in SessionStates
  BY DEF EventType, QueueInv, SessionStates
<1>2. CASE Alive(s)
  <2>1. PICK status \in Endings \cup {"killed"} :
          session' = [session EXCEPT ![s] = [state |-> "retained", status |-> status]]
    BY <1>2 DEF Killed, Alive
  <2>2. Publish(events, <<"exited", "retained">>, s) /\ status \in Statuses
    BY <1>2, <2>1 DEF Killed, Alive
  <2>3. /\ Owed(<<"exited", "retained">>, session[s].state, "retained")
        /\ session[s].state # "unused" /\ session[s].state \notin Ended
    BY <1>2, Debts DEF Alive, Ended
  <2> QED
    BY <1>1, <2>1, <2>2, <2>3, KindTuples, NextStep
<1>3. CASE session[s].state = "exited"
  <2>1. session' = [session EXCEPT ![s].state = "retained"] /\ Publish(events, <<"retained">>, s)
    BY <1>3 DEF Killed, Alive
  <2> QED
    BY <1>3, <2>1, RetainStep
<1>4. CASE session[s].state = "retained"
  <2>1. UNCHANGED <<session, events>>
    BY <1>4 DEF Killed, Alive, managerVars
  <2> QED
    BY <1>1, <1>4, <2>1, QuietStep
<1> QED
  BY <1>2, <1>3, <1>4 DEF Killed

(* An abandoned session is killed and removed, wherever it has got to.     *)
LEMMA AbandonStep ==
  ASSUME SessionType, SessionInv, EventType, QueueInv, NEW s \in Sessions,
         session[s].state # "unused", KillAndRemove(s),
         "killed" \in Statuses, None \notin Statuses
  PROVE  SessionStep(s, events) /\ session'[s].state = "gone"
<1>1. /\ events \in Seq(Events) /\ Orderly(events, session) /\ "gone" \in SessionStates
      /\ "gone" # "unused"
  BY DEF EventType, QueueInv, SessionStates
<1>2. PICK status \in Statuses :
        /\ session' = [session EXCEPT ![s] = [state |-> "gone", status |-> status]]
        /\ session[s].state \in Ended => status = session[s].status
  <2>1. session[s].status \in Statuses \/ Alive(s)
    BY DEF SessionType, SessionRecords, SessionStates, SessionInv, Ended, Alive
  <2>2. session[s].state \in Ended => ~ Alive(s)
    BY DEF Ended, Alive
  <2>3. CASE Alive(s)
    BY <2>2, <2>3 DEF KillAndRemove
  <2>4. CASE ~ Alive(s)
    BY <2>1, <2>4 DEF KillAndRemove
  <2> QED
    BY <2>3, <2>4
<1>3. \E kinds \in Seq(Kinds) : /\ Publish(events, kinds, s)
                                 /\ Owed(kinds, session[s].state, "gone")
  <2>1. CASE Alive(s)
    <3>1. /\ Publish(events, <<"exited", "retained", "removed">>, s)
          /\ Owed(<<"exited", "retained", "removed">>, session[s].state, "gone")
      BY <2>1, Debts DEF KillAndRemove, Alive
    <3> QED
      BY <3>1, KindTuples
  <2>2. CASE session[s].state = "exited"
    <3>1. /\ Publish(events, <<"retained", "removed">>, s)
          /\ Owed(<<"retained", "removed">>, session[s].state, "gone")
      BY <2>2, Debts DEF KillAndRemove, Alive
    <3> QED
      BY <3>1, KindTuples
  <2>3. CASE session[s].state = "retained"
    <3>1. Publish(events, <<"removed">>, s) /\ Owed(<<"removed">>, session[s].state, "gone")
      BY <2>3, Debts DEF KillAndRemove, Alive
    <3> QED
      BY <3>1, KindTuples
  <2>4. CASE session[s].state = "gone"
    <3>1. Publish(events, << >>, s)
      BY <2>4 DEF KillAndRemove, Alive
    <3>2. Len(<< >>) = 0 /\ \A i \in 1 .. 0 : FALSE
      OBVIOUS
    <3>3. Owed(<< >>, session[s].state, "gone")
      BY <2>4, <3>2 DEF Owed, Published
    <3> QED
      BY <3>1, <3>3, KindTuples
  <2> QED
    BY <2>1, <2>2, <2>3, <2>4 DEF SessionType, SessionRecords, SessionStates, Alive
<1>4. PICK kinds \in Seq(Kinds) : Publish(events, kinds, s) /\ Owed(kinds, session[s].state, "gone")
  BY <1>3
<1> QED
  <2>1. /\ SessionType /\ SessionInv /\ events \in Seq(Events) /\ Orderly(events, session)
        /\ s \in Sessions /\ "gone" \in SessionStates /\ status \in Statuses
        /\ session' = [session EXCEPT ![s] = [state |-> "gone", status |-> status]]
    BY <1>1, <1>2
  <2>2. /\ kinds \in Seq(Kinds) /\ Publish(events, kinds, s)
        /\ Owed(kinds, session[s].state, "gone")
    BY <1>4
  <2>3. /\ session[s].state # "unused" /\ "gone" # "unused" /\ None \notin Statuses
        /\ session[s].state \in Ended => status = session[s].status
    BY <1>1, <1>2
  <2> QED
    BY <2>1, <2>2, <2>3, NextStep, ZenonT(60)

(* A process that has got the signal still lives.                          *)
LEMMA DyingStep ==
  ASSUME SessionType, SessionInv, EventType, QueueInv, NEW s \in Sessions, Alive(s),
         session' = [session EXCEPT ![s].state = "dying"], UNCHANGED events
  PROVE  SessionStep(s, events) /\ Alive(s)'
<1>1. /\ SessionType' /\ EventType'
      /\ session'[s].state = "dying" /\ \A t \in Sessions \ {s} : session'[t] = session[t]
  BY DEF SessionType, SessionRecords, SessionStates, EventType
<1>2. Published(session[s].state) = 0 /\ Published(session'[s].state) = 0
  BY <1>1 DEF Alive, Published
<1>3. \A i \in DOMAIN events : events[i].id \in Sessions
  <2> TAKE i \in DOMAIN events
  <2>1. i \in 1 .. Len(events)
    BY LenProperties DEF EventType
  <2>2. events[i] \in Events
    BY <2>1, ElementOfSeq DEF EventType
  <2> QED
    BY <2>2 DEF Events
<1>4. QueueInv'
  BY <1>1, <1>2, <1>3 DEF QueueInv, Orderly
<1> QED
  BY <1>1, <1>4 DEF SessionStep, Alive, Ended, SessionInv
-----------------------------------------------------------------------------
(* What the parts of the invariant make of such steps                        *)

(* None is none of the things there are.                                   *)
LEMMA NoneApart ==
  /\ None \notin Statuses /\ None \notin Panes /\ None \notin Sessions /\ None \notin Clients
  /\ Endings \cup {"killed"} \subseteq Statuses
  BY TerminalAssumption DEF Statuses

\* A session never goes back,
Lasting(t) ==
  /\ Alive(t)' => Alive(t)
  /\ session[t].state # "unused" => session'[t].state # "unused"
  /\ session[t].state \in Ended =>
       session'[t].state \in Ended /\ session'[t].status = session[t].status
  /\ session'[t].state \in Ended => session'[t].status # None
  /\ session[t].state \in {"retained", "gone"} => session'[t].state \in {"retained", "gone"}

\* and of what it has told and tells nothing is lost.
Telling(t) ==
  /\ Alive(t) /\ ~ Alive(t)' => Has(events', "exited", t)
  /\ session'[t].state = "gone" /\ session[t].state # "gone" => Has(events', "removed", t)
  /\ \A k \in {"exited", "removed"} : Has(events, k, t) => Has(events', k, t)

Onward == \A t \in Sessions : Lasting(t) /\ Telling(t)

(* So it is when nothing happens,                                          *)
LEMMA StillOnward ==
  ASSUME SessionInv, UNCHANGED <<session, events>>
  PROVE  Onward
  BY DEF Onward, Lasting, Telling, SessionInv, Alive

(* and when one makes a step.                                              *)
LEMMA StepOnward ==
  ASSUME SessionInv, NEW s \in Sessions, NEW queue, SessionStep(s, queue),
         \A k \in {"exited", "removed"}, t \in Sessions :
           Has(queue, k, t) <=> Has(events, k, t)
  PROVE  Onward
  BY DEF Onward, Lasting, Telling, SessionStep, SessionInv, Alive, Kinds

\* What the invariant says of one pane
Fits(p) ==
  /\ term[p] \in Terminals /\ label[p] \in Statuses \cup {None}
  /\ term[p].hist => term[p].id # None
  /\ term[p].state \in Active => /\ term[p].id # None
                                 /\ Alive(term[p].id) \/ Has(events, "exited", term[p].id)
  /\ term[p].id # None =>
       /\ term[p].state \in Active \cup Over /\ session[term[p].id].state # "unused"
       /\ \A q \in Panes : term[q].id = term[p].id => q = p
  /\ term[p].exit # None <=> term[p].state \in Over
  /\ term[p].exit = "ptyError" <=> term[p].state = "failed"
  /\ term[p].id # None /\ term[p].exit # None =>
       /\ session[term[p].id].state \in Ended
       /\ term[p].exit = session[term[p].id].status
       /\ session[term[p].id].state = "gone" => Has(events, "removed", term[p].id)
  /\ label[p] # None => label[p] = term[p].exit /\ NeedsErrorLabel(label[p])
  /\ /\ faults \cap {"cancel", "refuse"} = {}
     /\ NeedsErrorLabel(term[p].exit)
     /\ term[p].id # None => ~ Has(events, "exited", term[p].id)
     => label[p] # None

(* The panes that change have to fit; the others go on fitting if their     *)
(* sessions tell.                                                          *)
LEMMA PanesFit ==
  ASSUME CoreType, SessionType, TermInv, SessionInv, GhostInv, ExitInv, LabelInv,
         \A t \in Sessions : Lasting(t), UNCHANGED down, faults \subseteq faults',
         term' \in [Panes -> Terminals], label' \in [Panes -> Statuses \cup {None}],
         \A p \in Panes :
           \/ /\ term'[p] = term[p] /\ label'[p] = label[p]
              /\ term[p].id # None => Telling(term[p].id)
           \/ Fits(p)'
  PROVE  CoreType' /\ TermInv' /\ SessionInv' /\ GhostInv' /\ ExitInv' /\ LabelInv'
<1>1. CoreType'
  BY DEF CoreType
<1>2. /\ \A p \in Panes : term[p].id # None => term[p].id \in Sessions
      /\ \A p \in Panes : term[p].state \in Active => term[p].id # None
  BY DEF CoreType, Terminals, TermInv
<1>3. TermInv'
  BY DEF TermInv, Fits
<1>4. SessionInv'
  BY <1>2, NoneApart DEF Fits, SessionInv, Lasting
<1>5. GhostInv'
  BY <1>2 DEF Fits, GhostInv, Telling
<1>6. ExitInv'
  BY <1>2 DEF Fits, ExitInv, Lasting, Telling
<1>7. LabelInv'
  BY <1>2 DEF Fits, LabelInv, Telling
<1> QED
  BY <1>1, <1>3, <1>4, <1>5, <1>6, <1>7

(* They do when all do.                                                    *)
LEMMA PanesKeep ==
  ASSUME CoreType, SessionType, TermInv, SessionInv, GhostInv, ExitInv, LabelInv,
         Onward, UNCHANGED down, faults \subseteq faults',
         term' \in [Panes -> Terminals], label' \in [Panes -> Statuses \cup {None}],
         \A p \in Panes : \/ term'[p] = term[p] /\ label'[p] = label[p]
                          \/ Fits(p)'
  PROVE  CoreType' /\ TermInv' /\ SessionInv' /\ GhostInv' /\ ExitInv' /\ LabelInv'
<1>1. \A p \in Panes : term[p].id # None => Telling(term[p].id)
  BY DEF CoreType, Terminals, Onward
<1>2. \A t \in Sessions : Lasting(t)
  BY DEF Onward
<1> QED
  BY <1>1, <1>2, PanesFit

(* An operation returns.                                                   *)
LEMMA Returned ==
  ASSUME ClientType, ClientInv, NEW c \in Clients, lock \in {None, c},
         Return(c), faults \subseteq faults'
  PROVE  /\ ClientType' /\ ClientInv' /\ client'[c] = Idle
         /\ \A d \in Clients \ {c} : client'[d] = client[d] /\ client[d].pc \notin Steps
<1>1. ClientType'
  BY DEF ClientType, ClientRecords, Return, Idle
<1>2. \A d \in Clients : client'[d] = IF d = c THEN Idle ELSE client[d]
  BY DEF ClientType, Return
<1>3. \A d \in Clients : (d = c \/ client[d].pc \notin Steps) /\ lock' # d
  BY NoneApart DEF ClientInv, Return
<1>4. ClientInv'
  <2> SUFFICES ASSUME NEW d \in Clients
               PROVE  (client[d].pc \notin Steps /\ (~ client[d].live => "cancel" \in faults))'
    BY <1>3 DEF ClientInv
  <2>1. CASE d = c
    BY <1>2, <2>1 DEF Idle, Steps
  <2>2. CASE d # c
    BY <1>2, <1>3, <2>2 DEF ClientInv
  <2> QED
    BY <2>1, <2>2
<1> QED
  BY <1>1, <1>2, <1>3, <1>4

(* An operation goes on, with terminalMu.                                  *)
LEMMA Held ==
  ASSUME ClientType, ClientInv, NEW c \in Clients, lock \in {None, c}, lock' = c,
         NEW r \in ClientRecords, client' = [client EXCEPT ![c] = r], r.pc \in Steps,
         ~ r.live => "cancel" \in faults', faults \subseteq faults', StepInv(c)'
  PROVE  /\ ClientType' /\ ClientInv'
         /\ \A d \in Clients \ {c} : client'[d] = client[d] /\ client[d].pc \notin Steps
<1>1. ClientType'
  BY DEF ClientType
<1>2. \A d \in Clients : client'[d] = IF d = c THEN r ELSE client[d]
  BY DEF ClientType
<1>3. \A d \in Clients : (d = c \/ client[d].pc \notin Steps) /\ (lock' = d => d = c)
  BY NoneApart DEF ClientInv
<1> QED
  BY <1>1, <1>2, <1>3 DEF ClientInv

(* The session steps on its own.                                           *)
LEMMA SessionAlone ==
  ASSUME LifecycleInv, NEW s \in Sessions, NEW queue, SessionStep(s, queue),
         \A k \in {"exited", "removed"}, t \in Sessions :
           Has(queue, k, t) <=> Has(events, k, t),
         UNCHANGED <<term, label, owner, lock, client, stopping, down, faults>>,
         removing' \subseteq Sessions
  PROVE  LifecycleInv'
<1>0. /\ CoreType /\ SessionType /\ EventType /\ LoopType /\ ClientType /\ FlagType
      /\ TermInv /\ QueueInv /\ SessionInv /\ GhostInv /\ ExitInv /\ LabelInv
      /\ OwnerInv /\ StartInv /\ ClientInv
  BY DEF LifecycleInv
<1>1. /\ SessionType' /\ EventType' /\ QueueInv' /\ Onward
  BY <1>0, StepOnward DEF SessionStep
<1>2. LoopType' /\ ClientType' /\ FlagType'
  BY <1>0 DEF LoopType, ClientType, FlagType
<1>3. CoreType' /\ TermInv' /\ SessionInv' /\ GhostInv' /\ ExitInv' /\ LabelInv'
  <2>1. /\ term' \in [Panes -> Terminals] /\ label' \in [Panes -> Statuses \cup {None}]
        /\ faults \subseteq faults'
    BY <1>0 DEF CoreType
  <2> QED
    BY <1>0, <1>1, <2>1, PanesKeep
<1>4. OwnerInv'
  BY <1>0, <1>1 DEF OwnerInv, Onward, Lasting
<1>5. StartInv'
  BY <1>0 DEF StartInv
<1>6. ClientInv'
  BY <1>0, <1>1 DEF ClientInv, StepInv, Pane, Dismissible, Onward, Lasting,
         Telling
<1> QED
  BY <1>0, <1>1, <1>2, <1>3, <1>4, <1>5, <1>6 DEF LifecycleInv
-----------------------------------------------------------------------------
(* Every step keeps the invariant                                            *)

(* A process ends.                                                         *)
LEMMA ExitKeepsInv ==
  ASSUME LifecycleInv, down = "no", NEW s \in Sessions,
         NEW status \in Endings \cup {"killed"}, Exit(s, status)
  PROVE  LifecycleInv'
<1>0. /\ SessionType /\ SessionInv /\ EventType /\ QueueInv /\ removing \subseteq Sessions
      /\ events \in Seq(Events) /\ Orderly(events, session)
  BY DEF LifecycleInv, LoopType, EventType, QueueInv
<1>1. /\ UNCHANGED <<term, label, owner, removing, lock, client, stopping, down, faults>>
      /\ removing' \subseteq Sessions
  BY <1>0 DEF Exit, coreVars, loopVars, clientVars
<1>2. SessionStep(s, events)
  BY <1>0, NoneApart, ExitStep DEF Exit
<1> QED
  BY <1>1, <1>2, SessionAlone

(* A session is retained.                                                  *)
LEMMA RetainKeepsInv ==
  ASSUME LifecycleInv, down = "no", NEW s \in Sessions, Retain(s)
  PROVE  LifecycleInv'
<1>0. /\ SessionType /\ SessionInv /\ EventType /\ QueueInv /\ removing \subseteq Sessions
      /\ events \in Seq(Events) /\ Orderly(events, session)
  BY DEF LifecycleInv, LoopType, EventType, QueueInv
<1>1. /\ UNCHANGED <<term, label, owner, removing, lock, client, stopping, down, faults>>
      /\ removing' \subseteq Sessions
  BY <1>0 DEF Retain, coreVars, loopVars, clientVars
<1>2. SessionStep(s, events)
  BY <1>0, NoneApart, RetainStep DEF Retain
<1> QED
  BY <1>1, <1>2, SessionAlone

(* A session is evicted.                                                   *)
LEMMA EvictKeepsInv ==
  ASSUME LifecycleInv, down = "no", NEW s \in Sessions, Evict(s)
  PROVE  LifecycleInv'
<1>0. /\ SessionType /\ SessionInv /\ EventType /\ QueueInv /\ removing \subseteq Sessions
      /\ events \in Seq(Events) /\ Orderly(events, session)
  BY DEF LifecycleInv, LoopType, EventType, QueueInv
<1>1. /\ UNCHANGED <<term, label, owner, removing, lock, client, stopping, down, faults>>
      /\ removing' \subseteq Sessions
  BY <1>0 DEF Evict, coreVars, loopVars, clientVars
<1>2. SessionStep(s, events)
  <2>1. Remove(s, events)
    BY DEF Evict, Remove
  <2> QED
    BY <1>0, <2>1, NoneApart, RemoveStep
<1> QED
  BY <1>1, <1>2, SessionAlone

(* An operation waits for terminalMu.                                      *)
LEMMA BeginKeepsInv ==
  ASSUME LifecycleInv, down = "no", NEW c \in Clients, Begin(c)
  PROVE  LifecycleInv'
<1>0. /\ CoreType /\ SessionType /\ EventType /\ LoopType /\ ClientType /\ FlagType
      /\ TermInv /\ QueueInv /\ SessionInv /\ GhostInv /\ ExitInv /\ LabelInv
      /\ OwnerInv /\ StartInv /\ ClientInv
  BY DEF LifecycleInv
<1>u. UNCHANGED <<term, label, session, events, owner, removing, lock, stopping, down, faults>>
  BY DEF Begin, coreVars, managerVars, loopVars, clientVars
<1>a. /\ client[c].pc = "idle" /\ client'[c] = [client[c] EXCEPT !.pc = "lock"]
      /\ \A d \in Clients \ {c} : client'[d] = client[d]
  BY <1>0 DEF Begin, ClientType
<1>1. /\ CoreType' /\ SessionType' /\ EventType' /\ LoopType' /\ FlagType'
      /\ TermInv' /\ QueueInv' /\ SessionInv' /\ GhostInv' /\ ExitInv'
      /\ LabelInv'
  BY <1>0, <1>u
     DEF CoreType, SessionType, EventType, LoopType, FlagType, TermInv, QueueInv,
         SessionInv, GhostInv, Alive, ExitInv, LabelInv
<1>2. ClientType'
  BY <1>0, <1>u DEF ClientType, ClientRecords, Begin
<1>3. OwnerInv' /\ StartInv'
  <2>1. \A d \in Clients : client[d].pc \in {"open", "activate"} => client'[d] = client[d]
    BY <1>a
  <2> QED
    BY <1>0, <1>u, <2>1 DEF OwnerInv, StartInv, Alive
<1>4. ClientInv'
  <2> SUFFICES ASSUME NEW d \in Clients
               PROVE  /\ client'[d].pc \in Steps <=> lock' = d
                      /\ ~ client'[d].live => "cancel" \in faults'
                      /\ lock' = d => StepInv(d)'
    BY DEF ClientInv
  <2>1. CASE d = c
    <3>1. /\ client'[d].pc = "lock" /\ client'[d].live = client[d].live
          /\ client[d].pc \notin Steps
      BY <1>0, <1>a, <2>1 DEF ClientType, ClientRecords, Steps
    <3> QED
      BY <1>0, <1>u, <3>1 DEF ClientInv, Steps
  <2>2. CASE d # c
    BY <1>0, <1>u, <1>a, <2>2 DEF ClientInv, StepInv, Pane, Alive, Dismissible
  <2> QED
    BY <2>1, <2>2
<1> QED
  BY <1>1, <1>2, <1>3, <1>4 DEF LifecycleInv

(* A context is cancelled.                                                 *)
LEMMA CancelKeepsInv ==
  ASSUME LifecycleInv, down = "no", NEW c \in Clients, Cancel(c)
  PROVE  LifecycleInv'
<1>0. /\ CoreType /\ SessionType /\ EventType /\ LoopType /\ ClientType /\ FlagType
      /\ TermInv /\ QueueInv /\ SessionInv /\ GhostInv /\ ExitInv /\ LabelInv
      /\ OwnerInv /\ StartInv /\ ClientInv
  BY DEF LifecycleInv
<1>u. UNCHANGED <<term, label, session, events, owner, removing, lock, stopping, down>>
  BY DEF Cancel, Fault, coreVars, managerVars, loopVars, clientVars
<1>a. /\ faults' = faults \cup {"cancel"} /\ "cancel" \in FaultKinds
      /\ client'[c] = [client[c] EXCEPT !.live = FALSE]
      /\ \A d \in Clients : /\ client'[d].pc = client[d].pc /\ client'[d].pane = client[d].pane
                            /\ client'[d].id = client[d].id
                            /\ d # c => client'[d] = client[d]
  BY <1>0 DEF Cancel, Fault, ClientType, ClientRecords
<1>1. /\ CoreType' /\ SessionType' /\ EventType' /\ LoopType' /\ TermInv'
      /\ QueueInv' /\ SessionInv' /\ GhostInv' /\ ExitInv'
  BY <1>0, <1>u
     DEF CoreType, SessionType, EventType, LoopType, TermInv, QueueInv,
         SessionInv, GhostInv, Alive, ExitInv
<1>2. ClientType' /\ FlagType'
  <2>1. client[c] \in ClientRecords /\ client' = [client EXCEPT ![c] = client'[c]]
    BY <1>0, <1>a DEF ClientType, Cancel
  <2>2. client'[c] \in ClientRecords
    BY <1>a, <2>1 DEF ClientRecords
  <2> QED
    BY <1>0, <1>u, <1>a, <2>1, <2>2 DEF ClientType, FlagType
<1>3. LabelInv'
  BY <1>0, <1>u, <1>a DEF LabelInv
<1>4. OwnerInv' /\ StartInv'
  BY <1>0, <1>u, <1>a DEF OwnerInv, StartInv, Alive
<1>5. ClientInv'
  BY <1>0, <1>u, <1>a DEF ClientInv, StepInv, Pane, Alive, Dismissible
<1> QED
  BY <1>1, <1>2, <1>3, <1>4, <1>5 DEF LifecycleInv

(* Nothing is done.                                                        *)
LEMMA RejectKeepsInv ==
  ASSUME LifecycleInv, down = "no", NEW c \in Clients, Reject(c)
  PROVE  LifecycleInv'
<1>0. /\ CoreType /\ SessionType /\ EventType /\ LoopType /\ ClientType /\ FlagType
      /\ TermInv /\ QueueInv /\ SessionInv /\ GhostInv /\ ExitInv /\ LabelInv
      /\ OwnerInv /\ StartInv /\ ClientInv
  BY DEF LifecycleInv
<1>u. UNCHANGED <<term, label, session, events, owner, removing, stopping, down, faults>>
  BY DEF Reject, Return, coreVars, managerVars, loopVars, clientVars
<1>1. /\ CoreType' /\ SessionType' /\ EventType' /\ LoopType' /\ FlagType'
      /\ TermInv' /\ QueueInv' /\ SessionInv' /\ GhostInv' /\ ExitInv'
      /\ LabelInv'
  BY <1>0, <1>u
     DEF CoreType, SessionType, EventType, LoopType, FlagType, TermInv, QueueInv,
         SessionInv, GhostInv, Alive, ExitInv, LabelInv
<1>2. /\ ClientType' /\ ClientInv'
      /\ \A d \in Clients \ {c} : client'[d] = client[d] /\ client[d].pc \notin Steps
  BY <1>0, <1>u, Returned DEF Reject, Waits
<1>3. OwnerInv' /\ StartInv'
  <2>1. client[c].pc \in {"idle", "lock"}
    BY DEF Reject, Waits
  <2> QED
    BY <1>0, <1>u, <1>2, <2>1 DEF OwnerInv, StartInv, Alive
<1> QED
  BY <1>1, <1>2, <1>3 DEF LifecycleInv

(* A pane is made for a terminal.                                          *)
LEMMA CreatePaneKeepsInv ==
  ASSUME LifecycleInv, down = "no", NEW c \in Clients, NEW p \in Panes, CreatePane(c, p)
  PROVE  LifecycleInv'
<1>0. /\ CoreType /\ SessionType /\ EventType /\ LoopType /\ ClientType /\ FlagType
      /\ TermInv /\ QueueInv /\ SessionInv /\ GhostInv /\ ExitInv /\ LabelInv
      /\ OwnerInv /\ StartInv /\ ClientInv
  BY DEF LifecycleInv
<1>u. UNCHANGED <<label, session, events, owner, removing, stopping, down, faults>>
  BY DEF CreatePane, Take, coreVars, managerVars, loopVars, clientVars
<1>a. /\ lock = None /\ term[p].state = "absent"
      /\ term' = [term EXCEPT ![p] = Terminal("starting")]
      /\ Terminal("starting") \in Terminals
  BY DEF CreatePane, Take, Waits, SetTerminal, Terminal, Terminals, States
<1>b. term'[p] = Terminal("starting")
  BY <1>0, <1>a DEF CoreType
<1>1. SessionType' /\ EventType' /\ LoopType' /\ FlagType' /\ QueueInv'
  BY <1>0, <1>u
     DEF SessionType, EventType, LoopType, FlagType, QueueInv
<1>2. /\ CoreType' /\ TermInv' /\ SessionInv' /\ GhostInv' /\ ExitInv'
      /\ LabelInv'
  <2>1. Onward /\ faults \subseteq faults'
    BY <1>0, <1>u, StillOnward
  <2>2. /\ term' \in [Panes -> Terminals] /\ label' \in [Panes -> Statuses \cup {None}]
        /\ \A q \in Panes \ {p} : term'[q] = term[q] /\ label'[q] = label[q]
    BY <1>0, <1>u, <1>a DEF CoreType
  <2>3. Fits(p)'
    <3>1. label'[p] = None
      BY <1>0, <1>u, <1>a DEF LabelInv, TermInv, Over, NeedsErrorLabel
    <3> QED
      BY <1>a, <1>b, <3>1, NoneApart DEF Fits, Terminal, Active, Over,
         NeedsErrorLabel, Statuses
  <2> QED
    BY <1>0, <1>u, <2>1, <2>2, <2>3, PanesKeep
<1>3. /\ ClientType' /\ ClientInv'
      /\ \A d \in Clients \ {c} : client'[d] = client[d] /\ client[d].pc \notin Steps
      /\ client'[c].pc = "open" /\ client'[c].pane = p
  <2> DEFINE r == [Idle EXCEPT !.op = "new", !.pc = "open", !.pane = p, !.id = None]
  <2>1. r \in ClientRecords /\ r.pc = "open" /\ r.live /\ r.pane = p
    BY DEF Idle, ClientRecords, Operations, Steps
  <2>2. lock' = c /\ client' = [client EXCEPT ![c] = r]
    BY DEF CreatePane, Take
  <2>3. client'[c] = r
    BY <1>0, <2>2 DEF ClientType
  <2> HIDE DEF r
  <2>4. StepInv(c)'
    BY <1>b, <2>1, <2>3 DEF StepInv, Pane, Terminal
  <2> QED
    BY <1>0, <1>u, <1>a, <2>1, <2>2, <2>3, <2>4, Held DEF Steps
<1>4. OwnerInv' /\ StartInv'
  <2>1. /\ \A q \in Panes \ {p} : term'[q] = term[q]
        /\ term[p].state \notin Active
        /\ \A d \in Clients : client[d].pc \notin Steps
    BY <1>0, <1>a, NoneApart DEF CoreType, Active, ClientInv
  <2> QED
    BY <1>0, <1>u, <1>3, <2>1 DEF OwnerInv, StartInv, Alive, Steps
<1> QED
  BY <1>1, <1>2, <1>3, <1>4 DEF LifecycleInv

(* A pane is reserved.                                                     *)
LEMMA PrepareKeepsInv ==
  ASSUME LifecycleInv, down = "no", NEW c \in Clients, Prepare(c)
  PROVE  LifecycleInv'
<1>0. /\ CoreType /\ SessionType /\ EventType /\ LoopType /\ ClientType /\ FlagType
      /\ TermInv /\ QueueInv /\ SessionInv /\ GhostInv /\ ExitInv /\ LabelInv
      /\ OwnerInv /\ StartInv /\ ClientInv
  BY DEF LifecycleInv
<1>u. UNCHANGED <<session, events, owner, removing, stopping, down, faults>>
  BY DEF Prepare, Continue, coreVars, managerVars, loopVars, clientVars
<1>k. PICK p \in Panes :
        /\ p = client[c].pane
        /\ lock = c /\ client[c].pc = "prepare"
        /\ client[c].live
        /\ Dismissible(p) \/ term[p].state = "empty"
  BY <1>0 DEF Prepare, AtStep, ClientInv, StepInv, Pane
<1>a. /\ term' = [term EXCEPT ![p] = Terminal("starting")] /\ label' = [label EXCEPT ![p] = None]
      /\ Terminal("starting") \in Terminals
  BY <1>k DEF Prepare, SetTerminal, Reserved, Unlabelled, Pane, Terminal, Terminals, States
<1>b. term'[p] = Terminal("starting") /\ label'[p] = None
  BY <1>0, <1>a DEF CoreType
<1>1. SessionType' /\ EventType' /\ LoopType' /\ FlagType' /\ QueueInv'
  BY <1>0, <1>u
     DEF SessionType, EventType, LoopType, FlagType, QueueInv
<1>2. /\ CoreType' /\ TermInv' /\ SessionInv' /\ GhostInv' /\ ExitInv'
      /\ LabelInv'
  <2>1. Onward /\ faults \subseteq faults'
    BY <1>0, <1>u, StillOnward
  <2>2. /\ term' \in [Panes -> Terminals] /\ label' \in [Panes -> Statuses \cup {None}]
        /\ \A q \in Panes \ {p} : term'[q] = term[q] /\ label'[q] = label[q]
    BY <1>0, <1>u, <1>a DEF CoreType
  <2>3. Fits(p)'
    BY <1>a, <1>b, NoneApart DEF Fits, Terminal, Active, Over, NeedsErrorLabel, Statuses
  <2> QED
    BY <1>0, <1>u, <2>1, <2>2, <2>3, PanesKeep
<1>3. /\ ClientType' /\ ClientInv'
      /\ \A d \in Clients \ {c} : client'[d] = client[d] /\ client[d].pc \notin Steps
      /\ client'[c].pc = "open" /\ client'[c].pane = p
  <2> DEFINE r == [client[c] EXCEPT !.pc = "open"]
  <2>1. /\ r \in ClientRecords /\ r.pc \in Steps
        /\ ~ r.live => "cancel" \in faults'
    BY <1>0, <1>u, <1>k DEF Idle, ClientType, ClientRecords, Operations, Steps, ClientInv
  <2>2. lock' = c /\ client' = [client EXCEPT ![c] = r]
    BY <1>k DEF Prepare, Continue
  <2>3. client'[c] = r
    BY <1>0, <2>2 DEF ClientType
  <2>4. r.pc = "open" /\ r.pane = p
    BY <1>0, <1>k DEF Idle, ClientType, ClientRecords
  <2> HIDE DEF r
  <2>5. StepInv(c)'
    BY <1>0, <1>u, <1>k, <1>b, <2>3, <2>4 DEF StepInv, Pane, Terminal
  <2> QED
    BY <1>0, <1>u, <1>k, <2>1, <2>2, <2>3, <2>4, <2>5, Held
<1>4. OwnerInv' /\ StartInv'
  <2>1. /\ \A q \in Panes \ {p} : term'[q] = term[q]
        /\ term[p].state \notin Active
    BY <1>0, <1>k, <1>a DEF CoreType, Active, Dismissible
  <2> QED
    BY <1>0, <1>u, <1>k, <1>3, <2>1 DEF OwnerInv, StartInv, Alive, Steps
<1> QED
  BY <1>1, <1>2, <1>3, <1>4 DEF LifecycleInv

(* A pane is not reserved.                                                 *)
LEMMA PrepareFailsKeepsInv ==
  ASSUME LifecycleInv, down = "no", NEW c \in Clients, PrepareFails(c)
  PROVE  LifecycleInv'
<1>0. /\ CoreType /\ SessionType /\ EventType /\ LoopType /\ ClientType /\ FlagType
      /\ TermInv /\ QueueInv /\ SessionInv /\ GhostInv /\ ExitInv /\ LabelInv
      /\ OwnerInv /\ StartInv /\ ClientInv
  BY DEF LifecycleInv
<1>u. UNCHANGED <<term, session, events, owner, removing, stopping, down>>
  BY DEF PrepareFails, coreVars, managerVars, loopVars, clientVars
<1>k. PICK p \in Panes :
        /\ p = client[c].pane
        /\ lock = c /\ client[c].pc = "prepare"
  BY <1>0 DEF PrepareFails, AtStep, ClientInv, StepInv, Pane
<1>a. /\ \/ label' = label
         \/ /\ label' = [label EXCEPT ![p] = None]
            /\ faults' \cap {"cancel", "refuse"} # {}
      /\ faults \subseteq faults' /\ faults' \subseteq FaultKinds /\ Return(c)
  BY <1>0, <1>k DEF PrepareFails, NoFault, Fault, Unlabelled, Pane, ClientInv, FlagType
<1>1. /\ SessionType' /\ EventType' /\ LoopType' /\ TermInv' /\ QueueInv'
      /\ SessionInv' /\ GhostInv' /\ ExitInv'
  BY <1>0, <1>u
     DEF SessionType, EventType, LoopType, TermInv, QueueInv, SessionInv,
         GhostInv, Alive, ExitInv
<1>2. /\ CoreType' /\ TermInv' /\ SessionInv' /\ GhostInv' /\ ExitInv'
      /\ LabelInv'
  <2>1. Onward
    BY <1>0, <1>u, StillOnward
  <2>2. ASSUME NEW q \in Panes PROVE label'[q] = label[q] \/ Fits(q)'
    <3>1. \/ label'[q] = label[q]
          \/ label'[q] = None /\ faults' \cap {"cancel", "refuse"} # {}
      BY <1>0, <1>a DEF CoreType
    <3>2. CASE label'[q] = None /\ faults' \cap {"cancel", "refuse"} # {}
      <4>1. /\ term[q] \in Terminals /\ term[q].id \in Sessions \cup {None}
            /\ term[q].id # None => session[term[q].id].state # "unused"
        BY <1>0 DEF CoreType, Terminals, SessionInv
      <4> QED
        BY <1>0, <1>u, <3>2, <4>1 DEF Fits, TermInv, GhostInv, ExitInv, Alive
    <3> QED
      BY <3>1, <3>2
  <2>3. /\ term' \in [Panes -> Terminals] /\ label' \in [Panes -> Statuses \cup {None}]
        /\ \A q \in Panes : term'[q] = term[q]
    BY <1>0, <1>u, <1>a DEF CoreType
  <2> QED
    BY <1>0, <1>u, <1>a, <2>1, <2>2, <2>3, PanesKeep
<1>3. /\ ClientType' /\ ClientInv'
      /\ \A d \in Clients \ {c} : client'[d] = client[d] /\ client[d].pc \notin Steps
  BY <1>0, <1>k, <1>a, Returned
<1>4. FlagType'
  BY <1>0, <1>u, <1>a DEF FlagType
<1>5. OwnerInv' /\ StartInv'
  BY <1>0, <1>u, <1>k, <1>a, <1>3 DEF OwnerInv, StartInv, Alive, Steps
<1> QED
  BY <1>1, <1>2, <1>3, <1>4, <1>5 DEF LifecycleInv

(* A process is started.                                                   *)
LEMMA OpenKeepsInv ==
  ASSUME LifecycleInv, down = "no", NEW c \in Clients, NEW s \in Sessions, Open(c, s)
  PROVE  LifecycleInv'
<1>0. /\ CoreType /\ SessionType /\ EventType /\ LoopType /\ ClientType /\ FlagType
      /\ TermInv /\ QueueInv /\ SessionInv /\ GhostInv /\ ExitInv /\ LabelInv
      /\ OwnerInv /\ StartInv /\ ClientInv
  BY DEF LifecycleInv
<1>u. UNCHANGED <<term, label, events, owner, removing, stopping, down, faults>>
  BY DEF Open, coreVars, managerVars, loopVars, clientVars
<1>k. PICK p \in Panes :
        /\ p = client[c].pane
        /\ lock = c /\ client[c].pc = "open"
        /\ term[p].state = "starting"
  BY <1>0 DEF Open, AtStep, ClientInv, StepInv, Pane
<1>a. /\ session[s].state = "unused" /\ session'[s].state = "running"
      /\ \A t \in Sessions \ {s} : session'[t] = session[t]
      /\ \A q \in Panes : term[q].id # s
  BY <1>0 DEF Open, SessionType, SessionRecords, SessionInv
<1>b. \A q \in Panes : /\ term[q].id # None => term[q].id \in Sessions \ {s}
                       /\ term[q].state \in Active => term[q].id # None
  BY <1>0, <1>a DEF CoreType, Terminals, TermInv
<1>1. /\ CoreType' /\ EventType' /\ LoopType' /\ FlagType' /\ TermInv'
      /\ LabelInv'
  BY <1>0, <1>u
     DEF CoreType, EventType, LoopType, FlagType, TermInv, LabelInv
<1>2. SessionType'
  BY <1>0 DEF Open, SessionType, SessionRecords, SessionStates
<1>3. QueueInv'
  <2>1. Published(session'[s].state) = Published(session[s].state)
    BY <1>a DEF Published
  <2>2. \A i \in DOMAIN events : events[i].id \in Sessions
    <3> TAKE i \in DOMAIN events
    <3>1. i \in 1 .. Len(events)
      BY <1>0, LenProperties DEF EventType
    <3>2. events[i] \in Events
      BY <1>0, <3>1, ElementOfSeq DEF EventType
    <3> QED
      BY <3>2 DEF Events
  <2> QED
    BY <1>0, <1>u, <1>a, <2>1, <2>2 DEF QueueInv, Orderly
<1>4. SessionInv'
  BY <1>0, <1>u, <1>a DEF SessionInv, Ended
<1>5. GhostInv'
  BY <1>0, <1>u, <1>a, <1>b DEF GhostInv, Alive
<1>6. ExitInv'
  BY <1>0, <1>u, <1>a, <1>b DEF ExitInv
<1>7. /\ ClientType' /\ ClientInv'
      /\ \A d \in Clients \ {c} : client'[d] = client[d] /\ client[d].pc \notin Steps
      /\ client'[c].pc = "activate" /\ client'[c].pane = p /\ client'[c].id = s
  <2> DEFINE r == [client[c] EXCEPT !.pc = "activate", !.id = s]
  <2>1. /\ r \in ClientRecords /\ r.pc \in Steps
        /\ ~ r.live => "cancel" \in faults'
    BY <1>0, <1>u, <1>k DEF Idle, ClientType, ClientRecords, Operations, Steps, ClientInv
  <2>2. lock' = c /\ client' = [client EXCEPT ![c] = r]
    BY <1>k DEF Open
  <2>3. client'[c] = r
    BY <1>0, <2>2 DEF ClientType
  <2>4. r.pc = "activate" /\ r.pane = p /\ r.id = s
    BY <1>0, <1>k DEF Idle, ClientType, ClientRecords
  <2> HIDE DEF r
  <2>5. StepInv(c)'
    BY <1>0, <1>u, <1>k, <1>a, <2>3, <2>4 DEF StepInv, Pane, Alive
  <2> QED
    BY <1>0, <1>u, <1>k, <2>1, <2>2, <2>3, <2>4, <2>5, Held
<1>8. OwnerInv'
  <2>1. \A t \in Sessions : Alive(t)' => t = s \/ Alive(t)
    BY <1>a DEF Alive
  <2> QED
    BY <1>0, <1>u, <1>k, <1>7, <2>1 DEF OwnerInv, Steps
<1>9. StartInv'
  BY <1>0, <1>u, <1>k, <1>7 DEF StartInv, Steps
<1> QED
  BY <1>1, <1>2, <1>3, <1>4, <1>5, <1>6, <1>7, <1>8, <1>9 DEF LifecycleInv

(* A process is not started.                                               *)
LEMMA OpenFailsKeepsInv ==
  ASSUME LifecycleInv, down = "no", NEW c \in Clients, OpenFails(c)
  PROVE  LifecycleInv'
<1>0. /\ CoreType /\ SessionType /\ EventType /\ LoopType /\ ClientType /\ FlagType
      /\ TermInv /\ QueueInv /\ SessionInv /\ GhostInv /\ ExitInv /\ LabelInv
      /\ OwnerInv /\ StartInv /\ ClientInv
  BY DEF LifecycleInv
<1>u. UNCHANGED <<session, events, owner, removing, stopping, down>>
  BY DEF OpenFails, coreVars, managerVars, loopVars, clientVars
<1>k. PICK p \in Panes :
        /\ p = client[c].pane
        /\ lock = c /\ client[c].pc = "open"
        /\ term[p].state = "starting"
  BY <1>0 DEF OpenFails, AtStep, ClientInv, StepInv, Pane
<1>a. /\ \/ /\ term' = [term EXCEPT ![p] = Failed] /\ label' = [label EXCEPT ![p] = "ptyError"]
         \/ UNCHANGED <<term, label>> /\ "refuse" \in faults'
      /\ faults \subseteq faults' /\ faults' \subseteq FaultKinds /\ Return(c)
  BY <1>0, <1>k DEF OpenFails, NoFault, Fault, StartFailed, SetTerminal, Pane, coreVars, FlagType
<1>b. Failed \in Terminals /\ "ptyError" \in Statuses
  BY DEF Failed, Terminal, Terminals, States, Statuses
<1>1. SessionType' /\ EventType' /\ LoopType' /\ QueueInv'
  BY <1>0, <1>u
     DEF SessionType, EventType, LoopType, QueueInv
<1>2. /\ CoreType' /\ TermInv' /\ SessionInv' /\ GhostInv' /\ ExitInv'
      /\ LabelInv'
  <2>1. Onward
    BY <1>0, <1>u, StillOnward
  <2>2. /\ term' \in [Panes -> Terminals] /\ label' \in [Panes -> Statuses \cup {None}]
        /\ \A q \in Panes : \/ term'[q] = term[q] /\ label'[q] = label[q]
                            \/ term'[q] = Failed /\ label'[q] = "ptyError"
    BY <1>0, <1>a, <1>b DEF CoreType
  <2>3. ASSUME NEW q \in Panes, term'[q] = Failed, label'[q] = "ptyError" PROVE Fits(q)'
    BY <1>b, <2>3, NoneApart DEF Fits, Failed, Terminal, Active, Over, NeedsErrorLabel
  <2> QED
    BY <1>0, <1>u, <1>a, <2>1, <2>2, <2>3, PanesKeep
<1>3. /\ ClientType' /\ ClientInv'
      /\ \A d \in Clients \ {c} : client'[d] = client[d] /\ client[d].pc \notin Steps
  BY <1>0, <1>k, <1>a, Returned
<1>4. FlagType'
  BY <1>0, <1>u, <1>a DEF FlagType
<1>5. OwnerInv' /\ StartInv'
  <2>1. /\ \A q \in Panes \ {p} : term'[q] = term[q]
        /\ term'[p].state = "starting" => "refuse" \in faults'
        /\ term[p].state \notin Active
    BY <1>0, <1>k, <1>a, <1>b DEF CoreType, Active, Failed, Terminal
  <2> QED
    BY <1>0, <1>u, <1>k, <1>a, <1>3, <2>1 DEF OwnerInv, StartInv, Alive, Steps
<1> QED
  BY <1>1, <1>2, <1>3, <1>4, <1>5 DEF LifecycleInv

(* A pane gets its process.                                                *)
LEMMA ActivateKeepsInv ==
  ASSUME LifecycleInv, down = "no", NEW c \in Clients, Activate(c)
  PROVE  LifecycleInv'
<1>0. /\ CoreType /\ SessionType /\ EventType /\ LoopType /\ ClientType /\ FlagType
      /\ TermInv /\ QueueInv /\ SessionInv /\ GhostInv /\ ExitInv /\ LabelInv
      /\ OwnerInv /\ StartInv /\ ClientInv
  BY DEF LifecycleInv
<1>u. UNCHANGED <<label, session, events, removing, stopping, down, faults>>
  BY DEF Activate, coreVars, managerVars, loopVars, clientVars
<1>k. PICK p \in Panes, s \in Sessions :
        /\ p = client[c].pane /\ s = client[c].id
        /\ lock = c /\ client[c].pc = "activate"
        /\ term[p].state = "starting" /\ session[s].state # "unused"
        /\ \A q \in Panes : term[q].id # s
        /\ Alive(s) \/ Has(events, "exited", s)
  BY <1>0 DEF Activate, AtStep, ClientInv, StepInv, Pane
<1>a. /\ term' = [term EXCEPT ![p] = [Terminal("running") EXCEPT !.id = s]]
      /\ owner' = [owner EXCEPT ![s] = p] /\ Return(c)
      /\ [Terminal("running") EXCEPT !.id = s] \in Terminals
  BY <1>k DEF Activate, SetTerminal, Pane, Terminal, Terminals, States
<1>b. /\ term'[p] = [Terminal("running") EXCEPT !.id = s] /\ label'[p] = None
      /\ \A q \in Panes \ {p} : term'[q] = term[q]
  BY <1>0, <1>u, <1>k, <1>a DEF CoreType, LabelInv, TermInv, Over, NeedsErrorLabel
<1>1. SessionType' /\ EventType' /\ FlagType' /\ QueueInv'
  BY <1>0, <1>u
     DEF SessionType, EventType, FlagType, QueueInv
<1>2. /\ CoreType' /\ TermInv' /\ SessionInv' /\ GhostInv' /\ ExitInv'
      /\ LabelInv'
  <2>1. Onward /\ faults \subseteq faults'
    BY <1>0, <1>u, StillOnward
  <2>2. /\ term' \in [Panes -> Terminals] /\ label' \in [Panes -> Statuses \cup {None}]
        /\ \A q \in Panes \ {p} : term'[q] = term[q] /\ label'[q] = label[q]
    BY <1>0, <1>u, <1>a DEF CoreType
  <2>3. Fits(p)'
    BY <1>u, <1>k, <1>a, <1>b, NoneApart
       DEF Fits, Terminal, Active, Over, NeedsErrorLabel, Statuses, Alive
  <2> QED
    BY <1>0, <1>u, <2>1, <2>2, <2>3, PanesKeep
<1>3. LoopType'
  BY <1>0, <1>u, <1>a DEF LoopType
<1>4. /\ ClientType' /\ ClientInv'
      /\ \A d \in Clients \ {c} : client'[d] = client[d] /\ client[d].pc \notin Steps
  BY <1>0, <1>u, <1>k, <1>a, Returned
<1>5. OwnerInv'
  <2>1. /\ term'[p].id = s /\ term'[p].state \in Active /\ owner'[s] = p
        /\ \A t \in Sessions \ {s} : owner'[t] = owner[t]
    BY <1>0, <1>a, <1>b DEF LoopType, Terminal, Active
  <2>2. ASSUME NEW t \in Sessions \ {s}, Alive(t), "kill" \notin faults
        PROVE  \E q \in Panes : term'[q].id = t /\ term'[q].state \in Active /\ owner'[t] = q
    <3>1. ~ \E d \in Clients : client[d].pc = "activate" /\ client[d].id = t
      BY <1>k, <1>4, <2>2 DEF Steps
    <3>2. PICK q \in Panes : term[q].id = t /\ term[q].state \in Active /\ owner[t] = q
      BY <1>0, <2>2, <3>1 DEF OwnerInv
    <3>3. q # p
      BY <1>k, <3>2 DEF Active
    <3> QED
      BY <1>b, <2>1, <2>2, <3>2, <3>3
  <2> QED
    BY <1>u, <2>1, <2>2 DEF OwnerInv, Alive
<1>6. StartInv'
  BY <1>0, <1>u, <1>k, <1>b, <1>4 DEF StartInv, Steps, Terminal
<1> QED
  BY <1>1, <1>2, <1>3, <1>4, <1>5, <1>6 DEF LifecycleInv

(* A pane is closed.                                                       *)
LEMMA DropKeepsInv ==
  ASSUME LifecycleInv, down = "no", NEW c \in Clients, Drop(c)
  PROVE  LifecycleInv'
<1>0. /\ CoreType /\ SessionType /\ EventType /\ LoopType /\ ClientType /\ FlagType
      /\ TermInv /\ QueueInv /\ SessionInv /\ GhostInv /\ ExitInv /\ LabelInv
      /\ OwnerInv /\ StartInv /\ ClientInv
  BY DEF LifecycleInv
<1>u. UNCHANGED <<session, events, owner, removing, stopping, down, faults>>
  BY DEF Drop, coreVars, managerVars, loopVars, clientVars
<1>k. PICK p \in Panes :
        /\ p = client[c].pane
        /\ lock = c /\ client[c].pc = "drop"
        /\ Dismissible(p) \/ term[p].state = "empty"
  BY <1>0 DEF Drop, AtStep, ClientInv, StepInv, Pane
<1>a. /\ \/ ClosePanes({p})
         \/ UNCHANGED <<term, label>>
      /\ Return(c)
  BY <1>k DEF Drop, Pane, coreVars
<1>b. Terminal("closed") \in Terminals
  BY DEF Terminal, Terminals, States
<1>1. SessionType' /\ EventType' /\ LoopType' /\ FlagType' /\ QueueInv'
  BY <1>0, <1>u
     DEF SessionType, EventType, LoopType, FlagType, QueueInv
<1>2. /\ CoreType' /\ TermInv' /\ SessionInv' /\ GhostInv' /\ ExitInv'
      /\ LabelInv'
  <2>1. Onward /\ faults \subseteq faults'
    BY <1>0, <1>u, StillOnward
  <2>2. /\ term' \in [Panes -> Terminals] /\ label' \in [Panes -> Statuses \cup {None}]
        /\ \A q \in Panes : \/ term'[q] = term[q] /\ label'[q] = label[q]
                            \/ term'[q] = Terminal("closed") /\ label'[q] = None
    BY <1>0, <1>a, <1>b DEF CoreType, ClosePanes
  <2>3. ASSUME NEW q \in Panes, term'[q] = Terminal("closed"), label'[q] = None PROVE Fits(q)'
    BY <1>b, <2>3, NoneApart DEF Fits, Terminal, Active, Over, NeedsErrorLabel, Statuses
  <2> QED
    BY <1>0, <1>u, <2>1, <2>2, <2>3, PanesKeep
<1>3. /\ ClientType' /\ ClientInv'
      /\ \A d \in Clients \ {c} : client'[d] = client[d] /\ client[d].pc \notin Steps
  BY <1>0, <1>u, <1>k, <1>a, Returned
<1>4. OwnerInv' /\ StartInv'
  <2>1. /\ \A q \in Panes \ {p} : term'[q] = term[q]
        /\ term'[p].state # "starting" /\ term[p].state \notin Active
    BY <1>0, <1>k, <1>a DEF CoreType, Active, ClosePanes, Dismissible, Terminal
  <2> QED
    BY <1>0, <1>u, <1>k, <1>3, <2>1 DEF OwnerInv, StartInv, Alive, Steps
<1> QED
  BY <1>1, <1>2, <1>3, <1>4 DEF LifecycleInv

(* A terminal begins to stop.                                              *)
LEMMA BeginStopKeepsInv ==
  ASSUME LifecycleInv, down = "no", NEW c \in Clients, NEW p \in Panes,
         NEW op \in {"kill", "stop"}, BeginStop(c, op, p)
  PROVE  LifecycleInv'
<1>0. /\ CoreType /\ SessionType /\ EventType /\ LoopType /\ ClientType /\ FlagType
      /\ TermInv /\ QueueInv /\ SessionInv /\ GhostInv /\ ExitInv /\ LabelInv
      /\ OwnerInv /\ StartInv /\ ClientInv
  BY DEF LifecycleInv
<1>u. UNCHANGED <<label, session, events, owner, removing, stopping, down, faults>>
  BY DEF BeginStop, Take, coreVars, managerVars, loopVars, clientVars
<1>k. /\ term[p].state = "running" /\ term[p] \in Terminals /\ term[p].id \in Sessions
      /\ term[p].exit = None /\ lock = None
  BY <1>0 DEF BeginStop, Take, Waits, CoreType, Terminals, TermInv, Active, Over
<1>a. /\ term' = [term EXCEPT ![p] = [term[p] EXCEPT !.state = "stopping"]]
      /\ [term[p] EXCEPT !.state = "stopping"] \in Terminals
  BY <1>k DEF BeginStop, SetTerminal, Terminals, States
<1>b. /\ term'[p] = [term[p] EXCEPT !.state = "stopping"] /\ label'[p] = None
      /\ \A q \in Panes \ {p} : term'[q] = term[q]
  BY <1>0, <1>u, <1>k, <1>a DEF CoreType, LabelInv
<1>c. /\ term'[p].state = "stopping" /\ term'[p].id = term[p].id /\ term'[p].exit = None
      /\ term'[p].hist = term[p].hist /\ term'[p] \in Terminals
  BY <1>k, <1>a, <1>b DEF Terminals
<1>1. SessionType' /\ EventType' /\ LoopType' /\ FlagType' /\ QueueInv'
  BY <1>0, <1>u
     DEF SessionType, EventType, LoopType, FlagType, QueueInv
<1>2. /\ CoreType' /\ TermInv' /\ SessionInv' /\ GhostInv' /\ ExitInv'
      /\ LabelInv'
  <2>1. Onward /\ faults \subseteq faults'
    BY <1>0, <1>u, StillOnward
  <2>2. /\ term' \in [Panes -> Terminals] /\ label' \in [Panes -> Statuses \cup {None}]
        /\ \A q \in Panes \ {p} : term'[q] = term[q] /\ label'[q] = label[q]
    BY <1>0, <1>u, <1>a DEF CoreType
  <2>3. Fits(p)'
    <3>1. /\ session[term[p].id].state # "unused"
          /\ Alive(term[p].id) \/ Has(events, "exited", term[p].id)
      BY <1>0, <1>k DEF SessionInv, GhostInv, Active
    <3>2. \A q \in Panes : term'[q].id = term'[p].id => q = p
      BY <1>0, <1>k, <1>b, <1>c, NoneApart DEF TermInv
    <3> QED
      BY <1>u, <1>k, <1>b, <1>c, <3>1, <3>2, NoneApart
         DEF Fits, Active, Over, NeedsErrorLabel, Statuses, Alive
  <2> QED
    BY <1>0, <1>u, <2>1, <2>2, <2>3, PanesKeep
<1>3. /\ ClientType' /\ ClientInv'
      /\ \A d \in Clients \ {c} : client'[d] = client[d] /\ client[d].pc \notin Steps
  <2> DEFINE r == [Idle EXCEPT !.op = op, !.pc = "kill", !.pane = p, !.id = term[p].id]
  <2>1. /\ r \in ClientRecords /\ r.pc = "kill" /\ r.live /\ r.pane = p /\ r.id = term[p].id
    BY <1>k DEF Idle, ClientRecords, Operations, Steps
  <2>2. lock' = c /\ client' = [client EXCEPT ![c] = r]
    BY DEF BeginStop, Take
  <2>3. client'[c] = r
    BY <1>0, <2>2 DEF ClientType
  <2> HIDE DEF r
  <2>4. StepInv(c)'
    BY <1>k, <1>c, <2>1, <2>3 DEF StepInv, Pane
  <2> QED
    BY <1>0, <1>u, <1>k, <2>1, <2>2, <2>3, <2>4, Held DEF Steps
<1>4. OwnerInv' /\ StartInv'
  <2>1. \A d \in Clients : client[d].pc \notin Steps
    BY <1>0, <1>k, NoneApart DEF ClientInv
  <2>2. OwnerInv'
    <3>1. \A q \in Panes : /\ term'[q].id = term[q].id
                           /\ term[q].state \in Active => term'[q].state \in Active
      BY <1>b, <1>c DEF Active
    <3>2. \A d \in Clients : client[d].pc # "activate"
      BY <2>1 DEF Steps
    <3> QED
      BY <1>0, <1>u, <3>1, <3>2 DEF OwnerInv, Alive
  <2>3. StartInv'
    BY <1>0, <1>u, <1>b, <1>c, <2>1 DEF StartInv, Steps
  <2> QED
    BY <2>2, <2>3
<1> QED
  BY <1>1, <1>2, <1>3, <1>4 DEF LifecycleInv

(* A stopped terminal gets its exit.                                       *)
LEMMA RecordStoppedKeepsInv ==
  ASSUME LifecycleInv, down = "no", NEW c \in Clients, RecordStopped(c)
  PROVE  LifecycleInv'
<1>0. /\ CoreType /\ SessionType /\ EventType /\ LoopType /\ ClientType /\ FlagType
      /\ TermInv /\ QueueInv /\ SessionInv /\ GhostInv /\ ExitInv /\ LabelInv
      /\ OwnerInv /\ StartInv /\ ClientInv
  BY DEF LifecycleInv
<1>u. UNCHANGED <<label, session, events, owner, removing, stopping, down>>
  BY DEF RecordStopped, coreVars, managerVars, loopVars, clientVars
<1>k. PICK p \in Panes, s \in Sessions :
        /\ p = client[c].pane /\ s = client[c].id
        /\ lock = c /\ client[c].pc = "record"
        /\ term[p].state = "stopping" /\ term[p].id = s
        /\ session[s].state \in {"retained", "gone"}
  BY <1>0 DEF RecordStopped, AtStep, ClientInv, StepInv, Pane
<1>a. /\ \/ session[s].state = "retained" /\ term' = [term EXCEPT ![p] = Recorded(s)]
         \/ term' = term
      /\ faults \subseteq faults' /\ faults' \subseteq FaultKinds /\ Return(c)
  BY <1>0, <1>k DEF RecordStopped, SetTerminal, Pane, NoFault, Fault, FlagType
<1>b. session[s].status \in Statuses /\ term[p].exit = None /\ label[p] = None
  BY <1>0, <1>k, NoneApart DEF SessionType, SessionRecords, SessionInv, Ended, TermInv,
     LabelInv, Over
<1>c. /\ Recorded(s) \in Terminals /\ Recorded(s).state \in Over /\ Recorded(s).id = s
      /\ Recorded(s).exit = session[s].status
      /\ Recorded(s).state = "failed" <=> session[s].status = "ptyError"
  <2>1. CASE session[s].status = "ptyError"
    BY <1>b, <2>1 DEF Recorded, Terminals, States, Over
  <2>2. CASE session[s].status # "ptyError"
    BY <1>b, <2>2 DEF Recorded, Terminals, States, Over
  <2> QED
    BY <2>1, <2>2
<1>1. SessionType' /\ EventType' /\ LoopType' /\ QueueInv'
  BY <1>0, <1>u
     DEF SessionType, EventType, LoopType, QueueInv
<1>2. /\ CoreType' /\ TermInv' /\ SessionInv' /\ GhostInv' /\ ExitInv'
      /\ LabelInv'
  <2>1. Onward
    BY <1>0, <1>u, StillOnward
  <2>2. /\ term' \in [Panes -> Terminals] /\ label' \in [Panes -> Statuses \cup {None}]
        /\ \A q \in Panes \ {p} : term'[q] = term[q] /\ label'[q] = label[q]
    BY <1>0, <1>u, <1>a, <1>c DEF CoreType
  <2>3. CASE session[s].state = "retained" /\ term' = [term EXCEPT ![p] = Recorded(s)]
    <3>1. term'[p] = Recorded(s) /\ label'[p] = None
      BY <1>0, <1>u, <1>b, <2>3 DEF CoreType
    <3>2. Has(events, "exited", s) /\ session[s].state \in Ended
      BY <1>0, <1>k, <2>3 DEF GhostInv, Active, Alive, Ended
    <3>3. \A q \in Panes : term'[q].id = s => q = p
      BY <1>0, <1>k, <2>2, NoneApart DEF TermInv
    <3>4. Fits(p)'
      BY <1>u, <1>b, <1>c, <2>3, <3>1, <3>2, <3>3, NoneApart DEF Fits, Active, Over, Ended
    <3> QED
      BY <1>0, <1>u, <1>a, <2>1, <2>2, <3>4, PanesKeep
  <2>4. CASE term' = term
    BY <1>0, <1>u, <1>a, <2>1, <2>2, <2>4, PanesKeep
  <2> QED
    BY <1>a, <2>3, <2>4
<1>3. /\ ClientType' /\ ClientInv'
      /\ \A d \in Clients \ {c} : client'[d] = client[d] /\ client[d].pc \notin Steps
  BY <1>0, <1>k, <1>a, Returned
<1>4. FlagType'
  BY <1>0, <1>u, <1>a DEF FlagType
<1>5. OwnerInv' /\ StartInv'
  <2>1. /\ \A q \in Panes \ {p} : term'[q] = term[q]
        /\ term'[p].state # "starting" /\ ~ Alive(s)
    BY <1>0, <1>k, <1>a, <1>c DEF CoreType, Alive, Over
  <2> QED
    BY <1>0, <1>u, <1>k, <1>a, <1>3, <2>1 DEF OwnerInv, StartInv, Alive, Steps
<1> QED
  BY <1>1, <1>2, <1>3, <1>4, <1>5 DEF LifecycleInv

(* The daemon is asked to stop.                                            *)
LEMMA DaemonStopKeepsInv ==
  ASSUME LifecycleInv, down = "no", NEW c \in Clients,
         NEW op \in {"daemonStop", "daemonForce"}, DaemonStop(c, op)
  PROVE  LifecycleInv'
<1>0. /\ CoreType /\ SessionType /\ EventType /\ LoopType /\ ClientType /\ FlagType
      /\ TermInv /\ QueueInv /\ SessionInv /\ GhostInv /\ ExitInv /\ LabelInv
      /\ OwnerInv /\ StartInv /\ ClientInv
  BY DEF LifecycleInv
<1>u. UNCHANGED <<term, label, session, events, owner, removing, lock, down, faults>>
  BY DEF DaemonStop, coreVars, managerVars, loopVars, clientVars
<1>a. /\ stopping' = TRUE /\ lock = None
      /\ client' = [client EXCEPT ![c] = [client[c] EXCEPT !.op = op, !.pc = "respond"]]
  BY DEF DaemonStop, Waits
<1>b. /\ client'[c].pc = "respond" /\ client'[c].live = client[c].live
      /\ client'[c] \in ClientRecords
      /\ \A d \in Clients \ {c} : client'[d] = client[d]
  BY <1>0, <1>a DEF ClientType, ClientRecords, Operations
<1>c. \A d \in Clients : client[d].pc \notin Steps
  BY <1>0, <1>a, NoneApart DEF ClientInv
<1>1. /\ CoreType' /\ SessionType' /\ EventType' /\ LoopType' /\ TermInv'
      /\ QueueInv' /\ SessionInv' /\ GhostInv' /\ ExitInv' /\ LabelInv'
  BY <1>0, <1>u
     DEF CoreType, SessionType, EventType, LoopType, TermInv, QueueInv,
         SessionInv, GhostInv, Alive, ExitInv, LabelInv
<1>2. ClientType' /\ FlagType'
  BY <1>0, <1>u, <1>a, <1>b DEF ClientType, FlagType
<1>3. OwnerInv' /\ StartInv'
  BY <1>0, <1>u, <1>b, <1>c DEF OwnerInv, StartInv, Alive, Steps
<1>4. ClientInv'
  <2> SUFFICES ASSUME NEW d \in Clients
               PROVE  client'[d].pc \notin Steps /\ (~ client'[d].live => "cancel" \in faults')
    BY <1>u, <1>a, NoneApart DEF ClientInv
  <2> QED
    BY <1>0, <1>u, <1>b, <1>c DEF ClientInv, Steps
<1> QED
  BY <1>1, <1>2, <1>3, <1>4 DEF LifecycleInv

(* The daemon stops.                                                       *)
LEMMA AfterResponseKeepsInv ==
  ASSUME LifecycleInv, down = "no", NEW c \in Clients, AfterResponse(c)
  PROVE  LifecycleInv'
<1>0. /\ CoreType /\ SessionType /\ EventType /\ LoopType /\ ClientType /\ FlagType
      /\ TermInv /\ QueueInv /\ SessionInv /\ GhostInv /\ ExitInv /\ LabelInv
      /\ OwnerInv /\ StartInv /\ ClientInv
  BY DEF LifecycleInv
<1>u. UNCHANGED <<term, label, session, events, owner, removing, lock, stopping, faults>>
  BY DEF AfterResponse, coreVars, managerVars, loopVars, clientVars
<1>a. /\ down' \in {"force", "stop"} /\ client[c].pc = "respond"
      /\ client' = [client EXCEPT ![c] = Idle]
  BY DEF AfterResponse
<1>b. /\ client'[c] = Idle /\ Idle \in ClientRecords
      /\ \A d \in Clients \ {c} : client'[d] = client[d]
  BY <1>0, <1>a DEF ClientType, ClientRecords, Idle
<1>1. /\ CoreType' /\ SessionType' /\ EventType' /\ LoopType' /\ TermInv'
      /\ QueueInv' /\ SessionInv' /\ ExitInv' /\ LabelInv'
  BY <1>0, <1>u
     DEF CoreType, SessionType, EventType, LoopType, TermInv, QueueInv,
         SessionInv, ExitInv, LabelInv
<1>2. ClientType' /\ FlagType'
  BY <1>0, <1>u, <1>a, <1>b DEF ClientType, FlagType
<1>3. GhostInv'
  BY <1>a DEF GhostInv
<1>4. OwnerInv' /\ StartInv'
  BY <1>0, <1>u, <1>a, <1>b DEF OwnerInv, StartInv, Alive
<1>5. ClientInv'
  <2> SUFFICES ASSUME NEW d \in Clients
               PROVE  /\ client'[d].pc \in Steps <=> lock' = d
                      /\ ~ client'[d].live => "cancel" \in faults'
                      /\ lock' = d => StepInv(d)'
    BY DEF ClientInv
  <2>1. CASE d = c
    BY <1>0, <1>u, <1>a, <1>b, <2>1 DEF ClientInv, Steps, Idle
  <2>2. CASE d # c
    BY <1>0, <1>u, <1>b, <2>2 DEF ClientInv, StepInv, Pane, Alive, Dismissible
  <2> QED
    BY <2>1, <2>2
<1> QED
  BY <1>1, <1>2, <1>3, <1>4, <1>5 DEF LifecycleInv

(* A process is killed.                                                    *)
LEMMA KillKeepsInv ==
  ASSUME LifecycleInv, down = "no", NEW c \in Clients, Kill(c)
  PROVE  LifecycleInv'
<1>0. /\ CoreType /\ SessionType /\ EventType /\ LoopType /\ ClientType /\ FlagType
      /\ TermInv /\ QueueInv /\ SessionInv /\ GhostInv /\ ExitInv /\ LabelInv
      /\ OwnerInv /\ StartInv /\ ClientInv
  BY DEF LifecycleInv
<1>u. UNCHANGED <<term, label, owner, removing, stopping, down, faults>>
  BY DEF Kill, Continue, coreVars, managerVars, loopVars, clientVars
<1>k. PICK p \in Panes, s \in Sessions :
        /\ p = client[c].pane /\ s = client[c].id
        /\ lock = c /\ client[c].pc = "kill"
        /\ term[p].state = "stopping" /\ term[p].id = s
  BY <1>0 DEF Kill, AtStep, ClientInv, StepInv, Pane
<1>a. SessionStep(s, events) /\ session'[s].state = "retained"
  <2>1. Killed(s)
    BY <1>k DEF Kill
  <2> QED
    BY <1>0, <2>1, KilledStep, NoneApart
<1>b. SessionType' /\ EventType' /\ QueueInv' /\ Onward
  BY <1>0, <1>a, StepOnward DEF SessionStep
<1>1. CoreType' /\ LoopType' /\ FlagType' /\ TermInv'
  BY <1>0, <1>u
     DEF CoreType, LoopType, FlagType, TermInv
<1>2. SessionType' /\ EventType' /\ QueueInv'
  BY <1>b
<1>3. SessionInv' /\ GhostInv' /\ ExitInv' /\ LabelInv'
  <2>1. /\ term' \in [Panes -> Terminals] /\ label' \in [Panes -> Statuses \cup {None}]
        /\ faults \subseteq faults'
    BY <1>0, <1>u DEF CoreType
  <2> QED
    BY <1>0, <1>u, <1>b, <2>1, PanesKeep
<1>4. /\ ClientType' /\ ClientInv'
      /\ \A d \in Clients \ {c} : client'[d] = client[d] /\ client[d].pc \notin Steps
  <2> DEFINE r == [client[c] EXCEPT !.pc = IF client[c].op = "kill" THEN "close" ELSE "record"]
  <2>1. /\ lock' = c /\ client' = [client EXCEPT ![c] = r]
    BY <1>k DEF Kill, Continue
  <2>2. /\ r \in ClientRecords /\ r.pc \in {"close", "record"}
        /\ r.live = client[c].live /\ r.pane = p /\ r.id = s
    <3>1. CASE client[c].op = "kill"
      BY <1>0, <1>k, <3>1 DEF ClientType, ClientRecords, Steps
    <3>2. CASE client[c].op # "kill"
      BY <1>0, <1>k, <3>2 DEF ClientType, ClientRecords, Steps
    <3> QED
      BY <3>1, <3>2
  <2> HIDE DEF r
  <2>3. client'[c] = r
    BY <1>0, <2>1 DEF ClientType
  <2>4. StepInv(c)'
    BY <1>u, <1>k, <1>a, <2>2, <2>3 DEF StepInv, Pane
  <2>5. r.pc \in Steps /\ (~ r.live => "cancel" \in faults') /\ faults \subseteq faults'
    BY <1>0, <1>u, <2>2 DEF Steps, ClientInv
  <2> QED
    BY <1>0, <1>k, <2>1, <2>2, <2>4, <2>5, Held
<1>5. OwnerInv' /\ StartInv'
  BY <1>0, <1>u, <1>k, <1>b, <1>4 DEF OwnerInv, StartInv, Onward, Lasting, Steps
<1> QED
  BY <1>1, <1>2, <1>3, <1>4, <1>5 DEF LifecycleInv

(* A process is not killed.                                                *)
LEMMA KillFailsKeepsInv ==
  ASSUME LifecycleInv, down = "no", NEW c \in Clients, KillFails(c)
  PROVE  LifecycleInv'
<1>0. /\ CoreType /\ SessionType /\ EventType /\ LoopType /\ ClientType /\ FlagType
      /\ TermInv /\ QueueInv /\ SessionInv /\ GhostInv /\ ExitInv /\ LabelInv
      /\ OwnerInv /\ StartInv /\ ClientInv
  BY DEF LifecycleInv
<1>u. UNCHANGED <<term, label, events, owner, removing, stopping, down>>
  BY DEF KillFails, coreVars, managerVars, loopVars, clientVars
<1>k. PICK p \in Panes, s \in Sessions :
        /\ p = client[c].pane /\ s = client[c].id
        /\ lock = c /\ client[c].pc = "kill"
        /\ term[p].state = "stopping" /\ term[p].id = s
  BY <1>0 DEF KillFails, AtStep, ClientInv, StepInv, Pane
<1>a. SessionType' /\ QueueInv' /\ Onward
  <2>1. CASE UNCHANGED session
    BY <1>0, <1>u, <2>1, StillOnward DEF SessionType, QueueInv
  <2>2. CASE Alive(s) /\ session' = [session EXCEPT ![s].state = "dying"]
    <3>1. SessionStep(s, events)
      BY <1>0, <1>u, <2>2, DyingStep
    <3> QED
      BY <1>0, <3>1, StepOnward DEF SessionStep
  <2> QED
    BY <1>k, <2>1, <2>2 DEF KillFails
<1>b. faults \subseteq faults' /\ faults' \subseteq FaultKinds /\ Return(c)
  BY <1>0 DEF KillFails, NoFault, Fault, FlagType
<1>1. CoreType' /\ EventType' /\ LoopType' /\ TermInv'
  BY <1>0, <1>u
     DEF CoreType, EventType, LoopType, TermInv
<1>2. SessionType' /\ QueueInv'
  BY <1>a
<1>3. FlagType'
  BY <1>0, <1>u, <1>b DEF FlagType
<1>4. SessionInv' /\ GhostInv' /\ ExitInv' /\ LabelInv'
  <2>1. term' \in [Panes -> Terminals] /\ label' \in [Panes -> Statuses \cup {None}]
    BY <1>0, <1>u DEF CoreType
  <2> QED
    BY <1>0, <1>u, <1>a, <1>b, <2>1, PanesKeep
<1>5. /\ ClientType' /\ ClientInv'
      /\ \A d \in Clients \ {c} : client'[d] = client[d] /\ client[d].pc \notin Steps
  BY <1>0, <1>k, <1>b, Returned
<1>6. OwnerInv' /\ StartInv'
  BY <1>0, <1>u, <1>k, <1>a, <1>b, <1>5 DEF OwnerInv, StartInv, Onward, Lasting, Steps
<1> QED
  BY <1>1, <1>2, <1>3, <1>4, <1>5, <1>6 DEF LifecycleInv

(* A process is abandoned whose pane was not to have it.                   *)
LEMMA AbandonKeepsInv ==
  ASSUME LifecycleInv, down = "no", NEW c \in Clients, Abandon(c)
  PROVE  LifecycleInv'
<1>0. /\ CoreType /\ SessionType /\ EventType /\ LoopType /\ ClientType /\ FlagType
      /\ TermInv /\ QueueInv /\ SessionInv /\ GhostInv /\ ExitInv /\ LabelInv
      /\ OwnerInv /\ StartInv /\ ClientInv
  BY DEF LifecycleInv
<1>u. UNCHANGED <<owner, removing, stopping, down>>
  BY DEF Abandon, coreVars, managerVars, loopVars, clientVars
<1>k. PICK p \in Panes, s \in Sessions :
        /\ p = client[c].pane /\ s = client[c].id
        /\ lock = c /\ client[c].pc = "activate"
        /\ term[p].state = "starting" /\ session[s].state # "unused"
        /\ \A q \in Panes : term[q].id # s
  BY <1>0 DEF Abandon, AtStep, ClientInv, StepInv, Pane
<1>a. /\ term' = [term EXCEPT ![p] = Failed] /\ label' = [label EXCEPT ![p] = "ptyError"]
      /\ faults \subseteq faults' /\ faults' \subseteq FaultKinds /\ Return(c)
  BY <1>0, <1>k DEF Abandon, NoFault, StartFailed, SetTerminal, Pane, FlagType
<1>b. SessionStep(s, events) /\ (Alive(s)' => "kill" \in faults')
  <2>1. CASE KillAndRemove(s)
    <3>1. SessionStep(s, events) /\ session'[s].state = "gone"
      BY <1>0, <1>k, <2>1, AbandonStep, NoneApart
    <3> QED
      BY <3>1 DEF Alive
  <2>2. CASE /\ Alive(s) /\ faults' = faults \cup {"kill"}
             /\ session' = [session EXCEPT ![s].state = "dying"] /\ UNCHANGED events
    BY <1>0, <2>2, DyingStep
  <2> QED
    BY <1>k, <2>1, <2>2 DEF Abandon
<1>c. SessionType' /\ EventType' /\ QueueInv' /\ Onward
  BY <1>0, <1>b, StepOnward DEF SessionStep
<1>d. /\ Failed \in Terminals /\ "ptyError" \in Statuses
      /\ term'[p] = Failed /\ label'[p] = "ptyError"
      /\ \A q \in Panes \ {p} : term'[q] = term[q] /\ label'[q] = label[q]
  BY <1>0, <1>a DEF CoreType, Failed, Terminal, Terminals, States, Statuses
<1>1. LoopType'
  BY <1>0, <1>u
     DEF LoopType
<1>2. SessionType' /\ EventType' /\ QueueInv'
  BY <1>c
<1>3. FlagType'
  BY <1>0, <1>u, <1>a DEF FlagType
<1>4. /\ CoreType' /\ TermInv' /\ SessionInv' /\ GhostInv' /\ ExitInv'
      /\ LabelInv'
  <2>1. term' \in [Panes -> Terminals] /\ label' \in [Panes -> Statuses \cup {None}]
    BY <1>0, <1>a, <1>d DEF CoreType
  <2>2. Fits(p)'
    BY <1>d, NoneApart DEF Fits, Failed, Terminal, Active, Over, NeedsErrorLabel
  <2> QED
    BY <1>0, <1>u, <1>a, <1>c, <1>d, <2>1, <2>2, PanesKeep
<1>5. /\ ClientType' /\ ClientInv'
      /\ \A d \in Clients \ {c} : client'[d] = client[d] /\ client[d].pc \notin Steps
  BY <1>0, <1>k, <1>a, Returned
<1>6. OwnerInv' /\ StartInv'
  <2>1. term[p].state \notin Active /\ term'[p].state # "starting"
    BY <1>k, <1>d DEF Active, Failed, Terminal
  <2>2. OwnerInv'
    <3> SUFFICES ASSUME NEW t \in Sessions, Alive(t), t # s, "kill" \notin faults
                 PROVE  \E q \in Panes : /\ term'[q].id = t /\ term'[q].state \in Active
                                        /\ owner'[t] = q
      BY <1>a, <1>b, <1>c DEF OwnerInv, Onward, Lasting
    <3>1. ~ \E d \in Clients : client[d].pc = "activate" /\ client[d].id = t
      BY <1>k, <1>5 DEF Steps
    <3>2. PICK q \in Panes : term[q].id = t /\ term[q].state \in Active /\ owner[t] = q
      BY <1>0, <3>1 DEF OwnerInv
    <3> QED
      BY <1>u, <1>d, <2>1, <3>2
  <2>3. StartInv'
    BY <1>0, <1>u, <1>k, <1>a, <1>d, <1>5, <2>1 DEF StartInv, Steps
  <2> QED
    BY <2>2, <2>3
<1> QED
  BY <1>1, <1>2, <1>3, <1>4, <1>5, <1>6 DEF LifecycleInv

(* The pane of a killed process is closed.                                 *)
LEMMA CloseKilledKeepsInv ==
  ASSUME LifecycleInv, down = "no", NEW c \in Clients, CloseKilled(c)
  PROVE  LifecycleInv'
<1>0. /\ CoreType /\ SessionType /\ EventType /\ LoopType /\ ClientType /\ FlagType
      /\ TermInv /\ QueueInv /\ SessionInv /\ GhostInv /\ ExitInv /\ LabelInv
      /\ OwnerInv /\ StartInv /\ ClientInv
  BY DEF LifecycleInv
<1>u. UNCHANGED <<removing, stopping, down, faults>>
  BY DEF CloseKilled, coreVars, managerVars, loopVars, clientVars
<1>k. PICK p \in Panes, s \in Sessions :
        /\ p = client[c].pane /\ s = client[c].id
        /\ lock = c /\ client[c].pc = "close"
        /\ term[p].state = "stopping" /\ term[p].id = s
  BY <1>0 DEF CloseKilled, AtStep, ClientInv, StepInv, Pane
<1>a. ClosePanes({p}) /\ Remove(s, events) /\ owner' = [owner EXCEPT ![s] = None] /\ Return(c)
  BY <1>k DEF CloseKilled, Pane
<1>b. SessionStep(s, events) /\ ~ Alive(s)'
  <2>1. events \in Seq(Events) /\ Orderly(events, session)
    BY <1>0 DEF EventType, QueueInv
  <2>2. SessionStep(s, events) /\ session'[s].state = "gone"
    BY <1>0, <1>a, <2>1, RemoveStep, NoneApart
  <2> QED
    BY <2>2 DEF Alive
<1>c. SessionType' /\ EventType' /\ QueueInv' /\ Onward
  BY <1>0, <1>b, StepOnward DEF SessionStep
<1>d. /\ Terminal("closed") \in Terminals
      /\ term'[p] = Terminal("closed") /\ label'[p] = None
      /\ \A q \in Panes \ {p} : term'[q] = term[q] /\ label'[q] = label[q]
  BY <1>0, <1>a DEF ClosePanes, Terminal, Terminals, States
<1>1. FlagType'
  BY <1>0, <1>u
     DEF FlagType
<1>2. SessionType' /\ EventType' /\ QueueInv'
  BY <1>c
<1>3. LoopType'
  BY <1>0, <1>u, <1>a DEF LoopType
<1>4. /\ CoreType' /\ TermInv' /\ SessionInv' /\ GhostInv' /\ ExitInv'
      /\ LabelInv'
  <2>1. /\ term' \in [Panes -> Terminals] /\ label' \in [Panes -> Statuses \cup {None}]
        /\ faults \subseteq faults'
    BY <1>0, <1>u, <1>a, <1>d DEF CoreType, ClosePanes
  <2>2. Fits(p)'
    BY <1>d, NoneApart DEF Fits, Terminal, Active, Over, NeedsErrorLabel, Statuses
  <2> QED
    BY <1>0, <1>u, <1>c, <1>d, <2>1, <2>2, PanesKeep
<1>5. /\ ClientType' /\ ClientInv'
      /\ \A d \in Clients \ {c} : client'[d] = client[d] /\ client[d].pc \notin Steps
  BY <1>0, <1>u, <1>k, <1>a, Returned
<1>6. OwnerInv' /\ StartInv'
  <2>1. OwnerInv'
    <3> SUFFICES ASSUME NEW t \in Sessions, Alive(t), t # s, "kill" \notin faults
                 PROVE  \E q \in Panes : /\ term'[q].id = t /\ term'[q].state \in Active
                                        /\ owner'[t] = q
      BY <1>u, <1>b, <1>c DEF OwnerInv, Onward, Lasting
    <3>1. ~ \E d \in Clients : client[d].pc = "activate" /\ client[d].id = t
      BY <1>k, <1>5 DEF Steps
    <3>2. PICK q \in Panes : term[q].id = t /\ term[q].state \in Active /\ owner[t] = q
      BY <1>0, <3>1 DEF OwnerInv
    <3>3. owner'[t] = owner[t]
      BY <1>0, <1>a DEF LoopType
    <3> QED
      BY <1>k, <1>d, <3>2, <3>3
  <2>2. StartInv'
    BY <1>0, <1>u, <1>k, <1>d, <1>5 DEF StartInv, Steps, Terminal
  <2> QED
    BY <2>1, <2>2
<1> QED
  BY <1>1, <1>2, <1>3, <1>4, <1>5, <1>6 DEF LifecycleInv

(* The session a pane still names is released.                             *)
LEMMA ReleaseTakenKeepsInv ==
  ASSUME LifecycleInv, down = "no", NEW c \in Clients, NEW p \in Panes,
         NEW op \in {"restart", "run", "delete"}, NEW s \in Sessions \cup {None},
         Dismissible(p) \/ term[p].state = "empty",
         Take(c, op, IF op = "delete" THEN "drop" ELSE "prepare", p, None),
         \/ s = None /\ UNCHANGED <<session, events, owner>>
         \/ s \in Sessions /\ Remove(s, events) /\ owner' = [owner EXCEPT ![s] = None],
         UNCHANGED <<term, label, removing, stopping, down, faults>>
  PROVE  LifecycleInv'
<1>0. /\ CoreType /\ SessionType /\ EventType /\ LoopType /\ ClientType /\ FlagType
      /\ TermInv /\ QueueInv /\ SessionInv /\ GhostInv /\ ExitInv /\ LabelInv
      /\ OwnerInv /\ StartInv /\ ClientInv
  BY DEF LifecycleInv
<1>u. UNCHANGED <<term, label, removing, stopping, down, faults>>
  OBVIOUS
<1>a. /\ SessionType' /\ EventType' /\ LoopType' /\ QueueInv' /\ Onward
      /\ \A t \in Sessions : Alive(t)' => owner'[t] = owner[t]
  <2>1. CASE s = None /\ UNCHANGED <<session, events, owner>>
    BY <1>0, <1>u, <2>1, StillOnward DEF SessionType, EventType, QueueInv, LoopType
  <2>2. CASE s \in Sessions /\ Remove(s, events) /\ owner' = [owner EXCEPT ![s] = None]
    <3>1. events \in Seq(Events) /\ Orderly(events, session)
      BY <1>0 DEF EventType, QueueInv
    <3>2. SessionStep(s, events) /\ session'[s].state = "gone"
      BY <1>0, <2>2, <3>1, RemoveStep, NoneApart
    <3>3. SessionType' /\ EventType' /\ QueueInv' /\ Onward
      BY <1>0, <2>2, <3>2, StepOnward DEF SessionStep
    <3>4. LoopType' /\ \A t \in Sessions \ {s} : owner'[t] = owner[t]
      BY <1>0, <1>u, <2>2 DEF LoopType
    <3> QED
      BY <3>2, <3>3, <3>4 DEF Alive
  <2> QED
    BY <2>1, <2>2
<1>1. CoreType' /\ FlagType' /\ TermInv'
  BY <1>0, <1>u
     DEF CoreType, FlagType, TermInv
<1>2. SessionType' /\ EventType' /\ LoopType' /\ QueueInv'
  BY <1>a
<1>3. SessionInv' /\ GhostInv' /\ ExitInv' /\ LabelInv'
  <2>1. /\ term' \in [Panes -> Terminals] /\ label' \in [Panes -> Statuses \cup {None}]
        /\ faults \subseteq faults'
    BY <1>0, <1>u DEF CoreType
  <2> QED
    BY <1>0, <1>u, <1>a, <2>1, PanesKeep
<1>4. /\ ClientType' /\ ClientInv'
      /\ \A d \in Clients \ {c} : client'[d] = client[d] /\ client[d].pc \notin Steps
  <2> DEFINE r == [Idle EXCEPT !.op = op, !.pc = IF op = "delete" THEN "drop" ELSE "prepare",
                               !.pane = p, !.id = None]
  <2>1. /\ r \in ClientRecords /\ r.pc \in {"drop", "prepare"} /\ r.live /\ r.pane = p
    <3>1. CASE op = "delete"
      BY <3>1 DEF Idle, ClientRecords, Operations, Steps
    <3>2. CASE op # "delete"
      BY <3>2 DEF Idle, ClientRecords, Operations, Steps
    <3> QED
      BY <3>1, <3>2
  <2>2. lock = None /\ lock' = c /\ client' = [client EXCEPT ![c] = r]
    BY DEF Take, Waits
  <2>3. client'[c] = r
    BY <1>0, <2>2 DEF ClientType
  <2> HIDE DEF r
  <2>4. StepInv(c)'
    BY <1>u, <2>1, <2>3 DEF StepInv, Pane, Dismissible
  <2> QED
    BY <1>0, <1>u, <2>1, <2>2, <2>3, <2>4, Held DEF Steps
<1>5. OwnerInv' /\ StartInv'
  <2>1. \A d \in Clients : client[d].pc \notin Steps
    BY <1>0, NoneApart DEF ClientInv, Take, Waits
  <2>2. OwnerInv'
    BY <1>0, <1>u, <1>a, <2>1 DEF OwnerInv, Onward, Lasting, Steps
  <2>3. StartInv'
    BY <1>0, <1>u, <2>1 DEF StartInv, Steps
  <2> QED
    BY <2>2, <2>3
<1> QED
  BY <1>1, <1>2, <1>3, <1>4, <1>5 DEF LifecycleInv

(* An old session is released, or the operation ends.                      *)
LEMMA ReleaseOldKeepsInv ==
  ASSUME LifecycleInv, down = "no", NEW c \in Clients, NEW p \in Panes,
         NEW op \in {"restart", "run", "delete"}, ReleaseOld(c, op, p)
  PROVE  LifecycleInv'
<1>1. /\ Dismissible(p) \/ term[p].state = "empty"
      /\ UNCHANGED <<term, label, removing, stopping, down, faults>>
      /\ term[p].id \in Sessions \cup {None}
  BY DEF ReleaseOld, coreVars, LifecycleInv, CoreType, Terminals
<1>2. CASE Reject(c)
  BY <1>2, RejectKeepsInv
<1>3. CASE ~ Reject(c)
  <2>1. /\ Take(c, op, IF op = "delete" THEN "drop" ELSE "prepare", p, None)
        /\ \/ term[p].id = None /\ UNCHANGED <<session, events, owner>>
           \/ /\ term[p].id \in Sessions /\ Remove(term[p].id, events)
              /\ owner' = [owner EXCEPT ![term[p].id] = None]
    BY <1>1, <1>3 DEF ReleaseOld, managerVars
  <2>2. PICK s \in Sessions \cup {None} : s = term[p].id
    BY <1>1
  <2>3. \/ s = None /\ UNCHANGED <<session, events, owner>>
        \/ s \in Sessions /\ Remove(s, events) /\ owner' = [owner EXCEPT ![s] = None]
    BY <2>1, <2>2
  <2> QED
    BY <1>1, <2>1, <2>3, ReleaseTakenKeepsInv
<1> QED
  BY <1>2, <1>3

(* An event changes no pane but the one of its session.                    *)
LEMMA EventTakenKeepsInv ==
  ASSUME LifecycleInv, down = "no", NEW s \in Sessions, NEW kind \in Kinds,
         events # << >>, Head(events) = [kind |-> kind, id |-> s], lock = None,
         UNCHANGED <<session, lock, client, stopping, down, faults>>, events' = Tail(events),
         LoopType', \A t \in Sessions \ {s} : owner'[t] = owner[t],
         term' \in [Panes -> Terminals], label' \in [Panes -> Statuses \cup {None}],
         \A p \in Panes : \/ /\ term[p].id # s /\ term'[p] = term[p] /\ label'[p] = label[p]
                          \/ /\ term[p].id = s /\ term'[p].state \notin Active \cup {"starting"}
                             /\ Fits(p)'
  PROVE  LifecycleInv'
<1>0. /\ CoreType /\ SessionType /\ EventType /\ LoopType /\ ClientType /\ FlagType
      /\ TermInv /\ QueueInv /\ SessionInv /\ GhostInv /\ ExitInv /\ LabelInv
      /\ OwnerInv /\ StartInv /\ ClientInv
  BY DEF LifecycleInv
<1>1. /\ EventType' /\ Orderly(events', session) /\ ~ Alive(s)
      /\ \A k \in Kinds, t \in Sessions \ {s} : Has(events, k, t) => Has(events', k, t)
  <2>1. /\ Tail(events) \in Seq(Events) /\ Orderly(Tail(events), session)
        /\ Rank(kind) <= Published(session[s].state) /\ Rank(kind) \in 1 .. 3
        /\ \A k \in Kinds, t \in Sessions \ {s} : Has(events, k, t) => Has(Tail(events), k, t)
    BY <1>0, TailOrderly, Ranks
  <2>2. ~ Alive(s)
    BY <2>1 DEF Alive, Published
  <2> QED
    BY <2>1, <2>2 DEF EventType
<1>2. SessionType' /\ EventType' /\ LoopType' /\ ClientType' /\ FlagType' /\ QueueInv'
  BY <1>0, <1>1 DEF SessionType, ClientType, FlagType, QueueInv
<1>3. /\ \A t \in Sessions : Lasting(t)
      /\ \A t \in Sessions \ {s} : Telling(t)
  BY <1>0, <1>1 DEF Lasting, Telling, SessionInv, Alive, Kinds
<1>4. CoreType' /\ TermInv' /\ SessionInv' /\ GhostInv' /\ ExitInv' /\ LabelInv'
  <2>1. /\ \A p \in Panes : term[p].id # s /\ term[p].id # None => Telling(term[p].id)
        /\ faults \subseteq faults'
    BY <1>0, <1>3 DEF CoreType, Terminals
  <2> QED
    BY <1>0, <1>3, <2>1, PanesFit
<1>5. \A c \in Clients : client[c].pc \notin Steps
  BY <1>0, NoneApart DEF ClientInv
<1>6. OwnerInv'
  BY <1>0, <1>1, <1>5 DEF OwnerInv, Alive, Steps
<1>7. StartInv'
  BY <1>0, <1>5 DEF StartInv, Steps
<1>8. ClientInv'
  BY <1>0, <1>5, NoneApart DEF ClientInv
<1> QED
  BY <1>2, <1>4, <1>6, <1>7, <1>8 DEF LifecycleInv

(* An exit is handled.                                                     *)
LEMMA ExitedKeepsInv ==
  ASSUME LifecycleInv, down = "no", NEW s \in Sessions,
         events # << >>, Head(events) = [kind |-> "exited", id |-> s], lock = None,
         HandleExited(s), events' = Tail(events), UNCHANGED <<session, lock, client>>
  PROVE  LifecycleInv'
<1>0. /\ CoreType /\ SessionType /\ EventType /\ LoopType /\ ClientType /\ FlagType
      /\ TermInv /\ QueueInv /\ SessionInv /\ GhostInv /\ ExitInv /\ LabelInv
      /\ OwnerInv /\ StartInv /\ ClientInv
  BY DEF LifecycleInv
<1>1. /\ EventType' /\ Orderly(events', session) /\ session[s].state \in Ended
      /\ Has(events, "exited", s) /\ "exited" \in Kinds /\ "removed" \in Kinds
      /\ \A t \in Sessions : Has(events, "removed", t) => Has(events', "removed", t)
      /\ \A t \in Sessions : Has(events', "exited", t) => Has(events, "exited", t)
      /\ \A t \in Sessions \ {s} : Has(events, "exited", t) => Has(events', "exited", t)
  <2>1. /\ Tail(events) \in Seq(Events) /\ Orderly(Tail(events), session)
        /\ Rank("exited") <= Published(session[s].state)
        /\ \A k \in Kinds, t \in Sessions :
              /\ Has(events, k, t) => Has(Tail(events), k, t) \/ (k = "exited" /\ t = s)
              /\ Has(Tail(events), k, t) => Has(events, k, t)
    BY <1>0, TailOrderly
  <2>2. session[s].state \in Ended
    BY <1>0, <2>1 DEF SessionType, SessionRecords, SessionStates, Rank, Published, Ended
  <2>3. Has(events, "exited", s)
    <3>1. 1 \in DOMAIN events /\ events[1] = Head(events)
      BY <1>0, HeadTailProperties, EmptySeq, LenProperties DEF EventType
    <3> QED
      BY <3>1 DEF Has
  <2> QED
    BY <2>1, <2>2, <2>3 DEF EventType, Kinds
<1>2. /\ session[s].status \in Statuses
      /\ session[s].state = "gone" => Has(events', "removed", s)
  BY <1>0, <1>1, NoneApart DEF SessionType, SessionRecords, SessionInv, QueueInv, Orderly
<1>3. CASE ClosePaneOnSuccessfulExit /\ session[s].status = "success"
  <2>1. /\ ClosePanes(PanesWith(s)) /\ removing' = removing \cup {s}
        /\ UNCHANGED <<stopping, down, faults, owner>>
    BY <1>3 DEF HandleExited, Calm, NoFault
  <2>2. Terminal("closed") \in Terminals
    BY DEF Terminal, Terminals, States
  <2>3. /\ term' \in [Panes -> Terminals] /\ label' \in [Panes -> Statuses \cup {None}]
        /\ \A p \in Panes :
             \/ term[p].id # s /\ term'[p] = term[p] /\ label'[p] = label[p]
             \/ term[p].id = s /\ term'[p] = Terminal("closed") /\ label'[p] = None
    BY <1>0, <2>1, <2>2 DEF CoreType, ClosePanes, PanesWith
  <2>4. ASSUME NEW p \in Panes, term'[p] = Terminal("closed"), label'[p] = None
        PROVE  term'[p].state \notin Active \cup {"starting"} /\ Fits(p)'
    BY <2>2, <2>4, NoneApart DEF Fits, Terminal, Active, Over, NeedsErrorLabel, Statuses
  <2>5. LoopType' /\ "exited" \in Kinds
    BY <1>0, <2>1 DEF LoopType, Kinds
  <2> QED
    BY <2>1, <2>3, <2>4, <2>5, EventTakenKeepsInv
<1>4. CASE ~ (ClosePaneOnSuccessfulExit /\ session[s].status = "success")
  <2>0. /\ UNCHANGED <<owner, removing>> /\ LoopType' /\ "exited" \in Kinds
    BY <1>0, <1>4 DEF HandleExited, loopVars, LoopType, Kinds
  <2>1. CASE PanesWith(s) = {} /\ UNCHANGED <<term, label, stopping, down, faults>>
    <3>1. /\ term' \in [Panes -> Terminals] /\ label' \in [Panes -> Statuses \cup {None}]
          /\ \A p \in Panes : term[p].id # s /\ term'[p] = term[p] /\ label'[p] = label[p]
      BY <1>0, <2>1 DEF CoreType, PanesWith
    <3> QED
      BY <2>0, <2>1, <3>1, EventTakenKeepsInv
  <2>2. ASSUME NEW p \in PanesWith(s), SetTerminal(p, [Recorded(s) EXCEPT !.hist = TRUE]),
               label' = IF NeedsErrorLabel(session[s].status)
                        THEN [label EXCEPT ![p] = session[s].status] ELSE label,
               UNCHANGED <<stopping, down, faults>>
        PROVE  LifecycleInv'
    <3> DEFINE r == [Recorded(s) EXCEPT !.hist = TRUE]
    <3>1. /\ r \in Terminals /\ r.state \in Over /\ r.id = s /\ r.exit = session[s].status
          /\ r.state = "failed" <=> session[s].status = "ptyError"
      <4>1. CASE session[s].status = "ptyError"
        BY <1>2, <4>1 DEF Recorded, Terminals, States, Over
      <4>2. CASE session[s].status # "ptyError"
        BY <1>2, <4>2 DEF Recorded, Terminals, States, Over
      <4> QED
        BY <4>1, <4>2
    <3>2. /\ p \in Panes /\ term[p].id = s /\ term' = [term EXCEPT ![p] = r]
          /\ \A q \in Panes \ {p} : term[q].id # s
      BY <1>0, <2>2, NoneApart DEF PanesWith, SetTerminal, TermInv
    <3> HIDE DEF r
    <3>3. /\ term'[p] = r /\ \A q \in Panes \ {p} : term'[q] = term[q]
          /\ term' \in [Panes -> Terminals]
      BY <1>0, <3>1, <3>2 DEF CoreType
    <3>4. /\ label' \in [Panes -> Statuses \cup {None}]
          /\ \A q \in Panes \ {p} : label'[q] = label[q]
          /\ NeedsErrorLabel(session[s].status) => label'[p] = session[s].status
          /\ ~ NeedsErrorLabel(session[s].status) => label'[p] = label[p]
      BY <1>0, <1>2, <2>2, <3>2 DEF CoreType
    <3>5. label[p] # None => label[p] = session[s].status /\ NeedsErrorLabel(label[p])
      BY <1>0, <3>2, NoneApart DEF LabelInv, ExitInv
    <3>6. Fits(p)' /\ term'[p].state \notin Active \cup {"starting"}
      <4>1. \A q \in Panes : term'[q].id = s => q = p
        BY <3>2, <3>3
      <4>2. session[s].state # "unused" /\ session[s].status # None
        BY <1>1, <1>2, NoneApart DEF Ended
      <4> QED
        BY <1>1, <1>2, <3>1, <3>3, <3>4, <3>5, <4>1, <4>2, NoneApart DEF Fits, Active, Over
    <3>7. \A q \in Panes :
            \/ term[q].id # s /\ term'[q] = term[q] /\ label'[q] = label[q]
            \/ term[q].id = s /\ term'[q].state \notin Active \cup {"starting"} /\ Fits(q)'
      BY <3>2, <3>3, <3>4, <3>6
    <3> QED
      BY <2>0, <2>2, <3>3, <3>4, <3>7, EventTakenKeepsInv
  <2>3. CASE /\ UNCHANGED <<term, label>> /\ down' = "refused" /\ stopping' = TRUE
             /\ faults' = faults \cup {"refuse"} /\ "refuse" \in FaultKinds
    <3>1. /\ CoreType' /\ SessionType' /\ EventType' /\ LoopType' /\ ClientType' /\ FlagType'
          /\ TermInv' /\ QueueInv' /\ SessionInv'
      BY <1>0, <1>1, <2>0, <2>3 DEF CoreType, SessionType, LoopType, ClientType, FlagType,
         TermInv, QueueInv, SessionInv
    <3>2. GhostInv'
      BY <2>3 DEF GhostInv
    <3>3. ExitInv'
      BY <1>0, <1>1, <2>3 DEF ExitInv, CoreType, Terminals
    <3>4. LabelInv' /\ StartInv'
      BY <1>0, <2>3 DEF LabelInv, StartInv
    <3>5. OwnerInv'
      BY <1>0, <2>0, <2>3 DEF OwnerInv, Alive
    <3>6. ClientInv'
      BY <1>0, <2>3, NoneApart DEF ClientInv
    <3> QED
      BY <3>1, <3>2, <3>3, <3>4, <3>5, <3>6 DEF LifecycleInv
  <2> QED
    BY <1>4, <2>1, <2>2, <2>3 DEF HandleExited, Recording, Calm, NoFault, Fatal, Fault, coreVars
<1> QED
  BY <1>3, <1>4

(* A retained session is handled.                                          *)
LEMMA RetainedKeepsInv ==
  ASSUME LifecycleInv, down = "no", NEW s \in Sessions,
         events # << >>, Head(events) = [kind |-> "retained", id |-> s], lock = None,
         HandleRetained(s), UNCHANGED <<lock, client>>
  PROVE  LifecycleInv'
<1>0. /\ SessionType /\ SessionInv /\ EventType /\ QueueInv
      /\ removing \subseteq Sessions /\ "retained" \in Kinds
  BY DEF LifecycleInv, LoopType, Kinds
<1>1. /\ Tail(events) \in Seq(Events) /\ Orderly(Tail(events), session)
      /\ Rank("retained") <= Published(session[s].state)
      /\ \A k \in {"exited", "removed"}, t \in Sessions :
           Has(Tail(events), k, t) <=> Has(events, k, t)
  BY <1>0, TailOrderly DEF Kinds
<1>2. session[s].state # "unused"
  BY <1>1 DEF Rank, Published
<1>3. SessionStep(s, Tail(events))
  <2>1. CASE Remove(s, Tail(events))
    BY <1>0, <1>1, <2>1, RemoveStep, NoneApart
  <2>2. CASE events' = Tail(events) /\ UNCHANGED session
    BY <1>0, <1>1, <1>2, <2>2, QuietStep
  <2> QED
    BY <2>1, <2>2 DEF HandleRetained
<1>4. /\ UNCHANGED <<term, label, owner, lock, client, stopping, down, faults>>
      /\ removing' \subseteq Sessions
  BY <1>0 DEF HandleRetained, coreVars, Calm, NoFault
<1> QED
  BY <1>1, <1>3, <1>4, SessionAlone

(* A removed session is handled: no pane shows it as active.               *)
LEMMA RemovedKeepsInv ==
  ASSUME LifecycleInv, down = "no", NEW s \in Sessions,
         events # << >>, Head(events) = [kind |-> "removed", id |-> s], lock = None,
         HandleRemoved(s), events' = Tail(events), UNCHANGED <<session, lock, client>>
  PROVE  LifecycleInv'
<1>0. /\ CoreType /\ SessionType /\ EventType /\ LoopType /\ ClientType /\ FlagType
      /\ TermInv /\ QueueInv /\ SessionInv /\ GhostInv /\ ExitInv /\ LabelInv
      /\ OwnerInv /\ StartInv /\ ClientInv
  BY DEF LifecycleInv
<1>1. /\ session[s].state = "gone" /\ ~ Has(events, "exited", s) /\ "removed" \in Kinds
      /\ EventType'
      /\ \A t \in Sessions : Has(events', "exited", t) <=> Has(events, "exited", t)
  <2>1. /\ Tail(events) \in Seq(Events) /\ Rank("removed") <= Published(session[s].state)
        /\ \A k \in Kinds, t \in Sessions :
              /\ Has(Tail(events), k, t) => Has(events, k, t)
              /\ Has(events, k, t) => Has(Tail(events), k, t) \/ (k = "removed" /\ t = s)
              /\ t = s /\ Rank(k) <= Rank("removed") => ~ Has(Tail(events), k, t)
    BY <1>0, TailOrderly
  <2>2. session[s].state = "gone"
    BY <2>1 DEF Rank, Published
  <2>3. "exited" \in Kinds /\ "removed" \in Kinds /\ Rank("exited") <= Rank("removed")
    BY DEF Kinds, Rank
  <2> QED
    BY <2>1, <2>2, <2>3 DEF EventType
<1>2. \A p \in PanesWith(s) : /\ p \in Panes /\ term[p].state \in Over
                             /\ \A q \in Panes : term[q].id = s => q = p
  BY <1>0, <1>1, NoneApart DEF PanesWith, TermInv, GhostInv, Alive
<1>3. /\ term' = [p \in Panes |-> IF p \in PanesWith(s) THEN Forgotten(p) ELSE term[p]]
      /\ UNCHANGED <<label, stopping, down, faults>>
      /\ removing' = removing \ {s} /\ owner' = [owner EXCEPT ![s] = None]
  BY <1>2 DEF HandleRemoved, Calm, NoFault, Over
<1>4. /\ LoopType' /\ \A t \in Sessions \ {s} : owner'[t] = owner[t]
  BY <1>0, <1>3 DEF LoopType
<1>5. ASSUME NEW p \in PanesWith(s)
      PROVE  /\ Forgotten(p) \in Terminals /\ Forgotten(p).id = None /\ ~ Forgotten(p).hist
             /\ Forgotten(p).state = term[p].state /\ Forgotten(p).exit = term[p].exit
  <2>1. term[p] \in Terminals
    BY <1>0, <1>2 DEF CoreType
  <2> QED
    BY <2>1 DEF Forgotten, Terminals
<1>6. /\ term' \in [Panes -> Terminals] /\ label' \in [Panes -> Statuses \cup {None}]
      /\ \A p \in Panes : term'[p] = IF p \in PanesWith(s) THEN Forgotten(p) ELSE term[p]
  BY <1>0, <1>3, <1>5 DEF CoreType
<1>7. ASSUME NEW p \in PanesWith(s)
      PROVE  Fits(p)' /\ term'[p].state \notin Active \cup {"starting"}
  <2>1. /\ term'[p] = Forgotten(p) /\ p \in Panes /\ term[p].id = s /\ label'[p] = label[p]
        /\ label'[p] \in Statuses \cup {None}
    BY <1>0, <1>2, <1>3, <1>6 DEF PanesWith, CoreType
  <2>2. /\ label[p] # None => label[p] = term[p].exit /\ NeedsErrorLabel(label[p])
        /\ (faults' \cap {"cancel", "refuse"} = {} /\ NeedsErrorLabel(term[p].exit))
             => label[p] # None
    BY <1>0, <1>1, <1>3, <2>1 DEF LabelInv
  <2>3. /\ term[p].exit # None <=> term[p].state \in Over
        /\ term[p].exit = "ptyError" <=> term[p].state = "failed"
    BY <1>0, <2>1 DEF TermInv
  <2> QED
    BY <1>2, <1>5, <2>1, <2>2, <2>3, NoneApart DEF Fits, Active, Over
<1>8. \A p \in Panes :
        \/ term[p].id # s /\ term'[p] = term[p] /\ label'[p] = label[p]
        \/ term[p].id = s /\ term'[p].state \notin Active \cup {"starting"} /\ Fits(p)'
  BY <1>3, <1>6, <1>7 DEF PanesWith
<1> QED
  BY <1>1, <1>3, <1>4, <1>6, <1>8, EventTakenKeepsInv

(* Whatever the manager reports.                                           *)
LEMMA HandleEventKeepsInv ==
  ASSUME LifecycleInv, down = "no", HandleEvent
  PROVE  LifecycleInv'
<1>1. /\ events # << >> /\ lock = None /\ UNCHANGED <<lock, client>>
      /\ Head(events) \in Events
  <2>1. events # << >> /\ lock = None /\ UNCHANGED <<lock, client>>
    BY DEF HandleEvent, clientVars
  <2> QED
    BY <2>1, TailOrderly DEF LifecycleInv
<1>2. PICK s \in Sessions, kind \in Kinds : Head(events) = [kind |-> kind, id |-> s]
  BY <1>1 DEF Events
<1>3. CASE kind = "exited"
  <2>0. Head(events).kind = "exited" /\ Head(events).id = s
    BY <1>2, <1>3
  <2>1. HandleExited(s) /\ events' = Tail(events) /\ UNCHANGED session
    BY <2>0 DEF HandleEvent
  <2> QED
    BY <1>1, <1>2, <1>3, <2>1, ExitedKeepsInv
<1>4. CASE kind = "retained"
  <2>0. Head(events).kind = "retained" /\ Head(events).id = s
    BY <1>2, <1>4
  <2>1. HandleRetained(s)
    BY <2>0 DEF HandleEvent
  <2> QED
    BY <1>1, <1>2, <1>4, <2>1, RetainedKeepsInv
<1>5. CASE kind = "removed"
  <2>0. Head(events).kind = "removed" /\ Head(events).id = s
    BY <1>2, <1>5
  <2>1. HandleRemoved(s) /\ events' = Tail(events) /\ UNCHANGED session
    BY <2>0 DEF HandleEvent
  <2> QED
    BY <1>1, <1>2, <1>5, <2>1, RemovedKeepsInv
<1> QED
  BY <1>3, <1>4, <1>5 DEF Kinds
-----------------------------------------------------------------------------
(* The theorems                                                              *)

(* The invariant holds at the start.                                       *)
LEMMA InitInv == TerminalInit => LifecycleInv
<1> SUFFICES ASSUME TerminalInit PROVE LifecycleInv
  OBVIOUS
<1>1. /\ events = << >> /\ session = [s \in Sessions |-> [state |-> "unused", status |-> None]]
      /\ owner = [s \in Sessions |-> None] /\ removing = {} /\ lock = None
      /\ client = [c \in Clients |-> Idle] /\ stopping = FALSE /\ down = "no" /\ faults = {}
      /\ label = [p \in Panes |-> IF NeedsErrorLabel(term[p].exit) THEN term[p].exit ELSE None]
  BY DEF TerminalInit
<1>2. \A p \in Panes :
        /\ term[p] \in Terminals /\ term[p].id = None /\ ~ term[p].hist
        /\ term[p].state \in {"empty", "placeholder", "absent", "failed"}
        /\ term[p].exit = IF term[p].state = "failed" THEN "ptyError" ELSE None
  <2> SUFFICES ASSUME NEW p \in Panes
               PROVE  /\ term[p] \in Terminals /\ term[p].id = None /\ ~ term[p].hist
                      /\ term[p].state \in {"empty", "placeholder", "absent", "failed"}
                      /\ term[p].exit = IF term[p].state = "failed" THEN "ptyError" ELSE None
    OBVIOUS
  <2>1. term[p] \in {Terminal(state) : state \in (Restored \ {"failed"}) \cup {"absent"}}
                    \cup {Failed : state \in Restored \cap {"failed"}}
    BY DEF TerminalInit
  <2>2. \/ \E state \in {"empty", "placeholder", "absent"} : term[p] = Terminal(state)
        \/ term[p] = Failed
    BY <2>1, TerminalAssumption
  <2>3. CASE \E state \in {"empty", "placeholder", "absent"} : term[p] = Terminal(state)
    BY <2>3 DEF Terminal, Terminals, States
  <2>4. CASE term[p] = Failed
    BY <2>4 DEF Failed, Terminal, Terminals, States, Statuses
  <2> QED
    BY <2>2, <2>3, <2>4
<1>3. CoreType /\ LabelInv
  <2>1. term \in [Panes -> Terminals]
    <3>1. \E S : term \in [Panes -> S]
      BY DEF TerminalInit
    <3> QED
      BY <1>2, <3>1
  <2>2. \A p \in Panes : /\ NeedsErrorLabel(term[p].exit) => label[p] = term[p].exit
                         /\ ~ NeedsErrorLabel(term[p].exit) => label[p] = None
    BY <1>1
  <2>3. /\ "failure" \in Statuses /\ "ptyError" \in Statuses
        /\ label = [p \in Panes |-> label[p]]
    BY <1>1 DEF Statuses
  <2>4. label \in [Panes -> Statuses \cup {None}]
    BY <2>2, <2>3 DEF NeedsErrorLabel
  <2>5. LabelInv
    BY <2>2, NoneApart DEF LabelInv, NeedsErrorLabel, Statuses
  <2> QED
    BY <2>1, <2>4, <2>5 DEF CoreType
<1>4. SessionType /\ EventType /\ LoopType /\ ClientType /\ FlagType
  <2>1. Idle \in ClientRecords /\ [state |-> "unused", status |-> None] \in SessionRecords
    BY DEF SessionRecords, SessionStates, ClientRecords, Idle
  <2>2. events \in Seq(Events)
    BY <1>1
  <2> QED
    BY <1>1, <2>1, <2>2 DEF SessionType, EventType, LoopType, ClientType, FlagType
<1>5. \A s \in Sessions : session[s].state = "unused" /\ ~ Alive(s)
  BY <1>1 DEF Alive
<1>6. TermInv
  BY <1>2, NoneApart DEF TermInv, Active, Over, Statuses
<1>7. QueueInv
  <2>1. \A i \in DOMAIN events : FALSE
    BY <1>1, LenProperties, EmptySeq
  <2> QED
    BY <2>1 DEF QueueInv, Orderly, Has
<1>8. SessionInv /\ ExitInv
  BY <1>2, <1>5, NoneApart DEF SessionInv, ExitInv, Ended
<1>9. GhostInv /\ OwnerInv /\ StartInv
  BY <1>2, <1>5 DEF GhostInv, OwnerInv, StartInv, Active
<1>10. ClientInv
  BY <1>1, NoneApart DEF ClientInv, Idle, Steps
<1> QED
  BY <1>3, <1>4, <1>6, <1>7, <1>8, <1>9, <1>10 DEF LifecycleInv

(* Each step keeps it.                                                     *)
LEMMA NextKeepsInv == LifecycleInv /\ [TerminalNext]_vars => LifecycleInv'
<1>1. ASSUME LifecycleInv, UNCHANGED vars PROVE LifecycleInv'
  <2>1. UNCHANGED <<term, label, session, events, owner, removing, lock, client, stopping,
                    down, faults>>
    BY <1>1 DEF vars, coreVars, managerVars, loopVars, clientVars
  <2>2. /\ CoreType' /\ SessionType' /\ EventType' /\ LoopType' /\ ClientType' /\ FlagType'
        /\ TermInv' /\ QueueInv' /\ SessionInv' /\ GhostInv' /\ ExitInv' /\ LabelInv'
    BY <1>1, <2>1 DEF LifecycleInv, CoreType, SessionType, EventType, LoopType, ClientType,
       FlagType, TermInv, QueueInv, SessionInv, GhostInv, ExitInv, LabelInv, Alive
  <2>3. OwnerInv' /\ StartInv' /\ ClientInv'
    BY <1>1, <2>1 DEF LifecycleInv, OwnerInv, StartInv, ClientInv, StepInv, Pane, Alive,
       Dismissible
  <2> QED
    BY <2>2, <2>3 DEF LifecycleInv
<1>2. ASSUME LifecycleInv, down = "no", NEW c \in Clients, Enter(c) PROVE LifecycleInv'
  <2>1. CASE Reject(c)
    BY <1>2, <2>1, RejectKeepsInv
  <2>2. ASSUME NEW p \in Panes, CreatePane(c, p) PROVE LifecycleInv'
    BY <1>2, <2>2, CreatePaneKeepsInv
  <2>3. ASSUME NEW p \in Panes, NEW op \in {"restart", "run", "delete"}, ReleaseOld(c, op, p)
        PROVE  LifecycleInv'
    BY <1>2, <2>3, ReleaseOldKeepsInv
  <2>4. ASSUME NEW p \in Panes, NEW op \in {"kill", "stop"}, BeginStop(c, op, p)
        PROVE  LifecycleInv'
    BY <1>2, <2>4, BeginStopKeepsInv
  <2>5. ASSUME NEW op \in {"daemonStop", "daemonForce"}, DaemonStop(c, op) PROVE LifecycleInv'
    BY <1>2, <2>5, DaemonStopKeepsInv
  <2> QED
    BY <1>2, <2>1, <2>2, <2>3, <2>4, <2>5 DEF Enter
<1>3. ASSUME LifecycleInv, down = "no", NEW c \in Clients, Advance(c) PROVE LifecycleInv'
  <2>1. CASE Prepare(c)
    BY <1>3, <2>1, PrepareKeepsInv
  <2>2. CASE PrepareFails(c)
    BY <1>3, <2>2, PrepareFailsKeepsInv
  <2>3. ASSUME NEW s \in Sessions, Open(c, s) PROVE LifecycleInv'
    BY <1>3, <2>3, OpenKeepsInv
  <2>4. CASE OpenFails(c)
    BY <1>3, <2>4, OpenFailsKeepsInv
  <2>5. CASE Activate(c)
    BY <1>3, <2>5, ActivateKeepsInv
  <2>6. CASE Abandon(c)
    BY <1>3, <2>6, AbandonKeepsInv
  <2>7. CASE Kill(c)
    BY <1>3, <2>7, KillKeepsInv
  <2>8. CASE KillFails(c)
    BY <1>3, <2>8, KillFailsKeepsInv
  <2>9. CASE CloseKilled(c)
    BY <1>3, <2>9, CloseKilledKeepsInv
  <2>10. CASE RecordStopped(c)
    BY <1>3, <2>10, RecordStoppedKeepsInv
  <2>11. CASE Drop(c)
    BY <1>3, <2>11, DropKeepsInv
  <2>12. CASE AfterResponse(c)
    BY <1>3, <2>12, AfterResponseKeepsInv
  <2> QED
    BY <1>3, <2>1, <2>2, <2>3, <2>4, <2>5, <2>6, <2>7, <2>8, <2>9, <2>10, <2>11, <2>12
       DEF Advance
<1>4. ASSUME LifecycleInv, down = "no", NEW c \in Clients, Begin(c) \/ Cancel(c)
      PROVE  LifecycleInv'
  BY <1>4, BeginKeepsInv, CancelKeepsInv
<1>5. ASSUME LifecycleInv, down = "no", NEW s \in Sessions, Process(s) \/ Retain(s)
      PROVE  LifecycleInv'
  <2>1. ASSUME NEW status \in Endings \cup {"killed"}, Exit(s, status) PROVE LifecycleInv'
    BY <1>5, <2>1, ExitKeepsInv
  <2> QED
    BY <1>5, <2>1, EvictKeepsInv, RetainKeepsInv DEF Process
<1>6. ASSUME LifecycleInv, down = "no", HandleEvent PROVE LifecycleInv'
  BY <1>6, HandleEventKeepsInv
<1> QED
  BY <1>1, <1>2, <1>3, <1>4, <1>5, <1>6 DEF TerminalNext, Stopped

(* What the daemon knows of its panes, its sessions and the events between *)
(* them holds in every state.                                              *)
THEOREM LifecycleInvariantHolds == TerminalSpec => []LifecycleInv
<1> QED
  BY InitInv, NextKeepsInv, PTL DEF TerminalSpec

(* The events that Pending asks for are those of the queue.                *)
LEMMA PendingIsHad ==
  ASSUME EventType, NEW kind \in Kinds, NEW s \in Sessions
  PROVE  Pending(kind, s) <=> Has(events, kind, s)
<1>1. ASSUME NEW i \in DOMAIN events
      PROVE  events[i] = [kind |-> kind, id |-> s] <=> events[i].kind = kind /\ events[i].id = s
  <2>1. i \in 1 .. Len(events)
    BY LenProperties DEF EventType
  <2>2. events[i] \in Events
    BY <2>1, ElementOfSeq DEF EventType
  <2> QED
    BY <2>2 DEF Events
<1> QED
  BY <1>1 DEF Pending, Has

(* Types are as declared, no two panes share a session, and every Terminal *)
(* is one that validTerminal accepts.                                      *)
THEOREM TerminalTypeCorrect == TerminalSpec => []TerminalTypeOK
<1>1. LifecycleInv => TerminalTypeOK
  <2> SUFFICES ASSUME LifecycleInv PROVE TerminalTypeOK
    OBVIOUS
  <2>1. /\ CoreType /\ SessionType /\ EventType /\ LoopType /\ ClientType /\ FlagType /\ TermInv
    BY DEF LifecycleInv
  <2>2. {"idle", "lock", "respond"} \cup Steps =
          {"idle", "lock", "open", "activate", "prepare", "kill", "close", "record", "drop",
           "respond"}
    BY DEF Steps
  <2>3. client \in [Clients ->
          [op : Operations \cup {None},
           pc : {"idle", "lock", "open", "activate", "prepare", "kill", "close", "record",
                 "drop", "respond"},
           pane : Panes \cup {None}, id : Sessions \cup {None}, live : BOOLEAN]]
    BY <2>1, <2>2 DEF ClientType, ClientRecords
  <2> QED
    BY <2>1, <2>3 DEF TerminalTypeOK, CoreType, Terminals, States, SessionType, SessionRecords,
       SessionStates, EventType, Events, Kinds, LoopType, ClientType, FlagType, TermInv,
       Active, Over
<1> QED
  BY <1>1, LifecycleInvariantHolds, PTL

(* Between operations every live process belongs to an active pane, every  *)
(* active pane has a live process or an exit to be handled, only the       *)
(* operation that reserved a pane sees it starting, and no event of the    *)
(* manager takes the daemon down.                                          *)
THEOREM SessionsAreOwned == TerminalSpec => []SessionsOwned
<1>1. LifecycleInv => SessionsOwned
  <2> SUFFICES ASSUME LifecycleInv PROVE SessionsOwned
    OBVIOUS
  <2>0. /\ CoreType /\ SessionType /\ EventType /\ LoopType /\ ClientType /\ FlagType
        /\ TermInv /\ GhostInv /\ OwnerInv /\ StartInv /\ ClientInv
    BY DEF LifecycleInv
  <2>1. lock = None => \A c \in Clients : client[c].pc \notin Steps
    BY <2>0, NoneApart DEF ClientInv
  <2>2. ProcessesOwned
    BY <2>0, <2>1 DEF ProcessesOwned, PanesWith, OwnerInv, Active, Steps
  <2>3. NoGhostTerminal
    <3>1. \A p \in Panes : term[p].state \in Active => term[p].id \in Sessions
      BY <2>0 DEF CoreType, Terminals, TermInv
    <3>2. "exited" \in Kinds
      BY DEF Kinds
    <3> QED
      BY <2>0, <3>1, <3>2, PendingIsHad DEF NoGhostTerminal, GhostInv, Active
  <2>4. StartsSettle
    <3> SUFFICES ASSUME "refuse" \notin faults, NEW p \in Panes, term[p].state = "starting"
                 PROVE  lock # None /\ client[lock].pane = p
      BY DEF StartsSettle
    <3>1. PICK c \in Clients : client[c].pc \in {"open", "activate"} /\ client[c].pane = p
      BY <2>0 DEF StartInv
    <3>2. lock = c
      BY <2>0, <3>1 DEF ClientInv, Steps
    <3> QED
      BY <3>1, <3>2, NoneApart
  <2> QED
    BY <2>0, <2>2, <2>3, <2>4 DEF SessionsOwned, FlagType
<1> QED
  BY <1>1, LifecycleInvariantHolds, PTL

(* The exit a pane tells is the one of its process, its history is there   *)
(* until its removal has been handled, and its error label is that of the  *)
(* exit.                                                                   *)
THEOREM ExitsAreTruthful == TerminalSpec => []ExitsTruthful
<1>1. LifecycleInv => ExitsTruthful
  <2> SUFFICES ASSUME LifecycleInv PROVE ExitsTruthful
    OBVIOUS
  <2>0. CoreType /\ EventType /\ ExitInv /\ LabelInv
    BY DEF LifecycleInv
  <2>1. /\ \A p \in Panes : term[p].id # None => term[p].id \in Sessions
        /\ "exited" \in Kinds /\ "removed" \in Kinds
    BY <2>0 DEF CoreType, Terminals, Kinds
  <2>2. \A p \in Panes : term[p].id # None /\ term[p].exit # None =>
          /\ ~ Alive(term[p].id)
          /\ term[p].exit = session[term[p].id].status
          /\ session[term[p].id].state = "gone" => Pending("removed", term[p].id)
    BY <2>0, <2>1, PendingIsHad DEF ExitInv, Alive, Ended
  <2>3. LabelsTruthful
    BY <2>0, <2>1, PendingIsHad DEF LabelsTruthful, LabelInv
  <2> QED
    BY <2>2, <2>3 DEF ExitsTruthful
<1> QED
  BY <1>1, LifecycleInvariantHolds, PTL
=============================================================================
