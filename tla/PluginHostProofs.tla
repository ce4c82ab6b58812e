-------------------------- MODULE PluginHostProofs --------------------------
(***************************************************************************)
(* That a plugin whose callback was given up does no harm, and that the    *)
(* budget of its terminal queue is exact, for any number of callbacks, any *)
(* sizes of events and any limits.                                         *)
(***************************************************************************)
EXTENDS PluginHost, FiniteSetTheorems, SequenceTheorems, WellFoundedInduction, TLAPS

-----------------------------------------------------------------------------
(* Sums.  Total is a recursive function; what it satisfies is shown by the *)
(* least number for which it would not.                                    *)

(* Every non-empty set of natural numbers has a least element.             *)
LEMMA LeastNumber ==
  ASSUME NEW T, T \subseteq Nat, T # {}
  PROVE  \E n \in T : \A m \in T : n <= m
<1> DEFINE R == OpToRel(<, Nat)
<1>1. IsWellFoundedOn(R, Nat)
  BY NatLessThanWellFounded
<1>2. \A m, n \in Nat : m < n => <<m, n>> \in R
  BY DEF OpToRel
<1> HIDE DEF R
<1>3. PICK n \in T : \A m \in T : ~ (<<m, n>> \in R)
  BY <1>1, WFMin
<1>4. \A m \in T : ~ (m < n)
  BY <1>2, <1>3, Zenon
<1> QED
  BY <1>4

\* f holds the sums of the first elements of s.
IsSum(f, s) ==
  f = [i \in 0 .. Len(s) |-> IF i = 0 THEN 0 ELSE f[i - 1] + s[i]]

\* The same up to the first n elements
SumsUpTo(f, s, n) ==
  /\ f = [i \in 0 .. n |-> f[i]]
  /\ f[0] = 0
  /\ \A i \in 1 .. n : f[i] = f[i - 1] + s[i]

(* There is such a function, so that the recursion defines one.            *)
LEMMA SumsExist ==
  ASSUME NEW s, NEW n \in Nat
  PROVE  \E f : SumsUpTo(f, s, n)
<1> DEFINE Bad == {m \in Nat : ~ \E f : SumsUpTo(f, s, m)}
<1> SUFFICES ASSUME Bad # {} PROVE FALSE
  OBVIOUS
<1>1. PICK m \in Bad : \A k \in Bad : m <= k
  BY LeastNumber
<1>2. CASE m = 0
  <2> DEFINE f == [i \in 0 .. 0 |-> 0]
  <2>1. SumsUpTo(f, s, 0)
    BY DEF SumsUpTo
  <2> QED
    BY <1>2, <2>1
<1>3. CASE m # 0
  <2>1. m \in Nat \ {0} /\ m - 1 \in Nat
    BY <1>3
  <2>2. PICK f : SumsUpTo(f, s, m - 1)
    BY <1>1, <2>1
  <2> DEFINE last == f[m - 1] + s[m]
             g == [i \in 0 .. m |-> IF i = m THEN last ELSE f[i]]
  <2>3. g[m] = last /\ \A i \in 0 .. m - 1 : g[i] = f[i]
    BY <2>1
  <2>4. g = [i \in 0 .. m |-> g[i]]
    OBVIOUS
  <2> HIDE DEF g
  <2>5. f[0] = 0 /\ \A i \in 1 .. m - 1 : f[i] = f[i - 1] + s[i]
    BY <2>2 DEF SumsUpTo
  <2>6. g[0] = 0
    BY <2>1, <2>3, <2>5
  <2>7. ASSUME NEW i \in 1 .. m PROVE g[i] = g[i - 1] + s[i]
    <3>1. CASE i = m
      <4>1. m - 1 \in 0 .. m - 1
        BY <2>1
      <4> QED
        BY <2>3, <3>1, <4>1
    <3>2. CASE i # m
      <4>1. i \in 1 .. m - 1 /\ i \in 0 .. m - 1 /\ i - 1 \in 0 .. m - 1
        BY <2>1, <3>2
      <4> QED
        BY <2>3, <2>5, <4>1
    <3> QED
      BY <3>1, <3>2
  <2>8. SumsUpTo(g, s, m)
    BY <2>4, <2>6, <2>7 DEF SumsUpTo
  <2> QED
    BY <2>8
<1> QED
  BY <1>2, <1>3

(* Total is the last of the sums.                                          *)
LEMMA TotalIsSum ==
  ASSUME NEW s, Len(s) \in Nat
  PROVE  \E f : SumsUpTo(f, s, Len(s)) /\ Total(s) = f[Len(s)]
<1> DEFINE f == CHOOSE g : IsSum(g, s)
<1>1. Total(s) = f[Len(s)]
  BY DEF Total, IsSum
<1>2. PICK h : SumsUpTo(h, s, Len(s))
  BY SumsExist
<1>3. IsSum(h, s)
  BY <1>2, SMT DEF SumsUpTo, IsSum
<1>4. IsSum(f, s)
  BY <1>3, Zenon
<1> HIDE DEF f
<1>5. SumsUpTo(f, s, Len(s))
  BY <1>4, SMT DEF SumsUpTo, IsSum
<1> QED
  BY <1>1, <1>5

(* Sums of natural numbers are natural numbers.                            *)
LEMMA SumsAreNatural ==
  ASSUME NEW s \in Seq(Nat), NEW f, SumsUpTo(f, s, Len(s))
  PROVE  \A i \in 0 .. Len(s) : f[i] \in Nat
<1> DEFINE Bad == {i \in Nat : i <= Len(s) /\ f[i] \notin Nat}
<1> SUFFICES ASSUME Bad # {} PROVE FALSE
  OBVIOUS
<1>1. PICK i \in Bad : \A k \in Bad : i <= k
  BY LeastNumber
<1>2. f[0] = 0 /\ \A k \in 1 .. Len(s) : f[k] = f[k - 1] + s[k]
  BY DEF SumsUpTo
<1>3. i \in 1 .. Len(s) /\ i - 1 \in 0 .. Len(s)
  BY <1>1, <1>2
<1>4. f[i - 1] \in Nat
  BY <1>1, <1>3
<1>5. s[i] \in Nat
  BY <1>3
<1> QED
  BY <1>1, <1>2, <1>3, <1>4, <1>5

(* The total of an empty sequence                                          *)
LEMMA TotalOfNothing == Total(<<>>) = 0
<1>1. PICK f : SumsUpTo(f, <<>>, Len(<<>>)) /\ Total(<<>>) = f[Len(<<>>)]
  BY TotalIsSum
<1> QED
  BY <1>1 DEF SumsUpTo

(* A total of natural numbers is one.                                      *)
LEMMA TotalIsNatural == ASSUME NEW s \in Seq(Nat) PROVE Total(s) \in Nat
<1>1. PICK f : SumsUpTo(f, s, Len(s)) /\ Total(s) = f[Len(s)]
  BY TotalIsSum
<1> QED
  BY <1>1, SumsAreNatural

(* An element that is appended adds itself to the total.                   *)
LEMMA TotalOfAppend ==
  ASSUME NEW s \in Seq(Nat), NEW e \in Nat
  PROVE  Total(Append(s, e)) = Total(s) + e
<1> DEFINE t == Append(s, e)
<1>1. /\ Len(t) = Len(s) + 1 /\ t[Len(t)] = e
      /\ \A i \in 1 .. Len(s) : t[i] = s[i]
  OBVIOUS
<1> HIDE DEF t
<1>2. PICK f : SumsUpTo(f, s, Len(s)) /\ Total(s) = f[Len(s)]
  BY TotalIsSum
<1>3. PICK g : SumsUpTo(g, t, Len(t)) /\ Total(t) = g[Len(t)]
  BY <1>1, TotalIsSum
<1>4. f[0] = 0 /\ \A i \in 1 .. Len(s) : f[i] = f[i - 1] + s[i]
  BY <1>2 DEF SumsUpTo
<1>5. g[0] = 0 /\ \A i \in 1 .. Len(t) : g[i] = g[i - 1] + t[i]
  BY <1>3 DEF SumsUpTo
<1>6. \A i \in 0 .. Len(s) : g[i] = f[i]
  <2> DEFINE Bad == {i \in Nat : i <= Len(s) /\ g[i] # f[i]}
  <2> SUFFICES ASSUME Bad # {} PROVE FALSE
    OBVIOUS
  <2>1. PICK i \in Bad : \A k \in Bad : i <= k
    BY LeastNumber
  <2>2. i \in 1 .. Len(s) /\ i - 1 \in 0 .. Len(s) /\ i \in 1 .. Len(t)
    BY <1>1, <1>4, <1>5, <2>1
  <2>3. g[i - 1] = f[i - 1]
    BY <2>1, <2>2
  <2> QED
    BY <1>1, <1>4, <1>5, <2>1, <2>2, <2>3
<1>7. Len(s) \in 0 .. Len(s) /\ Len(t) \in 1 .. Len(t) /\ Len(t) - 1 = Len(s)
  BY <1>1
<1>8. Total(t) = g[Len(s)] + e
  BY <1>1, <1>3, <1>5, <1>7
<1> QED
  BY <1>2, <1>6, <1>7, <1>8 DEF t

(* The first element and the others make up the total.                     *)
LEMMA TotalOfTail ==
  ASSUME NEW s \in Seq(Nat), s # <<>>
  PROVE  Total(s) = Head(s) + Total(Tail(s))
<1> DEFINE t == Tail(s)
<1>1. /\ t \in Seq(Nat) /\ Len(s) \in Nat \ {0}
      /\ Len(t) = Len(s) - 1 /\ Head(s) = s[1] /\ s[1] \in Nat
      /\ \A i \in 1 .. Len(t) : t[i] = s[i + 1] /\ t[i] \in Nat
  OBVIOUS
<1> HIDE DEF t
<1>2. PICK f : SumsUpTo(f, s, Len(s)) /\ Total(s) = f[Len(s)]
  <2>1. Len(s) \in Nat
    BY <1>1
  <2> QED
    BY <2>1, TotalIsSum, Zenon
<1>3. PICK g : SumsUpTo(g, t, Len(t)) /\ Total(t) = g[Len(t)]
  <2>1. Len(t) \in Nat
    BY <1>1
  <2> QED
    BY <2>1, TotalIsSum, Zenon
<1>4. f[0] = 0 /\ \A i \in 1 .. Len(s) : f[i] = f[i - 1] + s[i]
  BY <1>2 DEF SumsUpTo
<1>5. g[0] = 0 /\ \A i \in 1 .. Len(t) : g[i] = g[i - 1] + t[i]
  BY <1>3 DEF SumsUpTo
<1>6. \A i \in 0 .. Len(t) : g[i] \in Nat
  BY <1>1, <1>3, SumsAreNatural
<1>7. \A i \in 0 .. Len(t) : f[i + 1] = s[1] + g[i]
  <2> DEFINE Bad == {i \in Nat : i <= Len(t) /\ f[i + 1] # s[1] + g[i]}
  <2> SUFFICES ASSUME Bad # {} PROVE FALSE
    OBVIOUS
  <2>1. PICK i \in Bad : \A k \in Bad : i <= k
    BY LeastNumber
  <2>2. CASE i = 0
    <3>1. f[1] = f[0] + s[1]
      <4>1. 1 \in 1 .. Len(s) /\ 1 - 1 = 0
        BY <1>1
      <4> QED
        BY <1>4, <4>1
    <3>2. f[i + 1] = s[1] /\ g[i] = 0
      BY <1>1, <1>4, <1>5, <2>2, <3>1
    <3> QED
      BY <1>1, <2>1, <3>2
  <2>3. CASE i # 0
    <3>1. /\ i \in 1 .. Len(t) /\ i - 1 \in 0 .. Len(t) /\ i \in 0 .. Len(t)
          /\ i + 1 \in 1 .. Len(s) /\ (i + 1) - 1 = i /\ (i - 1) + 1 = i
      BY <1>1, <2>1, <2>3
    <3>2. f[i] = s[1] + g[i - 1]
      BY <2>1, <3>1
    <3>3. f[i + 1] = f[i] + s[i + 1]
      BY <1>4, <3>1
    <3>4. g[i] = g[i - 1] + t[i] /\ t[i] = s[i + 1] /\ t[i] \in Nat
      BY <1>1, <1>5, <3>1
    <3>5. g[i - 1] \in Nat
      BY <1>6, <3>1
    <3> QED
      BY <1>1, <2>1, <3>2, <3>3, <3>4, <3>5
  <2> QED
    BY <2>2, <2>3
<1>8. Len(t) \in 0 .. Len(t) /\ Len(t) + 1 = Len(s)
  BY <1>1
<1> QED
  BY <1>1, <1>2, <1>3, <1>7, <1>8 DEF t

-----------------------------------------------------------------------------
(* The inductive invariant                                                 *)

\* What run has received is released before it does anything else.
BudgetInv ==
  /\ BudgetExact
  /\ pc # "release" => taken = 0

\* run waits for at most one callback, and until the host closes it calls
\* none while another one runs: after a timeout it is on its way out.
CallbackInv ==
  /\ awaited # None => pc \in {"init", "call"}
  /\ pc = "call" => awaited # None
  /\ ~ closing => \A c, d \in Callbacks :
                    callback[c] # "none" /\ callback[d] # "none" => c = d
  /\ ~ closing /\ pc \notin Cleanup =>
       \A c \in Callbacks : callback[c] # "none" => c = awaited

\* Nobody enters labelGate once the plugin is disabled, so that at most the
\* write of its last holder is late.
CleanupInv ==
  /\ pc \in Cleanup => ~ active
  /\ active \/ gate.holder # None => late = 0
  /\ late <= 1
  /\ pc \in {"attentions", "unsubscribe", "done"} /\ late = 0 => ~ label
  /\ pc \in {"unsubscribe", "done"} /\ late = 0 => ~ attention

HostInv == PluginTypeOK /\ BudgetInv /\ CallbackInv /\ CleanupInv
-----------------------------------------------------------------------------
(* One lemma per action                                                    *)

(* The account in numbers                                                  *)
LEMMA Account ==
  ASSUME HostInv
  PROVE  /\ terminal \in Seq(Nat) /\ Total(terminal) \in Nat
         /\ reserved \in Nat /\ taken \in Nat /\ bytes \in Nat
         /\ bytes = Total(terminal) + reserved + taken
         /\ pc # "release" => taken = 0
<1>1. /\ terminal \in Seq(Nat)
      /\ reserved \in Nat /\ taken \in Nat /\ bytes \in Nat
  <2>1. /\ terminal \in Seq(Sizes) /\ reserved \in Sizes \cup {0}
        /\ taken \in Sizes \cup {0} /\ bytes \in 0 .. TerminalQueueBytes
    BY DEF HostInv, PluginTypeOK
  <2>2. Sizes \subseteq Nat
    BY PluginHostAssumption
  <2>3. terminal \in Seq(Nat)
    BY <2>1, <2>2, SeqMonotonic, Zenon
  <2>4. reserved \in Nat /\ taken \in Nat
    BY <2>1, <2>2
  <2>5. bytes \in Nat
    BY <2>1, PluginHostAssumption
  <2> QED
    BY <2>3, <2>4, <2>5
<1> QED
  BY <1>1, TotalIsNatural DEF HostInv, BudgetInv, BudgetExact

(* What does not touch the queue keeps the account.                        *)
LEMMA BudgetFrame ==
  ASSUME HostInv, terminal' = terminal, reserved' = reserved, taken' = taken,
         bytes' = bytes, pc # "release"
  PROVE  BudgetInv'
<1>1. BudgetExact'
  BY DEF HostInv, BudgetInv, BudgetExact
<1>2. pc' # "release" => taken' = 0
  BY DEF HostInv, BudgetInv
<1> QED
  BY <1>1, <1>2 DEF BudgetInv

(* What run does after a callback that failed                              *)
LEMMA AfterFailure ==
  ASSUME HostInv, Failed \/ Leave
  PROVE  /\ active' \in BOOLEAN /\ closing' = closing
         /\ pc' \in {"select", "labels"} /\ awaited' = None
         /\ errors' \in 0 .. ConsecutiveErrorLimit
<1>1. active' = active \/ active' = FALSE
  BY DEF Failed, Leave
<1>2. active \in BOOLEAN /\ errors \in 0 .. ConsecutiveErrorLimit
  BY DEF HostInv, PluginTypeOK
<1>3. closing' = closing /\ pc' \in {"select", "labels"} /\ awaited' = None
  BY DEF Failed, Leave
<1>4. errors' \in 0 .. ConsecutiveErrorLimit
  BY <1>2, PluginHostAssumption DEF Failed, Leave
<1>5. active' \in BOOLEAN
  BY <1>1, <1>2, Zenon
<1> QED
  BY <1>3, <1>4, <1>5

(* and after any callback                                                  *)
LEMMA AfterCallback ==
  ASSUME HostInv, CallbackReturned
  PROVE  /\ active' \in BOOLEAN /\ closing' = closing
         /\ pc' \in {"select", "labels"} /\ awaited' = None
         /\ errors' \in 0 .. ConsecutiveErrorLimit
<1>1. callback[awaited] \in Outcomes
  BY DEF CallbackReturned
<1>2. CASE callback[awaited] = "ok"
  <2>1. errors' = 0 /\ pc' = "select" /\ awaited' = None /\ UNCHANGED <<active, closing>>
    BY <1>2 DEF CallbackReturned
  <2>2. active' \in BOOLEAN
    BY <2>1, Zenon DEF HostInv, PluginTypeOK
  <2> QED
    BY <2>1, <2>2, PluginHostAssumption
<1>3. CASE callback[awaited] = "error"
  <2>1. Failed
    BY <1>3 DEF CallbackReturned
  <2> QED
    BY <2>1, AfterFailure
<1>4. CASE callback[awaited] = "panic"
  <2>1. Leave
    BY <1>4 DEF CallbackReturned
  <2> QED
    BY <2>1, AfterFailure
<1> QED
  BY <1>1, <1>2, <1>3, <1>4 DEF Outcomes

(* The first callback runs alone.                                          *)
LEMMA InitializeKeepsHostInv ==
  ASSUME HostInv, NEW c \in Callbacks, Initialize(c)
  PROVE  HostInv'
<1>1. PluginTypeOK'
  BY PluginHostAssumption
     DEF HostInv, BudgetInv, CallbackInv, PluginTypeOK, Cleanup, Initialize, StartCallback, Free,
         runVars, terminalVars, coreVars
<1>2. BudgetInv'
  <2>1. /\ terminal' = terminal /\ reserved' = reserved /\ taken' = taken /\ bytes' = bytes
        /\ pc # "release"
    BY DEF HostInv, CallbackInv, Initialize, StartCallback, terminalVars, runVars
  <2> QED
    BY <2>1, BudgetFrame
<1>3. CallbackInv'
  BY PluginHostAssumption
     DEF HostInv, PluginTypeOK, CallbackInv, Cleanup, Initialize, StartCallback, Free,
         runVars, terminalVars, coreVars
<1>4. CleanupInv'
  BY DEF HostInv, PluginTypeOK, CleanupInv, CallbackInv, Cleanup, Initialize, StartCallback, Free,
         runVars, terminalVars, coreVars
<1> QED
  BY <1>1, <1>2, <1>3, <1>4 DEF HostInv

(* A callback for an event of Core starts when no other one runs.          *)
LEMMA HandleEventKeepsHostInv ==
  ASSUME HostInv, NEW c \in Callbacks, HandleEvent(c)
  PROVE  HostInv'
<1>1. PluginTypeOK'
  BY PluginHostAssumption
     DEF HostInv, BudgetInv, CallbackInv, PluginTypeOK, Cleanup, HandleEvent, StartCallback, Free,
         runVars, terminalVars, coreVars
<1>2. BudgetInv'
  BY DEF HostInv, PluginTypeOK, BudgetInv, BudgetExact, Cleanup, HandleEvent, StartCallback, Free,
         runVars, terminalVars, coreVars
<1>3. CallbackInv'
  BY PluginHostAssumption
     DEF HostInv, PluginTypeOK, CallbackInv, Cleanup, HandleEvent, StartCallback, Free,
         runVars, terminalVars, coreVars
<1>4. CleanupInv'
  BY DEF HostInv, PluginTypeOK, CleanupInv, CallbackInv, Cleanup, HandleEvent, StartCallback, Free,
         runVars, terminalVars, coreVars
<1> QED
  BY <1>1, <1>2, <1>3, <1>4 DEF HostInv

(* The budget of a terminal event is released before its callback.         *)
LEMMA HandleTerminalEventKeepsHostInv ==
  ASSUME HostInv, NEW c \in Callbacks, HandleTerminalEvent(c)
  PROVE  HostInv'
<1>1. PluginTypeOK'
  <2>1. /\ bytes' = bytes - taken /\ taken' = 0 /\ pc' = "call" /\ awaited' = c
        /\ callback' = [callback EXCEPT ![c] = "running"]
        /\ UNCHANGED <<active, closing, errors, gate, terminal, reserved, stop, coreVars,
                       late>>
    BY DEF HandleTerminalEvent, StartCallback
  <2>2. bytes' \in 0 .. TerminalQueueBytes
    BY <2>1, Account, PluginHostAssumption DEF HostInv, PluginTypeOK
  <2> QED
    BY <2>1, <2>2 DEF HostInv, PluginTypeOK, coreVars
<1>2. BudgetInv'
  <2>1. /\ bytes' = bytes - taken /\ taken' = 0
        /\ terminal' = terminal /\ reserved' = reserved
    BY DEF HandleTerminalEvent
  <2> QED
    BY <2>1, Account DEF BudgetInv, BudgetExact
<1>3. CallbackInv'
  BY PluginHostAssumption
     DEF HostInv, PluginTypeOK, CallbackInv, Cleanup, HandleTerminalEvent, StartCallback, Free,
         runVars, terminalVars, coreVars
<1>4. CleanupInv'
  BY DEF HostInv, PluginTypeOK, CleanupInv, CallbackInv, Cleanup, HandleTerminalEvent, StartCallback, Free,
         runVars, terminalVars, coreVars
<1> QED
  BY <1>1, <1>2, <1>3, <1>4 DEF HostInv

(* A received event is still accounted.                                    *)
LEMMA ReceiveTerminalEventKeepsHostInv ==
  ASSUME HostInv, ReceiveTerminalEvent
  PROVE  HostInv'
<1>1. PluginTypeOK'
  BY PluginHostAssumption
     DEF HostInv, BudgetInv, CallbackInv, PluginTypeOK, Cleanup, ReceiveTerminalEvent,
         runVars, terminalVars, coreVars
<1>2. BudgetInv'
  <2>1. /\ terminal # <<>> /\ terminal' = Tail(terminal) /\ taken' = Head(terminal)
        /\ pc = "select" /\ pc' = "release" /\ bytes' = bytes /\ reserved' = reserved
    BY DEF ReceiveTerminalEvent
  <2>2. Total(terminal) = taken' + Total(terminal')
    BY <2>1, Account, TotalOfTail
  <2>3. Tail(terminal) \in Seq(Nat) /\ Head(terminal) \in Nat
    BY <2>1, Account
  <2>4. taken' \in Nat /\ Total(terminal') \in Nat
    BY <2>1, <2>3, TotalIsNatural
  <2> QED
    BY <2>1, <2>2, <2>4, Account DEF BudgetInv, BudgetExact
<1>3. CallbackInv'
  BY DEF HostInv, PluginTypeOK, CallbackInv, Cleanup, ReceiveTerminalEvent,
         runVars, terminalVars, coreVars
<1>4. CleanupInv'
  BY DEF HostInv, PluginTypeOK, CleanupInv, CallbackInv, Cleanup, ReceiveTerminalEvent,
         runVars, terminalVars, coreVars
<1> QED
  BY <1>1, <1>2, <1>3, <1>4 DEF HostInv

(* The end of the events disables the plugin.                              *)
LEMMA EventsEndedKeepsHostInv ==
  ASSUME HostInv, EventsEnded
  PROVE  HostInv'
<1>1. PluginTypeOK'
  BY PluginHostAssumption
     DEF HostInv, BudgetInv, CallbackInv, PluginTypeOK, Cleanup, EventsEnded, Leave,
         runVars, terminalVars, coreVars
<1>2. BudgetInv'
  BY DEF HostInv, PluginTypeOK, BudgetInv, BudgetExact, Cleanup, EventsEnded, Leave,
         runVars, terminalVars, coreVars
<1>3. CallbackInv'
  BY DEF HostInv, PluginTypeOK, CallbackInv, Cleanup, EventsEnded, Leave,
         runVars, terminalVars, coreVars
<1>4. CleanupInv'
  BY DEF HostInv, PluginTypeOK, CleanupInv, CallbackInv, Cleanup, EventsEnded, Leave,
         runVars, terminalVars, coreVars
<1> QED
  BY <1>1, <1>2, <1>3, <1>4 DEF HostInv

(* So does an error that was left for run, or the end of the host.         *)
LEMMA StoppedKeepsHostInv ==
  ASSUME HostInv, Stopped
  PROVE  HostInv'
<1>1. PluginTypeOK'
  BY PluginHostAssumption
     DEF HostInv, BudgetInv, CallbackInv, PluginTypeOK, Cleanup, Stopped, Leave,
         runVars, terminalVars, coreVars
<1>2. BudgetInv'
  BY DEF HostInv, PluginTypeOK, BudgetInv, BudgetExact, Cleanup, Stopped, Leave,
         runVars, terminalVars, coreVars
<1>3. CallbackInv'
  BY DEF HostInv, PluginTypeOK, CallbackInv, Cleanup, Stopped, Leave,
         runVars, terminalVars, coreVars
<1>4. CleanupInv'
  BY DEF HostInv, PluginTypeOK, CleanupInv, CallbackInv, Cleanup, Stopped, Leave,
         runVars, terminalVars, coreVars
<1> QED
  BY <1>1, <1>2, <1>3, <1>4 DEF HostInv

(* A callback that returns leaves none behind.                             *)
LEMMA CallbackReturnedKeepsHostInv ==
  ASSUME HostInv, CallbackReturned
  PROVE  HostInv'
<1>1. PluginTypeOK'
  <2>1. callback' \in [Callbacks -> {"none", "running"} \cup Outcomes]
    BY DEF HostInv, PluginTypeOK, Outcomes, CallbackReturned
  <2>2. UNCHANGED <<gate, terminalVars, coreVars, late>>
    BY DEF CallbackReturned
  <2>3. /\ active' \in BOOLEAN /\ closing' \in BOOLEAN
        /\ pc' \in {"init", "call", "select", "release"} \cup Cleanup
        /\ awaited' \in Callbacks \cup {None}
        /\ errors' \in 0 .. ConsecutiveErrorLimit
    BY AfterCallback DEF HostInv, PluginTypeOK, Cleanup
  <2> QED
    BY <2>1, <2>2, <2>3 DEF HostInv, PluginTypeOK, terminalVars, coreVars
<1>2. BudgetInv'
  <2>1. UNCHANGED terminalVars /\ pc # "release"
    BY DEF HostInv, CallbackInv, CallbackReturned
  <2> QED
    BY <2>1, BudgetFrame DEF terminalVars
<1>3. CallbackInv'
  BY DEF HostInv, PluginTypeOK, CallbackInv, Cleanup, CallbackReturned, Failed, Leave, Outcomes,
         runVars, terminalVars, coreVars
<1>4. CleanupInv'
  BY DEF HostInv, PluginTypeOK, CleanupInv, CallbackInv, Cleanup, CallbackReturned, Failed, Leave, Outcomes,
         runVars, terminalVars, coreVars
<1> QED
  BY <1>1, <1>2, <1>3, <1>4 DEF HostInv

(* After a timeout the callback goes on, and run leaves.                   *)
LEMMA CallbackTimeoutKeepsHostInv ==
  ASSUME HostInv, CallbackTimeout
  PROVE  HostInv'
<1>1. PluginTypeOK'
  BY PluginHostAssumption
     DEF HostInv, BudgetInv, CallbackInv, PluginTypeOK, Cleanup, CallbackTimeout, AfterTimeout, GiveUp, Leave, Outcomes,
         runVars, terminalVars, coreVars
<1>2. BudgetInv'
  <2>1. /\ terminal' = terminal /\ reserved' = reserved /\ taken' = taken /\ bytes' = bytes
        /\ pc # "release"
    BY DEF HostInv, CallbackInv, CallbackTimeout, AfterTimeout, Leave, terminalVars, runVars
  <2> QED
    BY <2>1, BudgetFrame
<1>3. CallbackInv'
  BY DEF HostInv, PluginTypeOK, CallbackInv, Cleanup, CallbackTimeout, AfterTimeout, GiveUp, Leave, Outcomes,
         runVars, terminalVars, coreVars
<1>4. CleanupInv'
  BY DEF HostInv, PluginTypeOK, CleanupInv, CallbackInv, Cleanup, CallbackTimeout, AfterTimeout, GiveUp, Leave, Outcomes,
         runVars, terminalVars, coreVars
<1> QED
  BY <1>1, <1>2, <1>3, <1>4 DEF HostInv

(* A callback is only cancelled when the host closes.                      *)
LEMMA CallbackCancelledKeepsHostInv ==
  ASSUME HostInv, CallbackCancelled
  PROVE  HostInv'
<1>1. PluginTypeOK'
  <2>0. Failed
    BY DEF CallbackCancelled
  <2>1. callback' \in [Callbacks -> {"none", "running"} \cup Outcomes]
    BY DEF HostInv, PluginTypeOK, Outcomes, CallbackCancelled, GiveUp
  <2>2. UNCHANGED <<gate, terminalVars, coreVars, late>>
    BY DEF CallbackCancelled
  <2>3. /\ active' \in BOOLEAN /\ closing' \in BOOLEAN
        /\ pc' \in {"init", "call", "select", "release"} \cup Cleanup
        /\ awaited' \in Callbacks \cup {None}
        /\ errors' \in 0 .. ConsecutiveErrorLimit
    BY <2>0, AfterFailure DEF HostInv, PluginTypeOK, Cleanup
  <2> QED
    BY <2>1, <2>2, <2>3 DEF HostInv, PluginTypeOK, terminalVars, coreVars
<1>2. BudgetInv'
  <2>1. /\ terminal' = terminal /\ reserved' = reserved /\ taken' = taken /\ bytes' = bytes
        /\ pc # "release"
    BY DEF HostInv, CallbackInv, CallbackCancelled, Failed, Leave, terminalVars, runVars
  <2> QED
    BY <2>1, BudgetFrame
<1>3. CallbackInv'
  BY DEF HostInv, PluginTypeOK, CallbackInv, Cleanup, CallbackCancelled, Failed, GiveUp, Leave, Outcomes,
         runVars, terminalVars, coreVars
<1>4. CleanupInv'
  BY DEF HostInv, PluginTypeOK, CleanupInv, CallbackInv, Cleanup, CallbackCancelled, Failed, GiveUp, Leave, Outcomes,
         runVars, terminalVars, coreVars
<1> QED
  BY <1>1, <1>2, <1>3, <1>4 DEF HostInv

(* The cleanup removes the label, then the attention.                      *)
LEMMA CleanUpKeepsHostInv ==
  ASSUME HostInv, CleanUp
  PROVE  HostInv'
<1>1. PluginTypeOK'
  <2>1. /\ pc' \in Cleanup /\ label' \in BOOLEAN /\ attention' \in BOOLEAN
        /\ UNCHANGED <<active, closing, awaited, errors, callback, gate, terminalVars, late>>
    BY DEF HostInv, PluginTypeOK, Cleanup, CleanUp, RemoveAttentions
  <2>2. pending' \in 0 .. EventQueueCapacity /\ subscribed' \in {"live", "overflow", "closed"}
    BY PluginHostAssumption DEF HostInv, PluginTypeOK, CleanUp, Publish, Silent
  <2> QED
    BY <2>1, <2>2 DEF HostInv, PluginTypeOK, terminalVars
<1>2. BudgetInv'
  BY DEF HostInv, PluginTypeOK, BudgetInv, BudgetExact, Cleanup, CleanUp, RemoveAttentions, Publish, Silent,
         runVars, terminalVars, coreVars
<1>3. CallbackInv'
  BY DEF HostInv, PluginTypeOK, CallbackInv, Cleanup, CleanUp, RemoveAttentions, Publish, Silent,
         runVars, terminalVars, coreVars
<1>4. CleanupInv'
  BY DEF HostInv, PluginTypeOK, CleanupInv, CallbackInv, Cleanup, CleanUp, RemoveAttentions, Publish, Silent,
         runVars, terminalVars, coreVars
<1> QED
  BY <1>1, <1>2, <1>3, <1>4 DEF HostInv

(* Only an active plugin enters the gate.                                  *)
LEMMA EnterGateKeepsHostInv ==
  ASSUME HostInv, NEW c \in Callbacks, NEW write \in Writes, EnterGate(c, write)
  PROVE  HostInv'
<1>1. PluginTypeOK'
  BY PluginHostAssumption
     DEF HostInv, BudgetInv, CallbackInv, PluginTypeOK, Cleanup, EnterGate, ActiveWriter, Writes,
         runVars, terminalVars, coreVars
<1>2. BudgetInv'
  BY DEF HostInv, PluginTypeOK, BudgetInv, BudgetExact, Cleanup, EnterGate, ActiveWriter, Writes,
         runVars, terminalVars, coreVars
<1>3. CallbackInv'
  BY DEF HostInv, PluginTypeOK, CallbackInv, Cleanup, EnterGate, ActiveWriter, Writes,
         runVars, terminalVars, coreVars
<1>4. CleanupInv'
  BY DEF HostInv, PluginTypeOK, CleanupInv, CallbackInv, Cleanup, EnterGate, ActiveWriter, Writes,
         runVars, terminalVars, coreVars
<1> QED
  BY <1>1, <1>2, <1>3, <1>4 DEF HostInv

(* A write that comes late is the last one.                                *)
LEMMA ExecuteKeepsHostInv ==
  ASSUME HostInv, Execute
  PROVE  HostInv'
<1>1. PluginTypeOK'
  BY PluginHostAssumption
     DEF HostInv, BudgetInv, CallbackInv, PluginTypeOK, Cleanup, Execute, LeaveGate, Publish, Silent,
         runVars, terminalVars, coreVars
<1>2. BudgetInv'
  BY DEF HostInv, PluginTypeOK, BudgetInv, BudgetExact, Cleanup, Execute, LeaveGate, Publish, Silent,
         runVars, terminalVars, coreVars
<1>3. CallbackInv'
  BY DEF HostInv, PluginTypeOK, CallbackInv, Cleanup, Execute, LeaveGate, Publish, Silent,
         runVars, terminalVars, coreVars
<1>4. CleanupInv'
  BY DEF HostInv, PluginTypeOK, CleanupInv, CallbackInv, Cleanup, Execute, LeaveGate, Publish, Silent,
         runVars, terminalVars, coreVars
<1> QED
  BY <1>1, <1>2, <1>3, <1>4 DEF HostInv

(* A refused write changes nothing.                                        *)
LEMMA ExecuteRefusedKeepsHostInv ==
  ASSUME HostInv, ExecuteRefused
  PROVE  HostInv'
<1>1. PluginTypeOK'
  BY PluginHostAssumption
     DEF HostInv, BudgetInv, CallbackInv, PluginTypeOK, Cleanup, ExecuteRefused, LeaveGate,
         runVars, terminalVars, coreVars
<1>2. BudgetInv'
  BY DEF HostInv, PluginTypeOK, BudgetInv, BudgetExact, Cleanup, ExecuteRefused, LeaveGate,
         runVars, terminalVars, coreVars
<1>3. CallbackInv'
  BY DEF HostInv, PluginTypeOK, CallbackInv, Cleanup, ExecuteRefused, LeaveGate,
         runVars, terminalVars, coreVars
<1>4. CleanupInv'
  BY DEF HostInv, PluginTypeOK, CleanupInv, CallbackInv, Cleanup, ExecuteRefused, LeaveGate,
         runVars, terminalVars, coreVars
<1> QED
  BY <1>1, <1>2, <1>3, <1>4 DEF HostInv

(* A callback may return at any time.                                      *)
LEMMA ReturnKeepsHostInv ==
  ASSUME HostInv, NEW c \in Callbacks, NEW outcome \in Outcomes, Return(c, outcome)
  PROVE  HostInv'
<1>1. PluginTypeOK'
  BY PluginHostAssumption
     DEF HostInv, BudgetInv, CallbackInv, PluginTypeOK, Cleanup, Return, Outcomes,
         runVars, terminalVars, coreVars
<1>2. BudgetInv'
  BY DEF HostInv, PluginTypeOK, BudgetInv, BudgetExact, Cleanup, Return, Outcomes,
         runVars, terminalVars, coreVars
<1>3. CallbackInv'
  BY DEF HostInv, PluginTypeOK, CallbackInv, Cleanup, Return, Outcomes,
         runVars, terminalVars, coreVars
<1>4. CleanupInv'
  BY DEF HostInv, PluginTypeOK, CleanupInv, CallbackInv, Cleanup, Return, Outcomes,
         runVars, terminalVars, coreVars
<1> QED
  BY <1>1, <1>2, <1>3, <1>4 DEF HostInv

(* A reservation is accounted before the event is queued.                  *)
LEMMA ReserveKeepsHostInv ==
  ASSUME HostInv, NEW size \in Sizes, Reserve(size)
  PROVE  HostInv'
<1>1. PluginTypeOK'
  <2>1. /\ active' \in BOOLEAN /\ stop' \in BOOLEAN
        /\ UNCHANGED <<closing, pc, awaited, errors, callback, gate, terminal, taken,
                       coreVars, late>>
    BY DEF HostInv, PluginTypeOK, Reserve, Overflow, runVars
  <2>2. bytes' \in 0 .. TerminalQueueBytes /\ reserved' \in Sizes \cup {0}
    BY PluginHostAssumption DEF HostInv, PluginTypeOK, Reserve, WithinBudget
  <2> QED
    BY <2>1, <2>2 DEF HostInv, PluginTypeOK, coreVars
<1>2. BudgetInv'
  <2>1. /\ reserved = 0 /\ terminal' = terminal /\ taken' = taken /\ pc' = pc
        /\ \/ bytes' = bytes + size /\ reserved' = size
           \/ bytes' = bytes /\ reserved' = reserved
    BY DEF Reserve, Overflow, runVars
  <2>2. size \in Nat
    BY PluginHostAssumption
  <2> QED
    BY <2>1, <2>2, Account DEF BudgetInv, BudgetExact
<1>3. CallbackInv'
  BY DEF HostInv, PluginTypeOK, CallbackInv, Cleanup, Reserve, WithinBudget, Overflow,
         runVars, terminalVars, coreVars
<1>4. CleanupInv'
  BY DEF HostInv, PluginTypeOK, CleanupInv, CallbackInv, Cleanup, Reserve, WithinBudget, Overflow,
         runVars, terminalVars, coreVars
<1> QED
  BY <1>1, <1>2, <1>3, <1>4 DEF HostInv

(* A reservation is queued, or given back.                                 *)
LEMMA EnqueueKeepsHostInv ==
  ASSUME HostInv, Enqueue
  PROVE  HostInv'
<1>1. PluginTypeOK'
  <2>1. /\ active' \in BOOLEAN /\ stop' \in BOOLEAN /\ reserved' = 0
        /\ UNCHANGED <<closing, pc, awaited, errors, callback, gate, taken, coreVars, late>>
    BY DEF HostInv, PluginTypeOK, Enqueue, Overflow, runVars
  <2>2. bytes' \in 0 .. TerminalQueueBytes
    BY Account, PluginHostAssumption DEF HostInv, PluginTypeOK, Enqueue, Unreserved
  <2>3. terminal' \in Seq(Sizes) /\ Len(terminal') <= TerminalQueueCapacity
    <3>1. terminal \in Seq(Sizes) /\ Len(terminal) <= TerminalQueueCapacity
      BY DEF HostInv, PluginTypeOK
    <3>2. reserved \in Sizes
      BY DEF HostInv, PluginTypeOK, Enqueue
    <3>3. CASE Len(terminal) < TerminalQueueCapacity
      <4>1. terminal' = Append(terminal, reserved)
        BY <3>3 DEF Enqueue
      <4> QED
        BY <3>1, <3>2, <3>3, <4>1, PluginHostAssumption
    <3>4. CASE ~ (Len(terminal) < TerminalQueueCapacity)
      BY <3>1, <3>4 DEF Enqueue
    <3> QED
      BY <3>3, <3>4
  <2> QED
    BY <2>1, <2>2, <2>3 DEF HostInv, PluginTypeOK, coreVars
<1>2. BudgetInv'
  <2>1. /\ reserved' = 0 /\ taken' = taken /\ pc' = pc
        /\ \/ terminal' = Append(terminal, reserved) /\ bytes' = bytes
           \/ terminal' = terminal /\ bytes' = bytes - reserved
    BY DEF Enqueue, Overflow, Unreserved, runVars
  <2>2. Total(Append(terminal, reserved)) = Total(terminal) + reserved
    BY Account, TotalOfAppend
  <2>3. bytes' = Total(terminal') + reserved' + taken'
    <3>1. CASE terminal' = Append(terminal, reserved) /\ bytes' = bytes
      <4>1. Total(terminal') = Total(terminal) + reserved
        BY <2>2, <3>1, Zenon
      <4> QED
        BY <2>1, <3>1, <4>1, Account
    <3>2. CASE terminal' = terminal /\ bytes' = bytes - reserved
      <4>1. Total(terminal') = Total(terminal)
        BY <3>2, Zenon
      <4> QED
        BY <2>1, <3>2, <4>1, Account
    <3> QED
      BY <2>1, <3>1, <3>2
  <2>4. pc' # "release" => taken' = 0
    BY <2>1, Account
  <2> QED
    BY <2>3, <2>4, Zenon DEF BudgetInv, BudgetExact
<1>3. CallbackInv'
  BY DEF HostInv, PluginTypeOK, CallbackInv, Cleanup, Enqueue, Unreserved, Overflow,
         runVars, terminalVars, coreVars
<1>4. CleanupInv'
  BY DEF HostInv, PluginTypeOK, CleanupInv, CallbackInv, Cleanup, Enqueue, Unreserved, Overflow,
         runVars, terminalVars, coreVars
<1> QED
  BY <1>1, <1>2, <1>3, <1>4 DEF HostInv

(* An event of Core changes the subscription alone.                        *)
LEMMA CoreEventKeepsHostInv ==
  ASSUME HostInv, CoreEvent
  PROVE  HostInv'
<1>1. PluginTypeOK'
  BY PluginHostAssumption
     DEF HostInv, BudgetInv, CallbackInv, PluginTypeOK, Cleanup, CoreEvent, Publish,
         runVars, terminalVars, coreVars
<1>2. BudgetInv'
  BY DEF HostInv, PluginTypeOK, BudgetInv, BudgetExact, Cleanup, CoreEvent, Publish,
         runVars, terminalVars, coreVars
<1>3. CallbackInv'
  BY DEF HostInv, PluginTypeOK, CallbackInv, Cleanup, CoreEvent, Publish,
         runVars, terminalVars, coreVars
<1>4. CleanupInv'
  BY DEF HostInv, PluginTypeOK, CleanupInv, CallbackInv, Cleanup, CoreEvent, Publish,
         runVars, terminalVars, coreVars
<1> QED
  BY <1>1, <1>2, <1>3, <1>4 DEF HostInv

(* Closing the host changes nothing but the flag.                          *)
LEMMA CloseKeepsHostInv ==
  ASSUME HostInv, Close
  PROVE  HostInv'
<1>1. PluginTypeOK'
  BY PluginHostAssumption
     DEF HostInv, BudgetInv, CallbackInv, PluginTypeOK, Cleanup, Close,
         runVars, terminalVars, coreVars
<1>2. BudgetInv'
  BY DEF HostInv, PluginTypeOK, BudgetInv, BudgetExact, Cleanup, Close,
         runVars, terminalVars, coreVars
<1>3. CallbackInv'
  BY DEF HostInv, PluginTypeOK, CallbackInv, Cleanup, Close,
         runVars, terminalVars, coreVars
<1>4. CleanupInv'
  BY DEF HostInv, PluginTypeOK, CleanupInv, CallbackInv, Cleanup, Close,
         runVars, terminalVars, coreVars
<1> QED
  BY <1>1, <1>2, <1>3, <1>4 DEF HostInv

(* The subscription ends.                                                  *)
LEMMA CloseSubscriptionKeepsHostInv ==
  ASSUME HostInv, CloseSubscription
  PROVE  HostInv'
<1>1. PluginTypeOK'
  BY PluginHostAssumption
     DEF HostInv, BudgetInv, CallbackInv, PluginTypeOK, Cleanup, CloseSubscription,
         runVars, terminalVars, coreVars
<1>2. BudgetInv'
  BY DEF HostInv, PluginTypeOK, BudgetInv, BudgetExact, Cleanup, CloseSubscription,
         runVars, terminalVars, coreVars
<1>3. CallbackInv'
  BY DEF HostInv, PluginTypeOK, CallbackInv, Cleanup, CloseSubscription,
         runVars, terminalVars, coreVars
<1>4. CleanupInv'
  BY DEF HostInv, PluginTypeOK, CleanupInv, CallbackInv, Cleanup, CloseSubscription,
         runVars, terminalVars, coreVars
<1> QED
  BY <1>1, <1>2, <1>3, <1>4 DEF HostInv

-----------------------------------------------------------------------------
(* The theorems                                                            *)

(* A new plugin has no account, no callback and nothing to clean up.       *)
LEMMA InitHostInv == PluginInit => HostInv
<1> SUFFICES ASSUME PluginInit PROVE HostInv
  OBVIOUS
<1>1. PluginTypeOK
  <2>1. /\ errors \in 0 .. ConsecutiveErrorLimit /\ pending \in 0 .. EventQueueCapacity
        /\ bytes \in 0 .. TerminalQueueBytes /\ late \in Nat
    BY PluginHostAssumption DEF PluginInit
  <2>2. terminal \in Seq(Sizes) /\ Len(terminal) <= TerminalQueueCapacity
    BY PluginHostAssumption DEF PluginInit
  <2>3. /\ callback \in [Callbacks -> {"none", "running"} \cup Outcomes]
        /\ gate \in [holder : Callbacks \cup {None}, write : Writes \cup {None}]
        /\ awaited \in Callbacks \cup {None}
        /\ reserved \in Sizes \cup {0} /\ taken \in Sizes \cup {0}
        /\ pc \in {"init", "call", "select", "release"} \cup Cleanup
        /\ subscribed \in {"live", "overflow", "closed"}
    BY DEF PluginInit
  <2>4. /\ active \in BOOLEAN /\ closing \in BOOLEAN /\ stop \in BOOLEAN
        /\ label \in BOOLEAN /\ attention \in BOOLEAN
    BY DEF PluginInit
  <2> QED
    BY <2>1, <2>2, <2>3, <2>4 DEF PluginTypeOK
<1>2. BudgetInv
  BY TotalOfNothing DEF PluginInit, BudgetInv, BudgetExact
<1>3. CallbackInv
  BY DEF PluginInit, CallbackInv
<1>4. CleanupInv
  BY DEF PluginInit, CleanupInv, Cleanup
<1> QED
  BY <1>1, <1>2, <1>3, <1>4 DEF HostInv

(* Every step keeps the invariant.                                         *)
LEMMA StepKeepsHostInv == HostInv /\ [PluginNext]_vars => HostInv'
<1> SUFFICES ASSUME HostInv, [PluginNext]_vars PROVE HostInv'
  OBVIOUS
<1>1. CASE Run
  <2>1. ASSUME NEW c \in Callbacks, Initialize(c) \/ HandleEvent(c) \/ HandleTerminalEvent(c)
        PROVE  HostInv'
    BY <2>1, InitializeKeepsHostInv, HandleEventKeepsHostInv, HandleTerminalEventKeepsHostInv
  <2> QED
    BY <1>1, <2>1, ReceiveTerminalEventKeepsHostInv, EventsEndedKeepsHostInv,
       StoppedKeepsHostInv, CallbackReturnedKeepsHostInv, CallbackTimeoutKeepsHostInv,
       CallbackCancelledKeepsHostInv, CleanUpKeepsHostInv DEF Run
<1>2. ASSUME NEW c \in Callbacks, NEW write \in Writes, EnterGate(c, write)
      PROVE  HostInv'
  BY <1>2, EnterGateKeepsHostInv
<1>3. ASSUME NEW c \in Callbacks, NEW outcome \in Outcomes, Return(c, outcome)
      PROVE  HostInv'
  BY <1>3, ReturnKeepsHostInv
<1>4. CASE Execute \/ ExecuteRefused
  BY <1>4, ExecuteKeepsHostInv, ExecuteRefusedKeepsHostInv
<1>5. ASSUME NEW size \in Sizes, Reserve(size) PROVE HostInv'
  BY <1>5, ReserveKeepsHostInv
<1>6. CASE Enqueue \/ CoreEvent \/ Close \/ CloseSubscription
  BY <1>6, EnqueueKeepsHostInv, CoreEventKeepsHostInv, CloseKeepsHostInv,
     CloseSubscriptionKeepsHostInv
<1>7. CASE UNCHANGED vars
  <2>1. PluginTypeOK'
    BY <1>7 DEF HostInv, PluginTypeOK, vars, runVars, terminalVars, coreVars
  <2>2. BudgetInv'
    BY <1>7 DEF HostInv, BudgetInv, BudgetExact, vars, runVars, terminalVars
  <2>3. CallbackInv'
    BY <1>7 DEF HostInv, CallbackInv, vars, runVars
  <2>4. CleanupInv'
    BY <1>7 DEF HostInv, CleanupInv, vars, runVars, coreVars
  <2> QED
    BY <2>1, <2>2, <2>3, <2>4 DEF HostInv
<1> QED
  BY <1>1, <1>2, <1>3, <1>4, <1>5, <1>6, <1>7 DEF PluginNext

(* The invariant holds for every number of callbacks and all limits.       *)
THEOREM HostInvariantHolds == PluginSpec => []HostInv
  BY InitHostInv, StepKeepsHostInv, PTL DEF PluginSpec

(* Every variable of the host keeps its type; that of the byte count says  *)
(* that the queue never holds more than its budget.                        *)
THEOREM HostTypeCorrect == PluginSpec => []PluginTypeOK
<1>1. HostInv => PluginTypeOK
  BY DEF HostInv
<1> QED
  BY <1>1, HostInvariantHolds, PTL

(* No path through PublishTerminalEvent and run leaks a part of the budget *)
(* of a terminal queue, whatever the sizes of the events.                  *)
THEOREM BudgetIsExact == PluginSpec => []BudgetExact
<1>1. HostInv => BudgetExact
  BY DEF HostInv, BudgetInv
<1> QED
  BY <1>1, HostInvariantHolds, PTL

(* A callback that was given up neither runs beside the next one while the *)
(* host is open, nor writes more than once after its plugin is disabled,   *)
(* however many callbacks and writes there are (awaitCallback, labelGate). *)
THEOREM GivenUpStaysHarmless == PluginSpec => []GivenUpHarmless
<1>1. HostInv => GivenUpHarmless
  <2> SUFFICES ASSUME HostInv PROVE OneCallbackAtATime /\ CleanedUp
    BY DEF GivenUpHarmless
  <2>1. OneCallbackAtATime
    <3> DEFINE busy == {c \in Callbacks : callback[c] # "none"}
    <3> SUFFICES ASSUME ~ closing PROVE Cardinality(busy) <= 1
      BY DEF OneCallbackAtATime
    <3>1. CASE busy = {}
      BY <3>1, FS_EmptySet
    <3>2. ASSUME NEW c \in busy PROVE Cardinality(busy) <= 1
      <4>1. busy = {c}
        BY DEF HostInv, CallbackInv
      <4> HIDE DEF busy
      <4> QED
        BY <4>1, FS_Singleton
    <3> QED
      BY <3>1, <3>2
  <2>2. CleanedUp
    BY DEF HostInv, CleanupInv, CleanedUp, Cleanup
  <2> QED
    BY <2>1, <2>2
<1> QED
  BY <1>1, HostInvariantHolds, PTL
=============================================================================
