--------------------------- MODULE CoreStateProofs ---------------------------
(***************************************************************************)
(* Proofs about CoreState for every value of its constants: the hierarchy  *)
(* of workspaces, windows and panes survives every sequence of commands,   *)
(* what a frontend looks at stays on the screen, and a restart accepts the *)
(* state; about EventStream, that no frontend misses an event unknowingly; *)
(* and about PluginAPI, that a plugin stays within its grants.             *)
(***************************************************************************)
EXTENDS EventStream, PluginAPI, SequenceTheorems, WellFoundedInduction, TLAPS

(***************************************************************************)
(* What the operators of IdentifierLists do to a list of distinct          *)
(* elements, whatever its length.                                          *)
(***************************************************************************)

\* Inserting a new element at any place adds it and keeps the list distinct.
LEMMA InsertAtFacts ==
  ASSUME NEW S, NEW s \in Seq(S), IsInjective(s), NEW x \in S \ ToSet(s),
         NEW i \in 1 .. (Len(s) + 1)
  PROVE  /\ InsertAt(s, i, x) \in Seq(S)
         /\ IsInjective(InsertAt(s, i, x))
         /\ ToSet(InsertAt(s, i, x)) = ToSet(s) \cup {x}
<1> DEFINE n == Len(s)
           a == SubSeq(s, 1, i - 1)
           b == SubSeq(s, i, n)
           c == a \o <<x>>
           r == c \o b
<1>0. /\ n \in Nat /\ DOMAIN s = 1 .. n /\ i \in 1 .. (n + 1)
      /\ \A j \in 1 .. n : s[j] \in S
  BY LenProperties, ElementOfSeq
<1> HIDE DEF n
<1>1. /\ a \in Seq(S) /\ Len(a) = i - 1
      /\ \A j \in 1 .. (i - 1) : a[j] = s[j]
  <2>1. i - 1 \in Int /\ \A j \in 1 .. (i - 1) : s[j] \in S
    BY <1>0 DEF n
  <2> HIDE DEF a
  <2>2. /\ a \in Seq(S)
        /\ Len(a) = (IF 1 <= i - 1 THEN i - 1 - 1 + 1 ELSE 0)
        /\ \A j \in 1 .. (i - 1 - 1 + 1) : a[j] = s[1 + j - 1]
    BY <2>1, SubSeqProperties DEF a
  <2> QED BY <2>2, <1>0
<1>2. /\ b \in Seq(S) /\ Len(b) = n - i + 1
      /\ \A j \in 1 .. (n - i + 1) : b[j] = s[i + j - 1]
  <2>1. i \in Int /\ n \in Int /\ \A j \in i .. n : s[j] \in S
    BY <1>0 DEF n
  <2> HIDE DEF b
  <2>2. /\ b \in Seq(S)
        /\ Len(b) = (IF i <= n THEN n - i + 1 ELSE 0)
        /\ \A j \in 1 .. (n - i + 1) : b[j] = s[i + j - 1]
    BY <2>1, SubSeqProperties DEF b
  <2> QED BY <2>2, <1>0 DEF n
<1> HIDE DEF a, b
<1>3. /\ c \in Seq(S) /\ Len(c) = i
      /\ \A j \in 1 .. i : c[j] = IF j < i THEN s[j] ELSE x
  <2> DEFINE e == <<x>>
  <2>1. e \in Seq(S) /\ Len(e) = 1 /\ e[1] = x
    OBVIOUS
  <2> HIDE DEF e
  <2>2. /\ a \o e \in Seq(S) /\ Len(a \o e) = Len(a) + Len(e)
        /\ \A j \in 1 .. (Len(a) + Len(e)) :
             (a \o e)[j] = IF j <= Len(a) THEN a[j] ELSE e[j - Len(a)]
    BY <1>1, <2>1, ConcatProperties
  <2>3. ASSUME NEW j \in 1 .. i
        PROVE  (a \o e)[j] = IF j < i THEN s[j] ELSE x
    BY <1>0, <1>1, <2>1, <2>2
  <2> QED BY <2>1, <2>2, <2>3, <1>0, <1>1 DEF e
<1> HIDE DEF c
<1>4. r = InsertAt(s, i, x)
  BY DEF InsertAt, r, c, a, b, n
<1> HIDE DEF r
<1>5. /\ r \in Seq(S) /\ Len(r) = n + 1 /\ DOMAIN r = 1 .. (n + 1)
      /\ \A j \in 1 .. (n + 1) : r[j] = IF j <= i THEN c[j] ELSE b[j - i]
  <2>1. /\ r \in Seq(S) /\ Len(r) = Len(c) + Len(b)
        /\ \A j \in 1 .. (Len(c) + Len(b)) :
             r[j] = IF j <= Len(c) THEN c[j] ELSE b[j - Len(c)]
    BY <1>2, <1>3, ConcatProperties DEF r
  <2>2. Len(c) + Len(b) = n + 1
    BY <1>0, <1>2, <1>3
  <2> QED BY <2>1, <2>2, <1>3, LenProperties
<1>6. ASSUME NEW j \in 1 .. (n + 1)
      PROVE  r[j] = IF j < i THEN s[j] ELSE IF j = i THEN x ELSE s[j - 1]
  <2>1. CASE j <= i
    BY <2>1, <1>0, <1>3, <1>5
  <2>2. CASE j > i
    <3>1. j - i \in 1 .. (n - i + 1) /\ i + (j - i) - 1 = j - 1
      BY <2>2, <1>0
    <3>2. r[j] = b[j - i]
      BY <2>2, <1>0, <1>5
    <3> QED BY <2>2, <3>1, <3>2, <1>2
  <2> QED BY <2>1, <2>2, <1>0
<1>7. \A j \in 1 .. n : s[j] # x
  BY <1>0 DEF ToSet
<1>8. IsInjective(r)
  <2> SUFFICES ASSUME NEW j \in 1 .. (n + 1), NEW k \in 1 .. (n + 1), r[j] = r[k]
               PROVE  j = k
    BY <1>5 DEF IsInjective
  <2>1. \A j1, k1 \in 1 .. n : s[j1] = s[k1] => j1 = k1
    BY <1>0 DEF IsInjective
  <2>2. r[j] = (IF j < i THEN s[j] ELSE IF j = i THEN x ELSE s[j - 1])
    BY <1>6
  <2>3. r[k] = (IF k < i THEN s[k] ELSE IF k = i THEN x ELSE s[k - 1])
    BY <1>6
  <2>4. (j < i => j \in 1 .. n) /\ (j > i => j - 1 \in 1 .. n)
    BY <1>0
  <2>5. (k < i => k \in 1 .. n) /\ (k > i => k - 1 \in 1 .. n)
    BY <1>0
  <2>6. CASE j = i
    BY <2>6, <2>2, <2>3, <2>5, <1>0, <1>7
  <2>7. CASE k = i
    BY <2>7, <2>2, <2>3, <2>4, <1>0, <1>7
  <2>8. CASE j # i /\ k # i
    <3>1. /\ (IF j < i THEN j ELSE j - 1) \in 1 .. n
          /\ (IF k < i THEN k ELSE k - 1) \in 1 .. n
      BY <2>8, <2>4, <2>5, <1>0
    <3>2. /\ r[j] = s[IF j < i THEN j ELSE j - 1]
          /\ r[k] = s[IF k < i THEN k ELSE k - 1]
      BY <2>8, <2>2, <2>3
    <3>3. (IF j < i THEN j ELSE j - 1) = (IF k < i THEN k ELSE k - 1)
      BY <3>1, <3>2, <2>1
    <3> QED BY <2>8, <3>3, <1>0
  <2> QED BY <2>6, <2>7, <2>8
<1>9. ToSet(r) = ToSet(s) \cup {x}
  <2>1. ASSUME NEW j \in 1 .. (n + 1)
        PROVE  r[j] \in ToSet(s) \cup {x}
    <3>1. r[j] = (IF j < i THEN s[j] ELSE IF j = i THEN x ELSE s[j - 1])
      BY <1>6
    <3>2. (j < i => j \in 1 .. n) /\ (j > i => j - 1 \in 1 .. n)
      BY <1>0
    <3>3. \A k \in 1 .. n : s[k] \in ToSet(s)
      BY <1>0 DEF ToSet
    <3> QED BY <3>1, <3>2, <3>3, <1>0
  <2>2. ASSUME NEW j \in 1 .. n
        PROVE  s[j] \in ToSet(r)
    <3>1. CASE j < i
      BY <3>1, <1>0, <1>5, <1>6 DEF ToSet
    <3>2. CASE j >= i
      <4>1. j + 1 \in 1 .. (n + 1) /\ r[j + 1] = s[(j + 1) - 1]
        BY <3>2, <1>0, <1>6
      <4> QED BY <4>1, <1>5 DEF ToSet
    <3> QED BY <3>1, <3>2, <1>0
  <2>3. x \in ToSet(r)
    <3>1. i \in 1 .. (n + 1) /\ r[i] = x
      BY <1>0, <1>6 DEF n
    <3> QED BY <3>1, <1>5 DEF ToSet
  <2>4. ToSet(r) \subseteq ToSet(s) \cup {x}
    BY <2>1, <1>5 DEF ToSet
  <2>5. ToSet(s) \subseteq ToSet(r)
    BY <2>2, <1>0 DEF ToSet
  <2> QED BY <2>3, <2>4, <2>5
<1> QED BY <1>4, <1>5, <1>8, <1>9

\* Removing an identifier leaves exactly the others, still distinct.
LEMMA WithoutFacts ==
  ASSUME NEW S, NEW s \in Seq(S), IsInjective(s), NEW x
  PROVE  /\ Without(s, x) \in Seq(S)
         /\ IsInjective(Without(s, x))
         /\ ToSet(Without(s, x)) = ToSet(s) \ {x}
<1>1. CASE x \notin ToSet(s)
  BY <1>1 DEF Without
<1>2. CASE x \in ToSet(s)
  <2> DEFINE n == Len(s)
             i == IndexIn(s, x)
             a == SubSeq(s, 1, i - 1)
             b == SubSeq(s, i + 1, n)
             r == a \o b
  <2>0. n \in Nat /\ DOMAIN s = 1 .. n /\ \A j \in 1 .. n : s[j] \in S
    BY LenProperties, ElementOfSeq
  <2> HIDE DEF n
  <2>1. i \in 1 .. n /\ s[i] = x
    BY <1>2, <2>0 DEF IndexIn, ToSet
  <2> HIDE DEF i
  <2>2. /\ a \in Seq(S) /\ Len(a) = i - 1
        /\ \A j \in 1 .. (i - 1) : a[j] = s[j]
    <3>1. i - 1 \in Int /\ \A j \in 1 .. (i - 1) : s[j] \in S
      BY <2>0, <2>1
    <3> HIDE DEF a
    <3>2. /\ a \in Seq(S)
          /\ Len(a) = (IF 1 <= i - 1 THEN i - 1 - 1 + 1 ELSE 0)
          /\ \A j \in 1 .. (i - 1 - 1 + 1) : a[j] = s[1 + j - 1]
      BY <3>1, SubSeqProperties DEF a
    <3> QED BY <3>2, <2>0, <2>1
  <2>3. /\ b \in Seq(S) /\ Len(b) = n - i
        /\ \A j \in 1 .. (n - i) : b[j] = s[i + j]
    <3>1. i + 1 \in Int /\ n \in Int /\ \A j \in (i + 1) .. n : s[j] \in S
      BY <2>0, <2>1
    <3> HIDE DEF b
    <3>2. /\ b \in Seq(S)
          /\ Len(b) = (IF i + 1 <= n THEN n - (i + 1) + 1 ELSE 0)
          /\ \A j \in 1 .. (n - (i + 1) + 1) : b[j] = s[i + 1 + j - 1]
      BY <3>1, SubSeqProperties DEF b
    <3>3. n - (i + 1) + 1 = n - i /\ \A j \in 1 .. (n - i) : i + 1 + j - 1 = i + j
      BY <2>0, <2>1
    <3> HIDE DEF r
    <3> QED BY <3>2, <3>3, <2>0, <2>1
  <2>4. r = Without(s, x)
    BY <1>2 DEF Without, RemoveAt, r, a, b, i, n
  <2> HIDE DEF a, b, r
  <2>5. /\ r \in Seq(S) /\ Len(r) = n - 1 /\ DOMAIN r = 1 .. (n - 1)
        /\ \A j \in 1 .. (n - 1) : r[j] = IF j < i THEN a[j] ELSE b[j - i + 1]
    <3>1. /\ r \in Seq(S) /\ Len(r) = Len(a) + Len(b)
          /\ \A j \in 1 .. (Len(a) + Len(b)) :
               r[j] = IF j <= Len(a) THEN a[j] ELSE b[j - Len(a)]
      BY <2>2, <2>3, ConcatProperties DEF r
    <3>2. Len(a) + Len(b) = n - 1
      BY <2>0, <2>1, <2>2, <2>3
    <3>3. \A j \in 1 .. (n - 1) : (j <= Len(a) <=> j < i) /\ j - Len(a) = j - i + 1
      BY <2>0, <2>1, <2>2
    <3> QED BY <3>1, <3>2, <3>3, LenProperties
  <2>6. ASSUME NEW j \in 1 .. (n - 1)
        PROVE  r[j] = IF j < i THEN s[j] ELSE s[j + 1]
    <3>1. CASE j < i
      BY <3>1, <2>0, <2>1, <2>2, <2>5
    <3>2. CASE j >= i
      <4>1. j - i + 1 \in 1 .. (n - i) /\ i + (j - i + 1) = j + 1
        BY <3>2, <2>0, <2>1
      <4>2. r[j] = b[j - i + 1]
        BY <3>2, <2>0, <2>1, <2>5
      <4>3. b[j - i + 1] = s[i + (j - i + 1)]
        BY <4>1, <2>3
      <4> QED BY <3>2, <4>1, <4>2, <4>3, <2>0, <2>1
    <3> QED BY <3>1, <3>2, <2>0, <2>1
  <2>7. \A j, k \in 1 .. n : s[j] = s[k] => j = k
    BY <2>0 DEF IsInjective
  <2>8. IsInjective(r)
    <3> SUFFICES ASSUME NEW j \in 1 .. (n - 1), NEW k \in 1 .. (n - 1), r[j] = r[k]
                 PROVE  j = k
      BY <2>5 DEF IsInjective
    <3>1. j \in 1 .. n /\ k \in 1 .. n /\ j + 1 \in 1 .. n /\ k + 1 \in 1 .. n
      BY <2>0
    <3> QED BY <3>1, <2>0, <2>1, <2>6, <2>7
  <2>9. ToSet(r) = ToSet(s) \ {x}
    <3>1. ASSUME NEW j \in 1 .. (n - 1)
          PROVE  r[j] \in ToSet(s) \ {x}
      <4>1. j \in 1 .. n /\ j + 1 \in 1 .. n
        BY <2>0
      <4> QED BY <4>1, <2>0, <2>1, <2>6, <2>7 DEF ToSet
    <3>2. ASSUME NEW j \in 1 .. n, s[j] # x
          PROVE  s[j] \in ToSet(r)
      <4>1. CASE j < i
        BY <4>1, <2>0, <2>1, <2>5, <2>6 DEF ToSet
      <4>2. CASE j > i
        <5>1. j - 1 \in 1 .. (n - 1) /\ r[j - 1] = s[(j - 1) + 1]
          BY <4>2, <2>0, <2>1, <2>6
        <5> QED BY <5>1, <2>5, <2>0 DEF ToSet
      <4> QED BY <4>1, <4>2, <3>2, <2>1, <2>0
    <3>3. ToSet(r) \subseteq ToSet(s) \ {x}
      BY <3>1, <2>5 DEF ToSet
    <3>4. ToSet(s) \ {x} \subseteq ToSet(r)
      BY <3>2, <2>0 DEF ToSet
    <3> QED BY <3>3, <3>4
  <2> QED BY <2>4, <2>5, <2>8, <2>9
<1> QED BY <1>1, <1>2

\* A pane placed beside a leaf, or alone, is added to the leaves.
LEMMA BesideFacts ==
  ASSUME NEW S, NEW s \in Seq(S), IsInjective(s), NEW p \in S \ ToSet(s),
         NEW t, NEW side, s = <<>> \/ t \in ToSet(s)
  PROVE  /\ Beside(s, t, side, p) \in Seq(S)
         /\ IsInjective(Beside(s, t, side, p))
         /\ ToSet(Beside(s, t, side, p)) = ToSet(s) \cup {p}
<1>1. CASE s = <<>>
  <2>1. Beside(s, t, side, p) = <<p>> /\ ToSet(s) = {}
    BY <1>1 DEF Beside, ToSet
  <2>2. <<p>> \in Seq(S) /\ IsInjective(<<p>>) /\ ToSet(<<p>>) = {p}
    BY DEF IsInjective, ToSet
  <2> QED BY <2>1, <2>2
<1>2. CASE s # <<>>
  <2>1. IndexIn(s, t) \in 1 .. Len(s)
    BY <1>2 DEF IndexIn, ToSet
  <2> DEFINE i == IndexIn(s, t) + (IF side = "before" THEN 0 ELSE 1)
  <2>2. i \in 1 .. (Len(s) + 1)
    BY <2>1
  <2>3. Beside(s, t, side, p) = InsertAt(s, i, p)
    BY <1>2 DEF Beside
  <2> HIDE DEF i
  <2> QED BY <2>2, <2>3, InsertAtFacts
<1> QED BY <1>1, <1>2

\* A new identifier at the end.
LEMMA AppendFacts ==
  ASSUME NEW S, NEW s \in Seq(S), IsInjective(s), NEW x \in S \ ToSet(s)
  PROVE  /\ Append(s, x) \in Seq(S)
         /\ IsInjective(Append(s, x))
         /\ ToSet(Append(s, x)) = ToSet(s) \cup {x}
<1> DEFINE r == Append(s, x)
<1>1. /\ r \in Seq(S) /\ Len(r) = Len(s) + 1 /\ Len(s) \in Nat
      /\ DOMAIN r = 1 .. (Len(s) + 1) /\ DOMAIN s = 1 .. Len(s)
      /\ \A j \in 1 .. Len(s) : r[j] = s[j]
      /\ r[Len(s) + 1] = x
  OBVIOUS
<1> HIDE DEF r
<1>2. \A j \in 1 .. Len(s) : s[j] # x
  BY <1>1 DEF ToSet
<1>3. IsInjective(r)
  BY <1>1, <1>2 DEF IsInjective
<1>4. \A j \in 1 .. (Len(s) + 1) : j \in 1 .. Len(s) \/ j = Len(s) + 1
  BY <1>1
<1>5. ToSet(r) = ToSet(s) \cup {x}
  <2>1. ToSet(r) \subseteq ToSet(s) \cup {x}
    BY <1>1, <1>4 DEF ToSet
  <2>2. ToSet(s) \cup {x} \subseteq ToSet(r)
    BY <1>1 DEF ToSet
  <2> QED BY <2>1, <2>2
<1> QED BY <1>1, <1>3, <1>5 DEF r

\* The first leaf of a layout is one of its leaves.
LEMMA FirstPaneFacts ==
  ASSUME NEW S, NEW s \in Seq(S)
  PROVE  /\ s = <<>> <=> ToSet(s) = {}
         /\ s # <<>> => FirstPane(s) \in ToSet(s)
         /\ s = <<>> => FirstPane(s) = 0
<1>1. CASE s = <<>>
  BY <1>1 DEF ToSet, FirstPane
<1>2. CASE s # <<>>
  <2>1. Len(s) \in Nat /\ Len(s) # 0 /\ DOMAIN s = 1 .. Len(s)
    BY <1>2
  <2>2. 1 \in DOMAIN s
    BY <2>1
  <2> QED BY <1>2, <2>2 DEF ToSet, FirstPane
<1> QED BY <1>1, <1>2
-----------------------------------------------------------------------------
(* The hierarchy                                                           *)

\* The elements of a list over S are in S.
LEMMA ToSetType ==
  ASSUME NEW S, NEW s \in Seq(S)
  PROVE  ToSet(s) \subseteq S
  BY LenProperties, ElementOfSeq DEF ToSet

\* The limits are numbers, and 0 stands for no identifier.
LEMMA IdentifierFacts ==
  /\ WorkspaceLimit \in Nat /\ WindowLimit \in Nat /\ PaneLimit \in Nat
  /\ 1 \in WorkspaceID /\ 1 \in WindowID
  /\ WorkspaceID \subseteq Nat \ {0} /\ WindowID \subseteq Nat \ {0}
  /\ PaneID \subseteq Nat \ {0}
  /\ WorkspaceID \subseteq 0 .. WorkspaceLimit
  /\ WindowID \subseteq 0 .. WindowLimit
  /\ PaneID \subseteq 0 .. PaneLimit
  /\ 0 \in 0 .. WorkspaceLimit /\ 0 \in 0 .. WindowLimit /\ 0 \in 0 .. PaneLimit
  BY CoreAssumption DEF WorkspaceID, WindowID, PaneID

\* A set of places in a list has a first one.
LEMMA FirstPlace ==
  ASSUME NEW T, T \subseteq Nat, T # {}
  PROVE  \E i \in T : \A j \in T : i <= j
<1>1. PICK i \in T : \A j \in T : ~ (<<j, i>> \in OpToRel(<, Nat))
  BY NatLessThanWellFounded, WFMin
<1>2. \A j \in T : ~ (j < i)
  BY <1>1 DEF OpToRel
<1> QED BY <1>2

\* Where the daemon starts.
LEMMA InitIInv == Init => IInv
<1> SUFFICES ASSUME Init PROVE IInv
  OBVIOUS
<1> USE IdentifierFacts
<1>0. /\ <<1>> \in Seq(WorkspaceID) /\ <<1>> \in Seq(WindowID)
      /\ <<>> \in Seq(WindowID) /\ <<>> \in Seq(PaneID)
      /\ ToSet(<<1>>) = {1} /\ ToSet(<<>>) = {}
      /\ IsInjective(<<1>>) /\ IsInjective(<<>>)
  BY DEF ToSet, IsInjective
<1>1. /\ NoWindowHint \in WindowHint /\ NoPaneHint \in PaneHint /\ NoFocus \in Focus
  BY DEF NoWindowHint, NoPaneHint, NoFocus, WindowHint, PaneHint, Focus, Sides
<1>2. TypeOK
  BY <1>0, <1>1, CoreAssumption DEF Init, TypeOK
<1>3. OrderInv
  BY <1>0 DEF Init, OrderInv, Workspaces
<1>4. WindowInv
  BY <1>0 DEF Init, WindowInv, Workspaces, IsStashedWindow, NoWindowHint
<1>5. LayoutInv
  BY <1>0 DEF Init, LayoutInv, IsStashedPane, NoPaneHint
<1>6. StashInv /\ FocusOnScreen
  BY DEF Init, StashInv, FocusOnScreen
<1> QED BY <1>2, <1>3, <1>4, <1>5, <1>6 DEF IInv

\* All that the initial focus depends on.
ListsOK ==
  /\ workspaceOrder \in Seq(WorkspaceID)
  /\ windowIDs \in [WorkspaceID -> Seq(WindowID)]
  /\ windows \in SUBSET WindowID
  /\ layout \in [WindowID -> Seq(PaneID)]

\* The focus a frontend starts or starts again with is on the screen.
LEMMA InitialFocusFacts ==
  ListsOK /\ OrderInv /\ WindowInv =>
    /\ InitialFocus \in Focus
    /\ InitialFocus.workspace \in Workspaces
    /\ InitialFocus.window # 0 =>
         /\ IsVisible(InitialFocus.window)
         /\ windowWorkspace[InitialFocus.window] = InitialFocus.workspace
    /\ InitialFocus.pane # 0 =>
         /\ InitialFocus.window # 0
         /\ InitialFocus.pane \in ToSet(layout[InitialFocus.window])
<1> SUFFICES ASSUME ListsOK, OrderInv, WindowInv
             PROVE  /\ InitialFocus \in Focus
                    /\ InitialFocus.workspace \in Workspaces
                    /\ InitialFocus.window # 0 =>
                         /\ IsVisible(InitialFocus.window)
                         /\ windowWorkspace[InitialFocus.window] = InitialFocus.workspace
                    /\ InitialFocus.pane # 0 =>
                         /\ InitialFocus.window # 0
                         /\ InitialFocus.pane \in ToSet(layout[InitialFocus.window])
  OBVIOUS
<1> USE IdentifierFacts
<1>1. /\ workspaceOrder \in Seq(WorkspaceID) /\ workspaceOrder # <<>>
      /\ DOMAIN workspaceOrder = 1 .. Len(workspaceOrder) /\ Len(workspaceOrder) \in Nat \ {0}
      /\ \A i \in DOMAIN workspaceOrder : workspaceOrder[i] \in Workspaces
      /\ Workspaces \subseteq WorkspaceID
  BY LenProperties, EmptySeq, ToSetType DEF ListsOK, OrderInv, Workspaces, ToSet
<1>2. CASE FirstShowing = 0
  <2>1. InitialFocus = [workspace |-> workspaceOrder[1], window |-> 0, pane |-> 0]
    BY <1>1, <1>2 DEF InitialFocus, NoFocus
  <2>2. workspaceOrder[1] \in Workspaces /\ workspaceOrder[1] \in WorkspaceID
    BY <1>1
  <2> QED BY <2>1, <2>2 DEF Focus
<1>3. CASE FirstShowing # 0
  <2> DEFINE showing == {i \in DOMAIN workspaceOrder : windowIDs[workspaceOrder[i]] # <<>>}
             first == CHOOSE i \in showing : \A j \in showing : i <= j
             ws == FirstShowing
             w == FirstVisibleWindow
             p == FirstPane(layout[w])
  <2>1. showing # {} /\ ws = workspaceOrder[first]
    BY <1>3 DEF FirstShowing
  <2>2. first \in showing
    <3>1. showing \subseteq Nat
      BY <1>1
    <3> HIDE DEF showing
    <3>2. \E i \in showing : \A j \in showing : i <= j
      BY <2>1, <3>1, FirstPlace
    <3> QED BY <3>2
  <2>3. /\ ws \in Workspaces /\ windowIDs[ws] # <<>>
        /\ ws \in WorkspaceID /\ windowIDs[ws] \in Seq(WindowID)
    BY <1>1, <2>1, <2>2 DEF ListsOK
  <2>4. w = windowIDs[ws][1] /\ w \in ToSet(windowIDs[ws])
    BY <1>3, <2>3, FirstPaneFacts DEF FirstVisibleWindow, FirstPane
  <2>5. /\ w \in windows /\ windowWorkspace[w] = ws /\ IsVisible(w)
        /\ w \in WindowID
    BY <2>3, <2>4 DEF WindowInv, IsVisible, ListsOK
  <2>6. layout[w] \in Seq(PaneID)
    BY <2>5 DEF ListsOK
  <2>7. p = 0 \/ (p \in ToSet(layout[w]) /\ p \in PaneID)
    BY <2>6, FirstPaneFacts, ToSetType
  <2>8. InitialFocus = [workspace |-> ws, window |-> w, pane |-> p]
    BY <1>3 DEF InitialFocus
  <2> QED BY <2>3, <2>5, <2>7, <2>8 DEF Focus
<1> QED BY <1>2, <1>3
-----------------------------------------------------------------------------
(* One lemma per action.  The frame lemmas dispose of the parts of the     *)
(* invariant whose state the action leaves alone.                          *)

\* OrderInv speaks only of the order and of the counter.
LEMMA OrderFrame ==
  OrderInv /\ UNCHANGED <<workspaceOrder, nextWorkspaceID>> => OrderInv'
  BY DEF OrderInv, Workspaces

\* WindowInv speaks only of the orders and of the windows.
LEMMA WindowFrame ==
  WindowInv /\ UNCHANGED <<workspaceOrder, windowIDs, windows, windowWorkspace,
                           stashedWindows, nextWindowID>> => WindowInv'
  BY DEF WindowInv, Workspaces, IsStashedWindow

\* LayoutInv speaks only of the layouts, the panes and their counter.
LEMMA LayoutFrame ==
  LayoutInv /\ UNCHANGED <<windows, layout, paneVars, nextPaneID>> => LayoutInv'
  BY DEF LayoutInv, IsStashedPane, paneVars

\* StashInv speaks only of the panes and of which windows are stashed.
LEMMA StashFrame ==
  StashInv /\ UNCHANGED <<paneVars, stashedWindows>> => StashInv'
  BY DEF StashInv, IsStashedPane, IsStashedWindow, paneVars

\* A frontend nobody touched keeps its focus while what it names stays.
LEMMA FocusFrame ==
  /\ FocusOnScreen
  /\ UNCHANGED frontendVars
  /\ Workspaces \subseteq Workspaces'
  /\ \A w \in windows : IsVisible(w) => /\ IsVisible(w)'
                                        /\ windowWorkspace'[w] = windowWorkspace[w]
                                        /\ ToSet(layout[w]) \subseteq ToSet(layout'[w])
  => FocusOnScreen'
  BY DEF FocusOnScreen, IsVisible, frontendVars

\* createWorkspace preserves IInv: the new identifier is not in the order.
LEMMA CreateWorkspaceStep ==
  ASSUME IInv, NEW n \in Names, CreateWorkspace(n)
  PROVE  IInv'
<1> USE IdentifierFacts DEF windowVars, paneVars, frontendVars
<1>0. TypeOK /\ OrderInv /\ WindowInv /\ LayoutInv /\ StashInv /\ FocusOnScreen
  BY DEF IInv
<1>1. nextWorkspaceID \in WorkspaceID /\ nextWorkspaceID \notin Workspaces
  BY <1>0, CoreAssumption DEF CreateWorkspace, TypeOK, WorkspaceID, OrderInv
<1>2. /\ workspaceOrder' \in Seq(WorkspaceID)
      /\ IsInjective(workspaceOrder')
      /\ Workspaces' = Workspaces \cup {nextWorkspaceID}
  BY <1>0, <1>1, AppendFacts DEF CreateWorkspace, TypeOK, OrderInv, Workspaces
<1>3. TypeOK'
  BY <1>0, <1>1, <1>2 DEF CreateWorkspace, TypeOK
<1>4. OrderInv'
  <2>1. workspaceOrder' # <<>>
    BY <1>2, FirstPaneFacts DEF Workspaces
  <2>2. Workspaces \subseteq WorkspaceID
    BY <1>0, ToSetType DEF Workspaces, TypeOK
  <2>3. \A ws \in Workspaces' : ws < nextWorkspaceID'
    BY <1>0, <1>1, <1>2, <2>2 DEF CreateWorkspace, OrderInv
  <2> QED BY <1>2, <2>1, <2>3 DEF OrderInv
<1>5. WindowInv'
  BY <1>0, <1>2 DEF CreateWorkspace, WindowInv, IsStashedWindow
<1>6. LayoutInv' /\ StashInv'
  BY <1>0, LayoutFrame, StashFrame DEF CreateWorkspace
<1>7. FocusOnScreen'
  <2>1. \A w \in windows : IsVisible(w) => IsVisible(w)'
    BY <1>2 DEF CreateWorkspace, IsVisible, IsStashedWindow
  <2> QED BY <1>0, <1>2, <2>1, FocusFrame DEF CreateWorkspace
<1> QED BY <1>3, <1>4, <1>5, <1>6, <1>7 DEF IInv

\* renameWorkspace preserves IInv, which does not speak of names.
LEMMA RenameWorkspaceStep ==
  ASSUME IInv, NEW ws \in WorkspaceID, NEW n \in Names, RenameWorkspace(ws, n)
  PROVE  IInv'
<1> USE DEF idVars, windowVars, paneVars, frontendVars
<1>0. TypeOK /\ OrderInv /\ WindowInv /\ LayoutInv /\ StashInv /\ FocusOnScreen
  BY DEF IInv
<1>1. TypeOK'
  BY <1>0 DEF RenameWorkspace, TypeOK
<1>2. OrderInv' /\ WindowInv' /\ LayoutInv' /\ StashInv'
  BY <1>0, OrderFrame, WindowFrame, LayoutFrame, StashFrame DEF RenameWorkspace
<1>3. FocusOnScreen'
  BY <1>0, FocusFrame DEF RenameWorkspace, Workspaces, IsVisible, IsStashedWindow
<1> QED BY <1>1, <1>2, <1>3 DEF IInv

\* renameWindow preserves IInv, which does not speak of names.
LEMMA RenameWindowStep ==
  ASSUME IInv, NEW w \in WindowID, NEW n \in Names, RenameWindow(w, n)
  PROVE  IInv'
<1> USE DEF idVars, workspaceVars, paneVars, frontendVars
<1>0. TypeOK /\ OrderInv /\ WindowInv /\ LayoutInv /\ StashInv /\ FocusOnScreen
  BY DEF IInv
<1>1. TypeOK'
  BY <1>0 DEF RenameWindow, TypeOK
<1>2. OrderInv' /\ WindowInv' /\ LayoutInv' /\ StashInv'
  BY <1>0, OrderFrame, WindowFrame, LayoutFrame, StashFrame DEF RenameWindow
<1>3. FocusOnScreen'
  BY <1>0, FocusFrame DEF RenameWindow, Workspaces, IsVisible, IsStashedWindow
<1> QED BY <1>1, <1>2, <1>3 DEF IInv

\* The frontends of a set S start again; the others see nothing go.
LEMMA ResetFocusFacts ==
  ASSUME NEW S \in SUBSET Frontends, ResetFocus(S), frontends' \subseteq frontends \cup S,
         TypeOK, FocusOnScreen, (ListsOK /\ OrderInv /\ WindowInv)',
         \A f \in frontends \ S : focus[f].workspace \in Workspaces',
         \A f \in frontends \ S : \A w \in windows :
           focus[f].window = w /\ IsVisible(w) =>
             /\ IsVisible(w)'
             /\ windowWorkspace'[w] = windowWorkspace[w]
             /\ ToSet(layout[w]) \subseteq ToSet(layout'[w])
  PROVE  FocusOnScreen' /\ focus' \in [Frontends -> Focus]
<1>1. (ListsOK /\ OrderInv /\ WindowInv =>
         /\ InitialFocus \in Focus
         /\ InitialFocus.workspace \in Workspaces
         /\ InitialFocus.window # 0 =>
              /\ IsVisible(InitialFocus.window)
              /\ windowWorkspace[InitialFocus.window] = InitialFocus.workspace
         /\ InitialFocus.pane # 0 =>
              /\ InitialFocus.window # 0
              /\ InitialFocus.pane \in ToSet(layout[InitialFocus.window]))'
  BY InitialFocusFacts, PTL
<1>0. focus' \in [Frontends -> Focus]
  BY <1>1 DEF ResetFocus, TypeOK
<1> SUFFICES ASSUME NEW f \in frontends'
             PROVE  /\ focus'[f].workspace \in Workspaces'
                    /\ focus'[f].window # 0 =>
                         /\ IsVisible(focus[f].window)'
                         /\ windowWorkspace'[focus'[f].window] = focus'[f].workspace
                    /\ focus'[f].pane # 0 =>
                         /\ focus'[f].window # 0
                         /\ focus'[f].pane \in ToSet(layout'[focus'[f].window])
  BY <1>0 DEF FocusOnScreen
<1>2. f \in Frontends
  BY DEF TypeOK
<1>3. CASE f \in S
  <2>1. focus'[f] = InitialFocus'
    BY <1>2, <1>3 DEF ResetFocus
  <2> QED BY <1>1, <2>1
<1>4. CASE f \notin S
  <2>1. focus'[f] = focus[f] /\ f \in frontends \ S
    BY <1>2, <1>4 DEF ResetFocus
  <2> DEFINE w == focus[f].window
  <2>2. focus[f].workspace \in Workspaces'
    BY <2>1
  <2>3. CASE w = 0
    BY <2>1, <2>2, <2>3 DEF FocusOnScreen
  <2>4. CASE w # 0
    <3>1. /\ w \in windows /\ IsVisible(w)
          /\ windowWorkspace[w] = focus[f].workspace
          /\ focus[f].pane # 0 => focus[f].pane \in ToSet(layout[w])
      BY <2>1, <2>4 DEF FocusOnScreen, IsVisible
    <3>2. /\ IsVisible(focus[f].window)'
          /\ windowWorkspace'[w] = windowWorkspace[w]
          /\ ToSet(layout[w]) \subseteq ToSet(layout'[w])
      BY <3>1, <2>1
    <3> QED BY <2>1, <2>2, <2>4, <3>1, <3>2
  <2> QED BY <2>3, <2>4
<1> QED BY <1>3, <1>4

\* deleteWorkspace preserves IInv: it lists no window, and its frontends are reset.
LEMMA DeleteWorkspaceStep ==
  ASSUME IInv, NEW ws \in WorkspaceID, DeleteWorkspace(ws)
  PROVE  IInv'
<1> USE DEF idVars, windowVars, paneVars
<1>0. TypeOK /\ OrderInv /\ WindowInv /\ LayoutInv /\ StashInv /\ FocusOnScreen
  BY DEF IInv
<1>1. /\ workspaceOrder' \in Seq(WorkspaceID)
      /\ IsInjective(workspaceOrder')
      /\ Workspaces' = Workspaces \ {ws}
  BY <1>0, WithoutFacts DEF DeleteWorkspace, TypeOK, OrderInv, Workspaces
<1>2. workspaceOrder' # <<>>
  <2>1. /\ workspaceOrder \in Seq(WorkspaceID) /\ Len(workspaceOrder) \in Nat
        /\ Len(workspaceOrder) # 0 /\ Len(workspaceOrder) # 1
        /\ DOMAIN workspaceOrder = 1 .. Len(workspaceOrder)
    BY <1>0, LenProperties, EmptySeq DEF DeleteWorkspace, TypeOK, OrderInv
  <2>2. /\ workspaceOrder[1] # workspaceOrder[2]
        /\ workspaceOrder[1] \in Workspaces /\ workspaceOrder[2] \in Workspaces
    BY <1>0, <2>1 DEF OrderInv, IsInjective, Workspaces, ToSet
  <2>3. Workspaces' # {}
    BY <1>1, <2>2
  <2> QED BY <1>1, <2>3, FirstPaneFacts DEF Workspaces
<1>3. OrderInv'
  BY <1>0, <1>1, <1>2 DEF DeleteWorkspace, OrderInv
<1>4. WindowInv'
  <2>1. ToSet(windowIDs[ws]) = {}
    BY <1>0, FirstPaneFacts DEF DeleteWorkspace, TypeOK
  <2>2. \A v \in WorkspaceID : ToSet(windowIDs'[v]) # {} => (v \in Workspaces => v \in Workspaces')
    BY <2>1, <1>1 DEF DeleteWorkspace
  <2> QED BY <1>0, <2>2 DEF DeleteWorkspace, WindowInv, IsStashedWindow
<1>5. LayoutInv' /\ StashInv'
  BY <1>0, LayoutFrame, StashFrame DEF DeleteWorkspace
<1>6. \A w \in windows : IsVisible(w) => IsVisible(w)'
  <2>1. ToSet(windowIDs[ws]) = {}
    BY <1>0, FirstPaneFacts DEF DeleteWorkspace, TypeOK
  <2> QED BY <1>1, <2>1 DEF DeleteWorkspace, IsVisible, IsStashedWindow
<1>7. FocusOnScreen' /\ focus' \in [Frontends -> Focus]
  <2>1. ListsOK'
    BY <1>0, <1>1 DEF DeleteWorkspace, TypeOK, ListsOK
  <2> DEFINE S == FrontendsOnWorkspace(ws)
  <2>2. /\ S \subseteq Frontends
        /\ \A f \in frontends \ S : focus[f].workspace \in Workspaces'
    BY <1>0, <1>1 DEF FrontendsOnWorkspace, TypeOK, FocusOnScreen
  <2>3. ResetFocus(S) /\ UNCHANGED <<frontends, windowWorkspace, layout>>
    BY DEF DeleteWorkspace
  <2> HIDE DEF S
  <2> QED BY <1>0, <1>3, <1>4, <1>6, <2>1, <2>2, <2>3, ResetFocusFacts
<1>8. TypeOK'
  BY <1>0, <1>1, <1>7 DEF DeleteWorkspace, TypeOK
<1> QED BY <1>3, <1>4, <1>5, <1>7, <1>8 DEF IInv

\* What a workspace lists.
LEMMA ListedWindow ==
  ASSUME TypeOK, WindowInv, NEW v \in WorkspaceID, NEW x \in ToSet(windowIDs[v])
  PROVE  /\ v \in Workspaces /\ x \in windows /\ x \in WindowID
         /\ windowWorkspace[x] = v /\ ~ IsStashedWindow(x)
<1>1. windows \subseteq WindowID
  BY DEF TypeOK
<1> QED BY <1>1 DEF WindowInv

\* createWindow preserves IInv: the new window is listed by its workspace alone.
LEMMA CreateWindowStep ==
  ASSUME IInv, NEW ws \in WorkspaceID, NEW n \in Names, CreateWindow(ws, n)
  PROVE  IInv'
<1> USE IdentifierFacts DEF paneVars, frontendVars
<1>0. TypeOK /\ OrderInv /\ WindowInv /\ LayoutInv /\ StashInv /\ FocusOnScreen
  BY DEF IInv
<1> DEFINE w == nextWindowID
<1>1. /\ w \in WindowID /\ w \notin windows
      /\ \A v \in WorkspaceID : w \notin ToSet(windowIDs[v])
  BY <1>0, CoreAssumption DEF CreateWindow, TypeOK, WindowID, WindowInv
<1>2. /\ windowIDs'[ws] \in Seq(WindowID)
      /\ IsInjective(windowIDs'[ws])
      /\ ToSet(windowIDs'[ws]) = ToSet(windowIDs[ws]) \cup {w}
      /\ \A v \in WorkspaceID \ {ws} : windowIDs'[v] = windowIDs[v]
  <2>1. windowIDs'[ws] = Append(windowIDs[ws], w)
    BY <1>0 DEF CreateWindow, TypeOK
  <2>2. windowIDs[ws] \in Seq(WindowID) /\ IsInjective(windowIDs[ws])
    BY <1>0 DEF TypeOK, WindowInv
  <2>3. \A v \in WorkspaceID \ {ws} : windowIDs'[v] = windowIDs[v]
    BY <1>0 DEF CreateWindow, TypeOK
  <2> QED BY <1>1, <2>1, <2>2, <2>3, AppendFacts
<1>3. TypeOK'
  <2>1. windowIDs' \in [WorkspaceID -> Seq(WindowID)]
    BY <1>0, <1>2 DEF CreateWindow, TypeOK
  <2>2. /\ windows' \in SUBSET WindowID
        /\ windowName' \in [WindowID -> Names \cup {NoName}]
        /\ windowWorkspace' \in [WindowID -> WorkspaceID \cup {0}]
        /\ nextWindowID' \in 1 .. WindowLimit
    BY <1>0, <1>1 DEF CreateWindow, TypeOK
  <2> QED BY <1>0, <2>1, <2>2 DEF CreateWindow, TypeOK
<1>4. OrderInv'
  BY <1>0, OrderFrame DEF CreateWindow
<1>5. WindowInv'
  <2>1. /\ windows' = windows \cup {w} /\ nextWindowID' = w + 1
        /\ windowWorkspace'[w] = ws
        /\ \A v \in WindowID \ {w} : windowWorkspace'[v] = windowWorkspace[v]
        /\ \A v : IsStashedWindow(v)' <=> IsStashedWindow(v)
        /\ Workspaces' = Workspaces /\ ws \in Workspaces
    BY <1>0, <1>1 DEF CreateWindow, TypeOK, IsStashedWindow, Workspaces
  <2>2. ~ IsStashedWindow(w)
    BY <1>0, <1>1 DEF WindowInv
  <2>3. ASSUME NEW v \in WorkspaceID
        PROVE  /\ IsInjective(windowIDs'[v])
               /\ \A x \in ToSet(windowIDs'[v]) :
                    /\ v \in Workspaces'
                    /\ x \in windows'
                    /\ windowWorkspace'[x] = v
                    /\ ~ IsStashedWindow(x)'
    <3>1. \A x \in ToSet(windowIDs[v]) :
            /\ v \in Workspaces /\ x \in windows /\ windowWorkspace[x] = v
            /\ ~ IsStashedWindow(x) /\ x \in WindowID /\ x # w
      BY <1>0, <1>1, ListedWindow
    <3>2. IsInjective(windowIDs'[v])
      BY <1>0, <1>2 DEF WindowInv
    <3>3. \A x \in ToSet(windowIDs'[v]) : x \in ToSet(windowIDs[v]) \/ (v = ws /\ x = w)
      BY <1>2
    <3> QED BY <1>1, <2>1, <2>2, <3>1, <3>2, <3>3
  <2>4. ASSUME NEW x \in windows'
        PROVE  /\ x < nextWindowID'
               /\ windowWorkspace'[x] # 0
               /\ ~ IsStashedWindow(x)' => x \in ToSet(windowIDs'[windowWorkspace'[x]])
    <3>1. CASE x = w
      <4>1. windowWorkspace'[x] = ws /\ x < nextWindowID'
        BY <3>1, <1>1, <2>1
      <4>2. x \in ToSet(windowIDs'[ws]) /\ ws # 0
        BY <3>1, <1>1, <1>2
      <4> QED BY <4>1, <4>2
    <3>2. CASE x # w
      <4>1. /\ x \in windows /\ x \in WindowID /\ x < w /\ windowWorkspace[x] # 0
            /\ windowWorkspace[x] \in WorkspaceID /\ x \in Nat /\ w \in Nat
            /\ ~ IsStashedWindow(x) => x \in ToSet(windowIDs[windowWorkspace[x]])
        BY <3>2, <1>0, <1>1, <2>1 DEF WindowInv, TypeOK
      <4>2. ToSet(windowIDs[windowWorkspace[x]]) \subseteq ToSet(windowIDs'[windowWorkspace[x]])
        BY <4>1, <1>2
      <4> QED BY <3>2, <4>1, <4>2, <2>1
    <3> QED BY <3>1, <3>2
  <2> QED BY <1>0, <2>1, <2>3, <2>4 DEF WindowInv
<1>6. LayoutInv' /\ StashInv'
  <2>1. LayoutInv'
    BY <1>0 DEF CreateWindow, LayoutInv, IsStashedPane
  <2> QED BY <1>0, <2>1, StashFrame DEF CreateWindow
<1>7. FocusOnScreen'
  <2>1. \A v \in windows : IsVisible(v) => IsVisible(v)' /\ windowWorkspace'[v] = windowWorkspace[v]
    BY <1>0, <1>1, <1>2 DEF CreateWindow, IsVisible, IsStashedWindow, TypeOK, Workspaces
  <2> QED BY <1>0, <2>1, FocusFrame DEF CreateWindow, Workspaces
<1> QED BY <1>3, <1>4, <1>5, <1>6, <1>7 DEF IInv

\* deleteWindow preserves IInv: it has no leaf, and its frontends are reset.
LEMMA DeleteWindowStep ==
  ASSUME IInv, NEW w \in WindowID, DeleteWindow(w)
  PROVE  IInv'
<1> USE IdentifierFacts DEF paneVars
<1>0. TypeOK /\ OrderInv /\ WindowInv /\ LayoutInv /\ StashInv /\ FocusOnScreen
  BY DEF IInv
<1> DEFINE ws == windowWorkspace[w]
<1>1. w \in windows /\ ws \in WorkspaceID /\ ~ IsStashedWindow(w) /\ layout[w] = <<>>
  BY <1>0 DEF DeleteWindow, TypeOK, WindowInv
<1>2. /\ windowIDs'[ws] \in Seq(WindowID)
      /\ IsInjective(windowIDs'[ws])
      /\ ToSet(windowIDs'[ws]) = ToSet(windowIDs[ws]) \ {w}
      /\ \A v \in WorkspaceID \ {ws} : windowIDs'[v] = windowIDs[v]
  <2>1. windowIDs'[ws] = Without(windowIDs[ws], w)
    BY <1>0, <1>1 DEF DeleteWindow, TypeOK
  <2>2. windowIDs[ws] \in Seq(WindowID) /\ IsInjective(windowIDs[ws])
    BY <1>0, <1>1 DEF TypeOK, WindowInv
  <2>3. \A v \in WorkspaceID \ {ws} : windowIDs'[v] = windowIDs[v]
    BY <1>0 DEF DeleteWindow, TypeOK
  <2> QED BY <1>1, <2>1, <2>2, <2>3, WithoutFacts
<1>3. /\ windowIDs' \in [WorkspaceID -> Seq(WindowID)]
      /\ windows' \in SUBSET WindowID
      /\ windowName' \in [WindowID -> Names \cup {NoName}]
      /\ windowWorkspace' \in [WindowID -> WorkspaceID \cup {0}]
  BY <1>0, <1>2 DEF DeleteWindow, TypeOK
<1>4. OrderInv'
  BY <1>0, OrderFrame DEF DeleteWindow, idVars
<1>5. /\ windows' = windows \ {w} /\ nextWindowID' = nextWindowID
      /\ \A v \in WindowID \ {w} : windowWorkspace'[v] = windowWorkspace[v]
      /\ \A v : IsStashedWindow(v)' <=> IsStashedWindow(v)
      /\ Workspaces' = Workspaces
  BY <1>0, <1>1 DEF DeleteWindow, TypeOK, IsStashedWindow, Workspaces, idVars
<1>6. WindowInv'
  <2>1. ASSUME NEW v \in WorkspaceID
        PROVE  /\ IsInjective(windowIDs'[v])
               /\ \A x \in ToSet(windowIDs'[v]) :
                    /\ v \in Workspaces'
                    /\ x \in windows'
                    /\ windowWorkspace'[x] = v
                    /\ ~ IsStashedWindow(x)'
    <3>1. IsInjective(windowIDs'[v])
      BY <1>0, <1>2 DEF WindowInv
    <3>2. \A x \in ToSet(windowIDs'[v]) : x \in ToSet(windowIDs[v]) /\ x # w
      BY <1>0, <1>1, <1>2, ListedWindow
    <3> QED BY <1>0, <1>5, <3>1, <3>2, ListedWindow
  <2>2. ASSUME NEW x \in windows'
        PROVE  /\ x < nextWindowID'
               /\ windowWorkspace'[x] # 0
               /\ ~ IsStashedWindow(x)' => x \in ToSet(windowIDs'[windowWorkspace'[x]])
    <3>1. /\ x \in windows /\ x # w /\ x \in WindowID /\ x < nextWindowID
          /\ windowWorkspace[x] \in WorkspaceID
          /\ ~ IsStashedWindow(x) => x \in ToSet(windowIDs[windowWorkspace[x]])
      BY <1>0, <1>5 DEF WindowInv, TypeOK
    <3>2. ToSet(windowIDs[windowWorkspace[x]]) \ {w} \subseteq ToSet(windowIDs'[windowWorkspace[x]])
      BY <3>1, <1>2
    <3> QED BY <3>1, <3>2, <1>5
  <2> QED BY <1>0, <1>1, <1>5, <2>1, <2>2 DEF WindowInv
<1>7. LayoutInv' /\ StashInv'
  <2>1. LayoutInv'
    BY <1>0, <1>1 DEF DeleteWindow, LayoutInv, IsStashedPane, idVars
  <2> QED BY <1>0, <2>1, StashFrame DEF DeleteWindow
<1>8. FocusOnScreen' /\ focus' \in [Frontends -> Focus]
  <2>1. ListsOK'
    BY <1>0, <1>3 DEF DeleteWindow, TypeOK, ListsOK
  <2> DEFINE S == FrontendsOnWindow(w)
  <2>2. /\ S \subseteq Frontends
        /\ \A f \in frontends \ S : focus[f].workspace \in Workspaces'
    BY <1>0, <1>5 DEF FrontendsOnWindow, TypeOK, FocusOnScreen
  <2>3. \A v \in windows \ {w} : IsVisible(v) => /\ IsVisible(v)'
                                                /\ windowWorkspace'[v] = windowWorkspace[v]
                                                /\ layout'[v] = layout[v]
    BY <1>0, <1>1, <1>2, <1>5 DEF DeleteWindow, IsVisible, TypeOK
  <2>4. ResetFocus(S) /\ UNCHANGED frontends
    BY DEF DeleteWindow
  <2>5. \A f \in frontends \ S : focus[f].window # w
    BY DEF FrontendsOnWindow
  <2> HIDE DEF S
  <2> QED BY <1>0, <1>4, <1>6, <2>1, <2>2, <2>3, <2>4, <2>5, ResetFocusFacts
<1>9. TypeOK'
  BY <1>0, <1>3, <1>8 DEF DeleteWindow, TypeOK, idVars
<1> QED BY <1>4, <1>6, <1>7, <1>8, <1>9 DEF IInv

\* stashWindow preserves IInv: no pane of it is stashed alone, and its frontends
\* are reset.
LEMMA StashWindowStep ==
  ASSUME IInv, NEW w \in WindowID, StashWindow(w)
  PROVE  IInv'
<1> USE IdentifierFacts DEF paneVars
<1>0. TypeOK /\ OrderInv /\ WindowInv /\ LayoutInv /\ StashInv /\ FocusOnScreen
  BY DEF IInv
<1> DEFINE ws == windowWorkspace[w]
<1>1. /\ w \in windows /\ ws \in WorkspaceID /\ ~ IsStashedWindow(w)
      /\ ws \in Workspaces /\ w \in ToSet(windowIDs[ws])
  BY <1>0 DEF StashWindow, TypeOK, WindowInv
<1>2. /\ windowIDs'[ws] \in Seq(WindowID)
      /\ IsInjective(windowIDs'[ws])
      /\ ToSet(windowIDs'[ws]) = ToSet(windowIDs[ws]) \ {w}
      /\ \A v \in WorkspaceID \ {ws} : windowIDs'[v] = windowIDs[v]
  <2>1. windowIDs'[ws] = Without(windowIDs[ws], w)
    BY <1>0, <1>1 DEF StashWindow, TypeOK
  <2>2. windowIDs[ws] \in Seq(WindowID) /\ IsInjective(windowIDs[ws])
    BY <1>0, <1>1 DEF TypeOK, WindowInv
  <2>3. \A v \in WorkspaceID \ {ws} : windowIDs'[v] = windowIDs[v]
    BY <1>0 DEF StashWindow, TypeOK
  <2> QED BY <1>1, <2>1, <2>2, <2>3, WithoutFacts
<1>3. windowIDs' \in [WorkspaceID -> Seq(WindowID)]
  BY <1>0, <1>2 DEF StashWindow, TypeOK
<1>4. OrderInv'
  BY <1>0, OrderFrame DEF StashWindow, idVars
<1>5. /\ windows' = windows /\ nextWindowID' = nextWindowID
      /\ windowWorkspace' = windowWorkspace
      /\ Workspaces' = Workspaces
  BY <1>0, <1>1 DEF StashWindow, Workspaces, idVars
<1>6. /\ stashedWindows' \in [WindowID -> WindowHint]
      /\ IsStashedWindow(w)'
      /\ \A v \in WindowID \ {w} : IsStashedWindow(v)' <=> IsStashedWindow(v)
  <2> DEFINE hint == [workspace |-> ws, index |-> IndexIn(windowIDs[ws], w) - 1]
  <2>1. stashedWindows' = [stashedWindows EXCEPT ![w] = hint]
    BY DEF StashWindow
  <2>2. hint \in WindowHint
    <3> DEFINE s == windowIDs[ws]
               i == IndexIn(s, w)
    <3>1. s \in Seq(WindowID) /\ i \in DOMAIN s
      BY <1>0, <1>1 DEF TypeOK, ToSet, IndexIn
    <3> HIDE DEF s, i
    <3>2. DOMAIN s = 1 .. Len(s) /\ Len(s) \in Nat
      BY <3>1, LenProperties
    <3>3. i - 1 \in Nat
      BY <3>1, <3>2
    <3> QED BY <1>1, <3>3 DEF WindowHint, s, i
  <2>3. hint.workspace # 0
    BY <1>1
  <2> HIDE DEF hint
  <2> QED BY <1>0, <2>1, <2>2, <2>3 DEF TypeOK, IsStashedWindow
<1>7. WindowInv'
  <2>1. ASSUME NEW v \in WorkspaceID
        PROVE  /\ IsInjective(windowIDs'[v])
               /\ \A x \in ToSet(windowIDs'[v]) :
                    /\ v \in Workspaces'
                    /\ x \in windows'
                    /\ windowWorkspace'[x] = v
                    /\ ~ IsStashedWindow(x)'
    <3>1. IsInjective(windowIDs'[v])
      BY <1>0, <1>2 DEF WindowInv
    <3>2. \A x \in ToSet(windowIDs'[v]) : x \in ToSet(windowIDs[v]) /\ x # w
      BY <1>0, <1>1, <1>2, ListedWindow
    <3> QED BY <1>0, <1>5, <1>6, <3>1, <3>2, ListedWindow
  <2>2. ASSUME NEW x \in windows'
        PROVE  /\ x < nextWindowID'
               /\ windowWorkspace'[x] # 0
               /\ ~ IsStashedWindow(x)' => x \in ToSet(windowIDs'[windowWorkspace'[x]])
    <3>1. /\ x \in windows /\ x \in WindowID /\ x < nextWindowID
          /\ windowWorkspace[x] \in WorkspaceID
          /\ ~ IsStashedWindow(x) => x \in ToSet(windowIDs[windowWorkspace[x]])
      BY <1>0, <1>5 DEF WindowInv, TypeOK
    <3>2. ToSet(windowIDs[windowWorkspace[x]]) \ {w} \subseteq ToSet(windowIDs'[windowWorkspace[x]])
      BY <3>1, <1>2
    <3> QED BY <3>1, <3>2, <1>5, <1>6
  <2> QED BY <1>0, <1>1, <1>5, <1>6, <2>1, <2>2 DEF WindowInv
<1>8. LayoutInv'
  BY <1>0, LayoutFrame DEF StashWindow, idVars
<1>9. StashInv'
  <2>1. ASSUME NEW p \in panes, IsStashedPane(p)
        PROVE  paneWindow[p] # w /\ paneWindow[p] \in WindowID
    BY <1>0, <2>1 DEF StashInv, LayoutInv, StashWindow, HasStashedPanes, TypeOK
  <2> QED BY <1>0, <1>6, <2>1 DEF StashWindow, StashInv, IsStashedPane
<1>10. FocusOnScreen' /\ focus' \in [Frontends -> Focus]
  <2>1. ListsOK'
    BY <1>0, <1>3 DEF StashWindow, TypeOK, ListsOK
  <2> DEFINE S == FrontendsOnWindow(w)
  <2>2. /\ S \subseteq Frontends
        /\ \A f \in frontends \ S : focus[f].workspace \in Workspaces'
    BY <1>0, <1>5 DEF FrontendsOnWindow, TypeOK, FocusOnScreen
  <2>3. \A v \in windows \ {w} : IsVisible(v) => /\ IsVisible(v)'
                                                /\ windowWorkspace'[v] = windowWorkspace[v]
                                                /\ layout'[v] = layout[v]
    BY <1>0, <1>1, <1>2, <1>5, <1>6 DEF StashWindow, IsVisible, TypeOK
  <2>4. ResetFocus(S) /\ UNCHANGED frontends
    BY DEF StashWindow
  <2>5. \A f \in frontends \ S : focus[f].window # w
    BY DEF FrontendsOnWindow
  <2> HIDE DEF S
  <2> QED BY <1>0, <1>4, <1>7, <2>1, <2>2, <2>3, <2>4, <2>5, ResetFocusFacts
<1>11. TypeOK'
  BY <1>0, <1>3, <1>6, <1>10 DEF StashWindow, TypeOK, idVars
<1> QED BY <1>4, <1>7, <1>8, <1>9, <1>10, <1>11 DEF IInv

\* A window restored to a workspace that exists, at a place of its list, keeps
\* IInv.
LEMMA RestoreWindowAtStep ==
  ASSUME IInv, NEW w \in WindowID, NEW ws, NEW index \in 0 .. Len(windowIDs[ws]),
         RestoreWindowAt(w, ws, index)
  PROVE  IInv'
<1> USE IdentifierFacts DEF paneVars, frontendVars
<1>0. TypeOK /\ OrderInv /\ WindowInv /\ LayoutInv /\ StashInv /\ FocusOnScreen
  BY DEF IInv
<1>1. /\ w \in windows /\ IsStashedWindow(w) /\ ws \in Workspaces /\ ws \in WorkspaceID
      /\ \A v \in WorkspaceID : w \notin ToSet(windowIDs[v])
  BY <1>0, ToSetType DEF RestoreWindowAt, TypeOK, WindowInv, Workspaces
<1>2. /\ windowIDs'[ws] \in Seq(WindowID)
      /\ IsInjective(windowIDs'[ws])
      /\ ToSet(windowIDs'[ws]) = ToSet(windowIDs[ws]) \cup {w}
      /\ \A v \in WorkspaceID \ {ws} : windowIDs'[v] = windowIDs[v]
  <2>1. windowIDs'[ws] = InsertAt(windowIDs[ws], index + 1, w)
    BY <1>0, <1>1 DEF RestoreWindowAt, TypeOK
  <2>2. windowIDs[ws] \in Seq(WindowID) /\ IsInjective(windowIDs[ws])
    BY <1>0, <1>1 DEF TypeOK, WindowInv
  <2>3. \A v \in WorkspaceID \ {ws} : windowIDs'[v] = windowIDs[v]
    BY <1>0 DEF RestoreWindowAt, TypeOK
  <2> DEFINE s == windowIDs[ws]
             i == index + 1
  <2>4. s \in Seq(WindowID) /\ IsInjective(s) /\ w \in WindowID \ ToSet(s)
    BY <1>1, <2>2
  <2>5. i \in 1 .. (Len(s) + 1)
    <3>1. Len(s) \in Nat
      BY <2>2, LenProperties
    <3> QED BY <3>1
  <2>6. windowIDs'[ws] = InsertAt(s, i, w)
    BY <2>1
  <2> HIDE DEF s, i
  <2>7. /\ InsertAt(s, i, w) \in Seq(WindowID)
        /\ IsInjective(InsertAt(s, i, w))
        /\ ToSet(InsertAt(s, i, w)) = ToSet(s) \cup {w}
    BY <2>4, <2>5, InsertAtFacts
  <2> QED BY <2>3, <2>6, <2>7 DEF s
<1>3. TypeOK'
  <2>1. /\ windowIDs' \in [WorkspaceID -> Seq(WindowID)]
        /\ windowWorkspace' \in [WindowID -> WorkspaceID \cup {0}]
    BY <1>0, <1>1, <1>2 DEF RestoreWindowAt, TypeOK
  <2>2. stashedWindows' \in [WindowID -> WindowHint]
    BY <1>0 DEF RestoreWindowAt, TypeOK, NoWindowHint, WindowHint
  <2> QED BY <1>0, <2>1, <2>2 DEF RestoreWindowAt, TypeOK, idVars
<1>4. OrderInv'
  BY <1>0, OrderFrame DEF RestoreWindowAt, idVars
<1>5. /\ windows' = windows /\ nextWindowID' = nextWindowID
      /\ windowWorkspace'[w] = ws
      /\ \A v \in WindowID \ {w} : windowWorkspace'[v] = windowWorkspace[v]
      /\ \A v \in WindowID \ {w} : IsStashedWindow(v)' <=> IsStashedWindow(v)
      /\ ~ IsStashedWindow(w)'
      /\ Workspaces' = Workspaces
  BY <1>0 DEF RestoreWindowAt, TypeOK, IsStashedWindow, NoWindowHint, Workspaces, idVars
<1>6. WindowInv'
  <2>1. ASSUME NEW v \in WorkspaceID
        PROVE  /\ IsInjective(windowIDs'[v])
               /\ \A x \in ToSet(windowIDs'[v]) :
                    /\ v \in Workspaces'
                    /\ x \in windows'
                    /\ windowWorkspace'[x] = v
                    /\ ~ IsStashedWindow(x)'
    <3>1. \A x \in ToSet(windowIDs[v]) :
            /\ v \in Workspaces /\ x \in windows /\ windowWorkspace[x] = v
            /\ ~ IsStashedWindow(x) /\ x \in WindowID /\ x # w
      BY <1>0, <1>1, ListedWindow
    <3>2. IsInjective(windowIDs'[v])
      BY <1>0, <1>2 DEF WindowInv
    <3>3. \A x \in ToSet(windowIDs'[v]) : x \in ToSet(windowIDs[v]) \/ (v = ws /\ x = w)
      BY <1>2
    <3> QED BY <1>1, <1>5, <3>1, <3>2, <3>3
  <2>2. ASSUME NEW x \in windows'
        PROVE  /\ x < nextWindowID'
               /\ windowWorkspace'[x] # 0
               /\ ~ IsStashedWindow(x)' => x \in ToSet(windowIDs'[windowWorkspace'[x]])
    <3>1. /\ x \in windows /\ x \in WindowID /\ x < nextWindowID
          /\ windowWorkspace[x] \in WorkspaceID
          /\ ~ IsStashedWindow(x) => x \in ToSet(windowIDs[windowWorkspace[x]])
      BY <1>0, <1>5 DEF WindowInv, TypeOK
    <3>2. ToSet(windowIDs[windowWorkspace[x]]) \subseteq ToSet(windowIDs'[windowWorkspace[x]])
      BY <3>1, <1>2
    <3>3. w \in ToSet(windowIDs'[ws])
      BY <1>2
    <3> QED BY <3>1, <3>2, <3>3, <1>1, <1>5
  <2> QED BY <1>0, <1>1, <1>5, <2>1, <2>2 DEF WindowInv
<1>7. LayoutInv' /\ StashInv'
  <2>1. LayoutInv'
    BY <1>0, LayoutFrame DEF RestoreWindowAt, idVars
  <2>2. \A p \in panes : paneWindow[p] \in WindowID
    BY <1>0 DEF LayoutInv, TypeOK
  <2> QED BY <1>0, <1>5, <2>1, <2>2 DEF RestoreWindowAt, StashInv, IsStashedPane
<1>8. FocusOnScreen'
  <2>1. \A v \in windows : IsVisible(v) => v # w /\ IsVisible(v)'
                                          /\ windowWorkspace'[v] = windowWorkspace[v]
    <3>1. ASSUME NEW v \in windows, IsVisible(v)
          PROVE  v # w /\ v \in WindowID /\ windowWorkspace[v] \in WorkspaceID
      BY <1>0, <1>1, <3>1 DEF IsVisible, TypeOK, WindowInv
    <3>2. ASSUME NEW v \in WorkspaceID
          PROVE  ToSet(windowIDs[v]) \subseteq ToSet(windowIDs'[v])
      BY <1>2
    <3> QED BY <3>1, <3>2, <1>5 DEF IsVisible
  <2> QED BY <1>0, <1>5, <2>1, FocusFrame DEF RestoreWindowAt
<1> QED BY <1>3, <1>4, <1>6, <1>7, <1>8 DEF IInv

\* restoreWindow to the hinted workspace preserves IInv: the workspace a frontend
\* looks at exists.
LEMMA RestoreWindowStep ==
  ASSUME IInv, NEW w \in WindowID, NEW f \in Frontends, RestoreWindow(w, f)
  PROVE  IInv'
<1> DEFINE ws == HintedWorkspace(w, f)
           hint == stashedWindows[w]
           last == Len(windowIDs[ws])
           index == IF ws = hint.workspace /\ hint.index < last THEN hint.index ELSE last
<1>1. RestoreWindowAt(w, ws, index)
  BY DEF RestoreWindow
<1>2. index \in 0 .. last
  <2>1. TypeOK
    BY DEF IInv
  <2>2. ws \in WorkspaceID
    BY <1>1, <2>1, ToSetType DEF RestoreWindowAt, Workspaces, TypeOK
  <2>3. last \in Nat
    BY <2>1, <2>2, LenProperties DEF TypeOK
  <2>4. hint.index \in Nat
    BY <2>1 DEF TypeOK, WindowHint
  <2> HIDE DEF last, hint
  <2> QED BY <2>3, <2>4
<1> HIDE DEF ws, index
<1> QED BY <1>1, <1>2, RestoreWindowAtStep

\* restoreWindow to a named workspace preserves IInv.
LEMMA RestoreWindowToStep ==
  ASSUME IInv, NEW w \in WindowID, NEW ws \in WorkspaceID, RestoreWindowTo(w, ws)
  PROVE  IInv'
<1>1. windowIDs[ws] \in Seq(WindowID)
  BY DEF IInv, TypeOK
<1>2. Len(windowIDs[ws]) \in 0 .. Len(windowIDs[ws])
  BY <1>1, LenProperties
<1> QED BY <1>2, RestoreWindowAtStep DEF RestoreWindowTo

\* What a layout shows.
LEMMA LaidOutPane ==
  ASSUME TypeOK, LayoutInv, NEW w \in WindowID, NEW p \in ToSet(layout[w])
  PROVE  p \in panes /\ p \in PaneID /\ paneWindow[p] = w /\ ~ IsStashedPane(p)
<1>1. panes \subseteq PaneID
  BY DEF TypeOK
<1> QED BY <1>1 DEF LayoutInv

\* The identifier of a new pane was never used.
LEMMA NewPane ==
  ASSUME TypeOK, LayoutInv, NEW p, AllocatePane(p)
  PROVE  /\ p \in PaneID /\ p \notin panes /\ ~ IsStashedPane(p)
         /\ \A w \in WindowID : p \notin ToSet(layout[w])
<1>1. p \in PaneID /\ p \notin panes
  BY CoreAssumption DEF AllocatePane, TypeOK, PaneID, LayoutInv
<1> QED BY <1>1, LaidOutPane DEF LayoutInv

\* A new pane joins the leaves of window w.
LEMMA AddPaneStep ==
  ASSUME IInv, NEW w \in windows, NEW p, NEW L \in Seq(PaneID),
         AllocatePane(p), AddPane(p, w),
         IsInjective(L), ToSet(L) = ToSet(layout[w]) \cup {p},
         layout' = [layout EXCEPT ![w] = L], UNCHANGED <<transient, stashedPanes>>
  PROVE  IInv'
<1> USE IdentifierFacts DEF workspaceVars, windowVars, frontendVars
<1>0. TypeOK /\ OrderInv /\ WindowInv /\ LayoutInv /\ StashInv /\ FocusOnScreen
  BY DEF IInv
<1>1. /\ p \in PaneID /\ p \notin panes /\ ~ IsStashedPane(p)
      /\ \A v \in WindowID : p \notin ToSet(layout[v])
      /\ w \in WindowID
  BY <1>0, NewPane DEF TypeOK
<1>2. /\ layout'[w] = L /\ \A v \in WindowID \ {w} : layout'[v] = layout[v]
      /\ layout' \in [WindowID -> Seq(PaneID)]
  BY <1>0, <1>1 DEF TypeOK
<1>3. /\ paneWindow' \in [PaneID -> WindowID \cup {0}]
      /\ paneWindow'[p] = w /\ \A q \in PaneID \ {p} : paneWindow'[q] = paneWindow[q]
      /\ panes' = panes \cup {p} /\ nextPaneID' = p + 1
      /\ \A q : IsStashedPane(q)' <=> IsStashedPane(q)
  BY <1>0, <1>1 DEF AddPane, AllocatePane, TypeOK, IsStashedPane
<1>4. TypeOK'
  <2>1. nextPaneID' \in 1 .. PaneLimit
    BY <1>0, <1>3, CoreAssumption DEF AllocatePane, TypeOK
  <2> QED BY <1>0, <1>1, <1>2, <1>3, <2>1 DEF AddPane, TypeOK
<1>5. OrderInv' /\ WindowInv'
  BY <1>0, OrderFrame, WindowFrame DEF AddPane
<1>6. LayoutInv'
  <2>1. \A v \in WindowID \ windows' : layout'[v] = <<>>
    BY <1>0, <1>1, <1>2 DEF AddPane, LayoutInv
  <2>2. ASSUME NEW v \in WindowID
        PROVE  /\ IsInjective(layout'[v])
               /\ \A q \in ToSet(layout'[v]) :
                    q \in panes' /\ paneWindow'[q] = v /\ ~ IsStashedPane(q)'
    <3>1. CASE v = w
      <4>1. \A q \in ToSet(L) : q = p \/ (q \in ToSet(layout[w]) /\ q # p)
        BY <1>1
      <4>2. \A q \in ToSet(layout[w]) :
              q \in panes /\ q \in PaneID /\ paneWindow[q] = w /\ ~ IsStashedPane(q)
        BY <1>0, <1>1, LaidOutPane
      <4>3. ASSUME NEW q \in ToSet(layout'[v])
            PROVE  q \in panes' /\ paneWindow'[q] = v /\ ~ IsStashedPane(q)'
        <5>1. q \in ToSet(L)
          BY <3>1, <1>2
        <5>2. CASE q = p
          BY <5>2, <3>1, <1>1, <1>3
        <5>3. CASE q # p
          BY <5>1, <5>3, <4>1, <4>2, <3>1, <1>3
        <5> QED BY <5>2, <5>3
      <4>4. IsInjective(layout'[v])
        BY <3>1, <1>2
      <4> QED BY <4>3, <4>4
    <3>2. CASE v # w
      <4>1. layout'[v] = layout[v] /\ IsInjective(layout[v])
        BY <3>2, <1>0, <1>2 DEF LayoutInv
      <4> QED BY <4>1, <1>0, <1>1, <1>3, LaidOutPane
    <3> QED BY <3>1, <3>2
  <2>3. ASSUME NEW q \in panes'
        PROVE  /\ q < nextPaneID'
               /\ paneWindow'[q] # 0
               /\ ~ IsStashedPane(q)' => q \in ToSet(layout'[paneWindow'[q]])
    <3>1. CASE q = p
      BY <3>1, <1>1, <1>2, <1>3
    <3>2. CASE q # p
      <4>1. /\ q \in panes /\ q \in PaneID /\ q < p /\ paneWindow[q] \in WindowID
            /\ ~ IsStashedPane(q) => q \in ToSet(layout[paneWindow[q]])
        BY <3>2, <1>0, <1>3 DEF LayoutInv, TypeOK, AllocatePane
      <4>2. ToSet(layout[paneWindow[q]]) \subseteq ToSet(layout'[paneWindow[q]])
        BY <4>1, <1>2
      <4>3. q < p + 1
        BY <4>1, <1>1
      <4> QED BY <3>2, <4>1, <4>2, <4>3, <1>3
    <3> QED BY <3>1, <3>2
  <2> QED BY <1>0, <1>3, <2>1, <2>2, <2>3 DEF LayoutInv
<1>7. StashInv'
  BY <1>0, <1>1, <1>3 DEF StashInv, AddPane, TypeOK, IsStashedWindow
<1>8. FocusOnScreen'
  <2>1. \A v \in windows : ToSet(layout[v]) \subseteq ToSet(layout'[v]) /\ (IsVisible(v) => IsVisible(v)')
    BY <1>0, <1>2 DEF TypeOK, AddPane, IsVisible, IsStashedWindow, Workspaces
  <2> QED BY <1>0, <2>1, FocusFrame DEF AddPane, Workspaces
<1> QED BY <1>4, <1>5, <1>6, <1>7, <1>8 DEF IInv

\* createPane preserves IInv: the new pane is the only leaf of its window.
LEMMA CreatePaneStep ==
  ASSUME IInv, NEW w \in WindowID, NEW p \in PaneID, CreatePane(w, p)
  PROVE  IInv'
<1>1. /\ <<p>> \in Seq(PaneID) /\ IsInjective(<<p>>)
      /\ ToSet(<<p>>) = {p} /\ ToSet(<<>>) = {}
  BY DEF ToSet, IsInjective
<1> QED BY <1>1, AddPaneStep DEF CreatePane

\* splitPane preserves IInv: the new pane is a leaf beside its target.
LEMMA SplitPaneStep ==
  ASSUME IInv, NEW t \in PaneID, NEW p \in PaneID, SplitPane(t, p)
  PROVE  IInv'
<1> DEFINE w == paneWindow[t]
           L == Beside(layout[w], t, "after", p)
<1>1. /\ w \in windows /\ w \in WindowID /\ t \in ToSet(layout[w])
      /\ layout[w] \in Seq(PaneID) /\ IsInjective(layout[w])
      /\ p \in PaneID \ ToSet(layout[w])
  <2>1. TypeOK /\ LayoutInv /\ t \in ToSet(layout[w]) /\ t \in panes
    BY DEF IInv, SplitPane, OnScreen
  <2>2. w \in WindowID
    BY <2>1 DEF LayoutInv, TypeOK
  <2>3. layout[w] # <<>>
    BY <2>1, <2>2, FirstPaneFacts DEF TypeOK
  <2> QED BY <2>1, <2>2, <2>3, NewPane DEF LayoutInv, TypeOK, SplitPane
<1>2. L \in Seq(PaneID) /\ IsInjective(L) /\ ToSet(L) = ToSet(layout[w]) \cup {p}
  <2> DEFINE s == layout[w]
  <2>1. s \in Seq(PaneID) /\ IsInjective(s) /\ p \in PaneID \ ToSet(s) /\ t \in ToSet(s)
    BY <1>1
  <2> HIDE DEF s
  <2>2. /\ Beside(s, t, "after", p) \in Seq(PaneID)
        /\ IsInjective(Beside(s, t, "after", p))
        /\ ToSet(Beside(s, t, "after", p)) = ToSet(s) \cup {p}
    BY <2>1, BesideFacts
  <2> QED BY <2>2 DEF s
<1>3. /\ AllocatePane(p) /\ AddPane(p, w) /\ UNCHANGED <<transient, stashedPanes>>
      /\ layout' = [layout EXCEPT ![w] = L]
  BY DEF SplitPane
<1> HIDE DEF L, w
<1> QED BY <1>1, <1>2, <1>3, AddPaneStep

\* createTransientPane preserves IInv: its window is not stashed.
LEMMA CreateTransientPaneStep ==
  ASSUME IInv, NEW w \in WindowID, NEW p \in PaneID, CreateTransientPane(w, p)
  PROVE  IInv'
<1> USE IdentifierFacts DEF workspaceVars, windowVars, frontendVars
<1>0. TypeOK /\ OrderInv /\ WindowInv /\ LayoutInv /\ StashInv /\ FocusOnScreen
  BY DEF IInv
<1> DEFINE hint == [NoPaneHint EXCEPT !.workspace = windowWorkspace[w], !.window = w]
<1>1. /\ p \notin panes /\ ~ IsStashedPane(p)
      /\ \A v \in WindowID : p \notin ToSet(layout[v])
  BY <1>0, NewPane DEF CreateTransientPane
<1>2. hint \in PaneHint /\ hint.window = w
  BY <1>0 DEF NoPaneHint, PaneHint, Sides, TypeOK
<1> HIDE DEF hint
<1>3. /\ paneWindow' \in [PaneID -> WindowID \cup {0}]
      /\ paneWindow'[p] = w /\ \A q \in PaneID \ {p} : paneWindow'[q] = paneWindow[q]
      /\ panes' = panes \cup {p} /\ nextPaneID' = p + 1
      /\ stashedPanes' \in [PaneID -> PaneHint] /\ stashedPanes'[p] = hint
      /\ \A q \in PaneID \ {p} : stashedPanes'[q] = stashedPanes[q]
      /\ transient' = transient \cup {p}
  <2>1. stashedPanes' = [stashedPanes EXCEPT ![p] = hint]
    BY DEF CreateTransientPane, hint
  <2> QED BY <1>0, <1>1, <1>2, <2>1 DEF CreateTransientPane, AddPane, AllocatePane, TypeOK
<1>4. /\ IsStashedPane(p)'
      /\ \A q \in PaneID \ {p} : IsStashedPane(q)' <=> IsStashedPane(q)
  BY <1>2, <1>3 DEF IsStashedPane
<1>5. TypeOK'
  <2>1. nextPaneID' \in 1 .. PaneLimit
    BY <1>0, <1>3, CoreAssumption DEF CreateTransientPane, AllocatePane, TypeOK
  <2> QED BY <1>0, <1>1, <1>3, <2>1 DEF CreateTransientPane, AddPane, TypeOK
<1>6. OrderInv' /\ WindowInv'
  BY <1>0, OrderFrame, WindowFrame DEF CreateTransientPane, AddPane
<1>7. LayoutInv'
  <2>1. windows' = windows /\ layout' = layout
    BY DEF CreateTransientPane, AddPane
  <2>2. ASSUME NEW v \in WindowID, NEW q \in ToSet(layout'[v])
        PROVE  q \in panes' /\ paneWindow'[q] = v /\ ~ IsStashedPane(q)'
    BY <2>1, <1>0, <1>1, <1>3, <1>4, LaidOutPane
  <2>3. ASSUME NEW q \in panes'
        PROVE  /\ q < nextPaneID'
               /\ paneWindow'[q] # 0
               /\ ~ IsStashedPane(q)' => q \in ToSet(layout'[paneWindow'[q]])
    <3>1. CASE q = p
      BY <3>1, <1>3, <1>4
    <3>2. CASE q # p
      <4>1. /\ q \in panes /\ q \in PaneID /\ q < p /\ paneWindow[q] # 0
            /\ ~ IsStashedPane(q) => q \in ToSet(layout[paneWindow[q]])
        BY <3>2, <1>0, <1>3 DEF LayoutInv, TypeOK, CreateTransientPane, AllocatePane
      <4> QED BY <3>2, <4>1, <2>1, <1>3, <1>4
    <3> QED BY <3>1, <3>2
  <2>4. \A q \in transient' : IsStashedPane(q)'
    BY <1>0, <1>3, <1>4 DEF LayoutInv, TypeOK
  <2>5. \A q \in PaneID \ panes' : ~ IsStashedPane(q)'
    BY <1>0, <1>3, <1>4 DEF LayoutInv
  <2> QED BY <1>0, <2>1, <2>2, <2>3, <2>4, <2>5 DEF LayoutInv
<1>8. StashInv'
  BY <1>0, <1>1, <1>2, <1>3, <1>4 DEF StashInv, CreateTransientPane, AddPane, TypeOK, IsStashedWindow
<1>9. FocusOnScreen'
  BY <1>0, FocusFrame DEF CreateTransientPane, AddPane, Workspaces, IsVisible, IsStashedWindow
<1> QED BY <1>5, <1>6, <1>7, <1>8, <1>9 DEF IInv

\* movePane within a window preserves IInv: the leaves stay the same set.
LEMMA MovePaneWithinStep ==
  ASSUME IInv, NEW p \in PaneID, NEW t \in PaneID, MovePaneWithin(p, t)
  PROVE  IInv'
<1> USE DEF idVars, workspaceVars, windowVars, paneVars, frontendVars
<1>0. TypeOK /\ OrderInv /\ WindowInv /\ LayoutInv /\ StashInv /\ FocusOnScreen
  BY DEF IInv
<1> DEFINE w == paneWindow[p]
           s == layout[w]
           r == Without(s, p)
           L == Beside(r, t, "after", p)
<1>1. /\ w \in WindowID /\ s \in Seq(PaneID) /\ IsInjective(s)
      /\ p \in ToSet(s) /\ t \in ToSet(s) \ {p}
      /\ layout' = [layout EXCEPT ![w] = L]
  BY <1>0 DEF MovePaneWithin, OnScreen, TypeOK, LayoutInv
<1> HIDE DEF w, s
<1>2. r \in Seq(PaneID) /\ IsInjective(r) /\ ToSet(r) = ToSet(s) \ {p}
  BY <1>1, WithoutFacts
<1> HIDE DEF r
<1>3. L \in Seq(PaneID) /\ IsInjective(L) /\ ToSet(L) = ToSet(s)
  <2>1. p \in PaneID \ ToSet(r) /\ t \in ToSet(r)
    BY <1>1, <1>2
  <2>2. L \in Seq(PaneID) /\ IsInjective(L) /\ ToSet(L) = ToSet(r) \cup {p}
    BY <1>2, <2>1, BesideFacts
  <2> QED BY <1>1, <1>2, <2>2
<1> HIDE DEF L
<1>4. \A v \in WindowID : /\ layout'[v] \in Seq(PaneID) /\ ToSet(layout'[v]) = ToSet(layout[v])
                          /\ IsInjective(layout'[v])
  BY <1>0, <1>1, <1>3 DEF TypeOK, LayoutInv, s
<1>5. TypeOK'
  <2>1. layout' \in [WindowID -> Seq(PaneID)]
    BY <1>0, <1>1, <1>3 DEF TypeOK
  <2> QED BY <1>0, <2>1 DEF MovePaneWithin, TypeOK
<1>6. OrderInv' /\ WindowInv' /\ StashInv'
  BY <1>0, OrderFrame, WindowFrame, StashFrame DEF MovePaneWithin
<1>7. LayoutInv'
  <2>1. \A v \in WindowID \ windows : layout'[v] = <<>>
    <3>1. ASSUME NEW v \in WindowID \ windows
          PROVE  layout'[v] = <<>>
      <4>1. layout[v] \in Seq(PaneID) /\ layout[v] = <<>>
        BY <1>0 DEF LayoutInv, TypeOK
      <4> QED BY <1>4, <4>1, FirstPaneFacts
    <3> QED BY <3>1
  <2>2. \A q \in panes : paneWindow[q] \in WindowID
    BY <1>0 DEF LayoutInv, TypeOK
  <2>3. ASSUME NEW v \in WindowID, NEW q \in ToSet(layout'[v])
        PROVE  q \in panes /\ paneWindow[q] = v /\ ~ IsStashedPane(q)
    BY <1>0, <1>4, LaidOutPane
  <2>4. \A q \in panes : ~ IsStashedPane(q) => q \in ToSet(layout'[paneWindow[q]])
    BY <1>0, <1>4, <2>2 DEF LayoutInv
  <2>5. UNCHANGED <<windows, panes, paneWindow, transient, stashedPanes, nextPaneID>>
    BY DEF MovePaneWithin
  <2>6. \A q : IsStashedPane(q)' <=> IsStashedPane(q)
    BY <2>5 DEF IsStashedPane
  <2> QED BY <1>0, <1>4, <2>1, <2>3, <2>4, <2>5, <2>6 DEF LayoutInv
<1>8. FocusOnScreen'
  <2>1. windows \subseteq WindowID
    BY <1>0 DEF TypeOK
  <2> QED BY <1>0, <1>4, <2>1, FocusFrame DEF MovePaneWithin, Workspaces, IsVisible, IsStashedWindow
<1> QED BY <1>5, <1>6, <1>7, <1>8 DEF IInv

\* The frontends that looked at a hidden pane look at the first one left.
LEMMA HidePaneFacts ==
  ASSUME NEW p \in PaneID, NEW w \in WindowID, TypeOK, FocusOnScreen, HidePane(p, w),
         UNCHANGED <<frontends, workspaceVars, windowVars>>,
         layout' \in [WindowID -> Seq(PaneID)],
         ToSet(layout'[w]) = ToSet(layout[w]) \ {p},
         \A v \in WindowID \ {w} : layout'[v] = layout[v] /\ p \notin ToSet(layout[v])
  PROVE  FocusOnScreen' /\ focus' \in [Frontends -> Focus]
<1> USE IdentifierFacts
<1>0. FirstPane(layout'[w]) = 0 \/ FirstPane(layout'[w]) \in ToSet(layout'[w])
  BY FirstPaneFacts
<1>1. FirstPane(layout'[w]) \in 0 .. PaneLimit
  <2>1. layout'[w] \in Seq(PaneID)
    OBVIOUS
  <2>2. ToSet(layout'[w]) \subseteq PaneID
    BY <2>1, ToSetType
  <2> QED BY <1>0, <2>2
<1>2. focus' \in [Frontends -> Focus]
  <2>1. ASSUME NEW f \in Frontends
        PROVE  [focus[f] EXCEPT !.pane = FirstPane(layout'[w])] \in Focus /\ focus[f] \in Focus
    <3> DEFINE x == FirstPane(layout'[w])
    <3>1. x \in 0 .. PaneLimit
      BY <1>1
    <3> HIDE DEF x
    <3>2. focus[f] \in Focus
      BY DEF TypeOK
    <3>3. [focus[f] EXCEPT !.pane = x] \in Focus
      BY <3>1, <3>2 DEF Focus
    <3> QED BY <3>2, <3>3 DEF x
  <2> QED BY <2>1 DEF HidePane
<1>3. /\ Workspaces' = Workspaces
      /\ windowWorkspace' = windowWorkspace
      /\ \A v : IsVisible(v)' <=> IsVisible(v)
  BY DEF workspaceVars, windowVars, Workspaces, IsVisible, IsStashedWindow
<1>4. ASSUME NEW f \in frontends'
      PROVE  /\ focus'[f].workspace \in Workspaces'
             /\ focus'[f].window # 0 =>
                  /\ IsVisible(focus'[f].window)
                  /\ windowWorkspace'[focus'[f].window] = focus'[f].workspace
             /\ focus'[f].pane # 0 =>
                  /\ focus'[f].window # 0
                  /\ focus'[f].pane \in ToSet(layout'[focus'[f].window])
  <2>1. f \in frontends /\ f \in Frontends /\ focus[f] \in Focus
    BY DEF TypeOK
  <2>2. /\ focus[f].workspace \in Workspaces
        /\ focus[f].window # 0 =>
             /\ IsVisible(focus[f].window)
             /\ windowWorkspace[focus[f].window] = focus[f].workspace
             /\ focus[f].window \in WindowID
        /\ focus[f].pane # 0 =>
             /\ focus[f].window # 0
             /\ focus[f].pane \in ToSet(layout[focus[f].window])
    BY <2>1 DEF FocusOnScreen, IsVisible, TypeOK
  <2>3. CASE focus[f].pane = p
    <3>1. focus'[f] = [focus[f] EXCEPT !.pane = FirstPane(layout'[w])]
      BY <2>1, <2>3 DEF HidePane
    <3>2. /\ focus'[f].workspace = focus[f].workspace
          /\ focus'[f].window = focus[f].window
          /\ focus'[f].pane = FirstPane(layout'[w])
      BY <2>1, <3>1 DEF Focus
    <3>3. focus'[f].pane # 0 => focus[f].window = w
      <4> SUFFICES ASSUME focus'[f].pane # 0 PROVE focus[f].window = w
        OBVIOUS
      <4>1. p # 0
        OBVIOUS
      <4> QED BY <4>1, <2>2, <2>3
    <3> QED BY <1>0, <1>3, <2>2, <3>2, <3>3
  <2>4. CASE focus[f].pane # p
    <3>1. focus'[f] = focus[f]
      BY <2>1, <2>4 DEF HidePane
    <3>2. focus[f].pane # 0 => focus[f].pane \in ToSet(layout'[focus[f].window])
      BY <2>2, <2>4
    <3> QED BY <1>3, <2>2, <3>1, <3>2
  <2> QED BY <2>3, <2>4
<1> QED BY <1>2, <1>3, <1>4 DEF FocusOnScreen

\* A leaf leaves the layout of its window.
LEMMA WithoutLeaf ==
  ASSUME TypeOK, LayoutInv, NEW w \in WindowID, NEW p,
         layout' = [layout EXCEPT ![w] = Without(@, p)]
  PROVE  /\ layout' \in [WindowID -> Seq(PaneID)]
         /\ IsInjective(layout'[w])
         /\ ToSet(layout'[w]) = ToSet(layout[w]) \ {p}
         /\ \A v \in WindowID \ {w} : layout'[v] = layout[v]
<1> DEFINE s == layout[w]
<1>1. s \in Seq(PaneID) /\ IsInjective(s)
  BY DEF TypeOK, LayoutInv
<1>2. layout'[w] = Without(s, p) /\ \A v \in WindowID \ {w} : layout'[v] = layout[v]
  BY DEF TypeOK
<1>3. layout' = [layout EXCEPT ![w] = Without(s, p)]
  OBVIOUS
<1> HIDE DEF s
<1>4. /\ Without(s, p) \in Seq(PaneID) /\ IsInjective(Without(s, p))
      /\ ToSet(Without(s, p)) = ToSet(s) \ {p}
  BY <1>1, WithoutFacts
<1>5. layout' \in [WindowID -> Seq(PaneID)]
  BY <1>3, <1>4 DEF TypeOK
<1> QED BY <1>2, <1>4, <1>5 DEF s

\* closePane preserves IInv: the focus moves to the first remaining leaf.
LEMMA ClosePaneStep ==
  ASSUME IInv, NEW p \in PaneID, ClosePane(p)
  PROVE  IInv'
<1> USE IdentifierFacts DEF idVars, workspaceVars, windowVars
<1>0. TypeOK /\ OrderInv /\ WindowInv /\ LayoutInv /\ StashInv /\ FocusOnScreen
  BY DEF IInv
<1> DEFINE w == paneWindow[p]
<1>1. p \in panes /\ w \in WindowID
  BY <1>0 DEF ClosePane, TypeOK, LayoutInv
<1>2. /\ layout' \in [WindowID -> Seq(PaneID)]
      /\ IsInjective(layout'[w])
      /\ ToSet(layout'[w]) = ToSet(layout[w]) \ {p}
      /\ \A v \in WindowID \ {w} : layout'[v] = layout[v]
  <2>1. CASE IsStashedPane(p)
    <3>1. layout' = layout
      BY <2>1, <1>0 DEF ClosePane, TypeOK
    <3>2. p \notin ToSet(layout[w])
      BY <2>1, <1>0, <1>1, LaidOutPane
    <3>3. ToSet(layout[w]) = ToSet(layout[w]) \ {p}
      BY <3>2
    <3>4. layout \in [WindowID -> Seq(PaneID)] /\ IsInjective(layout[w])
      BY <1>0, <1>1 DEF TypeOK, LayoutInv
    <3> HIDE DEF w
    <3> QED BY <3>1, <3>3, <3>4
  <2>2. CASE ~ IsStashedPane(p)
    <3>1. layout' = [layout EXCEPT ![w] = Without(@, p)]
      BY <2>2 DEF ClosePane
    <3> HIDE DEF w
    <3> QED BY <3>1, <1>0, <1>1, WithoutLeaf
  <2> QED BY <2>1, <2>2
<1>3. /\ paneWindow' \in [PaneID -> WindowID \cup {0}]
      /\ \A q \in PaneID \ {p} : paneWindow'[q] = paneWindow[q]
      /\ panes' = panes \ {p} /\ transient' = transient \ {p}
      /\ stashedPanes' \in [PaneID -> PaneHint] /\ stashedPanes'[p] = NoPaneHint
      /\ \A q \in PaneID \ {p} : stashedPanes'[q] = stashedPanes[q]
      /\ UNCHANGED <<nextPaneID, windows, stashedWindows>>
  BY <1>0 DEF ClosePane, TypeOK, NoPaneHint, PaneHint, Sides
<1>4. /\ ~ IsStashedPane(p)'
      /\ \A q \in PaneID \ {p} : IsStashedPane(q)' <=> IsStashedPane(q)
  BY <1>3 DEF IsStashedPane, NoPaneHint
<1>5. FocusOnScreen' /\ focus' \in [Frontends -> Focus]
  <2>1. \A v \in WindowID \ {w} : p \notin ToSet(layout[v])
    BY <1>0, LaidOutPane
  <2>2. HidePane(p, w) /\ UNCHANGED <<frontends, workspaceVars, windowVars>>
    BY DEF ClosePane
  <2> HIDE DEF w
  <2> QED BY <1>0, <1>1, <1>2, <2>1, <2>2, HidePaneFacts
<1>6. TypeOK'
  BY <1>0, <1>2, <1>3, <1>5 DEF ClosePane, TypeOK
<1>7. OrderInv' /\ WindowInv'
  BY <1>0, OrderFrame, WindowFrame DEF ClosePane
<1>8. LayoutInv'
  <2>1. ASSUME NEW v \in WindowID \ windows
        PROVE  layout'[v] = <<>>
    <3>1. layout[v] = <<>> /\ ToSet(layout[v]) = {}
      BY <1>0 DEF LayoutInv, ToSet
    <3>2. layout'[v] \in Seq(PaneID) /\ ToSet(layout'[v]) = {}
      BY <3>1, <1>2
    <3> QED BY <3>2, FirstPaneFacts
  <2>2. ASSUME NEW v \in WindowID
        PROVE  IsInjective(layout'[v])
    BY <1>0, <1>2 DEF LayoutInv
  <2>3. ASSUME NEW v \in WindowID, NEW q \in ToSet(layout'[v])
        PROVE  q \in panes' /\ paneWindow'[q] = v /\ ~ IsStashedPane(q)'
    <3>1. q \in ToSet(layout[v]) /\ q # p
      BY <1>0, <1>1, <1>2, LaidOutPane
    <3> QED BY <3>1, <1>0, <1>3, <1>4, LaidOutPane
  <2>4. ASSUME NEW q \in panes'
        PROVE  /\ q < nextPaneID'
               /\ paneWindow'[q] # 0
               /\ ~ IsStashedPane(q)' => q \in ToSet(layout'[paneWindow'[q]])
    <3>1. /\ q \in panes /\ q \in PaneID /\ q # p /\ paneWindow[q] \in WindowID
          /\ q < nextPaneID
          /\ ~ IsStashedPane(q) => q \in ToSet(layout[paneWindow[q]])
      BY <1>0, <1>3 DEF LayoutInv, TypeOK
    <3>2. ToSet(layout[paneWindow[q]]) \ {p} \subseteq ToSet(layout'[paneWindow[q]])
      BY <3>1, <1>2
    <3>3. paneWindow'[q] = paneWindow[q] /\ nextPaneID' = nextPaneID
      BY <3>1, <1>3
    <3>4. ~ IsStashedPane(q)' => q \in ToSet(layout'[paneWindow[q]])
      BY <3>1, <3>2, <1>4
    <3>5. paneWindow[q] # 0
      BY <3>1
    <3> QED BY <3>1, <3>3, <3>4, <3>5
  <2>5. /\ \A q \in PaneID \ panes' : ~ IsStashedPane(q)'
        /\ \A q \in transient' : IsStashedPane(q)'
    BY <1>0, <1>3, <1>4 DEF LayoutInv, TypeOK
  <2> QED BY <1>3, <2>1, <2>2, <2>3, <2>4, <2>5 DEF LayoutInv
<1>9. StashInv'
  BY <1>0, <1>3, <1>4 DEF StashInv, TypeOK, IsStashedWindow
<1> QED BY <1>5, <1>6, <1>7, <1>8, <1>9 DEF IInv

\* stashPane preserves IInv: the window of the pane is not stashed.
LEMMA StashPaneStep ==
  ASSUME IInv, NEW p \in PaneID, StashPane(p)
  PROVE  IInv'
<1> USE IdentifierFacts DEF idVars, workspaceVars, windowVars
<1>0. TypeOK /\ OrderInv /\ WindowInv /\ LayoutInv /\ StashInv /\ FocusOnScreen
  BY DEF IInv
<1> DEFINE w == paneWindow[p]
           s == layout[w]
<1>1. /\ p \in panes /\ w \in WindowID /\ w \in windows /\ p \in ToSet(s)
      /\ ~ IsStashedWindow(w) /\ s \in Seq(PaneID)
  <2>1. p \in panes /\ p \in ToSet(s) /\ ~ IsStashedWindow(w) /\ w \in WindowID
    BY <1>0 DEF StashPane, OnScreen, TypeOK, LayoutInv
  <2>2. s # <<>>
    BY <1>0, <2>1, FirstPaneFacts DEF TypeOK
  <2> QED BY <1>0, <2>1, <2>2 DEF LayoutInv, TypeOK
<1>2. /\ layout' \in [WindowID -> Seq(PaneID)]
      /\ IsInjective(layout'[w])
      /\ ToSet(layout'[w]) = ToSet(layout[w]) \ {p}
      /\ \A v \in WindowID \ {w} : layout'[v] = layout[v]
  <2>1. layout' = [layout EXCEPT ![w] = Without(@, p)]
    BY DEF StashPane
  <2> HIDE DEF w
  <2> QED BY <2>1, <1>0, <1>1, WithoutLeaf
<1>3. /\ stashedPanes' \in [PaneID -> PaneHint] /\ stashedPanes'[p].window = w
      /\ \A q \in PaneID \ {p} : stashedPanes'[q] = stashedPanes[q]
  <2>1. PICK n \in Neighbours(s, p) :
           stashedPanes' = [stashedPanes EXCEPT ![p] =
             [workspace |-> windowWorkspace[w], window |-> w,
              target |-> n.target, side |-> n.side]]
    BY DEF StashPane
  <2>2. n.target \in 0 .. PaneLimit /\ n.side \in Sides
    <3>1. \A i \in DOMAIN s : s[i] \in PaneID
      BY <1>1, LenProperties, ElementOfSeq
    <3>2. IndexIn(s, p) \in DOMAIN s
      BY <1>1 DEF IndexIn, ToSet
    <3>3. DOMAIN s = 1 .. Len(s) /\ Len(s) \in Nat
      BY <1>1, LenProperties
    <3> HIDE DEF s
    <3>4. \A i \in 1 .. (IndexIn(s, p) - 1) : s[i] \in PaneID
      BY <3>1, <3>2, <3>3
    <3>5. \/ n = [target |-> 0, side |-> "after"]
          \/ \E i \in 1 .. (IndexIn(s, p) - 1) : n = [target |-> s[i], side |-> "after"]
          \/ \E i \in DOMAIN s : n = [target |-> s[i], side |-> "before"]
      BY <2>1 DEF Neighbours
    <3>6. CASE n = [target |-> 0, side |-> "after"]
      BY <3>6 DEF Sides
    <3>7. ASSUME NEW i \in 1 .. (IndexIn(s, p) - 1), n = [target |-> s[i], side |-> "after"]
          PROVE  n.target \in 0 .. PaneLimit /\ n.side \in Sides
      <4>1. s[i] \in 0 .. PaneLimit
        BY <3>4
      <4> QED BY <3>7, <4>1 DEF Sides
    <3>8. ASSUME NEW i \in DOMAIN s, n = [target |-> s[i], side |-> "before"]
          PROVE  n.target \in 0 .. PaneLimit /\ n.side \in Sides
      <4>1. s[i] \in 0 .. PaneLimit
        BY <3>1
      <4> QED BY <3>8, <4>1 DEF Sides
    <3> QED BY <3>5, <3>6, <3>7, <3>8
  <2> DEFINE hint == [workspace |-> windowWorkspace[w], window |-> w,
                      target |-> n.target, side |-> n.side]
  <2>3. hint \in PaneHint /\ hint.window = w
    <3>1. windowWorkspace[w] \in 0 .. WorkspaceLimit
      BY <1>0, <1>1 DEF TypeOK
    <3> QED BY <1>1, <2>2, <3>1 DEF PaneHint
  <2>4. stashedPanes' = [stashedPanes EXCEPT ![p] = hint]
    BY <2>1
  <2> HIDE DEF hint
  <2> QED BY <1>0, <2>3, <2>4 DEF TypeOK
<1>4. /\ IsStashedPane(p)'
      /\ \A q \in PaneID \ {p} : IsStashedPane(q)' <=> IsStashedPane(q)
  BY <1>1, <1>3 DEF IsStashedPane
<1>5. FocusOnScreen' /\ focus' \in [Frontends -> Focus]
  <2>1. \A v \in WindowID \ {w} : p \notin ToSet(layout[v])
    BY <1>0, LaidOutPane
  <2>2. HidePane(p, w) /\ UNCHANGED <<frontends, workspaceVars, windowVars>>
    BY DEF StashPane
  <2> HIDE DEF w
  <2> QED BY <1>0, <1>1, <1>2, <2>1, <2>2, HidePaneFacts
<1>6. TypeOK'
  BY <1>0, <1>2, <1>3, <1>5 DEF StashPane, TypeOK
<1>7. OrderInv' /\ WindowInv'
  BY <1>0, OrderFrame, WindowFrame DEF StashPane
<1>8. UNCHANGED <<panes, paneWindow, transient, nextPaneID, windows, stashedWindows>>
  BY DEF StashPane
<1>9. LayoutInv'
  <2>1. ASSUME NEW v \in WindowID \ windows
        PROVE  layout'[v] = <<>>
    BY <1>0, <1>1, <1>2 DEF LayoutInv
  <2>2. ASSUME NEW v \in WindowID
        PROVE  IsInjective(layout'[v])
    BY <1>0, <1>2 DEF LayoutInv
  <2>3. ASSUME NEW v \in WindowID, NEW q \in ToSet(layout'[v])
        PROVE  q \in panes' /\ paneWindow'[q] = v /\ ~ IsStashedPane(q)'
    <3>1. q \in ToSet(layout[v]) /\ q # p
      BY <1>0, <1>1, <1>2, LaidOutPane
    <3> QED BY <3>1, <1>0, <1>4, <1>8, LaidOutPane
  <2>4. ASSUME NEW q \in panes'
        PROVE  /\ q < nextPaneID'
               /\ paneWindow'[q] # 0
               /\ ~ IsStashedPane(q)' => q \in ToSet(layout'[paneWindow'[q]])
    <3>1. /\ q \in panes /\ q \in PaneID /\ paneWindow[q] \in WindowID
          /\ q < nextPaneID
          /\ ~ IsStashedPane(q) => q \in ToSet(layout[paneWindow[q]])
      BY <1>0, <1>8 DEF LayoutInv, TypeOK
    <3>2. ToSet(layout[paneWindow[q]]) \ {p} \subseteq ToSet(layout'[paneWindow[q]])
      BY <3>1, <1>2
    <3>3. paneWindow' = paneWindow /\ nextPaneID' = nextPaneID
      BY <1>8
    <3>4. ~ IsStashedPane(q)' => q # p /\ ~ IsStashedPane(q)
      BY <3>1, <1>4
    <3>5. ~ IsStashedPane(q)' => q \in ToSet(layout'[paneWindow[q]])
      BY <3>1, <3>2, <3>4
    <3>6. paneWindow[q] # 0
      BY <3>1
    <3> QED BY <3>1, <3>3, <3>5, <3>6
  <2>5. /\ \A q \in PaneID \ panes' : ~ IsStashedPane(q)'
        /\ \A q \in transient' : IsStashedPane(q)'
    BY <1>0, <1>1, <1>4, <1>8 DEF LayoutInv, TypeOK
  <2> QED BY <1>8, <2>1, <2>2, <2>3, <2>4, <2>5 DEF LayoutInv
<1>10. StashInv'
  BY <1>0, <1>1, <1>3, <1>4, <1>8 DEF StashInv, TypeOK, IsStashedWindow
<1> QED BY <1>5, <1>6, <1>7, <1>9, <1>10 DEF IInv

\* movePane to another window preserves IInv: the focus follows the pane.
LEMMA MovePaneAcrossStep ==
  ASSUME IInv, NEW p \in PaneID, NEW d \in WindowID, NEW t \in PaneID \cup {0},
         MovePaneAcross(p, d, t)
  PROVE  IInv'
<1> USE IdentifierFacts DEF idVars, workspaceVars, windowVars
<1>0. TypeOK /\ OrderInv /\ WindowInv /\ LayoutInv /\ StashInv /\ FocusOnScreen
  BY DEF IInv
<1> DEFINE w == paneWindow[p]
           s == layout[w]
           e == layout[d]
           L == Beside(e, t, "after", p)
           R == Without(s, p)
<1>1. /\ p \in panes /\ w \in WindowID /\ p \in ToSet(s) /\ d \in windows /\ d # w
      /\ ~ IsStashedPane(p) /\ ~ IsStashedWindow(d)
      /\ s \in Seq(PaneID) /\ IsInjective(s) /\ e \in Seq(PaneID) /\ IsInjective(e)
      /\ e = <<>> \/ t \in ToSet(e)
  BY <1>0 DEF MovePaneAcross, OnScreen, TypeOK, LayoutInv
<1>2. p \in PaneID \ ToSet(e)
  BY <1>0, <1>1, LaidOutPane
<1>3. layout' = [layout EXCEPT ![w] = R, ![d] = L]
  BY <1>1 DEF MovePaneAcross
<1> HIDE DEF w, s, e
<1>4. L \in Seq(PaneID) /\ IsInjective(L) /\ ToSet(L) = ToSet(e) \cup {p}
  BY <1>1, <1>2, BesideFacts
<1>5. R \in Seq(PaneID) /\ IsInjective(R) /\ ToSet(R) = ToSet(s) \ {p}
  BY <1>1, WithoutFacts
<1> HIDE DEF L, R
<1>6. /\ layout' \in [WindowID -> Seq(PaneID)]
      /\ layout'[w] = R /\ layout'[d] = L
      /\ \A v \in WindowID \ {w, d} : layout'[v] = layout[v]
  BY <1>0, <1>1, <1>3, <1>4, <1>5 DEF TypeOK
<1>7. /\ paneWindow' \in [PaneID -> WindowID \cup {0}] /\ paneWindow'[p] = d
      /\ \A q \in PaneID \ {p} : paneWindow'[q] = paneWindow[q]
      /\ UNCHANGED <<nextPaneID, windows, windowWorkspace, panes, transient,
                     stashedPanes, frontends, stashedWindows>>
      /\ \A q : IsStashedPane(q)' <=> IsStashedPane(q)
      /\ Workspaces' = Workspaces
      /\ \A v : IsStashedWindow(v)' <=> IsStashedWindow(v)
      /\ \A v : IsVisible(v)' <=> IsVisible(v)
  BY <1>0 DEF MovePaneAcross, TypeOK, IsStashedPane, Workspaces, IsStashedWindow, IsVisible
<1>8. OrderInv' /\ WindowInv'
  BY <1>0, OrderFrame, WindowFrame DEF MovePaneAcross
<1>9. LayoutInv'
  <2>1. ASSUME NEW v \in WindowID \ windows
        PROVE  layout'[v] = <<>>
    <3>1. layout[v] = <<>> /\ v # d /\ v # w
      <4>1. layout[v] = <<>>
        BY <1>0 DEF LayoutInv
      <4>2. ToSet(layout[v]) = {}
        BY <4>1, <1>0, FirstPaneFacts DEF TypeOK
      <4> QED BY <4>1, <4>2, <1>1 DEF s
    <3> QED BY <3>1, <1>6
  <2>2. ASSUME NEW v \in WindowID
        PROVE  IsInjective(layout'[v])
    BY <1>0, <1>4, <1>5, <1>6 DEF LayoutInv
  <2>3. ASSUME NEW v \in WindowID, NEW q \in ToSet(layout'[v])
        PROVE  q \in panes' /\ paneWindow'[q] = v /\ ~ IsStashedPane(q)'
    <3>1. CASE v = d /\ q = p
      BY <3>1, <1>1, <1>7
    <3>2. CASE ~ (v = d /\ q = p)
      <4>1. q \in ToSet(layout[v])
        <5>1. CASE v = d
          BY <5>1, <3>2, <1>4, <1>6 DEF e
        <5>2. CASE v = w
          BY <5>2, <1>1, <1>5, <1>6 DEF s
        <5>3. CASE v \notin {w, d}
          BY <5>3, <1>6
        <5> QED BY <5>1, <5>2, <5>3
      <4>2. q \in panes /\ q \in PaneID /\ paneWindow[q] = v /\ ~ IsStashedPane(q)
        BY <4>1, <1>0, LaidOutPane
      <4>3. q # p
        <5>1. CASE v = w
          BY <5>1, <1>1, <1>5, <1>6
        <5>2. CASE v # w
          BY <5>2, <4>2 DEF w
        <5> QED BY <5>1, <5>2
      <4> QED BY <4>2, <4>3, <1>7
    <3> QED BY <3>1, <3>2
  <2>4. ASSUME NEW q \in panes
        PROVE  /\ q < nextPaneID
               /\ paneWindow'[q] # 0
               /\ ~ IsStashedPane(q) => q \in ToSet(layout'[paneWindow'[q]])
    <3>1. /\ q \in PaneID /\ paneWindow[q] \in WindowID
          /\ q < nextPaneID
          /\ ~ IsStashedPane(q) => q \in ToSet(layout[paneWindow[q]])
      BY <1>0 DEF LayoutInv, TypeOK
    <3>2. CASE q = p
      BY <3>1, <3>2, <1>1, <1>4, <1>6, <1>7
    <3>3. CASE q # p
      <4>1. ToSet(layout[paneWindow[q]]) \ {p} \subseteq ToSet(layout'[paneWindow[q]])
        <5>1. CASE paneWindow[q] = d
          BY <5>1, <1>4, <1>6 DEF e
        <5>2. CASE paneWindow[q] = w
          BY <5>2, <1>5, <1>6 DEF s
        <5>3. CASE paneWindow[q] \notin {w, d}
          BY <5>3, <3>1, <1>6
        <5> QED BY <5>1, <5>2, <5>3
      <4>2. paneWindow'[q] = paneWindow[q] /\ paneWindow[q] # 0
        BY <3>1, <3>3, <1>7
      <4>3. ~ IsStashedPane(q) => q \in ToSet(layout'[paneWindow[q]])
        BY <3>1, <3>3, <4>1
      <4> QED BY <3>1, <4>2, <4>3
    <3> QED BY <3>2, <3>3
  <2>5. /\ \A q \in PaneID \ panes : ~ IsStashedPane(q)
        /\ \A q \in transient : IsStashedPane(q)
    BY <1>0 DEF LayoutInv
  <2> QED BY <1>7, <2>1, <2>2, <2>3, <2>4, <2>5 DEF LayoutInv
<1>10. StashInv'
  BY <1>0, <1>1, <1>7 DEF StashInv, TypeOK
<1>11. focus' \in [Frontends -> Focus]
  <2>1. [workspace |-> windowWorkspace[d], window |-> d, pane |-> p] \in Focus
    <3>1. windowWorkspace[d] \in 0 .. WorkspaceLimit
      BY <1>0 DEF TypeOK
    <3> QED BY <3>1 DEF Focus
  <2> QED BY <1>0, <2>1 DEF MovePaneAcross, TypeOK
<1>12. TypeOK'
  BY <1>0, <1>6, <1>7, <1>11 DEF MovePaneAcross, TypeOK
<1>13. FocusOnScreen'
  <2> SUFFICES ASSUME NEW f \in frontends
               PROVE  /\ focus'[f].workspace \in Workspaces
                      /\ focus'[f].window # 0 =>
                           /\ IsVisible(focus'[f].window)
                           /\ windowWorkspace[focus'[f].window] = focus'[f].workspace
                      /\ focus'[f].pane # 0 =>
                           /\ focus'[f].window # 0
                           /\ focus'[f].pane \in ToSet(layout'[focus'[f].window])
    BY <1>7 DEF FocusOnScreen
  <2>1. f \in Frontends
    BY <1>0 DEF TypeOK
  <2>2. CASE focus[f].pane = p
    <3>1. focus'[f] = [workspace |-> windowWorkspace[d], window |-> d, pane |-> p]
      BY <2>1, <2>2 DEF MovePaneAcross
    <3>2. d \in ToSet(windowIDs[windowWorkspace[d]]) /\ windowWorkspace[d] \in WorkspaceID
      <4>1. windowWorkspace[d] \in WorkspaceID \cup {0}
        BY <1>0 DEF TypeOK
      <4>2. windowWorkspace[d] # 0 /\ d \in ToSet(windowIDs[windowWorkspace[d]])
        BY <1>0, <1>1 DEF WindowInv
      <4> QED BY <4>1, <4>2
    <3>3. IsVisible(d) /\ windowWorkspace[d] \in Workspaces
      BY <3>2, <1>0, <1>1, ListedWindow DEF IsVisible
    <3>4. p \in ToSet(layout'[d])
      BY <1>4, <1>6
    <3> QED BY <3>1, <3>3, <3>4
  <2>3. CASE focus[f].pane # p
    <3>1. focus'[f] = focus[f]
      BY <2>1, <2>3 DEF MovePaneAcross
    <3>2. /\ focus[f].workspace \in Workspaces
          /\ focus[f].window # 0 =>
               /\ IsVisible(focus[f].window)
               /\ windowWorkspace[focus[f].window] = focus[f].workspace
               /\ focus[f].window \in WindowID
          /\ focus[f].pane # 0 =>
               /\ focus[f].window # 0
               /\ focus[f].pane \in ToSet(layout[focus[f].window])
      BY <1>0 DEF FocusOnScreen, IsVisible, TypeOK
    <3>3. \A v \in WindowID : ToSet(layout[v]) \ {p} \subseteq ToSet(layout'[v])
      BY <1>4, <1>5, <1>6 DEF s, e
    <3> QED BY <2>3, <3>1, <3>2, <3>3
  <2> QED BY <2>2, <2>3
<1> QED BY <1>8, <1>9, <1>10, <1>12, <1>13 DEF IInv

\* Where a stashed pane goes back to is a visible window, beside a leaf of it.
LEMMA HintedPlacementFacts ==
  ASSUME TypeOK, OrderInv, WindowInv, NEW p \in PaneID, NEW f \in Frontends,
         HintedPlacement(p, f).window # 0
  PROVE  LET place == HintedPlacement(p, f) IN
         /\ IsVisible(place.window)
         /\ IF layout[place.window] = <<>> THEN place.target = 0
            ELSE place.target \in ToSet(layout[place.window])
<1> DEFINE hint == stashedPanes[p]
           origin == hint.window
<1>1. ASSUME NEW w, IsVisible(w)
      PROVE  LET place == DefaultPlacement(w) IN
             /\ IsVisible(place.window)
             /\ IF layout[place.window] = <<>> THEN place.target = 0
                ELSE place.target \in ToSet(layout[place.window])
  <2>1. layout[w] \in Seq(PaneID)
    BY <1>1 DEF IsVisible, TypeOK
  <2>2. DefaultPlacement(w).window = w /\ DefaultPlacement(w).target = FirstPane(layout[w])
    BY DEF DefaultPlacement, Placement
  <2> QED BY <1>1, <2>1, <2>2, FirstPaneFacts
<1>2. CASE IsVisible(origin) /\ layout[origin] = <<>>
  BY <1>2 DEF HintedPlacement, Placement
<1>3. CASE IsVisible(origin) /\ layout[origin] # <<>> /\ hint.target \in ToSet(layout[origin])
  BY <1>3 DEF HintedPlacement, Placement
<1>4. CASE ~ IsVisible(origin) \/ (layout[origin] # <<>> /\ hint.target \notin ToSet(layout[origin]))
  <2>1. CASE f \in frontends /\ IsVisible(focus[f].window)
    <3>1. HintedPlacement(p, f) = DefaultPlacement(focus[f].window)
      BY <1>4, <2>1 DEF HintedPlacement
    <3> QED BY <2>1, <3>1, <1>1
  <2>2. CASE ~ (f \in frontends /\ IsVisible(focus[f].window)) /\ FirstVisibleWindow # 0
    <3>1. HintedPlacement(p, f) = DefaultPlacement(FirstVisibleWindow)
      BY <1>4, <2>2 DEF HintedPlacement
    <3>2. FirstShowing # 0
      BY <2>2 DEF FirstVisibleWindow
    <3>3. InitialFocus.window = FirstVisibleWindow
      BY <3>2 DEF InitialFocus
    <3>4. ListsOK
      BY DEF TypeOK, ListsOK
    <3>5. IsVisible(FirstVisibleWindow)
      BY <2>2, <3>3, <3>4, InitialFocusFacts
    <3> QED BY <3>1, <3>5, <1>1
  <2>3. CASE ~ (f \in frontends /\ IsVisible(focus[f].window)) /\ FirstVisibleWindow = 0
    <3>1. HintedPlacement(p, f) = NoPlacement
      BY <1>4, <2>3 DEF HintedPlacement
    <3> QED BY <3>1 DEF NoPlacement, Placement
  <2> QED BY <2>1, <2>2, <2>3
<1> QED BY <1>2, <1>3, <1>4

\* A pane restored beside a leaf of a visible window keeps IInv.
LEMMA RestoreAtStep ==
  ASSUME IInv, NEW p \in PaneID, NEW place, RestoreAt(p, place),
         IsVisible(place.window),
         layout[place.window] = <<>> \/ place.target \in ToSet(layout[place.window])
  PROVE  IInv'
<1> USE IdentifierFacts DEF idVars, workspaceVars, windowVars, frontendVars
<1>0. TypeOK /\ OrderInv /\ WindowInv /\ LayoutInv /\ StashInv /\ FocusOnScreen
  BY DEF IInv
<1> DEFINE w == place.window
           t == place.target
           s == layout[w]
           L == Beside(s, t, place.side, p)
<1>1. /\ p \in panes /\ p \notin transient /\ IsStashedPane(p)
      /\ w \in windows /\ w \in WindowID
      /\ s \in Seq(PaneID) /\ IsInjective(s)
      /\ s = <<>> \/ t \in ToSet(s)
  BY <1>0 DEF RestoreAt, CanRestore, IsVisible, TypeOK, LayoutInv
<1>2. \A v \in WindowID : p \notin ToSet(layout[v])
  BY <1>0, <1>1, LaidOutPane
<1>3. layout' = [layout EXCEPT ![w] = L]
  BY DEF RestoreAt, CanRestore
<1>4. paneWindow' = [paneWindow EXCEPT ![p] = w] /\ stashedPanes' = [stashedPanes EXCEPT ![p] = NoPaneHint]
  BY DEF RestoreAt, CanRestore
<1>5. p \in PaneID \ ToSet(s)
  BY <1>1, <1>2
<1> HIDE DEF w, t, s
<1>6. L \in Seq(PaneID) /\ IsInjective(L) /\ ToSet(L) = ToSet(s) \cup {p}
  BY <1>1, <1>5, BesideFacts
<1> HIDE DEF L
<1>7. /\ layout' \in [WindowID -> Seq(PaneID)] /\ layout'[w] = L
      /\ \A v \in WindowID \ {w} : layout'[v] = layout[v]
  BY <1>0, <1>1, <1>3, <1>6 DEF TypeOK
<1>8. /\ paneWindow' \in [PaneID -> WindowID \cup {0}] /\ paneWindow'[p] = w
      /\ \A q \in PaneID \ {p} : paneWindow'[q] = paneWindow[q]
      /\ stashedPanes' \in [PaneID -> PaneHint] /\ stashedPanes'[p] = NoPaneHint
      /\ \A q \in PaneID \ {p} : stashedPanes'[q] = stashedPanes[q]
  BY <1>0, <1>1, <1>4 DEF TypeOK, NoPaneHint, PaneHint, Sides
<1>9. /\ ~ IsStashedPane(p)'
      /\ \A q \in PaneID \ {p} : IsStashedPane(q)' <=> IsStashedPane(q)
  BY <1>8 DEF IsStashedPane, NoPaneHint
<1>10. UNCHANGED <<nextPaneID, windows, windowWorkspace, panes, transient, stashedWindows>>
  BY DEF RestoreAt, CanRestore
<1>11. TypeOK'
  BY <1>0, <1>7, <1>8 DEF RestoreAt, CanRestore, TypeOK
<1>12. OrderInv' /\ WindowInv'
  BY <1>0, OrderFrame, WindowFrame DEF RestoreAt, CanRestore
<1>13. LayoutInv'
  <2>1. ASSUME NEW v \in WindowID \ windows
        PROVE  layout'[v] = <<>>
    BY <1>0, <1>1, <1>7 DEF LayoutInv
  <2>2. ASSUME NEW v \in WindowID
        PROVE  IsInjective(layout'[v])
    BY <1>0, <1>6, <1>7 DEF LayoutInv
  <2>3. ASSUME NEW v \in WindowID, NEW q \in ToSet(layout'[v])
        PROVE  q \in panes' /\ paneWindow'[q] = v /\ ~ IsStashedPane(q)'
    <3>1. CASE q = p
      <4>1. v = w
        BY <3>1, <1>2, <1>7
      <4> QED BY <3>1, <4>1, <1>1, <1>8, <1>9, <1>10
    <3>2. CASE q # p
      <4>1. q \in ToSet(layout[v])
        <5>1. CASE v = w
          BY <5>1, <3>2, <1>6, <1>7 DEF s
        <5>2. CASE v # w
          BY <5>2, <1>7
        <5> QED BY <5>1, <5>2
      <4> QED BY <4>1, <3>2, <1>0, <1>8, <1>9, <1>10, LaidOutPane
    <3> QED BY <3>1, <3>2
  <2>4. ASSUME NEW q \in panes'
        PROVE  /\ q < nextPaneID'
               /\ paneWindow'[q] # 0
               /\ ~ IsStashedPane(q)' => q \in ToSet(layout'[paneWindow'[q]])
    <3>1. /\ q \in PaneID /\ paneWindow[q] \in WindowID
          /\ q < nextPaneID'
          /\ ~ IsStashedPane(q) => q \in ToSet(layout[paneWindow[q]])
      BY <1>0, <1>10 DEF LayoutInv, TypeOK
    <3>2. CASE q = p
      BY <3>1, <3>2, <1>1, <1>6, <1>7, <1>8
    <3>3. CASE q # p
      <4>1. ToSet(layout[paneWindow[q]]) \subseteq ToSet(layout'[paneWindow[q]])
        <5>1. CASE paneWindow[q] = w
          BY <5>1, <1>6, <1>7 DEF s
        <5>2. CASE paneWindow[q] # w
          BY <5>2, <3>1, <1>7
        <5> QED BY <5>1, <5>2
      <4>2. paneWindow'[q] = paneWindow[q] /\ paneWindow[q] # 0
        BY <3>1, <3>3, <1>8
      <4>3. ~ IsStashedPane(q)' => q \in ToSet(layout'[paneWindow[q]])
        BY <3>1, <3>3, <4>1, <1>9
      <4> QED BY <3>1, <4>2, <4>3
    <3> QED BY <3>2, <3>3
  <2>5. /\ \A q \in PaneID \ panes' : ~ IsStashedPane(q)'
        /\ \A q \in transient' : IsStashedPane(q)'
    <3>1. transient \subseteq PaneID
      BY <1>0 DEF TypeOK
    <3> QED BY <3>1, <1>0, <1>1, <1>9, <1>10 DEF LayoutInv
  <2> QED BY <1>10, <2>1, <2>2, <2>3, <2>4, <2>5 DEF LayoutInv
<1>14. StashInv'
  BY <1>0, <1>8, <1>9, <1>10 DEF StashInv, TypeOK, IsStashedWindow
<1>15. FocusOnScreen'
  <2>1. \A v \in windows : ToSet(layout[v]) \subseteq ToSet(layout'[v])
    <3>1. ASSUME NEW v \in windows
          PROVE  ToSet(layout[v]) \subseteq ToSet(layout'[v])
      <4>1. v \in WindowID
        BY <1>0 DEF TypeOK
      <4>2. CASE v = w
        BY <4>2, <1>6, <1>7 DEF s
      <4>3. CASE v # w
        BY <4>1, <4>3, <1>7
      <4> QED BY <4>2, <4>3
    <3> QED BY <3>1
  <2> QED BY <1>0, <2>1, FocusFrame DEF RestoreAt, CanRestore, IsVisible, IsStashedWindow, Workspaces
<1> QED BY <1>11, <1>12, <1>13, <1>14, <1>15 DEF IInv

\* restorePane to the hinted place preserves IInv: the place exists.
LEMMA RestorePaneStep ==
  ASSUME IInv, NEW p \in PaneID, NEW f \in Frontends, RestorePane(p, f)
  PROVE  IInv'
<1> DEFINE place == HintedPlacement(p, f)
<1>1. RestoreAt(p, place)
  BY DEF RestorePane
<1>2. place.window # 0
  BY <1>1 DEF RestoreAt, CanRestore
<1>3. /\ IsVisible(place.window)
      /\ layout[place.window] = <<>> \/ place.target \in ToSet(layout[place.window])
  BY <1>2, HintedPlacementFacts DEF IInv
<1> HIDE DEF place
<1> QED BY <1>1, <1>3, RestoreAtStep

\* restorePane to a named place preserves IInv.
LEMMA RestorePaneToStep ==
  ASSUME IInv, NEW p \in PaneID, NEW w \in WindowID, NEW t \in PaneID \cup {0},
         RestorePaneTo(p, w, t)
  PROVE  IInv'
<1> DEFINE place == Placement(w, t, "after")
<1>1. RestoreAt(p, place) /\ IsVisible(w) /\ place \in Placements(w)
  BY DEF RestorePaneTo
<1>2. place.window = w /\ place.target = t
  BY DEF Placement
<1>3. layout[w] = <<>> \/ t \in ToSet(layout[w])
  BY <1>1, <1>2 DEF Placements, Placement
<1> HIDE DEF place
<1> QED BY <1>1, <1>2, <1>3, RestoreAtStep

\* subscribe preserves IInv: the initial focus is on the screen.
LEMMA SubscribeStep ==
  ASSUME IInv, NEW f \in Frontends, Subscribe(f)
  PROVE  IInv'
<1> USE DEF idVars, workspaceVars, windowVars, paneVars
<1>0. TypeOK /\ OrderInv /\ WindowInv /\ LayoutInv /\ StashInv /\ FocusOnScreen
  BY DEF IInv
<1>1. OrderInv' /\ WindowInv' /\ LayoutInv' /\ StashInv'
  BY <1>0, OrderFrame, WindowFrame, LayoutFrame, StashFrame DEF Subscribe
<1>2. FocusOnScreen' /\ focus' \in [Frontends -> Focus]
  <2>1. ListsOK'
    BY <1>0 DEF Subscribe, TypeOK, ListsOK
  <2> DEFINE S == {f}
  <2>2. /\ S \in SUBSET Frontends /\ ResetFocus(S) /\ frontends' \subseteq frontends \cup S
        /\ \A g \in frontends \ S : focus[g].workspace \in Workspaces'
    BY <1>0 DEF Subscribe, FocusOnScreen, Workspaces
  <2>3. \A v \in windows : IsVisible(v) => IsVisible(v)'
    BY DEF Subscribe, IsVisible, IsStashedWindow, Workspaces
  <2>4. UNCHANGED <<windowWorkspace, layout>>
    BY DEF Subscribe
  <2> HIDE DEF S
  <2> QED BY <1>0, <1>1, <2>1, <2>2, <2>3, <2>4, ResetFocusFacts
<1>3. TypeOK'
  BY <1>0, <1>2 DEF Subscribe, TypeOK
<1> QED BY <1>1, <1>2, <1>3 DEF IInv

\* Only one frontend's focus changes, to x or away.
LEMMA FocusStep ==
  ASSUME IInv, NEW f \in Frontends, NEW x \in Focus,
         focus' = [focus EXCEPT ![f] = x],
         UNCHANGED <<idVars, workspaceVars, windowVars, layout, paneVars>>,
         frontends' \in SUBSET frontends,
         f \in frontends' =>
           /\ x.workspace \in Workspaces
           /\ x.window # 0 => /\ IsVisible(x.window)
                              /\ windowWorkspace[x.window] = x.workspace
           /\ x.pane # 0 => x.window # 0 /\ x.pane \in ToSet(layout[x.window])
  PROVE  IInv'
<1> USE DEF idVars, workspaceVars, windowVars, paneVars
<1>0. TypeOK /\ OrderInv /\ WindowInv /\ LayoutInv /\ StashInv /\ FocusOnScreen
  BY DEF IInv
<1>1. TypeOK'
  BY <1>0 DEF TypeOK
<1>2. OrderInv' /\ WindowInv' /\ LayoutInv' /\ StashInv'
  BY <1>0, OrderFrame, WindowFrame, LayoutFrame, StashFrame
<1>3. Workspaces' = Workspaces /\ \A v : IsVisible(v)' <=> IsVisible(v)
  BY DEF Workspaces, IsVisible, IsStashedWindow
<1>4. focus'[f] = x /\ \A g \in Frontends \ {f} : focus'[g] = focus[g]
  BY <1>0 DEF TypeOK
<1>5. ASSUME NEW g \in frontends'
      PROVE  /\ focus'[g].workspace \in Workspaces
             /\ focus'[g].window # 0 =>
                  /\ IsVisible(focus'[g].window)
                  /\ windowWorkspace[focus'[g].window] = focus'[g].workspace
             /\ focus'[g].pane # 0 =>
                  /\ focus'[g].window # 0
                  /\ focus'[g].pane \in ToSet(layout[focus'[g].window])
  <2>1. CASE g = f
    BY <2>1, <1>4
  <2>2. CASE g # f
    <3>1. g \in frontends /\ g \in Frontends
      BY <1>0 DEF TypeOK
    <3> QED BY <2>2, <3>1, <1>0, <1>4 DEF FocusOnScreen
  <2> QED BY <2>1, <2>2
<1>6. FocusOnScreen'
  BY <1>3, <1>5 DEF FocusOnScreen
<1> QED BY <1>1, <1>2, <1>6 DEF IInv

\* unsubscribe preserves IInv.
LEMMA UnsubscribeStep ==
  ASSUME IInv, NEW f \in Frontends, Unsubscribe(f)
  PROVE  IInv'
<1>1. NoFocus \in Focus
  BY IdentifierFacts DEF NoFocus, Focus
<1>2. /\ focus' = [focus EXCEPT ![f] = NoFocus] /\ f \notin frontends'
      /\ frontends' \in SUBSET frontends
      /\ UNCHANGED <<idVars, workspaceVars, windowVars, layout, paneVars>>
  BY DEF Unsubscribe
<1> QED BY <1>1, <1>2, FocusStep

\* A window outside the stash is on the screen of its workspace.
LEMMA UnstashedWindowVisible ==
  ASSUME TypeOK, WindowInv, NEW w \in windows, ~ IsStashedWindow(w)
  PROVE  /\ w \in WindowID /\ IsVisible(w)
         /\ windowWorkspace[w] \in WorkspaceID /\ windowWorkspace[w] \in Workspaces
<1>1. /\ w \in WindowID /\ windowWorkspace[w] \in WorkspaceID
      /\ w \in ToSet(windowIDs[windowWorkspace[w]])
  BY DEF TypeOK, WindowInv
<1> QED BY <1>1, ListedWindow DEF IsVisible

\* setFocus preserves IInv.
LEMMA SetFocusStep ==
  ASSUME IInv, NEW f \in Frontends, NEW p \in PaneID, SetFocus(f, p)
  PROVE  IInv'
<1> USE IdentifierFacts
<1>0. TypeOK /\ OrderInv /\ WindowInv /\ LayoutInv /\ StashInv /\ FocusOnScreen
  BY DEF IInv
<1> DEFINE w == paneWindow[p]
           x == [workspace |-> windowWorkspace[w], window |-> w, pane |-> p]
<1>1. /\ p \in panes /\ w \in WindowID /\ p \in ToSet(layout[w]) /\ ~ IsStashedWindow(w)
  BY <1>0 DEF SetFocus, OnScreen, LayoutInv, TypeOK
<1>2. w \in windows
  <2>1. layout[w] # <<>>
    BY <1>0, <1>1, FirstPaneFacts DEF TypeOK
  <2> QED BY <1>0, <1>1, <2>1 DEF LayoutInv
<1>3. /\ IsVisible(w) /\ windowWorkspace[w] \in Workspaces
      /\ windowWorkspace[w] \in WorkspaceID
  BY <1>0, <1>1, <1>2, UnstashedWindowVisible
<1>4. /\ x \in Focus
      /\ x.workspace = windowWorkspace[w] /\ x.window = w /\ x.pane = p
  BY <1>1, <1>3 DEF Focus
<1>5. /\ focus' = [focus EXCEPT ![f] = x] /\ frontends' \in SUBSET frontends
      /\ UNCHANGED <<idVars, workspaceVars, windowVars, layout, paneVars>>
  BY DEF SetFocus
<1> HIDE DEF w, x
<1> QED BY <1>1, <1>3, <1>4, <1>5, FocusStep

\* selectWindow preserves IInv.
LEMMA SelectWindowStep ==
  ASSUME IInv, NEW f \in Frontends, NEW w \in WindowID, SelectWindow(f, w)
  PROVE  IInv'
<1> USE IdentifierFacts
<1>0. TypeOK /\ OrderInv /\ WindowInv /\ LayoutInv /\ StashInv /\ FocusOnScreen
  BY DEF IInv
<1> DEFINE first == FirstPane(layout[w])
           x == [workspace |-> windowWorkspace[w], window |-> w, pane |-> first]
<1>1. /\ IsVisible(w) /\ windowWorkspace[w] \in Workspaces
      /\ windowWorkspace[w] \in WorkspaceID
  BY <1>0, UnstashedWindowVisible DEF SelectWindow
<1>2. first = 0 \/ (first \in ToSet(layout[w]) /\ first \in PaneID)
  <2>1. layout[w] \in Seq(PaneID)
    BY <1>0 DEF TypeOK
  <2> QED BY <2>1, FirstPaneFacts, ToSetType
<1>3. /\ focus' = [focus EXCEPT ![f] = x] /\ frontends' \in SUBSET frontends
      /\ UNCHANGED <<idVars, workspaceVars, windowVars, layout, paneVars>>
  BY DEF SelectWindow
<1> HIDE DEF first
<1>4. /\ x \in Focus
      /\ x.workspace = windowWorkspace[w] /\ x.window = w /\ x.pane = first
  <2>1. first \in 0 .. PaneLimit
    BY <1>2
  <2> QED BY <1>1, <2>1 DEF Focus
<1> HIDE DEF x
<1>5. w # 0
  OBVIOUS
<1> QED BY <1>1, <1>2, <1>3, <1>4, <1>5, FocusStep

\* A restart preserves IInv: the panes that are dropped are stashed.
LEMMA ReloadStep ==
  ASSUME IInv, Reload
  PROVE  IInv'
<1> USE IdentifierFacts DEF idVars, workspaceVars, windowVars
<1>0. TypeOK /\ OrderInv /\ WindowInv /\ LayoutInv /\ StashInv /\ FocusOnScreen
  BY DEF IInv
<1>1. /\ paneWindow' \in [PaneID -> WindowID \cup {0}]
      /\ stashedPanes' \in [PaneID -> PaneHint]
      /\ \A q \in PaneID \ transient : /\ paneWindow'[q] = paneWindow[q]
                                       /\ stashedPanes'[q] = stashedPanes[q]
      /\ \A q \in transient : stashedPanes'[q] = NoPaneHint
      /\ panes' = panes \ transient /\ transient' = {}
      /\ UNCHANGED <<windows, layout, nextPaneID, stashedWindows>>
  BY <1>0 DEF Reload, KeepCounters, TypeOK, NoPaneHint, PaneHint, Sides
<1>2. /\ \A q \in PaneID \ transient : IsStashedPane(q)' <=> IsStashedPane(q)
      /\ \A q \in transient : ~ IsStashedPane(q)'
  BY <1>1 DEF IsStashedPane, NoPaneHint
<1>3. TypeOK'
  <2>1. focus' \in [Frontends -> Focus]
    BY DEF Reload, KeepCounters, NoFocus, Focus
  <2> QED BY <1>0, <1>1, <2>1 DEF Reload, KeepCounters, TypeOK
<1>4. OrderInv' /\ WindowInv' /\ FocusOnScreen'
  BY <1>0, OrderFrame, WindowFrame DEF Reload, KeepCounters, FocusOnScreen
<1>5. LayoutInv'
  <2>1. ASSUME NEW v \in WindowID, NEW q \in ToSet(layout[v])
        PROVE  q \in panes' /\ paneWindow'[q] = v /\ ~ IsStashedPane(q)'
    <3>1. q \in panes /\ q \in PaneID /\ paneWindow[q] = v /\ ~ IsStashedPane(q)
      BY <1>0, LaidOutPane
    <3>2. q \notin transient
      BY <1>0, <3>1 DEF LayoutInv
    <3> QED BY <3>1, <3>2, <1>1, <1>2
  <2>2. ASSUME NEW q \in panes'
        PROVE  /\ q < nextPaneID
               /\ paneWindow'[q] # 0
               /\ ~ IsStashedPane(q)' => q \in ToSet(layout[paneWindow'[q]])
    BY <1>0, <1>1, <1>2 DEF LayoutInv, TypeOK
  <2>3. \A q \in PaneID \ panes' : ~ IsStashedPane(q)'
    BY <1>0, <1>1, <1>2 DEF LayoutInv
  <2> QED BY <1>0, <1>1, <2>1, <2>2, <2>3 DEF LayoutInv
<1>6. StashInv'
  BY <1>0, <1>1, <1>2 DEF StashInv, TypeOK, IsStashedWindow
<1> QED BY <1>3, <1>4, <1>5, <1>6 DEF IInv
-----------------------------------------------------------------------------
\* Every step of the specification preserves the invariant.
LEMMA NextIInv == IInv /\ [Next]_vars => IInv'
<1> SUFFICES ASSUME IInv, [Next]_vars PROVE IInv'
  OBVIOUS
<1>1. CASE Mutation
  BY <1>1, CreateWorkspaceStep, RenameWorkspaceStep, DeleteWorkspaceStep,
     CreateWindowStep, RenameWindowStep, DeleteWindowStep, StashWindowStep,
     RestoreWindowStep, RestoreWindowToStep, CreatePaneStep,
     CreateTransientPaneStep, SplitPaneStep, MovePaneWithinStep,
     MovePaneAcrossStep, RestorePaneToStep, ClosePaneStep, StashPaneStep,
     RestorePaneStep DEF Mutation
<1>2. CASE FrontendStep
  BY <1>2, SubscribeStep, UnsubscribeStep, SetFocusStep, SelectWindowStep DEF FrontendStep
<1>3. CASE Reload
  BY <1>3, ReloadStep
<1>4. CASE UNCHANGED vars
  <2>1. TypeOK /\ OrderInv /\ WindowInv /\ LayoutInv /\ StashInv /\ FocusOnScreen
    BY DEF IInv
  <2> USE <1>4 DEF vars, idVars, workspaceVars, windowVars, paneVars, frontendVars
  <2>2. TypeOK'
    BY <2>1 DEF TypeOK
  <2>3. OrderInv' /\ WindowInv' /\ LayoutInv' /\ StashInv'
    BY <2>1, OrderFrame, WindowFrame, LayoutFrame, StashFrame
  <2>4. FocusOnScreen'
    BY <2>1 DEF FocusOnScreen, IsVisible, IsStashedWindow, Workspaces
  <2> QED BY <2>2, <2>3, <2>4 DEF IInv
<1> QED BY <1>1, <1>2, <1>3, <1>4 DEF Next

\* Whatever the commands do, in any order and number, the lists of
\* workspaces, windows and leaves, the stash and the focus of every frontend
\* stay consistent with each other.
THEOREM InvariantHolds == Spec => []IInv
  BY InitIInv, NextIInv, PTL DEF Spec

\* Every attribute keeps its type: identifiers stay below their limits.
THEOREM TypeCorrect == Spec => []TypeOK
<1>1. IInv => TypeOK
  BY DEF IInv
<1> QED BY <1>1, InvariantHolds, PTL

\* What a frontend looks at exists and is on the screen.
THEOREM FocusStaysOnScreen == Spec => []FocusOnScreen
<1>1. IInv => FocusOnScreen
  BY DEF IInv
<1> QED BY <1>1, InvariantHolds, PTL

\* The invariant implies the hierarchy that validateHierarchy demands.
LEMMA HierarchyFromIInv == IInv => Hierarchy
<1> SUFFICES ASSUME IInv PROVE Hierarchy
  OBVIOUS
<1>0. TypeOK /\ OrderInv /\ WindowInv /\ LayoutInv /\ StashInv
  BY DEF IInv
<1>1. Workspaces \subseteq WorkspaceID
  BY <1>0, ToSetType DEF TypeOK, Workspaces
<1>2. WindowsPlaced
  <2>1. ASSUME NEW ws \in Workspaces, NEW i \in DOMAIN windowIDs[ws], NEW j \in DOMAIN windowIDs[ws]
        PROVE  /\ windowIDs[ws][i] \in windows
               /\ windowWorkspace[windowIDs[ws][i]] = ws
               /\ windowIDs[ws][i] = windowIDs[ws][j] => i = j
    <3>1. windowIDs[ws][i] \in ToSet(windowIDs[ws])
      BY DEF ToSet
    <3>2. IsInjective(windowIDs[ws])
      BY <1>0, <1>1 DEF WindowInv
    <3> QED BY <1>0, <1>1, <3>1, <3>2, ListedWindow DEF IsInjective
  <2>2. ASSUME NEW w \in windows
        PROVE  (\E ws \in Workspaces : w \in ToSet(windowIDs[ws])) <=> ~ IsStashedWindow(w)
    <3>1. ~ IsStashedWindow(w) =>
             windowWorkspace[w] \in Workspaces /\ w \in ToSet(windowIDs[windowWorkspace[w]])
      BY <1>0, UnstashedWindowVisible DEF IsVisible
    <3>2. \A ws \in Workspaces : w \in ToSet(windowIDs[ws]) => ~ IsStashedWindow(w)
      BY <1>0, <1>1, ListedWindow
    <3> QED BY <3>1, <3>2
  <2> QED BY <2>1, <2>2 DEF WindowsPlaced
<1>3. PanesPlaced(panes)
  <2>0. windows \subseteq WindowID
    BY <1>0 DEF TypeOK
  <2>1. ASSUME NEW w \in windows, NEW i \in DOMAIN layout[w], NEW j \in DOMAIN layout[w]
        PROVE  /\ layout[w][i] \in panes
               /\ paneWindow[layout[w][i]] = w
               /\ layout[w][i] = layout[w][j] => i = j
    <3>1. layout[w][i] \in ToSet(layout[w])
      BY DEF ToSet
    <3>2. IsInjective(layout[w])
      BY <1>0, <2>0 DEF LayoutInv
    <3> QED BY <1>0, <2>0, <3>1, <3>2, LaidOutPane DEF IsInjective
  <2>2. ASSUME NEW p \in panes
        PROVE  (\E w \in windows : p \in ToSet(layout[w])) <=> ~ IsStashedPane(p)
    <3> DEFINE v == paneWindow[p]
    <3>1. ~ IsStashedPane(p) => v \in windows /\ p \in ToSet(layout[v])
      <4> SUFFICES ASSUME ~ IsStashedPane(p) PROVE v \in windows /\ p \in ToSet(layout[v])
        OBVIOUS
      <4>1. p \in ToSet(layout[v]) /\ v \in WindowID
        BY <1>0 DEF LayoutInv, TypeOK
      <4>2. layout[v] # <<>>
        BY <1>0, <4>1, FirstPaneFacts DEF TypeOK
      <4> QED BY <1>0, <4>1, <4>2 DEF LayoutInv
    <3>2. \A w \in windows : p \in ToSet(layout[w]) => ~ IsStashedPane(p)
      BY <1>0, <2>0, LaidOutPane
    <3> QED BY <3>1, <3>2
  <2>3. \A p \in panes : IsStashedPane(p) => ~ IsStashedWindow(paneWindow[p])
    BY <1>0 DEF StashInv
  <2> QED BY <2>1, <2>2, <2>3 DEF PanesPlaced
<1> QED BY <1>2, <1>3 DEF Hierarchy

\* The hierarchy validateHierarchy demands holds after every command.
THEOREM HierarchyHolds == Spec => []Hierarchy
  BY HierarchyFromIInv, InvariantHolds, PTL

(* While a window is visible there is a first one.                         *)
LEMMA FirstVisibleExists ==
  ASSUME TypeOK, NEW w, IsVisible(w)
  PROVE  FirstVisibleWindow # 0
<1> DEFINE showing == {i \in DOMAIN workspaceOrder : windowIDs[workspaceOrder[i]] # <<>>}
           first == CHOOSE i \in showing : \A j \in showing : i <= j
<1>1. /\ workspaceOrder \in Seq(WorkspaceID)
      /\ DOMAIN workspaceOrder = 1 .. Len(workspaceOrder) /\ Len(workspaceOrder) \in Nat
      /\ \A i \in DOMAIN workspaceOrder : workspaceOrder[i] \in WorkspaceID
      /\ \A ws \in WorkspaceID : windowIDs[ws] \in Seq(WindowID)
  BY LenProperties, ElementOfSeq DEF TypeOK
<1>2. PICK i \in DOMAIN workspaceOrder : workspaceOrder[i] = windowWorkspace[w]
  BY DEF IsVisible, Workspaces, ToSet
<1>3. windowIDs[windowWorkspace[w]] # <<>>
  BY DEF IsVisible, ToSet
<1>4. i \in showing /\ showing \subseteq Nat
  BY <1>1, <1>2, <1>3
<1> HIDE DEF showing
<1>5. first \in showing
  <2>1. \E k \in showing : \A j \in showing : k <= j
    BY <1>4, FirstPlace
  <2> QED BY <2>1
<1>6. FirstShowing = workspaceOrder[first]
  BY <1>4 DEF FirstShowing, showing
<1>7. /\ workspaceOrder[first] \in WorkspaceID
      /\ windowIDs[workspaceOrder[first]] # <<>>
      /\ windowIDs[workspaceOrder[first]] \in Seq(WindowID)
  BY <1>1, <1>5 DEF showing
<1>8. windowIDs[FirstShowing][1] \in WindowID /\ FirstShowing # 0
  <2>1. 1 \in DOMAIN windowIDs[FirstShowing]
    BY <1>6, <1>7, EmptySeq, LenProperties
  <2> QED BY <1>6, <1>7, <2>1, ElementOfSeq, IdentifierFacts
<1> QED BY <1>8, IdentifierFacts DEF FirstVisibleWindow

(* Nothing a stashed pane was beside is needed to bring it back.           *)
LEMMA StashFromIInv == IInv => StashRecoverable
<1> SUFFICES ASSUME IInv, NEW p \in panes \ transient, IsStashedPane(p),
                    NEW w \in windows, IsVisible(w), NEW f \in Frontends
             PROVE  LET place == HintedPlacement(p, f) IN
                    /\ CanRestore(p, place)
                    /\ IsVisible(place.window)
                    /\ IF layout[place.window] = <<>> THEN place.target = 0
                       ELSE place.target \in ToSet(layout[place.window])
  BY DEF StashRecoverable
<1>1. TypeOK /\ OrderInv /\ WindowInv /\ windows \subseteq WindowID /\ p \in PaneID
  BY DEF IInv, TypeOK
<1>2. ASSUME NEW v, IsVisible(v) PROVE v # 0
  BY <1>1, <1>2, IdentifierFacts DEF IsVisible
<1>3. FirstVisibleWindow # 0
  BY <1>1, FirstVisibleExists
<1>4. HintedPlacement(p, f).window # 0
  BY <1>2, <1>3 DEF HintedPlacement, DefaultPlacement, Placement
<1> QED BY <1>1, <1>4, HintedPlacementFacts DEF CanRestore

(* A stashed pane can be brought back as long as there is a window to put  *)
(* it in, for any number of workspaces, windows, panes and frontends.      *)
THEOREM StashStaysRecoverable == Spec => []StashRecoverable
  BY StashFromIInv, InvariantHolds, PTL

\* A step adds at most the object whose identifier is next, and raises the
\* counter above it.
GrowsBy(X, Y, next, after) ==
  /\ Y \subseteq X \/ (Y \subseteq X \cup {next} /\ after = next + 1)
  /\ after = next \/ after = next + 1

LEMMA CountersGrow ==
  ASSUME IInv, Next
  PROVE  /\ GrowsBy(Workspaces, Workspaces', nextWorkspaceID, nextWorkspaceID')
         /\ GrowsBy(windows, windows', nextWindowID, nextWindowID')
         /\ GrowsBy(panes, panes', nextPaneID, nextPaneID')
<1> USE DEF idVars, windowVars, paneVars, workspaceVars, GrowsBy
<1>0. TypeOK /\ OrderInv
  BY DEF IInv
<1>1. CASE Mutation
  <2>1. \A ws, n : RenameWorkspace(ws, n) => UNCHANGED <<idVars, Workspaces, panes, windows>>
    BY DEF RenameWorkspace, Workspaces
  <2>2. \A n : CreateWorkspace(n) =>
          /\ Workspaces' \subseteq Workspaces \cup {nextWorkspaceID}
          /\ nextWorkspaceID' = nextWorkspaceID + 1
          /\ UNCHANGED <<nextWindowID, nextPaneID, panes, windows>>
    <3> SUFFICES ASSUME NEW n, CreateWorkspace(n)
                 PROVE  /\ Workspaces' \subseteq Workspaces \cup {nextWorkspaceID}
                        /\ nextWorkspaceID' = nextWorkspaceID + 1
                        /\ UNCHANGED <<nextWindowID, nextPaneID, panes, windows>>
      OBVIOUS
    <3>1. nextWorkspaceID \in WorkspaceID \ ToSet(workspaceOrder)
      BY <1>0, CoreAssumption DEF CreateWorkspace, TypeOK, WorkspaceID, OrderInv, Workspaces
    <3>2. workspaceOrder \in Seq(WorkspaceID) /\ IsInjective(workspaceOrder)
      BY <1>0 DEF TypeOK, OrderInv
    <3>3. ToSet(Append(workspaceOrder, nextWorkspaceID)) = Workspaces \cup {nextWorkspaceID}
      BY <3>1, <3>2, AppendFacts DEF Workspaces
    <3> QED BY <3>3 DEF CreateWorkspace, Workspaces
  <2>3. \A ws : DeleteWorkspace(ws) =>
          Workspaces' \subseteq Workspaces /\ UNCHANGED <<idVars, panes, windows>>
    <3>1. \A ws : ToSet(Without(workspaceOrder, ws)) = Workspaces \ {ws}
      BY <1>0, WithoutFacts DEF TypeOK, OrderInv, Workspaces
    <3> QED BY <3>1 DEF DeleteWorkspace, Workspaces
  <2>4. \A ws, w, n : CreateWindow(ws, n) \/ RenameWindow(w, n) \/ DeleteWindow(w) =>
          /\ UNCHANGED <<nextWorkspaceID, nextPaneID, Workspaces, panes>>
          /\ GrowsBy(windows, windows', nextWindowID, nextWindowID')
    BY DEF CreateWindow, RenameWindow, DeleteWindow, Workspaces
  <2>5. \A w, ws, index : StashWindow(w) \/ RestoreWindowAt(w, ws, index)
          => UNCHANGED <<idVars, Workspaces, panes, windows>>
    BY DEF StashWindow, RestoreWindowAt, Workspaces
  <2>6. \A w, p, t : CreatePane(w, p) \/ CreateTransientPane(w, p) \/ SplitPane(t, p) =>
          /\ UNCHANGED <<nextWorkspaceID, nextWindowID, Workspaces, windows>>
          /\ GrowsBy(panes, panes', nextPaneID, nextPaneID')
    BY DEF CreatePane, CreateTransientPane, SplitPane, AddPane, AllocatePane, Workspaces
  <2>7. \A p, d, t : \/ MovePaneWithin(p, t) \/ MovePaneAcross(p, d, t)
                     \/ ClosePane(p) \/ StashPane(p)
          => UNCHANGED <<idVars, Workspaces, windows>> /\ panes' \subseteq panes
    BY DEF MovePaneWithin, MovePaneAcross, ClosePane, StashPane, Workspaces
  <2>8. \A p, place : RestoreAt(p, place) => UNCHANGED <<idVars, Workspaces, panes, windows>>
    BY DEF RestoreAt, CanRestore, Workspaces
  <2> QED BY <1>1, <2>1, <2>2, <2>3, <2>4, <2>5, <2>6, <2>7, <2>8
          DEF Mutation, RestoreWindow, RestoreWindowTo, RestorePane, RestorePaneTo
<1>2. CASE FrontendStep
  BY <1>2 DEF FrontendStep, Subscribe, Unsubscribe, SetFocus, SelectWindow, Workspaces
<1>3. CASE Reload
  BY <1>3 DEF Reload, KeepCounters, Workspaces
<1> QED BY <1>1, <1>2, <1>3 DEF Next

\* Of what was given and is gone, nothing comes back.
LEMMA SpentStays ==
  ASSUME NEW X, NEW Y, NEW next \in Nat, NEW after, GrowsBy(X, Y, next, after),
         X \subseteq 1 .. (next - 1)
  PROVE  /\ (1 .. (next - 1) \ X) \cup (X \ Y) \subseteq 1 .. (after - 1) \ Y
         /\ next <= after
<1>1. /\ Y \subseteq X \/ (Y \subseteq X \cup {next} /\ after = next + 1)
      /\ after = next \/ after = next + 1
  BY DEF GrowsBy
<1>2. next <= after /\ after \in Nat
  BY <1>1
<1>3. ASSUME NEW x \in 1 .. (next - 1), x \notin X \/ x \notin Y
      PROVE  x \in 1 .. (after - 1) /\ (x \notin X => x \notin Y)
  BY <1>1, <1>2
<1> QED
  BY <1>2, <1>3

\* What exists has an identifier that was given.
LEMMA ExistingGiven ==
  ASSUME IInv
  PROVE  /\ nextWorkspaceID \in Nat /\ nextWindowID \in Nat /\ nextPaneID \in Nat
         /\ Workspaces \subseteq 1 .. (nextWorkspaceID - 1)
         /\ windows \subseteq 1 .. (nextWindowID - 1)
         /\ panes \subseteq 1 .. (nextPaneID - 1)
<1>1. TypeOK /\ OrderInv /\ WindowInv /\ LayoutInv
  BY DEF IInv
<1>2. nextWorkspaceID \in Nat /\ nextWindowID \in Nat /\ nextPaneID \in Nat
  BY <1>1, CoreAssumption DEF TypeOK
<1>3. /\ Workspaces \subseteq WorkspaceID
      /\ \A ws \in Workspaces : ws < nextWorkspaceID
  BY <1>1, ToSetType DEF TypeOK, OrderInv, Workspaces
<1>4. windows \subseteq WindowID /\ \A w \in windows : w < nextWindowID
  BY <1>1 DEF TypeOK, WindowInv
<1>5. panes \subseteq PaneID /\ \A p \in panes : p < nextPaneID
  BY <1>1 DEF TypeOK, LayoutInv
<1> QED
  BY <1>2, <1>3, <1>4, <1>5, CoreAssumption DEF WorkspaceID, WindowID, PaneID

\* No step uses a spent identifier again or lowers a counter.
LEMMA SpentIdentifiers ==
  ASSUME IInv, Next
  PROVE  /\ SpentWorkspaces \cup (Workspaces \ Workspaces') \subseteq SpentWorkspaces'
         /\ SpentWindows \cup (windows \ windows') \subseteq SpentWindows'
         /\ SpentPanes \cup (panes \ panes') \subseteq SpentPanes'
         /\ nextWorkspaceID <= nextWorkspaceID'
         /\ nextWindowID <= nextWindowID' /\ nextPaneID <= nextPaneID'
<1>1. /\ (1 .. (nextWorkspaceID - 1) \ Workspaces) \cup (Workspaces \ Workspaces')
           \subseteq 1 .. (nextWorkspaceID' - 1) \ Workspaces'
      /\ nextWorkspaceID <= nextWorkspaceID'
  BY CountersGrow, ExistingGiven, SpentStays
<1>2. /\ (1 .. (nextWindowID - 1) \ windows) \cup (windows \ windows')
           \subseteq 1 .. (nextWindowID' - 1) \ windows'
      /\ nextWindowID <= nextWindowID'
  BY CountersGrow, ExistingGiven, SpentStays
<1>3. /\ (1 .. (nextPaneID - 1) \ panes) \cup (panes \ panes')
           \subseteq 1 .. (nextPaneID' - 1) \ panes'
      /\ nextPaneID <= nextPaneID'
  BY CountersGrow, ExistingGiven, SpentStays
<1> QED
  BY <1>1, <1>2, <1>3 DEF SpentWorkspaces, SpentWindows, SpentPanes

\* The identifier of a closed pane or of a deleted window or workspace stays
\* spent and the counters never go back, through every command and restart, so
\* that what still names it never comes to name another one.
THEOREM IdentifiersAreFresh == Spec => NoIdentifierReused
<1>1. IInv /\ [Next]_vars =>
        [ /\ SpentWorkspaces \cup (Workspaces \ Workspaces') \subseteq SpentWorkspaces'
          /\ SpentWindows \cup (windows \ windows') \subseteq SpentWindows'
          /\ SpentPanes \cup (panes \ panes') \subseteq SpentPanes'
          /\ nextWorkspaceID <= nextWorkspaceID'
          /\ nextWindowID <= nextWindowID' /\ nextPaneID <= nextPaneID' ]_vars
  BY SpentIdentifiers
<1> QED BY <1>1, InvariantHolds, PTL DEF Spec, NoIdentifierReused
-----------------------------------------------------------------------------
(***************************************************************************)
(* The event stream: that no frontend misses an event unknowingly, for     *)
(* every number of frontends, capacity of their queues and number of       *)
(* mutations.                                                              *)
(***************************************************************************)
IsSequence(s) == \E S : s \in Seq(S)

(* What a frontend can still read continues its copy without a gap.        *)
Continues(f) ==
  status[f] \in {"live", "full", "ended"} =>
    /\ "revision" \in DOMAIN copy[f]
    /\ copy[f].revision \in Nat
    /\ \A i \in DOMAIN queue[f] : queue[f][i].revision = copy[f].revision + i
    /\ status[f] = "live" => copy[f].revision + Len(queue[f]) = revision

(* The inductive strengthening of NoSilentGap: a queue is a sequence; that *)
(* of a frontend that does not subscribe is empty, so that a subscription  *)
(* starts with nothing to read; and a copy has a revision.                 *)
GapFree(f) ==
  /\ IsSequence(queue[f])
  /\ status[f] = "free" => queue[f] = <<>>
  /\ Continues(f)

GapInv ==
  /\ revision \in Nat
  /\ queue = [f \in Frontends |-> queue[f]]
  /\ DOMAIN copy = Frontends
  /\ status \in [Frontends -> Status]
  /\ \A f \in Frontends : GapFree(f)

-----------------------------------------------------------------------------
(* Sequences whose elements are of any kind.                               *)

(* An element appended to a sequence is its last, and the only new one.    *)
LEMMA AppendedSequence ==
  ASSUME NEW s, NEW e, IsSequence(s)
  PROVE  /\ IsSequence(Append(s, e))
         /\ Len(s) \in Nat /\ DOMAIN s = 1 .. Len(s)
         /\ Len(Append(s, e)) = Len(s) + 1
         /\ DOMAIN Append(s, e) = 1 .. Len(s) + 1
         /\ \A i \in 1 .. Len(s) : Append(s, e)[i] = s[i]
         /\ Append(s, e)[Len(s) + 1] = e
<1>1. PICK S : s \in Seq(S)
  BY DEF IsSequence
<1>2. s \in Seq(S \cup {e})
  BY <1>1, SMT
<1>3. Append(s, e) \in Seq(S \cup {e})
  BY <1>2, SMT
<1> QED
  BY <1>2, <1>3, SMT DEF IsSequence

(* Without its first element a sequence is one shorter, and the rest moves *)
(* up by one.                                                              *)
LEMMA RestOfSequence ==
  ASSUME NEW s, IsSequence(s), s # <<>>
  PROVE  /\ IsSequence(Tail(s))
         /\ Len(s) \in Nat \ {0} /\ DOMAIN s = 1 .. Len(s)
         /\ Len(Tail(s)) = Len(s) - 1
         /\ DOMAIN Tail(s) = 1 .. Len(s) - 1
         /\ \A i \in 1 .. Len(s) - 1 : Tail(s)[i] = s[i + 1]
         /\ Head(s) = s[1]
<1>1. PICK S : s \in Seq(S)
  BY DEF IsSequence
<1>2. /\ Len(s) \in Nat \ {0}
      /\ DOMAIN s = 1 .. Len(s)
      /\ Head(s) = s[1]
  BY <1>1, SMT
<1>3. /\ Tail(s) \in Seq(S)
      /\ Len(Tail(s)) = Len(s) - 1
      /\ \A i \in 1 .. Len(s) - 1 : Tail(s)[i] = s[i + 1]
  BY <1>1, HeadTailProperties, SMT
<1> QED
  BY <1>2, <1>3, SMT DEF IsSequence

(* The empty sequence is one.                                              *)
LEMMA EmptySequence == IsSequence(<<>>) /\ DOMAIN <<>> = {} /\ Len(<<>>) = 0
  BY SMT DEF IsSequence

-----------------------------------------------------------------------------
(* The parts of a step                                                     *)

(* Applying an event gives the copy the revision of the event.             *)
LEMMA ProjectRevision ==
  ASSUME NEW s, NEW e, "revision" \in DOMAIN s
  PROVE  /\ "revision" \in DOMAIN Project(s, e)
         /\ Project(s, e).revision = e.revision
<1> DEFINE t == Upsert(s, e)
<1>1. "revision" \in DOMAIN t /\ t.revision = e.revision
  BY DEF Upsert
<1> HIDE DEF t
<1> QED
  BY <1>1 DEF Project, ClosePaneIn, t

(* An event carries the revision after the one it changes.                 *)
LEMMA EventRevision ==
  ASSUME NEW k, NEW id, NEW Ws, NEW W, NEW P
  PROVE  Event(k, id, Ws, W, P).revision = revision + 1
  BY DEF Event

(* Publishing the next event leaves every queue without a gap.             *)
LEMMA PublishKeepsGapInv ==
  ASSUME GapInv, NEW k, NEW id, NEW Ws, NEW W, NEW P, Publish(k, id, Ws, W, P)
  PROVE  GapInv'
<1> DEFINE e == Event(k, id, Ws, W, P)
<1>1. e.revision = revision + 1
  BY EventRevision
<1>2. /\ revision' = revision + 1
      /\ queue' = Enqueued(e)
      /\ status' = [f \in Frontends |-> IF f \in Full THEN "full" ELSE status[f]]
      /\ copy' = copy
  BY DEF Publish, Deliver
<1> HIDE DEF e
<1>3. /\ revision' \in Nat /\ DOMAIN copy' = Frontends
      /\ queue' = [f \in Frontends |-> queue'[f]]
  BY <1>2 DEF GapInv, Enqueued
<1>4. status' \in [Frontends -> Status]
  BY <1>2 DEF GapInv, Status
<1>5. ASSUME NEW f \in Frontends PROVE GapFree(f)'
  <2>1. CASE status[f] = "live" /\ f \notin Full
    <3>1. queue'[f] = Append(queue[f], e) /\ status'[f] = "live"
      BY <1>2, <2>1 DEF Enqueued
    <3>2. IsSequence(queue[f]) /\ Continues(f)
      BY DEF GapInv, GapFree
    <3>3. /\ "revision" \in DOMAIN copy[f] /\ copy[f].revision \in Nat
          /\ \A i \in DOMAIN queue[f] : queue[f][i].revision = copy[f].revision + i
          /\ copy[f].revision + Len(queue[f]) = revision
      BY <3>2, <2>1 DEF Continues
    <3>4. IsSequence(queue'[f])
      BY <3>1, <3>2, AppendedSequence
    <3>5. \A i \in DOMAIN queue'[f] : queue'[f][i].revision = copy[f].revision + i
      <4>1. /\ Len(queue[f]) \in Nat /\ DOMAIN queue[f] = 1 .. Len(queue[f])
            /\ DOMAIN queue'[f] = 1 .. Len(queue[f]) + 1
            /\ \A i \in 1 .. Len(queue[f]) : queue'[f][i] = queue[f][i]
            /\ queue'[f][Len(queue[f]) + 1] = e
        BY <3>1, <3>2, AppendedSequence
      <4>2. \A i \in 1 .. Len(queue[f]) + 1 :
              i \in 1 .. Len(queue[f]) \/ i = Len(queue[f]) + 1
        BY <4>1
      <4>3. e.revision = copy[f].revision + (Len(queue[f]) + 1)
        BY <1>1, <3>3, <4>1
      <4> QED
        BY <3>3, <4>1, <4>2, <4>3
    <3>6. copy[f].revision + Len(queue'[f]) = revision'
      BY <1>2, <3>1, <3>2, <3>3, AppendedSequence
    <3> QED
      BY <1>2, <3>1, <3>3, <3>4, <3>5, <3>6 DEF GapFree, Continues
  <2>2. CASE ~ (status[f] = "live" /\ f \notin Full)
    <3>1. /\ queue'[f] = queue[f]
          /\ status'[f] = IF f \in Full THEN "full" ELSE status[f]
      BY <1>2, <2>2 DEF Enqueued
    <3>2. /\ status'[f] # "live"
          /\ status'[f] = "free" => status[f] = "free"
          /\ status'[f] \in {"live", "full", "ended"}
               => status[f] \in {"live", "full", "ended"}
      BY <2>2, <3>1 DEF Full
    <3> QED
      BY <1>2, <3>1, <3>2 DEF GapInv, GapFree, Continues
  <2> QED
    BY <2>1, <2>2
<1> QED
  BY <1>3, <1>4, <1>5 DEF GapInv

-----------------------------------------------------------------------------
(* One lemma per action                                                    *)

(* At the start there are no copies and no events.                         *)
LEMMA InitGapInv == StreamInit => GapInv
<1> SUFFICES ASSUME StreamInit PROVE GapInv
  OBVIOUS
<1>1. /\ revision = 0
      /\ queue = [f \in Frontends |-> <<>>]
      /\ copy = [f \in Frontends |-> NoCopy]
      /\ status = [f \in Frontends |-> "free"]
  BY DEF StreamInit
<1> QED
  BY <1>1, EmptySequence DEF GapInv, GapFree, Continues, Status

(* Every command publishes one event.                                      *)
LEMMA MutatePublishes ==
  ASSUME Mutate
  PROVE  \E k, id, Ws, W, P : Publish(k, id, Ws, W, P)
<1>1. CASE WorkspaceEvents
  BY <1>1, Zenon DEF WorkspaceEvents
<1>2. CASE WindowEvents
  BY <1>2, Zenon DEF WindowEvents
<1>3. CASE PaneEvents
  BY <1>3, Zenon DEF PaneEvents
<1> QED
  BY <1>1, <1>2, <1>3, Zenon DEF Mutate

(* A new subscription has the revision of its snapshot and no events yet.  *)
LEMMA JoinKeepsGapInv ==
  ASSUME GapInv, NEW f \in Frontends, Join(f)
  PROVE  GapInv'
<1>1. /\ status[f] = "free"
      /\ copy' = [copy EXCEPT ![f] = Snapshot]
      /\ status' = [status EXCEPT ![f] = "live"]
      /\ revision' = revision /\ queue' = queue
  BY DEF Join
<1>2. "revision" \in DOMAIN Snapshot /\ Snapshot.revision = revision
  BY DEF Snapshot
<1>3. status' \in [Frontends -> Status]
  BY <1>1 DEF GapInv, Status
<1>4. GapFree(f)'
  <2>1. queue'[f] = <<>> /\ status'[f] = "live" /\ copy'[f] = Snapshot
    BY <1>1 DEF GapInv, GapFree
  <2> HIDE DEF Snapshot
  <2> QED
    BY <1>1, <1>2, <2>1, EmptySequence DEF GapInv, GapFree, Continues
<1>5. ASSUME NEW g \in Frontends, g # f PROVE GapFree(g)'
  <2>1. queue'[g] = queue[g] /\ status'[g] = status[g] /\ copy'[g] = copy[g]
    BY <1>1, <1>5 DEF GapInv
  <2> QED
    BY <1>1, <2>1 DEF GapInv, GapFree, Continues
<1> QED
  BY <1>1, <1>3, <1>4, <1>5 DEF GapInv

(* A step of one frontend leaves the others as they are; it is enough to   *)
(* look at that frontend.                                                  *)
LEMMA OnlyOwnStream ==
  ASSUME GapInv, NEW f \in Frontends, NEW q, NEW c, NEW st \in Status,
         revision' = revision,
         queue' = [queue EXCEPT ![f] = q],
         copy' = [copy EXCEPT ![f] = c],
         status' = [status EXCEPT ![f] = st],
         GapFree(f)'
  PROVE  GapInv'
<1>1. ASSUME NEW g \in Frontends, g # f PROVE GapFree(g)'
  <2>1. queue'[g] = queue[g] /\ status'[g] = status[g] /\ copy'[g] = copy[g]
    BY <1>1 DEF GapInv
  <2> QED
    BY <2>1 DEF GapInv, GapFree, Continues
<1>2. status' \in [Frontends -> Status]
  BY DEF GapInv
<1> QED
  BY <1>1, <1>2 DEF GapInv

(* The executor only ends a subscription; its queue stays readable.        *)
LEMMA EvictKeepsGapInv ==
  ASSUME GapInv, NEW f \in Frontends, Evict(f)
  PROVE  GapInv'
<1>1. /\ status[f] = "full"
      /\ status' = [status EXCEPT ![f] = "ended"]
      /\ revision' = revision /\ queue' = queue /\ copy' = copy
  BY DEF Evict
<1>2. ASSUME NEW g \in Frontends PROVE GapFree(g)'
  <2>1. CASE g = f
    BY <1>1, <2>1 DEF GapInv, GapFree, Continues
  <2>2. CASE g # f
    BY <1>1, <2>2 DEF GapInv, GapFree, Continues
  <2> QED
    BY <2>1, <2>2
<1> QED
  BY <1>1, <1>2 DEF GapInv, Status

(* A frontend that leaves keeps nothing.                                   *)
LEMMA LeaveKeepsGapInv ==
  ASSUME GapInv, NEW f \in Frontends, Leave(f)
  PROVE  GapInv'
<1>1. /\ queue' = [queue EXCEPT ![f] = <<>>]
      /\ copy' = [copy EXCEPT ![f] = NoCopy]
      /\ status' = [status EXCEPT ![f] = "free"]
      /\ revision' = revision
  BY DEF Leave
<1>2. queue'[f] = <<>> /\ status'[f] = "free"
  BY <1>1 DEF GapInv
<1>3. GapFree(f)'
  BY <1>2, EmptySequence DEF GapFree, Continues
<1> QED
  BY <1>1, <1>3, OnlyOwnStream DEF Status

(* Neither does one that has read the end of its queue.                    *)
LEMMA ReadEndKeepsGapInv ==
  ASSUME GapInv, NEW f \in Frontends, ReadEnd(f)
  PROVE  GapInv'
<1>1. /\ queue[f] = <<>>
      /\ copy' = [copy EXCEPT ![f] = NoCopy]
      /\ status' = [status EXCEPT ![f] = "free"]
      /\ revision' = revision /\ queue' = queue
  BY DEF ReadEnd
<1>2. /\ queue' = [queue EXCEPT ![f] = <<>>]
      /\ queue'[f] = <<>> /\ status'[f] = "free"
  BY <1>1 DEF GapInv
<1>3. GapFree(f)'
  BY <1>2, EmptySequence DEF GapFree, Continues
<1> QED
  BY <1>1, <1>2, <1>3, OnlyOwnStream DEF Status

(* The event that a frontend applies is the next one of its copy; after an *)
(* event it cannot apply it reads nothing more.                            *)
LEMMA ReceiveKeepsGapInv ==
  ASSUME GapInv, NEW f \in Frontends, Receive(f)
  PROVE  GapInv'
<1> DEFINE e == Head(queue[f])
<1>1. /\ status[f] \in {"live", "full", "ended"}
      /\ queue[f] # <<>>
      /\ revision' = revision
  BY DEF Receive
<1>2. CASE /\ Applicable(copy[f], e)
           /\ queue' = [queue EXCEPT ![f] = Tail(@)]
           /\ copy' = [copy EXCEPT ![f] = Project(@, e)]
           /\ status' = status
  <2>1. IsSequence(queue[f]) /\ Continues(f)
    BY DEF GapInv, GapFree
  <2>2. /\ "revision" \in DOMAIN copy[f] /\ copy[f].revision \in Nat
        /\ \A i \in DOMAIN queue[f] : queue[f][i].revision = copy[f].revision + i
        /\ status[f] = "live" => copy[f].revision + Len(queue[f]) = revision
    BY <1>1, <2>1 DEF Continues
  <2>3. /\ IsSequence(Tail(queue[f]))
        /\ Len(queue[f]) \in Nat \ {0} /\ DOMAIN queue[f] = 1 .. Len(queue[f])
        /\ Len(Tail(queue[f])) = Len(queue[f]) - 1
        /\ DOMAIN Tail(queue[f]) = 1 .. Len(queue[f]) - 1
        /\ \A i \in 1 .. Len(queue[f]) - 1 : Tail(queue[f])[i] = queue[f][i + 1]
        /\ e = queue[f][1]
    BY <1>1, <2>1, RestOfSequence
  <2> HIDE DEF e
  <2>4. e.revision = copy[f].revision + 1
    BY <2>2, <2>3
  <2>5. /\ queue'[f] = Tail(queue[f]) /\ status'[f] = status[f]
        /\ copy'[f] = Project(copy[f], e)
    BY <1>2 DEF GapInv
  <2>6. "revision" \in DOMAIN copy'[f] /\ copy'[f].revision = copy[f].revision + 1
    BY <2>2, <2>4, <2>5, ProjectRevision
  <2>7. \A i \in DOMAIN queue'[f] : queue'[f][i].revision = copy'[f].revision + i
    <3> TAKE i \in DOMAIN queue'[f]
    <3>1. i \in 1 .. Len(queue[f]) - 1 /\ i + 1 \in DOMAIN queue[f]
      BY <2>3, <2>5
    <3>2. queue'[f][i] = queue[f][i + 1]
      BY <2>3, <2>5, <3>1
    <3>3. queue[f][i + 1].revision = copy[f].revision + (i + 1)
      BY <2>2, <3>1
    <3> QED
      BY <2>2, <2>6, <3>1, <3>2, <3>3
  <2>8. status'[f] = "live" => copy'[f].revision + Len(queue'[f]) = revision'
    <3>1. Len(queue'[f]) = Len(queue[f]) - 1 /\ Len(queue[f]) \in Nat
      BY <2>3, <2>5
    <3> QED
      BY <1>1, <2>2, <2>5, <2>6, <3>1
  <2>9. GapFree(f)'
    BY <1>1, <2>2, <2>3, <2>5, <2>6, <2>7, <2>8 DEF GapFree, Continues
  <2>10. /\ status[f] \in Status
         /\ status' = [status EXCEPT ![f] = status[f]]
         /\ queue' = [queue EXCEPT ![f] = Tail(queue[f])]
         /\ copy' = [copy EXCEPT ![f] = Project(copy[f], e)]
    BY <1>2 DEF GapInv
  <2> QED
    BY <1>1, <2>9, <2>10, OnlyOwnStream
<1>3. CASE /\ queue' = [queue EXCEPT ![f] = <<>>]
           /\ status' = [status EXCEPT ![f] = IF @ = "live" THEN "failed" ELSE "free"]
           /\ copy' = [copy EXCEPT ![f] = NoCopy]
  <2>1. /\ queue'[f] = <<>>
        /\ status'[f] = IF status[f] = "live" THEN "failed" ELSE "free"
    BY <1>3 DEF GapInv
  <2>2. GapFree(f)'
    BY <2>1, EmptySequence DEF GapFree, Continues
  <2>3. status'[f] \in Status
    BY <2>1 DEF Status
  <2>4. status' = [status EXCEPT ![f] = status'[f]]
    BY <1>3, <2>1
  <2> QED
    BY <1>1, <1>3, <2>2, <2>3, <2>4, OnlyOwnStream
<1> QED
  BY <1>2, <1>3, Zenon DEF Receive

(* Every step keeps the queues without a gap.                              *)
LEMMA StepKeepsGapInv == GapInv /\ [StreamNext]_<<vars, streamVars>> => GapInv'
<1> SUFFICES ASSUME GapInv, [StreamNext]_<<vars, streamVars>> PROVE GapInv'
  OBVIOUS
<1>1. CASE Mutate
  BY <1>1, MutatePublishes, PublishKeepsGapInv
<1>2. ASSUME NEW f \in Frontends,
             Join(f) \/ Evict(f) \/ Leave(f) \/ LookElsewhere(f) \/ Receive(f) \/ ReadEnd(f)
      PROVE  GapInv'
  <2>1. CASE Join(f)
    BY <2>1, JoinKeepsGapInv
  <2>2. CASE Evict(f)
    BY <2>2, EvictKeepsGapInv
  <2>3. CASE Leave(f)
    BY <2>3, LeaveKeepsGapInv
  <2>4. CASE LookElsewhere(f)
    <3>1. UNCHANGED streamVars
      BY <2>4 DEF LookElsewhere
    <3> QED
      BY <3>1 DEF streamVars, GapInv, GapFree, Continues
  <2>5. CASE Receive(f)
    BY <2>5, ReceiveKeepsGapInv
  <2>6. CASE ReadEnd(f)
    BY <2>6, ReadEndKeepsGapInv
  <2> QED
    BY <1>2, <2>1, <2>2, <2>3, <2>4, <2>5, <2>6
<1>3. CASE UNCHANGED <<vars, streamVars>>
  BY <1>3 DEF streamVars, GapInv, GapFree, Continues
<1> QED
  BY <1>1, <1>2, <1>3 DEF StreamNext

(* The strengthening gives the property.                                   *)
LEMMA GapInvSuffices == GapInv => NoSilentGap
  BY DEF GapInv, GapFree, Continues, NoSilentGap

(* No frontend ever misses an event without learning of it, whatever the   *)
(* commands, the number of frontends, the capacity of their queues and the *)
(* validation of snapshots are (publish and finish against ApplyEvent).    *)
THEOREM NothingMissedSilently == StreamSpec => []NoSilentGap
<1>1. StreamSpec => []GapInv
  BY InitGapInv, StepKeepsGapInv, PTL DEF StreamSpec
<1> QED
  BY <1>1, GapInvSuffices, PTL

-----------------------------------------------------------------------------
(***************************************************************************)
(* The state file.  The hierarchy holds whatever is checked; names that    *)
(* are distinct are what the validator of the daemon adds.                 *)
(***************************************************************************)

(* The transient panes are stashed, so that the file can leave them out.   *)
LEMMA PersistedPanes ==
  ASSUME IInv
  PROVE  PanesPlaced(panes \ transient)
<1>1. PanesPlaced(panes)
  BY HierarchyFromIInv DEF Hierarchy
<1>2. TypeOK /\ LayoutInv
  BY DEF IInv
<1>3. ASSUME NEW w \in windows, NEW i \in DOMAIN layout[w]
      PROVE  layout[w][i] \in panes \ transient
  <2>1. w \in WindowID /\ layout[w][i] \in ToSet(layout[w])
    BY <1>2 DEF TypeOK, ToSet
  <2>2. layout[w][i] \in panes /\ ~ IsStashedPane(layout[w][i])
    BY <1>2, <2>1, LaidOutPane
  <2> QED BY <1>2, <2>2 DEF LayoutInv
<1> QED BY <1>1, <1>3 DEF PanesPlaced

NamesInv == Validated => DistinctNames

(* The first workspace and its window are alone.                           *)
LEMMA InitNamesInv == Init => NamesInv
<1> SUFFICES ASSUME Init PROVE DistinctNames
  BY DEF NamesInv
<1>1. DOMAIN workspaceOrder = {1} /\ windows = {1}
  BY DEF Init
<1> QED BY <1>1 DEF DistinctNames

(* A command is rolled back unless the validator accepts its result; what  *)
(* a frontend does and a restart change no name.                           *)
LEMMA StepKeepsNamesInv == NamesInv /\ [Next]_vars => NamesInv'
<1> SUFFICES ASSUME NamesInv, [Next]_vars, Validated PROVE DistinctNames'
  BY DEF NamesInv
<1>1. CASE Mutation /\ Commit
  BY <1>1 DEF Commit, SnapshotAccepted
<1>2. CASE UNCHANGED <<workspaceOrder, workspaceName, windows, windowName, windowWorkspace>>
  BY <1>2 DEF NamesInv, DistinctNames
<1>3. CASE FrontendStep
  BY <1>2, <1>3 DEF FrontendStep, Subscribe, Unsubscribe, SetFocus, SelectWindow,
     workspaceVars, windowVars
<1>4. CASE Reload
  BY <1>2, <1>4 DEF Reload, KeepCounters, workspaceVars, windowVars
<1>5. CASE UNCHANGED vars
  BY <1>2, <1>5 DEF vars, workspaceVars, windowVars
<1> QED BY <1>1, <1>3, <1>4, <1>5 DEF Next

(* What the daemon has accepted it accepts again.                          *)
LEMMA RestartFromIInv == IInv /\ NamesInv => (Validated => RestartAccepts)
<1> SUFFICES ASSUME IInv, NamesInv, Validated PROVE RestartAccepts
  OBVIOUS
<1>1. DistinctNames
  BY DEF NamesInv
<1>2. Hierarchy
  BY HierarchyFromIInv
<1>3. PanesPlaced(panes \ transient)
  BY PersistedPanes
<1> QED BY <1>1, <1>2, <1>3 DEF RestartAccepts, SnapshotAccepted, PersistedAccepted, Hierarchy

(* With a validator no state is quarantined by a restart, and no command   *)
(* is refused because the state before it cannot be cloned.                *)
THEOREM RestartIsAccepted == Spec => [](Validated => RestartAccepts)
<1>1. Spec => []NamesInv
  BY InitNamesInv, StepKeepsNamesInv, PTL DEF Spec
<1> QED BY <1>1, InvariantHolds, RestartFromIInv, PTL

(* Publishing, reading and losing events are steps of Core or none.        *)
LEMMA StreamStepIsCoreStep == [StreamNext]_<<vars, streamVars>> => [Next]_vars
<1> SUFFICES ASSUME [StreamNext]_<<vars, streamVars>> PROVE [Next]_vars
  OBVIOUS
<1>1. CASE Mutate
  <2>1. WorkspaceEvents => Mutation
    BY Zenon DEF WorkspaceEvents, Mutation
  <2>2. WindowEvents => Mutation
    BY Zenon DEF WindowEvents, Mutation
  <2>3. PaneEvents => Mutation
    BY Zenon DEF PaneEvents, Mutation
  <2> QED BY <1>1, <2>1, <2>2, <2>3 DEF Mutate, Next
<1>2. ASSUME NEW f \in Frontends,
             Join(f) \/ Evict(f) \/ Leave(f) \/ LookElsewhere(f) \/ Receive(f) \/ ReadEnd(f)
      PROVE  [Next]_vars
  <2>1. FrontendStep \/ UNCHANGED vars
    BY <1>2, Zenon DEF Join, Evict, Leave, LookElsewhere, Receive, ReadEnd, FrontendStep
  <2> QED BY <2>1 DEF Next
<1> QED BY <1>1, <1>2 DEF StreamNext

(* EventStream only adds to CoreState: Core behaves with its subscribers   *)
(* as it does without them.                                                *)
THEOREM StreamImplementsCore == StreamSpec => Spec
<1>1. StreamInit => Init
  BY DEF StreamInit
<1> QED BY <1>1, StreamStepIsCoreStep, PTL DEF StreamSpec, Spec

(* So the state is accepted again whoever follows it.                      *)
THEOREM RestartIsAcceptedWithSubscribers == StreamSpec => [](Validated => RestartAccepts)
  BY StreamImplementsCore, RestartIsAccepted, PTL

-----------------------------------------------------------------------------
(***************************************************************************)
(* What a frontend makes of the events: that every event carries all that  *)
(* its command changed.                                                    *)
(***************************************************************************)

\* From old to new nothing changes but the entries S, and those gone go.
Carries(old, new, S, gone) ==
  /\ \A x \in DOMAIN new \ S : x \in DOMAIN old /\ new[x] = old[x]
  /\ DOMAIN old \ DOMAIN new \subseteq gone
  /\ gone \cap DOMAIN new = {}

IsMap(m) == m = [x \in DOMAIN m |-> m[x]]

(* The new map is the old one with the changed entries laid over it, once  *)
(* what is gone has been taken out.                                        *)
LEMMA CarriesFacts ==
  ASSUME NEW old, NEW new, NEW S, NEW gone, IsMap(old), IsMap(new), Carries(old, new, S, gone)
  PROVE  /\ gone = {} => Updated(old, Pick(new, S)) = new
         /\ \A id : gone = {id} => Minus(Updated(old, Pick(new, S)), id) = new
         /\ S = {} /\ gone = {} => old = new
         /\ \A id : S = {} /\ gone = {id} => Minus(old, id) = new
<1> DEFINE both == Updated(old, Pick(new, S))
<1>1. /\ both = [x \in DOMAIN both |-> both[x]]
      /\ DOMAIN both = (S \cap DOMAIN new) \cup DOMAIN old
      /\ \A x \in DOMAIN both : both[x] = IF x \in S \cap DOMAIN new THEN new[x] ELSE old[x]
  BY DEF Pick, Restrict, Updated
<1>2. \A x \in DOMAIN new : x \in DOMAIN both /\ both[x] = new[x]
  BY <1>1 DEF Carries
<1> HIDE DEF both
<1>3. ASSUME gone = {} PROVE both = new
  <2>1. DOMAIN both = DOMAIN new
    BY <1>1, <1>2, <1>3 DEF Carries
  <2> QED BY <1>1, <1>2, <2>1 DEF IsMap
<1>4. ASSUME NEW id, gone = {id} PROVE Minus(both, id) = new
  <2>1. DOMAIN both \ {id} = DOMAIN new
    BY <1>1, <1>2, <1>4 DEF Carries
  <2>2. Minus(both, id) = [x \in DOMAIN new |-> both[x]]
    BY <2>1 DEF Minus, Restrict
  <2> QED BY <1>2, <2>2 DEF IsMap
<1>5. ASSUME S = {}, gone = {} PROVE old = new
  <2>1. DOMAIN old = DOMAIN new
    BY <1>5 DEF Carries
  <2> QED BY <1>5, <2>1 DEF Carries, IsMap
<1>6. ASSUME NEW id, S = {}, gone = {id} PROVE Minus(old, id) = new
  <2>1. DOMAIN old \ {id} = DOMAIN new
    BY <1>6 DEF Carries
  <2>2. Minus(old, id) = [x \in DOMAIN new |-> old[x]]
    BY <2>1 DEF Minus, Restrict
  <2> QED BY <1>6, <2>2 DEF Carries, IsMap
<1> QED BY <1>3, <1>4, <1>5, <1>6 DEF both

\* The maps of a snapshot.
StashedPanes == {q \in panes : IsStashedPane(q)}
StashedWindows == {v \in windows : IsStashedWindow(v)}
WorkspaceMap == [ws \in Workspaces |-> [name |-> workspaceName[ws], windowIDs |-> windowIDs[ws]]]
WindowMap == [w \in windows |-> [name |-> windowName[w], workspace |-> windowWorkspace[w],
                                 layout |-> layout[w]]]
PaneMap == [p \in panes |-> [window |-> paneWindow[p], transient |-> p \in transient]]
PaneHintMap == [p \in StashedPanes |-> stashedPanes[p]]
WindowHintMap == [w \in StashedWindows |-> stashedWindows[w]]

\* A snapshot of these parts.
SnapshotOf(r, nws, nw, np, order, wss, wins, ps, sps, sws) ==
  [revision |-> r, nextWorkspaceID |-> nws, nextWindowID |-> nw, nextPaneID |-> np,
   order |-> order, workspaces |-> wss, windows |-> wins, panes |-> ps,
   stashedPanes |-> sps, stashedWindows |-> sws]

(* The snapshot of a state is made of the maps of its objects.            *)
LEMMA SnapshotParts ==
  Snapshot = SnapshotOf(revision, nextWorkspaceID, nextWindowID, nextPaneID, workspaceOrder,
                        WorkspaceMap, WindowMap, PaneMap, PaneHintMap, WindowHintMap)
  BY Zenon DEF Snapshot, SnapshotOf, WorkspaceMap, WindowMap, PaneMap, PaneHintMap, WindowHintMap,
     StashedPanes, StashedWindows

(* So is the snapshot of the next state.                                  *)
LEMMA SnapshotPartsNext ==
  Snapshot' = SnapshotOf(revision, nextWorkspaceID, nextWindowID, nextPaneID, workspaceOrder,
                         WorkspaceMap, WindowMap, PaneMap, PaneHintMap, WindowHintMap)'
  BY Zenon DEF Snapshot, SnapshotOf, WorkspaceMap, WindowMap, PaneMap, PaneHintMap, WindowHintMap,
     StashedPanes, StashedWindows

(* What an event carries, taken from the maps of the next state.           *)
LEMMA EventParts ==
  ASSUME NEW k, NEW id, NEW Ws, NEW W, NEW P
  PROVE  Event(k, id, Ws, W, P) =
           [revision |-> revision + 1, kind |-> k, id |-> id,
            workspaces |-> Pick(WorkspaceMap', Ws), windows |-> Pick(WindowMap', W),
            panes |-> Pick(PaneMap', P), stashedPanes |-> Pick(PaneHintMap', P),
            stashedWindows |-> Pick(WindowHintMap', W)]
<1>2. /\ Snapshot'.workspaces = WorkspaceMap' /\ Snapshot'.windows = WindowMap'
      /\ Snapshot'.panes = PaneMap' /\ Snapshot'.stashedPanes = PaneHintMap'
      /\ Snapshot'.stashedWindows = WindowHintMap'
  BY SnapshotPartsNext DEF SnapshotOf
<1> QED BY <1>2, Zenon DEF Event

(* The parts of a snapshot are its fields.                                 *)
LEMMA SnapshotFields ==
  ASSUME NEW r, NEW nws, NEW nw, NEW np, NEW order, NEW wss, NEW wins, NEW ps, NEW sps, NEW sws
  PROVE  LET s == SnapshotOf(r, nws, nw, np, order, wss, wins, ps, sps, sws) IN
         /\ s.revision = r
         /\ s.nextWorkspaceID = nws
         /\ s.nextWindowID = nw
         /\ s.nextPaneID = np
         /\ s.order = order
         /\ s.workspaces = wss
         /\ s.windows = wins
         /\ s.panes = ps
         /\ s.stashedPanes = sps
         /\ s.stashedWindows = sws
  BY DEF SnapshotOf

(* Fields changed together are changed one after the other.                *)
LEMMA ExceptInTurn ==
  ASSUME NEW s, NEW a, NEW b, NEW c, NEW d
  PROVE  /\ [s EXCEPT !.revision = a, !.workspaces = b, !.windows = c, !.panes = d]
              = [[[[s EXCEPT !.revision = a] EXCEPT !.workspaces = b] EXCEPT !.windows = c]
                  EXCEPT !.panes = d]
         /\ [s EXCEPT !.order = a, !.nextWorkspaceID = b]
              = [[s EXCEPT !.order = a] EXCEPT !.nextWorkspaceID = b]
         /\ [s EXCEPT !.order = a, !.workspaces = b]
              = [[s EXCEPT !.order = a] EXCEPT !.workspaces = b]
         /\ [s EXCEPT !.panes = a, !.stashedPanes = b]
              = [[s EXCEPT !.panes = a] EXCEPT !.stashedPanes = b]
         /\ [s EXCEPT !.nextPaneID = a, !.stashedPanes = b]
              = [[s EXCEPT !.nextPaneID = a] EXCEPT !.stashedPanes = b]
<1>1. [s EXCEPT !.revision = a, !.workspaces = b] = [[s EXCEPT !.revision = a] EXCEPT !.workspaces = b]
  OBVIOUS
<1>2. [s EXCEPT !.revision = a, !.workspaces = b, !.windows = c]
        = [[s EXCEPT !.revision = a, !.workspaces = b] EXCEPT !.windows = c]
  OBVIOUS
<1>3. [s EXCEPT !.revision = a, !.workspaces = b, !.windows = c, !.panes = d]
        = [[s EXCEPT !.revision = a, !.workspaces = b, !.windows = c] EXCEPT !.panes = d]
  OBVIOUS
<1>4. [s EXCEPT !.order = a, !.nextWorkspaceID = b] = [[s EXCEPT !.order = a] EXCEPT !.nextWorkspaceID = b]
  OBVIOUS
<1>5. [s EXCEPT !.order = a, !.workspaces = b] = [[s EXCEPT !.order = a] EXCEPT !.workspaces = b]
  OBVIOUS
<1>6. [s EXCEPT !.panes = a, !.stashedPanes = b] = [[s EXCEPT !.panes = a] EXCEPT !.stashedPanes = b]
  OBVIOUS
<1>7. [s EXCEPT !.nextPaneID = a, !.stashedPanes = b] = [[s EXCEPT !.nextPaneID = a] EXCEPT !.stashedPanes = b]
  OBVIOUS
<1> QED BY <1>1, <1>2, <1>3, <1>4, <1>5, <1>6, <1>7, Zenon

(* upsertWorkspace, upsertWindow and upsertPane, part by part.             *)
LEMMA UpsertParts ==
  ASSUME NEW r, NEW nws, NEW nw, NEW np, NEW order, NEW wss, NEW wins, NEW ps, NEW sps, NEW sws,
         NEW e
  PROVE  Upsert(SnapshotOf(r, nws, nw, np, order, wss, wins, ps, sps, sws), e) =
           SnapshotOf(e.revision, nws, nw, np, order, Updated(wss, e.workspaces),
                      Updated(wins, e.windows), Updated(ps, e.panes), sps, sws)
<1> DEFINE a == Updated(wss, e.workspaces)
           b == Updated(wins, e.windows)
           c == Updated(ps, e.panes)
           n == e.revision
           s == SnapshotOf(r, nws, nw, np, order, wss, wins, ps, sps, sws)
<1>1. s.workspaces = wss /\ s.windows = wins /\ s.panes = ps
  BY DEF SnapshotOf
<1>2. Upsert(s, e) = [s EXCEPT !.revision = n, !.workspaces = a, !.windows = b, !.panes = c]
  BY <1>1, Zenon DEF Upsert
<1> HIDE DEF a, b, c, n
<1>3. [s EXCEPT !.revision = n, !.workspaces = a, !.windows = b, !.panes = c]
        = SnapshotOf(n, nws, nw, np, order, a, b, c, sps, sws)
  <2>1. [s EXCEPT !.revision = n] = SnapshotOf(n, nws, nw, np, order, wss, wins, ps, sps, sws)
    BY DEF SnapshotOf
  <2>2. [SnapshotOf(n, nws, nw, np, order, wss, wins, ps, sps, sws) EXCEPT !.workspaces = a]
          = SnapshotOf(n, nws, nw, np, order, a, wins, ps, sps, sws)
    BY DEF SnapshotOf
  <2>3. [SnapshotOf(n, nws, nw, np, order, a, wins, ps, sps, sws) EXCEPT !.windows = b]
          = SnapshotOf(n, nws, nw, np, order, a, b, ps, sps, sws)
    BY DEF SnapshotOf
  <2>4. [SnapshotOf(n, nws, nw, np, order, a, b, ps, sps, sws) EXCEPT !.panes = c]
          = SnapshotOf(n, nws, nw, np, order, a, b, c, sps, sws)
    BY DEF SnapshotOf
  <2> HIDE DEF s
  <2>5. [s EXCEPT !.revision = n, !.workspaces = a, !.windows = b, !.panes = c]
          = [[[[s EXCEPT !.revision = n] EXCEPT !.workspaces = a] EXCEPT !.windows = b]
              EXCEPT !.panes = c]
    BY ExceptInTurn
  <2> QED BY <2>1, <2>2, <2>3, <2>4, <2>5
<1> QED BY <1>2, <1>3 DEF a, b, c, n

(* ApplyEvent, part by part.                                               *)
LEMMA ProjectParts ==
  ASSUME NEW r, NEW nws, NEW nw, NEW np, NEW order, NEW wss, NEW wins, NEW ps, NEW sps, NEW sws,
         NEW e, NEW s, s = SnapshotOf(r, nws, nw, np, order, wss, wins, ps, sps, sws),
         NEW wssU, wssU = Updated(wss, e.workspaces),
         NEW winsU, winsU = Updated(wins, e.windows),
         NEW psU, psU = Updated(ps, e.panes)
  PROVE
  /\ e.kind = "workspace_created" =>
       Project(s, e) =
         SnapshotOf(e.revision, AtLeast(nws, e.id + 1), nw, np, Append(order, e.id),
                    wssU, winsU, psU, sps, sws)
  /\ e.kind = "workspace_deleted" =>
       Project(s, e) =
         SnapshotOf(e.revision, nws, nw, np, Without(order, e.id),
                    Minus(wssU, e.id), winsU, psU, sps, sws)
  /\ e.kind = "window_deleted" =>
       Project(s, e) =
         SnapshotOf(e.revision, nws, nw, np, order,
                    wssU, Minus(winsU, e.id), psU, sps, sws)
  /\ e.kind = "pane_created" =>
       Project(s, e) =
         SnapshotOf(e.revision, nws, nw, AtLeast(np, e.id + 1), order,
                    wssU, winsU, psU, sps, sws)
  /\ e.kind = "pane_closed" =>
       Project(s, e) =
         SnapshotOf(e.revision, nws, nw, np, order,
                    wssU, winsU, Minus(psU, e.id), Minus(sps, e.id), sws)
  /\ e.kind = "pane_stashed" =>
       Project(s, e) =
         SnapshotOf(e.revision, nws, nw, AtLeast(np, e.id + 1), order,
                    wssU, winsU, psU, Updated(sps, e.stashedPanes), sws)
  /\ e.kind = "pane_restored" =>
       Project(s, e) =
         SnapshotOf(e.revision, nws, nw, np, order,
                    wssU, winsU, psU, Minus(sps, e.id), sws)
  /\ e.kind = "window_stashed" =>
       Project(s, e) =
         SnapshotOf(e.revision, nws, nw, np, order,
                    wssU, winsU, psU, sps, Updated(sws, e.stashedWindows))
  /\ e.kind = "window_restored" =>
       Project(s, e) =
         SnapshotOf(e.revision, nws, nw, np, order,
                    wssU, winsU, psU, sps, Minus(sws, e.id))
  /\ e.kind \in {"workspace_renamed", "window_renamed", "pane_moved"} =>
       Project(s, e) =
         SnapshotOf(e.revision, nws, nw, np, order,
                    wssU, winsU, psU, sps, sws)
  /\ e.kind = "window_created" =>
       Project(s, e) = SnapshotOf(e.revision, nws, AtLeast(nw, e.id + 1), np, order, wssU, winsU,
                                  psU, sps, sws)
<1> DEFINE t == SnapshotOf(e.revision, nws, nw, np, order, wssU, winsU, psU, sps, sws)
<1>1. Upsert(s, e) = t
  BY UpsertParts
<1>2. Project(s, e) =
        CASE e.kind = "workspace_created" ->
               [t EXCEPT !.order = Append(@, e.id),
                         !.nextWorkspaceID = AtLeast(@, e.id + 1)]
          [] e.kind = "workspace_deleted" ->
               [t EXCEPT !.order = Without(@, e.id), !.workspaces = Minus(@, e.id)]
          [] e.kind = "window_created" ->
               [t EXCEPT !.nextWindowID = AtLeast(@, e.id + 1)]
          [] e.kind = "window_deleted" ->
               [t EXCEPT !.windows = Minus(@, e.id)]
          [] e.kind = "pane_created" ->
               [t EXCEPT !.nextPaneID = AtLeast(@, e.id + 1)]
          [] e.kind = "pane_closed" ->
               [t EXCEPT !.panes = Minus(@, e.id), !.stashedPanes = Minus(@, e.id)]
          [] e.kind = "pane_stashed" ->
               [t EXCEPT !.nextPaneID = AtLeast(@, e.id + 1),
                         !.stashedPanes = Updated(@, e.stashedPanes)]
          [] e.kind = "pane_restored" ->
               [t EXCEPT !.stashedPanes = Minus(@, e.id)]
          [] e.kind = "window_stashed" ->
               [t EXCEPT !.stashedWindows = Updated(@, e.stashedWindows)]
          [] e.kind = "window_restored" ->
               [t EXCEPT !.stashedWindows = Minus(@, e.id)]
          [] OTHER -> t
  BY <1>1, Zenon DEF Project, ClosePaneIn
<1>3a. ASSUME NEW x PROVE [t EXCEPT !.order = x] = SnapshotOf(e.revision, nws, nw, np, x, wssU, winsU, psU, sps, sws)
  BY DEF SnapshotOf
<1>3b. ASSUME NEW x PROVE [t EXCEPT !.nextPaneID = x] = SnapshotOf(e.revision, nws, nw, x, order, wssU, winsU, psU, sps, sws)
  BY DEF SnapshotOf
<1>3c. ASSUME NEW x PROVE [t EXCEPT !.nextWindowID = x] = SnapshotOf(e.revision, nws, x, np, order, wssU, winsU, psU, sps, sws)
  BY DEF SnapshotOf
<1>3d. ASSUME NEW x PROVE [t EXCEPT !.windows = x] = SnapshotOf(e.revision, nws, nw, np, order, wssU, x, psU, sps, sws)
  BY DEF SnapshotOf
<1>3e. ASSUME NEW x PROVE [t EXCEPT !.panes = x] = SnapshotOf(e.revision, nws, nw, np, order, wssU, winsU, x, sps, sws)
  BY DEF SnapshotOf
<1>3f. ASSUME NEW x PROVE [t EXCEPT !.stashedPanes = x] = SnapshotOf(e.revision, nws, nw, np, order, wssU, winsU, psU, x, sws)
  BY DEF SnapshotOf
<1>3g. ASSUME NEW x PROVE [t EXCEPT !.stashedWindows = x] = SnapshotOf(e.revision, nws, nw, np, order, wssU, winsU, psU, sps, x)
  BY DEF SnapshotOf
<1>4a. ASSUME NEW x, NEW y
      PROVE  [t EXCEPT !.order = x, !.nextWorkspaceID = y] = SnapshotOf(e.revision, y, nw, np, x, wssU, winsU, psU, sps, sws)
  <2>1. [SnapshotOf(e.revision, nws, nw, np, x, wssU, winsU, psU, sps, sws) EXCEPT !.nextWorkspaceID = y] = SnapshotOf(e.revision, y, nw, np, x, wssU, winsU, psU, sps, sws)
    BY DEF SnapshotOf
  <2>2. [t EXCEPT !.order = x] = SnapshotOf(e.revision, nws, nw, np, x, wssU, winsU, psU, sps, sws)
    BY <1>3a
  <2> HIDE DEF t
  <2>3. [t EXCEPT !.order = x, !.nextWorkspaceID = y] = [[t EXCEPT !.order = x] EXCEPT !.nextWorkspaceID = y]
    BY ExceptInTurn
  <2> QED BY <2>1, <2>2, <2>3
<1>4b. ASSUME NEW x, NEW y
      PROVE  [t EXCEPT !.order = x, !.workspaces = y] = SnapshotOf(e.revision, nws, nw, np, x, y, winsU, psU, sps, sws)
  <2>1. [SnapshotOf(e.revision, nws, nw, np, x, wssU, winsU, psU, sps, sws) EXCEPT !.workspaces = y] = SnapshotOf(e.revision, nws, nw, np, x, y, winsU, psU, sps, sws)
    BY DEF SnapshotOf
  <2>2. [t EXCEPT !.order = x] = SnapshotOf(e.revision, nws, nw, np, x, wssU, winsU, psU, sps, sws)
    BY <1>3a
  <2> HIDE DEF t
  <2>3. [t EXCEPT !.order = x, !.workspaces = y] = [[t EXCEPT !.order = x] EXCEPT !.workspaces = y]
    BY ExceptInTurn
  <2> QED BY <2>1, <2>2, <2>3
<1>4c. ASSUME NEW x, NEW y
      PROVE  [t EXCEPT !.panes = x, !.stashedPanes = y] = SnapshotOf(e.revision, nws, nw, np, order, wssU, winsU, x, y, sws)
  <2>1. [SnapshotOf(e.revision, nws, nw, np, order, wssU, winsU, x, sps, sws) EXCEPT !.stashedPanes = y] = SnapshotOf(e.revision, nws, nw, np, order, wssU, winsU, x, y, sws)
    BY DEF SnapshotOf
  <2>2. [t EXCEPT !.panes = x] = SnapshotOf(e.revision, nws, nw, np, order, wssU, winsU, x, sps, sws)
    BY <1>3e
  <2> HIDE DEF t
  <2>3. [t EXCEPT !.panes = x, !.stashedPanes = y] = [[t EXCEPT !.panes = x] EXCEPT !.stashedPanes = y]
    BY ExceptInTurn
  <2> QED BY <2>1, <2>2, <2>3
<1>4d. ASSUME NEW x, NEW y
      PROVE  [t EXCEPT !.nextPaneID = x, !.stashedPanes = y] = SnapshotOf(e.revision, nws, nw, x, order, wssU, winsU, psU, y, sws)
  <2>1. [SnapshotOf(e.revision, nws, nw, x, order, wssU, winsU, psU, sps, sws) EXCEPT !.stashedPanes = y] = SnapshotOf(e.revision, nws, nw, x, order, wssU, winsU, psU, y, sws)
    BY DEF SnapshotOf
  <2>2. [t EXCEPT !.nextPaneID = x] = SnapshotOf(e.revision, nws, nw, x, order, wssU, winsU, psU, sps, sws)
    BY <1>3b
  <2> HIDE DEF t
  <2>3. [t EXCEPT !.nextPaneID = x, !.stashedPanes = y] = [[t EXCEPT !.nextPaneID = x] EXCEPT !.stashedPanes = y]
    BY ExceptInTurn
  <2> QED BY <2>1, <2>2, <2>3
<1>5. /\ t.order = order /\ t.nextWorkspaceID = nws /\ t.nextWindowID = nw /\ t.nextPaneID = np
      /\ t.workspaces = wssU /\ t.windows = winsU /\ t.panes = psU
      /\ t.stashedPanes = sps /\ t.stashedWindows = sws
  BY SnapshotFields
<1>6. t = SnapshotOf(e.revision, nws, nw, np, order, wssU, winsU, psU, sps, sws)
  OBVIOUS
<1> HIDE DEF t
<1>7. ASSUME e.kind = "workspace_created"
      PROVE  Project(s, e) = SnapshotOf(e.revision, AtLeast(nws, e.id + 1), nw, np, Append(order, e.id), wssU, winsU, psU, sps, sws)
  <2>1. Project(s, e) = [t EXCEPT !.order = Append(order, e.id), !.nextWorkspaceID = AtLeast(nws, e.id + 1)]
    BY <1>2, <1>5, <1>7
  <2> DEFINE x == Append(order, e.id)
             y == AtLeast(nws, e.id + 1)
  <2>2. Project(s, e) = [t EXCEPT !.order = x, !.nextWorkspaceID = y]
    BY <2>1
  <2> HIDE DEF x, y, t
  <2>3. Project(s, e) = SnapshotOf(e.revision, y, nw, np, x, wssU, winsU, psU, sps, sws)
    BY <2>2, <1>4a, Zenon
  <2> QED BY <2>3 DEF x, y
<1>8. ASSUME e.kind = "workspace_deleted"
      PROVE  Project(s, e) = SnapshotOf(e.revision, nws, nw, np, Without(order, e.id), Minus(wssU, e.id), winsU, psU, sps, sws)
  <2>1. Project(s, e) = [t EXCEPT !.order = Without(order, e.id), !.workspaces = Minus(wssU, e.id)]
    BY <1>2, <1>5, <1>8
  <2> QED BY <2>1, <1>4b
<1>9. ASSUME e.kind = "window_created"
      PROVE  Project(s, e) = SnapshotOf(e.revision, nws, AtLeast(nw, e.id + 1), np, order, wssU, winsU, psU, sps, sws)
  <2>1. Project(s, e) = [t EXCEPT !.nextWindowID = AtLeast(nw, e.id + 1)]
    BY <1>2, <1>5, <1>9
  <2> QED BY <2>1, <1>3c
<1>10. ASSUME e.kind = "window_deleted"
      PROVE  Project(s, e) = SnapshotOf(e.revision, nws, nw, np, order, wssU, Minus(winsU, e.id), psU, sps, sws)
  <2>1. Project(s, e) = [t EXCEPT !.windows = Minus(winsU, e.id)]
    BY <1>2, <1>5, <1>10
  <2> QED BY <2>1, <1>3d
<1>11. ASSUME e.kind = "pane_created"
      PROVE  Project(s, e) = SnapshotOf(e.revision, nws, nw, AtLeast(np, e.id + 1), order, wssU, winsU, psU, sps, sws)
  <2>1. Project(s, e) = [t EXCEPT !.nextPaneID = AtLeast(np, e.id + 1)]
    BY <1>2, <1>5, <1>11
  <2> QED BY <2>1, <1>3b
<1>12. ASSUME e.kind = "pane_closed"
      PROVE  Project(s, e) = SnapshotOf(e.revision, nws, nw, np, order, wssU, winsU, Minus(psU, e.id), Minus(sps, e.id), sws)
  <2>1. Project(s, e) = [t EXCEPT !.panes = Minus(psU, e.id), !.stashedPanes = Minus(sps, e.id)]
    BY <1>2, <1>5, <1>12
  <2> QED BY <2>1, <1>4c
<1>13. ASSUME e.kind = "pane_stashed"
      PROVE  Project(s, e) = SnapshotOf(e.revision, nws, nw, AtLeast(np, e.id + 1), order, wssU, winsU, psU, Updated(sps, e.stashedPanes), sws)
  <2>1. Project(s, e) = [t EXCEPT !.nextPaneID = AtLeast(np, e.id + 1), !.stashedPanes = Updated(sps, e.stashedPanes)]
    BY <1>2, <1>5, <1>13
  <2> QED BY <2>1, <1>4d
<1>14. ASSUME e.kind = "pane_restored"
      PROVE  Project(s, e) = SnapshotOf(e.revision, nws, nw, np, order, wssU, winsU, psU, Minus(sps, e.id), sws)
  <2>1. Project(s, e) = [t EXCEPT !.stashedPanes = Minus(sps, e.id)]
    BY <1>2, <1>5, <1>14
  <2> QED BY <2>1, <1>3f
<1>15. ASSUME e.kind = "window_stashed"
      PROVE  Project(s, e) = SnapshotOf(e.revision, nws, nw, np, order, wssU, winsU, psU, sps, Updated(sws, e.stashedWindows))
  <2>1. Project(s, e) = [t EXCEPT !.stashedWindows = Updated(sws, e.stashedWindows)]
    BY <1>2, <1>5, <1>15
  <2> QED BY <2>1, <1>3g
<1>16. ASSUME e.kind = "window_restored"
      PROVE  Project(s, e) = SnapshotOf(e.revision, nws, nw, np, order, wssU, winsU, psU, sps, Minus(sws, e.id))
  <2>1. Project(s, e) = [t EXCEPT !.stashedWindows = Minus(sws, e.id)]
    BY <1>2, <1>5, <1>16
  <2> QED BY <2>1, <1>3g
<1>17. ASSUME e.kind \in {"workspace_renamed", "window_renamed", "pane_moved"}
      PROVE  Project(s, e) = SnapshotOf(e.revision, nws, nw, np, order, wssU, winsU, psU, sps, sws)
  <2>1. Project(s, e) = t
    BY <1>2, <1>17
  <2> QED BY <2>1, <1>6
<1> QED BY <1>7, <1>8, <1>9, <1>10, <1>11, <1>12, <1>13, <1>14, <1>15, <1>16, <1>17

\* The event of kind k about id carries all that the step changes.
Carried(k, id, Ws, W, P) ==
  /\ Carries(WorkspaceMap, WorkspaceMap', Ws, IF k = "workspace_deleted" THEN {id} ELSE {})
  /\ Carries(WindowMap, WindowMap', W, IF k = "window_deleted" THEN {id} ELSE {})
  /\ Carries(PaneMap, PaneMap', P, IF k = "pane_closed" THEN {id} ELSE {})
  /\ Carries(PaneHintMap, PaneHintMap', IF k = "pane_stashed" THEN P ELSE {},
             IF k \in {"pane_closed", "pane_restored"} THEN {id} ELSE {})
  /\ Carries(WindowHintMap, WindowHintMap', IF k = "window_stashed" THEN W ELSE {},
             IF k = "window_restored" THEN {id} ELSE {})
  /\ workspaceOrder' = IF k = "workspace_created" THEN Append(workspaceOrder, id)
                       ELSE IF k = "workspace_deleted" THEN Without(workspaceOrder, id)
                       ELSE workspaceOrder
  /\ nextWorkspaceID' = IF k = "workspace_created" THEN AtLeast(nextWorkspaceID, id + 1)
                        ELSE nextWorkspaceID
  /\ nextWindowID' = nextWindowID
  /\ nextPaneID' = IF k \in {"pane_created", "pane_stashed"} THEN AtLeast(nextPaneID, id + 1)
                   ELSE nextPaneID

Kinds == {"workspace_created", "workspace_renamed", "workspace_deleted",
          "window_renamed", "window_deleted", "window_stashed", "window_restored",
          "pane_created", "pane_moved", "pane_closed", "pane_stashed", "pane_restored"}

(* An event that carries all that the step changes makes the old snapshot  *)
(* the new one.                                                            *)
LEMMA CarriedSuffices ==
  ASSUME NEW k \in Kinds, NEW id, NEW Ws, NEW W, NEW P,
         revision' = revision + 1, Carried(k, id, Ws, W, P)
  PROVE  Project(Snapshot, Event(k, id, Ws, W, P)) = Snapshot'
<1> DEFINE e == Event(k, id, Ws, W, P)
           wss == Updated(WorkspaceMap, Pick(WorkspaceMap', Ws))
           wins == Updated(WindowMap, Pick(WindowMap', W))
           ps == Updated(PaneMap, Pick(PaneMap', P))
           sps == PaneHintMap
           sws == WindowHintMap
           new == SnapshotOf(revision, nextWorkspaceID, nextWindowID, nextPaneID, workspaceOrder,
                             WorkspaceMap, WindowMap, PaneMap, PaneHintMap, WindowHintMap)'
<1>1. /\ e.revision = revision + 1 /\ e.kind = k /\ e.id = id
      /\ e.workspaces = Pick(WorkspaceMap', Ws) /\ e.windows = Pick(WindowMap', W)
      /\ e.panes = Pick(PaneMap', P) /\ e.stashedPanes = Pick(PaneHintMap', P)
      /\ e.stashedWindows = Pick(WindowHintMap', W)
  BY EventParts
<1>2. Snapshot = SnapshotOf(revision, nextWorkspaceID, nextWindowID, nextPaneID, workspaceOrder,
                            WorkspaceMap, WindowMap, PaneMap, sps, sws)
  BY SnapshotParts
<1>3. Snapshot' = new
  BY SnapshotPartsNext
<1>4. /\ IsMap(WorkspaceMap) /\ IsMap(WindowMap) /\ IsMap(PaneMap)
      /\ IsMap(PaneHintMap) /\ IsMap(WindowHintMap)
      /\ IsMap(WorkspaceMap') /\ IsMap(WindowMap') /\ IsMap(PaneMap')
      /\ IsMap(PaneHintMap') /\ IsMap(WindowHintMap')
  BY DEF IsMap, WorkspaceMap, WindowMap, PaneMap, PaneHintMap, WindowHintMap
<1>5. /\ k = "workspace_deleted" => Minus(wss, id) = WorkspaceMap'
      /\ k # "workspace_deleted" => wss = WorkspaceMap'
  BY <1>4, CarriesFacts DEF Carried
<1>6. /\ k = "window_deleted" => Minus(wins, id) = WindowMap'
      /\ k # "window_deleted" => wins = WindowMap'
  BY <1>4, CarriesFacts DEF Carried
<1>7. /\ k = "pane_closed" => Minus(ps, id) = PaneMap'
      /\ k # "pane_closed" => ps = PaneMap'
  BY <1>4, CarriesFacts DEF Carried
<1>8. /\ k = "pane_stashed" => Updated(sps, Pick(PaneHintMap', P)) = PaneHintMap'
      /\ k \in {"pane_closed", "pane_restored"} => Minus(sps, id) = PaneHintMap'
      /\ k \notin {"pane_stashed", "pane_closed", "pane_restored"} => sps = PaneHintMap'
  BY <1>4, CarriesFacts DEF Carried
<1>9. /\ k = "window_stashed" => Updated(sws, Pick(WindowHintMap', W)) = WindowHintMap'
      /\ k = "window_restored" => Minus(sws, id) = WindowHintMap'
      /\ k \notin {"window_stashed", "window_restored"} => sws = WindowHintMap'
  BY <1>4, CarriesFacts DEF Carried
<1>10. /\ workspaceOrder' = IF k = "workspace_created" THEN Append(workspaceOrder, id)
                       ELSE IF k = "workspace_deleted" THEN Without(workspaceOrder, id)
                       ELSE workspaceOrder
       /\ nextWorkspaceID' = IF k = "workspace_created" THEN AtLeast(nextWorkspaceID, id + 1)
                             ELSE nextWorkspaceID
       /\ nextWindowID' = nextWindowID
       /\ nextPaneID' = IF k \in {"pane_created", "pane_stashed"} THEN AtLeast(nextPaneID, id + 1)
                        ELSE nextPaneID
  BY DEF Carried
<1> HIDE DEF e, wss, wins, ps, sps, sws
<1>11. CASE k = "workspace_created"
  <2>1. Project(Snapshot, e) =
          SnapshotOf(revision + 1, AtLeast(nextWorkspaceID, id + 1), nextWindowID, nextPaneID, Append(workspaceOrder, id),
                     wss, wins, ps, sps, sws)
    BY <1>1, <1>2, <1>11, ProjectParts DEF wss, wins, ps
  <2> QED BY <1>3, <1>5, <1>6, <1>7, <1>8, <1>9, <1>10, <1>11, <2>1 DEF e
<1>12. CASE k = "workspace_renamed"
  <2>1. Project(Snapshot, e) =
          SnapshotOf(revision + 1, nextWorkspaceID, nextWindowID, nextPaneID, workspaceOrder,
                     wss, wins, ps, sps, sws)
    BY <1>1, <1>2, <1>12, ProjectParts DEF wss, wins, ps
  <2> QED BY <1>3, <1>5, <1>6, <1>7, <1>8, <1>9, <1>10, <1>12, <2>1 DEF e
<1>13. CASE k = "workspace_deleted"
  <2>1. Project(Snapshot, e) =
          SnapshotOf(revision + 1, nextWorkspaceID, nextWindowID, nextPaneID, Without(workspaceOrder, id),
                     Minus(wss, id), wins, ps, sps, sws)
    BY <1>1, <1>2, <1>13, ProjectParts DEF wss, wins, ps
  <2> QED BY <1>3, <1>5, <1>6, <1>7, <1>8, <1>9, <1>10, <1>13, <2>1 DEF e
<1>14. CASE k = "window_renamed"
  <2>1. Project(Snapshot, e) =
          SnapshotOf(revision + 1, nextWorkspaceID, nextWindowID, nextPaneID, workspaceOrder,
                     wss, wins, ps, sps, sws)
    BY <1>1, <1>2, <1>14, ProjectParts DEF wss, wins, ps
  <2> QED BY <1>3, <1>5, <1>6, <1>7, <1>8, <1>9, <1>10, <1>14, <2>1 DEF e
<1>15. CASE k = "window_deleted"
  <2>1. Project(Snapshot, e) =
          SnapshotOf(revision + 1, nextWorkspaceID, nextWindowID, nextPaneID, workspaceOrder,
                     wss, Minus(wins, id), ps, sps, sws)
    BY <1>1, <1>2, <1>15, ProjectParts DEF wss, wins, ps
  <2> QED BY <1>3, <1>5, <1>6, <1>7, <1>8, <1>9, <1>10, <1>15, <2>1 DEF e
<1>16. CASE k = "window_stashed"
  <2>1. Project(Snapshot, e) =
          SnapshotOf(revision + 1, nextWorkspaceID, nextWindowID, nextPaneID, workspaceOrder,
                     wss, wins, ps, sps, Updated(sws, Pick(WindowHintMap', W)))
    BY <1>1, <1>2, <1>16, ProjectParts DEF wss, wins, ps
  <2> QED BY <1>3, <1>5, <1>6, <1>7, <1>8, <1>9, <1>10, <1>16, <2>1 DEF e
<1>17. CASE k = "window_restored"
  <2>1. Project(Snapshot, e) =
          SnapshotOf(revision + 1, nextWorkspaceID, nextWindowID, nextPaneID, workspaceOrder,
                     wss, wins, ps, sps, Minus(sws, id))
    BY <1>1, <1>2, <1>17, ProjectParts DEF wss, wins, ps
  <2> QED BY <1>3, <1>5, <1>6, <1>7, <1>8, <1>9, <1>10, <1>17, <2>1 DEF e
<1>18. CASE k = "pane_created"
  <2>1. Project(Snapshot, e) =
          SnapshotOf(revision + 1, nextWorkspaceID, nextWindowID, AtLeast(nextPaneID, id + 1), workspaceOrder,
                     wss, wins, ps, sps, sws)
    BY <1>1, <1>2, <1>18, ProjectParts DEF wss, wins, ps
  <2> QED BY <1>3, <1>5, <1>6, <1>7, <1>8, <1>9, <1>10, <1>18, <2>1 DEF e
<1>19. CASE k = "pane_moved"
  <2>1. Project(Snapshot, e) =
          SnapshotOf(revision + 1, nextWorkspaceID, nextWindowID, nextPaneID, workspaceOrder,
                     wss, wins, ps, sps, sws)
    BY <1>1, <1>2, <1>19, ProjectParts DEF wss, wins, ps
  <2> QED BY <1>3, <1>5, <1>6, <1>7, <1>8, <1>9, <1>10, <1>19, <2>1 DEF e
<1>20. CASE k = "pane_closed"
  <2>1. Project(Snapshot, e) =
          SnapshotOf(revision + 1, nextWorkspaceID, nextWindowID, nextPaneID, workspaceOrder,
                     wss, wins, Minus(ps, id), Minus(sps, id), sws)
    BY <1>1, <1>2, <1>20, ProjectParts DEF wss, wins, ps
  <2> QED BY <1>3, <1>5, <1>6, <1>7, <1>8, <1>9, <1>10, <1>20, <2>1 DEF e
<1>21. CASE k = "pane_stashed"
  <2>1. Project(Snapshot, e) =
          SnapshotOf(revision + 1, nextWorkspaceID, nextWindowID, AtLeast(nextPaneID, id + 1), workspaceOrder,
                     wss, wins, ps, Updated(sps, Pick(PaneHintMap', P)), sws)
    BY <1>1, <1>2, <1>21, ProjectParts DEF wss, wins, ps
  <2> QED BY <1>3, <1>5, <1>6, <1>7, <1>8, <1>9, <1>10, <1>21, <2>1 DEF e
<1>22. CASE k = "pane_restored"
  <2>1. Project(Snapshot, e) =
          SnapshotOf(revision + 1, nextWorkspaceID, nextWindowID, nextPaneID, workspaceOrder,
                     wss, wins, ps, Minus(sps, id), sws)
    BY <1>1, <1>2, <1>22, ProjectParts DEF wss, wins, ps
  <2> QED BY <1>3, <1>5, <1>6, <1>7, <1>8, <1>9, <1>10, <1>22, <2>1 DEF e
<1> QED BY <1>11, <1>12, <1>13, <1>14, <1>15, <1>16, <1>17, <1>18, <1>19, <1>20, <1>21, <1>22 DEF Kinds, e

(* What it takes for an event to carry the changes of a map.               *)
LEMMA WorkspacesCarried ==
  ASSUME NEW S, NEW gone, Workspaces \ Workspaces' \subseteq gone, gone \cap Workspaces' = {},
         \A ws \in Workspaces' \ S :
           /\ ws \in Workspaces
           /\ workspaceName'[ws] = workspaceName[ws]
           /\ windowIDs'[ws] = windowIDs[ws]
  PROVE  Carries(WorkspaceMap, WorkspaceMap', S, gone)
<1>1. DOMAIN WorkspaceMap = Workspaces /\ DOMAIN WorkspaceMap' = Workspaces'
  BY DEF WorkspaceMap
<1>2. ASSUME NEW x \in Workspaces' \ S PROVE x \in Workspaces /\ WorkspaceMap'[x] = WorkspaceMap[x]
  BY <1>2 DEF WorkspaceMap
<1> QED BY <1>1, <1>2 DEF Carries

(* The same for windows.                                                   *)
LEMMA WindowsCarried ==
  ASSUME NEW S, NEW gone, windows \ windows' \subseteq gone, gone \cap windows' = {},
         \A w \in windows' \ S :
           /\ w \in windows
           /\ windowName'[w] = windowName[w]
           /\ windowWorkspace'[w] = windowWorkspace[w]
           /\ layout'[w] = layout[w]
  PROVE  Carries(WindowMap, WindowMap', S, gone)
<1>1. DOMAIN WindowMap = windows /\ DOMAIN WindowMap' = windows'
  BY DEF WindowMap
<1>2. ASSUME NEW x \in windows' \ S PROVE x \in windows /\ WindowMap'[x] = WindowMap[x]
  BY <1>2 DEF WindowMap
<1> QED BY <1>1, <1>2 DEF Carries

(* For panes, apart from their hints.                                      *)
LEMMA PanesCarried ==
  ASSUME NEW S, NEW gone, panes \ panes' \subseteq gone, gone \cap panes' = {},
         \A p \in panes' \ S :
           /\ p \in panes
           /\ paneWindow'[p] = paneWindow[p]
           /\ p \in transient' <=> p \in transient
  PROVE  Carries(PaneMap, PaneMap', S, gone)
<1>1. DOMAIN PaneMap = panes /\ DOMAIN PaneMap' = panes'
  BY DEF PaneMap
<1>2. ASSUME NEW x \in panes' \ S PROVE x \in panes /\ PaneMap'[x] = PaneMap[x]
  <2>1. (x \in transient') = (x \in transient)
    BY <1>2
  <2>2. PaneMap'[x] = [window |-> paneWindow'[x], transient |-> x \in transient']
    BY <1>2, Zenon DEF PaneMap
  <2>3. PaneMap[x] = [window |-> paneWindow[x], transient |-> x \in transient]
    BY <1>2, Zenon DEF PaneMap
  <2> QED BY <1>2, <2>1, <2>2, <2>3, Zenon
<1> QED BY <1>1, <1>2 DEF Carries

(* For the restore hints of panes.                                         *)
LEMMA PaneHintsCarried ==
  ASSUME NEW S, NEW gone, StashedPanes \ StashedPanes' \subseteq gone,
         gone \cap StashedPanes' = {},
         \A p \in StashedPanes' \ S : p \in StashedPanes /\ stashedPanes'[p] = stashedPanes[p]
  PROVE  Carries(PaneHintMap, PaneHintMap', S, gone)
<1>1. DOMAIN PaneHintMap = StashedPanes /\ DOMAIN PaneHintMap' = StashedPanes'
  BY DEF PaneHintMap
<1>2. ASSUME NEW x \in StashedPanes' \ S
      PROVE  x \in StashedPanes /\ PaneHintMap'[x] = PaneHintMap[x]
  BY <1>2 DEF PaneHintMap
<1> QED BY <1>1, <1>2 DEF Carries

(* For the restore hints of windows.                                       *)
LEMMA WindowHintsCarried ==
  ASSUME NEW S, NEW gone, StashedWindows \ StashedWindows' \subseteq gone,
         gone \cap StashedWindows' = {},
         \A w \in StashedWindows' \ S : w \in StashedWindows /\ stashedWindows'[w] = stashedWindows[w]
  PROVE  Carries(WindowHintMap, WindowHintMap', S, gone)
<1>1. DOMAIN WindowHintMap = StashedWindows /\ DOMAIN WindowHintMap' = StashedWindows'
  BY DEF WindowHintMap
<1>2. ASSUME NEW x \in StashedWindows' \ S
      PROVE  x \in StashedWindows /\ WindowHintMap'[x] = WindowHintMap[x]
  BY <1>2 DEF WindowHintMap
<1> QED BY <1>1, <1>2 DEF Carries

(* An event carries what does not change, too.                             *)
LEMMA UnchangedCarried ==
  ASSUME NEW S
  PROVE  /\ UNCHANGED workspaceVars => Carries(WorkspaceMap, WorkspaceMap', S, {})
         /\ (UNCHANGED windowVars /\ UNCHANGED layout) => Carries(WindowMap, WindowMap', S, {})
         /\ UNCHANGED <<panes, paneWindow, transient>> => Carries(PaneMap, PaneMap', S, {})
         /\ UNCHANGED <<panes, stashedPanes>> => Carries(PaneHintMap, PaneHintMap', S, {})
         /\ UNCHANGED <<windows, stashedWindows>> => Carries(WindowHintMap, WindowHintMap', S, {})
<1>1. ASSUME NEW m PROVE Carries(m, m, S, {})
  BY DEF Carries
<1>2. ASSUME UNCHANGED workspaceVars PROVE WorkspaceMap' = WorkspaceMap
  BY <1>2 DEF workspaceVars, WorkspaceMap, Workspaces
<1>3. ASSUME UNCHANGED windowVars, UNCHANGED layout PROVE WindowMap' = WindowMap
  BY <1>3 DEF windowVars, WindowMap
<1>4. ASSUME UNCHANGED <<panes, paneWindow, transient>> PROVE PaneMap' = PaneMap
  BY <1>4 DEF PaneMap
<1>5. ASSUME UNCHANGED <<panes, stashedPanes>> PROVE PaneHintMap' = PaneHintMap
  BY <1>5 DEF PaneHintMap, StashedPanes, IsStashedPane
<1>6. ASSUME UNCHANGED <<windows, stashedWindows>> PROVE WindowHintMap' = WindowHintMap
  BY <1>6 DEF WindowHintMap, StashedWindows, IsStashedWindow
<1> QED BY <1>1, <1>2, <1>3, <1>4, <1>5, <1>6

(* The commands of workspaces.                                             *)
LEMMA CreateWorkspaceCarried ==
  ASSUME IInv, NEW n, CreateWorkspace(n)
  PROVE  Carried("workspace_created", nextWorkspaceID, {nextWorkspaceID}, {}, {})
<1>1. TypeOK /\ OrderInv
  BY DEF IInv
<1>2. nextWorkspaceID \in WorkspaceID /\ nextWorkspaceID \notin Workspaces
  BY <1>1, CoreAssumption, ToSetType DEF CreateWorkspace, TypeOK, OrderInv, Workspaces, WorkspaceID
<1>3. Workspaces' = Workspaces \cup {nextWorkspaceID}
  BY <1>1, <1>2, AppendFacts DEF CreateWorkspace, TypeOK, OrderInv, Workspaces
<1>4. Workspaces \subseteq WorkspaceID
  BY <1>1, ToSetType DEF TypeOK, Workspaces
<1>5. ASSUME NEW ws \in Workspaces' \ {nextWorkspaceID}
      PROVE  /\ ws \in Workspaces
             /\ workspaceName'[ws] = workspaceName[ws]
             /\ windowIDs'[ws] = windowIDs[ws]
  BY <1>1, <1>3, <1>4 DEF CreateWorkspace, TypeOK
<1>6. Carries(WorkspaceMap, WorkspaceMap', {nextWorkspaceID}, {})
  BY <1>3, <1>5, WorkspacesCarried
<1>7. UNCHANGED <<nextWindowID, nextPaneID>> /\ UNCHANGED windowVars /\ UNCHANGED layout /\ UNCHANGED paneVars
  BY DEF CreateWorkspace
<1>8. /\ Carries(WindowMap, WindowMap', {}, {}) /\ Carries(PaneMap, PaneMap', {}, {})
      /\ Carries(PaneHintMap, PaneHintMap', {}, {})
      /\ Carries(WindowHintMap, WindowHintMap', {}, {})
  BY <1>7, UnchangedCarried DEF windowVars, paneVars
<1>9. nextWorkspaceID' = AtLeast(nextWorkspaceID, nextWorkspaceID + 1)
  BY <1>1 DEF CreateWorkspace, AtLeast, TypeOK
<1>10. workspaceOrder' = Append(workspaceOrder, nextWorkspaceID)
  BY DEF CreateWorkspace
<1> QED BY <1>6, <1>7, <1>8, <1>9, <1>10 DEF Carried

(* workspace_renamed carries the workspace.                                *)
LEMMA RenameWorkspaceCarried ==
  ASSUME IInv, NEW ws, NEW n, RenameWorkspace(ws, n)
  PROVE  Carried("workspace_renamed", ws, {ws}, {}, {})
<1>1. TypeOK
  BY DEF IInv
<1>2. Workspaces' = Workspaces /\ Workspaces \subseteq WorkspaceID
  BY <1>1, ToSetType DEF TypeOK, Workspaces, RenameWorkspace
<1>3. ASSUME NEW v \in Workspaces' \ {ws}
      PROVE  /\ v \in Workspaces
             /\ workspaceName'[v] = workspaceName[v]
             /\ windowIDs'[v] = windowIDs[v]
  BY <1>1, <1>2 DEF RenameWorkspace, TypeOK
<1>4. Carries(WorkspaceMap, WorkspaceMap', {ws}, {})
  BY <1>2, <1>3, WorkspacesCarried
<1>5. UNCHANGED idVars /\ UNCHANGED workspaceOrder /\ UNCHANGED windowVars /\ UNCHANGED layout /\ UNCHANGED paneVars
  BY DEF RenameWorkspace
<1>6. /\ Carries(WindowMap, WindowMap', {}, {}) /\ Carries(PaneMap, PaneMap', {}, {})
      /\ Carries(PaneHintMap, PaneHintMap', {}, {})
      /\ Carries(WindowHintMap, WindowHintMap', {}, {})
  BY <1>5, UnchangedCarried DEF windowVars, paneVars
<1> QED BY <1>4, <1>5, <1>6 DEF Carried, idVars

(* workspace_deleted carries nothing but the identifier.                   *)
LEMMA DeleteWorkspaceCarried ==
  ASSUME IInv, NEW ws, DeleteWorkspace(ws)
  PROVE  Carried("workspace_deleted", ws, {}, {}, {})
<1>1. TypeOK /\ OrderInv
  BY DEF IInv
<1>2. Workspaces' = Workspaces \ {ws}
  BY <1>1, WithoutFacts DEF DeleteWorkspace, TypeOK, OrderInv, Workspaces
<1>3. Workspaces \subseteq WorkspaceID
  BY <1>1, ToSetType DEF TypeOK, Workspaces
<1>4. ASSUME NEW v \in Workspaces' \ {}
      PROVE  /\ v \in Workspaces
             /\ workspaceName'[v] = workspaceName[v]
             /\ windowIDs'[v] = windowIDs[v]
  BY <1>1, <1>2, <1>3 DEF DeleteWorkspace, TypeOK
<1>5. Carries(WorkspaceMap, WorkspaceMap', {}, {ws})
  BY <1>2, <1>4, WorkspacesCarried
<1>6. UNCHANGED idVars /\ UNCHANGED windowVars /\ UNCHANGED layout /\ UNCHANGED paneVars
  BY DEF DeleteWorkspace
<1>7. /\ Carries(WindowMap, WindowMap', {}, {}) /\ Carries(PaneMap, PaneMap', {}, {})
      /\ Carries(PaneHintMap, PaneHintMap', {}, {})
      /\ Carries(WindowHintMap, WindowHintMap', {}, {})
  BY <1>6, UnchangedCarried DEF windowVars, paneVars
<1>8. workspaceOrder' = Without(workspaceOrder, ws)
  BY DEF DeleteWorkspace
<1> QED BY <1>5, <1>6, <1>7, <1>8 DEF Carried, idVars

(* The commands of windows.                                                *)
LEMMA RenameWindowCarried ==
  ASSUME IInv, NEW w, NEW n, RenameWindow(w, n)
  PROVE  Carried("window_renamed", w, {}, {w}, {})
<1>1. TypeOK
  BY DEF IInv
<1>2. ASSUME NEW v \in windows' \ {w}
      PROVE  /\ v \in windows
             /\ windowName'[v] = windowName[v]
             /\ windowWorkspace'[v] = windowWorkspace[v]
             /\ layout'[v] = layout[v]
  BY <1>1 DEF RenameWindow, TypeOK
<1>3. windows' = windows
  BY DEF RenameWindow
<1>4. Carries(WindowMap, WindowMap', {w}, {})
  BY <1>2, <1>3, WindowsCarried
<1>5. UNCHANGED idVars /\ UNCHANGED workspaceVars /\ UNCHANGED <<windows, stashedWindows>> /\ UNCHANGED paneVars
  BY DEF RenameWindow
<1>6. /\ Carries(WorkspaceMap, WorkspaceMap', {}, {}) /\ Carries(PaneMap, PaneMap', {}, {})
      /\ Carries(PaneHintMap, PaneHintMap', {}, {})
      /\ Carries(WindowHintMap, WindowHintMap', {}, {})
  BY <1>5, UnchangedCarried DEF paneVars
<1> QED BY <1>4, <1>5, <1>6 DEF Carried, idVars, workspaceVars

(* window_deleted carries the workspace that listed the window.            *)
LEMMA DeleteWindowCarried ==
  ASSUME IInv, NEW w, DeleteWindow(w)
  PROVE  Carried("window_deleted", w, {windowWorkspace[w]}, {}, {})
<1>1. TypeOK
  BY DEF IInv
<1>2. ASSUME NEW v \in windows' \ {}
      PROVE  /\ v \in windows
             /\ windowName'[v] = windowName[v]
             /\ windowWorkspace'[v] = windowWorkspace[v]
             /\ layout'[v] = layout[v]
  BY <1>1 DEF DeleteWindow, TypeOK
<1>3. windows' = windows \ {w}
  BY DEF DeleteWindow
<1>4. Carries(WindowMap, WindowMap', {}, {w})
  BY <1>2, <1>3, WindowsCarried
<1>5. Workspaces' = Workspaces /\ Workspaces \subseteq WorkspaceID
  BY <1>1, ToSetType DEF TypeOK, Workspaces, DeleteWindow
<1>6. ASSUME NEW v \in Workspaces' \ {windowWorkspace[w]}
      PROVE  /\ v \in Workspaces
             /\ workspaceName'[v] = workspaceName[v]
             /\ windowIDs'[v] = windowIDs[v]
  BY <1>1, <1>5 DEF DeleteWindow, TypeOK
<1>7. Carries(WorkspaceMap, WorkspaceMap', {windowWorkspace[w]}, {})
  BY <1>5, <1>6, WorkspacesCarried
<1>8. StashedWindows' = StashedWindows /\ stashedWindows' = stashedWindows
  BY DEF DeleteWindow, StashedWindows, IsStashedWindow
<1>9. Carries(WindowHintMap, WindowHintMap', {}, {})
  BY <1>8, WindowHintsCarried
<1>10. UNCHANGED idVars /\ UNCHANGED workspaceOrder /\ UNCHANGED paneVars
  BY DEF DeleteWindow
<1>11. Carries(PaneMap, PaneMap', {}, {}) /\ Carries(PaneHintMap, PaneHintMap', {}, {})
  BY <1>10, UnchangedCarried DEF paneVars
<1> QED BY <1>4, <1>7, <1>9, <1>10, <1>11 DEF Carried, idVars

(* window_stashed carries the window, its hint and its workspace.          *)
LEMMA StashWindowCarried ==
  ASSUME IInv, NEW w, StashWindow(w)
  PROVE  Carried("window_stashed", w, {windowWorkspace[w]}, {w}, {})
<1>1. TypeOK
  BY DEF IInv
<1>2. UNCHANGED idVars /\ UNCHANGED workspaceOrder /\ UNCHANGED paneVars
      /\ UNCHANGED <<windows, windowName, windowWorkspace, layout>>
  BY DEF StashWindow
<1>3. Carries(WindowMap, WindowMap', {w}, {})
  BY <1>2, WindowsCarried
<1>4. Workspaces' = Workspaces /\ Workspaces \subseteq WorkspaceID
  BY <1>1, ToSetType DEF TypeOK, Workspaces, StashWindow
<1>5. ASSUME NEW v \in Workspaces' \ {windowWorkspace[w]}
      PROVE  /\ v \in Workspaces
             /\ workspaceName'[v] = workspaceName[v]
             /\ windowIDs'[v] = windowIDs[v]
  BY <1>1, <1>4 DEF StashWindow, TypeOK
<1>6. Carries(WorkspaceMap, WorkspaceMap', {windowWorkspace[w]}, {})
  BY <1>4, <1>5, WorkspacesCarried
<1>7. /\ w \in windows /\ w \notin StashedWindows
      /\ \A v \in windows \ {w} : stashedWindows'[v] = stashedWindows[v]
  BY <1>1 DEF StashWindow, StashedWindows, TypeOK
<1>8. /\ StashedWindows \subseteq StashedWindows'
      /\ \A v \in StashedWindows' \ {w} : v \in StashedWindows /\ stashedWindows'[v] = stashedWindows[v]
  BY <1>2, <1>7 DEF StashedWindows, IsStashedWindow
<1>9. Carries(WindowHintMap, WindowHintMap', {w}, {})
  BY <1>8, WindowHintsCarried
<1>10. Carries(PaneMap, PaneMap', {}, {}) /\ Carries(PaneHintMap, PaneHintMap', {}, {})
  BY <1>2, UnchangedCarried DEF paneVars
<1> QED BY <1>2, <1>3, <1>6, <1>9, <1>10 DEF Carried, idVars

(* window_restored carries the workspace the window is back in.            *)
LEMMA RestoreWindowCarried ==
  ASSUME IInv, NEW w, NEW ws, NEW index, RestoreWindowAt(w, ws, index)
  PROVE  Carried("window_restored", w, {windowWorkspace'[w]}, {w}, {})
<1>1. TypeOK
  BY DEF IInv
<1>2. UNCHANGED idVars /\ UNCHANGED workspaceOrder /\ UNCHANGED paneVars
      /\ UNCHANGED <<windows, windowName, layout>>
  BY DEF RestoreWindowAt
<1>3. \A v \in windows' \ {w} : windowWorkspace'[v] = windowWorkspace[v]
  BY <1>1, <1>2 DEF RestoreWindowAt, TypeOK
<1>4. Carries(WindowMap, WindowMap', {w}, {})
  BY <1>2, <1>3, WindowsCarried
<1>5. Workspaces' = Workspaces /\ Workspaces \subseteq WorkspaceID
  BY <1>1, ToSetType DEF TypeOK, Workspaces, RestoreWindowAt
<1>6. windowWorkspace'[w] = ws
  BY <1>1 DEF RestoreWindowAt, TypeOK
<1>7. ASSUME NEW v \in Workspaces' \ {ws}
      PROVE  /\ v \in Workspaces
             /\ workspaceName'[v] = workspaceName[v]
             /\ windowIDs'[v] = windowIDs[v]
  BY <1>1, <1>5, <1>7 DEF RestoreWindowAt, TypeOK
<1>8. Carries(WorkspaceMap, WorkspaceMap', {windowWorkspace'[w]}, {})
  BY <1>5, <1>6, <1>7, WorkspacesCarried
<1>9. /\ w \in windows /\ stashedWindows'[w].workspace = 0
      /\ \A v \in windows \ {w} : stashedWindows'[v] = stashedWindows[v]
  BY <1>1 DEF RestoreWindowAt, TypeOK, NoWindowHint
<1>10. /\ StashedWindows \ StashedWindows' \subseteq {w}
       /\ {w} \cap StashedWindows' = {}
       /\ \A v \in StashedWindows' \ {} : v \in StashedWindows /\ stashedWindows'[v] = stashedWindows[v]
  BY <1>2, <1>9 DEF StashedWindows, IsStashedWindow
<1>11. Carries(WindowHintMap, WindowHintMap', {}, {w})
  BY <1>10, WindowHintsCarried
<1>12. Carries(PaneMap, PaneMap', {}, {}) /\ Carries(PaneHintMap, PaneHintMap', {}, {})
  BY <1>2, UnchangedCarried DEF paneVars
<1> QED BY <1>2, <1>4, <1>8, <1>11, <1>12 DEF Carried, idVars

(* The commands of panes: a new pane.                                      *)
LEMMA AddPaneCarried ==
  ASSUME IInv, NEW w \in WindowID, NEW p, AllocatePane(p), AddPane(p, w),
         NEW L, layout' = [layout EXCEPT ![w] = L],
         transient' \ {p} = transient \ {p}
  PROVE  /\ Carries(WorkspaceMap, WorkspaceMap', {}, {})
         /\ Carries(WindowMap, WindowMap', {w}, {})
         /\ Carries(PaneMap, PaneMap', {p}, {})
         /\ Carries(WindowHintMap, WindowHintMap', {}, {})
         /\ UNCHANGED <<nextWorkspaceID, nextWindowID, workspaceOrder>>
         /\ nextPaneID' = AtLeast(nextPaneID, p + 1)
         /\ p \in PaneID /\ p \notin StashedPanes /\ panes' = panes \cup {p}
<1>1. TypeOK /\ LayoutInv
  BY DEF IInv
<1>2. p \in PaneID /\ p \notin panes
  BY <1>1, NewPane
<1>3. UNCHANGED workspaceVars /\ UNCHANGED windowVars /\ UNCHANGED <<nextWorkspaceID, nextWindowID>>
      /\ panes' = panes \cup {p} /\ paneWindow' = [paneWindow EXCEPT ![p] = w]
      /\ nextPaneID' = nextPaneID + 1
  BY DEF AddPane
<1>4. Carries(WorkspaceMap, WorkspaceMap', {}, {}) /\ Carries(WindowHintMap, WindowHintMap', {}, {})
  BY <1>3, UnchangedCarried DEF windowVars
<1>5. \A v \in windows' \ {w} : layout'[v] = layout[v]
  BY <1>1, <1>3 DEF TypeOK, windowVars
<1>6. Carries(WindowMap, WindowMap', {w}, {})
  BY <1>3, <1>5, WindowsCarried DEF windowVars
<1>7. ASSUME NEW q \in panes' \ {p}
      PROVE  q \in panes /\ paneWindow'[q] = paneWindow[q] /\ (q \in transient' <=> q \in transient)
  BY <1>1, <1>3 DEF TypeOK
<1>8. Carries(PaneMap, PaneMap', {p}, {})
  BY <1>3, <1>7, PanesCarried
<1>9. nextPaneID' = AtLeast(nextPaneID, p + 1)
  BY <1>1, <1>3 DEF AllocatePane, AtLeast, TypeOK
<1> QED BY <1>2, <1>3, <1>4, <1>6, <1>8, <1>9 DEF workspaceVars, StashedPanes

(* pane_created carries the pane and the window with its new layout.       *)
LEMMA NewPaneCarried ==
  ASSUME IInv, NEW w \in WindowID, NEW p, AllocatePane(p), AddPane(p, w),
         NEW L, layout' = [layout EXCEPT ![w] = L], UNCHANGED <<transient, stashedPanes>>
  PROVE  Carried("pane_created", p, {}, {w}, {p})
<1>1. LayoutInv
  BY DEF IInv
<1>2. /\ Carries(WorkspaceMap, WorkspaceMap', {}, {})
      /\ Carries(WindowMap, WindowMap', {w}, {})
      /\ Carries(PaneMap, PaneMap', {p}, {})
      /\ Carries(WindowHintMap, WindowHintMap', {}, {})
      /\ UNCHANGED <<nextWorkspaceID, nextWindowID, workspaceOrder>>
      /\ nextPaneID' = AtLeast(nextPaneID, p + 1)
      /\ p \in PaneID /\ p \notin StashedPanes /\ panes' = panes \cup {p}
  BY AddPaneCarried
<1>3. ~ IsStashedPane(p)
  BY <1>1, <1>2 DEF StashedPanes, LayoutInv
<1>4. StashedPanes' = StashedPanes
  BY <1>2, <1>3 DEF StashedPanes, IsStashedPane
<1>5. Carries(PaneHintMap, PaneHintMap', {}, {})
  BY <1>4, PaneHintsCarried
<1> QED BY <1>2, <1>5 DEF Carried

(* So it does for the first pane of a window,                              *)
LEMMA CreatePaneCarried ==
  ASSUME IInv, NEW w \in WindowID, NEW p, CreatePane(w, p)
  PROVE  Carried("pane_created", p, {}, {w}, {p})
  BY NewPaneCarried DEF CreatePane

(* and for a pane beside another one.                                      *)
LEMMA SplitPaneCarried ==
  ASSUME IInv, NEW t, NEW p, SplitPane(t, p)
  PROVE  Carried("pane_created", p, {}, {paneWindow[t]}, {p})
<1>1. paneWindow[t] \in WindowID
  BY DEF SplitPane, OnScreen, IInv, TypeOK, LayoutInv
<1>2. layout' = [layout EXCEPT ![paneWindow[t]] = Beside(layout[paneWindow[t]], t, "after", p)]
  BY DEF SplitPane
<1> QED BY <1>1, <1>2, NewPaneCarried DEF SplitPane

(* A temporary editor is announced as a stashed pane.                      *)
LEMMA CreateTransientPaneCarried ==
  ASSUME IInv, NEW w \in WindowID, NEW p, CreateTransientPane(w, p)
  PROVE  Carried("pane_stashed", p, {}, {w}, {p})
<1>1. TypeOK
  BY DEF IInv
<1>2. layout' = [layout EXCEPT ![w] = layout[w]] /\ transient' \ {p} = transient \ {p}
  BY <1>1 DEF CreateTransientPane, TypeOK
<1>3. AllocatePane(p) /\ AddPane(p, w)
  BY DEF CreateTransientPane
<1>4. /\ Carries(WorkspaceMap, WorkspaceMap', {}, {})
      /\ Carries(WindowMap, WindowMap', {w}, {})
      /\ Carries(PaneMap, PaneMap', {p}, {})
      /\ Carries(WindowHintMap, WindowHintMap', {}, {})
      /\ UNCHANGED <<nextWorkspaceID, nextWindowID, workspaceOrder>>
      /\ nextPaneID' = AtLeast(nextPaneID, p + 1)
      /\ p \in PaneID /\ p \notin StashedPanes /\ panes' = panes \cup {p}
  BY <1>2, <1>3, AddPaneCarried
<1>5. \A q \in panes \cup {p} : q # p => stashedPanes'[q] = stashedPanes[q]
  BY <1>1, <1>4 DEF CreateTransientPane, TypeOK
<1>6. /\ StashedPanes \subseteq StashedPanes'
      /\ \A q \in StashedPanes' \ {p} : q \in StashedPanes /\ stashedPanes'[q] = stashedPanes[q]
  BY <1>4, <1>5 DEF StashedPanes, IsStashedPane
<1>7. Carries(PaneHintMap, PaneHintMap', {p}, {})
  BY <1>6, PaneHintsCarried
<1> QED BY <1>4, <1>7 DEF Carried

(* The commands of panes that are there already.                           *)
LEMMA MovePaneWithinCarried ==
  ASSUME IInv, NEW p, NEW t, MovePaneWithin(p, t)
  PROVE  Carried("pane_moved", p, {}, {paneWindow[p]}, {p})
<1>1. TypeOK
  BY DEF IInv
<1>2. UNCHANGED <<idVars, workspaceVars, windowVars, paneVars>>
  BY DEF MovePaneWithin
<1>3. \A v \in windows' \ {paneWindow[p]} : layout'[v] = layout[v]
  BY <1>1, <1>2 DEF MovePaneWithin, TypeOK, windowVars
<1>4. Carries(WindowMap, WindowMap', {paneWindow[p]}, {})
  BY <1>2, <1>3, WindowsCarried DEF windowVars
<1>5. /\ Carries(WorkspaceMap, WorkspaceMap', {}, {}) /\ Carries(PaneMap, PaneMap', {p}, {})
      /\ Carries(PaneHintMap, PaneHintMap', {}, {})
      /\ Carries(WindowHintMap, WindowHintMap', {}, {})
  BY <1>2, UnchangedCarried DEF paneVars, windowVars
<1> QED BY <1>2, <1>4, <1>5 DEF Carried, idVars, workspaceVars

(* pane_moved carries both windows of a move between two.                  *)
LEMMA MovePaneAcrossCarried ==
  ASSUME IInv, NEW p, NEW d, NEW t, MovePaneAcross(p, d, t)
  PROVE  Carried("pane_moved", p, {}, {paneWindow[p], d}, {p})
<1>1. TypeOK
  BY DEF IInv
<1>2. UNCHANGED <<idVars, workspaceVars, windowVars, panes, transient, stashedPanes>>
  BY DEF MovePaneAcross
<1>3. \A v \in windows' \ {paneWindow[p], d} : layout'[v] = layout[v]
  BY <1>1, <1>2 DEF MovePaneAcross, TypeOK, windowVars
<1>4. Carries(WindowMap, WindowMap', {paneWindow[p], d}, {})
  BY <1>2, <1>3, WindowsCarried DEF windowVars
<1>5. \A q \in panes' \ {p} : paneWindow'[q] = paneWindow[q]
  BY <1>1, <1>2 DEF MovePaneAcross, TypeOK
<1>6. Carries(PaneMap, PaneMap', {p}, {})
  BY <1>2, <1>5, PanesCarried
<1>7. /\ Carries(WorkspaceMap, WorkspaceMap', {}, {})
      /\ Carries(PaneHintMap, PaneHintMap', {}, {})
      /\ Carries(WindowHintMap, WindowHintMap', {}, {})
  BY <1>2, UnchangedCarried DEF windowVars
<1> QED BY <1>2, <1>4, <1>6, <1>7 DEF Carried, idVars, workspaceVars

(* pane_closed carries the window, whose layout has one leaf less.         *)
LEMMA ClosePaneCarried ==
  ASSUME IInv, NEW p, ClosePane(p)
  PROVE  Carried("pane_closed", p, {}, {paneWindow[p]}, {})
<1>1. TypeOK
  BY DEF IInv
<1>2. UNCHANGED <<idVars, workspaceVars, windowVars>> /\ panes' = panes \ {p}
  BY DEF ClosePane
<1>3. \A v \in windows' \ {paneWindow[p]} : layout'[v] = layout[v]
  BY <1>1, <1>2 DEF ClosePane, TypeOK, windowVars
<1>4. Carries(WindowMap, WindowMap', {paneWindow[p]}, {})
  BY <1>2, <1>3, WindowsCarried DEF windowVars
<1>5. \A q \in panes' \ {} :
        /\ q \in panes
        /\ paneWindow'[q] = paneWindow[q]
        /\ (q \in transient' <=> q \in transient)
  BY <1>1, <1>2 DEF ClosePane, TypeOK
<1>6. Carries(PaneMap, PaneMap', {}, {p})
  BY <1>2, <1>5, PanesCarried
<1>7. \A q \in panes' : stashedPanes'[q] = stashedPanes[q]
  BY <1>1, <1>2 DEF ClosePane, TypeOK
<1>8. /\ StashedPanes \ StashedPanes' \subseteq {p} /\ {p} \cap StashedPanes' = {}
      /\ \A q \in StashedPanes' \ {} : q \in StashedPanes /\ stashedPanes'[q] = stashedPanes[q]
  BY <1>2, <1>7 DEF StashedPanes, IsStashedPane
<1>9. Carries(PaneHintMap, PaneHintMap', {}, {p})
  BY <1>8, PaneHintsCarried
<1>10. /\ Carries(WorkspaceMap, WorkspaceMap', {}, {})
       /\ Carries(WindowHintMap, WindowHintMap', {}, {})
  BY <1>2, UnchangedCarried DEF windowVars
<1> QED BY <1>2, <1>4, <1>6, <1>9, <1>10 DEF Carried, idVars, workspaceVars

(* pane_stashed carries the pane, its hint and its window.                 *)
LEMMA StashPaneCarried ==
  ASSUME IInv, NEW p, StashPane(p)
  PROVE  Carried("pane_stashed", p, {}, {paneWindow[p]}, {p})
<1>1. TypeOK /\ LayoutInv
  BY DEF IInv
<1>2. UNCHANGED <<idVars, workspaceVars, windowVars, panes, paneWindow, transient>>
  BY DEF StashPane
<1>3. \A v \in windows' \ {paneWindow[p]} : layout'[v] = layout[v]
  BY <1>1, <1>2 DEF StashPane, TypeOK, windowVars
<1>4. Carries(WindowMap, WindowMap', {paneWindow[p]}, {})
  BY <1>2, <1>3, WindowsCarried DEF windowVars
<1>5. p \in panes /\ p \notin StashedPanes
  BY DEF StashPane, OnScreen, StashedPanes
<1>6. \A q \in panes : q # p => stashedPanes'[q] = stashedPanes[q]
  <2>1. PICK n \in Neighbours(layout[paneWindow[p]], p) :
          stashedPanes' = [stashedPanes EXCEPT ![p] =
            [workspace |-> windowWorkspace[paneWindow[p]], window |-> paneWindow[p],
             target |-> n.target, side |-> n.side]]
    BY DEF StashPane
  <2> QED BY <1>1, <2>1 DEF TypeOK
<1>7. /\ StashedPanes \subseteq StashedPanes'
      /\ \A q \in StashedPanes' \ {p} : q \in StashedPanes /\ stashedPanes'[q] = stashedPanes[q]
  BY <1>2, <1>5, <1>6 DEF StashedPanes, IsStashedPane
<1>8. Carries(PaneHintMap, PaneHintMap', {p}, {})
  BY <1>7, PaneHintsCarried
<1>9. /\ Carries(WorkspaceMap, WorkspaceMap', {}, {}) /\ Carries(PaneMap, PaneMap', {p}, {})
      /\ Carries(WindowHintMap, WindowHintMap', {}, {})
  BY <1>2, UnchangedCarried DEF windowVars
<1>10. nextPaneID' = AtLeast(nextPaneID, p + 1)
  BY <1>1, <1>2, <1>5 DEF AtLeast, TypeOK, LayoutInv, idVars, PaneID
<1> QED BY <1>2, <1>4, <1>8, <1>9, <1>10 DEF Carried, idVars, workspaceVars

(* pane_restored carries the window the pane is back in.                   *)
LEMMA RestoreAtCarried ==
  ASSUME IInv, NEW p, NEW place, RestoreAt(p, place)
  PROVE  Carried("pane_restored", p, {}, {paneWindow'[p]}, {p})
<1>1. TypeOK
  BY DEF IInv
<1>2. UNCHANGED <<idVars, workspaceVars, windowVars, panes, transient>>
  BY DEF RestoreAt, CanRestore
<1>3. p \in PaneID /\ p \in panes /\ paneWindow'[p] = place.window
  BY <1>1 DEF RestoreAt, CanRestore, TypeOK
<1>4. \A v \in windows' \ {place.window} : layout'[v] = layout[v]
  BY <1>1, <1>2 DEF RestoreAt, CanRestore, TypeOK, windowVars
<1>5. Carries(WindowMap, WindowMap', {paneWindow'[p]}, {})
  BY <1>2, <1>3, <1>4, WindowsCarried DEF windowVars
<1>6. \A q \in panes' \ {p} : paneWindow'[q] = paneWindow[q]
  BY <1>1, <1>2 DEF RestoreAt, CanRestore, TypeOK
<1>7. Carries(PaneMap, PaneMap', {p}, {})
  BY <1>2, <1>6, PanesCarried
<1>8. /\ stashedPanes'[p].window = 0
      /\ \A q \in panes : q # p => stashedPanes'[q] = stashedPanes[q]
  BY <1>1, <1>3 DEF RestoreAt, CanRestore, TypeOK, NoPaneHint
<1>9. /\ StashedPanes \ StashedPanes' \subseteq {p} /\ {p} \cap StashedPanes' = {}
      /\ \A q \in StashedPanes' \ {} : q \in StashedPanes /\ stashedPanes'[q] = stashedPanes[q]
  BY <1>2, <1>8 DEF StashedPanes, IsStashedPane
<1>10. Carries(PaneHintMap, PaneHintMap', {}, {p})
  BY <1>9, PaneHintsCarried
<1>11. /\ Carries(WorkspaceMap, WorkspaceMap', {}, {})
       /\ Carries(WindowHintMap, WindowHintMap', {}, {})
  BY <1>2, UnchangedCarried DEF windowVars
<1> QED BY <1>2, <1>5, <1>7, <1>10, <1>11 DEF Carried, idVars, workspaceVars

(* The one command whose event carries too little: after a projected       *)
(* window_created the new window is neither shown nor stashed.             *)
LEMMA CreateWindowRejected ==
  ASSUME IInv, NEW ws, NEW n, CreateWindow(ws, n)
  PROVE  ~ Valid(Project(Snapshot, Event("window_created", nextWindowID, {}, {nextWindowID}, {})))
<1> DEFINE k == "window_created"
           w == nextWindowID
           e == Event(k, w, {}, {w}, {})
           wss == Updated(WorkspaceMap, e.workspaces)
           wins == Updated(WindowMap, e.windows)
           ps == Updated(PaneMap, e.panes)
           s == Project(Snapshot, e)
<1>1. TypeOK /\ WindowInv
  BY DEF IInv
<1>2. w \in WindowID /\ w \notin windows /\ windows' = windows \cup {w}
  BY <1>1, CoreAssumption DEF CreateWindow, TypeOK, WindowInv, WindowID
<1>3. /\ e.kind = k
      /\ e.workspaces = Pick(WorkspaceMap', {}) /\ e.windows = Pick(WindowMap', {w})
  BY EventParts
<1>4. wss = WorkspaceMap
  BY <1>3 DEF Updated, Pick, Restrict, WorkspaceMap
<1>5. w \in DOMAIN wins
  BY <1>2, <1>3 DEF Updated, Pick, Restrict, WindowMap
<1>6. Snapshot = SnapshotOf(revision, nextWorkspaceID, nextWindowID, nextPaneID, workspaceOrder,
                            WorkspaceMap, WindowMap, PaneMap, PaneHintMap, WindowHintMap)
  BY SnapshotParts
<1> HIDE DEF e
<1>7. s = SnapshotOf(e.revision, nextWorkspaceID, AtLeast(nextWindowID, e.id + 1), nextPaneID,
                     workspaceOrder, wss, wins, ps, PaneHintMap, WindowHintMap)
  BY <1>3, <1>6, ProjectParts
<1>8. s.workspaces = wss /\ s.windows = wins /\ s.stashedWindows = WindowHintMap
  BY <1>7, SnapshotFields
<1> HIDE DEF s, wss, wins, ps
<1>9. w \notin DOMAIN s.stashedWindows
  BY <1>2, <1>8 DEF WindowHintMap, StashedWindows
<1>10. Workspaces \subseteq WorkspaceID
  BY <1>1, ToSetType DEF TypeOK, Workspaces
<1>11. ASSUME NEW v \in DOMAIN s.workspaces PROVE w \notin ToSet(s.workspaces[v].windowIDs)
  <2>1. v \in Workspaces /\ s.workspaces[v].windowIDs = windowIDs[v]
    BY <1>4, <1>8, <1>11 DEF WorkspaceMap
  <2> QED BY <1>1, <1>2, <1>10, <2>1 DEF WindowInv
<1>12. ~ EveryWindowPlaced(s)
  BY <1>5, <1>8, <1>9, <1>11 DEF EveryWindowPlaced
<1> QED BY <1>12 DEF Valid, s, e

\* Event e leads from s to t; a window_created event leads nowhere.
Link(s, e, t) ==
  IF e.kind = "window_created" THEN ~ Valid(Project(s, e)) ELSE t = Project(s, e)

\* What the step publishes leads from the old snapshot to the new one.
Announced ==
  \E k, id, Ws, W, P :
    Publish(k, id, Ws, W, P) /\ Link(Snapshot, Event(k, id, Ws, W, P), Snapshot')

(* An event that carries what the step changes announces it.               *)
LEMMA CarriedIsAnnounced ==
  ASSUME NEW k \in Kinds, NEW id, NEW Ws, NEW W, NEW P,
         Publish(k, id, Ws, W, P), Carried(k, id, Ws, W, P)
  PROVE  Announced
<1>1. revision' = revision + 1
  BY DEF Publish
<1>2. Project(Snapshot, Event(k, id, Ws, W, P)) = Snapshot'
  BY <1>1, CarriedSuffices
<1>3. Event(k, id, Ws, W, P).kind # "window_created"
  BY EventParts DEF Kinds
<1>4. Link(Snapshot, Event(k, id, Ws, W, P), Snapshot')
  BY <1>2, <1>3 DEF Link
<1> QED BY <1>4, Zenon DEF Announced

(* So is a new window, by an event that nobody accepts.                    *)
LEMMA CreateWindowAnnounced ==
  ASSUME IInv, NEW ws, NEW n, CreateWindow(ws, n),
         Publish("window_created", nextWindowID, {}, {nextWindowID}, {})
  PROVE  Announced
<1> DEFINE e == Event("window_created", nextWindowID, {}, {nextWindowID}, {})
<1>1. e.kind = "window_created"
  BY EventParts
<1>2. ~ Valid(Project(Snapshot, e))
  BY CreateWindowRejected
<1> HIDE DEF e
<1>3. Link(Snapshot, e, Snapshot')
  BY <1>1, <1>2 DEF Link
<1> QED BY <1>3, Zenon DEF Announced, e

(* Every command announces what it changes.                                *)
LEMMA MutateAnnounces ==
  ASSUME IInv, Mutate
  PROVE  Announced
<1>1. CASE WorkspaceEvents
  <2>1. CASE \E n \in Names :
               /\ CreateWorkspace(n)
               /\ Publish("workspace_created", nextWorkspaceID, {nextWorkspaceID}, {}, {})
    BY <2>1, CreateWorkspaceCarried, CarriedIsAnnounced DEF Kinds
  <2>2. CASE \E n \in Names : \E ws \in WorkspaceID :
               RenameWorkspace(ws, n) /\ Publish("workspace_renamed", ws, {ws}, {}, {})
    BY <2>2, RenameWorkspaceCarried, CarriedIsAnnounced DEF Kinds
  <2>3. CASE \E ws \in WorkspaceID :
               DeleteWorkspace(ws) /\ Publish("workspace_deleted", ws, {}, {}, {})
    BY <2>3, DeleteWorkspaceCarried, CarriedIsAnnounced DEF Kinds
  <2> QED BY <1>1, <2>1, <2>2, <2>3, Zenon DEF WorkspaceEvents
<1>2. CASE WindowEvents
  <2>1. CASE \E n \in Names : \E ws \in WorkspaceID :
               /\ CreateWindow(ws, n)
               /\ Publish("window_created", nextWindowID, {}, {nextWindowID}, {})
    BY <2>1, CreateWindowAnnounced
  <2>2. CASE \E n \in Names : \E w \in WindowID :
               RenameWindow(w, n) /\ Publish("window_renamed", w, {}, {w}, {})
    BY <2>2, RenameWindowCarried, CarriedIsAnnounced DEF Kinds
  <2>3. CASE \E w \in WindowID :
               DeleteWindow(w) /\ Publish("window_deleted", w, {windowWorkspace[w]}, {}, {})
    BY <2>3, DeleteWindowCarried, CarriedIsAnnounced DEF Kinds
  <2>4. CASE \E w \in WindowID :
               StashWindow(w) /\ Publish("window_stashed", w, {windowWorkspace[w]}, {w}, {})
    BY <2>4, StashWindowCarried, CarriedIsAnnounced DEF Kinds
  <2>5. CASE \E w \in WindowID :
               /\ \/ \E f \in Frontends : RestoreWindow(w, f)
                  \/ \E ws \in WorkspaceID : RestoreWindowTo(w, ws)
               /\ Publish("window_restored", w, {windowWorkspace'[w]}, {w}, {})
    <3>1. PICK w \in WindowID :
               /\ \/ \E f \in Frontends : RestoreWindow(w, f)
                  \/ \E ws \in WorkspaceID : RestoreWindowTo(w, ws)
               /\ Publish("window_restored", w, {windowWorkspace'[w]}, {w}, {})
      BY <2>5
    <3>2. \E ws, index : RestoreWindowAt(w, ws, index)
      BY <3>1, Zenon DEF RestoreWindow, RestoreWindowTo
    <3> QED BY <3>1, <3>2, RestoreWindowCarried, CarriedIsAnnounced DEF Kinds
  <2> QED BY <1>2, <2>1, <2>2, <2>3, <2>4, <2>5, Zenon DEF WindowEvents
<1>3. CASE PaneEvents
  <2>1. CASE \E w \in WindowID, p \in PaneID :
               CreatePane(w, p) /\ Publish("pane_created", p, {}, {w}, {p})
    BY <2>1, CreatePaneCarried, CarriedIsAnnounced DEF Kinds
  <2>2. CASE \E w \in WindowID, p \in PaneID :
               CreateTransientPane(w, p) /\ Publish("pane_stashed", p, {}, {w}, {p})
    BY <2>2, CreateTransientPaneCarried, CarriedIsAnnounced DEF Kinds
  <2>3. CASE \E t, p \in PaneID :
               SplitPane(t, p) /\ Publish("pane_created", p, {}, {paneWindow[t]}, {p})
    BY <2>3, SplitPaneCarried, CarriedIsAnnounced DEF Kinds
  <2>4. CASE \E t, p \in PaneID :
               MovePaneWithin(p, t) /\ Publish("pane_moved", p, {}, {paneWindow[p]}, {p})
    BY <2>4, MovePaneWithinCarried, CarriedIsAnnounced DEF Kinds
  <2>5. CASE \E p \in PaneID, d \in WindowID, t \in PaneID \cup {0} :
               MovePaneAcross(p, d, t) /\ Publish("pane_moved", p, {}, {paneWindow[p], d}, {p})
    BY <2>5, MovePaneAcrossCarried, CarriedIsAnnounced DEF Kinds
  <2>6. CASE \E p \in PaneID :
               ClosePane(p) /\ Publish("pane_closed", p, {}, {paneWindow[p]}, {})
    BY <2>6, ClosePaneCarried, CarriedIsAnnounced DEF Kinds
  <2>7. CASE \E p \in PaneID :
               StashPane(p) /\ Publish("pane_stashed", p, {}, {paneWindow[p]}, {p})
    BY <2>7, StashPaneCarried, CarriedIsAnnounced DEF Kinds
  <2>8. CASE \E p \in PaneID :
               /\ \/ \E f \in Frontends : RestorePane(p, f)
                  \/ \E d \in WindowID, t \in PaneID \cup {0} : RestorePaneTo(p, d, t)
               /\ Publish("pane_restored", p, {}, {paneWindow'[p]}, {p})
    <3>1. PICK p \in PaneID :
               /\ \/ \E f \in Frontends : RestorePane(p, f)
                  \/ \E d \in WindowID, t \in PaneID \cup {0} : RestorePaneTo(p, d, t)
               /\ Publish("pane_restored", p, {}, {paneWindow'[p]}, {p})
      BY <2>8
    <3>2. \E place : RestoreAt(p, place)
      BY <3>1, Zenon DEF RestorePane, RestorePaneTo
    <3> QED BY <3>1, <3>2, RestoreAtCarried, CarriedIsAnnounced DEF Kinds
  <2> QED BY <1>3, <2>1, <2>2, <2>3, <2>4, <2>5, <2>6, <2>7, <2>8, Zenon DEF PaneEvents
<1> QED BY <1>1, <1>2, <1>3, Zenon DEF Mutate

-----------------------------------------------------------------------------
\* The snapshots that the events of q lead through, from s to t
Leads(ss, q, s, t) ==
  /\ ss[0] = s
  /\ ss[Len(q)] = t
  /\ \A i \in 1 .. Len(q) : Link(ss[i - 1], q[i], ss[i])

\* What a frontend has not read yet leads from its copy to Core's state.
Explained(f) == status[f] = "live" => \E ss : Leads(ss, queue[f], copy[f], Snapshot)

(* The inductive strengthening of ProjectionFaithful: it must speak of     *)
(* every event of a queue, for the events before a window_created event    *)
(* are still to be applied when a frontend has one to read.                *)
FaithInv == \A f \in Frontends : Explained(f)

(* Nothing to read leads nowhere else.                                     *)
LEMMA LeadsNowhere ==
  ASSUME NEW s
  PROVE  \E ss : Leads(ss, <<>>, s, s)
<1>1. Leads([i \in {0} |-> s], <<>>, s, s)
  BY EmptySequence DEF Leads
<1> QED BY <1>1

(* One event more leads one step further.                                  *)
LEMMA LeadsFurther ==
  ASSUME NEW q, IsSequence(q), NEW s, NEW t, NEW u, NEW e, NEW ss,
         Leads(ss, q, s, t), Link(t, e, u)
  PROVE  \E tt : Leads(tt, Append(q, e), s, u)
<1> DEFINE n == Len(q)
           tt == [i \in 0 .. n + 1 |-> IF i = n + 1 THEN u ELSE ss[i]]
           r == Append(q, e)
<1>1. /\ n \in Nat /\ Len(r) = n + 1 /\ r[n + 1] = e
      /\ \A i \in 1 .. n : r[i] = q[i]
  BY AppendedSequence
<1>2. /\ ss[0] = s /\ ss[n] = t
      /\ \A i \in 1 .. n : Link(ss[i - 1], q[i], ss[i])
  BY DEF Leads
<1> HIDE DEF n, r
<1>3. tt[0] = s /\ tt[n + 1] = u
  BY <1>1, <1>2
<1>4. ASSUME NEW i \in 1 .. n + 1 PROVE Link(tt[i - 1], r[i], tt[i])
  <2>1. CASE i = n + 1
    <3>1. tt[i - 1] = t /\ tt[i] = u /\ r[i] = e
      BY <1>1, <1>2, <2>1
    <3> HIDE DEF tt
    <3> QED BY <3>1
  <2>2. CASE i # n + 1
    <3>1. i \in 1 .. n /\ tt[i - 1] = ss[i - 1] /\ tt[i] = ss[i] /\ r[i] = q[i]
      BY <1>1, <2>2
    <3> HIDE DEF tt
    <3> QED BY <1>2, <3>1
  <2> QED BY <2>1, <2>2
<1> HIDE DEF tt
<1>5. Leads(tt, r, s, u)
  BY <1>1, <1>3, <1>4 DEF Leads
<1> QED BY <1>5 DEF r

(* A frontend that takes the first event is one step closer.               *)
LEMMA LeadsOn ==
  ASSUME NEW q, IsSequence(q), q # <<>>, NEW s, NEW t, NEW ss, Leads(ss, q, s, t),
         Valid(Project(s, Head(q)))
  PROVE  \E tt : Leads(tt, Tail(q), Project(s, Head(q)), t)
<1> DEFINE n == Len(q)
           tt == [i \in 0 .. n - 1 |-> ss[i + 1]]
           r == Tail(q)
<1>1. /\ n \in Nat \ {0} /\ Len(r) = n - 1 /\ Head(q) = q[1]
      /\ \A i \in 1 .. n - 1 : r[i] = q[i + 1]
  BY RestOfSequence
<1>2. /\ ss[0] = s /\ ss[n] = t
      /\ \A i \in 1 .. n : Link(ss[i - 1], q[i], ss[i])
  BY DEF Leads
<1> HIDE DEF n, r
<1>3. Link(s, Head(q), ss[1])
  <2>1. 1 \in 1 .. n /\ 1 - 1 = 0
    BY <1>1
  <2>2. Link(ss[1 - 1], q[1], ss[1])
    BY <1>2, <2>1
  <2> QED BY <1>1, <1>2, <2>1, <2>2
<1>4. ss[1] = Project(s, Head(q))
  BY <1>3, Zenon DEF Link
<1>5. tt[0] = ss[1] /\ tt[n - 1] = t
  BY <1>1, <1>2
<1>6. ASSUME NEW i \in 1 .. n - 1 PROVE Link(tt[i - 1], r[i], tt[i])
  <2>1. i + 1 \in 1 .. n /\ (i + 1) - 1 = i /\ i - 1 \in 0 .. n - 1 /\ (i - 1) + 1 = i /\ i \in 0 .. n - 1
    BY <1>1
  <2>2. tt[i - 1] = ss[i] /\ tt[i] = ss[i + 1] /\ r[i] = q[i + 1]
    BY <1>1, <2>1
  <2>3. Link(ss[(i + 1) - 1], q[i + 1], ss[i + 1])
    BY <1>2, <2>1
  <2> HIDE DEF tt
  <2> QED BY <2>1, <2>2, <2>3
<1> HIDE DEF tt
<1>7. Leads(tt, r, Project(s, Head(q)), t)
  BY <1>1, <1>4, <1>5, <1>6 DEF Leads
<1> QED BY <1>7 DEF r

(* A command adds its event to every queue that has room, and a frontend   *)
(* whose queue has none is no longer subscribed.                           *)
LEMMA MutateKeepsFaithInv ==
  ASSUME IInv, GapInv, FaithInv, Mutate
  PROVE  FaithInv'
<1>1. PICK k, id, Ws, W, P :
        Publish(k, id, Ws, W, P) /\ Link(Snapshot, Event(k, id, Ws, W, P), Snapshot')
  BY MutateAnnounces, Zenon DEF Announced
<1> DEFINE e == Event(k, id, Ws, W, P)
<1>2. /\ queue' = Enqueued(e)
      /\ status' = [f \in Frontends |-> IF f \in Full THEN "full" ELSE status[f]]
      /\ copy' = copy
  BY <1>1 DEF Publish, Deliver
<1>3. Link(Snapshot, e, Snapshot')
  BY <1>1
<1> HIDE DEF e
<1>4. ASSUME NEW f \in Frontends, status'[f] = "live"
      PROVE  \E tt : Leads(tt, queue'[f], copy'[f], Snapshot')
  <2>1. status[f] = "live" /\ f \notin Full
    BY <1>2, <1>4
  <2>2. queue'[f] = Append(queue[f], e)
    BY <1>2, <2>1 DEF Enqueued
  <2>3. PICK ss : Leads(ss, queue[f], copy[f], Snapshot)
    BY <2>1, Zenon DEF FaithInv, Explained
  <2>4. IsSequence(queue[f])
    BY DEF GapInv, GapFree
  <2>5. \E tt : Leads(tt, Append(queue[f], e), copy[f], Snapshot')
    BY <1>3, <2>3, <2>4, LeadsFurther
  <2> QED BY <1>2, <2>2, <2>5
<1> QED BY <1>4, Zenon DEF FaithInv, Explained

(* What frontends do leaves Core's state, and the others' streams, alone.  *)
LEMMA OnlyOwnCopy ==
  ASSUME FaithInv, NEW f, Snapshot' = Snapshot,
         \A g \in Frontends : g # f =>
           /\ queue'[g] = queue[g] /\ copy'[g] = copy[g]
           /\ status'[g] = "live" => status[g] = "live",
         f \in Frontends => Explained(f)'
  PROVE  FaithInv'
<1>1. ASSUME NEW g \in Frontends, g # f PROVE Explained(g)'
  BY <1>1, Zenon DEF FaithInv, Explained
<1> QED BY <1>1, Zenon DEF FaithInv

\* The state of Core that its snapshot shows.
LEMMA SnapshotKept ==
  ASSUME UNCHANGED <<revision, idVars, workspaceVars, windowVars, layout, paneVars>>
  PROVE  Snapshot' = Snapshot
<1>1. /\ UNCHANGED <<revision, nextWorkspaceID, nextWindowID, nextPaneID, workspaceOrder>>
      /\ WorkspaceMap' = WorkspaceMap /\ WindowMap' = WindowMap /\ PaneMap' = PaneMap
      /\ PaneHintMap' = PaneHintMap /\ WindowHintMap' = WindowHintMap
  BY Zenon DEF idVars, workspaceVars, windowVars, paneVars, WorkspaceMap, WindowMap, PaneMap,
     PaneHintMap, WindowHintMap, Workspaces, StashedPanes, StashedWindows, IsStashedPane,
     IsStashedWindow
<1> QED BY <1>1, SnapshotParts, SnapshotPartsNext

(* Every step keeps what there is to read sufficient.                      *)
LEMMA StepKeepsFaithInv ==
  IInv /\ GapInv /\ FaithInv /\ [StreamNext]_<<vars, streamVars>> => FaithInv'
<1> SUFFICES ASSUME IInv, GapInv, FaithInv, [StreamNext]_<<vars, streamVars>> PROVE FaithInv'
  OBVIOUS
<1>1. CASE Mutate
  BY <1>1, MutateKeepsFaithInv
<1>2. ASSUME NEW f \in Frontends,
             Join(f) \/ Evict(f) \/ Leave(f) \/ LookElsewhere(f) \/ Receive(f) \/ ReadEnd(f)
      PROVE  FaithInv'
  <2>0. UNCHANGED <<revision, idVars, workspaceVars, windowVars, layout, paneVars>>
    <3>1. CASE Join(f)
      BY <3>1 DEF Join, Subscribe
    <3>2. CASE Evict(f) \/ Leave(f)
      BY <3>2 DEF Evict, Leave, Unsubscribe
    <3>3. CASE LookElsewhere(f)
      BY <3>3 DEF LookElsewhere, SetFocus, SelectWindow, streamVars
    <3>4. CASE Receive(f) \/ ReadEnd(f)
      BY <3>4 DEF Receive, ReadEnd, vars
    <3> QED BY <1>2, <3>1, <3>2, <3>3, <3>4
  <2>1. Snapshot' = Snapshot
    BY <2>0, SnapshotKept
  <2>2. CASE Join(f)
    <3>1. /\ status[f] = "free"
          /\ copy' = [copy EXCEPT ![f] = Snapshot]
          /\ status' = [status EXCEPT ![f] = "live"]
          /\ queue' = queue
      BY <2>2 DEF Join
    <3> HIDE DEF Snapshot
    <3>2. queue'[f] = <<>> /\ copy'[f] = Snapshot
      BY <3>1 DEF GapInv, GapFree
    <3>3. \E ss : Leads(ss, queue'[f], copy'[f], Snapshot')
      BY <2>1, <3>2, LeadsNowhere
    <3>4. \A g \in Frontends : g # f => queue'[g] = queue[g] /\ copy'[g] = copy[g] /\ status'[g] = status[g]
      BY <3>1 DEF GapInv
    <3> QED BY <2>1, <3>3, <3>4, OnlyOwnCopy DEF Explained
  <2>3. CASE Evict(f) \/ Leave(f) \/ ReadEnd(f)
    <3>1. status'[f] # "live"
      BY <2>3 DEF Evict, Leave, ReadEnd, GapInv
    <3>2. \A g \in Frontends : g # f => queue'[g] = queue[g] /\ copy'[g] = copy[g] /\ status'[g] = status[g]
      <4>1. CASE Evict(f)
        BY <4>1 DEF Evict, GapInv
      <4>2. CASE Leave(f)
        BY <4>2 DEF Leave, GapInv
      <4>3. CASE ReadEnd(f)
        BY <4>3 DEF ReadEnd, GapInv
      <4> QED BY <2>3, <4>1, <4>2, <4>3
    <3> QED BY <2>1, <3>1, <3>2, OnlyOwnCopy DEF Explained
  <2>4. CASE LookElsewhere(f)
    <3>1. UNCHANGED <<queue, copy, status>>
      BY <2>4 DEF LookElsewhere, streamVars
    <3> QED BY <2>1, <3>1, Zenon DEF FaithInv, Explained
  <2>5. CASE Receive(f)
    <3> DEFINE e == Head(queue[f])
    <3>1. \/ /\ Applicable(copy[f], e)
             /\ queue' = [queue EXCEPT ![f] = Tail(@)]
             /\ copy' = [copy EXCEPT ![f] = Project(@, e)]
             /\ status' = status
          \/ /\ queue' = [queue EXCEPT ![f] = <<>>]
             /\ status' = [status EXCEPT ![f] = IF @ = "live" THEN "failed" ELSE "free"]
             /\ copy' = [copy EXCEPT ![f] = NoCopy]
      BY <2>5, Zenon DEF Receive
    <3>2. \A g \in Frontends : g # f => queue'[g] = queue[g] /\ copy'[g] = copy[g] /\ status'[g] = status[g]
      BY <3>1 DEF GapInv
    <3>3. ASSUME status'[f] = "live"
          PROVE  \E tt : Leads(tt, queue'[f], copy'[f], Snapshot)
      <4>1. /\ Applicable(copy[f], e)
            /\ queue' = [queue EXCEPT ![f] = Tail(@)]
            /\ copy' = [copy EXCEPT ![f] = Project(@, e)]
            /\ status' = status
        BY <3>1, <3>3 DEF GapInv
      <4>2. Valid(Project(copy[f], e))
        BY <4>1, Zenon DEF Applicable
      <4>3. queue[f] # <<>> /\ IsSequence(queue[f])
        BY <2>5 DEF Receive, GapInv, GapFree
      <4>4. PICK ss : Leads(ss, queue[f], copy[f], Snapshot)
        BY <3>3, <4>1, Zenon DEF FaithInv, Explained
      <4>5. \E tt : Leads(tt, Tail(queue[f]), Project(copy[f], e), Snapshot)
        BY <4>2, <4>3, <4>4, LeadsOn
      <4>6. queue'[f] = Tail(queue[f]) /\ copy'[f] = Project(copy[f], e)
        BY <4>1 DEF GapInv
      <4> QED BY <4>5, <4>6, Zenon
    <3> QED BY <2>1, <3>2, <3>3, OnlyOwnCopy DEF Explained
  <2> QED BY <1>2, <2>2, <2>3, <2>4, <2>5
<1>3. CASE UNCHANGED <<vars, streamVars>>
  <2>1. Snapshot' = Snapshot
    BY <1>3, SnapshotKept DEF vars, streamVars
  <2> QED BY <1>3, <2>1, Zenon DEF streamVars, FaithInv, Explained
<1> QED BY <1>1, <1>2, <1>3 DEF StreamNext

-----------------------------------------------------------------------------
(* Projected is a recursive function: the snapshots that the events of a   *)
(* queue lead through satisfy its equation, and nothing else does.         *)
LEMMA LeadsIsProjected ==
  ASSUME NEW q, IsSequence(q), NEW s, NEW t, NEW ss, Leads(ss, q, s, t),
         \A i \in DOMAIN q : q[i].kind # "window_created"
  PROVE  Projected(s, q) = t
<1> DEFINE n == Len(q)
           Solves(g) == g = [i \in 0 .. n |-> IF i = 0 THEN s ELSE Project(g[i - 1], q[i])]
           tt == [i \in 0 .. n |-> ss[i]]
           after == CHOOSE g : Solves(g)
<1>1. n \in Nat /\ DOMAIN q = 1 .. n
  BY AppendedSequence
<1>2. /\ ss[0] = s /\ ss[n] = t
      /\ \A i \in 1 .. n : ss[i] = Project(ss[i - 1], q[i])
  BY <1>1, Zenon DEF Leads, Link
<1>3. Projected(s, q) = after[n]
  BY Zenon DEF Projected
<1> HIDE DEF n
<1>4. Solves(tt)
  <2>1. ASSUME NEW i \in 0 .. n
        PROVE  ss[i] = IF i = 0 THEN s ELSE Project(tt[i - 1], q[i])
    <3>1. CASE i = 0
      BY <1>2, <3>1
    <3>2. CASE i # 0
      <4>1. i \in 1 .. n /\ tt[i - 1] = ss[i - 1]
        BY <1>1, <3>2
      <4> HIDE DEF tt
      <4> QED BY <1>2, <3>2, <4>1
    <3> QED BY <3>1, <3>2
  <2> QED BY <2>1
<1>5. Solves(after)
  <2> HIDE DEF tt, Solves
  <2> QED BY <1>4
<1>6. \A i \in 0 .. n : after[i] = IF i = 0 THEN s ELSE Project(after[i - 1], q[i])
  <2>1. after = [i \in 0 .. n |-> IF i = 0 THEN s ELSE Project(after[i - 1], q[i])]
    BY <1>5
  <2> HIDE DEF after
  <2> QED BY <2>1
<1> HIDE DEF after, Solves, tt
<1> DEFINE T == {i \in 0 .. n : after[i] # ss[i]}
<1>7. T = {}
  <2> SUFFICES ASSUME T # {} PROVE FALSE
    OBVIOUS
  <2>1. T \subseteq Nat
    BY <1>1
  <2>2. PICK i \in T : \A j \in T : i <= j
    BY <2>1, FirstPlace
  <2>3. i \in 0 .. n /\ after[i] # ss[i]
    OBVIOUS
  <2>4. i # 0
    BY <1>1, <1>2, <1>6, <2>3
  <2>5. i \in 1 .. n /\ i - 1 \in 0 .. n /\ ~ (i <= i - 1)
    BY <1>1, <2>3, <2>4
  <2>6. after[i - 1] = ss[i - 1]
    BY <2>2, <2>5
  <2>7. after[i] = Project(after[i - 1], q[i]) /\ ss[i] = Project(ss[i - 1], q[i])
    BY <1>2, <1>6, <2>4, <2>5
  <2> QED BY <2>3, <2>6, <2>7
<1>8. after[n] = t
  BY <1>1, <1>2, <1>7
<1> QED BY <1>3, <1>8

(* Whatever the commands, the frontends and the capacity of their queues   *)
(* are, the events that a subscribed frontend has not read yet take its    *)
(* copy to Core's state (the payloads of operations.go and stash.go        *)
(* against ApplyEvent).                                                    *)
THEOREM CopiesStayFaithful == StreamSpec => []ProjectionFaithful
<1>1. StreamSpec => []IInv
  BY StreamImplementsCore, InvariantHolds, PTL
<1>2. StreamSpec => []GapInv
  BY InitGapInv, StepKeepsGapInv, PTL DEF StreamSpec
<1>3. StreamInit => FaithInv
  <2> SUFFICES ASSUME StreamInit PROVE FaithInv
    OBVIOUS
  <2>1. status = [f \in Frontends |-> "free"]
    BY DEF StreamInit
  <2> QED BY <2>1 DEF FaithInv, Explained
<1>4. StreamSpec => []FaithInv
  BY <1>1, <1>2, <1>3, StepKeepsFaithInv, PTL DEF StreamSpec
<1>5. GapInv /\ FaithInv => ProjectionFaithful
  <2> SUFFICES ASSUME GapInv, FaithInv, NEW f \in Frontends, status[f] = "live",
                      \A e \in ToSet(queue[f]) : e.kind # "window_created"
               PROVE  Projected(copy[f], queue[f]) = Snapshot
    BY DEF ProjectionFaithful
  <2>1. IsSequence(queue[f])
    BY DEF GapInv, GapFree
  <2>2. \A i \in DOMAIN queue[f] : queue[f][i].kind # "window_created"
    BY DEF ToSet
  <2>3. PICK ss : Leads(ss, queue[f], copy[f], Snapshot)
    BY Zenon DEF FaithInv, Explained
  <2> QED BY <2>1, <2>2, <2>3, LeadsIsProjected
<1> QED BY <1>2, <1>4, <1>5, PTL

-----------------------------------------------------------------------------
(***************************************************************************)
(* PluginAPI: what a command changes, whoever sent it.                     *)
(***************************************************************************)

(* Removing an identifier makes no list longer.                            *)
LEMMA WithoutNotLonger ==
  ASSUME NEW S, NEW s \in Seq(S), NEW x
  PROVE  ~ (Len(Without(s, x)) > Len(s))
<1>1. CASE x \notin ToSet(s)
  BY <1>1, LenProperties DEF Without
<1>2. CASE x \in ToSet(s)
  <2> DEFINE n == Len(s)
             i == IndexIn(s, x)
             a == SubSeq(s, 1, i - 1)
             b == SubSeq(s, i + 1, n)
  <2>0. n \in Nat /\ DOMAIN s = 1 .. n /\ \A j \in 1 .. n : s[j] \in S
    BY LenProperties, ElementOfSeq
  <2> HIDE DEF n
  <2>1. i \in 1 .. n
    BY <1>2, <2>0 DEF IndexIn, ToSet
  <2> HIDE DEF i
  <2>2. a \in Seq(S) /\ Len(a) = i - 1
    BY <2>0, <2>1, SubSeqProperties
  <2>3. b \in Seq(S) /\ Len(b) = n - i
    BY <2>0, <2>1, SubSeqProperties
  <2>4. Without(s, x) = a \o b
    BY <1>2 DEF Without, RemoveAt, i, n
  <2> HIDE DEF a, b
  <2>5. Len(a \o b) = Len(a) + Len(b)
    BY <2>2, <2>3, ConcatProperties
  <2> QED BY <2>0, <2>1, <2>2, <2>3, <2>4, <2>5 DEF n
<1> QED BY <1>1, <1>2

\* Nothing that Changed counts happens to what is outside P, W and S.
PanesKept(P) ==
  \A q \in panes \ P :
    /\ q \in panes'
    /\ paneWindow'[q] = paneWindow[q]
    /\ stashedPanes'[q] = stashedPanes[q]
    /\ stashedWindows'[paneWindow[q]] = stashedWindows[paneWindow[q]]
WindowsKept(W) ==
  \A v \in windows \ W :
    /\ v \in windows'
    /\ windowName'[v] = windowName[v]
    /\ stashedWindows'[v] = stashedWindows[v]
NoPaneMoves(W) ==
  \A p \in panes \cap panes' :
    paneWindow'[p] # paneWindow[p] =>
      /\ paneWindow'[p] \in W
      /\ IsStashedPane(p) \/ paneWindow[p] \in W
WorkspacesKept(S) ==
  \A v \in Workspaces \ S :
    /\ workspaceName'[v] = workspaceName[v]
    /\ ~ (Len(windowIDs'[v]) > Len(windowIDs[v]))

Among(P, W, S) ==
  {Pane(p) : p \in P} \cup {Window(w) : w \in W} \cup {Workspace(ws) : ws \in S}

(* What is kept has not changed.                                           *)
LEMMA ChangedAmong ==
  ASSUME NEW P, NEW W, NEW S,
         PanesKept(P), WindowsKept(W), NoPaneMoves(W), WorkspacesKept(S)
  PROVE  Changed \subseteq Among(P, W, S)
<1>1. ASSUME NEW q \in panes,
             \/ q \notin panes'
             \/ paneWindow'[q] # paneWindow[q]
             \/ stashedPanes'[q] # stashedPanes[q]
             \/ stashedWindows'[paneWindow[q]] # stashedWindows[paneWindow[q]]
      PROVE  q \in P
  BY <1>1 DEF PanesKept
<1>2. ASSUME NEW v \in windows,
             \/ v \notin windows'
             \/ windowName'[v] # windowName[v]
             \/ stashedWindows'[v] # stashedWindows[v]
             \/ \E p \in panes \cap panes' :
                  paneWindow'[p] # paneWindow[p] /\ v = paneWindow'[p]
             \/ \E p \in panes \cap panes' :
                  /\ paneWindow'[p] # paneWindow[p]
                  /\ v = paneWindow[p] /\ ~ IsStashedPane(p)
      PROVE  v \in W
  BY <1>2 DEF WindowsKept, NoPaneMoves
<1>3. ASSUME NEW v \in Workspaces,
             \/ workspaceName'[v] # workspaceName[v]
             \/ Len(windowIDs'[v]) > Len(windowIDs[v])
      PROVE  v \in S
  BY <1>3 DEF WorkspacesKept
<1> QED BY <1>1, <1>2, <1>3, Zenon DEF Changed, Among

(* Lists of windows nobody touched are as long as they were.               *)
LEMMA ListsKept ==
  ASSUME TypeOK
  PROVE  /\ \A v \in WorkspaceID : ~ (Len(windowIDs[v]) > Len(windowIDs[v]))
         /\ Workspaces \subseteq WorkspaceID
<1>1. windowIDs \in [WorkspaceID -> Seq(WindowID)] /\ workspaceOrder \in Seq(WorkspaceID)
  BY DEF TypeOK
<1> QED BY <1>1, ToSetType, LenProperties DEF Workspaces

(* The commands of a workspace reach that workspace; its creation reaches  *)
(* nothing that exists.                                                    *)
LEMMA WorkspaceCommandReach ==
  ASSUME IInv, NEW ws, NEW n,
         \/ CreateWorkspace(n)
         \/ RenameWorkspace(ws, n)
         \/ DeleteWorkspace(ws)
         \/ CreateWindow(ws, n)
  PROVE  Changed \subseteq Among({}, {}, IF CreateWorkspace(n) THEN {} ELSE {ws})
<1> DEFINE S == IF CreateWorkspace(n) THEN {} ELSE {ws}
<1>1. TypeOK /\ OrderInv /\ WindowInv
  BY DEF IInv
<1>2. nextWorkspaceID \notin Workspaces /\ nextWindowID \notin windows
  BY <1>1, CoreAssumption, ToSetType DEF TypeOK, OrderInv, WindowInv, Workspaces, WorkspaceID, WindowID
<1>3. UNCHANGED <<paneVars, stashedWindows>>
  BY DEF CreateWorkspace, RenameWorkspace, DeleteWorkspace, CreateWindow, windowVars
<1>4. PanesKept({}) /\ NoPaneMoves({})
  BY <1>3 DEF PanesKept, NoPaneMoves, paneVars
<1>5. WindowsKept({})
  <2>1. CASE UNCHANGED windowVars
    BY <2>1 DEF WindowsKept, windowVars
  <2>2. CASE CreateWindow(ws, n)
    <3>1. /\ windows' = windows \cup {nextWindowID}
          /\ windowName' = [windowName EXCEPT ![nextWindowID] = n]
      BY <2>2 DEF CreateWindow
    <3> QED BY <3>1, <1>1, <1>2, <1>3 DEF WindowsKept, TypeOK
  <2> QED BY <2>1, <2>2 DEF CreateWorkspace, RenameWorkspace, DeleteWorkspace
<1>6. WorkspacesKept(S)
  <2> SUFFICES ASSUME NEW v \in Workspaces, v # ws \/ CreateWorkspace(n)
               PROVE  /\ workspaceName'[v] = workspaceName[v]
                      /\ windowIDs'[v] = windowIDs[v]
    BY <1>1, ListsKept DEF WorkspacesKept
  <2>1. v \in WorkspaceID
    BY <1>1, ListsKept
  <2>2. CASE CreateWorkspace(n)
    BY <1>1, <1>2, <2>1, <2>2 DEF CreateWorkspace, TypeOK
  <2>3. CASE v # ws
    <3>1. workspaceName'[v] = workspaceName[v]
      BY <1>1, <1>2, <2>1, <2>3 DEF CreateWorkspace, RenameWorkspace, DeleteWorkspace,
         CreateWindow, TypeOK
    <3>2. windowIDs'[v] = windowIDs[v]
      BY <1>1, <2>1, <2>3 DEF CreateWorkspace, RenameWorkspace, DeleteWorkspace,
         CreateWindow, TypeOK
    <3> QED BY <3>1, <3>2
  <2> QED BY <2>2, <2>3
<1> HIDE DEF S
<1>7. Changed \subseteq Among({}, {}, S)
  BY <1>4, <1>5, <1>6, ChangedAmong
<1> QED BY <1>7 DEF S

(* Renaming and deleting a window reaches that window.                     *)
LEMMA WindowCommandReach ==
  ASSUME IInv, NEW w \in WindowID, NEW n, RenameWindow(w, n) \/ DeleteWindow(w)
  PROVE  Changed \subseteq Among({}, {w}, {})
<1>1. TypeOK /\ WindowInv
  BY DEF IInv
<1>2. UNCHANGED <<paneVars, stashedWindows, workspaceName, workspaceOrder>>
  BY DEF RenameWindow, DeleteWindow, workspaceVars
<1>3. PanesKept({}) /\ NoPaneMoves({w})
  BY <1>2 DEF PanesKept, NoPaneMoves, paneVars
<1>4. WindowsKept({w})
  <2> SUFFICES ASSUME NEW v \in windows, v # w
               PROVE  v \in windows' /\ windowName'[v] = windowName[v]
    BY <1>2 DEF WindowsKept
  <2> QED BY <1>1 DEF RenameWindow, DeleteWindow, TypeOK
<1>5. WorkspacesKept({})
  <2> SUFFICES ASSUME NEW v \in WorkspaceID
               PROVE  ~ (Len(windowIDs'[v]) > Len(windowIDs[v]))
    BY <1>1, <1>2, ListsKept DEF WorkspacesKept
  <2>1. windowIDs[v] \in Seq(WindowID)
    BY <1>1 DEF TypeOK
  <2>2. windowIDs'[v] = windowIDs[v] \/ windowIDs'[v] = Without(windowIDs[v], w)
    BY <1>1 DEF RenameWindow, DeleteWindow, workspaceVars, TypeOK
  <2> QED BY <1>1, <2>1, <2>2, ListsKept, WithoutNotLonger
<1> QED BY <1>3, <1>4, <1>5, ChangedAmong

(* Hiding and showing a window reaches its panes too, and showing it the   *)
(* workspace it enters.                                                    *)
LEMMA HideWindowReach ==
  ASSUME IInv, NEW w \in WindowID, StashWindow(w)
  PROVE  Changed \subseteq Among(PanesIn(w), {w}, {})
<1>1. TypeOK /\ WindowInv /\ LayoutInv
  BY DEF IInv
<1>2. /\ UNCHANGED <<windows, windowName, paneVars, workspaceName, workspaceOrder>>
      /\ \A v \in WindowID \ {w} : stashedWindows'[v] = stashedWindows[v]
  BY <1>1 DEF StashWindow, TypeOK
<1>3. PanesKept(PanesIn(w))
  BY <1>1, <1>2 DEF PanesKept, PanesIn, paneVars, TypeOK, LayoutInv
<1>4. WindowsKept({w}) /\ NoPaneMoves({w})
  BY <1>1, <1>2 DEF WindowsKept, NoPaneMoves, paneVars, TypeOK
<1>5. WorkspacesKept({})
  <2> SUFFICES ASSUME NEW v \in WorkspaceID
               PROVE  ~ (Len(windowIDs'[v]) > Len(windowIDs[v]))
    BY <1>1, <1>2, ListsKept DEF WorkspacesKept
  <2>1. windowIDs[v] \in Seq(WindowID)
    BY <1>1 DEF TypeOK
  <2>2. windowIDs'[v] = windowIDs[v] \/ windowIDs'[v] = Without(windowIDs[v], w)
    BY <1>1 DEF StashWindow, TypeOK
  <2> QED BY <1>1, <2>1, <2>2, ListsKept, WithoutNotLonger
<1> QED BY <1>3, <1>4, <1>5, ChangedAmong

(* See HideWindowReach.                                                    *)
LEMMA ShowWindowReach ==
  ASSUME IInv, NEW w \in WindowID, NEW ws \in WorkspaceID, RestoreWindowTo(w, ws)
  PROVE  Changed \subseteq Among(PanesIn(w), {w}, {ws})
<1>1. TypeOK /\ WindowInv /\ LayoutInv
  BY DEF IInv
<1>2. /\ UNCHANGED <<windows, windowName, paneVars, workspaceName, workspaceOrder>>
      /\ \A v \in WindowID \ {w} : stashedWindows'[v] = stashedWindows[v]
      /\ \A v \in WorkspaceID \ {ws} : windowIDs'[v] = windowIDs[v]
  BY <1>1 DEF RestoreWindowTo, RestoreWindowAt, TypeOK
<1>3. PanesKept(PanesIn(w))
  BY <1>1, <1>2 DEF PanesKept, PanesIn, paneVars, TypeOK, LayoutInv
<1>4. WindowsKept({w}) /\ NoPaneMoves({w})
  BY <1>1, <1>2 DEF WindowsKept, NoPaneMoves, paneVars, TypeOK
<1>5. WorkspacesKept({ws})
  BY <1>1, <1>2, ListsKept DEF WorkspacesKept
<1> QED BY <1>3, <1>4, <1>5, ChangedAmong

(* A new pane, and one that moves within its window, reaches nothing that  *)
(* exists: it is not yet there, or where it was.                           *)
LEMMA ArrangePaneReach ==
  ASSUME IInv, NEW w, NEW p, NEW t,
         CreatePane(w, p) \/ SplitPane(t, p) \/ MovePaneWithin(p, t)
  PROVE  Changed \subseteq Among({}, {}, {})
<1>1. TypeOK /\ LayoutInv
  BY DEF IInv
<1>2. UNCHANGED <<workspaceVars, windowVars>> /\ panes \subseteq panes' /\ stashedPanes' = stashedPanes
  BY DEF CreatePane, SplitPane, MovePaneWithin, AddPane, paneVars
<1>3. \A q \in panes : paneWindow'[q] = paneWindow[q]
  <2>1. CASE MovePaneWithin(p, t)
    BY <2>1 DEF MovePaneWithin, paneVars
  <2>2. CASE AllocatePane(p) /\ \E v : paneWindow' = [paneWindow EXCEPT ![p] = v]
    <3>1. p \notin panes
      BY <1>1, <2>2, NewPane
    <3> QED BY <1>1, <2>2, <3>1 DEF TypeOK
  <2> QED BY <2>1, <2>2 DEF CreatePane, SplitPane, AddPane
<1>4. PanesKept({}) /\ NoPaneMoves({})
  BY <1>2, <1>3 DEF PanesKept, NoPaneMoves, windowVars
<1>5. WindowsKept({}) /\ WorkspacesKept({})
  BY <1>1, <1>2, ListsKept DEF WindowsKept, WorkspacesKept, windowVars, workspaceVars
<1> QED BY <1>4, <1>5, ChangedAmong

(* Hiding, showing, closing and moving a pane reaches that pane, the       *)
(* window it enters, and the window it leaves if it was on the screen.     *)
LEMMA PaneCommandReach ==
  ASSUME IInv, NEW p \in PaneID, NEW d, NEW t,
         \/ StashPane(p)
         \/ ClosePane(p)
         \/ RestorePaneTo(p, d, t)
         \/ MovePaneAcross(p, d, t)
  PROVE  Changed \subseteq
           Among({p}, IF StashPane(p) \/ ClosePane(p) THEN {}
                      ELSE IF RestorePaneTo(p, d, t) THEN {d}
                      ELSE {d, paneWindow[p]}, {})
<1> DEFINE W == IF StashPane(p) \/ ClosePane(p) THEN {}
                ELSE IF RestorePaneTo(p, d, t) THEN {d}
                ELSE {d, paneWindow[p]}
<1>1. TypeOK /\ LayoutInv
  BY DEF IInv
<1>2. UNCHANGED <<workspaceVars, windowVars>>
  BY DEF StashPane, ClosePane, RestorePaneTo, RestoreAt, CanRestore, MovePaneAcross
<1>3. \A q \in panes \ {p} : /\ q \in panes'
                             /\ paneWindow'[q] = paneWindow[q]
                             /\ stashedPanes'[q] = stashedPanes[q]
  <2> SUFFICES ASSUME NEW q \in PaneID, q \in panes, q # p
               PROVE  /\ q \in panes'
                      /\ paneWindow'[q] = paneWindow[q]
                      /\ stashedPanes'[q] = stashedPanes[q]
    BY <1>1 DEF TypeOK
  <2>1. q \in panes'
    BY DEF StashPane, ClosePane, RestorePaneTo, RestoreAt, CanRestore, MovePaneAcross
  <2>2. paneWindow'[q] = paneWindow[q]
    BY <1>1 DEF StashPane, ClosePane, RestorePaneTo, RestoreAt, CanRestore, MovePaneAcross, TypeOK
  <2>3. stashedPanes'[q] = stashedPanes[q]
    BY <1>1 DEF StashPane, ClosePane, RestorePaneTo, RestoreAt, CanRestore, MovePaneAcross, TypeOK
  <2> QED BY <2>1, <2>2, <2>3
<1>4. PanesKept({p})
  BY <1>2, <1>3 DEF PanesKept, windowVars
<1>5. NoPaneMoves(W)
  <2> SUFFICES ASSUME p \in panes, p \in panes', paneWindow'[p] # paneWindow[p]
               PROVE  paneWindow'[p] \in W /\ (IsStashedPane(p) \/ paneWindow[p] \in W)
    BY <1>3 DEF NoPaneMoves
  <2>1. ~ StashPane(p) /\ ~ ClosePane(p)
    BY DEF StashPane, ClosePane
  <2>2. CASE RestorePaneTo(p, d, t)
    BY <1>1, <2>1, <2>2 DEF RestorePaneTo, RestoreAt, CanRestore, Placement, TypeOK
  <2>3. CASE ~ RestorePaneTo(p, d, t) /\ MovePaneAcross(p, d, t)
    BY <1>1, <2>1, <2>3 DEF MovePaneAcross, TypeOK
  <2> QED BY <2>1, <2>2, <2>3
<1>6. WindowsKept(W) /\ WorkspacesKept({})
  BY <1>1, <1>2, ListsKept DEF WindowsKept, WorkspacesKept, windowVars, workspaceVars
<1> HIDE DEF W
<1>7. Changed \subseteq Among({p}, W, {})
  BY <1>4, <1>5, <1>6, ChangedAmong
<1> QED BY <1>7 DEF W

(* The fields of a command, by its kind.                                   *)
LEMMA CommandFields ==
  ASSUME NEW m \in LayoutCommands
  PROVE  /\ m.kind \in {"workspace.create", "workspace.rename", "window.create",
                        "window.rename"} => m.name \in Names
         /\ m.kind \in {"workspace.rename", "window.create", "workspace.delete",
                        "window.restore"} => m.workspace \in WorkspaceID
         /\ m.kind \in {"window.rename", "window.delete", "window.stash", "resize",
                        "create-tool", "window.restore", "pane.restore", "move-pane"}
              => m.window \in WindowID
         /\ m.kind \in {"pane.restore", "move-pane", "split-tool", "stash-pane", "close"}
              => m.pane \in PaneID
         /\ m.kind \in {"pane.restore", "move-pane"} => m.target \in PaneID \cup {0}
  BY DEF LayoutCommands

(* The commands of the API keep the layout consistent: they are commands   *)
(* of the Core.                                                            *)
LEMMA DoKeepsIInv ==
  ASSUME IInv, NEW m \in LayoutCommands, Do(m)
  PROVE  IInv'
<1>1. TypeOK /\ LayoutInv
  BY DEF IInv
<1>2. CASE m.kind = "workspace.create"
  BY <1>2, CommandFields, CreateWorkspaceStep DEF Do
<1>3. CASE m.kind = "workspace.rename"
  BY <1>3, CommandFields, RenameWorkspaceStep DEF Do
<1>4. CASE m.kind = "workspace.delete"
  BY <1>4, CommandFields, DeleteWorkspaceStep DEF Do
<1>5. CASE m.kind = "window.create"
  BY <1>5, CommandFields, CreateWindowStep DEF Do
<1>6. CASE m.kind = "window.rename"
  BY <1>6, CommandFields, RenameWindowStep DEF Do
<1>7. CASE m.kind = "window.delete"
  BY <1>7, CommandFields, DeleteWindowStep DEF Do
<1>8. CASE m.kind = "window.stash"
  BY <1>8, CommandFields, StashWindowStep DEF Do
<1>9. CASE m.kind = "window.restore"
  BY <1>9, CommandFields, RestoreWindowToStep DEF Do
<1>10. CASE m.kind = "resize"
  <2>1. UNCHANGED vars
    BY <1>10 DEF Do
  <2> QED BY <2>1, NextIInv
<1>11. CASE m.kind = "create-tool"
  <2>1. CreatePane(m.window, nextPaneID)
    BY <1>11 DEF Do
  <2>2. nextPaneID \in PaneID
    BY <1>1, <2>1, NewPane DEF CreatePane
  <2> QED BY <1>11, <2>1, <2>2, CommandFields, CreatePaneStep
<1>12. CASE m.kind = "split-tool"
  <2>1. SplitPane(m.pane, nextPaneID)
    BY <1>12 DEF Do
  <2>2. nextPaneID \in PaneID
    BY <1>1, <2>1, NewPane DEF SplitPane
  <2> QED BY <1>12, <2>1, <2>2, CommandFields, SplitPaneStep
<1>13. CASE m.kind = "pane.restore"
  BY <1>13, CommandFields, RestorePaneToStep DEF Do
<1>14. CASE m.kind = "move-pane"
  <2>1. CASE m.window = paneWindow[m.pane]
    <3>1. MovePaneWithin(m.pane, m.target)
      BY <1>14, <2>1 DEF Do
    <3>2. m.target \in PaneID
      BY <1>1, <3>1, CommandFields, <1>14, ToSetType DEF MovePaneWithin, OnScreen, TypeOK, LayoutInv
    <3> QED BY <1>14, <3>1, <3>2, CommandFields, MovePaneWithinStep
  <2>2. CASE m.window # paneWindow[m.pane]
    BY <1>14, <2>2, CommandFields, MovePaneAcrossStep DEF Do
  <2> QED BY <2>1, <2>2
<1>15. CASE m.kind = "stash-pane"
  BY <1>15, CommandFields, StashPaneStep DEF Do
<1>16. CASE m.kind = "close"
  BY <1>16, CommandFields, ClosePaneStep DEF Do
<1> QED BY <1>2, <1>3, <1>4, <1>5, <1>6, <1>7, <1>8, <1>9, <1>10, <1>11, <1>12, <1>13,
           <1>14, <1>15, <1>16 DEF Do

(* A command changes the resources its request names and those the broker  *)
(* adds by looking at the layout: no other.                                *)
LEMMA DoWithinReach ==
  ASSUME IInv, NEW m \in LayoutCommands, Do(m)
  PROVE  Changed \subseteq Named(m) \cup Reached(m)
<1> USE DEF Among, TargetPane
<1>1. CASE m.kind = "workspace.create"
  <2>1. Changed \subseteq Among({}, {}, {})
    BY <1>1, WorkspaceCommandReach DEF Do
  <2> QED BY <2>1
<1>2. CASE m.kind \in {"workspace.rename", "workspace.delete", "window.create"}
  <2>1. Named(m) = {Workspace(m.workspace)}
    BY <1>2 DEF Named
  <2>2. PICK n : \/ RenameWorkspace(m.workspace, n)
                 \/ DeleteWorkspace(m.workspace)
                 \/ CreateWindow(m.workspace, n)
    BY <1>2 DEF Do
  <2>3. Changed \subseteq {Workspace(m.workspace)}
    BY <2>2, WorkspaceCommandReach
  <2> QED BY <2>1, <2>3
<1>3. CASE m.kind \in {"window.rename", "window.delete"}
  <2>1. Named(m) = {Window(m.window)}
    BY <1>3 DEF Named
  <2>2. PICK n : RenameWindow(m.window, n) \/ DeleteWindow(m.window)
    BY <1>3 DEF Do
  <2>3. Changed \subseteq {Window(m.window)}
    BY <1>3, <2>2, CommandFields, WindowCommandReach
  <2> QED BY <2>1, <2>3
<1>4. CASE m.kind = "window.stash"
  <2>1. /\ Named(m) = {Window(m.window)}
        /\ Reached(m) = {Pane(p) : p \in PanesIn(m.window)}
    BY <1>4 DEF Named, Reached
  <2>2. Changed \subseteq Among(PanesIn(m.window), {m.window}, {})
    BY <1>4, CommandFields, HideWindowReach DEF Do
  <2> QED BY <2>1, <2>2
<1>5. CASE m.kind = "window.restore"
  <2>1. /\ Named(m) = {Window(m.window), Workspace(m.workspace)}
        /\ Reached(m) = {Pane(p) : p \in PanesIn(m.window)}
    BY <1>5 DEF Named, Reached
  <2>2. Changed \subseteq Among(PanesIn(m.window), {m.window}, {m.workspace})
    BY <1>5, CommandFields, ShowWindowReach DEF Do
  <2> QED BY <2>1, <2>2
<1>6. CASE m.kind = "resize"
  <2>1. UNCHANGED vars
    BY <1>6 DEF Do
  <2>2. PanesKept({}) /\ NoPaneMoves({}) /\ WindowsKept({}) /\ WorkspacesKept({})
    BY <2>1, ListsKept DEF vars, paneVars, windowVars, workspaceVars, PanesKept, NoPaneMoves,
       WindowsKept, WorkspacesKept, IInv
  <2>3. Changed \subseteq Among({}, {}, {})
    BY <2>2, ChangedAmong
  <2> QED BY <2>3
<1>7. CASE \/ m.kind \in {"create-tool", "split-tool"}
           \/ m.kind = "move-pane" /\ m.window = paneWindow[m.pane]
  <2>1. \E w, p, t : CreatePane(w, p) \/ SplitPane(t, p) \/ MovePaneWithin(p, t)
    BY <1>7 DEF Do
  <2>2. Changed \subseteq Among({}, {}, {})
    BY <2>1, ArrangePaneReach
  <2> QED BY <2>2
<1>8. CASE m.kind \in {"stash-pane", "close"}
  <2>1. Named(m) = {Pane(m.pane)}
    BY <1>8 DEF Named
  <2>2. StashPane(m.pane) \/ ClosePane(m.pane)
    BY <1>8 DEF Do
  <2>3. Changed \subseteq Among({m.pane}, {}, {})
    BY <1>8, <2>2, CommandFields, PaneCommandReach
  <2> QED BY <2>1, <2>3
<1>9. CASE m.kind = "pane.restore"
  <2>1. {Pane(m.pane), Window(m.window)} \subseteq Named(m)
    BY <1>9 DEF Named
  <2>2. RestorePaneTo(m.pane, m.window, m.target)
    BY <1>9 DEF Do
  <2>3. Changed \subseteq Among({m.pane}, {m.window}, {})
    BY <1>9, <2>2, CommandFields, PaneCommandReach
  <2> QED BY <2>1, <2>3
<1>10. CASE m.kind = "move-pane" /\ m.window # paneWindow[m.pane]
  <2>1. /\ {Pane(m.pane), Window(m.window)} \subseteq Named(m)
        /\ Reached(m) = {Window(paneWindow[m.pane])}
    BY <1>10 DEF Named, Reached
  <2>2. MovePaneAcross(m.pane, m.window, m.target)
    BY <1>10 DEF Do
  <2>3. Changed \subseteq Among({m.pane}, {m.window, paneWindow[m.pane]}, {})
    BY <1>10, <2>2, CommandFields, PaneCommandReach
  <2> QED BY <2>1, <2>3
<1> QED BY <1>1, <1>2, <1>3, <1>4, <1>5, <1>6, <1>7, <1>8, <1>9, <1>10 DEF Do

(* The request under way needs whatever it names, and input names the pane *)
(* and the terminal of its context.                                        *)
RequestInv ==
  ~ Idle =>
    LET m == request.command
        c == request.context
    IN /\ m \in LayoutCommands \cup OtherCommands
       /\ Named(m) \subseteq request.needs
       /\ m.kind = "pty.input" => m.pane = c.pane /\ m.terminal = c.terminal

APIInv ==
  /\ IInv
  /\ RequestInv
  /\ tools \subseteq panes
  /\ terminal \in [PaneID -> 0 .. PaneLimit]
  /\ relay \in {"follows", "rejects", "ended"}

(* A request is admitted with what it names.                               *)
LEMMA AdmitKeepsRequestInv ==
  ASSUME NEW m \in LayoutCommands \cup OtherCommands, NEW c, Admit(m, c)
  PROVE  RequestInv'
<1>1. request' = [command |-> m, context |-> c, needs |-> Named(m) \cup Found(m)]
  BY DEF Admit
<1>2. request'.command = m /\ request'.context = c /\ Named(m) \subseteq request'.needs
  BY <1>1
<1>3. m.kind = "pty.input" => m.pane = c.pane /\ m.terminal = c.terminal
  BY DEF Admit, Wellformed
<1>4. Named(m)' = Named(m)
  BY DEF Named, Pane, Window, Workspace, Resource, TargetPane
<1> QED BY <1>2, <1>3, <1>4 DEF RequestInv

(* A request that goes on is the same, one that has ended claims nothing.  *)
LEMMA RequestFrame ==
  ASSUME RequestInv, UNCHANGED request \/ request' = NoRequest
  PROVE  RequestInv'
<1>1. \A m : Named(m)' = Named(m)
  BY DEF Named, Pane, Window, Workspace, Resource, TargetPane
<1> QED BY <1>1 DEF RequestInv, Idle

(* A temporary editor is one more pane.                                    *)
LEMMA OpenEditorKeepsIInv ==
  ASSUME IInv, NEW w \in WindowID, OpenEditor(w)
  PROVE  IInv' /\ panes \subseteq panes'
<1>1. CreateTransientPane(w, nextPaneID)
  BY DEF OpenEditor
<1>2. nextPaneID \in PaneID
  BY <1>1, NewPane DEF IInv, CreateTransientPane
<1> QED BY <1>1, <1>2, CreateTransientPaneStep DEF CreateTransientPane, AddPane

(* Every step keeps the layout consistent and the request truthful.        *)
LEMMA StepKeepsAPIInv == APIInv /\ [APINext]_<<vars, apiVars>> => APIInv'
<1> SUFFICES ASSUME APIInv, [APINext]_<<vars, apiVars>> PROVE APIInv'
  OBVIOUS
<1>0. IInv /\ RequestInv /\ tools \subseteq panes /\ terminal \in [PaneID -> 0 .. PaneLimit]
  BY DEF APIInv
<1>1. UNCHANGED vars => IInv' /\ panes' = panes
  BY <1>0, NextIInv DEF vars, paneVars
<1>8. relay' \in {"follows", "rejects", "ended"}
  BY DEF APIInv, APINext, Capture, ReleaseContext, Admit, ApplyCommand, ApplyOther, Refuse,
     FailPeer, OtherCommand, OpenEditor, RestartTerminal, Relay, apiVars
<1>2. CASE \/ \E p \in PaneID : Capture(p)
           \/ ReleaseContext
           \/ ApplyOther
           \/ Refuse
           \/ FailPeer
           \/ UNCHANGED <<vars, apiVars>>
  <2>1. UNCHANGED <<vars, tools, terminal>> /\ (UNCHANGED request \/ request' = NoRequest)
    BY <1>2 DEF Capture, ReleaseContext, ApplyOther, Refuse, FailPeer, apiVars
  <2> QED BY <1>0, <1>1, <1>8, <2>1, RequestFrame DEF APIInv
<1>3. CASE \E m \in LayoutCommands \cup OtherCommands, c \in {NoContext, context} : Admit(m, c)
  <2>1. PICK m \in LayoutCommands \cup OtherCommands, c \in {NoContext, context} : Admit(m, c)
    BY <1>3
  <2>2. UNCHANGED <<vars, tools, terminal>>
    BY <2>1 DEF Admit
  <2>3. RequestInv'
    BY <2>1, AdmitKeepsRequestInv
  <2> QED BY <1>0, <1>1, <1>8, <2>2, <2>3 DEF APIInv
<1>4. CASE ApplyCommand
  <2>1. /\ request.command \in LayoutCommands /\ Do(request.command)
        /\ request' = NoRequest /\ tools' \subseteq panes' /\ terminal' = terminal
    BY <1>4 DEF ApplyCommand
  <2> QED BY <1>0, <2>1, DoKeepsIInv, RequestFrame, <1>8 DEF APIInv
<1>5. CASE \E m \in LayoutCommands : OtherCommand(m)
  <2>1. PICK m \in LayoutCommands : OtherCommand(m)
    BY <1>5
  <2>2. Do(m) /\ request' = request /\ tools' \subseteq panes' /\ terminal' = terminal
    BY <2>1 DEF OtherCommand, Others
  <2> QED BY <1>0, <2>2, DoKeepsIInv, RequestFrame, <1>8 DEF APIInv
<1>6. CASE \E w \in WindowID : OpenEditor(w)
  <2>1. PICK w \in WindowID : OpenEditor(w)
    BY <1>6
  <2>2. request' = request /\ tools' = tools /\ terminal' = terminal
    BY <2>1 DEF OpenEditor, Others
  <2> QED BY <1>0, <2>1, <2>2, OpenEditorKeepsIInv, RequestFrame, <1>8 DEF APIInv
<1>7. CASE \E p \in PaneID : RestartTerminal(p)
  <2>1. PICK p \in PaneID : RestartTerminal(p)
    BY <1>7
  <2>2. /\ UNCHANGED <<vars, tools, request>>
        /\ terminal' = [terminal EXCEPT ![p] = PaneLimit]
    BY <2>1 DEF RestartTerminal, Others
  <2>3. terminal' \in [PaneID -> 0 .. PaneLimit]
    BY <1>0, <2>2, CoreAssumption
  <2> QED BY <1>0, <1>1, <2>2, <2>3, RequestFrame, <1>8 DEF APIInv
<1> QED BY <1>2, <1>3, <1>4, <1>5, <1>6, <1>7 DEF APINext

(* What a request names and reaches are panes, windows and workspaces.     *)
LEMMA ReachKinds ==
  ASSUME NEW m \in LayoutCommands \cup OtherCommands, NEW x \in Named(m) \cup Reached(m)
  PROVE  x.kind # "terminal"
<1>1. CASE x \in Reached(m)
  BY <1>1 DEF Reached, Pane, Window, Resource
<1>2. CASE x \in Named(m) /\ m.kind = "label"
  <2>1. x = m.on /\ m \notin LayoutCommands
    BY <1>2 DEF Named, LayoutCommands
  <2>2. m.on \in {Pane(p) : p \in PaneID} \cup {Window(w) : w \in WindowID}
    BY <1>2, <2>1 DEF OtherCommands
  <2> QED BY <2>1, <2>2 DEF Pane, Window, Resource
<1>3. CASE x \in Named(m) /\ m.kind # "label"
  <2>1. m.kind \in {"workspace.create", "workspace.rename", "workspace.delete", "window.create",
                    "window.rename", "window.delete", "window.stash", "window.restore",
                    "resize", "create-tool", "split-tool", "pane.restore", "move-pane",
                    "stash-pane", "close", "tool.state", "attention", "terminal.change",
                    "terminal.new", "pty.input"}
    BY <1>3 DEF LayoutCommands, OtherCommands
  <2> QED BY <1>3, <2>1 DEF Named, TargetPane, Pane, Window, Workspace, Resource
<1> QED BY <1>1, <1>2, <1>3

(* The commands of others and restarts leave the request under way, and a  *)
(* refused one has changed nothing: what it changes it changes when it is  *)
(* applied, within what is allowed then.                                   *)
LEMMA AppliedStep ==
  ASSUME APIInv, [APINext]_<<vars, apiVars>>, ~ Idle, Idle',
         NEW r \in Changed \cup (effect' \ effect)
  PROVE  IF r.kind = "terminal"
         THEN r.id = request.context.terminal /\ r.id = terminal[request.context.pane]
         ELSE Allowed(r, request.context)
<1>0. TypeOK /\ IInv /\ RequestInv
  BY DEF APIInv, IInv
<1>1. ApplyCommand \/ ApplyOther \/ Refuse
  BY DEF APINext, Capture, ReleaseContext, Admit, FailPeer, OtherCommand, OpenEditor,
     RestartTerminal, Others, Idle, apiVars
<1>2. UNCHANGED vars => Changed = {}
  <2> SUFFICES ASSUME UNCHANGED vars PROVE Changed = {}
    OBVIOUS
  <2>1. PanesKept({}) /\ NoPaneMoves({}) /\ WindowsKept({}) /\ WorkspacesKept({})
    BY <1>0, ListsKept DEF vars, paneVars, windowVars, workspaceVars, PanesKept, NoPaneMoves,
       WindowsKept, WorkspacesKept
  <2> QED BY <2>1, ChangedAmong DEF Among
<1> DEFINE m == request.command
           reach == Named(m) \cup Reached(m)
<1>3. \A x \in reach : x.kind # "terminal"
  BY <1>0, ReachKinds DEF RequestInv
<1>4. StillAllowed => \A x \in reach : Allowed(x, request.context)
  BY <1>0 DEF StillAllowed, RequestInv
<1>5. CASE ApplyCommand
  <2>1. m \in LayoutCommands /\ Do(m) /\ StillAllowed /\ effect' = effect
    BY <1>5 DEF ApplyCommand
  <2>2. r \in reach
    BY <1>0, <2>1, DoWithinReach
  <2> QED BY <1>3, <1>4, <2>1, <2>2
<1>6. CASE ApplyOther
  <2>1. /\ UNCHANGED vars /\ StillAllowed
        /\ m.kind = "pty.input" => HoldsTerminal(m.pane, m.terminal)
        /\ effect' = IF m.kind = "pty.input" THEN {Resource("terminal", m.terminal)} ELSE reach
    BY <1>6 DEF ApplyOther
  <2>2. CASE m.kind = "pty.input"
    <3>1. r = Resource("terminal", m.terminal)
      BY <1>2, <2>1, <2>2
    <3>2. m.pane = request.context.pane /\ m.terminal = request.context.terminal
      BY <1>0, <2>2 DEF RequestInv
    <3> QED BY <2>1, <2>2, <3>1, <3>2 DEF HoldsTerminal, Resource
  <2>3. CASE m.kind # "pty.input"
    <3>1. r \in reach
      BY <1>2, <2>1, <2>3
    <3> QED BY <1>3, <1>4, <2>1, <3>1
  <2> QED BY <2>2, <2>3
<1>7. CASE Refuse
  BY <1>2, <1>7 DEF Refuse
<1> QED BY <1>1, <1>5, <1>6, <1>7

(* A list of one or of two identifiers.                                    *)
LEMMA ShortLists ==
  /\ \A S : <<>> \in Seq(S) /\ (\A x \in S : <<x>> \in Seq(S))
            /\ (\A x, y \in S : <<x, y>> \in Seq(S))
  /\ ToSet(<<>>) = {} /\ IsInjective(<<>>)
  /\ \A x : ToSet(<<x>>) = {x} /\ IsInjective(<<x>>)
  /\ \A x, y : ToSet(<<x, y>>) = {x, y} /\ (x # y => IsInjective(<<x, y>>))
<1>1. \A x : DOMAIN <<x>> = {1} /\ <<x>>[1] = x
  OBVIOUS
<1>2. \A x, y : DOMAIN <<x, y>> = {1, 2} /\ <<x, y>>[1] = x /\ <<x, y>>[2] = y
  OBVIOUS
<1>3. \A x, y : ToSet(<<x, y>>) = {x, y}
  BY <1>2 DEF ToSet
<1>4. \A x, y : x # y => IsInjective(<<x, y>>)
  BY <1>2 DEF IsInjective
<1>5. \A x : ToSet(<<x>>) = {x} /\ IsInjective(<<x>>)
  BY <1>1 DEF ToSet, IsInjective
<1>6. ToSet(<<>>) = {} /\ IsInjective(<<>>)
  BY DEF ToSet, IsInjective
<1> QED BY <1>3, <1>4, <1>5, <1>6

(* Where a plugin meets the layout.                                        *)
LEMMA InitAPIInv == APIInit => APIInv
<1> SUFFICES ASSUME APIInit PROVE APIInv
  OBVIOUS
<1>0. /\ nextWorkspaceID = 3 /\ nextWindowID = 3 /\ nextPaneID = 3
      /\ workspaceOrder = <<1, 2>> /\ windows = {1, 2} /\ panes = {1, 2}
      /\ windowName = [w \in WindowID |-> IF w \in 1 .. 2 THEN DefaultName ELSE NoName]
      /\ windowWorkspace = [w \in WindowID |-> IF w \in 1 .. 2 THEN w ELSE 0]
      /\ windowIDs = [ws \in WorkspaceID |->
                        IF ws = 1 \/ (ws = 2 /\ ~ IsStashedWindow(2)) THEN <<ws>> ELSE <<>>]
      /\ transient = {} /\ frontends = {} /\ focus = [f \in Frontends |-> NoFocus]
      /\ tools \subseteq panes
      /\ terminal = [p \in PaneID |-> IF p \in panes \ tools THEN p ELSE 0]
      /\ request = NoRequest /\ relay = "follows"
  BY DEF APIInit
<1>1. PICK second \in {"beside", "apart", "stashed", "hidden"} :
       /\ paneWindow = [p \in PaneID |-> IF p = 1 THEN 1
                           ELSE IF p = 2 THEN IF second \in {"beside", "stashed"} THEN 1 ELSE 2
                           ELSE 0]
       /\ layout = [w \in WindowID |->
                      IF w = 1 THEN IF second = "beside" THEN <<1, 2>> ELSE <<1>>
                      ELSE IF w = 2 /\ paneWindow[2] = 2 THEN <<2>> ELSE <<>>]
       /\ stashedPanes = [p \in PaneID |->
            IF p = 2 /\ second = "stashed"
            THEN [workspace |-> 1, window |-> 1, target |-> 1, side |-> "after"]
            ELSE NoPaneHint]
       /\ stashedWindows = [w \in WindowID |->
            IF w = 2 /\ second = "hidden" THEN [workspace |-> 2, index |-> 0]
            ELSE NoWindowHint]
  BY DEF APIInit
<1>2. PICK n \in Names :
        workspaceName = [ws \in WorkspaceID |-> IF ws = 1 THEN DefaultName
                                                ELSE IF ws = 2 THEN n ELSE NoName]
  BY DEF APIInit
<1>3. /\ 1 \in WorkspaceID /\ 2 \in WorkspaceID
      /\ 1 \in WindowID /\ 2 \in WindowID
      /\ 1 \in PaneID /\ 2 \in PaneID
      /\ 3 \in 1 .. WorkspaceLimit /\ 3 \in 1 .. WindowLimit /\ 3 \in 1 .. PaneLimit
      /\ PaneID \subseteq 0 .. PaneLimit /\ 0 \in 0 .. PaneLimit
  <2>1. WorkspaceLimit \in Nat /\ WindowLimit \in Nat /\ PaneLimit \in Nat
    BY CoreAssumption
  <2>2. WorkspaceLimit >= 3 /\ WindowLimit >= 3 /\ PaneLimit >= 3
    BY APIAssumption
  <2>3. /\ 1 \in WorkspaceID /\ 2 \in WorkspaceID
        /\ 1 \in WindowID /\ 2 \in WindowID
        /\ 1 \in PaneID /\ 2 \in PaneID
    BY <2>1, <2>2 DEF WorkspaceID, WindowID, PaneID
  <2>4. 3 \in 1 .. WorkspaceLimit /\ 3 \in 1 .. WindowLimit /\ 3 \in 1 .. PaneLimit
    BY <2>1, <2>2
  <2>5. PaneID \subseteq 0 .. PaneLimit /\ 0 \in 0 .. PaneLimit
    BY <2>1 DEF PaneID
  <2> QED BY <2>3, <2>4, <2>5
<1>4. /\ NoWindowHint \in WindowHint /\ NoPaneHint \in PaneHint /\ NoFocus \in Focus
      /\ [workspace |-> 2, index |-> 0] \in WindowHint
      /\ [workspace |-> 1, window |-> 1, target |-> 1, side |-> "after"] \in PaneHint
  <2>1. /\ {0, 1, 2} \subseteq 0 .. WorkspaceLimit
        /\ {0, 1, 2} \subseteq 0 .. WindowLimit
        /\ {0, 1, 2} \subseteq 0 .. PaneLimit
    BY <1>3, IdentifierFacts
  <2>2. NoWindowHint \in WindowHint /\ [workspace |-> 2, index |-> 0] \in WindowHint
    BY <2>1 DEF NoWindowHint, WindowHint
  <2>3. NoPaneHint \in PaneHint
    BY <2>1 DEF NoPaneHint, PaneHint, Sides
  <2>4. [workspace |-> 1, window |-> 1, target |-> 1, side |-> "after"] \in PaneHint
    BY <2>1 DEF PaneHint, Sides
  <2>5. NoFocus \in Focus
    BY <2>1 DEF NoFocus, Focus
  <2> QED BY <2>2, <2>3, <2>4, <2>5
<1>5. /\ \A w \in WindowID : IsStashedWindow(w) <=> (w = 2 /\ second = "hidden")
      /\ \A p \in PaneID : IsStashedPane(p) <=> (p = 2 /\ second = "stashed")
  <2>1. ASSUME NEW w \in WindowID
        PROVE  IsStashedWindow(w) <=> (w = 2 /\ second = "hidden")
    BY <1>1 DEF IsStashedWindow, NoWindowHint
  <2>2. ASSUME NEW p \in PaneID
        PROVE  IsStashedPane(p) <=> (p = 2 /\ second = "stashed")
    BY <1>1 DEF IsStashedPane, NoPaneHint
  <2> QED BY <2>1, <2>2
<1>6. /\ paneWindow[1] = 1
      /\ paneWindow[2] = IF second \in {"beside", "stashed"} THEN 1 ELSE 2
  BY <1>1, <1>3
<1>7. /\ \A w \in WindowID : layout[w] \in Seq(PaneID) /\ IsInjective(layout[w])
      /\ \A w \in WindowID \ {1, 2} : layout[w] = <<>> /\ ToSet(layout[w]) = {}
      /\ ToSet(layout[1]) = IF second = "beside" THEN {1, 2} ELSE {1}
      /\ ToSet(layout[2]) = IF second \in {"apart", "hidden"} THEN {2} ELSE {}
  <2>1. /\ layout[1] = (IF second = "beside" THEN <<1, 2>> ELSE <<1>>)
        /\ layout[2] = (IF second \in {"apart", "hidden"} THEN <<2>> ELSE <<>>)
        /\ \A w \in WindowID \ {1, 2} : layout[w] = <<>>
    <3> DEFINE L(w) == IF w = 1 THEN IF second = "beside" THEN <<1, 2>> ELSE <<1>>
                       ELSE IF w = 2 /\ paneWindow[2] = 2 THEN <<2>> ELSE <<>>
    <3>1. \A w \in WindowID : layout[w] = L(w)
      BY <1>1
    <3>2. paneWindow[2] = 2 <=> second \in {"apart", "hidden"}
      BY <1>1, <1>6
    <3>3. layout[1] = L(1) /\ layout[2] = L(2)
      BY <1>3, <3>1
    <3> QED BY <3>1, <3>2, <3>3
  <2>2. ASSUME NEW w \in WindowID
        PROVE  layout[w] \in Seq(PaneID) /\ IsInjective(layout[w])
    <3>1. layout[w] = <<>> \/ layout[w] = <<1>> \/ layout[w] = <<2>> \/ layout[w] = <<1, 2>>
      <4>1. CASE w = 1
        BY <2>1, <4>1
      <4>2. CASE w = 2
        BY <2>1, <4>2
      <4> QED BY <2>1, <4>1, <4>2
    <3>2. /\ <<>> \in Seq(PaneID) /\ IsInjective(<<>>)
          /\ <<1>> \in Seq(PaneID) /\ IsInjective(<<1>>)
          /\ <<2>> \in Seq(PaneID) /\ IsInjective(<<2>>)
          /\ <<1, 2>> \in Seq(PaneID)
      BY <1>3, ShortLists
    <3>3. IsInjective(<<1, 2>>)
      BY ShortLists
    <3> QED BY <3>1, <3>2, <3>3
  <2>3. \A w \in WindowID \ {1, 2} : ToSet(layout[w]) = {}
    BY <2>1, ShortLists
  <2>4. ToSet(layout[1]) = IF second = "beside" THEN {1, 2} ELSE {1}
    BY <2>1, ShortLists
  <2>5. ToSet(layout[2]) = IF second \in {"apart", "hidden"} THEN {2} ELSE {}
    BY <2>1, ShortLists
  <2> QED BY <2>1, <2>2, <2>3, <2>4, <2>5
<1>8. /\ \A ws \in WorkspaceID : windowIDs[ws] \in Seq(WindowID) /\ IsInjective(windowIDs[ws])
      /\ \A ws \in WorkspaceID : ToSet(windowIDs[ws]) =
           IF ws = 1 \/ (ws = 2 /\ second # "hidden") THEN {ws} ELSE {}
      /\ windowIDs = [ws \in WorkspaceID |-> windowIDs[ws]]
  <2>1. ASSUME NEW ws \in WorkspaceID
        PROVE  /\ windowIDs[ws] =
                    IF ws = 1 \/ (ws = 2 /\ second # "hidden") THEN <<ws>> ELSE <<>>
    BY <1>0, <1>3, <1>5
  <2>2. ASSUME NEW ws \in WorkspaceID
        PROVE  /\ windowIDs[ws] \in Seq(WindowID) /\ IsInjective(windowIDs[ws])
               /\ ToSet(windowIDs[ws]) =
                    IF ws = 1 \/ (ws = 2 /\ second # "hidden") THEN {ws} ELSE {}
    BY <1>3, <2>1, ShortLists
  <2> QED BY <1>0, <2>2
<1>9. workspaceOrder = <<1, 2>> /\ Workspaces = {1, 2} /\ IsInjective(workspaceOrder)
      /\ workspaceOrder \in Seq(WorkspaceID)
  <2>1. workspaceOrder = <<1, 2>>
    BY <1>0
  <2>2. ToSet(<<1, 2>>) = {1, 2} /\ IsInjective(<<1, 2>>)
    BY ShortLists
  <2>3. <<1, 2>> \in Seq(WorkspaceID)
    BY <1>3, ShortLists
  <2> QED BY <2>1, <2>2, <2>3 DEF Workspaces
<1>10. TypeOK
  <2>1. /\ workspaceName \in [WorkspaceID -> Names \cup {NoName}]
        /\ windowName \in [WindowID -> Names \cup {NoName}]
        /\ windowWorkspace \in [WindowID -> WorkspaceID \cup {0}]
        /\ paneWindow \in [PaneID -> WindowID \cup {0}]
    <3>1. NoName \in Names \cup {NoName} /\ DefaultName \in Names
      BY CoreAssumption
    <3>2. workspaceName \in [WorkspaceID -> Names \cup {NoName}]
      BY <1>2, <3>1
    <3>3. windowName \in [WindowID -> Names \cup {NoName}]
      BY <1>0, <3>1
    <3>4. windowWorkspace \in [WindowID -> WorkspaceID \cup {0}]
      <4>1. \A w \in 1 .. 2 : w \in WorkspaceID
        BY <1>3
      <4> QED BY <1>0, <4>1
    <3>5. paneWindow \in [PaneID -> WindowID \cup {0}]
      BY <1>1, <1>3
    <3> QED BY <3>2, <3>3, <3>4, <3>5
  <2>2. windowIDs \in [WorkspaceID -> Seq(WindowID)] /\ layout \in [WindowID -> Seq(PaneID)]
    BY <1>1, <1>7, <1>8
  <2>3. /\ stashedWindows \in [WindowID -> WindowHint]
        /\ stashedPanes \in [PaneID -> PaneHint]
        /\ focus \in [Frontends -> Focus]
    BY <1>0, <1>1, <1>4
  <2> QED BY <1>0, <1>3, <1>9, <2>1, <2>2, <2>3 DEF TypeOK
<1>11. OrderInv
  <2>1. workspaceOrder # <<>>
    <3>1. Workspaces # {}
      BY <1>9
    <3> QED BY <3>1, ShortLists DEF Workspaces
  <2>2. \A ws \in Workspaces : ws < nextWorkspaceID
    BY <1>0, <1>9
  <2> QED BY <1>9, <2>1, <2>2 DEF OrderInv
<1>12. WindowInv
  <2>1. windowWorkspace[1] = 1 /\ windowWorkspace[2] = 2
    <3>1. 1 \in 1 .. 2 /\ 2 \in 1 .. 2
      OBVIOUS
    <3> QED BY <1>0, <1>3, <3>1
  <2>2. ASSUME NEW ws \in WorkspaceID
        PROVE  /\ IsInjective(windowIDs[ws])
               /\ \A w \in ToSet(windowIDs[ws]) :
                    /\ ws \in Workspaces /\ w \in windows
                    /\ windowWorkspace[w] = ws /\ ~ IsStashedWindow(w)
    <3>1. IsInjective(windowIDs[ws])
      BY <1>8
    <3>2. ASSUME NEW w \in ToSet(windowIDs[ws])
          PROVE  /\ ws \in Workspaces /\ w \in windows
                 /\ windowWorkspace[w] = ws /\ ~ IsStashedWindow(w)
      <4>1. w = ws /\ (ws = 1 \/ (ws = 2 /\ second # "hidden"))
        BY <1>8
      <4>2. ws \in Workspaces /\ w \in windows /\ windowWorkspace[w] = ws
        BY <1>0, <1>9, <2>1, <4>1
      <4>3. ~ IsStashedWindow(w)
        BY <1>3, <1>5, <4>1
      <4> QED BY <4>2, <4>3
    <3> QED BY <3>1, <3>2
  <2>3. ASSUME NEW w \in windows
        PROVE  /\ w < nextWindowID
               /\ windowWorkspace[w] # 0
               /\ ~ IsStashedWindow(w) => w \in ToSet(windowIDs[windowWorkspace[w]])
    <3>1. w = 1 \/ w = 2
      BY <1>0
    <3>2. w < nextWindowID /\ windowWorkspace[w] = w /\ w \in WorkspaceID /\ w \in WindowID
      BY <1>0, <1>3, <2>1, <3>1
    <3>3. ~ IsStashedWindow(w) => w \in ToSet(windowIDs[w])
      BY <1>5, <1>8, <3>1, <3>2
    <3>4. w # 0
      BY <3>1
    <3> QED BY <3>2, <3>3, <3>4
  <2>4. \A w \in WindowID \ windows : ~ IsStashedWindow(w)
    BY <1>0, <1>5
  <2> QED BY <2>2, <2>3, <2>4 DEF WindowInv
<1>13. LayoutInv /\ StashInv
  <2>1. \A w \in WindowID \ windows : layout[w] = <<>>
    BY <1>0, <1>7
  <2>2. ASSUME NEW w \in WindowID, NEW p \in ToSet(layout[w])
        PROVE  p \in panes /\ paneWindow[p] = w /\ ~ IsStashedPane(p)
    <3>1. w = 1 \/ w = 2
      BY <1>7
    <3>2. p = 1 \/ p = 2
      BY <1>7, <3>1
    <3> QED BY <1>0, <1>3, <1>5, <1>6, <1>7, <3>1, <3>2
  <2>3. ASSUME NEW p \in panes
        PROVE  /\ p < nextPaneID
               /\ paneWindow[p] # 0
               /\ ~ IsStashedPane(p) => p \in ToSet(layout[paneWindow[p]])
               /\ IsStashedPane(p) => /\ stashedPanes[p].window = paneWindow[p]
                                      /\ ~ IsStashedWindow(paneWindow[p])
    <3>1. p = 1 \/ p = 2
      BY <1>0
    <3>2. IsStashedPane(p) => p = 2 /\ second = "stashed" /\ stashedPanes[p].window = 1
      BY <1>1, <1>3, <1>5, <3>1
    <3> QED BY <1>0, <1>3, <1>5, <1>6, <1>7, <3>1, <3>2
  <2>4. \A p \in PaneID \ panes : ~ IsStashedPane(p)
    BY <1>0, <1>5
  <2> QED BY <1>0, <1>7, <2>1, <2>2, <2>3, <2>4 DEF LayoutInv, StashInv
<1>14. FocusOnScreen
  BY <1>0 DEF FocusOnScreen
<1>15. RequestInv /\ tools \subseteq panes /\ terminal \in [PaneID -> 0 .. PaneLimit]
  BY <1>0, <1>3 DEF RequestInv, Idle
<1> QED BY <1>0, <1>10, <1>11, <1>12, <1>13, <1>14, <1>15 DEF IInv, APIInv

(* A plugin lives in a layout that stays consistent.                       *)
THEOREM APITypeCorrect == APISpec => []APITypeOK
<1>1. APIInv => APITypeOK
  BY DEF APIInv, IInv, APITypeOK
<1> QED BY <1>1, InitAPIInv, StepKeepsAPIInv, PTL DEF APISpec

(* A plugin changes only what its grants cover at the moment of the change *)
(* (AppliedWithinGrants), whatever the other frontends did in the meantime.*)
THEOREM PluginsStayWithinGrants == APISpec => AppliedWithinGrants
<1>1. APIInv /\ [APINext]_<<vars, apiVars>> =>
        [ ~ Idle /\ Idle' =>
            \A r \in Changed \cup (effect' \ effect) :
              IF r.kind = "terminal"
              THEN r.id = request.context.terminal /\ r.id = terminal[request.context.pane]
              ELSE Allowed(r, request.context) ]_<<vars, apiVars>>
  BY AppliedStep
<1> QED BY <1>1, InitAPIInv, StepKeepsAPIInv, PTL DEF APISpec, AppliedWithinGrants
=============================================================================
