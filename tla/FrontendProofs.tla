--------------------------- MODULE FrontendProofs ---------------------------
(***************************************************************************)
(* That the text frontend shows what it sends keys to, answers every       *)
(* question once and keeps the user's input in order, for any panes,       *)
(* windows, requests and capacities.  Its three parts share no variable;   *)
(* each has its inductive invariant.                                       *)
(***************************************************************************)
EXTENDS FrontendView, FrontendDialogues, PaneInput, SequenceTheorems, WellFoundedInduction, TLAPS

(* Every non-empty set of natural numbers has a least element.             *)
LEMMA LeastNumber ==
  ASSUME NEW T, T \subseteq Nat, T # {}
  PROVE  \E n \in T : \A m \in T : n <= m
<1> DEFINE R == OpToRel(<, Nat)
<1>1. IsWellFoundedOn(R, Nat)
  BY NatLessThanWellFounded
<1>2. \A m, n \in Nat : m < n => <<m, n>> \in R
  BY DEF OpToRel
<1> HIDE DEF R
<1>3. PICK n \in T : \A m \in T : ~ (<<m, n>> \in R)
  BY <1>1, WFMin
<1>4. \A m \in T : ~ (m < n)
  BY <1>2, <1>3, Zenon
<1> QED
  BY <1>4

-----------------------------------------------------------------------------
(* The view: what may be ahead of the snapshot, and what relayout and      *)
(* syncViews make of the session.                                          *)

\* The session of the frontend.
Uis == [window : Windows \cup {0}, focus : Panes \cup {0}, zoom : BOOLEAN, preview : Panes \cup {0},
        before : Panes \cup {0}, pending : Panes \cup {0}, pendingWindow : Windows \cup {0}]

ViewType ==
  /\ present \in States /\ snapshot \in States /\ events \in Seq(States)
  /\ ui \in Uis /\ small \in BOOLEAN
  /\ placements \subseteq Panes /\ views \subseteq Panes

\* A state whose panes were all created before its next one, and exist when they
\* are stashed.
Tidy(s) ==
  /\ s \in States
  /\ \A p \in Panes : Exists(s, p) => p < s.pane
  /\ \A p \in s.stash : Exists(s, p)
\* A state that may come after s.
Later(s, n) == Tidy(n) /\ s.pane <= n.pane

\* A pane of a state was created before the next pane of Core.
Older(s) == \A p \in Panes : Exists(s, p) => p < present.pane
Fresh == Tidy(present) /\ Older(snapshot) /\ \A i \in DOMAIN events : Older(events[i])

\* The last event brings Core's own state.
Latest == present = IF events = <<>> THEN snapshot ELSE events[Len(events)]

\* Without a preview the screen shows panes of its window.
Placing == ui.preview = 0 => placements \subseteq Layout(snapshot, ui.window)

ViewInv == ViewType /\ Fresh /\ Latest /\ Placing /\ KeysOnScreen /\ SettledView

(* Identifiers are positive numbers.                                       *)
LEMMA PanesAreNumbers == Panes \subseteq Nat /\ 0 \notin Panes /\ Windows \subseteq Nat /\ 0 \notin Windows
  BY ViewAssumption

(* The first of some identifiers is one of them.                           *)
LEMMA FirstOfIn ==
  ASSUME NEW T, T \subseteq Nat, T # {}
  PROVE  FirstOf(T) \in T
<1>1. PICK n \in T : \A m \in T : n <= m
  BY LeastNumber
<1>2. Min(T) \in T
  BY <1>1 DEF Min
<1> QED
  BY <1>2 DEF FirstOf

(* A layout holds panes, and belongs to a window that is shown.            *)
LEMMA LayoutIsPanes ==
  ASSUME NEW s, NEW w
  PROVE  /\ Layout(s, w) \subseteq Panes /\ Layout(s, w) \subseteq Nat
         /\ Layout(s, w) # {} => w \in s.shown
  BY PanesAreNumbers DEF Layout, Existing

(* The focus that relayout chooses is a pane of the window, or, when the   *)
(* window has none, a pane that still exists.                              *)
LEMMA PreferredFocusIn ==
  ASSUME NEW s, NEW w, NEW previous \in SUBSET Panes
  PROVE  /\ PreferredFocus(s, w, previous) \in Panes \cup {0}
         /\ IF Layout(s, w) = {}
            THEN PreferredFocus(s, w, previous) # 0 => Exists(s, PreferredFocus(s, w, previous))
            ELSE PreferredFocus(s, w, previous) \in Layout(s, w)
<1> DEFINE panes == IF Layout(s, w) = {} THEN previous \cap Existing(s) ELSE Layout(s, w)
           f == PreferredFocus(s, w, previous)
<1>1. panes \subseteq Panes /\ panes \subseteq Nat
  BY LayoutIsPanes, PanesAreNumbers
<1>2. \A p \in previous \cap Existing(s) : Exists(s, p)
  BY DEF Existing
<1>3. f = IF panes \ s.idle # {} THEN FirstOf(panes \ s.idle) ELSE FirstOf(panes)
  BY DEF PreferredFocus
<1>4. panes # {} => f \in panes
  <2> HIDE DEF panes, f
  <2>1. CASE panes \ s.idle # {}
    <3>1. panes \ s.idle \subseteq Nat
      BY <1>1
    <3>2. FirstOf(panes \ s.idle) \in panes \ s.idle
      BY <2>1, <3>1, FirstOfIn
    <3> QED
      BY <1>3, <2>1, <3>2
  <2>2. CASE panes \ s.idle = {}
    BY <1>1, <1>3, <2>2, FirstOfIn
  <2> QED
    BY <2>1, <2>2
<1>5. panes = {} => f = 0
  <2> HIDE DEF panes, f
  <2> QED
    BY <1>3 DEF FirstOf
<1>6. f \in Panes \cup {0}
  <2> HIDE DEF panes, f
  <2> QED
    BY <1>1, <1>4, <1>5
<1> QED
  <2>1. CASE Layout(s, w) = {}
    <3>1. panes = previous \cap Existing(s)
      BY <2>1
    <3> HIDE DEF panes, f
    <3>2. f # 0 => Exists(s, f)
      BY <1>2, <1>4, <1>5, <3>1
    <3> QED
      BY <1>6, <2>1, <3>2 DEF f
  <2>2. CASE Layout(s, w) # {}
    <3>1. panes = Layout(s, w)
      BY <2>2
    <3> HIDE DEF panes, f
    <3>2. f \in Layout(s, w)
      BY <1>4, <2>2, <3>1
    <3> QED
      BY <1>6, <2>2, <3>2 DEF f
  <2> QED
    BY <2>1, <2>2

\* What a session is after relayout.
Settled(s, u) ==
  u.preview = 0 /\ u.window \in s.shown =>
    IF Layout(s, u.window) = {} THEN u.focus # 0 => Exists(s, u.focus)
    ELSE u.focus \in Layout(s, u.window)

(* relayout moves the focus into the window and keeps what is shown.       *)
LEMMA RefocusedSettles ==
  ASSUME NEW s \in States, NEW u \in Uis, NEW previous \in SUBSET Panes
  PROVE  /\ Refocused(s, u, previous) \in Uis
         /\ Refocused(s, u, previous).window = u.window
         /\ Refocused(s, u, previous).preview = u.preview
         /\ Settled(s, Refocused(s, u, previous))
<1>1. CASE u.window \notin s.shown \/ u.preview # 0 \/ u.focus \in Layout(s, u.window)
  <2>1. Refocused(s, u, previous) = u
    BY <1>1 DEF Refocused
  <2> QED
    BY <1>1, <2>1 DEF Settled
<1>2. CASE ~ (u.window \notin s.shown \/ u.preview # 0 \/ u.focus \in Layout(s, u.window))
  <2> DEFINE f == PreferredFocus(s, u.window, previous)
  <2>1. Refocused(s, u, previous) = [u EXCEPT !.focus = f, !.zoom = FALSE]
    BY <1>2 DEF Refocused
  <2>2. /\ f \in Panes \cup {0}
        /\ IF Layout(s, u.window) = {} THEN f # 0 => Exists(s, f) ELSE f \in Layout(s, u.window)
    BY PreferredFocusIn
  <2> HIDE DEF f
  <2> QED
    BY <2>1, <2>2 DEF Uis, Settled
<1> QED
  BY <1>1, <1>2

\* What the screen is after relayout and syncViews, of a session that has no
\* preview.
Laid ==
  ui'.preview = 0 =>
    /\ placements' \subseteq Layout(snapshot', ui'.window)
    /\ ui'.focus \in views' /\ Exists(snapshot', ui'.focus) => ui'.focus \in placements'

\* A window without panes has nothing on the screen.
Blank ==
  ui'.preview = 0 /\ ui'.window \in snapshot'.shown /\ Layout(snapshot', ui'.window) = {} =>
    placements' = {} /\ views' = {}

(* After relayout and syncViews the pane with the focus is on the screen,  *)
(* whatever the session was before.                                        *)
LEMMA ScreenLaid ==
  ASSUME NEW v \in Uis, snapshot' \in States, Settled(snapshot', v),
         ui'.preview = v.preview, ui'.window = v.window, ui'.focus = v.focus,
         placements' = Placed(snapshot', v), views' = Viewed(snapshot', v)
  PROVE  /\ placements' \subseteq Panes /\ views' \subseteq Panes
         /\ Laid /\ Blank
<1> DEFINE s == snapshot'
           l == Layout(s, v.window)
<1>1. l \subseteq Panes
  BY LayoutIsPanes
<1>2. views' \subseteq Panes
  BY DEF Viewed, Existing
<1>3. CASE v.window \notin s.shown
  <2>1. l = {}
    BY <1>3, LayoutIsPanes
  <2>2. placements' = {}
    BY <1>3 DEF Placed
  <2>3. views' = {}
    BY <2>1, <2>2 DEF Viewed
  <2> QED
    BY <1>2, <2>2, <2>3 DEF Laid, Blank
<1>4. CASE v.window \in s.shown /\ v.preview # 0
  <2>1. placements' = {v.preview}
    BY <1>4 DEF Placed
  <2> QED
    BY <1>2, <1>4, <2>1 DEF Laid, Blank, Uis
<1>5. CASE v.window \in s.shown /\ v.preview = 0
  <2>1. l # {} => v.focus \in l
    BY <1>5 DEF Settled
  <2>2. placements' = IF (v.zoom \/ small') /\ v.focus # 0 /\ l # {} THEN {v.focus} ELSE l
    BY <1>5 DEF Placed, Filled
  <2> HIDE DEF l
  <2>3. placements' \subseteq l
    BY <2>1, <2>2
  <2>4. views' \subseteq l \cup placements'
    BY DEF Viewed, l
  <2>5. v.focus \in views' => v.focus \in placements'
    BY <2>2, <2>4
  <2>6. ui'.focus \in views' => ui'.focus \in placements'
    BY <2>5
  <2>7. l = {} => placements' = {} /\ views' = {}
    BY <2>3, <2>4
  <2>8. l = Layout(snapshot', ui'.window)
    BY DEF l
  <2> QED
    BY <1>1, <1>2, <2>3, <2>6, <2>7, <2>8 DEF Laid, Blank
<1> QED
  BY <1>3, <1>4, <1>5

\* What a step leaves of Core, its events and the snapshot.
CoreKept ==
  /\ present' \in States /\ snapshot' \in States /\ events' \in Seq(States) /\ small' \in BOOLEAN
  /\ Fresh' /\ Latest'

(* The parts of the invariant together.                                    *)
LEMMA ViewAssembled ==
  ASSUME CoreKept, ui' \in Uis, placements' \subseteq Panes, views' \subseteq Panes, Laid, SettledView'
  PROVE  ViewInv'
<1>1. ViewType'
  BY DEF CoreKept, ViewType
<1>2. Placing'
  BY DEF Laid, Placing
<1>3. KeysOnScreen'
  BY DEF Laid, KeysOnScreen
<1> QED
  BY <1>1, <1>2, <1>3 DEF ViewInv, CoreKept

\* The states of a path, of which the last is the one that Core reaches.
Grown(path) ==
  /\ path \in Seq(States) /\ path # <<>>
  /\ Later(present, path[Len(path)])
  /\ \A i \in DOMAIN path : \A p \in Panes : Exists(path[i], p) => p < path[Len(path)].pane

(* Events are put behind those that wait.                                  *)
LEMMA EventsAppended ==
  ASSUME ViewInv, NEW path, Grown(path),
         present' = path[Len(path)], events' = events \o path, UNCHANGED <<snapshot, small>>
  PROVE  CoreKept /\ events' # <<>>
<1>1. /\ present \in States /\ snapshot \in States /\ events \in Seq(States) /\ small \in BOOLEAN
      /\ Fresh /\ Latest
  BY DEF ViewInv, ViewType
<1>2. /\ path \in Seq(States) /\ path # <<>> /\ Len(path) \in 1 .. Len(path)
  BY DEF Grown
<1>3. path[Len(path)] \in States
  BY <1>2
<1>4. /\ events' \in Seq(States) /\ Len(events') = Len(events) + Len(path)
      /\ \A i \in 1 .. Len(events') :
           events'[i] = IF i <= Len(events) THEN events[i] ELSE path[i - Len(events)]
  BY <1>1, <1>2
<1>5. events' # <<>>
  BY <1>2, <1>4
<1>6. events'[Len(events')] = path[Len(path)]
  BY <1>1, <1>2, <1>4
<1>7. present.pane \in Nat /\ present'.pane \in Nat /\ present.pane <= present'.pane
  BY <1>1, <1>3 DEF States, Grown, Later
<1>8. ASSUME NEW s, Older(s) PROVE \A p \in Panes : Exists(s, p) => p < present'.pane
  BY <1>7, <1>8, PanesAreNumbers DEF Older
<1>9. ASSUME NEW i \in DOMAIN path PROVE \A p \in Panes : Exists(path[i], p) => p < present'.pane
  BY <1>9 DEF Grown
<1>10. Tidy(present)'
  BY DEF Grown, Later, Tidy, Exists
<1>11. Older(snapshot)'
  <2>1. \A p \in Panes : Exists(snapshot, p) => p < present'.pane
    BY <1>1, <1>8 DEF Fresh
  <2> QED
    BY <2>1 DEF Older
<1>12. ASSUME NEW i \in DOMAIN events' PROVE Older(events[i])'
  <2>1. i \in 1 .. Len(events')
    BY <1>4, <1>12
  <2>2. CASE i <= Len(events)
    <3>1. i \in DOMAIN events /\ events'[i] = events[i]
      BY <1>1, <1>4, <2>1, <2>2
    <3>2. \A p \in Panes : Exists(events'[i], p) => p < present'.pane
      BY <1>1, <1>8, <3>1 DEF Fresh
    <3> QED
      BY <3>2 DEF Older
  <2>3. CASE ~ (i <= Len(events))
    <3>1. i - Len(events) \in DOMAIN path /\ events'[i] = path[i - Len(events)]
      BY <1>1, <1>2, <1>4, <2>1, <2>3
    <3>2. \A p \in Panes : Exists(events'[i], p) => p < present'.pane
      BY <1>9, <3>1
    <3> QED
      BY <3>2 DEF Older
  <2> QED
    BY <2>2, <2>3
<1>13. Fresh'
  BY <1>10, <1>11, <1>12 DEF Fresh
<1>14. Latest'
  BY <1>5, <1>6 DEF Latest
<1> QED
  BY <1>1, <1>3, <1>4, <1>5, <1>13, <1>14 DEF CoreKept

(* A call that only sets the focus in Core.                                *)
LEMMA CoreStays ==
  ASSUME ViewInv, present' = present, events' = events, snapshot' = snapshot, small' \in BOOLEAN
  PROVE  CoreKept
<1>1. Fresh' /\ Latest'
  BY DEF ViewInv, Fresh, Latest, Older, Tidy, Exists
<1> QED
  BY <1>1 DEF CoreKept, ViewInv, ViewType

(* The same of the action of the model.                                    *)
LEMMA NoEvents ==
  ASSUME ViewInv, Calls(<<>>)
  PROVE  present' = present /\ events' = events /\ snapshot' = snapshot /\ small' = small /\ CoreKept
<1>1. events \in Seq(States)
  BY DEF ViewInv, ViewType
<1>2. events \o <<>> = events
  BY <1>1
<1>3. present' = present /\ events' = events /\ snapshot' = snapshot /\ small' = small
  BY <1>2 DEF Calls
<1> QED
  BY <1>3, CoreStays DEF ViewInv, ViewType

(* A path that Core takes.                                                 *)
LEMMA CallAppends ==
  ASSUME ViewInv, NEW path, Grown(path), Calls(path)
  PROVE  CoreKept /\ events' # <<>> /\ snapshot' = snapshot
<1>1. path # <<>>
  BY DEF Grown
<1>2. present' = path[Len(path)] /\ events' = events \o path /\ UNCHANGED <<snapshot, small>>
  BY <1>1 DEF Calls
<1> QED
  BY <1>2, EventsAppended

(* While events are on their way nothing is said of the view.              *)
LEMMA OnItsWay ==
  ASSUME events' # <<>>
  PROVE  SettledView'
  BY DEF SettledView

(* A command that is ahead of its events and lays out the screen.          *)
LEMMA AheadShows ==
  ASSUME ViewInv, NEW path, Grown(path), Calls(path), NEW u \in Uis, Show(snapshot, u)
  PROVE  ViewInv'
<1> DEFINE v == Refocused(snapshot, u, placements)
<1>1. CoreKept /\ events' # <<>> /\ snapshot' = snapshot
  BY CallAppends
<1>2. snapshot \in States /\ placements \in SUBSET Panes
  BY DEF ViewInv, ViewType
<1>3. v \in Uis /\ Settled(snapshot, v)
  BY <1>2, RefocusedSettles
<1>4. ui' = v /\ placements' = Placed(snapshot, v) /\ views' = Viewed(snapshot, v)
  BY DEF Show, ShowAfter
<1> HIDE DEF v
<1>5. placements' \subseteq Panes /\ views' \subseteq Panes /\ Laid
  BY <1>1, <1>2, <1>3, <1>4, ScreenLaid
<1> QED
  BY <1>1, <1>3, <1>4, <1>5, OnItsWay, ViewAssembled

(* A command that sets the focus before the screen is laid out: to where   *)
(* it was, to a pane that the snapshot does not have, or to one on screen. *)
LEMMA SetsKeepsScreen ==
  ASSUME ViewInv, NEW u \in Uis, Sets(u), snapshot' = snapshot,
         u.window = ui.window, u.preview = ui.preview,
         u.focus = ui.focus \/ ~ Exists(snapshot, u.focus) \/ u.focus \in placements
  PROVE  ui' \in Uis /\ placements' \subseteq Panes /\ views' \subseteq Panes /\ Laid
<1>1. ui' = u /\ placements' = placements /\ views' = views
  BY DEF Sets
<1>2. ui'.preview = 0 => placements' \subseteq Layout(snapshot', ui'.window)
  BY <1>1 DEF ViewInv, Placing
<1>3. ui'.preview = 0 /\ ui'.focus \in views' /\ Exists(snapshot', ui'.focus) => ui'.focus \in placements'
  BY <1>1 DEF ViewInv, KeysOnScreen
<1> QED
  BY <1>1, <1>2, <1>3 DEF Laid, ViewInv, ViewType

(* The same of a command that is ahead of its events.                      *)
LEMMA AheadSets ==
  ASSUME ViewInv, NEW path, Grown(path), Calls(path), NEW u \in Uis, Sets(u),
         u.window = ui.window, u.preview = ui.preview,
         u.focus = ui.focus \/ ~ Exists(snapshot, u.focus)
  PROVE  ViewInv'
<1>1. CoreKept /\ events' # <<>> /\ snapshot' = snapshot
  BY CallAppends
<1>2. ui' \in Uis /\ placements' \subseteq Panes /\ views' \subseteq Panes /\ Laid
  BY <1>1, SetsKeepsScreen
<1> QED
  BY <1>1, <1>2, OnItsWay, ViewAssembled

\* What may be asked of a session that is laid out when nothing is on its way.
Sound(s, u) ==
  /\ s.shown # {} => u.window \in s.shown
  /\ u.preview # 0 => Exists(s, u.preview)

(* A command that lays out the screen and brings no event.                 *)
LEMMA ShowKeeps ==
  ASSUME ViewInv, present' = present, events' = events, snapshot' = snapshot, small' \in BOOLEAN,
         NEW u \in Uis, Show(snapshot, u), events = <<>> => Sound(snapshot, u)
  PROVE  ViewInv'
<1> DEFINE v == Refocused(snapshot, u, placements)
<1>1. CoreKept
  BY CoreStays
<1>2. snapshot \in States /\ placements \in SUBSET Panes
  BY DEF ViewInv, ViewType
<1>3. v \in Uis /\ Settled(snapshot, v) /\ v.window = u.window /\ v.preview = u.preview
  BY <1>2, RefocusedSettles
<1>4. ui' = v /\ placements' = Placed(snapshot, v) /\ views' = Viewed(snapshot, v)
  BY DEF Show, ShowAfter
<1> HIDE DEF v
<1>5. placements' \subseteq Panes /\ views' \subseteq Panes /\ Laid /\ Blank
  BY <1>2, <1>3, <1>4, ScreenLaid
<1>6. SettledView'
  BY <1>3, <1>4, <1>5 DEF SettledView, Sound, Settled, Blank
<1> QED
  BY <1>1, <1>3, <1>4, <1>5, <1>6, ViewAssembled

(* Nothing waits when the snapshot is Core.                                *)
LEMMA NothingAhead ==
  ASSUME ViewInv, events = <<>>
  PROVE  snapshot = present /\ Sound(snapshot, ui)
  BY DEF ViewInv, Latest, SettledView, Sound

-----------------------------------------------------------------------------
(* What a command makes of a state of Core                                 *)

(* Core is tidy.                                                           *)
LEMMA PresentTidy == ViewInv => Tidy(present)
  BY DEF ViewInv, Fresh

(* The path of one command.                                                *)
LEMMA OneLater ==
  ASSUME NEW n, Later(present, n)
  PROVE  Grown(<<n>>)
  BY DEF Grown, Later, Tidy

(* A pane that is created is the newest one.                               *)
LEMMA PaneAddedLater ==
  ASSUME NEW s, Tidy(s), CanAdd(s), NEW w \in Windows, NEW idle \in BOOLEAN
  PROVE  Later(s, PaneAdded(s, w, idle))
<1> DEFINE n == PaneAdded(s, w, idle)
<1>1. /\ s \in States /\ s.pane \in Panes /\ s.pane \in Nat
      /\ s.idle \cup (IF idle THEN {s.pane} ELSE {}) \in SUBSET Panes
      /\ w \in Windows \cup {0}
  BY DEF Tidy, CanAdd, States
<1>2. /\ n.pane = s.pane + 1 /\ n.stash = s.stash
      /\ n.at = [s.at EXCEPT ![s.pane] = w]
  BY <1>1 DEF PaneAdded, States
<1>6. [s.at EXCEPT ![s.pane] = w] \in [Panes -> Windows \cup {0}]
  BY <1>1 DEF States
<1>7. s.pane + 1 \in Nat /\ s.shown \subseteq Windows /\ s.stash \subseteq Panes /\ s.window \in Nat
  BY <1>1 DEF States
<1>8. n = [shown |-> s.shown, at |-> [s.at EXCEPT ![s.pane] = w], stash |-> s.stash,
           idle |-> s.idle \cup (IF idle THEN {s.pane} ELSE {}), pane |-> s.pane + 1, window |-> s.window]
  <2> DEFINE more == IF idle THEN {s.pane} ELSE {}
  <2>1. n = [s EXCEPT !.at[s.pane] = w, !.idle = @ \cup more, !.pane = @ + 1]
    BY DEF PaneAdded
  <2> HIDE DEF n, more
  <2>2. n = [shown |-> s.shown, at |-> [s.at EXCEPT ![s.pane] = w], stash |-> s.stash,
             idle |-> s.idle \cup more, pane |-> s.pane + 1, window |-> s.window]
    BY <1>1, <2>1 DEF States
  <2> QED
    BY <2>2 DEF more
<1>4. n \in States
  BY <1>1, <1>6, <1>7, <1>8 DEF States
<1> HIDE DEF n
<1>5. ASSUME NEW p \in s.stash PROVE Exists(n, p)
  <2>1. p \in Panes /\ Exists(s, p)
    BY <1>5 DEF Tidy, States
  <2> QED
    BY <1>1, <1>2, <2>1, PanesAreNumbers DEF Exists, States
<1>3. ASSUME NEW p \in Panes, Exists(n, p) PROVE p < n.pane
  <2>1. CASE p = s.pane
    BY <1>1, <1>2, <2>1
  <2>2. CASE p # s.pane
    <3>1. n.at[p] = s.at[p]
      BY <1>1, <1>2, <2>2 DEF States
    <3>2. p < s.pane
      BY <1>3, <3>1 DEF Tidy, Exists
    <3> QED
      BY <1>1, <1>2, <3>2, PanesAreNumbers
  <2> QED
    BY <2>1, <2>2
<1> QED
  BY <1>1, <1>2, <1>3, <1>4, <1>5 DEF Later, Tidy, n

(* What a pane's window is set to, the next pane staying the same.         *)
LEMMA PlaceLater ==
  ASSUME NEW s, Tidy(s), NEW n \in States, n.pane = s.pane,
         \A p \in Panes : Exists(n, p) => Exists(s, p),
         \A p \in n.stash : Exists(n, p)
  PROVE  Later(s, n)
  BY DEF Later, Tidy, States

(* A pane is closed.                                                       *)
LEMMA PaneGoneLater ==
  ASSUME NEW s, Tidy(s), NEW p \in Panes
  PROVE  Later(s, PaneGone(s, p))
<1>1. s \in States
  BY DEF Tidy
<1>2. /\ PaneGone(s, p) \in States /\ PaneGone(s, p).pane = s.pane
      /\ PaneGone(s, p).at = [s.at EXCEPT ![p] = 0]
      /\ PaneGone(s, p).stash = s.stash \ {p}
  BY <1>1 DEF PaneGone, States
<1>3. \A q \in Panes : Exists(PaneGone(s, p), q) => Exists(s, q)
  BY <1>1, <1>2 DEF Exists, States
<1>4. \A q \in PaneGone(s, p).stash : Exists(PaneGone(s, p), q)
  BY <1>1, <1>2 DEF Tidy, Exists, States
<1> QED
  BY <1>2, <1>3, <1>4, PlaceLater

(* A pane moves.                                                           *)
LEMMA PaneAtLater ==
  ASSUME NEW s, Tidy(s), NEW p \in Panes, Exists(s, p), NEW w \in Windows
  PROVE  Later(s, PaneAt(s, p, w))
<1>1. s \in States
  BY DEF Tidy
<1>2. /\ PaneAt(s, p, w) \in States /\ PaneAt(s, p, w).pane = s.pane
      /\ PaneAt(s, p, w).at = [s.at EXCEPT ![p] = w]
      /\ PaneAt(s, p, w).stash = s.stash \ {p}
  BY <1>1 DEF PaneAt, States
<1>3. \A q \in Panes : Exists(PaneAt(s, p, w), q) => Exists(s, q)
  BY <1>1, <1>2 DEF Exists, States
<1>4. \A q \in PaneAt(s, p, w).stash : Exists(PaneAt(s, p, w), q)
  BY <1>1, <1>2 DEF Tidy, Exists, States
<1> QED
  BY <1>2, <1>3, <1>4, PlaceLater

(* The commands that leave every pane in its window.                       *)
LEMMA SamePlacesLater ==
  ASSUME NEW s, Tidy(s), NEW n \in States, n.pane = s.pane, n.at = s.at,
         \A p \in n.stash : Exists(s, p)
  PROVE  Later(s, n)
<1>1. \A q \in Panes : Exists(n, q) => Exists(s, q)
  BY DEF Exists
<1>2. \A q \in n.stash : Exists(n, q)
  BY DEF Exists
<1> QED
  BY <1>1, <1>2, PlaceLater

(* A pane ends, runs again or is stashed.                                  *)
LEMMA PaneEndedLater ==
  ASSUME NEW s, Tidy(s), NEW p \in Panes, Exists(s, p)
  PROVE  Later(s, PaneEnded(s, p)) /\ Later(s, PaneRun(s, p)) /\ Later(s, PaneStashed(s, p))
<1>1. s \in States
  BY DEF Tidy
<1>2. PaneEnded(s, p) \in States /\ PaneEnded(s, p).pane = s.pane /\ PaneEnded(s, p).at = s.at
  BY <1>1 DEF PaneEnded, States
<1>3. PaneRun(s, p) \in States /\ PaneRun(s, p).pane = s.pane /\ PaneRun(s, p).at = s.at
  BY <1>1 DEF PaneRun, States
<1>4. PaneStashed(s, p) \in States /\ PaneStashed(s, p).pane = s.pane /\ PaneStashed(s, p).at = s.at
  BY <1>1 DEF PaneStashed, States
<1>5. \A q \in s.stash : Exists(s, q)
  BY DEF Tidy
<1>6. PaneEnded(s, p).stash = s.stash /\ PaneRun(s, p).stash = s.stash /\ PaneStashed(s, p).stash = s.stash \cup {p}
  BY <1>1 DEF PaneEnded, PaneRun, PaneStashed, States
<1> QED
  BY <1>2, <1>3, <1>4, <1>5, <1>6, SamePlacesLater

(* A window is hidden or shown.                                            *)
LEMMA WindowLater ==
  ASSUME NEW s, Tidy(s), NEW w \in Windows
  PROVE  Later(s, WindowHidden(s, w)) /\ Later(s, WindowShown(s, w))
<1>1. s \in States
  BY DEF Tidy
<1>2. WindowHidden(s, w) \in States /\ WindowHidden(s, w).pane = s.pane /\ WindowHidden(s, w).at = s.at
  BY <1>1 DEF WindowHidden, States
<1>3. s.window + (IF w = s.window THEN 1 ELSE 0) \in Nat
  BY <1>1 DEF States
<1>4. WindowShown(s, w) \in States /\ WindowShown(s, w).pane = s.pane /\ WindowShown(s, w).at = s.at
  BY <1>1, <1>3 DEF WindowShown, States
<1>5. \A q \in s.stash : Exists(s, q)
  BY DEF Tidy
<1>6. WindowHidden(s, w).stash = s.stash /\ WindowShown(s, w).stash = s.stash
  BY <1>1 DEF WindowHidden, WindowShown, States
<1> QED
  BY <1>2, <1>4, <1>5, <1>6, SamePlacesLater

(* Every state that one command leads to comes later.                      *)
LEMMA ReachedLater ==
  ASSUME NEW s, Tidy(s), NEW n \in Reached(s)
  PROVE  Later(s, n)
<1>0. s.shown \subseteq Windows
  BY DEF Tidy, States
<1>1. ASSUME NEW w \in s.shown, CanAdd(s), n = PaneAdded(s, w, FALSE) PROVE Later(s, n)
  BY <1>0, <1>1, PaneAddedLater
<1>2. ASSUME NEW p \in Panes, Exists(s, p), n \in {PaneGone(s, p), PaneEnded(s, p), PaneStashed(s, p)} PROVE Later(s, n)
  BY <1>2, PaneGoneLater, PaneEndedLater
<1>3. ASSUME NEW p \in Panes, Exists(s, p), NEW w \in s.shown, n = PaneAt(s, p, w) PROVE Later(s, n)
  BY <1>0, <1>3, PaneAtLater
<1>4. ASSUME NEW w \in Windows, n \in {WindowHidden(s, w), WindowShown(s, w)} PROVE Later(s, n)
  BY <1>4, WindowLater
<1>5. \A p \in s.stash : Exists(s, p)
  BY DEF Tidy
<1> DEFINE A == IF CanAdd(s) THEN {PaneAdded(s, w, FALSE) : w \in s.shown} ELSE {}
           G == {PaneGone(s, p) : p \in Existing(s)}
           E == {PaneEnded(s, p) : p \in Existing(s)}
           H == {PaneStashed(s, p) : p \in {q \in Panes : Shown(s, q)}}
           M == UNION {{PaneAt(s, p, w) : w \in s.shown} : p \in {q \in Panes : Shown(s, q) \/ q \in s.stash}}
           D == {WindowHidden(s, w) : w \in s.shown}
           S == {WindowShown(s, w) : w \in {v \in Windows : Restorable(s, v) \/ v = s.window}}
<1>6. CASE n \in A
  BY <1>1, <1>6
<1>7. CASE n \in G \/ n \in E
  BY <1>2, <1>7 DEF Existing
<1>8. CASE n \in H
  BY <1>2, <1>8 DEF Shown
<1>9. CASE n \in M
  <2>1. PICK p \in {q \in Panes : Shown(s, q) \/ q \in s.stash} : n \in {PaneAt(s, p, w) : w \in s.shown}
    BY <1>9
  <2>2. Exists(s, p)
    BY <1>5, <2>1 DEF Shown
  <2> QED
    BY <1>3, <2>1, <2>2
<1>10. CASE n \in D
  BY <1>0, <1>4, <1>10
<1>11. CASE n \in S
  BY <1>4, <1>11
<1>12. Reached(s) = A \cup G \cup E \cup H \cup M \cup D \cup S
  BY Zenon DEF Reached
<1> HIDE DEF A, G, E, H, M, D, S
<1> QED
  BY <1>6, <1>7, <1>8, <1>9, <1>10, <1>11, <1>12

-----------------------------------------------------------------------------
(* The commands of the user                                                *)

(* What the invariant says, for the commands.                              *)
LEMMA ViewFacts ==
  ASSUME ViewInv
  PROVE  /\ present \in States /\ snapshot \in States /\ ui \in Uis /\ small \in BOOLEAN
         /\ Tidy(present) /\ Older(snapshot) /\ placements \in SUBSET Panes
         /\ present.shown \subseteq Windows /\ present.stash \subseteq Panes /\ present.idle \subseteq Panes
         /\ snapshot.shown \subseteq Windows /\ snapshot.idle \subseteq Panes
         /\ present.pane \in Nat
  BY DEF ViewInv, ViewType, Fresh, States

(* What the session is after a window is selected.                         *)
LEMMA SelectedIn ==
  ASSUME NEW s \in States, NEW u \in Uis, NEW w \in Windows
  PROVE  /\ Selected(s, u, w) \in Uis
         /\ Selected(s, u, w).window = w /\ Selected(s, u, w).preview = u.preview
<1> DEFINE f == FirstOf(Layout(s, w))
<1>1. f \in Panes \cup {0}
  <2>1. CASE Layout(s, w) = {}
    BY <2>1 DEF FirstOf
  <2>2. CASE Layout(s, w) # {}
    BY <2>2, FirstOfIn, LayoutIsPanes
  <2> QED
    BY <2>1, <2>2
<1>2. Selected(s, u, w) = [u EXCEPT !.window = w, !.focus = f, !.zoom = FALSE]
  BY DEF Selected
<1> HIDE DEF f
<1> QED
  BY <1>1, <1>2 DEF Uis

(* After a pane is focused.                                                *)
LEMMA FocusedIn ==
  ASSUME NEW s \in States, NEW u \in Uis, NEW p \in Panes
  PROVE  /\ Focused(s, u, p) \in Uis
         /\ Focused(s, u, p).window = s.at[p] /\ Focused(s, u, p).preview = u.preview
  BY DEF Focused, Uis, States

(* Without its preview.                                                    *)
LEMMA UnpreviewedIn ==
  ASSUME NEW u \in Uis
  PROVE  Unpreviewed(u) \in Uis /\ Unpreviewed(u).preview = 0
  BY DEF Unpreviewed, Uis

(* A pane that is shown has a place in a window that is.                   *)
LEMMA ShownIsThere ==
  ASSUME NEW s \in States, NEW p \in Panes, Shown(s, p)
  PROVE  Exists(s, p) /\ s.at[p] \in s.shown /\ s.at[p] \in Windows
  BY DEF Shown, IsStashed, Exists, States

(* The pane of a split is not in the snapshot yet.                         *)
LEMMA SplitKeeps ==
  ASSUME ViewInv, NEW idle \in BOOLEAN, Split(idle)
  PROVE  ViewInv'
<1> DEFINE w == IF ui.focus = 0 THEN ui.window ELSE present.at[ui.focus]
           u == [ui EXCEPT !.focus = present.pane]
<1>1. /\ CanAdd(present) /\ w \in Windows /\ Calls(<<PaneAdded(present, w, idle)>>) /\ Sets(u)
  BY ViewFacts DEF Split
<1>2. Grown(<<PaneAdded(present, w, idle)>>)
  BY <1>1, ViewFacts, PaneAddedLater, OneLater
<1>3. u \in Uis /\ u.window = ui.window /\ u.preview = ui.preview /\ u.focus = present.pane
  BY <1>1, ViewFacts DEF Uis, CanAdd
<1>4. ~ Exists(snapshot, present.pane)
  BY <1>1, ViewFacts DEF Older, CanAdd
<1> QED
  BY <1>1, <1>2, <1>3, <1>4, AheadSets

(* A command that at most ends the zoom.                                   *)
LEMMA UnzoomKeeps ==
  ASSUME ViewInv, NEW n, Later(present, n), Calls(<<n>>),
         NEW zoom \in BOOLEAN, Sets([ui EXCEPT !.zoom = zoom])
  PROVE  ViewInv'
<1> DEFINE u == [ui EXCEPT !.zoom = zoom]
<1>1. u \in Uis /\ u.window = ui.window /\ u.preview = ui.preview /\ u.focus = ui.focus
  BY ViewFacts DEF Uis
<1>2. Grown(<<n>>)
  BY OneLater
<1> QED
  BY <1>1, <1>2, AheadSets

(* A pane closes, is stashed, or a window is.                              *)
LEMMA ClosePaneKeeps ==
  ASSUME ViewInv, NEW p \in Panes, ClosePane(p)
  PROVE  ViewInv'
<1>1. Later(present, PaneGone(present, p))
  BY ViewFacts, PaneGoneLater
<1>2. Calls(<<PaneGone(present, p)>>) /\ Sets([ui EXCEPT !.zoom = ui.zoom /\ ui.focus # p])
  BY DEF ClosePane
<1>3. (ui.zoom /\ ui.focus # p) \in BOOLEAN
  OBVIOUS
<1> QED
  BY <1>1, <1>2, <1>3, UnzoomKeeps

(* The same of a pane that is stashed.                                     *)
LEMMA StashPaneKeeps ==
  ASSUME ViewInv, NEW p \in Panes, StashPane(p)
  PROVE  ViewInv'
<1>1. Later(present, PaneStashed(present, p))
  BY ViewFacts, PaneEndedLater DEF StashPane, Shown
<1>2. Calls(<<PaneStashed(present, p)>>) /\ Sets([ui EXCEPT !.zoom = ui.zoom /\ ui.focus # p])
  BY DEF StashPane
<1>3. (ui.zoom /\ ui.focus # p) \in BOOLEAN
  OBVIOUS
<1> QED
  BY <1>1, <1>2, <1>3, UnzoomKeeps

(* And of a window.                                                        *)
LEMMA StashWindowKeeps ==
  ASSUME ViewInv, NEW w \in Windows, StashWindow(w)
  PROVE  ViewInv'
<1>1. Later(present, WindowHidden(present, w))
  BY ViewFacts, WindowLater
<1>2. Calls(<<WindowHidden(present, w)>>) /\ Sets([ui EXCEPT !.zoom = ui.zoom /\ ui.window # w])
  BY DEF StashWindow
<1>3. (ui.zoom /\ ui.window # w) \in BOOLEAN
  OBVIOUS
<1> QED
  BY <1>1, <1>2, <1>3, UnzoomKeeps

(* Core answers with its own window.                                       *)
LEMMA SelectWindowKeeps ==
  ASSUME ViewInv, NEW w \in Windows, SelectWindow(w)
  PROVE  ViewInv'
<1> DEFINE u == Selected(present, ui, w)
<1>1. w \in present.shown /\ Calls(<<>>) /\ Show(snapshot, u)
  BY DEF SelectWindow
<1>2. u \in Uis /\ u.window = w /\ u.preview = ui.preview
  BY ViewFacts, SelectedIn
<1>3. events = <<>> => Sound(snapshot, u)
  BY <1>1, <1>2, NothingAhead DEF Sound
<1> HIDE DEF u
<1> QED
  BY <1>1, <1>2, <1>3, NoEvents, ViewFacts, ShowKeeps

(* A new window is blank until its events arrive.                          *)
LEMMA CreateWindowKeeps ==
  ASSUME ViewInv, NEW split \in BOOLEAN, CreateWindow(split)
  PROVE  ViewInv'
<1> DEFINE w == present.window
           shown == WindowShown(present, w)
           pane == PaneAdded(shown, w, FALSE)
           path == IF split THEN <<shown, pane>> ELSE <<shown>>
           focus == IF split THEN present.pane ELSE 0
           u == [Selected(shown, ui, w) EXCEPT !.focus = focus]
<1>1. /\ w \in Windows /\ (split => CanAdd(present)) /\ Calls(path) /\ ui' = u
      /\ placements' = {} /\ views' = {}
  BY DEF CreateWindow, CanCreate
<1>2. Later(present, shown) /\ shown \in States
  BY <1>1, ViewFacts, WindowLater DEF Later, Tidy
<1>3. Tidy(shown) /\ shown.pane = present.pane
  <2>1. Tidy(shown)
    BY <1>2 DEF Later
  <2>2. shown.pane = present.pane
    BY ViewFacts DEF WindowShown, States
  <2> QED
    BY <2>1, <2>2
<1>4. Grown(path)
  <2>1. CASE ~ split
    BY <1>2, <2>1, OneLater
  <2>2. CASE split
    <3>1. CanAdd(shown)
      BY <1>1, <1>3, <2>2 DEF CanAdd
    <3> HIDE DEF shown
    <3>2. Later(shown, pane)
      BY <1>1, <1>3, <3>1, PaneAddedLater
    <3> HIDE DEF pane
    <3>3. shown.pane \in Nat /\ pane.pane \in Nat /\ present.pane <= pane.pane /\ shown.pane <= pane.pane
      BY <1>3, <3>2, ViewFacts DEF Later, Tidy, States
    <3>4. \A p \in Panes : Exists(shown, p) => p < pane.pane
      BY <1>3, <3>3, PanesAreNumbers DEF Tidy
    <3>5. \A p \in Panes : Exists(pane, p) => p < pane.pane
      BY <3>2 DEF Later, Tidy
    <3>6. Later(present, pane)
      BY <3>2, <3>3 DEF Later
    <3>7. pane \in States
      BY <3>2 DEF Later, Tidy
    <3>8. Grown(<<shown, pane>>)
      BY <1>2, <3>4, <3>5, <3>6, <3>7 DEF Grown
    <3> QED
      BY <2>2, <3>8
  <2> QED
    BY <2>1, <2>2
<1>5. u \in Uis
  <2>1. Selected(shown, ui, w) \in Uis
    BY <1>1, <1>2, ViewFacts, SelectedIn
  <2>2. focus \in Panes \cup {0}
    BY <1>1 DEF CanAdd
  <2> HIDE DEF focus
  <2> QED
    BY <2>1, <2>2 DEF Uis
<1> HIDE DEF path, u
<1>6. CoreKept /\ events' # <<>>
  BY <1>1, <1>4, CallAppends
<1>7. Laid
  BY <1>1 DEF Laid
<1> QED
  BY <1>1, <1>5, <1>6, <1>7, OnItsWay, ViewAssembled

(* A pane moves to another window, and the focus with it.                  *)
LEMMA MovePaneKeeps ==
  ASSUME ViewInv, NEW w \in Windows, MovePane(w)
  PROVE  ViewInv'
<1> DEFINE n == PaneAt(present, ui.focus, w)
<1>1. Shown(present, ui.focus) /\ Calls(<<n>>) /\ Show(snapshot, Selected(n, ui, w))
  BY DEF MovePane
<1>2. ui.focus \in Panes /\ Exists(present, ui.focus)
  BY <1>1, ViewFacts DEF Shown, Exists, Uis
<1>3. Later(present, n)
  BY <1>2, ViewFacts, PaneAtLater
<1>4. Selected(n, ui, w) \in Uis
  BY <1>3, ViewFacts, SelectedIn DEF Later, Tidy
<1> HIDE DEF n
<1> QED
  BY <1>1, <1>3, <1>4, OneLater, AheadShows

(* The restored pane gets the focus by the event.                          *)
LEMMA RestorePaneKeeps ==
  ASSUME ViewInv, NEW p \in Panes, NEW w \in Windows, RestorePane(p, w)
  PROVE  ViewInv'
<1> DEFINE n == PaneAt(present, p, w)
           v == Refocused(snapshot, Selected(n, ui, w), placements)
<1>1. /\ p \in present.stash /\ Calls(<<n>>)
      /\ ui' = [v EXCEPT !.pending = p, !.pendingWindow = w]
      /\ placements' = Placed(snapshot, v) /\ views' = Viewed(snapshot, v)
  BY DEF RestorePane
<1>2. Exists(present, p)
  BY <1>1, ViewFacts DEF Tidy
<1>3. Later(present, n)
  BY <1>2, ViewFacts, PaneAtLater
<1>4. v \in Uis /\ Settled(snapshot, v)
  <2>1. Selected(n, ui, w) \in Uis
    BY <1>3, ViewFacts, SelectedIn DEF Later, Tidy
  <2> QED
    BY <2>1, ViewFacts, RefocusedSettles
<1>5. CoreKept /\ events' # <<>> /\ snapshot' = snapshot
  BY <1>1, <1>3, OneLater, CallAppends
<1> HIDE DEF n, v
<1>6. ui' \in Uis /\ ui'.preview = v.preview /\ ui'.window = v.window /\ ui'.focus = v.focus
  BY <1>1, <1>4 DEF Uis
<1>7. placements' \subseteq Panes /\ views' \subseteq Panes /\ Laid
  BY <1>1, <1>4, <1>5, <1>6, ViewFacts, ScreenLaid
<1> QED
  BY <1>5, <1>6, <1>7, OnItsWay, ViewAssembled

(* A window comes back.                                                    *)
LEMMA RestoreWindowKeeps ==
  ASSUME ViewInv, NEW w \in Windows, RestoreWindow(w)
  PROVE  ViewInv'
<1> DEFINE n == WindowShown(present, w)
<1>1. Calls(<<n>>) /\ Show(snapshot, Selected(n, ui, w))
  BY DEF RestoreWindow
<1>2. Later(present, n)
  BY ViewFacts, WindowLater
<1>3. Selected(n, ui, w) \in Uis
  BY <1>2, ViewFacts, SelectedIn DEF Later, Tidy
<1> HIDE DEF n
<1> QED
  BY <1>1, <1>2, <1>3, OneLater, AheadShows

(* A focus that Core has accepted leads to a pane that is shown.           *)
LEMMA FocusShows ==
  ASSUME ViewInv, NEW p \in Panes, Shown(present, p), Calls(<<>>),
         NEW u \in Uis, u.preview # 0 => u.preview = ui.preview, Show(snapshot, Focused(present, u, p))
  PROVE  ViewInv'
<1> DEFINE v == Focused(present, u, p)
<1>1. v \in Uis /\ v.window = present.at[p] /\ v.preview = u.preview
  BY ViewFacts, FocusedIn
<1>2. present.at[p] \in present.shown
  BY ViewFacts, ShownIsThere
<1> HIDE DEF v
<1>3. events = <<>> => Sound(snapshot, v)
  BY <1>1, <1>2, NothingAhead DEF Sound
<1> QED
  BY <1>1, <1>3, NoEvents, ViewFacts, ShowKeeps DEF v

(* The same of the command, which ends a preview.                          *)
LEMMA FocusPaneKeeps ==
  ASSUME ViewInv, NEW p \in Panes, FocusPane(p)
  PROVE  ViewInv'
<1>1. Unpreviewed(ui) \in Uis /\ Unpreviewed(ui).preview = 0
  BY ViewFacts, UnpreviewedIn
<1> QED
  BY <1>1, FocusShows DEF FocusPane

(* And of a tool that is open already.                                     *)
LEMMA OpenBuiltinToolKeeps ==
  ASSUME ViewInv, NEW p \in Panes, OpenBuiltinTool(p)
  PROVE  ViewInv'
<1>1. ui \in Uis
  BY ViewFacts
<1> QED
  BY <1>1, FocusShows DEF OpenBuiltinTool

(* A program is started in a pane, which is focused when it is shown.      *)
LEMMA RunPaneKeeps ==
  ASSUME ViewInv, NEW p \in Panes, RunPane(p)
  PROVE  ViewInv'
<1> DEFINE n == PaneRun(present, p)
           u == Focused(present, Unpreviewed(ui), p)
<1>1. Calls(<<n>>)
  BY DEF RunPane
<1>2. Grown(<<n>>)
  <2>1. n \in States /\ n.pane = present.pane /\ n.at = present.at /\ n.stash = present.stash
    BY ViewFacts DEF PaneRun, States
  <2>2. \A q \in n.stash : Exists(present, q)
    BY <2>1, ViewFacts DEF Tidy
  <2> HIDE DEF n
  <2> QED
    BY <2>1, <2>2, ViewFacts, SamePlacesLater, OneLater
<1> HIDE DEF n
<1>3. CASE Show(snapshot, u)
  <2>1. u \in Uis
    BY ViewFacts, UnpreviewedIn, FocusedIn
  <2> QED
    BY <1>1, <1>2, <1>3, <2>1, AheadShows
<1>4. CASE Sets(ui)
  BY <1>1, <1>2, <1>4, ViewFacts, AheadSets
<1> QED
  BY <1>3, <1>4 DEF RunPane

(* The focus moves on the screen.                                          *)
LEMMA MoveFocusKeeps ==
  ASSUME ViewInv, NEW p \in Panes, MoveFocus(p)
  PROVE  ViewInv'
<1> DEFINE u == [ui EXCEPT !.focus = p]
<1>1. p \in placements /\ Calls(<<>>) /\ Sets(u)
  BY DEF MoveFocus, Candidate
<1>2. u \in Uis /\ u.window = ui.window /\ u.preview = ui.preview /\ u.focus = p
  BY ViewFacts DEF Uis
<1>3. events' = events /\ snapshot' = snapshot /\ CoreKept
  BY <1>1, NoEvents
<1> HIDE DEF u
<1>4. ui' \in Uis /\ placements' \subseteq Panes /\ views' \subseteq Panes /\ Laid
  BY <1>1, <1>2, <1>3, SetsKeepsScreen
<1>5. ui.preview = 0 => p \in Layout(snapshot, ui.window)
  BY <1>1 DEF ViewInv, Placing
<1>6. SettledView'
  BY <1>1, <1>2, <1>3, <1>5 DEF ViewInv, SettledView, Sets
<1> QED
  BY <1>3, <1>4, <1>6, ViewAssembled

(* The session after a preview.                                            *)
LEMMA ExitedPreviewIn ==
  ASSUME NEW u \in Uis
  PROVE  ExitedPreview(u) \in Uis /\ ExitedPreview(u).preview = 0 /\ ExitedPreview(u).window = u.window
  BY DEF ExitedPreview, Uis

(* The preview ends.                                                       *)
LEMMA ExitPreviewKeeps ==
  ASSUME ViewInv, ExitPreview
  PROVE  ViewInv'
<1> DEFINE u == ExitedPreview(ui)
<1>1. Calls(<<>>) /\ Show(snapshot, u)
  BY DEF ExitPreview
<1>2. u \in Uis /\ u.preview = 0 /\ u.window = ui.window
  BY ViewFacts, ExitedPreviewIn
<1> HIDE DEF u
<1>3. events = <<>> => Sound(snapshot, u)
  BY <1>2, NothingAhead DEF Sound
<1> QED
  BY <1>1, <1>2, <1>3, NoEvents, ViewFacts, ShowKeeps

(* The zoom changes.                                                       *)
LEMMA SetZoomKeeps ==
  ASSUME ViewInv, SetZoom
  PROVE  ViewInv'
<1> DEFINE u == [ui EXCEPT !.zoom = ~ ui.zoom]
<1>1. Calls(<<>>) /\ Show(snapshot, u)
  BY DEF SetZoom
<1>2. u \in Uis /\ u.preview = ui.preview /\ u.window = ui.window
  BY ViewFacts DEF Uis
<1> HIDE DEF u
<1>3. events = <<>> => Sound(snapshot, u)
  BY <1>2, NothingAhead DEF Sound
<1> QED
  BY <1>1, <1>2, <1>3, NoEvents, ViewFacts, ShowKeeps

(* A stashed pane is shown.                                                *)
LEMMA PreviewPaneKeeps ==
  ASSUME ViewInv, NEW p \in Panes, PreviewPane(p)
  PROVE  ViewInv'
<1> DEFINE b == IF ui.preview = 0 THEN ui.focus ELSE ui.before
           u == [ui EXCEPT !.before = b, !.preview = p, !.focus = p, !.zoom = FALSE]
<1>1. Exists(snapshot, p) /\ Calls(<<>>) /\ Show(snapshot, u)
  BY DEF PreviewPane, IsStashed
<1>2. b \in Panes \cup {0}
  BY ViewFacts DEF Uis
<1> HIDE DEF b
<1>3. u \in Uis /\ u.preview = p /\ u.window = ui.window
  BY <1>2, ViewFacts DEF Uis
<1> HIDE DEF u
<1>4. events = <<>> => Sound(snapshot, u)
  BY <1>1, <1>3, NothingAhead DEF Sound
<1> QED
  BY <1>1, <1>3, <1>4, NoEvents, ViewFacts, ShowKeeps

-----------------------------------------------------------------------------
(* The loop *)

(* An event brings the snapshot one state nearer to Core.                  *)
LEMMA EventTakes ==
  ASSUME ViewInv, events # <<>>, snapshot' = Head(events), events' = Tail(events),
         UNCHANGED <<present, small>>
  PROVE  CoreKept
<1>1. /\ present \in States /\ events \in Seq(States) /\ small \in BOOLEAN /\ Fresh /\ Latest
  BY DEF ViewInv, ViewType
<1>2. /\ Len(events) \in Nat \ {0} /\ 1 \in DOMAIN events /\ snapshot' = events[1] /\ snapshot' \in States
  BY <1>1
<1>3. /\ events' \in Seq(States) /\ Len(events') = Len(events) - 1
      /\ \A i \in DOMAIN events' : i \in 1 .. Len(events') /\ i + 1 \in DOMAIN events /\ events'[i] = events[i + 1]
  BY <1>1, <1>2
<1>4. ASSUME NEW s, Older(s) PROVE \A q \in Panes : Exists(s, q) => q < present'.pane
  BY <1>4 DEF Older
<1>5. Older(snapshot)'
  <2>1. \A q \in Panes : Exists(snapshot', q) => q < present'.pane
    BY <1>1, <1>2, <1>4 DEF Fresh
  <2> QED
    BY <2>1 DEF Older
<1>6. ASSUME NEW i \in DOMAIN events' PROVE Older(events[i])'
  <2>1. \A q \in Panes : Exists(events'[i], q) => q < present'.pane
    BY <1>1, <1>3, <1>4, <1>6 DEF Fresh
  <2> QED
    BY <2>1 DEF Older
<1>7. Tidy(present)'
  BY <1>1 DEF Fresh, Tidy, Exists
<1>8. Fresh'
  BY <1>5, <1>6, <1>7 DEF Fresh
<1>9. Latest'
  <2>1. present' = events[Len(events)]
    BY <1>1 DEF Latest
  <2>2. CASE Len(events) = 1
    <3>1. events' = <<>>
      BY <1>3, <2>2
    <3> QED
      BY <1>2, <2>1, <2>2, <3>1 DEF Latest
  <2>3. CASE Len(events) # 1
    <3>1. Len(events') \in DOMAIN events' /\ events' # <<>>
      BY <1>2, <1>3, <2>3
    <3>2. events'[Len(events')] = events[Len(events)]
      BY <1>2, <1>3, <3>1
    <3> QED
      BY <2>1, <3>1, <3>2 DEF Latest
  <2> QED
    BY <2>2, <2>3
<1> QED
  BY <1>1, <1>2, <1>3, <1>8, <1>9 DEF CoreKept

(* The session in its first window.                                        *)
LEMMA InitialWindowIn ==
  ASSUME NEW s \in States, NEW u \in Uis
  PROVE  /\ InitialWindow(s, u) \in Uis /\ InitialWindow(s, u).preview = u.preview
         /\ InitialWindow(s, u).focus = 0
         /\ s.shown # {} => InitialWindow(s, u).window \in s.shown
<1> DEFINE w == FirstOf(s.shown)
<1>1. s.shown \subseteq Nat /\ s.shown \subseteq Windows
  BY PanesAreNumbers DEF States
<1>2. s.shown # {} => w \in s.shown
  BY <1>1, FirstOfIn
<1>3. w \in Windows \cup {0}
  BY <1>1, <1>2 DEF FirstOf
<1>4. InitialWindow(s, u) = [u EXCEPT !.window = w, !.focus = 0, !.zoom = FALSE]
  BY DEF InitialWindow
<1> HIDE DEF w
<1> QED
  BY <1>2, <1>3, <1>4 DEF Uis

(* Whatever the event brings, the view is on a window and a pane that are there. *)
LEMMA ApplyEventKeeps ==
  ASSUME ViewInv, ApplyEvent
  PROVE  ViewInv'
<1> DEFINE s == Head(events)
           exits == ui.preview # 0 /\ ~ Exists(s, ui.preview)
           u == IF exits THEN Refocused(s, ExitedPreview(ui), placements) ELSE ui
           v == IF u.window \notin s.shown THEN InitialWindow(s, u) ELSE u
           w == IF v.pending # 0 /\ v.window = v.pendingWindow /\ v.pending \in Layout(s, v.window)
                THEN [v EXCEPT !.focus = v.pending, !.pending = 0, !.pendingWindow = 0] ELSE v
           previous == IF exits THEN Placed(s, u) ELSE placements
<1>1. /\ events # <<>> /\ snapshot' = s /\ events' = Tail(events) /\ UNCHANGED <<present, small>>
      /\ ShowAfter(previous, s, w)
  BY DEF ApplyEvent
<1>2. CoreKept
  BY <1>1, EventTakes
<1>3. s \in States
  BY <1>1, <1>2 DEF CoreKept
<1> HIDE DEF s
<1>4. u \in Uis /\ (u.preview # 0 => Exists(s, u.preview))
  <2>1. CASE ui.preview # 0 /\ ~ Exists(s, ui.preview)
    <3>1. ExitedPreview(ui) \in Uis /\ ExitedPreview(ui).preview = 0
      BY ViewFacts, ExitedPreviewIn
    <3>2. /\ Refocused(s, ExitedPreview(ui), placements) \in Uis
          /\ Refocused(s, ExitedPreview(ui), placements).preview = 0
      BY <1>3, <3>1, ViewFacts, RefocusedSettles
    <3> QED
      BY <2>1, <3>2
  <2>2. CASE ~ (ui.preview # 0 /\ ~ Exists(s, ui.preview))
    BY <2>2, ViewFacts
  <2> QED
    BY <2>1, <2>2
<1> HIDE DEF u
<1>11. previous \in SUBSET Panes
  <2>1. Placed(s, u) \subseteq Panes
    <3>1. Layout(s, u.window) \subseteq Panes /\ u.preview \in Panes \cup {0} /\ u.focus \in Panes \cup {0}
      BY <1>4, LayoutIsPanes DEF Uis
    <3> QED
      BY <3>1 DEF Placed, Filled
  <2> QED
    BY <2>1, ViewFacts
<1> HIDE DEF previous
<1>5. v \in Uis /\ v.preview = u.preview /\ (s.shown # {} => v.window \in s.shown)
  BY <1>3, <1>4, InitialWindowIn
<1> HIDE DEF v
<1>6. w \in Uis /\ w.preview = v.preview /\ w.window = v.window
  BY <1>5 DEF Uis
<1> HIDE DEF w
<1> DEFINE x == Refocused(s, w, previous)
<1>7. x \in Uis /\ Settled(s, x) /\ x.window = w.window /\ x.preview = w.preview
  BY <1>3, <1>6, <1>11, RefocusedSettles
<1>8. ui' = x /\ placements' = Placed(s, x) /\ views' = Viewed(s, x)
  BY <1>1 DEF ShowAfter
<1> HIDE DEF x
<1>9. placements' \subseteq Panes /\ views' \subseteq Panes /\ Laid /\ Blank
  BY <1>1, <1>3, <1>7, <1>8, ScreenLaid
<1>10. SettledView'
  BY <1>1, <1>4, <1>5, <1>6, <1>7, <1>8, <1>9 DEF SettledView, Settled, Blank
<1> QED
  BY <1>2, <1>7, <1>8, <1>9, <1>10, ViewAssembled

(* The size of the terminal changes.                                       *)
LEMMA ResizeKeeps ==
  ASSUME ViewInv, Resize
  PROVE  ViewInv'
<1>1. UNCHANGED <<present, events, snapshot>> /\ small' \in BOOLEAN /\ Show(snapshot, ui)
  BY DEF Resize
<1> QED
  BY <1>1, ViewFacts, NothingAhead, ShowKeeps

(* Somebody else's command is seen when its event arrives.                 *)
LEMMA OthersKeeps ==
  ASSUME ViewInv, Others
  PROVE  ViewInv'
<1>1. PICK n \in Reached(present) : present' = n /\ events' = Append(events, n)
  BY DEF Others
<1>2. UNCHANGED <<snapshot, ui, small, placements, views>>
  BY DEF Others
<1>3. Grown(<<n>>)
  BY ViewFacts, ReachedLater, OneLater
<1>4. events' = events \o <<n>>
  <2>1. events \in Seq(States) /\ n \in States
    BY <1>3 DEF ViewInv, ViewType, Grown
  <2> QED
    BY <1>1, <2>1, AppendIsConcat
<1>5. CoreKept /\ events' # <<>>
  BY <1>1, <1>2, <1>3, <1>4, EventsAppended
<1>6. Laid
  BY <1>2 DEF ViewInv, Placing, KeysOnScreen, Laid
<1>7. ui' \in Uis /\ placements' \subseteq Panes /\ views' \subseteq Panes
  BY <1>2 DEF ViewInv, ViewType
<1> QED
  BY <1>5, <1>6, <1>7, OnItsWay, ViewAssembled

(* Every step of the loop and of Core keeps the invariant.                 *)
LEMMA StepKeepsViewInv == ViewInv /\ [ViewNext]_viewVars => ViewInv'
<1> SUFFICES ASSUME ViewInv, [ViewNext]_viewVars PROVE ViewInv'
  OBVIOUS
<1>1. CASE PaneCommands
  BY <1>1, SplitKeeps, SetZoomKeeps, MoveFocusKeeps, FocusPaneKeeps, ClosePaneKeeps, RunPaneKeeps
  DEF PaneCommands, SplitTerminal
<1>2. CASE WindowCommands
  BY <1>2, CreateWindowKeeps, SelectWindowKeeps, MovePaneKeeps DEF WindowCommands
<1>3. CASE StashCommands
  BY <1>3, StashPaneKeeps, StashWindowKeeps, RestoreWindowKeeps, RestorePaneKeeps DEF StashCommands
<1>4. CASE ToolCommands
  BY <1>4, SplitKeeps, ExitPreviewKeeps, OpenBuiltinToolKeeps, PreviewPaneKeeps, FocusPaneKeeps
  DEF ToolCommands, CreateTool, GoTo
<1>5. CASE UNCHANGED viewVars \/ EndLoop
  <2> USE DEF EndLoop, coreVars
  <2>1. CoreKept
    BY <1>5, CoreStays DEF viewVars, ViewInv, ViewType
  <2>2. Laid
    BY <1>5 DEF viewVars, ViewInv, Placing, KeysOnScreen, Laid
  <2>3. SettledView'
    BY <1>5 DEF viewVars, ViewInv, SettledView
  <2> QED
    BY <1>5, <2>1, <2>2, <2>3, ViewAssembled DEF viewVars, ViewInv, ViewType
<1> QED
  BY <1>1, <1>2, <1>3, <1>4, <1>5, OthersKeeps, ApplyEventKeeps, ResizeKeeps DEF ViewNext, ExecutePrompt

(* The first screen shows the first window.                                *)
LEMMA InitViewInv == ViewInit => ViewInv
<1> SUFFICES ASSUME ViewInit PROVE ViewInv
  OBVIOUS
<1> DEFINE z == [window |-> 0, focus |-> 0, zoom |-> FALSE, preview |-> 0, before |-> 0, pending |-> 0,
                 pendingWindow |-> 0]
           u == InitialWindow(present, z)
           v == Refocused(present, u, {})
<1>1. /\ present \in FirstStates /\ events = <<>> /\ snapshot = present /\ small \in BOOLEAN
      /\ ui = v /\ placements = (IF small /\ v.focus # 0 THEN {v.focus} ELSE Layout(present, v.window))
      /\ views = Layout(present, v.window)
  BY DEF ViewInit
<1>2. Tidy(present) /\ Older(present) /\ present \in States
  <2>1. present \in States /\ present.stash \subseteq Existing(present) /\ \A p \in Existing(present) : p < present.pane
    BY <1>1, FirstStatesAssumption
  <2> QED
    BY <2>1 DEF Tidy, Older, Existing
<1>3. z \in Uis /\ z.preview = 0
  BY DEF Uis
<1> HIDE DEF z
<1>4. u \in Uis /\ u.preview = 0 /\ u.focus = 0 /\ (present.shown # {} => u.window \in present.shown)
  BY <1>2, <1>3, InitialWindowIn
<1> HIDE DEF u
<1>5. v \in Uis /\ Settled(present, v) /\ v.window = u.window /\ v.preview = 0
  BY <1>2, <1>4, RefocusedSettles
<1>12. v.focus # 0 => v.window \in present.shown
  BY <1>4, <1>5 DEF Refocused
<1> HIDE DEF v
<1> DEFINE l == Layout(present, v.window)
<1>6. l \subseteq Panes /\ (l # {} => v.window \in present.shown)
  BY LayoutIsPanes
<1>13. v.window \in present.shown /\ l = {} => v.focus = 0
  <2>1. PreferredFocus(present, u.window, {}) = 0 \/ l # {}
    <3>1. {} \cap Existing(present) = {} /\ {} \ present.idle = {} /\ v.window = u.window
      BY <1>5
    <3> QED
      BY <3>1 DEF PreferredFocus, FirstOf
  <2> QED
    BY <1>4, <1>5, <2>1 DEF v, Refocused, Uis
<1> HIDE DEF l
<1>7. v.focus # 0 /\ v.window \in present.shown => v.focus \in l
  BY <1>5, <1>13 DEF Settled, l
<1>8. KeysOnScreen
  BY <1>1 DEF KeysOnScreen
<1>9. SettledView
  <2>1. l = {} /\ v.window \in present.shown => placements = {} /\ views = {}
    BY <1>1, <1>13 DEF l
  <2> QED
    BY <1>1, <1>4, <1>5, <2>1 DEF SettledView, Settled, l
<1>10. ViewType /\ Fresh /\ Latest
  BY <1>1, <1>2, <1>5, <1>6 DEF ViewType, Fresh, Latest, Uis, l
<1>11. Placing
  BY <1>1, <1>7, <1>12 DEF Placing, l
<1> QED
  BY <1>8, <1>9, <1>10, <1>11 DEF ViewInv

(* What the session, the snapshot and the events between it and Core are   *)
(* to each other holds in every state.                                     *)
THEOREM ViewInvariantHolds == ViewSpec => []ViewInv
  BY InitViewInv, StepKeepsViewInv, PTL DEF ViewSpec

(* Keys go to a pane that is on the screen, or to none, unless a stashed   *)
(* pane is previewed, however far the commands are ahead of the events     *)
(* (sendInput, relayout, syncViews).                                       *)
THEOREM KeysStayOnScreen == ViewSpec => []KeysOnScreen
<1>1. ViewInv => KeysOnScreen
  BY DEF ViewInv
<1> QED
  BY <1>1, ViewInvariantHolds, PTL

(* Once the events have arrived the view is on a window and a pane that    *)
(* are there, or shows nothing of a window that has no pane, whatever has  *)
(* happened in between (loop, relayout, syncViews).                        *)
THEOREM ViewSettles == ViewSpec => []SettledView
<1>1. ViewInv => SettledView
  BY DEF ViewInv
<1> QED
  BY <1>1, ViewInvariantHolds, PTL

-----------------------------------------------------------------------------
(* The dialogues: every request waits in one place until it is answered.   *)

Tags(s) == {s[i].of : i \in DOMAIN s}
Members(s) == {s[i] : i \in DOMAIN s}

\* Nothing is twice in a queue.
TagsApart(s) == \A i, j \in DOMAIN s : s[i].of = s[j].of => i = j
Apart(s) == \A i, j \in DOMAIN s : s[i] = s[j] => i = j

Modals == {Normal} \cup [mode : {"prompt", "confirm"}, owner : Dialogues \cup {User}]
          \cup [mode : {"confirm"}, owner : Clips]
Editors == [of : Dialogues \cup {None}, open : BOOLEAN, finished : BOOLEAN, seen : BOOLEAN,
            calling : BOOLEAN, pane : {"coming", "running", "exited", "gone"}, shown : BOOLEAN]

DialogueType ==
  /\ modal \in Modals /\ active \in Dialogues \cup {None} /\ editor \in Editors
  /\ dialogues \in Seq([of : Dialogues, kind : Kinds])
  /\ controls \in Seq(Navigations) /\ held \in Seq(Clips) /\ clips \subseteq Clips
  /\ asked \subseteq Requests /\ answers \in [Requests -> {0, 1}]

QueuesApart == TagsApart(dialogues) /\ Apart(controls) /\ Apart(held)

\* A request is in one of the places, and asked for by its editor or by the
\* question on the screen when it is active.
Places ==
  /\ active \notin Tags(dialogues)
  /\ Members(held) \cap clips = {}
  /\ modal.owner \notin Members(held) /\ modal.owner \notin clips
  /\ modal.owner \in Dialogues => active = modal.owner /\ ~ HasEditor
  /\ active # None => HasEditor \/ modal.owner = active
  /\ HasEditor => editor.of = active
  /\ editor.calling => HasEditor

\* What waits is not answered, and what was asked waits or is answered.
Books ==
  /\ \A x \in Waiting \cap Requests : answers[x] = 0
  /\ asked = {x \in Requests : answers[x] = 1 \/ x \in Waiting}

DialogueInv == DialogueType /\ QueuesApart /\ Places /\ Books

(* Requests are of one kind, and are neither None nor the user's own.      *)
LEMMA KindsApart ==
  /\ Dialogues \subseteq Requests /\ Clips \subseteq Requests /\ Navigations \subseteq Requests
  /\ Dialogues \cap Clips = {} /\ Dialogues \cap Navigations = {} /\ Clips \cap Navigations = {}
  /\ None \notin Requests /\ User \notin Requests /\ None # User /\ Asks \subseteq Clips
  BY DialogueAssumption DEF Requests

(* What may be on the screen.                                              *)
LEMMA ModalFacts ==
  ASSUME NEW m \in Modals
  PROVE  /\ m.owner \in Dialogues \cup Clips \cup {None, User}
         /\ m # Normal => m.owner # None
         /\ m.owner \in Clips => m.mode = "confirm"
         /\ Normal.owner = None
  BY KindsApart DEF Modals, Normal

(* The places together.                                                    *)
LEMMA WaitingIs ==
  /\ Waiting = clips \cup {active, modal.owner} \cup Tags(dialogues) \cup Members(controls) \cup Members(held)
  /\ Waiting' = clips' \cup {active', modal'.owner} \cup Tags(dialogues') \cup Members(controls') \cup Members(held')
  BY Zenon DEF Waiting, Tags, Members

(* What the queues hold.                                                   *)
LEMMA MembersIn ==
  ASSUME NEW S, NEW s \in Seq(S)
  PROVE  Members(s) \subseteq S
  BY DEF Members

(* The dialogues of a queue.                                               *)
LEMMA TagsIn ==
  ASSUME NEW D, NEW K, NEW s \in Seq([of : D, kind : K])
  PROVE  Tags(s) \subseteq D
<1> DEFINE S == [of : D, kind : K]
<1>0. s \in Seq(S)
  OBVIOUS
<1> HIDE DEF S
<1>1. \A i \in DOMAIN s : s[i] \in S
  BY <1>0
<1>2. \A i \in DOMAIN s : s[i].of \in D
  BY <1>1 DEF S
<1> QED
  BY <1>2 DEF Tags

(* A queue with one more element.                                          *)
LEMMA PutLast ==
  ASSUME NEW S, NEW s \in Seq(S), NEW e \in S
  PROVE  /\ Append(s, e) \in Seq(S)
         /\ Members(Append(s, e)) = Members(s) \cup {e}
         /\ Apart(s) /\ e \notin Members(s) => Apart(Append(s, e))
<1> DEFINE t == Append(s, e)
<1>1. /\ t \in Seq(S) /\ Len(s) \in Nat /\ DOMAIN s = 1 .. Len(s) /\ DOMAIN t = 1 .. Len(s) + 1
      /\ \A i \in 1 .. Len(s) : t[i] = s[i]
      /\ t[Len(s) + 1] = e
  OBVIOUS
<1> HIDE DEF t
<1>2. Members(t) = Members(s) \cup {e}
  <2>1. ASSUME NEW x \in Members(t) PROVE x \in Members(s) \cup {e}
    BY <1>1, <2>1 DEF Members
  <2>2. ASSUME NEW x \in Members(s) PROVE x \in Members(t)
    BY <1>1, <2>2 DEF Members
  <2>3. e \in Members(t)
    BY <1>1 DEF Members
  <2> QED
    BY <2>1, <2>2, <2>3
<1>3. ASSUME Apart(s), e \notin Members(s) PROVE Apart(t)
  BY <1>1, <1>3 DEF Apart, Members
<1> QED
  BY <1>1, <1>2, <1>3 DEF t

(* The same for the dialogues, which are told apart by who asks.           *)
LEMMA PutLastTagged ==
  ASSUME NEW D, NEW K, NEW s \in Seq([of : D, kind : K]), NEW e \in [of : D, kind : K]
  PROVE  /\ Append(s, e) \in Seq([of : D, kind : K])
         /\ Tags(Append(s, e)) = Tags(s) \cup {e.of}
         /\ TagsApart(s) /\ e.of \notin Tags(s) => TagsApart(Append(s, e))
<1> DEFINE t == Append(s, e)
<1>1. /\ t \in Seq([of : D, kind : K])
      /\ Len(s) \in Nat /\ DOMAIN s = 1 .. Len(s) /\ DOMAIN t = 1 .. Len(s) + 1
      /\ \A i \in 1 .. Len(s) : t[i] = s[i]
      /\ t[Len(s) + 1] = e
  OBVIOUS
<1> HIDE DEF t
<1>2. Tags(t) = Tags(s) \cup {e.of}
  <2>1. ASSUME NEW x \in Tags(t) PROVE x \in Tags(s) \cup {e.of}
    BY <1>1, <2>1 DEF Tags
  <2>2. ASSUME NEW x \in Tags(s) PROVE x \in Tags(t)
    BY <1>1, <2>2 DEF Tags
  <2>3. e.of \in Tags(t)
    BY <1>1 DEF Tags
  <2> QED
    BY <2>1, <2>2, <2>3
<1>3. ASSUME TagsApart(s), e.of \notin Tags(s) PROVE TagsApart(t)
  BY <1>1, <1>3 DEF TagsApart, Tags
<1> QED
  BY <1>1, <1>2, <1>3 DEF t

(* The queue behind its first n elements.                                  *)
LEMMA TakeFirst ==
  ASSUME NEW S, NEW s \in Seq(S), NEW n \in 0 .. Len(s)
  PROVE  /\ SubSeq(s, n + 1, Len(s)) \in Seq(S)
         /\ Members(SubSeq(s, n + 1, Len(s))) = {s[i] : i \in n + 1 .. Len(s)}
         /\ Apart(s) => Apart(SubSeq(s, n + 1, Len(s)))
<1> DEFINE t == SubSeq(s, n + 1, Len(s))
<1>1. /\ Len(s) \in Nat /\ DOMAIN s = 1 .. Len(s) /\ n \in Nat
      /\ \A i \in 1 .. Len(s) : s[i] \in S
  OBVIOUS
<1> DEFINE m == n + 1
           l == Len(s)
<1>8. m \in Int /\ l \in Int /\ \A i \in m .. l : s[i] \in S
  BY <1>1
<1> HIDE DEF m, l
<1>9. /\ SubSeq(s, m, l) \in Seq(S)
      /\ Len(SubSeq(s, m, l)) = IF m <= l THEN l - m + 1 ELSE 0
      /\ \A i \in 1 .. l - m + 1 : SubSeq(s, m, l)[i] = s[m + i - 1]
  BY <1>8, SubSeqProperties
<1> HIDE DEF t
<1>10. t = SubSeq(s, m, l)
  BY DEF t, m, l
<1>11. m = n + 1 /\ l = Len(s) /\ n <= l
  BY <1>1 DEF m, l
<1>2. t \in Seq(S) /\ Len(t) = Len(s) - n
  <2>1. t \in Seq(S) /\ Len(t) = IF m <= l THEN l - m + 1 ELSE 0
    BY <1>9, <1>10, Zenon
  <2>3. n \in Int /\ l \in Int /\ m = n + 1 /\ n <= l
    BY <1>1, <1>11
  <2>2. Len(t) = l - n
    <3>1. CASE m <= l
      <4>1. Len(t) = l - m + 1
        BY <2>1, <3>1
      <4> QED
        BY <2>3, <4>1
    <3>2. CASE ~ (m <= l)
      <4>1. Len(t) = 0
        BY <2>1, <3>2
      <4>2. n = l
        BY <2>3, <3>2
      <4> QED
        BY <2>3, <4>1, <4>2
    <3> QED
      BY <3>1, <3>2
  <2> QED
    BY <1>11, <2>1, <2>2
<1>3. DOMAIN t = 1 .. Len(s) - n /\ \A i \in 1 .. Len(s) - n : t[i] = s[n + i] /\ n + i \in 1 .. Len(s)
  <2>1. DOMAIN t = 1 .. Len(s) - n
    BY <1>2
  <2>2. ASSUME NEW i \in 1 .. Len(s) - n PROVE t[i] = s[n + i] /\ n + i \in 1 .. Len(s)
    <3>1. i \in 1 .. l - m + 1 /\ m + i - 1 = n + i
      BY <1>1, <1>11
    <3> QED
      BY <1>1, <1>9, <1>10, <3>1
  <2> QED
    BY <2>1, <2>2
<1>4. ASSUME NEW i \in n + 1 .. Len(s) PROVE s[i] \in Members(t)
  <2>1. i - n \in DOMAIN t /\ t[i - n] = s[i]
    BY <1>1, <1>3
  <2> QED
    BY <2>1 DEF Members
<1>5. ASSUME NEW x \in Members(t) PROVE x \in {s[i] : i \in n + 1 .. Len(s)}
  <2>1. PICK i \in DOMAIN t : x = t[i]
    BY <1>5 DEF Members
  <2>2. x = s[n + i] /\ n + i \in n + 1 .. Len(s)
    BY <1>1, <1>3, <2>1
  <2> QED
    BY <2>2
<1>6. Members(t) = {s[i] : i \in n + 1 .. Len(s)}
  BY <1>4, <1>5
<1>7. ASSUME Apart(s) PROVE Apart(t)
  BY <1>1, <1>3, <1>7 DEF Apart
<1> QED
  BY <1>2, <1>6, <1>7 DEF t

(* A queue without its first element.                                      *)
LEMMA TakeHead ==
  ASSUME NEW S, NEW s \in Seq(S), s # <<>>
  PROVE  /\ Head(s) \in S /\ Tail(s) \in Seq(S)
         /\ Members(s) = Members(Tail(s)) \cup {Head(s)}
         /\ Apart(s) => Apart(Tail(s)) /\ Head(s) \notin Members(Tail(s))
<1> DEFINE t == Tail(s)
           e == Head(s)
<1>1. /\ Len(s) \in Nat \ {0} /\ DOMAIN s = 1 .. Len(s) /\ e = s[1] /\ e \in S /\ t \in Seq(S)
      /\ DOMAIN t = 1 .. Len(s) - 1 /\ \A i \in 1 .. Len(s) - 1 : t[i] = s[i + 1]
  OBVIOUS
<1> HIDE DEF t, e
<1>2. ASSUME NEW x \in Members(s) PROVE x \in Members(t) \cup {e}
  <2>1. PICK i \in DOMAIN s : x = s[i]
    BY <1>2 DEF Members
  <2>2. i # 1 => i - 1 \in DOMAIN t /\ t[i - 1] = x
    BY <1>1, <2>1
  <2> QED
    BY <1>1, <2>1, <2>2 DEF Members
<1>3. ASSUME NEW x \in Members(t) PROVE x \in Members(s)
  <2>1. PICK i \in DOMAIN t : x = t[i]
    BY <1>3 DEF Members
  <2>2. i + 1 \in DOMAIN s /\ s[i + 1] = x
    BY <1>1, <2>1
  <2> QED
    BY <2>2 DEF Members
<1>4. e \in Members(s)
  BY <1>1 DEF Members
<1>5. Members(s) = Members(t) \cup {e}
  BY <1>2, <1>3, <1>4
<1>6. ASSUME Apart(s) PROVE Apart(t) /\ e \notin Members(t)
  <2>1. ASSUME NEW i \in DOMAIN t, NEW j \in DOMAIN t, t[i] = t[j] PROVE i = j
    <3>1. i + 1 \in DOMAIN s /\ j + 1 \in DOMAIN s /\ s[i + 1] = s[j + 1]
      BY <1>1, <2>1
    <3>2. i + 1 = j + 1
      BY <1>6, <3>1 DEF Apart
    <3> QED
      BY <1>1, <3>2
  <2>2. ASSUME e \in Members(t) PROVE FALSE
    <3>1. PICK i \in DOMAIN t : e = t[i]
      BY <2>2 DEF Members
    <3>2. i + 1 \in DOMAIN s /\ s[i + 1] = s[1] /\ 1 \in DOMAIN s /\ i + 1 # 1
      BY <1>1, <3>1
    <3> QED
      BY <1>6, <3>2 DEF Apart
  <2> QED
    BY <2>1, <2>2 DEF Apart
<1> QED
  BY <1>1, <1>5, <1>6 DEF t, e

(* The same for the dialogues.                                             *)
LEMMA TakeHeadTagged ==
  ASSUME NEW D, NEW K, NEW s \in Seq([of : D, kind : K]), s # <<>>
  PROVE  /\ Head(s) \in [of : D, kind : K] /\ Tail(s) \in Seq([of : D, kind : K])
         /\ Tags(s) = Tags(Tail(s)) \cup {Head(s).of}
         /\ TagsApart(s) => TagsApart(Tail(s)) /\ Head(s).of \notin Tags(Tail(s))
<1> DEFINE t == Tail(s)
           e == Head(s)
<1> DEFINE S == [of : D, kind : K]
<1>0. s \in Seq(S)
  OBVIOUS
<1> HIDE DEF S
<1>1. /\ Len(s) \in Nat \ {0} /\ DOMAIN s = 1 .. Len(s) /\ e = s[1] /\ e \in S /\ t \in Seq(S)
      /\ DOMAIN t = 1 .. Len(s) - 1 /\ \A i \in 1 .. Len(s) - 1 : t[i] = s[i + 1]
  BY <1>0
<1> HIDE DEF t, e
<1>2. ASSUME NEW x \in Tags(s) PROVE x \in Tags(t) \cup {e.of}
  <2>1. PICK i \in DOMAIN s : x = s[i].of
    BY <1>2 DEF Tags
  <2>2. i # 1 => i - 1 \in DOMAIN t /\ t[i - 1].of = x
    BY <1>1, <2>1
  <2> QED
    BY <1>1, <2>1, <2>2 DEF Tags
<1>3. ASSUME NEW x \in Tags(t) PROVE x \in Tags(s)
  <2>1. PICK i \in DOMAIN t : x = t[i].of
    BY <1>3 DEF Tags
  <2>2. i + 1 \in DOMAIN s /\ s[i + 1].of = x
    BY <1>1, <2>1
  <2> QED
    BY <2>2 DEF Tags
<1>4. e.of \in Tags(s)
  BY <1>1 DEF Tags
<1>5. Tags(s) = Tags(t) \cup {e.of}
  BY <1>2, <1>3, <1>4
<1>6. ASSUME TagsApart(s) PROVE TagsApart(t) /\ e.of \notin Tags(t)
  <2>1. ASSUME NEW i \in DOMAIN t, NEW j \in DOMAIN t, t[i].of = t[j].of PROVE i = j
    <3>1. i + 1 \in DOMAIN s /\ j + 1 \in DOMAIN s /\ s[i + 1].of = s[j + 1].of
      BY <1>1, <2>1
    <3>2. i + 1 = j + 1
      BY <1>6, <3>1 DEF TagsApart
    <3> QED
      BY <1>1, <3>2
  <2>2. ASSUME e.of \in Tags(t) PROVE FALSE
    <3>1. PICK i \in DOMAIN t : e.of = t[i].of
      BY <2>2 DEF Tags
    <3>2. i + 1 \in DOMAIN s /\ s[i + 1].of = s[1].of /\ 1 \in DOMAIN s /\ i + 1 # 1
      BY <1>1, <3>1
    <3> QED
      BY <1>6, <3>2 DEF TagsApart
  <2> QED
    BY <2>1, <2>2 DEF TagsApart
<1> QED
  BY <1>1, <1>5, <1>6 DEF t, e, S

(* What the invariant says of the places, for the steps.                   *)
LEMMA PlaceFacts ==
  ASSUME DialogueInv
  PROVE  /\ Tags(dialogues) \subseteq Dialogues /\ Members(controls) \subseteq Navigations
         /\ Members(held) \subseteq Clips /\ clips \subseteq Clips
         /\ active \in Dialogues \cup {None} /\ modal.owner \in Dialogues \cup Clips \cup {None, User}
         /\ \A x \in Waiting \cap Requests : answers[x] = 0
         /\ asked = {x \in Requests : answers[x] = 1 \/ x \in Waiting}
         /\ answers \in [Requests -> {0, 1}]
<1>1. DialogueType
  BY DEF DialogueInv
<1>2. Tags(dialogues) \subseteq Dialogues
  BY <1>1, TagsIn DEF DialogueType
<1>3. Members(controls) \subseteq Navigations /\ Members(held) \subseteq Clips
  BY <1>1, MembersIn DEF DialogueType
<1>4. modal.owner \in Dialogues \cup Clips \cup {None, User}
  BY <1>1, ModalFacts DEF DialogueType
<1> QED
  BY <1>1, <1>2, <1>3, <1>4 DEF DialogueInv, DialogueType, Books

(* The answers of a step, and the requests that leave their places by it.  *)
LEMMA AnswersKeepBooks ==
  ASSUME DialogueInv, NEW done, done \subseteq Waiting \cap Requests, asked' = asked,
         answers' = [x \in Requests |-> answers[x] + (IF x \in done THEN 1 ELSE 0)],
         Waiting' \cap Requests = (Waiting \cap Requests) \ done
  PROVE  Books' /\ answers' \in [Requests -> {0, 1}]
<1>1. /\ \A x \in Waiting \cap Requests : answers[x] = 0
      /\ asked = {x \in Requests : answers[x] = 1 \/ x \in Waiting}
      /\ answers \in [Requests -> {0, 1}]
  BY PlaceFacts
<1>2. ASSUME NEW x \in done PROVE answers'[x] = 1 /\ answers[x] = 0
  BY <1>1, <1>2
<1>3. ASSUME NEW x \in Requests, x \notin done PROVE answers'[x] = answers[x]
  <2>1. answers'[x] = answers[x] + 0 /\ answers[x] \in {0, 1}
    BY <1>1, <1>3
  <2> QED
    BY <2>1
<1>4. ASSUME NEW x \in Requests PROVE answers'[x] \in {0, 1}
  BY <1>1, <1>2, <1>3
<1>5. answers' \in [Requests -> {0, 1}]
  BY <1>4
<1>6. \A x \in Waiting' \cap Requests : answers'[x] = 0
  BY <1>1, <1>3
<1>7. asked' = {x \in Requests : answers'[x] = 1 \/ x \in Waiting'}
  BY <1>1, <1>2, <1>3
<1> QED
  BY <1>5, <1>6, <1>7 DEF Books

(* Nothing is asked or answered, and the same requests wait.               *)
LEMMA SameBooks ==
  ASSUME DialogueInv, asked' = asked, answers' = answers, Waiting' \cap Requests = Waiting \cap Requests
  PROVE  Books'
  BY PlaceFacts DEF Books

(* One request that waited is answered.                                    *)
LEMMA OneAnswered ==
  ASSUME DialogueInv, NEW x \in Waiting \cap Requests, asked' = asked, answers' = Answered(x),
         Waiting' \cap Requests = (Waiting \cap Requests) \ {x}
  PROVE  Books' /\ answers' \in [Requests -> {0, 1}]
<1>1. answers \in [Requests -> {0, 1}]
  BY PlaceFacts
<1>2. answers' = [y \in Requests |-> answers[y] + (IF y \in {x} THEN 1 ELSE 0)]
  <2>1. answers' = [y \in Requests |-> IF y = x THEN answers[x] + 1 ELSE answers[y]]
    BY <1>1 DEF Answered
  <2>2. ASSUME NEW y \in Requests
        PROVE  (IF y = x THEN answers[x] + 1 ELSE answers[y]) = answers[y] + (IF y \in {x} THEN 1 ELSE 0)
    <3>1. answers[y] \in {0, 1}
      BY <1>1
    <3> QED
      BY <3>1
  <2> QED
    BY <2>1, <2>2
<1> QED
  BY <1>2, AnswersKeepBooks

(* A request that is made was nowhere before.                              *)
LEMMA AskedIsNew ==
  ASSUME DialogueInv, NEW x \in Requests, Ask(x)
  PROVE  x \notin Waiting /\ answers[x] = 0 /\ asked' = asked \cup {x}
  BY PlaceFacts DEF Ask

(* One more request waits.                                                 *)
LEMMA AskKeepsBooks ==
  ASSUME DialogueInv, NEW x \in Requests, Ask(x), answers' = answers,
         Waiting' \cap Requests = (Waiting \cap Requests) \cup {x}
  PROVE  Books' /\ asked' \subseteq Requests
<1>1. answers[x] = 0 /\ asked' = asked \cup {x}
  BY AskedIsNew
<1> QED
  BY <1>1, PlaceFacts DEF Books

(* A plugin asks,                                                          *)
LEMMA AskUserKeeps ==
  ASSUME DialogueInv, NEW d \in Dialogues, NEW kind \in Kinds, AskUser(d, kind)
  PROVE  DialogueInv'
<1> DEFINE e == [of |-> d, kind |-> kind]
<1>1. /\ Ask(d) /\ dialogues' = Append(dialogues, e)
      /\ UNCHANGED <<modal, controls, active, editor, clips, held, answers>>
  BY DEF AskUser
<1>2. e \in [of : Dialogues, kind : Kinds] /\ e.of = d
  OBVIOUS
<1> HIDE DEF e
<1>3. d \in Requests /\ d \notin Waiting
  BY <1>1, AskedIsNew, KindsApart
<1>4. d \notin Tags(dialogues) /\ d # active
  BY <1>3, WaitingIs
<1>5. /\ dialogues' \in Seq([of : Dialogues, kind : Kinds])
      /\ Tags(dialogues') = Tags(dialogues) \cup {d} /\ TagsApart(dialogues')
  <2>1. dialogues \in Seq([of : Dialogues, kind : Kinds]) /\ TagsApart(dialogues)
    BY DEF DialogueInv, DialogueType, QueuesApart
  <2> QED
    BY <1>1, <1>2, <1>4, <2>1, PutLastTagged
<1>6. Waiting' \cap Requests = (Waiting \cap Requests) \cup {d}
  BY <1>1, <1>3, <1>5, WaitingIs
<1>7. Books' /\ asked' \subseteq Requests
  BY <1>1, <1>3, <1>6, AskKeepsBooks
<1>8. DialogueType'
  BY <1>1, <1>5, <1>7 DEF DialogueInv, DialogueType
<1>9. QueuesApart'
  BY <1>1, <1>5 DEF DialogueInv, QueuesApart
<1>10. Places'
  BY <1>1, <1>4, <1>5 DEF DialogueInv, Places, HasEditor
<1> QED
  BY <1>7, <1>8, <1>9, <1>10 DEF DialogueInv

(* a pane wants the clipboard,                                             *)
LEMMA AskClipboardKeeps ==
  ASSUME DialogueInv, NEW c \in Clips, AskClipboard(c)
  PROVE  DialogueInv'
<1>1. /\ Ask(c) /\ clips' = clips \cup {c}
      /\ UNCHANGED <<modal, dialogues, controls, active, editor, held, answers>>
  BY DEF AskClipboard
<1>3. c \in Requests /\ c \notin Waiting
  BY <1>1, AskedIsNew, KindsApart
<1>4. c \notin Members(held) /\ c # modal.owner
  BY <1>3, WaitingIs
<1>6. Waiting' \cap Requests = (Waiting \cap Requests) \cup {c}
  BY <1>1, <1>3, WaitingIs
<1>7. Books' /\ asked' \subseteq Requests
  BY <1>1, <1>3, <1>6, AskKeepsBooks
<1>8. DialogueType'
  BY <1>1, <1>7 DEF DialogueInv, DialogueType
<1>9. QueuesApart'
  BY <1>1 DEF DialogueInv, QueuesApart
<1>10. Places'
  BY <1>1, <1>4 DEF DialogueInv, Places, HasEditor
<1> QED
  BY <1>7, <1>8, <1>9, <1>10 DEF DialogueInv

(* a plugin navigates.                                                     *)
LEMMA AskNavigationKeeps ==
  ASSUME DialogueInv, NEW n \in Navigations, AskNavigation(n)
  PROVE  DialogueInv'
<1>1. /\ Ask(n) /\ controls' = Append(controls, n)
      /\ UNCHANGED <<modal, dialogues, active, editor, clips, held, answers>>
  BY DEF AskNavigation
<1>3. n \in Requests /\ n \notin Waiting
  BY <1>1, AskedIsNew, KindsApart
<1>4. n \notin Members(controls)
  BY <1>3, WaitingIs
<1>5. controls' \in Seq(Navigations) /\ Members(controls') = Members(controls) \cup {n} /\ Apart(controls')
  BY <1>1, <1>4, PutLast DEF DialogueInv, DialogueType, QueuesApart
<1>6. Waiting' \cap Requests = (Waiting \cap Requests) \cup {n}
  BY <1>1, <1>3, <1>5, WaitingIs
<1>7. Books' /\ asked' \subseteq Requests
  BY <1>1, <1>3, <1>6, AskKeepsBooks
<1>8. DialogueType'
  BY <1>1, <1>5, <1>7 DEF DialogueInv, DialogueType
<1>9. QueuesApart'
  BY <1>1, <1>5 DEF DialogueInv, QueuesApart
<1>10. Places'
  BY <1>1 DEF DialogueInv, Places, HasEditor
<1> QED
  BY <1>7, <1>8, <1>9, <1>10 DEF DialogueInv

(* A step that moves nothing: withdrawn contexts, events, copy mode, and   *)
(* what happens to the editor of a question.                               *)
LEMMA EditorKeeps ==
  ASSUME DialogueInv, UNCHANGED <<modal, dialogues, controls, active, clips, held, asked, answers>>,
         editor' \in Editors, editor'.of = editor.of, editor'.calling => HasEditor
  PROVE  DialogueInv'
<1>1. Waiting' = Waiting
  BY DEF Waiting
<1>2. Books'
  BY <1>1, SameBooks
<1>3. DialogueType' /\ QueuesApart'
  BY DEF DialogueInv, DialogueType, QueuesApart
<1>4. Places'
  BY DEF DialogueInv, Places, HasEditor
<1> QED
  BY <1>2, <1>3, <1>4 DEF DialogueInv

(* Steps that move no request.                                             *)
LEMMA NothingMoves ==
  ASSUME DialogueInv, UNCHANGED <<modal, dialogues, controls, active, editor, clips, held, asked, answers>>
  PROVE  DialogueInv'
  BY EditorKeeps DEF DialogueInv, DialogueType, Places

(* The states of an editor.                                                *)
LEMMA EditorStates ==
  ASSUME NEW e \in Editors
  PROVE  /\ Finished(e) \in Editors /\ Finished(e).of = e.of
         /\ [e EXCEPT !.seen = TRUE] \in Editors /\ [e EXCEPT !.seen = TRUE].of = e.of
         /\ Opened(e) \in Editors /\ Opened(e).of = e.of
         /\ NoEditor \in Editors /\ NoEditor.of = None /\ ~ NoEditor.calling
<1>1. (e.calling \/ e.open) \in BOOLEAN
  BY DEF Editors
<1>2. Finished(e) \in Editors /\ Finished(e).of = e.of
  BY <1>1 DEF Finished, Editors
<1>3. Opened(e) \in Editors /\ Opened(e).of = e.of
  BY DEF Opened, Editors
<1> QED
  BY <1>2, <1>3 DEF Editors, NoEditor

(* cancelPluginDialogue answers a question, or leaves it to the editor.    *)
LEMMA CancelKeeps ==
  ASSUME DialogueInv, active # None, CancelPluginDialogue,
         UNCHANGED <<dialogues, controls, clips, held, asked>>
  PROVE  DialogueInv'
<1>1. CASE HasEditor
  <2>1. editor' = Finished(editor) /\ UNCHANGED <<modal, active, answers>>
    BY <1>1 DEF CancelPluginDialogue
  <2>2. editor \in Editors
    BY DEF DialogueInv, DialogueType
  <2> QED
    BY <1>1, <2>1, <2>2, EditorStates, EditorKeeps
<1>2. CASE ~ HasEditor
  <2>1. modal.owner = active /\ active \in Dialogues /\ active \in Requests /\ active \in Waiting
    BY <1>2, KindsApart, WaitingIs DEF DialogueInv, Places, DialogueType
  <2>2. answers' = Answered(active) /\ active' = None /\ modal' = Normal /\ UNCHANGED editor
    BY <1>2, <2>1, PlaceFacts DEF CancelPluginDialogue
  <2>3. Normal \in Modals /\ Normal.owner = None
    BY DEF Modals, Normal
  <2>4. active \notin Tags(dialogues) /\ active \notin clips /\ active \notin Members(controls)
        /\ active \notin Members(held)
    BY <2>1, PlaceFacts, KindsApart DEF DialogueInv, Places
  <2>5. Waiting' = clips \cup {None} \cup Tags(dialogues) \cup Members(controls) \cup Members(held)
    BY <2>2, <2>3, WaitingIs
  <2>6. Waiting = clips \cup {active} \cup Tags(dialogues) \cup Members(controls) \cup Members(held)
    BY <2>1, WaitingIs
  <2>7. Waiting' \cap Requests = (Waiting \cap Requests) \ {active}
    BY <2>4, <2>5, <2>6, KindsApart
  <2>8. Books' /\ answers' \in [Requests -> {0, 1}]
    BY <2>1, <2>2, <2>7, OneAnswered
  <2>9. DialogueType' /\ QueuesApart'
    BY <2>2, <2>3, <2>8 DEF DialogueInv, DialogueType, QueuesApart
  <2>10. None \notin Tags(dialogues) /\ None \notin Members(held) /\ None \notin clips /\ None \notin Dialogues
    BY PlaceFacts, KindsApart
  <2>11. Places'
    BY <1>2, <2>2, <2>3, <2>10 DEF DialogueInv, Places, HasEditor
  <2> QED
    BY <2>8, <2>9, <2>11 DEF DialogueInv
<1> QED
  BY <1>1, <1>2

(* handlePluginDialogue refuses a dialogue or asks it.                     *)
LEMMA HandlePluginDialogueKeeps ==
  ASSUME DialogueInv, HandlePluginDialogue
  PROVE  DialogueInv'
<1> DEFINE request == Head(dialogues)
           d == request.of
<1>1. /\ dialogues # <<>> /\ dialogues' = Tail(dialogues)
      /\ UNCHANGED <<controls, clips, held, asked>>
  BY DEF HandlePluginDialogue
<1>2. /\ request \in [of : Dialogues, kind : Kinds] /\ dialogues' \in Seq([of : Dialogues, kind : Kinds])
      /\ Tags(dialogues) = Tags(dialogues') \cup {d}
      /\ TagsApart(dialogues') /\ d \notin Tags(dialogues')
  <2>1. dialogues \in Seq([of : Dialogues, kind : Kinds]) /\ TagsApart(dialogues)
    BY DEF DialogueInv, DialogueType, QueuesApart
  <2> QED
    BY <1>1, <2>1, TakeHeadTagged
<1>3. \/ /\ Refuses /\ answers' = Answered(d) /\ UNCHANGED <<modal, active, editor>>
      \/ /\ ~ Refuses /\ active' = d /\ UNCHANGED answers
         /\ request.kind = "editor"
         /\ editor' = [NoEditor EXCEPT !.of = d, !.calling = TRUE] /\ UNCHANGED modal
      \/ /\ ~ Refuses /\ active' = d /\ UNCHANGED answers
         /\ request.kind # "editor"
         /\ modal' = [mode |-> request.kind, owner |-> d] /\ UNCHANGED editor
  BY DEF HandlePluginDialogue
<1> HIDE DEF request
<1>4. d \in Dialogues /\ request.kind \in Kinds
  BY <1>2
<1> HIDE DEF d
<1>5. d \in Requests /\ d # None /\ d \in Waiting
  BY <1>2, <1>4, KindsApart, WaitingIs
<1>6. d # active /\ d # modal.owner
  BY <1>2, <1>4 DEF DialogueInv, Places
<1>7. d \notin clips /\ d \notin Members(controls) /\ d \notin Members(held)
  BY <1>4, PlaceFacts, KindsApart
<1>8. QueuesApart'
  BY <1>1, <1>2 DEF DialogueInv, QueuesApart
<1>9. CASE answers' = Answered(d) /\ UNCHANGED <<modal, active, editor>>
  <2>1. Waiting' \cap Requests = (Waiting \cap Requests) \ {d}
    BY <1>1, <1>2, <1>6, <1>7, <1>9, WaitingIs
  <2>2. Books' /\ answers' \in [Requests -> {0, 1}]
    BY <1>1, <1>5, <1>9, <2>1, OneAnswered
  <2>3. DialogueType'
    BY <1>1, <1>2, <1>9, <2>2 DEF DialogueInv, DialogueType
  <2>4. Places'
    BY <1>1, <1>2, <1>9 DEF DialogueInv, Places, HasEditor
  <2> QED
    BY <1>8, <2>2, <2>3, <2>4 DEF DialogueInv
<1>10. ASSUME ~ Refuses, active' = d, UNCHANGED answers,
              modal'.owner \in {None, d}, modal' \in Modals, editor' \in Editors,
              modal'.owner = d => editor' = editor,
              modal'.owner # d => editor'.of = d
       PROVE  DialogueInv'
  <2>1. modal = Normal /\ ~ HasEditor /\ Normal.owner = None
    BY <1>10 DEF Refuses, Busy, Normal
  <2>2. active = None
    BY <1>10, <2>1 DEF DialogueInv, Places
  <2>3. Waiting' \cap Requests = Waiting \cap Requests
    BY <1>1, <1>2, <1>10, <2>1, <2>2, KindsApart, WaitingIs
  <2>4. Books'
    BY <1>1, <1>10, <2>3, SameBooks
  <2>5. DialogueType'
    BY <1>1, <1>2, <1>4, <1>10 DEF DialogueInv, DialogueType
  <2>6. None \notin Members(held) /\ None \notin clips /\ None \notin Dialogues
    BY PlaceFacts, KindsApart
  <2>7. Places'
    BY <1>1, <1>2, <1>5, <1>7, <1>10, <2>1, <2>2, <2>6 DEF DialogueInv, Places, HasEditor
  <2> QED
    BY <1>8, <2>4, <2>5, <2>7 DEF DialogueInv
<1>11. CASE /\ ~ Refuses /\ active' = d /\ UNCHANGED answers
            /\ editor' = [NoEditor EXCEPT !.of = d, !.calling = TRUE] /\ UNCHANGED modal
  <2>1. editor' \in Editors /\ editor'.of = d
    BY <1>4, <1>11 DEF Editors, NoEditor
  <2>2. modal' \in Modals /\ modal'.owner = None
    BY <1>11 DEF Refuses, Busy, Normal, Modals
  <2> QED
    BY <1>5, <1>10, <1>11, <2>1, <2>2
<1>12. CASE /\ ~ Refuses /\ active' = d /\ UNCHANGED answers /\ request.kind # "editor"
            /\ modal' = [mode |-> request.kind, owner |-> d] /\ UNCHANGED editor
  <2>1. modal' \in Modals /\ modal'.owner = d
    BY <1>4, <1>12 DEF Modals, Kinds
  <2>2. editor' \in Editors
    BY <1>12 DEF DialogueInv, DialogueType
  <2> QED
    BY <1>10, <1>12, <2>1, <2>2
<1> QED
  BY <1>3, <1>9, <1>11, <1>12

(* The ticker ends what nobody waits for.                                  *)
LEMMA PollPluginDialogueKeeps ==
  ASSUME DialogueInv, PollPluginDialogue
  PROVE  DialogueInv'
<1>1. UNCHANGED <<dialogues, controls, clips, held, asked>>
  BY DEF PollPluginDialogue
<1>2. CASE active # None /\ CancelPluginDialogue
  BY <1>1, <1>2, CancelKeeps
<1>3. CASE HasEditor /\ editor' = EditorSeen /\ UNCHANGED <<modal, active, answers>>
  <2> DEFINE e == [editor EXCEPT !.seen = TRUE]
  <2>1. editor \in Editors
    BY DEF DialogueInv, DialogueType
  <2>2. e \in Editors /\ e.of = editor.of
    BY <2>1, EditorStates
  <2>3. EditorSeen \in {editor, Finished(editor), e, Finished(e)}
    <3>1. editor.pane \in {"coming", "running", "exited", "gone"}
      BY <2>1 DEF Editors
    <3>2. EditorSeen = CASE editor.pane \in {"coming", "gone"} -> IF editor.seen THEN Finished(editor) ELSE editor
                         [] editor.pane = "running" -> IF editor.shown THEN e ELSE Finished(e)
                         [] editor.pane = "exited" -> Finished(e)
      BY DEF EditorSeen
    <3> HIDE DEF e
    <3> QED
      BY <3>1, <3>2
  <2> HIDE DEF e
  <2>4. EditorSeen \in Editors /\ EditorSeen.of = editor.of
    BY <2>1, <2>2, <2>3, EditorStates
  <2> QED
    BY <1>1, <1>3, <2>4, EditorKeeps
<1> QED
  BY <1>2, <1>3 DEF PollPluginDialogue

(* The answer of a call for the editor.                                    *)
LEMMA ApplyEditorResultKeeps ==
  ASSUME DialogueInv, NEW ok \in BOOLEAN, ApplyEditorResult(ok)
  PROVE  DialogueInv'
<1>1. editor.calling /\ HasEditor /\ UNCHANGED <<modal, dialogues, controls, clips, held, asked>>
  BY DEF ApplyEditorResult, DialogueInv, Places
<1>2. editor \in Editors
  BY DEF DialogueInv, DialogueType
<1>3. CASE editor' = Opened(editor) /\ UNCHANGED <<answers, active>>
  BY <1>1, <1>2, <1>3, EditorStates, EditorKeeps
<1>4. CASE EditorAnswered
  <2>1. editor.of = active /\ active \in Dialogues /\ active \in Requests /\ active \in Waiting
    BY <1>1, KindsApart, WaitingIs DEF DialogueInv, Places, DialogueType, HasEditor
  <2>2. answers' = Answered(active) /\ editor' = NoEditor /\ active' = None
    BY <1>4, <2>1 DEF EditorAnswered
  <2>3. modal.owner \notin Dialogues
    BY <1>1 DEF DialogueInv, Places
  <2>4. active \notin Tags(dialogues) /\ active \notin clips /\ active \notin Members(controls)
        /\ active \notin Members(held) /\ active # modal.owner
    BY <2>1, <2>3, PlaceFacts, KindsApart DEF DialogueInv, Places
  <2>5. Waiting' \cap Requests = (Waiting \cap Requests) \ {active}
    BY <1>1, <2>2, <2>4, KindsApart, WaitingIs
  <2>6. Books' /\ answers' \in [Requests -> {0, 1}]
    BY <1>1, <2>1, <2>2, <2>5, OneAnswered
  <2>7. DialogueType' /\ QueuesApart'
    BY <1>1, <1>2, <2>2, <2>6, EditorStates DEF DialogueInv, DialogueType, QueuesApart
  <2>8. None \notin Tags(dialogues)
    BY PlaceFacts, KindsApart
  <2>9. Places'
    BY <1>1, <1>2, <2>2, <2>3, <2>8, EditorStates DEF DialogueInv, Places, HasEditor
  <2> QED
    BY <2>6, <2>7, <2>9 DEF DialogueInv
<1> QED
  BY <1>3, <1>4 DEF ApplyEditorResult

(* What becomes of the editor's pane.                                      *)
LEMMA EditorPaneKeeps ==
  ASSUME DialogueInv, EditorPane
  PROVE  DialogueInv'
<1>1. HasEditor /\ UNCHANGED <<modal, dialogues, controls, active, clips, held, asked, answers>>
  BY DEF EditorPane
<1>2. editor \in Editors
  BY DEF DialogueInv, DialogueType
<1>3. \/ \E p \in {"coming", "running", "exited", "gone"} : editor' = [editor EXCEPT !.pane = p]
      \/ editor' = [editor EXCEPT !.shown = FALSE]
  <2> DEFINE P == CASE editor.pane = "coming" -> {"running"}
                    [] editor.pane = "running" -> {"exited", "gone"}
                    [] editor.pane = "exited" -> {"gone"}
                    [] editor.pane = "gone" -> {}
  <2>1. editor' \in {[editor EXCEPT !.pane = p] : p \in P} \cup {[editor EXCEPT !.shown = FALSE]}
    BY DEF EditorPane
  <2>2. P \subseteq {"coming", "running", "exited", "gone"}
    <3>1. editor.pane \in {"coming", "running", "exited", "gone"}
      BY <1>2 DEF Editors
    <3> QED
      BY <3>1
  <2> HIDE DEF P
  <2> QED
    BY <2>1, <2>2
<1>4. editor' \in Editors /\ editor'.of = editor.of
  BY <1>2, <1>3 DEF Editors
<1> QED
  BY <1>1, <1>4, EditorKeeps

(* A navigation is answered at once.                                       *)
LEMMA ProcessFrontendControlsKeeps ==
  ASSUME DialogueInv, ProcessFrontendControls
  PROVE  DialogueInv'
<1> DEFINE n == Head(controls)
           searching == copying /\ modal.mode = "prompt"
           busy == (Busy /\ ~ searching) \/ HasEditor \/ active # None
<1>1. /\ controls # <<>> /\ controls' = Tail(controls) /\ answers' = Answered(n)
      /\ UNCHANGED <<dialogues, active, editor, clips, held, asked>>
      /\ modal' = modal \/ (~ busy /\ modal' = Normal)
  BY DEF ProcessFrontendControls
<1>2. /\ n \in Navigations /\ controls' \in Seq(Navigations)
      /\ Members(controls) = Members(controls') \cup {n} /\ Apart(controls') /\ n \notin Members(controls')
  BY <1>1, TakeHead DEF DialogueInv, DialogueType, QueuesApart
<1> HIDE DEF n
<1>3. n \in Requests /\ n \in Waiting
  BY <1>2, KindsApart, WaitingIs
<1>4. n \notin Tags(dialogues) /\ n \notin clips /\ n # active /\ n # modal.owner /\ n \notin Members(held)
  BY <1>2, <1>3, PlaceFacts, KindsApart
<1>5. modal.owner \in Requests => modal' = modal
  <2> SUFFICES ASSUME modal.owner \in Requests, ~ busy PROVE FALSE
    BY <1>1
  <2>1. modal \in Modals /\ ~ HasEditor /\ active = None
    BY DEF DialogueInv, DialogueType
  <2>2. modal.owner \notin Dialogues
    BY <2>1, KindsApart DEF DialogueInv, Places
  <2>3. modal.owner \in Clips /\ modal # Normal
    BY <2>1, <2>2, ModalFacts, KindsApart
  <2>4. modal.mode = "confirm"
    BY <2>1, <2>3, ModalFacts
  <2> QED
    BY <2>3, <2>4 DEF Busy
<1> HIDE DEF busy, searching
<1>6. Normal \in Modals /\ Normal.owner = None
  BY DEF Modals, Normal
<1>7. modal'.owner \in {modal.owner, None} /\ modal' \in Modals /\ (modal.owner \in Requests => modal'.owner = modal.owner)
  BY <1>1, <1>5, <1>6 DEF DialogueInv, DialogueType
<1>8. Waiting' \cap Requests = (Waiting \cap Requests) \ {n}
  BY <1>1, <1>2, <1>4, <1>7, KindsApart, WaitingIs
<1>9. Books' /\ answers' \in [Requests -> {0, 1}]
  BY <1>1, <1>3, <1>8, OneAnswered
<1>10. DialogueType' /\ QueuesApart'
  BY <1>1, <1>2, <1>7, <1>9 DEF DialogueInv, DialogueType, QueuesApart
<1>11. None \notin Members(held) /\ None \notin clips /\ None \notin Dialogues
  BY PlaceFacts, KindsApart
<1>12. active # None => active \in Requests
  BY KindsApart DEF DialogueInv, DialogueType
<1>13. Places'
  BY <1>1, <1>2, <1>7, <1>11, <1>12 DEF DialogueInv, Places, HasEditor
<1> QED
  BY <1>9, <1>10, <1>13 DEF DialogueInv

(* A question of the user's own.                                           *)
LEMMA BeginModalKeeps ==
  ASSUME DialogueInv, NEW mode \in {"prompt", "confirm"}, BeginModal(mode)
  PROVE  DialogueInv'
<1>1. /\ modal = Normal /\ modal' = [mode |-> mode, owner |-> User]
      /\ UNCHANGED <<dialogues, controls, active, editor, clips, held, asked, answers>>
  BY DEF BeginModal, Busy
<1>2. modal.owner = None /\ modal'.owner = User /\ modal' \in Modals
  BY <1>1 DEF Normal, Modals
<1>3. Waiting' \cap Requests = Waiting \cap Requests
  BY <1>1, <1>2, KindsApart, WaitingIs
<1>4. Books'
  BY <1>1, <1>3, SameBooks
<1>5. DialogueType' /\ QueuesApart'
  BY <1>1, <1>2 DEF DialogueInv, DialogueType, QueuesApart
<1>6. User \notin Members(held) /\ User \notin clips /\ User \notin Dialogues
  BY PlaceFacts, KindsApart
<1>7. Places'
  BY <1>1, <1>2, <1>6 DEF DialogueInv, Places, HasEditor
<1> QED
  BY <1>4, <1>5, <1>7 DEF DialogueInv

(* resumeClipboardRequests finds the first request that needs a question.  *)
LEMMA FirstQuestion ==
  ASSUME NEW s \in Seq(Clips)
  PROVE  \E j \in 0 .. Len(s) : /\ \A i \in 1 .. j : s[i] \notin Asks
                                /\ j < Len(s) => s[j + 1] \in Asks
<1>1. Len(s) \in Nat
  OBVIOUS
<1>2. CASE \A i \in 1 .. Len(s) : s[i] \notin Asks
  BY <1>1, <1>2
<1>3. CASE ~ \A i \in 1 .. Len(s) : s[i] \notin Asks
  <2> DEFINE T == {i \in Nat : i \in 1 .. Len(s) /\ s[i] \in Asks}
  <2>1. T \subseteq Nat /\ T # {}
    BY <1>1, <1>3
  <2>2. PICK n \in T : \A m \in T : n <= m
    BY <2>1, LeastNumber
  <2>3. n - 1 \in 0 .. Len(s) /\ (n - 1) + 1 = n /\ s[n] \in Asks
    BY <1>1, <2>2
  <2>4. ASSUME NEW i \in 1 .. n - 1 PROVE s[i] \notin Asks
    BY <1>1, <2>2
  <2> QED
    BY <2>3, <2>4
<1> QED
  BY <1>2, <1>3

\* The first n that are held leave, all answered, or all but the last answered and
\* the last one asked.
Resumed(m, done) ==
  \E n \in 0 .. Len(held), first \in SUBSET Members(held) :
    /\ held' = SubSeq(held, n + 1, Len(held))
    /\ answers' = [x \in Requests |-> answers[x] + (IF x \in first \cup done THEN 1 ELSE 0)]
    /\ \/ modal' = m /\ first = {held[i] : i \in 1 .. n}
       \/ /\ m = Normal /\ n # 0 /\ modal' = [mode |-> "confirm", owner |-> held[n]]
          /\ first = {held[i] : i \in 1 .. n - 1}

(* What it does.                                                           *)
LEMMA ResumeMeans ==
  ASSUME DialogueInv, NEW m, NEW done, Resume(m, done)
  PROVE  Resumed(m, done)
<1> DEFINE Good(j) == /\ j \in 0 .. Len(held)
                      /\ \A i \in 1 .. j : held[i] \notin Asks
                      /\ j < Len(held) => held[j + 1] \in Asks
           k == IF m # Normal THEN 0
                ELSE CHOOSE j \in 0 .. Len(held) :
                       /\ \A i \in 1 .. j : held[i] \notin Asks
                       /\ j < Len(held) => held[j + 1] \in Asks
           first == {held[i] : i \in 1 .. k}
           asks == m = Normal /\ k < Len(held)
<1>1. /\ modal' = IF asks THEN [mode |-> "confirm", owner |-> held[k + 1]] ELSE m
      /\ held' = SubSeq(held, IF asks THEN k + 2 ELSE k + 1, Len(held))
      /\ answers' = [x \in Requests |-> answers[x] + (IF x \in first \cup done THEN 1 ELSE 0)]
  BY DEF Resume
<1>2. held \in Seq(Clips) /\ Len(held) \in Nat /\ DOMAIN held = 1 .. Len(held)
  BY DEF DialogueInv, DialogueType
<1>3. k \in 0 .. Len(held)
  <2>1. CASE m # Normal
    BY <1>2, <2>1
  <2>2. CASE m = Normal
    BY <1>2, <2>2, FirstQuestion
  <2> QED
    BY <2>1, <2>2
<1> HIDE DEF k
<1>4. first \in SUBSET Members(held)
  BY <1>2, <1>3 DEF Members
<1>5. CASE asks
  <2>1. k + 1 \in 0 .. Len(held) /\ k + 1 # 0 /\ (k + 1) + 1 = k + 2 /\ (k + 1) - 1 = k
    BY <1>2, <1>3, <1>5
  <2>2. /\ held' = SubSeq(held, (k + 1) + 1, Len(held))
        /\ modal' = [mode |-> "confirm", owner |-> held[k + 1]] /\ m = Normal
        /\ first = {held[i] : i \in 1 .. (k + 1) - 1}
    BY <1>1, <1>5, <2>1
  <2> HIDE DEF first, asks
  <2> QED
    BY <1>1, <1>4, <2>1, <2>2 DEF Resumed
<1>6. CASE ~ asks
  <2>1. held' = SubSeq(held, k + 1, Len(held)) /\ modal' = m
    BY <1>1, <1>6
  <2>2. first = {held[i] : i \in 1 .. k}
    OBVIOUS
  <2> HIDE DEF first, asks
  <2> QED
    BY <1>1, <1>3, <1>4, <2>1, <2>2 DEF Resumed
<1> QED
  BY <1>5, <1>6

(* A question ends: its request and those that needed none are answered,   *)
(* and the next one is asked.                                              *)
LEMMA ResumeKeeps ==
  ASSUME DialogueInv, NEW m \in Modals, m.owner \in {None, User}, NEW done, Resume(m, done),
         clips' \subseteq clips, done = ({modal.owner} \cup (clips \ clips')) \cap Requests,
         active' = IF modal.owner \in Dialogues THEN None ELSE active,
         UNCHANGED <<dialogues, controls, editor, asked>>
  PROVE  DialogueInv'
<1>1. PICK n \in 0 .. Len(held), first \in SUBSET Members(held) :
           /\ held' = SubSeq(held, n + 1, Len(held))
           /\ answers' = [x \in Requests |-> answers[x] + (IF x \in first \cup done THEN 1 ELSE 0)]
           /\ \/ modal' = m /\ first = {held[i] : i \in 1 .. n}
              \/ /\ m = Normal /\ n # 0 /\ modal' = [mode |-> "confirm", owner |-> held[n]]
                 /\ first = {held[i] : i \in 1 .. n - 1}
  <2>1. Resumed(m, done)
    BY ResumeMeans
  <2> QED
    BY <2>1, Zenon DEF Resumed
<1>2. held \in Seq(Clips) /\ Len(held) \in Nat /\ DOMAIN held = 1 .. Len(held) /\ Apart(held)
  BY DEF DialogueInv, DialogueType, QueuesApart
<1>3. /\ held' \in Seq(Clips) /\ Apart(held')
      /\ Members(held') = {held[i] : i \in n + 1 .. Len(held)}
  BY <1>1, <1>2, TakeFirst
<1>4. /\ modal' \in Modals /\ modal'.owner \notin Dialogues
      /\ \/ modal'.owner \in {None, User} /\ Members(held) = first \cup Members(held')
         \/ /\ modal'.owner \in Members(held) /\ modal'.owner \notin Members(held') /\ modal'.owner \notin first
            /\ Members(held) = first \cup {modal'.owner} \cup Members(held')
  <2>1. CASE modal' = m /\ first = {held[i] : i \in 1 .. n}
    <3>1. ASSUME NEW x \in Members(held) PROVE x \in first \cup Members(held')
      <4>1. PICK i \in 1 .. Len(held) : x = held[i]
        BY <1>2, <3>1 DEF Members
      <4>2. i \in 1 .. n \/ i \in n + 1 .. Len(held)
        BY <1>2
      <4> QED
        BY <1>3, <2>1, <4>1, <4>2
    <3>2. ASSUME NEW x \in Members(held') PROVE x \in Members(held)
      <4>1. PICK i \in n + 1 .. Len(held) : x = held[i]
        BY <1>3, <3>2
      <4>2. i \in 1 .. Len(held)
        BY <1>2
      <4> QED
        BY <1>2, <4>1, <4>2 DEF Members
    <3>3. first \subseteq Members(held)
      OBVIOUS
    <3>4. Members(held) = first \cup Members(held')
      BY <3>1, <3>2, <3>3
    <3> QED
      BY <2>1, <3>4, KindsApart
  <2>2. CASE n # 0 /\ modal' = [mode |-> "confirm", owner |-> held[n]] /\ first = {held[i] : i \in 1 .. n - 1}
    <3>1. n \in 1 .. Len(held) /\ n - 1 \in Nat /\ n + 1 \in Nat
      BY <1>2, <2>2
    <3>2. held[n] \in Clips /\ held[n] \in Members(held)
      BY <1>2, <3>1 DEF Members
    <3>3. held[n] \notin Members(held') /\ held[n] \notin first
      BY <1>2, <1>3, <2>2, <3>1 DEF Apart
    <3>4. ASSUME NEW x \in Members(held) PROVE x \in first \cup {held[n]} \cup Members(held')
      <4>1. PICK i \in 1 .. Len(held) : x = held[i]
        BY <1>2, <3>4 DEF Members
      <4>2. i \in 1 .. n - 1 \/ i = n \/ i \in n + 1 .. Len(held)
        BY <1>2, <3>1
      <4> QED
        BY <1>3, <2>2, <4>1, <4>2
    <3>5. ASSUME NEW x \in Members(held') PROVE x \in Members(held)
      <4>1. PICK i \in n + 1 .. Len(held) : x = held[i]
        BY <1>3, <3>5
      <4>2. i \in 1 .. Len(held)
        BY <1>2, <3>1
      <4> QED
        BY <1>2, <4>1, <4>2 DEF Members
    <3>6. modal'.owner = held[n] /\ modal' \in Modals
      BY <2>2, <3>2 DEF Modals
    <3>7. Members(held) = first \cup {held[n]} \cup Members(held')
      BY <3>2, <3>4, <3>5
    <3> QED
      BY <3>2, <3>3, <3>6, <3>7, KindsApart
  <2> QED
    BY <1>1, <2>1, <2>2
<1>5. first \cap Members(held') = {}
  <2>1. ASSUME NEW x \in first, x \in Members(held') PROVE FALSE
    <3>1. PICK i \in n + 1 .. Len(held) : x = held[i]
      BY <1>3, <2>1
    <3>2. PICK j \in 1 .. n : x = held[j]
      <4>1. CASE first = {held[k1] : k1 \in 1 .. n}
        BY <2>1, <4>1
      <4>2. CASE first = {held[k1] : k1 \in 1 .. n - 1}
        <5>1. PICK k \in 1 .. n - 1 : x = held[k]
          BY <2>1, <4>2
        <5>2. k \in 1 .. n
          BY <1>2
        <5> QED
          BY <5>1, <5>2
      <4> QED
        BY <1>1, <4>1, <4>2
    <3>3. i \in DOMAIN held /\ j \in DOMAIN held /\ i # j
      BY <1>1, <1>2, <3>1, <3>2
    <3> QED
      BY <1>2, <3>1, <3>2, <3>3 DEF Apart
  <2> QED
    BY <2>1
<1> DEFINE gone == first \cup done
<1>6. gone \subseteq Waiting \cap Requests
  BY PlaceFacts, KindsApart, WaitingIs
<1>7. /\ active' \notin Tags(dialogues) /\ active' \in Dialogues \cup {None}
      /\ active' \in Requests => active' \notin gone
      /\ active' \in {active, None} /\ (active \in Requests /\ active \notin gone => active' = active)
  BY PlaceFacts, KindsApart DEF DialogueInv, Places
<1>8. /\ Members(held) \cap clips = {} /\ modal.owner \notin Members(held) /\ modal.owner \notin clips
      /\ modal.owner \in Dialogues => active = modal.owner
      /\ active \notin Tags(dialogues)
  BY DEF DialogueInv, Places
<1>9. /\ gone \cap clips' = {} /\ gone \cap Tags(dialogues) = {} /\ gone \cap Members(controls) = {}
      /\ gone \cap Members(held') = {} /\ modal'.owner \notin gone
  BY <1>4, <1>5, <1>8, PlaceFacts, KindsApart
<1>10. /\ clips \subseteq clips' \cup done /\ modal.owner \in Requests => modal.owner \in done
  BY PlaceFacts, KindsApart
<1>11. Waiting' \cap Requests = (Waiting \cap Requests) \ gone
  <2>1. ASSUME NEW x \in Requests, x \in Waiting' PROVE x \in Waiting /\ x \notin gone
    BY <1>4, <1>7, <1>9, <2>1, KindsApart, WaitingIs
  <2>2. ASSUME NEW x \in Requests, x \in Waiting, x \notin gone PROVE x \in Waiting'
    BY <1>4, <1>7, <1>10, <2>2, KindsApart, WaitingIs
  <2> QED
    BY <2>1, <2>2
<1> HIDE DEF gone
<1>12. Books' /\ answers' \in [Requests -> {0, 1}]
  <2>1. answers' = [x \in Requests |-> answers[x] + (IF x \in gone THEN 1 ELSE 0)]
    BY <1>1 DEF gone
  <2> QED
    BY <1>6, <1>11, <2>1, AnswersKeepBooks
<1>13. DialogueType' /\ QueuesApart'
  BY <1>3, <1>4, <1>7, <1>12 DEF DialogueInv, DialogueType, QueuesApart
<1>14. modal'.owner \notin Members(held') /\ modal'.owner \notin clips' /\ Members(held') \cap clips' = {}
  BY <1>4, <1>8, <1>3, PlaceFacts, KindsApart
<1>15. /\ active' # None => HasEditor' \/ modal'.owner = active'
       /\ HasEditor' => editor'.of = active'
  <2>1. HasEditor' = HasEditor /\ editor' = editor
    BY DEF HasEditor
  <2>2. HasEditor => editor.of = active /\ modal.owner \notin Dialogues
    BY DEF DialogueInv, Places
  <2>3. modal.owner \notin Dialogues /\ active # None => HasEditor
    BY DEF DialogueInv, Places, DialogueType
  <2> QED
    BY <2>1, <2>2, <2>3
<1>16. editor'.calling => HasEditor'
  BY DEF DialogueInv, Places, HasEditor
<1>17. Places'
  BY <1>4, <1>7, <1>14, <1>15, <1>16 DEF Places
<1> QED
  BY <1>12, <1>13, <1>17 DEF DialogueInv

(* handleClipboardRequest holds a request, asks or answers it.             *)
LEMMA HandleClipboardRequestKeeps ==
  ASSUME DialogueInv, NEW c \in Clips, HandleClipboardRequest(c)
  PROVE  DialogueInv'
<1>1. c \in clips /\ clips' = clips \ {c} /\ UNCHANGED <<dialogues, controls, active, editor, asked>>
  BY DEF HandleClipboardRequest
<1>2. c \in Requests /\ c \notin Members(held) /\ c # modal.owner
  BY <1>1, KindsApart DEF DialogueInv, Places
<1>3. CASE Busy /\ held' = Append(held, c) /\ UNCHANGED <<modal, answers>>
  <2>1. held' \in Seq(Clips) /\ Members(held') = Members(held) \cup {c} /\ Apart(held')
    BY <1>2, <1>3, PutLast DEF DialogueInv, DialogueType, QueuesApart
  <2>2. Waiting' \cap Requests = Waiting \cap Requests
    BY <1>1, <1>3, <2>1, WaitingIs
  <2>3. Books'
    BY <1>1, <1>3, <2>2, SameBooks
  <2>4. DialogueType' /\ QueuesApart'
    BY <1>1, <1>3, <2>1 DEF DialogueInv, DialogueType, QueuesApart
  <2>5. Places'
    BY <1>1, <1>2, <1>3, <2>1 DEF DialogueInv, Places, HasEditor
  <2> QED
    BY <2>3, <2>4, <2>5 DEF DialogueInv
<1>4. CASE ~ Busy /\ modal' = [mode |-> "confirm", owner |-> c] /\ UNCHANGED <<held, answers>>
  <2>1. modal.owner = None /\ modal'.owner = c /\ modal' \in Modals
    BY <1>4 DEF Busy, Normal, Modals
  <2>2. Waiting' \cap Requests = Waiting \cap Requests
    BY <1>1, <1>4, <2>1, KindsApart, WaitingIs
  <2>3. Books'
    BY <1>1, <1>4, <2>2, SameBooks
  <2>4. DialogueType' /\ QueuesApart'
    BY <1>1, <1>4, <2>1 DEF DialogueInv, DialogueType, QueuesApart
  <2>5. c \notin Dialogues
    BY KindsApart
  <2>6. Places'
    BY <1>1, <1>2, <1>4, <2>1, <2>5 DEF DialogueInv, Places, HasEditor
  <2> QED
    BY <2>3, <2>4, <2>6 DEF DialogueInv
<1>5. CASE ~ Busy /\ Resume(modal, {c})
  <2>1. modal \in Modals /\ modal.owner = None /\ None \notin Requests /\ None \notin Dialogues
    BY <1>5, KindsApart DEF Busy, Normal, Modals
  <2>2. {c} = ({modal.owner} \cup (clips \ clips')) \cap Requests
    BY <1>1, <1>2, <2>1
  <2> QED
    BY <1>1, <1>5, <2>1, <2>2, ResumeKeeps
<1> QED
  BY <1>3, <1>4, <1>5 DEF HandleClipboardRequest, HoldsBack

(* The user answers the question,                                          *)
LEMMA AnswerModalKeeps ==
  ASSUME DialogueInv, AnswerModal
  PROVE  DialogueInv'
<1>1. UNCHANGED <<dialogues, controls, editor, clips, asked>>
  BY DEF AnswerModal
<1>2. active' = IF modal.owner \in Dialogues THEN None ELSE active
  BY DEF AnswerModal
<1>3. PICK next \in {Normal, [mode |-> "confirm", owner |-> User]} : Resume(next, {modal.owner} \cap Requests)
  BY DEF AnswerModal
<1>4. next \in Modals /\ next.owner \in {None, User}
  BY DEF Modals, Normal
<1>5. {modal.owner} \cap Requests = ({modal.owner} \cup (clips \ clips')) \cap Requests
  BY <1>1
<1> QED
  BY <1>1, <1>2, <1>3, <1>4, <1>5, ResumeKeeps

(* or leaves it.                                                           *)
LEMMA EscapeModalKeeps ==
  ASSUME DialogueInv, EscapeModal
  PROVE  DialogueInv'
<1>1. UNCHANGED <<dialogues, controls, clips, asked>>
  BY DEF EscapeModal
<1>2. CASE active # None /\ CancelPluginDialogue /\ UNCHANGED held
  BY <1>1, <1>2, CancelKeeps
<1>3. CASE active = None /\ Resume(Normal, {modal.owner} \cap Clips) /\ UNCHANGED <<active, editor>>
  <2>1. modal.owner \notin Dialogues
    BY <1>3, KindsApart DEF DialogueInv, Places
  <2>2. {modal.owner} \cap Clips = ({modal.owner} \cup (clips \ clips')) \cap Requests
    BY <1>1, <2>1, PlaceFacts, KindsApart
  <2>3. Normal \in Modals /\ Normal.owner = None
    BY DEF Modals, Normal
  <2> QED
    BY <1>1, <1>3, <2>1, <2>2, <2>3, ResumeKeeps
<1> QED
  BY <1>2, <1>3 DEF EscapeModal

(* Every step keeps the invariant.                                         *)
LEMMA StepKeepsDialogueInv == DialogueInv /\ [DialogueNext]_dialogueVars => DialogueInv'
<1> SUFFICES ASSUME DialogueInv, [DialogueNext]_dialogueVars PROVE DialogueInv'
  OBVIOUS
<1>1. ASSUME NEW x, Withdrawn(x) PROVE DialogueInv'
  BY <1>1, NothingMoves DEF Withdrawn
<1>2. CASE CatchUp
  BY <1>2, NothingMoves DEF CatchUp
<1>3. CASE SwitchCopyMode
  BY <1>3, NothingMoves DEF SwitchCopyMode
<1>4. CASE UNCHANGED dialogueVars
  BY <1>4, NothingMoves DEF dialogueVars
<1>5. CASE DialogueLoop
  BY <1>5, HandleClipboardRequestKeeps, HandlePluginDialogueKeeps, PollPluginDialogueKeeps,
     ProcessFrontendControlsKeeps, ApplyEditorResultKeeps DEF DialogueLoop
<1> QED
  BY <1>1, <1>2, <1>3, <1>4, <1>5, AskUserKeeps, AskClipboardKeeps, AskNavigationKeeps, BeginModalKeeps,
     AnswerModalKeeps, EscapeModalKeeps, EditorPaneKeeps DEF DialogueNext

(* At first nobody has asked.                                              *)
LEMMA InitDialogueInv == DialogueInit => DialogueInv
<1> SUFFICES ASSUME DialogueInit PROVE DialogueInv
  OBVIOUS
<1>1. /\ modal = Normal /\ modal.owner = None /\ active = None /\ editor = NoEditor /\ editor.of = None
      /\ dialogues = <<>> /\ controls = <<>> /\ held = <<>> /\ clips = {} /\ asked = {}
      /\ answers = [x \in Requests |-> 0] /\ ~ editor.calling
  BY DEF DialogueInit, Normal, NoEditor
<1>2. Tags(dialogues) = {} /\ Members(controls) = {} /\ Members(held) = {}
  BY <1>1 DEF Tags, Members
<1>3. Waiting \cap Requests = {}
  BY <1>1, <1>2, KindsApart, WaitingIs
<1>4. Books
  BY <1>1, <1>3 DEF Books
<1>5. QueuesApart
  BY <1>1 DEF QueuesApart, TagsApart, Apart
<1>6. Places
  BY <1>1, <1>2, KindsApart DEF Places, HasEditor
<1>7. DialogueType
  BY <1>1 DEF DialogueType, Modals, Editors, NoEditor
<1> QED
  BY <1>4, <1>5, <1>6, <1>7 DEF DialogueInv

(* Every request of a plugin, of a clipboard and of a navigation is in one *)
(* place until it is answered.                                             *)
THEOREM DialogueInvariantHolds == DialogueSpec => []DialogueInv
  BY InitDialogueInv, StepKeepsDialogueInv, PTL DEF DialogueSpec

(* No request is answered twice, answered by another question or lost,     *)
(* however many there are (handlePluginDialogue, handleClipboardRequest,   *)
(* resumeClipboardRequests, applyEditorResult).                            *)
THEOREM AnswersAreMatched == DialogueSpec => []AnswersMatched
<1>1. DialogueInv => AnswersMatched
  <2> SUFFICES ASSUME DialogueInv PROVE AnswersMatched
    OBVIOUS
  <2>1. \A x \in Requests : answers[x] <= 1
    BY PlaceFacts
  <2>2. modal.owner \in Requests => answers[modal.owner] = 0
    BY PlaceFacts, WaitingIs
  <2>3. active # None => answers[active] = 0 /\ (HasEditor \/ modal.owner = active)
    BY PlaceFacts, WaitingIs, KindsApart DEF DialogueInv, Places
  <2>4. modal.owner \in Dialogues => active = modal.owner
    BY DEF DialogueInv, Places
  <2>5. \A x \in asked : answers[x] = 1 \/ x \in Waiting
    BY PlaceFacts
  <2> QED
    BY <2>1, <2>2, <2>3, <2>4, <2>5 DEF AnswersMatched
<1> QED
  BY <1>1, DialogueInvariantHolds, PTL

-----------------------------------------------------------------------------
(* The input of the panes: what a terminal has got and what waits for it.  *)

InputEntries == [kind : Semantic \cup {"raw"}, ids : Seq(Nat), for : InputPanes]
Ios == [queue : [InputPanes -> Seq(InputEntries)], sent : [InputPanes -> Seq(InputEntries)],
        lost : SUBSET InputPanes]
Gestures == {NoGesture} \cup [pane : InputPanes, focus : InputPanes, app : BOOLEAN, pressed : BOOLEAN]

FlowOf(s, p) == s.sent[p] \o s.queue[p]

\* Inputs of the user up to b, in their order and of one pane.
Ordered(f, p, b) ==
  /\ InOrder(f)
  /\ \A i \in DOMAIN f : f[i].for = p /\ \A a \in DOMAIN f[i].ids : f[i].ids[a] <= b
Proper(s, b) == s \in Ios /\ \A p \in InputPanes : Ordered(FlowOf(s, p), p, b)

\* The panes whose program is owed a release.
Owed(s) == {p \in InputPanes \ s.lost : ~ Released(FlowOf(s, p))}

\* While a paste is collected its number is the last one.
Bound == IF framer = NoPaste THEN typed ELSE typed - 1

InputType ==
  /\ gesture \in Gestures /\ inFocus \in InputPanes /\ inModal \in BOOLEAN /\ typed \in Nat
  /\ framer = NoPaste \/ (framer.pane \in InputPanes /\ typed # 0)

InputInv ==
  /\ InputType
  /\ Proper(io, Bound)
  /\ gesture.pressed => gesture.app
  /\ \A p \in Owed(io) : gesture.pane = p /\ gesture.pressed

\* f is the beginning of g.
Begins(f, g) == Len(f) <= Len(g) /\ \A i \in 1 .. Len(f) : f[i] = g[i]
\* g is f with e at the end, or with e joined to the last entry or in its place.
Extended(f, g, e) == Len(g) = Len(f) + 1 /\ Begins(f, g) /\ g[Len(g)] = e
JoinedTo(f, g, e, p) ==
  /\ Len(g) = Len(f) /\ Len(f) # 0 /\ e.kind \in {"drag", "raw"}
  /\ \A i \in 1 .. Len(f) : i # Len(f) => g[i] = f[i]
  /\ f[Len(f)].kind = e.kind /\ g[Len(f)].kind = e.kind /\ g[Len(f)].for = p
  /\ g[Len(f)].ids = e.ids \/ g[Len(f)].ids = f[Len(f)].ids \o e.ids
\* An entry of inputs that come after b.
Newer(e, p, b, c) ==
  /\ e \in InputEntries /\ e.for = p
  /\ \A x, y \in DOMAIN e.ids : x < y => e.ids[x] < e.ids[y]
  /\ \A x \in DOMAIN e.ids : b < e.ids[x] /\ e.ids[x] <= c

(* Two sequences one after the other.                                      *)
LEMMA OneAfterOther ==
  ASSUME NEW S, NEW f \in Seq(S), NEW g \in Seq(S)
  PROVE  /\ f \o g \in Seq(S) /\ Len(f \o g) = Len(f) + Len(g) /\ Len(f) \in Nat /\ Len(g) \in Nat
         /\ DOMAIN (f \o g) = 1 .. Len(f) + Len(g)
         /\ \A i \in 1 .. Len(f) : (f \o g)[i] = f[i]
         /\ \A i \in 1 .. Len(g) : (f \o g)[Len(f) + i] = g[i]
  OBVIOUS

(* What a sequence is made of.                                             *)
LEMMA ElementsIn ==
  ASSUME NEW S, NEW s \in Seq(S)
  PROVE  \A i \in DOMAIN s : s[i] \in S
  OBVIOUS

(* Two sequences of the same length and elements.                          *)
LEMMA SameSeq ==
  ASSUME NEW S, NEW f \in Seq(S), NEW g \in Seq(S), Len(f) = Len(g), \A i \in 1 .. Len(f) : f[i] = g[i]
  PROVE  f = g
  OBVIOUS

(* drainInput moves the beginning of the queue: what arrives stays.        *)
LEMMA Spliced ==
  ASSUME NEW S, NEW f \in Seq(S), NEW q \in Seq(S), NEW k \in 0 .. Len(q)
  PROVE  /\ f \o SubSeq(q, 1, k) \in Seq(S) /\ SubSeq(q, k + 1, Len(q)) \in Seq(S)
         /\ (f \o SubSeq(q, 1, k)) \o SubSeq(q, k + 1, Len(q)) = f \o q
         /\ Begins((f \o SubSeq(q, 1, k)) \o <<>>, f \o q)
<1> DEFINE l == Len(q)
           h == SubSeq(q, 1, k)
           n == k + 1
           t == SubSeq(q, n, l)
<1>1. l \in Nat /\ k \in Nat /\ k <= l /\ n = k + 1
  OBVIOUS
<1>2. h \in Seq(S) /\ Len(h) = k /\ \A i \in 1 .. k : h[i] = q[i]
  OBVIOUS
<1>3. n \in Int /\ l \in Int /\ \A i \in n .. l : q[i] \in S
  OBVIOUS
<1> HIDE DEF n
<1>4. /\ SubSeq(q, n, l) \in Seq(S)
      /\ Len(SubSeq(q, n, l)) = IF n <= l THEN l - n + 1 ELSE 0
      /\ \A i \in 1 .. l - n + 1 : SubSeq(q, n, l)[i] = q[n + i - 1]
  BY <1>3, SubSeqProperties
<1> HIDE DEF l, h, t
<1>5. /\ t \in Seq(S)
      /\ Len(t) = IF n <= l THEN l - n + 1 ELSE 0
      /\ \A i \in 1 .. l - n + 1 : t[i] = q[n + i - 1]
  BY <1>4, Zenon DEF t
<1>6. Len(t) = l - k /\ \A i \in 1 .. l - k : t[i] = q[k + i]
  <2>1. CASE n <= l
    <3>1. Len(t) = l - n + 1
      BY <1>5, <2>1
    <3>2. l - n + 1 = l - k
      BY <1>1
    <3>3. ASSUME NEW i \in 1 .. l - k PROVE t[i] = q[k + i]
      <4>1. i \in 1 .. l - n + 1 /\ n + i - 1 = k + i
        BY <1>1
      <4> QED
        BY <1>5, <4>1
    <3> QED
      BY <3>1, <3>2, <3>3
  <2>2. CASE ~ (n <= l)
    <3>1. Len(t) = 0
      BY <1>5, <2>2
    <3>2. l - k = 0
      BY <1>1, <2>2
    <3> QED
      BY <3>1, <3>2
  <2> QED
    BY <2>1, <2>2
<1>7. /\ f \o h \in Seq(S) /\ Len(f \o h) = Len(f) + k /\ Len(f) \in Nat
      /\ \A i \in 1 .. Len(f) : (f \o h)[i] = f[i]
      /\ \A i \in 1 .. k : (f \o h)[Len(f) + i] = h[i]
  <2>1. /\ f \o h \in Seq(S) /\ Len(f \o h) = Len(f) + Len(h) /\ Len(f) \in Nat
        /\ \A i \in 1 .. Len(f) : (f \o h)[i] = f[i]
        /\ \A i \in 1 .. Len(h) : (f \o h)[Len(f) + i] = h[i]
    BY <1>2
  <2> QED
    BY <1>2, <2>1, Zenon
<1>8. /\ f \o q \in Seq(S) /\ Len(f \o q) = Len(f) + l
      /\ \A i \in 1 .. Len(f) : (f \o q)[i] = f[i]
      /\ \A i \in 1 .. l : (f \o q)[Len(f) + i] = q[i]
  BY OneAfterOther DEF l
<1> DEFINE u == f \o h
           w == f \o q
<1> HIDE DEF u, w
<1>9. \A i \in 1 .. Len(f) + k : u[i] = w[i]
  <2> TAKE i \in 1 .. Len(f) + k
  <2>1. CASE i \in 1 .. Len(f)
    BY <1>7, <1>8, <2>1 DEF u, w
  <2>2. CASE i \notin 1 .. Len(f)
    <3>1. i - Len(f) \in 1 .. k /\ i - Len(f) \in 1 .. l /\ Len(f) + (i - Len(f)) = i
      BY <1>1, <1>7, <2>2
    <3>2. u[i] = h[i - Len(f)] /\ w[i] = q[i - Len(f)]
      BY <1>7, <1>8, <3>1 DEF u, w
    <3> QED
      BY <1>2, <3>1, <3>2
  <2> QED
    BY <2>1, <2>2
<1>10. /\ u \o t \in Seq(S) /\ Len(u \o t) = Len(f) + l
       /\ \A i \in 1 .. Len(f) + k : (u \o t)[i] = u[i]
       /\ \A i \in 1 .. l - k : (u \o t)[Len(f) + k + i] = t[i]
  <2>1. u \in Seq(S) /\ Len(u) = Len(f) + k
    BY <1>7 DEF u
  <2>4. u \in Seq(S) /\ t \in Seq(S)
    BY <1>5, <2>1
  <2>2. /\ u \o t \in Seq(S) /\ Len(u \o t) = Len(u) + Len(t)
        /\ \A i \in 1 .. Len(u) : (u \o t)[i] = u[i]
        /\ \A i \in 1 .. Len(t) : (u \o t)[Len(u) + i] = t[i]
    BY <2>4
  <2>3. Len(u) + Len(t) = Len(f) + l
    BY <1>1, <1>6, <1>7, <2>1
  <2> QED
    BY <1>6, <2>1, <2>2, <2>3
<1>11. \A i \in 1 .. Len(f) + l : (u \o t)[i] = w[i]
  <2> TAKE i \in 1 .. Len(f) + l
  <2>1. CASE i \in 1 .. Len(f) + k
    BY <1>9, <1>10, <2>1
  <2>2. CASE i \notin 1 .. Len(f) + k
    <3>1. /\ i - (Len(f) + k) \in 1 .. l - k /\ Len(f) + k + (i - (Len(f) + k)) = i
          /\ i - Len(f) \in 1 .. l /\ Len(f) + (i - Len(f)) = i /\ k + (i - (Len(f) + k)) = i - Len(f)
      BY <1>1, <1>7, <2>2
    <3>2. (u \o t)[i] = t[i - (Len(f) + k)] /\ w[i] = q[i - Len(f)]
      BY <1>8, <1>10, <3>1 DEF w
    <3> QED
      BY <1>6, <3>1, <3>2
  <2> QED
    BY <2>1, <2>2
<1>12. u \o t = w
  <2>1. w \in Seq(S) /\ Len(w) = Len(u \o t)
    BY <1>8, <1>10 DEF w
  <2> QED
    BY <1>10, <1>11, <2>1, SameSeq
<1>13. Begins(u \o <<>>, w)
  <2>1. u \in Seq(S) /\ Len(u) = Len(f) + k
    BY <1>7 DEF u
  <2>2. u \o <<>> = u
    BY <2>1
  <2>3. Len(w) = Len(f) + l
    BY <1>8 DEF w
  <2> QED
    BY <1>1, <1>7, <1>9, <2>1, <2>2, <2>3 DEF Begins
<1> QED
  BY <1>5, <1>7, <1>12, <1>13 DEF u, w, h, t, n, l

(* What is in order begins in order.                                       *)
LEMMA BeginsOrdered ==
  ASSUME NEW f \in Seq(InputEntries), NEW g \in Seq(InputEntries), NEW p, NEW b, Begins(f, g), Ordered(g, p, b)
  PROVE  Ordered(f, p, b)
<1>1. DOMAIN f = 1 .. Len(f) /\ DOMAIN g = 1 .. Len(g) /\ Len(f) \in Nat /\ Len(g) \in Nat
  OBVIOUS
<1>2. \A i \in DOMAIN f : i \in DOMAIN g /\ f[i] = g[i]
  BY <1>1 DEF Begins
<1> QED
  BY <1>2 DEF Ordered, InOrder

(* A newer entry at the end.                                               *)
LEMMA AppendOrdered ==
  ASSUME NEW f \in Seq(InputEntries), NEW g \in Seq(InputEntries), NEW e, NEW p, NEW b \in Int, NEW c \in Int, b <= c,
         Newer(e, p, b, c), Ordered(f, p, b), Extended(f, g, e)
  PROVE  Ordered(g, p, c)
<1>1. /\ DOMAIN f = 1 .. Len(f) /\ DOMAIN g = 1 .. Len(g) /\ Len(f) \in Nat
      /\ \A i \in DOMAIN g : i \in DOMAIN f \/ i = Len(g)
      /\ \A i \in DOMAIN f : i < Len(g) /\ g[i] = f[i]
      /\ g[Len(g)] = e
  BY DEF Extended, Begins
<1>2. \A i \in DOMAIN g : g[i] \in InputEntries
  OBVIOUS
<1>3. \A i \in DOMAIN g : \A a \in DOMAIN g[i].ids : g[i].ids[a] \in Nat
  BY <1>2 DEF InputEntries
<1>4. ASSUME NEW i \in DOMAIN g, NEW j \in DOMAIN g, NEW x \in DOMAIN g[i].ids, NEW y \in DOMAIN g[j].ids,
             i < j \/ (i = j /\ x < y)
      PROVE  g[i].ids[x] < g[j].ids[y]
  <2>1. CASE j \in DOMAIN f
    <3>1. i \in DOMAIN f
      BY <1>1, <1>4, <2>1
    <3> QED
      BY <1>1, <1>4, <2>1, <3>1 DEF Ordered, InOrder
  <2>2. CASE j = Len(g)
    <3>1. b < g[j].ids[y]
      BY <1>1, <2>2 DEF Newer
    <3>2. CASE i = j
      BY <1>1, <1>4, <2>2, <3>2 DEF Newer
    <3>3. CASE i # j
      <4>1. i \in DOMAIN f /\ g[i] = f[i]
        BY <1>1, <2>2, <3>3
      <4>2. g[i].ids[x] <= b
        BY <4>1 DEF Ordered
      <4> QED
        BY <1>3, <3>1, <4>2
    <3> QED
      BY <3>2, <3>3
  <2> QED
    BY <1>1, <2>1, <2>2
<1>5. ASSUME NEW i \in DOMAIN g PROVE g[i].for = p /\ \A a \in DOMAIN g[i].ids : g[i].ids[a] <= c
  <2>1. CASE i \in DOMAIN f
    <3>1. g[i].for = p /\ \A a \in DOMAIN g[i].ids : g[i].ids[a] <= b
      BY <1>1, <2>1 DEF Ordered
    <3> QED
      BY <1>3, <3>1
  <2>2. CASE i = Len(g)
    BY <1>1, <2>2 DEF Newer
  <2> QED
    BY <1>1, <2>1, <2>2
<1> QED
  BY <1>4, <1>5 DEF Ordered, InOrder

(* enqueueInput joins a newer entry to the last one or replaces it.        *)
LEMMA JoinedOrdered ==
  ASSUME NEW f \in Seq(InputEntries), NEW g \in Seq(InputEntries), NEW p, NEW b \in Int, NEW c \in Int, b <= c,
         Ordered(f, p, b), NEW e, Newer(e, p, b, c), JoinedTo(f, g, e, p)
  PROVE  Ordered(g, p, c)
<1> DEFINE l == Len(f)
           last == g[l].ids
           old == f[l].ids
<1>1. /\ DOMAIN f = 1 .. l /\ DOMAIN g = 1 .. l /\ l \in Nat \ {0}
      /\ \A i \in 1 .. l : i # l => i < l /\ g[i] = f[i]
      /\ l \in 1 .. l /\ Len(g) = l
  BY DEF JoinedTo
<1>2. \A i \in 1 .. l : g[i] \in InputEntries /\ f[i] \in InputEntries
  <2>1. \A i \in 1 .. Len(f) : f[i] \in InputEntries
    OBVIOUS
  <2>2. \A i \in 1 .. Len(g) : g[i] \in InputEntries
    OBVIOUS
  <2> QED
    BY <1>1, <2>1, <2>2
<1>3. \A i \in 1 .. l : /\ \A a \in DOMAIN g[i].ids : g[i].ids[a] \in Nat
                        /\ \A a \in DOMAIN f[i].ids : f[i].ids[a] \in Nat
  <2> TAKE i \in 1 .. l
  <2>1. g[i].ids \in Seq(Nat) /\ f[i].ids \in Seq(Nat)
    BY <1>2 DEF InputEntries
  <2> QED
    BY <2>1, ElementsIn, Zenon
<1>4. old \in Seq(Nat) /\ e.ids \in Seq(Nat)
  BY <1>1, <1>2 DEF InputEntries, Newer
<1>5. /\ \A x, y \in DOMAIN last : x < y => last[x] < last[y]
      /\ \A x \in DOMAIN last : (b < last[x] /\ last[x] <= c) \/ (\E a \in DOMAIN old : last[x] = old[a])
  <2>1. CASE last = e.ids
    BY <2>1 DEF Newer
  <2>2. CASE last = old \o e.ids
    <3> HIDE DEF last, old, l
    <3> DEFINE n == e.ids
    <3>1. n \in Seq(Nat) /\ \A x, y \in DOMAIN n : x < y => n[x] < n[y]
      BY <1>4 DEF Newer
    <3>2. \A x \in DOMAIN n : b < n[x] /\ n[x] <= c
      BY DEF Newer
    <3>3. \A x, y \in DOMAIN old : x < y => old[x] < old[y]
      BY <1>1 DEF Ordered, InOrder, old
    <3>4. \A x \in DOMAIN old : old[x] <= b
      BY <1>1 DEF Ordered, old
    <3> HIDE DEF n
    <3>5. /\ DOMAIN last = 1 .. Len(old) + Len(n) /\ Len(old) \in Nat /\ Len(n) \in Nat
          /\ \A i \in 1 .. Len(old) : last[i] = old[i]
          /\ \A i \in 1 .. Len(n) : last[Len(old) + i] = n[i]
      BY <1>4, <2>2, <3>1, OneAfterOther DEF n
    <3>6. DOMAIN old = 1 .. Len(old) /\ DOMAIN n = 1 .. Len(n)
      BY <1>4, <3>1
    <3>7. \A x \in DOMAIN last : \/ x \in DOMAIN old /\ last[x] = old[x]
                                 \/ x - Len(old) \in DOMAIN n /\ last[x] = n[x - Len(old)] /\ Len(old) < x
      <4> TAKE x \in DOMAIN last
      <4>1. x \in 1 .. Len(old) \/ (x - Len(old) \in 1 .. Len(n) /\ Len(old) + (x - Len(old)) = x /\ Len(old) < x)
        BY <3>5
      <4> QED
        BY <3>5, <3>6, <4>1
    <3>8. \A x \in DOMAIN old : old[x] \in Nat
      BY <1>4
    <3>9. \A x \in DOMAIN n : n[x] \in Nat
      BY <3>1
    <3>10. ASSUME NEW x \in DOMAIN last, NEW y \in DOMAIN last, x < y PROVE last[x] < last[y]
      <4>0. x \in Nat /\ y \in Nat
        BY <3>5
      <4>1. CASE y \in DOMAIN old /\ last[y] = old[y]
        <5>1. x \in DOMAIN old /\ last[x] = old[x]
          BY <3>5, <3>6, <3>10, <4>0, <4>1
        <5> QED
          BY <3>3, <3>10, <4>1, <5>1
      <4>2. CASE y - Len(old) \in DOMAIN n /\ last[y] = n[y - Len(old)]
        <5>1. CASE x \in DOMAIN old /\ last[x] = old[x]
          BY <3>2, <3>4, <3>8, <3>9, <4>2, <5>1
        <5>2. CASE x - Len(old) \in DOMAIN n /\ last[x] = n[x - Len(old)]
          <6>1. x - Len(old) < y - Len(old)
            BY <3>5, <3>10, <4>0
          <6> QED
            BY <3>1, <4>2, <5>2, <6>1
        <5> QED
          BY <3>7, <5>1, <5>2
      <4> QED
        BY <3>7, <4>1, <4>2
    <3>11. ASSUME NEW x \in DOMAIN last
           PROVE  (b < last[x] /\ last[x] <= c) \/ (\E a \in DOMAIN old : last[x] = old[a])
      BY <3>2, <3>7
    <3> QED
      BY <3>10, <3>11
  <2> QED
    BY <2>1, <2>2 DEF JoinedTo
<1>6. \A a \in DOMAIN old : old[a] <= b
  BY <1>1 DEF Ordered
<1>7. \A i \in 1 .. l : i # l => \A a \in DOMAIN g[i].ids : /\ g[i].ids[a] <= b
                                                            /\ \A x \in DOMAIN old : g[i].ids[a] < old[x]
  BY <1>1 DEF Ordered, InOrder
<1>8. l \in 1 .. l /\ g[l].for = p
  BY <1>1 DEF JoinedTo
<1>9. \A i, j \in 1 .. l : i # l /\ j # l =>
        \A x \in DOMAIN g[i].ids, y \in DOMAIN g[j].ids : i < j \/ (i = j /\ x < y) => g[i].ids[x] < g[j].ids[y]
  BY <1>1 DEF Ordered, InOrder
<1>10. \A i \in 1 .. l : i # l => g[i].for = p
  BY <1>1 DEF Ordered
<1> HIDE DEF l
<1>11. ASSUME NEW i \in 1 .. l, NEW j \in 1 .. l, NEW x \in DOMAIN g[i].ids, NEW y \in DOMAIN g[j].ids,
              i < j \/ (i = j /\ x < y)
       PROVE  g[i].ids[x] < g[j].ids[y]
  <2>1. CASE j # l
    <3>1. i # l
      <4>1. i \in Nat /\ j \in Nat /\ j <= l /\ i <= l /\ (i < j \/ i = j)
        BY <1>1, <1>11
      <4> QED
        BY <1>1, <2>1, <4>1
    <3> QED
      BY <1>9, <1>11, <2>1, <3>1
  <2>2. CASE j = l /\ i = l
    <3>1. x < y /\ x \in DOMAIN last /\ y \in DOMAIN last
      <4>1. ~ (i < j)
        BY <1>1, <2>2
      <4> QED
        BY <1>11, <2>2, <4>1
    <3> QED
      BY <1>5, <2>2, <3>1
  <2>3. CASE j = l /\ i # l
    <3>1. y \in DOMAIN last /\ g[j].ids[y] = last[y] /\ last[y] \in Nat /\ g[i].ids[x] \in Nat
      BY <1>3, <2>3
    <3>2. g[i].ids[x] <= b /\ \A a \in DOMAIN old : g[i].ids[x] < old[a]
      BY <1>7, <2>3
    <3>3. b < last[y] \/ \E a \in DOMAIN old : last[y] = old[a]
      BY <1>5, <3>1
    <3> HIDE DEF last, old
    <3> QED
      BY <3>1, <3>2, <3>3
  <2> QED
    BY <2>1, <2>2, <2>3
<1>12. ASSUME NEW i \in 1 .. l PROVE g[i].for = p /\ \A a \in DOMAIN g[i].ids : g[i].ids[a] <= c
  <2>1. CASE i # l
    BY <1>3, <1>7, <1>10, <2>1
  <2>2. CASE i = l
    <3>1. \A x \in DOMAIN last : last[x] \in Nat
      BY <1>3, <1>8
    <3>2. \A a \in DOMAIN old : old[a] \in Nat
      BY <1>3, <1>8
    <3> HIDE DEF old
    <3>3. \A x \in DOMAIN last : last[x] <= c
      BY <1>5, <1>6, <3>1, <3>2
    <3> QED
      BY <1>8, <2>2, <3>3
  <2> QED
    BY <2>1, <2>2
<1> QED
  BY <1>1, <1>11, <1>12 DEF Ordered, InOrder

\* What a step does to the flow of p: t has it as it was, or has dropped its end.
Settles(s, t, p) ==
  /\ t \in Ios
  /\ \A o \in InputPanes \ {p} : t.sent[o] = s.sent[o] /\ t.queue[o] = s.queue[o]
  /\ s.lost \subseteq t.lost /\ t.lost \subseteq s.lost \cup {p}
  /\ Begins(FlowOf(t, p), FlowOf(s, p))
  /\ p \notin t.lost => FlowOf(t, p) = FlowOf(s, p)

(* The flow of a pane.                                                     *)
LEMMA FlowType ==
  ASSUME NEW s \in Ios, NEW p \in InputPanes
  PROVE  s.sent[p] \in Seq(InputEntries) /\ s.queue[p] \in Seq(InputEntries) /\ FlowOf(s, p) \in Seq(InputEntries)
<1>1. s.sent[p] \in Seq(InputEntries) /\ s.queue[p] \in Seq(InputEntries)
  BY DEF Ios
<1> QED
  BY <1>1, OneAfterOther DEF FlowOf

(* What drainInput and flushPTYInput do to a view.                         *)
LEMMA DrainedSettles ==
  ASSUME NEW s \in Ios, NEW p \in InputPanes, NEW t \in Drained(s, p)
  PROVE  Settles(s, t, p)
<1> DEFINE S == InputEntries
           q == s.queue[p]
           f == s.sent[p]
<1>1. /\ s.queue \in [InputPanes -> Seq(S)] /\ s.sent \in [InputPanes -> Seq(S)] /\ s.lost \subseteq InputPanes
      /\ s = [queue |-> s.queue, sent |-> s.sent, lost |-> s.lost]
  BY DEF Ios
<1>2. q \in Seq(S) /\ f \in Seq(S) /\ Len(q) \in Nat
  BY <1>1
<1>3. \/ \E k \in 0 .. Len(q) :
           t = [s EXCEPT !.sent[p] = @ \o SubSeq(q, 1, k), !.queue[p] = SubSeq(q, k + 1, Len(q))]
      \/ \E k \in 0 .. Len(q) - 1 :
           t = [[s EXCEPT !.sent[p] = @ \o SubSeq(q, 1, k), !.queue[p] = <<>>] EXCEPT !.lost = @ \cup {p}]
  BY DEF Drained
<1>4. CASE \E k \in 0 .. Len(q) :
             t = [s EXCEPT !.sent[p] = @ \o SubSeq(q, 1, k), !.queue[p] = SubSeq(q, k + 1, Len(q))]
  <2>1. PICK k \in 0 .. Len(q) :
             t = [s EXCEPT !.sent[p] = @ \o SubSeq(q, 1, k), !.queue[p] = SubSeq(q, k + 1, Len(q))]
    BY <1>4
  <2> DEFINE new == f \o SubSeq(q, 1, k)
             rest == SubSeq(q, k + 1, Len(q))
  <2>2. /\ t.sent = [s.sent EXCEPT ![p] = new]
        /\ t.queue = [s.queue EXCEPT ![p] = rest]
        /\ t.lost = s.lost /\ t = [queue |-> t.queue, sent |-> t.sent, lost |-> t.lost]
    BY <1>1, <2>1
  <2>3. new \in Seq(S) /\ rest \in Seq(S) /\ new \o rest = f \o q
    <3> HIDE DEF S, q, f
    <3>1. k \in 0 .. Len(q)
      BY DEF q
    <3>2. /\ f \o SubSeq(q, 1, k) \in Seq(S) /\ SubSeq(q, k + 1, Len(q)) \in Seq(S)
          /\ (f \o SubSeq(q, 1, k)) \o SubSeq(q, k + 1, Len(q)) = f \o q
          /\ Begins((f \o SubSeq(q, 1, k)) \o <<>>, f \o q)
      <4>1. q \in Seq(S) /\ f \in Seq(S)
        BY <1>2
      <4> HIDE DEF new, rest
      <4> QED
        BY <3>1, <4>1, Spliced, Zenon
    <3> QED
      BY <3>2, Zenon
  <2> HIDE DEF new, rest
  <2>4. t.sent[p] = new /\ t.queue[p] = rest /\ t \in Ios
    <3> HIDE DEF S
    <3>1. t.sent \in [InputPanes -> Seq(S)] /\ t.queue \in [InputPanes -> Seq(S)] /\ t.lost \subseteq InputPanes
      BY <1>1, <2>2, <2>3
    <3>2. t \in Ios
      BY <2>2, <3>1 DEF Ios, S
    <3> QED
      BY <1>1, <2>2, <3>2
  <2>5. FlowOf(t, p) = FlowOf(s, p)
    BY <2>3, <2>4, Zenon DEF FlowOf
  <2>6. Len(FlowOf(s, p)) \in Nat
    BY FlowType
  <2>7. Begins(FlowOf(t, p), FlowOf(s, p))
    BY <2>5, <2>6 DEF Begins
  <2> QED
    BY <1>1, <2>2, <2>4, <2>5, <2>7 DEF Settles
<1>5. CASE \E k \in 0 .. Len(q) - 1 :
             t = [[s EXCEPT !.sent[p] = @ \o SubSeq(q, 1, k), !.queue[p] = <<>>] EXCEPT !.lost = @ \cup {p}]
  <2>1. PICK k \in 0 .. Len(q) - 1 :
             t = [[s EXCEPT !.sent[p] = @ \o SubSeq(q, 1, k), !.queue[p] = <<>>] EXCEPT !.lost = @ \cup {p}]
    BY <1>5
  <2> DEFINE new == f \o SubSeq(q, 1, k)
  <2>2. /\ t.sent = [s.sent EXCEPT ![p] = new]
        /\ t.queue = [s.queue EXCEPT ![p] = <<>>]
        /\ t.lost = s.lost \cup {p} /\ t = [queue |-> t.queue, sent |-> t.sent, lost |-> t.lost]
    BY <1>1, <2>1
  <2>3. k \in 0 .. Len(q)
    BY <1>2
  <2>4. new \in Seq(S) /\ Begins(new \o <<>>, f \o q)
    BY <1>2, <2>3, Spliced
  <2> HIDE DEF new
  <2>5. t.sent[p] = new /\ t.queue[p] = <<>> /\ t \in Ios
    <3> HIDE DEF S
    <3>1. t.sent \in [InputPanes -> Seq(S)] /\ t.queue \in [InputPanes -> Seq(S)] /\ t.lost \subseteq InputPanes
      BY <1>1, <2>2, <2>4
    <3>2. t \in Ios
      BY <2>2, <3>1 DEF Ios, S
    <3> QED
      BY <1>1, <2>2, <3>2
  <2>6. Begins(FlowOf(t, p), FlowOf(s, p))
    BY <2>4, <2>5, Zenon DEF FlowOf
  <2> QED
    BY <1>1, <2>2, <2>5, <2>6 DEF Settles
<1> QED
  BY <1>3, <1>4, <1>5

(* Such a step keeps the order, and owes no more releases.                 *)
LEMMA SettlesKeeps ==
  ASSUME NEW s, NEW b, Proper(s, b), NEW p \in InputPanes, NEW t, Settles(s, t, p)
  PROVE  Proper(t, b) /\ Owed(t) \subseteq Owed(s)
<1>1. s \in Ios /\ t \in Ios
  BY DEF Proper, Settles
<1>2. ASSUME NEW o \in InputPanes PROVE Ordered(FlowOf(t, o), o, b)
  <2>1. CASE o = p
    <3>1. Begins(FlowOf(t, p), FlowOf(s, p)) /\ Ordered(FlowOf(s, p), p, b)
      BY DEF Settles, Proper
    <3>2. FlowOf(t, p) \in Seq(InputEntries) /\ FlowOf(s, p) \in Seq(InputEntries)
      BY <1>1, FlowType
    <3> QED
      BY <2>1, <3>1, <3>2, BeginsOrdered
  <2>2. CASE o # p
    <3>1. FlowOf(t, o) = FlowOf(s, o)
      BY <2>2 DEF Settles, FlowOf
    <3> QED
      BY <3>1 DEF Proper
  <2> QED
    BY <2>1, <2>2
<1>3. ASSUME NEW o \in Owed(t) PROVE o \in Owed(s)
  <2>1. o \in InputPanes /\ o \notin t.lost /\ o \notin s.lost /\ ~ Released(FlowOf(t, o))
    BY <1>3 DEF Owed, Settles
  <2>2. FlowOf(t, o) = FlowOf(s, o)
    BY <2>1 DEF Settles, FlowOf
  <2> QED
    BY <2>1, <2>2 DEF Owed
<1> QED
  BY <1>1, <1>2, <1>3 DEF Proper

\* A step that puts an entry of kind into the flow of p.
Puts(s, t, p, kind, c) ==
  /\ Proper(t, c)
  /\ Owed(t) \subseteq Owed(s) \cup {p}
  /\ kind # "press" => Owed(t) \subseteq Owed(s)
  /\ kind = "release" => p \notin Owed(t)

(* An entry at the end of the flow of p.                                   *)
LEMMA EntryPut ==
  ASSUME NEW s, NEW b \in Int, NEW c \in Int, b <= c, Proper(s, b), NEW p \in InputPanes, NEW e, Newer(e, p, b, c),
         NEW t \in Ios, \A o \in InputPanes \ {p} : t.sent[o] = s.sent[o] /\ t.queue[o] = s.queue[o],
         t.lost = s.lost,
         Extended(FlowOf(s, p), FlowOf(t, p), e) \/ JoinedTo(FlowOf(s, p), FlowOf(t, p), e, p)
  PROVE  Puts(s, t, p, e.kind, c)
<1> DEFINE f == FlowOf(s, p)
           g == FlowOf(t, p)
           last == Extended(f, g, e)
           joined == JoinedTo(f, g, e, p)
<1>1. f \in Seq(InputEntries) /\ g \in Seq(InputEntries) /\ Ordered(f, p, b) /\ s \in Ios
  BY FlowType DEF Proper
<1>2. last \/ joined
  OBVIOUS
<1> HIDE DEF f, g
<1>3. Ordered(g, p, c)
  <2>1. CASE last
    BY <1>1, <2>1, AppendOrdered
  <2>2. CASE joined
    BY <1>1, <2>2, JoinedOrdered
  <2> QED
    BY <1>2, <2>1, <2>2
<1>4. \A o \in InputPanes \ {p} : FlowOf(t, o) = FlowOf(s, o)
  BY DEF FlowOf
<1>5. ASSUME NEW o \in InputPanes PROVE Ordered(FlowOf(t, o), o, c)
  <2>1. CASE o = p
    BY <1>3, <2>1 DEF g
  <2>2. CASE o # p
    <3> DEFINE h == FlowOf(s, o)
    <3>1. FlowOf(t, o) = h /\ Ordered(h, o, b) /\ h \in Seq(InputEntries)
      BY <1>1, <1>4, <2>2, FlowType DEF Proper
    <3> HIDE DEF h
    <3>2. \A i \in DOMAIN h : h[i] \in InputEntries
      BY <3>1
    <3>3. \A i \in DOMAIN h : \A a \in DOMAIN h[i].ids : h[i].ids[a] \in Nat
      BY <3>2 DEF InputEntries
    <3> QED
      BY <3>1, <3>3 DEF Ordered
  <2> QED
    BY <2>1, <2>2
<1>6. /\ DOMAIN f = 1 .. Len(f) /\ DOMAIN g = 1 .. Len(g) /\ Len(f) \in Nat /\ Len(g) \in Nat
  BY <1>1
<1>7. ASSUME Released(f), e.kind # "press" PROVE Released(g)
  <2>1. CASE last
    <3>1. \A i \in DOMAIN f : g[i] = f[i] /\ i \in DOMAIN g
      BY <1>6, <2>1 DEF Extended, Begins
    <3>2. \A i \in DOMAIN g : g[i].kind = "press" => i \in DOMAIN f
      BY <1>6, <1>7, <2>1 DEF Extended
    <3> QED
      BY <1>7, <3>1, <3>2 DEF Released
  <2>2. CASE joined
    <3>1. \A i \in DOMAIN f : g[i].kind = f[i].kind /\ i \in DOMAIN g
      BY <1>6, <2>2 DEF JoinedTo
    <3>2. DOMAIN f = DOMAIN g
      BY <1>6, <2>2 DEF JoinedTo
    <3> QED
      BY <1>7, <3>1, <3>2 DEF Released
  <2> QED
    BY <1>2, <2>1, <2>2
<1>8. ASSUME e.kind = "release" PROVE Released(g)
  <2>1. last
    BY <1>2, <1>8 DEF JoinedTo
  <2>2. \A i \in DOMAIN g : g[i].kind = "press" => i < Len(g) /\ Len(g) \in DOMAIN g
    BY <1>6, <1>8, <2>1 DEF Extended
  <2>3. g[Len(g)].kind = "release"
    BY <1>8, <2>1 DEF Extended
  <2> QED
    BY <2>2, <2>3 DEF Released
<1>9. ASSUME NEW o \in Owed(t), o # p PROVE o \in Owed(s)
  BY <1>4, <1>9 DEF Owed
<1>10. ASSUME p \in Owed(t) PROVE e.kind # "release" /\ (e.kind # "press" => p \in Owed(s))
  BY <1>7, <1>8, <1>10 DEF Owed, f, g
<1> QED
  BY <1>5, <1>9, <1>10 DEF Puts, Proper

(* Draining afterwards changes nothing of that.                            *)
LEMMA PutsThenSettles ==
  ASSUME NEW s, NEW u, NEW t, NEW p \in InputPanes, NEW kind, NEW c, Puts(s, u, p, kind, c), Settles(u, t, p)
  PROVE  Puts(s, t, p, kind, c)
<1>1. Proper(u, c)
  BY DEF Puts
<1>2. Proper(t, c) /\ Owed(t) \subseteq Owed(u)
  BY <1>1, SettlesKeeps
<1> QED
  BY <1>2 DEF Puts

(* The same inputs, when the user has typed more.                          *)
LEMMA ProperLater ==
  ASSUME NEW s, NEW b \in Int, NEW c \in Int, b <= c, Proper(s, b)
  PROVE  Proper(s, c)
<1>1. s \in Ios
  BY DEF Proper
<1>2. ASSUME NEW p \in InputPanes PROVE Ordered(FlowOf(s, p), p, c)
  <2> DEFINE f == FlowOf(s, p)
  <2>1. f \in Seq(InputEntries) /\ Ordered(f, p, b)
    BY <1>1, FlowType DEF Proper
  <2> HIDE DEF f
  <2>2. \A i \in DOMAIN f : f[i] \in InputEntries
    BY <2>1
  <2>3. \A i \in DOMAIN f : \A a \in DOMAIN f[i].ids : f[i].ids[a] \in Nat
    BY <2>2 DEF InputEntries
  <2>4. Ordered(f, p, c)
    BY <2>1, <2>3 DEF Ordered
  <2> QED
    BY <2>4 DEF f
<1> QED
  BY <1>1, <1>2 DEF Proper

(* queuePTYInput puts the entry into the flow of its pane.                 *)
LEMMA QueuedPuts ==
  ASSUME NEW s, NEW b \in Int, NEW c \in Int, b <= c, Proper(s, b), NEW p \in InputPanes, NEW e, Newer(e, p, b, c),
         NEW t \in Queued(s, p, e)
  PROVE  Puts(s, t, p, e.kind, c)
<1> DEFINE S == InputEntries
           q == s.queue[p]
           f == s.sent[p]
<1>1. /\ s.queue \in [InputPanes -> Seq(S)] /\ s.sent \in [InputPanes -> Seq(S)] /\ s.lost \subseteq InputPanes
      /\ s = [queue |-> s.queue, sent |-> s.sent, lost |-> s.lost] /\ s \in Ios
  BY DEF Ios, Proper
<1>2. q \in Seq(S) /\ f \in Seq(S) /\ Len(q) \in Nat /\ e \in S
  BY <1>1 DEF Newer
<1>3. /\ FlowOf(s, p) \in Seq(S) /\ Len(FlowOf(s, p)) = Len(f) + Len(q) /\ Len(f) \in Nat
      /\ \A i \in 1 .. Len(f) : FlowOf(s, p)[i] = f[i]
      /\ \A i \in 1 .. Len(q) : FlowOf(s, p)[Len(f) + i] = q[i]
  <2>1. FlowOf(s, p) = f \o q
    BY DEF FlowOf
  <2> HIDE DEF S, q, f
  <2>2. f \in Seq(S) /\ q \in Seq(S)
    BY <1>2
  <2>3. /\ f \o q \in Seq(S) /\ Len(f \o q) = Len(f) + Len(q) /\ Len(f) \in Nat
        /\ \A i \in 1 .. Len(f) : (f \o q)[i] = f[i]
        /\ \A i \in 1 .. Len(q) : (f \o q)[Len(f) + i] = q[i]
    BY <2>2
  <2> QED
    BY <2>1, <2>3, Zenon
<1>4. ASSUME NEW r \in Seq(S), t \in Drained([s EXCEPT !.queue[p] = r], p),
             \/ r = Append(q, e)
             \/ Joins(q, e) /\ r = Joined(q, e)
      PROVE  Puts(s, t, p, e.kind, c)
  <2> DEFINE u == [s EXCEPT !.queue[p] = r]
  <2>1. u.sent = s.sent /\ u.queue = [s.queue EXCEPT ![p] = r] /\ u.lost = s.lost /\ u \in Ios
    BY <1>1, <1>4 DEF Ios
  <2> HIDE DEF u
  <2>2. /\ \A o \in InputPanes \ {p} : u.sent[o] = s.sent[o] /\ u.queue[o] = s.queue[o]
        /\ u.sent[p] = f /\ u.queue[p] = r
    BY <1>1, <2>1
  <2> DEFINE g == FlowOf(s, p)
             h == FlowOf(u, p)
  <2>3. /\ h \in Seq(S) /\ Len(h) = Len(f) + Len(r) /\ Len(r) \in Nat
        /\ \A i \in 1 .. Len(f) : h[i] = f[i]
        /\ \A i \in 1 .. Len(r) : h[Len(f) + i] = r[i]
    <3>1. h = f \o r
      BY <2>2 DEF FlowOf
    <3> HIDE DEF S, q, f, h
    <3>2. f \in Seq(S) /\ r \in Seq(S)
      BY <1>2, <1>4
    <3>3. /\ f \o r \in Seq(S) /\ Len(f \o r) = Len(f) + Len(r) /\ Len(r) \in Nat
          /\ \A i \in 1 .. Len(f) : (f \o r)[i] = f[i]
          /\ \A i \in 1 .. Len(r) : (f \o r)[Len(f) + i] = r[i]
      BY <3>2
    <3> QED
      BY <3>1, <3>3, Zenon
  <2>6. g = FlowOf(s, p) /\ h = FlowOf(u, p)
    OBVIOUS
  <2> HIDE DEF g, h
  <2>7. /\ Len(g) = Len(f) + Len(q) /\ Len(f) \in Nat /\ Len(q) \in Nat
        /\ \A i \in 1 .. Len(f) : g[i] = f[i]
        /\ \A i \in 1 .. Len(q) : g[Len(f) + i] = q[i]
    BY <1>2, <1>3, <2>6, Zenon
  <2>8. q \in Seq(S) /\ Ordered(g, p, b)
    BY <1>2, <2>6 DEF Proper
  <2> HIDE DEF S, q, f
  <2>4. CASE r = Append(q, e)
    <3>1. Len(r) = Len(q) + 1 /\ r[Len(r)] = e /\ \A i \in 1 .. Len(q) : r[i] = q[i]
      BY <1>2, <2>4
    <3>5. Len(r) \in Nat /\ Len(r) \in 1 .. Len(r)
      BY <2>7, <3>1
    <3>2. Len(h) = Len(g) + 1 /\ h[Len(h)] = e
      <4>1. Len(h) = Len(f) + Len(r) /\ h[Len(f) + Len(r)] = r[Len(r)]
        BY <2>3, <3>5
      <4>2. Len(h) = Len(g) + 1
        BY <2>7, <3>1, <4>1
      <4> QED
        BY <3>1, <4>1, <4>2
    <3>3. Begins(g, h)
      <4>1. ASSUME NEW i \in 1 .. Len(g) PROVE g[i] = h[i]
        <5>1. CASE i \in 1 .. Len(f)
          BY <2>7, <2>3, <5>1
        <5>2. CASE i \notin 1 .. Len(f)
          <6>1. i - Len(f) \in 1 .. Len(q) /\ i - Len(f) \in 1 .. Len(r) /\ Len(f) + (i - Len(f)) = i
            BY <2>7, <3>1, <5>2
          <6>2. g[i] = q[i - Len(f)] /\ h[i] = r[i - Len(f)]
            BY <2>3, <2>7, <6>1
          <6> QED
            BY <3>1, <6>1, <6>2
        <5> QED
          BY <5>1, <5>2
      <4> QED
        BY <2>7, <3>2, <4>1 DEF Begins
    <3>4. Puts(s, u, p, e.kind, c)
      <4>1. Extended(FlowOf(s, p), FlowOf(u, p), e)
        BY <2>6, <3>2, <3>3, Zenon DEF Extended
      <4> QED
        BY <2>1, <2>2, <4>1, EntryPut
    <3> QED
      BY <1>4, <3>4, PutsThenSettles, DrainedSettles, <2>1 DEF u
  <2>5. CASE Joins(q, e) /\ r = Joined(q, e)
    <3>1. q # <<>> /\ Len(q) # 0 /\ Last(q) = q[Len(q)] /\ q[Len(q)].kind = e.kind /\ e.kind \in {"drag", "raw"}
      BY <1>2, <2>5 DEF Joins, Last
    <3> DEFINE x == r[Len(q)]
    <3>2. /\ Len(r) = Len(q) /\ \A i \in 1 .. Len(q) : i # Len(q) => r[i] = q[i]
          /\ x = IF e.kind = "drag" THEN e ELSE [q[Len(q)] EXCEPT !.ids = @ \o e.ids]
      <4> DEFINE y == IF e.kind = "drag" THEN e ELSE [Last(q) EXCEPT !.ids = @ \o e.ids]
      <4>1. r = [q EXCEPT ![Len(q)] = y]
        BY <2>5 DEF Joined
      <4>2. y = IF e.kind = "drag" THEN e ELSE [q[Len(q)] EXCEPT !.ids = @ \o e.ids]
        BY <3>1, Zenon
      <4> HIDE DEF y
      <4>3. Len(q) \in 1 .. Len(q) /\ q \in Seq(S)
        BY <2>7, <2>8, <3>1
      <4>4. Len(r) = Len(q) /\ \A i \in 1 .. Len(q) : r[i] = IF i = Len(q) THEN y ELSE q[i]
        BY <4>1, <4>3
      <4>5. x = y
        BY <4>3, <4>4
      <4> QED
        BY <4>2, <4>4, <4>5, Zenon
    <3>3. x.kind = e.kind /\ x.for = p /\ (x.ids = e.ids \/ x.ids = q[Len(q)].ids \o e.ids)
      <4>1. CASE e.kind = "drag"
        BY <3>2, <4>1 DEF Newer
      <4>2. CASE e.kind # "drag"
        <5>1. q[Len(q)] \in S
          BY <1>2, <3>1
        <5>2. x.kind = q[Len(q)].kind /\ x.for = q[Len(q)].for /\ x.ids = q[Len(q)].ids \o e.ids
          <6> DEFINE n == q[Len(q)].ids \o e.ids
          <6>1. x = [q[Len(q)] EXCEPT !.ids = n]
            BY <3>2, <4>2
          <6> HIDE DEF n, x
          <6>2. x.kind = q[Len(q)].kind /\ x.for = q[Len(q)].for /\ x.ids = n
            BY <5>1, <6>1 DEF InputEntries, S
          <6> QED
            BY <6>2 DEF n
        <5>3. q[Len(q)].for = p
          <6>1. Len(q) \in 1 .. Len(q) /\ Len(f) + Len(q) \in 1 .. Len(g)
            BY <2>7, <3>1
          <6>2. g[Len(f) + Len(q)] = q[Len(q)]
            BY <2>7, <6>1
          <6>3. DOMAIN g = 1 .. Len(g)
            BY <1>3, <2>6
          <6> QED
            BY <2>8, <6>1, <6>2, <6>3 DEF Ordered
        <5> QED
          BY <3>1, <5>2, <5>3
      <4> QED
        BY <4>1, <4>2
    <3> HIDE DEF x
    <3>4. Len(h) = Len(g) /\ Len(g) # 0 /\ Len(g) = Len(f) + Len(q) /\ Len(q) \in 1 .. Len(q)
      BY <2>3, <2>7, <3>1, <3>2
    <3>5. h[Len(g)] = x /\ g[Len(g)] = q[Len(q)]
      BY <2>3, <2>7, <3>2, <3>4 DEF x
    <3>6. ASSUME NEW i \in 1 .. Len(g), i # Len(g) PROVE h[i] = g[i]
      <4>1. CASE i \in 1 .. Len(f)
        BY <2>3, <2>7, <4>1
      <4>2. CASE i \notin 1 .. Len(f)
        <5>1. i - Len(f) \in 1 .. Len(q) /\ i - Len(f) # Len(q) /\ Len(f) + (i - Len(f)) = i
          BY <2>7, <3>4, <3>6, <4>2
        <5>2. g[i] = q[i - Len(f)] /\ h[i] = r[i - Len(f)]
          BY <2>3, <2>7, <3>2, <5>1
        <5> QED
          BY <3>2, <5>1, <5>2
      <4> QED
        BY <4>1, <4>2
    <3>7. /\ e.kind \in {"drag", "raw"} /\ Len(g) # 0 /\ Len(h) = Len(g)
          /\ \A i \in 1 .. Len(g) : i # Len(g) => h[i] = g[i]
          /\ g[Len(g)].kind = e.kind /\ h[Len(g)].kind = e.kind /\ h[Len(g)].for = p
          /\ h[Len(g)].ids = e.ids \/ h[Len(g)].ids = g[Len(g)].ids \o e.ids
      BY <3>1, <3>3, <3>4, <3>5, <3>6
    <3>8. Puts(s, u, p, e.kind, c)
      <4>1. JoinedTo(FlowOf(s, p), FlowOf(u, p), e, p)
        BY <2>6, <3>7, Zenon DEF JoinedTo
      <4> QED
        BY <2>1, <2>2, <4>1, EntryPut
    <3> QED
      BY <1>4, <3>8, PutsThenSettles, DrainedSettles, <2>1 DEF u
  <2> QED
    BY <1>4, <2>4, <2>5
<1>5. CASE Joins(q, e)
  <2>1. t \in Drained([s EXCEPT !.queue[p] = Joined(q, e)], p)
    BY <1>5 DEF Queued
  <2>2. Joined(q, e) \in Seq(S)
    <3>1. q # <<>> /\ Last(q) = q[Len(q)] /\ Len(q) \in 1 .. Len(q)
      BY <1>2, <1>5 DEF Joins, Last
    <3>2. q[Len(q)] \in S
      BY <1>2, <3>1
    <3>3. [q[Len(q)] EXCEPT !.ids = @ \o e.ids] \in S
      <4>1. q[Len(q)].ids \in Seq(Nat) /\ e.ids \in Seq(Nat)
        BY <1>2, <3>2 DEF InputEntries
      <4> DEFINE n == q[Len(q)].ids \o e.ids
      <4>2. n \in Seq(Nat)
        BY <4>1
      <4> HIDE DEF n
      <4>3. [q[Len(q)] EXCEPT !.ids = n] \in S
        BY <3>2, <4>2 DEF InputEntries
      <4> QED
        BY <4>3 DEF n
    <3>4. (IF e.kind = "drag" THEN e ELSE [Last(q) EXCEPT !.ids = @ \o e.ids]) \in S
      BY <1>2, <3>1, <3>3, Zenon
    <3> DEFINE x == IF e.kind = "drag" THEN e ELSE [Last(q) EXCEPT !.ids = @ \o e.ids]
    <3>5. Joined(q, e) = [q EXCEPT ![Len(q)] = x]
      BY DEF Joined
    <3> HIDE DEF S, q, x
    <3>6. q \in Seq(S) /\ x \in S
      BY <1>2, <3>4 DEF x
    <3>7. Len(q) \in 1 .. Len(q)
      BY <3>1
    <3>8. [q EXCEPT ![Len(q)] = x] \in Seq(S)
      BY <3>6, <3>7, ExceptSeq
    <3> QED
      BY <3>5, <3>8
  <2> QED
    BY <1>4, <1>5, <2>1, <2>2
<1>6. CASE ~ Joins(q, e) /\ Len(q) >= QueueLimit
  <2>1. t = [s EXCEPT !.lost = @ \cup {p}]
    BY <1>6 DEF Queued
  <2>2. t.sent = s.sent /\ t.queue = s.queue /\ t.lost = s.lost \cup {p} /\ t \in Ios
    BY <1>1, <2>1 DEF Ios
  <2>3. Proper(t, c)
    <3>1. Proper(s, c)
      BY ProperLater
    <3> QED
      BY <2>2, <3>1 DEF Proper, FlowOf
  <2>4. Owed(t) \subseteq Owed(s) /\ p \notin Owed(t)
    BY <2>2 DEF Owed, FlowOf
  <2> QED
    BY <2>3, <2>4 DEF Puts
<1>7. CASE ~ Joins(q, e) /\ ~ (Len(q) >= QueueLimit)
  <2>1. t \in Drained([s EXCEPT !.queue[p] = Append(q, e)], p)
    BY <1>7 DEF Queued
  <2>2. Append(q, e) \in Seq(S)
    BY <1>2
  <2> QED
    BY <1>4, <2>1, <2>2
<1> QED
  BY <1>5, <1>6, <1>7

(* sendPTYInput writes at once when nothing waits.                         *)
LEMMA SentPuts ==
  ASSUME NEW s, NEW b \in Int, NEW c \in Int, b <= c, Proper(s, b), NEW p \in InputPanes, NEW e, Newer(e, p, b, c),
         NEW t \in SentPTYInput(s, p, e)
  PROVE  Puts(s, t, p, e.kind, c) \/ t = s
<1> DEFINE S == InputEntries
           f == s.sent[p]
<1>1. /\ s.queue \in [InputPanes -> Seq(S)] /\ s.sent \in [InputPanes -> Seq(S)] /\ s.lost \subseteq InputPanes
      /\ s = [queue |-> s.queue, sent |-> s.sent, lost |-> s.lost] /\ s \in Ios
  BY DEF Ios, Proper
<1>2. CASE s.queue[p] # <<>>
  <2>1. t \in Queued(s, p, e)
    BY <1>2 DEF SentPTYInput
  <2> QED
    BY <2>1, QueuedPuts
<1>3. CASE s.queue[p] = <<>> /\ t = Written(s, p, e)
  <2> DEFINE new == Append(f, e)
  <2>1. f \in Seq(S) /\ e \in S /\ new \in Seq(S) /\ Len(new) = Len(f) + 1 /\ new[Len(new)] = e
        /\ Len(f) \in Nat /\ \A i \in 1 .. Len(f) : new[i] = f[i]
    BY <1>1 DEF Newer
  <2>2. t.sent = [s.sent EXCEPT ![p] = new] /\ t.queue = s.queue /\ t.lost = s.lost
        /\ t = [queue |-> t.queue, sent |-> t.sent, lost |-> t.lost]
    BY <1>1, <1>3 DEF Written
  <2> HIDE DEF new
  <2>3. /\ t \in Ios /\ t.sent[p] = new
        /\ \A o \in InputPanes \ {p} : t.sent[o] = s.sent[o] /\ t.queue[o] = s.queue[o]
    BY <1>1, <2>1, <2>2 DEF Ios
  <2>4. FlowOf(s, p) = f /\ FlowOf(t, p) = new
    <3>1. FlowOf(s, p) = f \o <<>> /\ FlowOf(t, p) = new \o <<>>
      BY <1>3, <2>2, <2>3 DEF FlowOf
    <3> QED
      BY <2>1, <3>1
  <2>5. Begins(f, new)
    BY <2>1 DEF Begins
  <2> HIDE DEF f
  <2>6. Extended(FlowOf(s, p), FlowOf(t, p), e)
    BY <2>1, <2>4, <2>5, Zenon DEF Extended
  <2> QED
    BY <2>2, <2>3, <2>6, EntryPut
<1> QED
  BY <1>2, <1>3 DEF SentPTYInput

(* The entry of a new input.                                               *)
LEMMA EntryNewer ==
  ASSUME typed \in Nat, NEW kind \in Semantic \cup {"raw"}, NEW p \in InputPanes
  PROVE  Newer(Entry(kind, p), p, typed, typed + 1) /\ Entry(kind, p).kind = kind
<1> DEFINE n == <<typed + 1>>
<1>1. n \in Seq(Nat) /\ DOMAIN n = {1} /\ n[1] = typed + 1
  OBVIOUS
<1> HIDE DEF n
<1>2. Entry(kind, p) = [kind |-> kind, ids |-> n, for |-> p]
  BY DEF Entry, n
<1>3. /\ \A x, y \in DOMAIN n : x < y => n[x] < n[y]
      /\ \A x \in DOMAIN n : typed < n[x] /\ n[x] <= typed + 1
  BY <1>1
<1> QED
  BY <1>1, <1>2, <1>3 DEF Newer, InputEntries

(* The gesture of the invariant.                                           *)
LEMMA GestureFacts ==
  ASSUME InputInv
  PROVE  /\ typed \in Nat /\ Bound \in Int /\ Proper(io, Bound)
         /\ framer = NoPaste => Bound = typed
         /\ gesture # NoGesture => /\ gesture.pane \in InputPanes /\ gesture.focus \in InputPanes
                                   /\ gesture.app \in BOOLEAN /\ gesture.pressed \in BOOLEAN
         /\ ~ gesture.pressed => Owed(io) = {}
         /\ ~ gesture.app => Owed(io) = {}
         /\ Owed(io) \subseteq {gesture.pane}
         /\ ~ NoGesture.pressed /\ ~ NoGesture.app /\ NoGesture.focus = 0
         /\ 0 \notin InputPanes
<1>1. /\ gesture \in Gestures /\ typed \in Nat /\ Proper(io, Bound) /\ (gesture.pressed => gesture.app)
      /\ \A p \in Owed(io) : gesture.pane = p /\ gesture.pressed
  BY DEF InputInv, InputType
<1>2. Bound \in Int /\ (framer = NoPaste => Bound = typed)
  BY <1>1 DEF Bound
<1>3. gesture # NoGesture => /\ gesture.pane \in InputPanes /\ gesture.focus \in InputPanes
                             /\ gesture.app \in BOOLEAN /\ gesture.pressed \in BOOLEAN
  BY <1>1 DEF Gestures
<1>4. ~ NoGesture.pressed /\ ~ NoGesture.app /\ NoGesture.focus = 0
  BY DEF NoGesture
<1>5. 0 \notin InputPanes
  BY InputAssumption
<1>6. (~ gesture.pressed => Owed(io) = {}) /\ (~ gesture.app => Owed(io) = {}) /\ Owed(io) \subseteq {gesture.pane}
  BY <1>1, Zenon
<1> QED
  BY <1>1, <1>2, <1>3, <1>4, <1>5, <1>6

(* cancelMouseCapture leaves no program without its release.               *)
LEMMA CancelledSettles ==
  ASSUME InputInv, NEW t \in Cancelled(io, gesture)
  PROVE  Proper(t, Bound) /\ Owed(t) = {}
<1>1. CASE gesture.app /\ gesture.pressed
  <2> DEFINE e == [kind |-> "release", ids |-> <<>>, for |-> gesture.pane]
             p == gesture.pane
  <2>1. gesture # NoGesture /\ p \in InputPanes
    BY <1>1, GestureFacts
  <2>2. Newer(e, p, Bound, Bound) /\ e.kind = "release"
    <3>1. <<>> \in Seq(Nat) /\ DOMAIN <<>> = {}
      OBVIOUS
    <3> QED
      BY <2>1, <3>1 DEF Newer, InputEntries, Semantic
  <2>3. t \in Queued(io, p, e)
    BY <1>1 DEF Cancelled
  <2> HIDE DEF e
  <2>4. Bound <= Bound /\ Bound \in Int
    BY GestureFacts
  <2>5. Puts(io, t, p, "release", Bound)
    <3>1. Puts(io, t, p, e.kind, Bound)
      BY <2>1, <2>2, <2>3, <2>4, GestureFacts, QueuedPuts
    <3> QED
      BY <2>2, <3>1
  <2> QED
    BY <2>5, GestureFacts DEF Puts
<1>2. CASE ~ (gesture.app /\ gesture.pressed)
  <2>1. t = io
    BY <1>2 DEF Cancelled
  <2> QED
    BY <1>2, <2>1, GestureFacts
<1> QED
  BY <1>1, <1>2

(* validateMouseCapture: what it leaves fits the gesture it leaves.        *)
LEMMA ValidatedSettles ==
  ASSUME InputInv, NEW focus \in InputPanes, NEW t \in Validated(io, focus)
  PROVE  /\ Proper(t, Bound)
         /\ Valid(focus) \in {gesture, NoGesture}
         /\ Valid(focus) = NoGesture => Owed(t) = {}
         /\ Valid(focus) # NoGesture => t = io
<1>1. CASE gesture # NoGesture /\ gesture.focus # focus
  <2>1. t \in Cancelled(io, gesture) /\ Valid(focus) = NoGesture
    BY <1>1 DEF Validated, Valid
  <2> QED
    BY <2>1, CancelledSettles
<1>2. CASE ~ (gesture # NoGesture /\ gesture.focus # focus)
  <2>1. t = io
    BY <1>2 DEF Validated
  <2>2. Valid(focus) \in {gesture, NoGesture}
    BY DEF Valid
  <2>3. Valid(focus) = NoGesture => gesture = NoGesture
    BY <1>2 DEF Valid
  <2> QED
    BY <2>1, <2>2, <2>3, GestureFacts
<1> QED
  BY <1>1, <1>2

(* routePaneMouse passes a report on to a program that asked for it.       *)
LEMMA RoutedPuts ==
  ASSUME typed \in Nat, NEW s, Proper(s, typed), NEW g, g.app => g.pane \in InputPanes, NEW kind \in Semantic,
         NEW t \in Routed(s, g, kind)
  PROVE  /\ Proper(t, typed + 1)
         /\ g.app => Puts(s, t, g.pane, kind, typed + 1)
         /\ ~ g.app => t = s
<1>1. typed \in Int /\ typed + 1 \in Int /\ typed <= typed + 1
  OBVIOUS
<1>2. CASE g.app
  <2>1. t \in Queued(s, g.pane, Entry(kind, g.pane))
    BY <1>2 DEF Routed
  <2>2. Newer(Entry(kind, g.pane), g.pane, typed, typed + 1) /\ Entry(kind, g.pane).kind = kind
    BY <1>2, EntryNewer
  <2> DEFINE e == Entry(kind, g.pane)
             b == typed
             c == typed + 1
  <2> HIDE DEF e, b, c
  <2>3. Puts(s, t, g.pane, e.kind, c)
    <3>1. b \in Int /\ c \in Int /\ b <= c
      BY <1>1 DEF b, c
    <3>2. Proper(s, b) /\ Newer(e, g.pane, b, c) /\ g.pane \in InputPanes /\ t \in Queued(s, g.pane, e)
      BY <1>2, <2>1, <2>2 DEF e, b, c
    <3> QED
      BY <3>1, <3>2, QueuedPuts
  <2> QED
    BY <1>2, <2>2, <2>3 DEF Puts, e, c
<1>3. CASE ~ g.app
  <2>1. t = s
    BY <1>3 DEF Routed
  <2> QED
    BY <1>1, <1>3, <2>1, ProperLater
<1> QED
  BY <1>2, <1>3

(* Each step of the user keeps the invariant: keys,                        *)
LEMMA KeysKeeps == InputInv /\ Keys => InputInv'
<1> SUFFICES ASSUME InputInv, Keys PROVE InputInv'
  OBVIOUS
<1>1. /\ typed' = typed + 1 /\ framer = NoPaste /\ UNCHANGED <<gesture, framer, inFocus, inModal>>
      /\ io' = io \/ io' \in SentPTYInput(io, inFocus, Entry("raw", inFocus))
  BY DEF Keys, Input
<1>2. typed \in Nat /\ inFocus \in InputPanes /\ Proper(io, typed) /\ typed <= typed + 1 /\ typed + 1 \in Nat
  BY <1>1, GestureFacts DEF InputInv, InputType
<1>3. Newer(Entry("raw", inFocus), inFocus, typed, typed + 1) /\ Entry("raw", inFocus).kind = "raw"
  BY <1>2, EntryNewer
<1>4. Proper(io', typed + 1) /\ Owed(io') \subseteq Owed(io)
  <2>1. CASE io' = io
    BY <1>2, <2>1, ProperLater
  <2>2. CASE io' \in SentPTYInput(io, inFocus, Entry("raw", inFocus))
    <3> DEFINE b == typed
               c == typed + 1
               e == Entry("raw", inFocus)
    <3>1. b \in Int /\ c \in Int /\ b <= c /\ Proper(io, b) /\ Newer(e, inFocus, b, c) /\ e.kind = "raw"
          /\ io' \in SentPTYInput(io, inFocus, e)
      BY <1>2, <1>3, <2>2
    <3> HIDE DEF b, c, e
    <3>2. Puts(io, io', inFocus, e.kind, c) \/ io' = io
      BY <1>2, <3>1, SentPuts
    <3>3. io' = io => Proper(io', c)
      BY <3>1, ProperLater
    <3>4. Proper(io', c) /\ Owed(io') \subseteq Owed(io)
      BY <3>1, <3>2, <3>3 DEF Puts
    <3> QED
      BY <3>4 DEF c
  <2> QED
    BY <1>1, <2>1, <2>2
<1>5. Bound' = typed + 1
  BY <1>1 DEF Bound
<1> QED
  BY <1>1, <1>2, <1>4, <1>5 DEF InputInv, InputType, Owed

(* the start of a paste,                                                   *)
LEMMA PasteStartKeeps == InputInv /\ PasteStart => InputInv'
<1> SUFFICES ASSUME InputInv, PasteStart PROVE InputInv'
  OBVIOUS
<1>1. /\ typed' = typed + 1 /\ framer = NoPaste /\ UNCHANGED <<io, gesture, inFocus, inModal>>
      /\ framer' = [pane |-> inFocus, modal |-> inModal]
  BY DEF PasteStart, Input
<1>2. typed \in Nat /\ inFocus \in InputPanes /\ Proper(io, typed) /\ typed + 1 \in Nat /\ typed + 1 # 0
  BY <1>1, GestureFacts DEF InputInv, InputType
<1>3. framer' # NoPaste /\ framer'.pane = inFocus
  BY <1>1, <1>2, GestureFacts DEF NoPaste
<1>4. Bound' = typed
  BY <1>1, <1>2, <1>3 DEF Bound
<1> QED
  BY <1>1, <1>2, <1>3, <1>4 DEF InputInv, InputType, Owed

(* its end,                                                                *)
LEMMA PasteEndKeeps == InputInv /\ PasteEnd => InputInv'
<1> SUFFICES ASSUME InputInv, PasteEnd PROVE InputInv'
  OBVIOUS
<1> DEFINE e == [kind |-> "paste", ids |-> <<typed>>, for |-> framer.pane]
<1>1. /\ framer # NoPaste /\ framer' = NoPaste /\ UNCHANGED <<gesture, inFocus, inModal, typed>>
      /\ io' = io \/ (framer.pane = inFocus /\ io' \in Queued(io, inFocus, e))
  BY DEF PasteEnd
<1>2. typed \in Nat /\ inFocus \in InputPanes /\ Bound = typed - 1 /\ Bound' = typed
  BY <1>1 DEF InputInv, InputType, Bound
<1>3. Bound \in Int /\ typed \in Int /\ Bound <= typed /\ Proper(io, Bound) /\ Bound < typed
  BY <1>2, GestureFacts
<1>4. Proper(io', typed) /\ Owed(io') \subseteq Owed(io)
  <2>1. CASE io' = io
    BY <1>3, <2>1, ProperLater
  <2>2. CASE framer.pane = inFocus /\ io' \in Queued(io, inFocus, e)
    <3> DEFINE n == <<typed>>
    <3>1. n \in Seq(Nat) /\ DOMAIN n = {1} /\ n[1] = typed
      BY <1>2
    <3>2. e = [kind |-> "paste", ids |-> n, for |-> inFocus]
      BY <2>2
    <3> HIDE DEF n, e
    <3>3. /\ \A x, y \in DOMAIN n : x < y => n[x] < n[y]
          /\ \A x \in DOMAIN n : Bound < n[x] /\ n[x] <= typed
      BY <1>2, <1>3, <3>1
    <3>4. Newer(e, inFocus, Bound, typed) /\ e.kind = "paste"
      BY <1>2, <3>1, <3>2, <3>3 DEF Newer, InputEntries, Semantic
    <3>5. Puts(io, io', inFocus, e.kind, typed)
      BY <1>2, <1>3, <2>2, <3>4, QueuedPuts
    <3> QED
      BY <3>4, <3>5 DEF Puts
  <2> QED
    BY <1>1, <2>1, <2>2
<1> QED
  BY <1>1, <1>2, <1>4 DEF InputInv, InputType, Owed

(* a button that is pressed,                                               *)
LEMMA PressKeeps == InputInv /\ Press => InputInv'
<1> SUFFICES ASSUME InputInv, Press PROVE InputInv'
  OBVIOUS
<1>1. typed' = typed + 1 /\ framer = NoPaste /\ UNCHANGED <<framer, inModal>>
  BY DEF Press, Input
<1>2. /\ typed \in Nat /\ inFocus \in InputPanes /\ inModal \in BOOLEAN /\ Proper(io, typed) /\ Bound = typed
      /\ Bound' = typed + 1 /\ typed + 1 \in Nat /\ gesture \in Gestures
  BY <1>1, GestureFacts DEF InputInv, InputType, Bound
<1>3. "press" \in Semantic
  BY DEF Semantic
<1>4. CASE Valid(inFocus) # NoGesture
  <2>1. /\ gesture' = [gesture EXCEPT !.pressed = gesture.app] /\ io' \in Routed(io, gesture, "press")
        /\ inFocus' = inFocus
    BY <1>4 DEF Press
  <2>2. gesture # NoGesture
    BY <1>4 DEF Valid
  <2>3. gesture \in [pane : InputPanes, focus : InputPanes, app : BOOLEAN, pressed : BOOLEAN]
    BY <1>2, <2>2 DEF Gestures
  <2>4. gesture' \in Gestures /\ gesture'.pressed = gesture.app /\ gesture'.app = gesture.app /\ gesture'.pane = gesture.pane
    BY <2>1, <2>3 DEF Gestures
  <2>5. /\ Proper(io', typed + 1)
        /\ gesture.app => Puts(io, io', gesture.pane, "press", typed + 1)
        /\ ~ gesture.app => io' = io
    BY <1>2, <1>3, <2>1, <2>3, RoutedPuts
  <2>6. ASSUME NEW p \in Owed(io') PROVE gesture'.pane = p /\ gesture'.pressed
    BY <2>4, <2>5, <2>6, GestureFacts DEF Puts
  <2>7. (\A p \in Owed(io) : gesture.pane = p /\ gesture.pressed)'
    BY <2>6 DEF Owed
  <2> QED
    BY <1>1, <1>2, <2>1, <2>4, <2>5, <2>7 DEF InputInv, InputType
<1>5. CASE Valid(inFocus) = NoGesture
  <2>1. PICK app \in BOOLEAN, p \in InputPanes :
          LET g == [pane |-> p, focus |-> p, app |-> app /\ p = inFocus, pressed |-> app /\ p = inFocus] IN
          /\ gesture' = g
          /\ inFocus' = p
          /\ io' \in UNION {Routed(s, g, "press") : s \in Validated(io, inFocus)}
    BY <1>5 DEF Press
  <2> DEFINE g == [pane |-> p, focus |-> p, app |-> app /\ p = inFocus, pressed |-> app /\ p = inFocus]
  <2>2. gesture' = g /\ inFocus' = p
    BY <2>1
  <2>3. PICK s \in Validated(io, inFocus) : io' \in Routed(s, g, "press")
    BY <2>1
  <2>4. Proper(s, typed) /\ Owed(s) = {}
    BY <1>2, <1>5, ValidatedSettles
  <2>5. g.pane = p /\ (g.pressed <=> g.app) /\ g \in Gestures
    BY DEF Gestures
  <2> HIDE DEF g
  <2>6. /\ Proper(io', typed + 1)
        /\ g.app => Puts(s, io', g.pane, "press", typed + 1)
        /\ ~ g.app => io' = s
    BY <1>2, <1>3, <2>3, <2>4, <2>5, RoutedPuts
  <2>7. ASSUME NEW o \in Owed(io') PROVE gesture'.pane = o /\ gesture'.pressed
    BY <2>2, <2>4, <2>5, <2>6, <2>7 DEF Puts
  <2>8. (\A o \in Owed(io) : gesture.pane = o /\ gesture.pressed)'
    BY <2>7 DEF Owed
  <2> QED
    BY <1>1, <1>2, <2>2, <2>5, <2>6, <2>8 DEF InputInv, InputType
<1> QED
  BY <1>4, <1>5

(* dragged,                                                                *)
LEMMA DragKeeps == InputInv /\ Drag => InputInv'
<1> SUFFICES ASSUME InputInv, Drag PROVE InputInv'
  OBVIOUS
<1>1. typed' = typed + 1 /\ framer = NoPaste /\ UNCHANGED <<framer, inFocus, inModal>> /\ gesture' = Valid(inFocus)
  BY DEF Drag, Input
<1>2. /\ typed \in Nat /\ inFocus \in InputPanes /\ inModal \in BOOLEAN /\ Proper(io, typed) /\ Bound = typed
      /\ Bound' = typed + 1 /\ typed + 1 \in Nat /\ gesture \in Gestures
  BY <1>1, GestureFacts DEF InputInv, InputType, Bound
<1>3. CASE Valid(inFocus) # NoGesture
  <2>1. io' \in Routed(io, gesture, "drag") /\ gesture' = gesture /\ gesture # NoGesture
    BY <1>1, <1>3 DEF Drag, Valid
  <2>2. /\ Proper(io', typed + 1)
        /\ gesture.app => Puts(io, io', gesture.pane, "drag", typed + 1)
        /\ ~ gesture.app => io' = io
    BY <1>2, <2>1, GestureFacts, RoutedPuts DEF Semantic
  <2>3. Owed(io') \subseteq Owed(io)
    BY <2>2, GestureFacts DEF Puts
  <2>4. (\A p \in Owed(io) : gesture.pane = p /\ gesture.pressed)'
    BY <2>1, <2>3 DEF InputInv, Owed
  <2> QED
    BY <1>1, <1>2, <2>1, <2>2, <2>4 DEF InputInv, InputType
<1>4. CASE Valid(inFocus) = NoGesture
  <2>1. PICK app \in BOOLEAN, kind \in {"drag", "wheel"} :
          io' \in UNION {Routed(s, [pane |-> inFocus, app |-> app], kind) : s \in Validated(io, inFocus)}
    BY <1>1, <1>4 DEF Drag
  <2> DEFINE g == [pane |-> inFocus, app |-> app]
  <2>2. PICK s \in Validated(io, inFocus) : io' \in Routed(s, g, kind)
    BY <2>1
  <2>3. Proper(s, typed) /\ Owed(s) = {}
    BY <1>2, <1>4, ValidatedSettles
  <2>4. g.pane = inFocus /\ kind \in Semantic /\ kind # "press"
    BY DEF Semantic
  <2> HIDE DEF g
  <2>5. /\ Proper(io', typed + 1)
        /\ g.app => Puts(s, io', g.pane, kind, typed + 1)
        /\ ~ g.app => io' = s
    BY <1>2, <2>2, <2>3, <2>4, RoutedPuts
  <2>6. Owed(io') = {}
    BY <2>3, <2>4, <2>5 DEF Puts
  <2>7. (\A p \in Owed(io) : gesture.pane = p /\ gesture.pressed)'
    BY <2>6 DEF Owed
  <2>8. gesture' \in Gestures /\ (gesture'.pressed => gesture'.app)
    BY <1>1, <1>4, GestureFacts DEF Gestures
  <2> QED
    BY <1>1, <1>2, <2>5, <2>7, <2>8 DEF InputInv, InputType
<1> QED
  BY <1>3, <1>4

(* released.                                                               *)
LEMMA ReleaseKeeps == InputInv /\ Release => InputInv'
<1> SUFFICES ASSUME InputInv, Release PROVE InputInv'
  OBVIOUS
<1>1. typed' = typed + 1 /\ framer = NoPaste /\ UNCHANGED <<framer, inFocus, inModal>> /\ gesture' = NoGesture
  BY DEF Release, Input
<1>2. /\ typed \in Nat /\ inFocus \in InputPanes /\ inModal \in BOOLEAN /\ Proper(io, typed) /\ Bound = typed
      /\ Bound' = typed + 1 /\ typed + 1 \in Nat /\ typed \in Int /\ typed + 1 \in Int /\ typed <= typed + 1
  BY <1>1, GestureFacts DEF InputInv, InputType, Bound
<1>3. Proper(io', typed + 1) /\ Owed(io') = {}
  <2>1. CASE Valid(inFocus) # NoGesture
    <3>1. io' \in Routed(io, gesture, "release") /\ gesture # NoGesture
      BY <2>1 DEF Release, Valid
    <3>2. /\ Proper(io', typed + 1)
          /\ gesture.app => Puts(io, io', gesture.pane, "release", typed + 1)
          /\ ~ gesture.app => io' = io
      BY <1>2, <3>1, GestureFacts, RoutedPuts DEF Semantic
    <3> QED
      BY <3>2, GestureFacts DEF Puts
  <2>2. CASE Valid(inFocus) = NoGesture
    <3>1. io' \in Validated(io, inFocus)
      BY <2>2 DEF Release
    <3>2. Proper(io', typed) /\ Owed(io') = {}
      BY <1>2, <2>2, <3>1, ValidatedSettles
    <3> QED
      BY <1>2, <3>2, ProperLater
  <2> QED
    BY <2>1, <2>2
<1>4. gesture' \in Gestures /\ ~ gesture'.pressed
  BY <1>1 DEF Gestures, NoGesture
<1> QED
  BY <1>1, <1>2, <1>3, <1>4 DEF InputInv, InputType, Owed

(* What neither the paste nor the count of the inputs changes with.        *)
LEMMA GestureEnds ==
  ASSUME InputInv, UNCHANGED <<framer, typed>>, inFocus' \in InputPanes, inModal' \in BOOLEAN,
         gesture' \in Gestures, gesture'.pressed => gesture'.app, Proper(io', Bound),
         \A p \in Owed(io') : gesture'.pane = p /\ gesture'.pressed
  PROVE  InputInv'
<1>1. Bound' = Bound
  BY DEF Bound
<1>2. (\A p \in Owed(io) : gesture.pane = p /\ gesture.pressed)'
  BY DEF Owed
<1> QED
  BY <1>1, <1>2 DEF InputInv, InputType

(* Nor do the other steps of the loop.                                     *)
LEMMA LoopKeepsInput ==
  ASSUME InputInv,
         \/ LayoutChanges \/ BeginQuestion \/ EndQuestion
         \/ \E p \in InputPanes : FlushPTYInput(p) \/ DetachView(p) \/ \E relayout \in BOOLEAN : FocusMoves(p, relayout)
         \/ UNCHANGED inputVars
  PROVE  InputInv'
<1>0. /\ inFocus \in InputPanes /\ inModal \in BOOLEAN /\ gesture \in Gestures /\ Proper(io, Bound)
      /\ gesture.pressed => gesture.app
      /\ \A p \in Owed(io) : gesture.pane = p /\ gesture.pressed
      /\ NoGesture \in Gestures /\ ~ NoGesture.pressed
  BY GestureFacts DEF InputInv, InputType, Gestures
<1>1. CASE LayoutChanges \/ BeginQuestion
  <2>1. io' \in Cancelled(io, gesture) /\ gesture' = NoGesture /\ UNCHANGED <<framer, inFocus, typed>>
        /\ inModal' \in BOOLEAN
    BY <1>0, <1>1 DEF LayoutChanges, BeginQuestion
  <2>2. Proper(io', Bound) /\ Owed(io') = {}
    BY <2>1, CancelledSettles
  <2> QED
    BY <1>0, <2>1, <2>2, GestureEnds
<1>2. CASE EndQuestion \/ UNCHANGED inputVars
  <2>1. UNCHANGED <<io, gesture, framer, inFocus, typed>> /\ inModal' \in BOOLEAN
    BY <1>0, <1>2 DEF EndQuestion, inputVars
  <2> QED
    BY <1>0, <2>1, GestureEnds
<1>3. ASSUME NEW p \in InputPanes, FlushPTYInput(p) \/ DetachView(p) PROVE InputInv'
  <2>1. UNCHANGED <<gesture, framer, inFocus, inModal, typed>>
    BY <1>3 DEF FlushPTYInput, DetachView
  <2>2. Settles(io, io', p)
    <3>1. CASE FlushPTYInput(p)
      <4>1. io' \in Drained(io, p) /\ io \in Ios
        BY <1>0, <3>1 DEF FlushPTYInput, Proper
      <4> QED
        BY <4>1, DrainedSettles
    <3>2. CASE DetachView(p)
      <4>1. io \in Ios /\ io' = [io EXCEPT !.queue[p] = <<>>, !.lost = @ \cup {p}]
        BY <1>0, <3>2 DEF DetachView, Proper
      <4>2. /\ io'.sent = io.sent /\ io'.queue = [io.queue EXCEPT ![p] = <<>>] /\ io'.lost = io.lost \cup {p}
            /\ io' \in Ios /\ io'.queue[p] = <<>>
        <5> DEFINE S == Seq(InputEntries)
        <5>1. <<>> \in S
          OBVIOUS
        <5> HIDE DEF S
        <5>2. /\ io.queue \in [InputPanes -> S] /\ io.sent \in [InputPanes -> S] /\ io.lost \subseteq InputPanes
              /\ io = [queue |-> io.queue, sent |-> io.sent, lost |-> io.lost]
          BY <4>1 DEF Ios, S
        <5>3. /\ io'.sent = io.sent /\ io'.queue = [io.queue EXCEPT ![p] = <<>>] /\ io'.lost = io.lost \cup {p}
              /\ io' = [queue |-> io'.queue, sent |-> io'.sent, lost |-> io'.lost]
          BY <4>1, <5>2
        <5>4. io'.queue \in [InputPanes -> S] /\ io'.queue[p] = <<>>
          BY <5>1, <5>2, <5>3
        <5>5. io' \in Ios
          BY <5>2, <5>3, <5>4 DEF Ios, S
        <5> QED
          BY <5>3, <5>4, <5>5
      <4> DEFINE f == io.sent[p]
                 q == io.queue[p]
      <4>3. f \in Seq(InputEntries) /\ q \in Seq(InputEntries)
        BY <4>1, FlowType
      <4>4. FlowOf(io', p) = f /\ FlowOf(io, p) = f \o q
        <5>1. FlowOf(io', p) = f \o <<>> /\ FlowOf(io, p) = f \o q
          BY <4>2, Zenon DEF FlowOf
        <5> HIDE DEF f, q
        <5> QED
          BY <4>3, <5>1
      <4> HIDE DEF f, q
      <4>5. Begins(f, f \o q)
        BY <4>3, OneAfterOther DEF Begins
      <4>6. \A o \in InputPanes \ {p} : io'.queue[o] = io.queue[o]
        BY <4>1, <4>2 DEF Ios
      <4> QED
        BY <4>2, <4>4, <4>5, <4>6 DEF Settles
    <3> QED
      BY <1>3, <3>1, <3>2
  <2>3. Proper(io', Bound) /\ Owed(io') \subseteq Owed(io)
    BY <1>0, <2>2, SettlesKeeps
  <2> QED
    BY <1>0, <2>1, <2>3, GestureEnds
<1>4. ASSUME NEW p \in InputPanes, NEW relayout \in BOOLEAN, FocusMoves(p, relayout) PROVE InputInv'
  <2>1. inFocus' = p /\ UNCHANGED <<framer, inModal, typed>>
    BY <1>4 DEF FocusMoves
  <2>2. CASE relayout
    <3>1. io' \in Validated(io, p) /\ gesture' = Valid(p)
      BY <1>4, <2>2 DEF FocusMoves
    <3>2. /\ Proper(io', Bound) /\ Valid(p) \in {gesture, NoGesture}
          /\ Valid(p) = NoGesture => Owed(io') = {}
          /\ Valid(p) # NoGesture => io' = io
      BY <3>1, ValidatedSettles
    <3>3. \A o \in Owed(io') : gesture'.pane = o /\ gesture'.pressed
      BY <1>0, <3>1, <3>2
    <3> QED
      BY <1>0, <2>1, <3>1, <3>2, <3>3, GestureEnds
  <2>3. CASE ~ relayout
    <3>1. UNCHANGED <<io, gesture>>
      BY <1>4, <2>3 DEF FocusMoves
    <3> QED
      BY <1>0, <2>1, <3>1, GestureEnds
  <2> QED
    BY <2>2, <2>3
<1> QED
  BY <1>1, <1>2, <1>3, <1>4

(* Every step keeps the invariant.                                         *)
LEMMA StepKeepsInputInv == InputInv /\ [InputNext]_inputVars => InputInv'
<1> SUFFICES ASSUME InputInv, [InputNext]_inputVars PROVE InputInv'
  OBVIOUS
<1> QED
  BY KeysKeeps, PasteStartKeeps, PasteEndKeeps, PressKeeps, DragKeeps, ReleaseKeeps, LoopKeepsInput DEF InputNext

(* At first nothing was typed.                                             *)
LEMMA InitInputInv == InputInit => InputInv
<1> SUFFICES ASSUME InputInit PROVE InputInv
  OBVIOUS
<1>1. /\ io = [queue |-> [p \in InputPanes |-> <<>>], sent |-> [p \in InputPanes |-> <<>>], lost |-> {}]
      /\ gesture = NoGesture /\ framer = NoPaste /\ inFocus \in InputPanes /\ inModal = FALSE /\ typed = 0
  BY DEF InputInit
<1>2. io \in Ios
  BY <1>1 DEF Ios
<1>3. ASSUME NEW p \in InputPanes PROVE FlowOf(io, p) = <<>>
  BY <1>1 DEF FlowOf
<1>4. Proper(io, Bound) /\ Owed(io) = {}
  <2>1. DOMAIN <<>> = {}
    OBVIOUS
  <2> QED
    BY <1>2, <1>3, <2>1 DEF Proper, Ordered, InOrder, Owed, Released
<1>5. gesture \in Gestures /\ ~ gesture.pressed
  BY <1>1 DEF Gestures, NoGesture
<1> QED
  BY <1>1, <1>4, <1>5 DEF InputInv, InputType

(* The queues, the gesture and the paste fit what was typed.               *)
THEOREM InputInvariantHolds == InputSpec => []InputInv
  BY InitInputInv, StepKeepsInputInv, PTL DEF InputSpec

(* No input overtakes another one on its way to a terminal, and none goes  *)
(* to another pane than the one it began in, for any number of panes and   *)
(* any capacity of the queues (sendPTYInput, drainInput, acceptPaste).     *)
THEOREM InputStaysInOrder == InputSpec => []InputInOrder
<1>1. InputInv => InputInOrder
  BY DEF InputInv, Proper, Ordered, InputInOrder, FlowOf, Flow
<1> QED
  BY <1>1, InputInvariantHolds, PTL

(* No program is left with a button that is down, when nothing of its      *)
(* input had to be dropped (cancelMouseCapture, validateMouseCapture).     *)
THEOREM ButtonsAreReleased == InputSpec => []ButtonsReleased
<1>1. InputInv => ButtonsReleased
  BY DEF InputInv, Owed, ButtonsReleased, FlowOf, Flow
<1> QED
  BY <1>1, InputInvariantHolds, PTL

=============================================================================
