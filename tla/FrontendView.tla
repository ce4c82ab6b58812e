---------------------------- MODULE FrontendView ----------------------------
(* What the text frontend shows (internal/frontend/tui): its event loop keeps a
   copy of Core that lags behind Core by the events it has not applied, and moves
   the window, the focus, the zoom and the preview of a stashed pane both by the
   answers of its own commands, which may be ahead of the copy, and by the events,
   which may be behind an answer.  Keys go to the pane that has the focus.

   One step of the loop is one action.  A command that Core refuses changes
   nothing; one whose answer does not come within commandTimeout leaves what
   somebody else's command leaves: an event.  One workspace; the panes of a window
   are laid out by identifier, on a screen with a line for them.  Core is the
   environment: CoreState models it. *)
EXTENDS Naturals, Sequences, FiniteSets, FiniteSetsExt

CONSTANTS
    Panes, Windows,  \* identifiers, greater than 0
    FirstStates,     \* states of Core at the start
    CommandLimit,    \* bound of the model: successful commands of the user
    OthersLimit      \* and of others, or whose answer does not come

ASSUME ViewAssumption ==
    /\ Panes \subseteq Nat \ {0} /\ Windows \subseteq Nat \ {0}
    /\ CommandLimit \in Nat /\ OthersLimit \in Nat

VARIABLES
    present,     \* Core
    events,      \* its states after the events that the loop has not applied
    snapshot,    \* session.snapshot
    ui,          \* window, focus, zoom, previewPane, previewPreviousFocus, pendingFocus and
                 \* pendingWindow of the session
    small,       \* the terminal has no room for a layout of several panes
    placements,  \* the panes on the screen since the last relayout
    views,       \* the panes with a view since the last syncViews
    running,     \* the loop has not returned
    commands, others  \* how many are left

coreVars == <<present, events, others>>
viewVars == <<present, events, snapshot, ui, small, placements, views, running, commands, others>>

\* A state of Core: the windows of the workspace; the window of a pane, 0 when
\* there is no such pane; the panes that are stashed on their own; those that have
\* no running terminal; the next identifiers.
States == [shown : SUBSET Windows, at : [Panes -> Windows \cup {0}], stash : SUBSET Panes,
           idle : SUBSET Panes, pane : Nat, window : Nat]

Exists(s, p) == p # 0 /\ s.at[p] # 0
Existing(s) == {p \in Panes : Exists(s, p)}
IsStashed(s, p) == Exists(s, p) /\ (p \in s.stash \/ s.at[p] \notin s.shown)
Layout(s, w) == {p \in Existing(s) \ s.stash : s.at[p] = w /\ w \in s.shown}
FirstOf(ids) == IF ids = {} THEN 0 ELSE Min(ids)

\* Identifiers are given from a counter, and what is stashed exists.
ASSUME FirstStatesAssumption ==
    \A s \in FirstStates :
        s \in States /\ s.stash \subseteq Existing(s) /\ \A p \in Existing(s) : p < s.pane

----------------------------------------------------------------------------
(* Layout of the screen *)

\* A window that has no layout leaves preferredFocus what was on the screen before:
\* it chooses a pane of another window when one of them still exists.
PreferredFocus(s, w, previous) ==
    LET panes == IF Layout(s, w) = {} THEN previous \cap Existing(s) ELSE Layout(s, w) IN
    IF panes \ s.idle # {} THEN FirstOf(panes \ s.idle) ELSE FirstOf(panes)

\* relayout: a focus that has left the window moves on.
RefocusedUnzoomed(s, u, previous) ==
    IF u.window \notin s.shown \/ u.preview # 0 \/ u.zoom \/ u.focus \in Layout(s, u.window) THEN u
    ELSE [u EXCEPT !.focus = PreferredFocus(s, u.window, previous)]
Refocused(s, u, previous) ==
    IF u.window \notin s.shown \/ u.preview # 0 \/ u.focus \in Layout(s, u.window) THEN u
    ELSE [u EXCEPT !.focus = PreferredFocus(s, u.window, previous), !.zoom = FALSE]

Filled(s, u) == (u.zoom \/ small') /\ u.focus # 0 /\ Layout(s, u.window) # {}
Placed(s, u) ==
    CASE u.window \notin s.shown -> {}
      [] u.window \in s.shown /\ u.preview # 0 -> {u.preview}
      [] u.window \in s.shown /\ u.preview = 0 ->
           IF Filled(s, u) THEN {u.focus} ELSE Layout(s, u.window)

\* syncViews: panes of the window keep their view while one of them, or a
\* preview, fills the screen.
Viewed(s, u) ==
    (Layout(s, u.window) \cup (Placed(s, u) \cap {u.focus, u.preview})) \cap Existing(s)

\* relayout of a screen with these panes, then syncViews
ShowAfter(previous, s, u) ==
    LET v == Refocused(s, u, previous) IN
    /\ ui' = v
    /\ placements' = Placed(s, v)
    /\ views' = Viewed(s, v)
Show(s, u) == ShowAfter(placements, s, u)

ExitedPreview(u) == [u EXCEPT !.preview = 0, !.focus = u.before, !.before = 0]
InitialWindow(s, u) == [u EXCEPT !.window = FirstOf(s.shown), !.focus = 0, !.zoom = FALSE]

ViewInit ==
    /\ present \in FirstStates
    /\ events = <<>> /\ snapshot = present /\ running = TRUE
    /\ small \in BOOLEAN
    /\ LET u == InitialWindow(present, [window |-> 0, focus |-> 0, zoom |-> FALSE,
                                        preview |-> 0, before |-> 0, pending |-> 0,
                                        pendingWindow |-> 0])
           v == Refocused(present, u, {})
       IN ui = v /\ placements = (IF small /\ v.focus # 0 THEN {v.focus} ELSE Layout(present, v.window))
          /\ views = Layout(present, v.window)
    /\ commands = CommandLimit /\ others = OthersLimit

----------------------------------------------------------------------------
(* Core *)

\* The states that one command leads to, of whoever.
PaneAdded(s, w, idle) ==
    [s EXCEPT !.at[s.pane] = w, !.idle = @ \cup (IF idle THEN {s.pane} ELSE {}), !.pane = @ + 1]
PaneGone(s, p) == [s EXCEPT !.at[p] = 0, !.stash = @ \ {p}, !.idle = @ \ {p}]
PaneEnded(s, p) == [s EXCEPT !.idle = @ \cup {p}]
PaneRun(s, p) == [s EXCEPT !.idle = @ \ {p}]
PaneStashed(s, p) == [s EXCEPT !.stash = @ \cup {p}]
PaneAt(s, p, w) == [s EXCEPT !.at[p] = w, !.stash = @ \ {p}]
\* Hidden: stashed with its panes, or deleted when it has none.
WindowHidden(s, w) == [s EXCEPT !.shown = @ \ {w}]
WindowShown(s, w) ==
    [s EXCEPT !.shown = @ \cup {w}, !.window = @ + (IF w = s.window THEN 1 ELSE 0)]
CanAdd(s) == s.pane \in Panes
Shown(s, p) == Exists(s, p) /\ ~IsStashed(s, p)
Restorable(s, w) == w \notin s.shown /\ \E p \in Panes : s.at[p] = w
CanCreate(s) == s.window \in Windows

Reached(s) ==
    (IF CanAdd(s) THEN {PaneAdded(s, w, FALSE) : w \in s.shown} ELSE {})
    \cup {PaneGone(s, p) : p \in Existing(s)} \cup {PaneEnded(s, p) : p \in Existing(s)}
    \cup {PaneStashed(s, p) : p \in {q \in Panes : Shown(s, q)}}
    \cup (UNION {{PaneAt(s, p, w) : w \in s.shown} : p \in {q \in Panes : Shown(s, q) \/ q \in s.stash}})
    \cup {WindowHidden(s, w) : w \in s.shown}
    \cup {WindowShown(s, w) : w \in {v \in Windows : Restorable(s, v) \/ v = s.window}}

\* Somebody else's command, or one of the user's that leaves the view to the event:
\* dismiss, kill, delete, a call whose answer is lost.
Others ==
    /\ others > 0 /\ others' = others - 1
    /\ \E next \in Reached(present) \ {present} :
         present' = next /\ events' = Append(events, next)
    /\ UNCHANGED <<snapshot, ui, small, placements, views, running, commands>>

\* A call of the loop that takes Core through these states; none for one that only
\* sets the focus of the frontend in Core.
Calls(path) ==
    /\ running /\ commands > 0 /\ commands' = commands - 1
    /\ present' = IF path = <<>> THEN present ELSE path[Len(path)]
    /\ events' = events \o path
    /\ UNCHANGED <<snapshot, small, running, others>>
\* A command that does not lay out the screen again.
Sets(u) == ui' = u /\ UNCHANGED <<placements, views>>

----------------------------------------------------------------------------
(* The user's commands *)

CanSplit == ui.focus = 0 \/ (~small /\ ui.focus \in Layout(snapshot, ui.window))

\* The new pane has the focus before the event that brings it has been applied.
Split(idle) ==
    LET w == IF ui.focus = 0 THEN ui.window ELSE present.at[ui.focus] IN
    /\ CanSplit /\ CanAdd(present)
    /\ w \in present.shown /\ (ui.focus # 0 => Shown(present, ui.focus))
    /\ Calls(<<PaneAdded(present, w, idle)>>)
    /\ Sets([ui EXCEPT !.focus = present.pane])

SplitTerminal == Split(FALSE)
CreateTool == Split(TRUE)

ClosePane(p) ==
    /\ Exists(snapshot, p) /\ Exists(present, p)
    /\ Calls(<<PaneGone(present, p)>>)
    /\ Sets([ui EXCEPT !.zoom = @ /\ ui.focus # p])

StashPane(p) ==
    /\ Shown(present, p)
    /\ Calls(<<PaneStashed(present, p)>>)
    /\ Sets([ui EXCEPT !.zoom = @ /\ ui.focus # p])

StashWindow(w) ==
    /\ w \in present.shown
    /\ Calls(<<WindowHidden(present, w)>>)
    /\ Sets([ui EXCEPT !.zoom = @ /\ ui.window # w])

\* What selectWindow leaves: Core answers with the first pane of its window.
Selected(s, u, w) ==
    [u EXCEPT !.window = w, !.focus = FirstOf(Layout(s, w)), !.zoom = FALSE]

SelectWindow(w) ==
    /\ w \in present.shown
    /\ Calls(<<>>)
    /\ Show(snapshot, Selected(present, ui, w))

\* createNamedWindow, and createWorkspace, which does not split.
CreateWindow(split) ==
    LET w == present.window
        shown == WindowShown(present, w)
        pane == PaneAdded(shown, w, FALSE)
    IN
    /\ CanCreate(present) /\ (split => CanAdd(present))
    /\ Calls(IF split THEN <<shown, pane>> ELSE <<shown>>)
    /\ ui' = [Selected(shown, ui, w) EXCEPT !.focus = IF split THEN present.pane ELSE 0]
    /\ placements' = {} /\ views' = {}

MovePane(w) ==
    LET next == PaneAt(present, ui.focus, w) IN
    /\ Shown(present, ui.focus) /\ w \in present.shown
    /\ Calls(<<next>>)
    /\ Show(snapshot, Selected(next, ui, w))

\* The focus moves to the pane when the window shows it.
RestorePane(p, w) ==
    LET next == PaneAt(present, p, w) IN
    /\ p \in present.stash /\ w \in present.shown
    /\ Calls(<<next>>)
    /\ LET v == Refocused(snapshot, Selected(next, ui, w), placements) IN
       /\ ui' = [v EXCEPT !.pending = p, !.pendingWindow = w]
       /\ placements' = Placed(snapshot, v)
       /\ views' = Viewed(snapshot, v)

RestoreWindow(w) ==
    LET next == WindowShown(present, w) IN
    /\ Restorable(present, w)
    /\ Calls(<<next>>)
    /\ Show(snapshot, Selected(next, ui, w))

Focused(s, u, p) == [u EXCEPT !.window = s.at[p], !.focus = p, !.zoom = FALSE]
Unpreviewed(u) == [u EXCEPT !.preview = 0, !.before = 0]

FocusPane(p) ==
    /\ Shown(present, p)
    /\ Calls(<<>>)
    /\ Show(snapshot, Focused(present, Unpreviewed(ui), p))

\* The open tool of that kind; none is left to Split.
OpenBuiltinTool(p) ==
    /\ p \in snapshot.idle /\ Shown(snapshot, p) /\ Shown(present, p)
    /\ Calls(<<>>)
    /\ Show(snapshot, Focused(present, ui, p))

\* restartPane and runPane
RunPane(p) ==
    /\ p \in present.idle
    /\ Calls(<<PaneRun(present, p)>>)
    /\ IF ~IsStashed(snapshot, p) /\ Shown(present, p)
       THEN Show(snapshot, Focused(present, Unpreviewed(ui), p))
       ELSE Sets(ui)

\* moveFocus: the candidates are on the screen.
InLayout(p) == p \in Layout(snapshot, ui.window)
Candidate(p) == p \in placements
MoveFocus(p) ==
    /\ ~ui.zoom /\ ui.focus \in placements
    /\ Candidate(p) /\ p # ui.focus /\ Exists(snapshot, p)
    /\ Calls(<<>>)
    /\ Sets([ui EXCEPT !.focus = p])

ExitPreview ==
    /\ ui.preview # 0
    /\ Calls(<<>>)
    /\ Show(snapshot, ExitedPreview(ui))

SetZoom ==
    /\ ui.preview = 0 /\ ui.focus # 0
    /\ Calls(<<>>)
    /\ Show(snapshot, [ui EXCEPT !.zoom = ~@])

PreviewPane(p) ==
    /\ IsStashed(snapshot, p)
    /\ Calls(<<>>)
    /\ Show(snapshot, [ui EXCEPT !.before = IF ui.preview = 0 THEN ui.focus ELSE ui.before,
                                 !.preview = p, !.focus = p, !.zoom = FALSE])

\* goToAttention, and a navigation that a plugin asks for.
GoTo(p) ==
    IF IsStashed(snapshot, p) THEN PreviewPane(p) ELSE FocusPane(p)

PaneCommands ==
    \/ SplitTerminal \/ SetZoom
    \/ \E p \in Panes : MoveFocus(p) \/ FocusPane(p) \/ ClosePane(p) \/ RunPane(p)
WindowCommands ==
    \/ \E split \in BOOLEAN : CreateWindow(split)
    \/ \E w \in Windows : SelectWindow(w) \/ MovePane(w)
StashCommands ==
    \/ \E p \in Panes : StashPane(p)
    \/ \E w \in Windows : StashWindow(w) \/ RestoreWindow(w)
    \/ \E p \in Panes, w \in Windows : RestorePane(p, w)
ToolCommands ==
    \/ CreateTool \/ ExitPreview
    \/ \E p \in Panes : OpenBuiltinTool(p) \/ GoTo(p)
ExecutePrompt == PaneCommands \/ WindowCommands \/ StashCommands \/ ToolCommands

----------------------------------------------------------------------------
(* The loop *)

\* core.ApplyEvent rejects the event of every window that is created (the window is
\* in no workspace yet), and the loop returns.
Rejects(next) == next.window # snapshot.window

EndLoop ==
    /\ running /\ events # <<>> /\ Rejects(Head(events))
    /\ running' = FALSE
    /\ UNCHANGED <<coreVars, snapshot, ui, small, placements, views, commands>>

\* exitPreview lays out the screen, before the loop does.
ApplyEvent ==
    /\ running /\ events # <<>> /\ ~Rejects(Head(events))
    /\ snapshot' = Head(events) /\ events' = Tail(events)
    /\ UNCHANGED <<present, small, running, commands, others>>
    /\ LET s == Head(events)
           exits == ui.preview # 0 /\ ~Exists(s, ui.preview)
           u == IF exits THEN Refocused(s, ExitedPreview(ui), placements) ELSE ui
           v == IF u.window \notin s.shown THEN InitialWindow(s, u) ELSE u
           w == IF v.pending # 0 /\ v.window = v.pendingWindow /\ v.pending \in Layout(s, v.window)
                THEN [v EXCEPT !.focus = v.pending, !.pending = 0, !.pendingWindow = 0] ELSE v
       IN ShowAfter(IF exits THEN Placed(s, u) ELSE placements, s, w)

Resize ==
    /\ running /\ small' = ~small
    /\ UNCHANGED <<present, events, snapshot, running, commands, others>>
    /\ Show(snapshot, ui)

ViewNext == ExecutePrompt \/ Others \/ ApplyEvent \/ EndLoop \/ Resize

ViewSpec == ViewInit /\ [][ViewNext]_viewVars

----------------------------------------------------------------------------
(* Properties *)

\* Type correctness of the session of the frontend (session in run.go).
ViewTypeOK ==
    /\ present \in States /\ snapshot \in States /\ \A i \in DOMAIN events : events[i] \in States
    /\ ui.window \in Windows \cup {0}
    /\ {ui.focus, ui.preview, ui.before, ui.pending} \subseteq Panes \cup {0}
    /\ placements \subseteq Panes /\ views \subseteq Panes /\ running \in BOOLEAN

\* Keys never go to a pane that the user does not see: sendInput finds a view for
\* the pane with the focus only when that pane is on the screen, whatever the
\* commands have moved ahead of the events and with panes kept behind a zoom.  A
\* preview is excepted: selectWindow leaves it on the screen and moves the focus.
KeysOnScreen ==
    ui.preview = 0 /\ ui.focus \in views /\ Exists(snapshot, ui.focus) => ui.focus \in placements

\* Once every event has been applied, no command that ran ahead of them, no lost
\* answer and nobody else's command has left the view on a window or a pane that is
\* not there: the focus is on a pane of the window.  A window without panes shows
\* nothing and has no view, so that no key goes anywhere, although relayout may have
\* put the focus on a pane of another window (preferredFocus reads what was on the
\* screen before): a pane that still exists.  (loop, relayout, syncViews)
SettledView ==
    events = <<>> =>
        /\ snapshot.shown # {} => ui.window \in snapshot.shown
        /\ ui.preview # 0 => Exists(snapshot, ui.preview)
        /\ ui.preview = 0 /\ ui.window \in snapshot.shown =>
             IF Layout(snapshot, ui.window) = {}
             THEN placements = {} /\ views = {} /\ (ui.focus # 0 => Exists(snapshot, ui.focus))
             ELSE ui.focus \in Layout(snapshot, ui.window)

=============================================================================
