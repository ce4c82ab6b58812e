----------------------------- MODULE PaneInput -----------------------------
(* What the text frontend passes on to the terminals (internal/frontend/tui): keys
   go to the pane with the focus, a bracketed paste is collected until its end and
   goes there as one, a mouse button that is pressed in a program that tracks the
   mouse belongs to its pane until it is released.  Pastes and mouse reports are
   encoded by the pane's emulator, which answers busy while it parses output: they
   wait in a queue of the view, and raw keys wait behind them.

   Steps of the loop are actions; io is what they leave in the views.  One button
   of the mouse; byte counts and the copy mode are left out. *)
EXTENDS Naturals, Sequences, SequencesExt

CONSTANTS
    InputPanes,
    QueueLimit,  \* entries of a queue (64)
    InputLimit   \* bound of the model: inputs of the user

ASSUME InputAssumption ==
    InputPanes \subseteq Nat \ {0} /\ QueueLimit \in Nat \ {0} /\ InputLimit \in Nat

VARIABLES
    io,        \* inputQueue of the views, what their terminals have got, and the
               \* panes of which a queued input has been dropped
    gesture,   \* session.gesture, when it belongs to a pane
    framer,    \* inputFrames: a paste that has begun
    inFocus,   \* session.focus
    inModal,   \* inputMode is not normal
    typed      \* inputs of the user

inputVars == <<io, gesture, framer, inFocus, inModal, typed>>

NoGesture == [pane |-> 0, focus |-> 0, app |-> FALSE, pressed |-> FALSE]
NoPaste == [pane |-> 0, modal |-> FALSE]

\* A queued input: raw keys merge; the numbers of the inputs in it, and the pane
\* that had the focus when it began.
Semantic == {"paste", "press", "drag", "release", "wheel"}
Entry(kind, pane) == [kind |-> kind, ids |-> <<typed + 1>>, for |-> pane]

InputInit ==
    /\ io = [queue |-> [p \in InputPanes |-> <<>>], sent |-> [p \in InputPanes |-> <<>>], lost |-> {}]
    /\ gesture = NoGesture /\ framer = NoPaste
    /\ inFocus \in InputPanes /\ inModal = FALSE
    /\ typed = 0

----------------------------------------------------------------------------
(* The queue of a view *)

\* enqueueInput: motion replaces motion, raw input joins raw input.
Joins(q, entry) == q # <<>> /\ Last(q).kind = entry.kind /\ entry.kind \in {"drag", "raw"}
Joined(q, entry) ==
    [q EXCEPT ![Len(q)] = IF entry.kind = "drag" THEN entry ELSE [Last(q) EXCEPT !.ids = @ \o entry.ids]]

\* drainInput, from every place where the emulator may be busy, and flushPTYInput:
\* an error drops what is left.
Drained(s, p) ==
    LET q == s.queue[p]
        After(k, rest) == [s EXCEPT !.sent[p] = @ \o SubSeq(q, 1, k), !.queue[p] = rest]
    IN
    {After(k, SubSeq(q, k + 1, Len(q))) :
        k \in {j \in 0 .. Len(q) : j = Len(q) \/ q[j + 1].kind \in Semantic}}
    \cup {[After(k, <<>>) EXCEPT !.lost = @ \cup {p}] : k \in 0 .. Len(q) - 1}

\* queuePTYInput
Queued(s, p, entry) ==
    LET q == s.queue[p] IN
    IF Joins(q, entry) THEN Drained([s EXCEPT !.queue[p] = Joined(q, entry)], p)
    ELSE IF Len(q) >= QueueLimit THEN {[s EXCEPT !.lost = @ \cup {p}]}
    ELSE Drained([s EXCEPT !.queue[p] = Append(q, entry)], p)

Written(s, p, entry) == [s EXCEPT !.sent[p] = Append(@, entry)]

\* sendPTYInput: behind what waits.  A write may fail.
SentAtOnce(s, p, entry) == {s, Written(s, p, entry)}
SentPTYInput(s, p, entry) ==
    IF s.queue[p] # <<>> THEN Queued(s, p, entry) ELSE {s, Written(s, p, entry)}

\* cancelMouseCapture: the program gets a release for the button it holds.
Forgotten(s, g) == {s}
Cancelled(s, g) ==
    IF g.app /\ g.pressed
    THEN Queued(s, g.pane, [kind |-> "release", ids |-> <<>>, for |-> g.pane])
    ELSE {s}

\* validateMouseCapture, of a gesture that another focus ends.
Validated(s, focus) == IF gesture # NoGesture /\ gesture.focus # focus THEN Cancelled(s, gesture) ELSE {s}
Valid(focus) == IF gesture.focus # focus THEN NoGesture ELSE gesture

----------------------------------------------------------------------------
(* What the user does *)

Input == typed < InputLimit /\ typed' = typed + 1 /\ framer = NoPaste

\* processKeys, sendInput: keys of a question stay with it.
Keys ==
    /\ Input
    /\ io' \in IF inModal THEN {io} ELSE SentPTYInput(io, inFocus, Entry("raw", inFocus))
    /\ UNCHANGED <<gesture, framer, inFocus, inModal>>

PasteStart ==
    /\ Input
    /\ framer' = [pane |-> inFocus, modal |-> inModal]
    /\ UNCHANGED <<io, gesture, inFocus, inModal>>

\* acceptPaste: only where it began.
PasteEnd ==
    /\ framer # NoPaste /\ framer' = NoPaste
    /\ io' \in IF framer = [pane |-> inFocus, modal |-> inModal] /\ ~inModal
               THEN Queued(io, inFocus, [kind |-> "paste", ids |-> <<typed>>, for |-> framer.pane])
               ELSE {io}
    /\ UNCHANGED <<gesture, inFocus, inModal, typed>>

\* routePaneMouse
Routed(s, g, kind) == IF g.app THEN Queued(s, g.pane, Entry(kind, g.pane)) ELSE {s}

\* handleMouse, in the steps of a gesture; a question takes no mouse.
Press ==
    /\ Input /\ ~inModal
    /\ IF Valid(inFocus) # NoGesture
       THEN /\ gesture' = [gesture EXCEPT !.pressed = gesture.app]
            /\ io' \in Routed(io, gesture, "press")
            /\ UNCHANGED inFocus
       ELSE \E app \in BOOLEAN, p \in InputPanes :
            LET g == [pane |-> p, focus |-> p, app |-> app /\ p = inFocus, pressed |-> app /\ p = inFocus] IN
            /\ gesture' = g
            /\ inFocus' = p
            /\ io' \in UNION {Routed(s, g, "press") : s \in Validated(io, inFocus)}
    /\ UNCHANGED <<framer, inModal>>

Drag ==
    /\ Input /\ ~inModal
    /\ gesture' = Valid(inFocus)
    /\ IF gesture' # NoGesture THEN io' \in Routed(io, gesture, "drag")
       ELSE \E app \in BOOLEAN, kind \in {"drag", "wheel"} :
              io' \in UNION {Routed(s, [pane |-> inFocus, app |-> app], kind) : s \in Validated(io, inFocus)}
    /\ UNCHANGED <<framer, inFocus, inModal>>

Release ==
    /\ Input /\ ~inModal
    /\ io' \in IF Valid(inFocus) # NoGesture THEN Routed(io, gesture, "release")
               ELSE Validated(io, inFocus)
    /\ gesture' = NoGesture
    /\ UNCHANGED <<framer, inFocus, inModal>>

----------------------------------------------------------------------------
(* What else the loop does *)

\* A command, an event, a navigation moves the focus; moveFocus and a split do not
\* lay out the screen again.
FocusMoves(p, relayout) ==
    /\ p # inFocus /\ inFocus' = p
    /\ IF relayout THEN io' \in Validated(io, p) /\ gesture' = Valid(p)
       ELSE UNCHANGED <<io, gesture>>
    /\ UNCHANGED <<framer, inModal, typed>>

\* A relayout for another reason: the size of the terminal, the window's layout.
LayoutChanges ==
    /\ gesture # NoGesture /\ gesture' = NoGesture
    /\ io' \in Cancelled(io, gesture)
    /\ UNCHANGED <<framer, inFocus, inModal, typed>>

\* beginPrompt, beginConfirmation
BeginQuestion ==
    /\ ~inModal /\ inModal' = TRUE
    /\ io' \in Cancelled(io, gesture) /\ gesture' = NoGesture
    /\ UNCHANGED <<framer, inFocus, typed>>

EndQuestion ==
    /\ inModal /\ inModal' = FALSE
    /\ UNCHANGED <<io, gesture, framer, inFocus, typed>>

\* The frame ticker.
FlushPTYInput(p) ==
    /\ io.queue[p] # <<>>
    /\ io' \in Drained(io, p)
    /\ UNCHANGED <<gesture, framer, inFocus, inModal, typed>>

\* detachView, of a window that is no longer shown.
DetachView(p) ==
    /\ p # inFocus /\ gesture.pane # p /\ io.queue[p] # <<>>
    /\ io' = [io EXCEPT !.queue[p] = <<>>, !.lost = @ \cup {p}]
    /\ UNCHANGED <<gesture, framer, inFocus, inModal, typed>>

InputNext ==
    \/ Keys \/ PasteStart \/ PasteEnd \/ Press \/ Drag \/ Release
    \/ LayoutChanges \/ BeginQuestion \/ EndQuestion
    \/ \E p \in InputPanes : FlushPTYInput(p) \/ DetachView(p) \/ \E relayout \in BOOLEAN : FocusMoves(p, relayout)

InputSpec == InputInit /\ [][InputNext]_inputVars

----------------------------------------------------------------------------
(* Properties *)

\* What a terminal gets, and will get from its queue.
Flow(p) == io.sent[p] \o io.queue[p]
InOrder(s) ==
    \A i, j \in DOMAIN s : \A a \in DOMAIN s[i].ids, b \in DOMAIN s[j].ids :
        i < j \/ (i = j /\ a < b) => s[i].ids[a] < s[j].ids[b]

\* A terminal gets the user's input in the order it was typed, whatever waits for
\* its emulator, and nothing that began in another pane (pty_input.go: a following
\* Enter cannot overtake a busy paste; processInput: a paste stays where it began).
InputInOrder ==
    \A p \in InputPanes : InOrder(Flow(p)) /\ \A i \in DOMAIN Flow(p) : Flow(p)[i].for = p

Released(s) ==
    \A i \in DOMAIN s : s[i].kind = "press" => \E j \in DOMAIN s : i < j /\ s[j].kind = "release"

\* A program whose button was pressed gets the release, even when the drag is
\* cancelled by a question, a layout or a focus (cancelMouseCapture); unless the
\* queue of its view had to drop something.
ButtonsReleased ==
    \A p \in InputPanes \ io.lost : Released(Flow(p)) \/ (gesture.pane = p /\ gesture.pressed)

=============================================================================
