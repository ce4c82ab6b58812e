------------------------- MODULE FrontendDialogues -------------------------
(* The modal part of the text frontend (internal/frontend/tui): one line of the
   screen asks one question at a time, and plugins, clipboard requests of the
   panes, navigations and the user's own commands all want it.  A dialogue of a
   plugin is asked by a goroutine of the client that waits on a channel of
   capacity 1 until the loop answers or its context ends; a clipboard request
   holds up the writer of its pane's terminal until it is answered.

   The loop is one goroutine: each of its steps is one action.  Goroutines that
   ask, contexts that end, and the calls that open and end an editor pane run
   beside it.  What a question says and what is typed is left out, and so are the
   bounds of the channels (16 requests of each kind). *)
EXTENDS Naturals, Sequences, FiniteSets

CONSTANTS
    Dialogues,    \* questions of plugins
    Clips, Asks,  \* clipboard requests; those whose policy is to ask the user
    Navigations,  \* navigations that plugins ask for
    None, User,   \* nobody, and the user's own prompt or confirmation
    RequestLimit  \* bound of the model: how many of them are asked

ASSUME DialogueAssumption ==
    /\ Asks \subseteq Clips /\ RequestLimit \in Nat
    /\ Dialogues \cap (Clips \cup Navigations) = {} /\ Clips \cap Navigations = {}
    /\ {None, User} \cap (Dialogues \cup Clips \cup Navigations) = {} /\ None # User

VARIABLES
    modal,      \* inputMode, and whom its callback answers
    copying,    \* copyMode
    dialogues,  \* pluginDialogues: requests that the loop has not taken
    controls,   \* pendingControls
    behind,     \* navigations whose MinimumRevision the snapshot has not reached
    active,     \* activePluginDialogue
    editor,     \* pluginEditor
    clips,      \* clipboardRequests
    held,       \* pendingClipboard
    asked,      \* requests that somebody has made
    withdrawn,  \* requests whose context has ended
    answers     \* how often each request has been answered

dialogueVars == <<modal, copying, dialogues, controls, behind, active, editor, clips, held,
                  asked, withdrawn, answers>>

Requests == Dialogues \cup Clips \cup Navigations
Kinds == {"prompt", "confirm", "editor"}
Normal == [mode |-> "normal", owner |-> None]

\* editorPreview: its dialogue; whether the answer of editor.open has named the
\* pane; finished; seen; whether a call runs; the pane in the snapshot; whether the
\* preview shows it.
NoEditor == [of |-> None, open |-> FALSE, finished |-> FALSE, seen |-> FALSE, calling |-> FALSE,
             pane |-> "coming", shown |-> FALSE]
HasEditor == editor.of # None
Busy == modal # Normal

DialogueInit ==
    /\ modal = Normal /\ copying = FALSE
    /\ dialogues = <<>> /\ controls = <<>> /\ behind = {}
    /\ active = None /\ editor = NoEditor
    /\ clips = {} /\ held = <<>> /\ asked = {} /\ withdrawn = {}
    /\ answers = [x \in Requests |-> 0]

Answered(x) == [answers EXCEPT ![x] = @ + 1]

----------------------------------------------------------------------------
(* Who asks *)

Ask(x) ==
    /\ x \notin asked /\ Cardinality(asked) < RequestLimit
    /\ asked' = asked \cup {x}

AskUser(d, kind) ==
    /\ Ask(d)
    /\ dialogues' = Append(dialogues, [of |-> d, kind |-> kind])
    /\ UNCHANGED <<modal, copying, controls, behind, active, editor, clips, held, withdrawn, answers>>

AskClipboard(c) ==
    /\ Ask(c)
    /\ clips' = clips \cup {c}
    /\ UNCHANGED <<modal, copying, dialogues, controls, behind, active, editor, held, withdrawn, answers>>

AskNavigation(n) ==
    /\ Ask(n)
    /\ controls' = Append(controls, n)
    /\ \E known \in BOOLEAN : behind' = IF known THEN behind ELSE behind \cup {n}
    /\ UNCHANGED <<modal, copying, dialogues, active, editor, clips, held, withdrawn, answers>>

\* The event of that revision has been applied.
CatchUp ==
    /\ behind # {} /\ behind' = {}
    /\ UNCHANGED <<modal, copying, dialogues, controls, active, editor, clips, held, asked, withdrawn, answers>>

\* The plugin's context ends: a timeout, a cancellation, the plugin has gone.
Withdrawn(x) ==
    /\ x \in asked \cap (Dialogues \cup Navigations)
    /\ x \notin withdrawn /\ answers[x] = 0
    /\ withdrawn' = withdrawn \cup {x}
    /\ UNCHANGED <<modal, copying, dialogues, controls, behind, active, editor, clips, held, asked, answers>>

----------------------------------------------------------------------------
(* Clipboard requests *)

\* resumeClipboardRequests, once the screen is left at m and one request is
\* answered: those that need no question are answered, the first that does is asked.
Resume(m, done) ==
    LET k == IF m # Normal THEN 0
             ELSE CHOOSE j \in 0 .. Len(held) :
                    /\ \A i \in 1 .. j : held[i] \notin Asks
                    /\ j < Len(held) => held[j + 1] \in Asks
        first == {held[i] : i \in 1 .. k}
        asks == m = Normal /\ k < Len(held)
    IN
    /\ modal' = IF asks THEN [mode |-> "confirm", owner |-> held[k + 1]] ELSE m
    /\ held' = SubSeq(held, IF asks THEN k + 2 ELSE k + 1, Len(held))
    /\ answers' = [x \in Requests |-> answers[x] + (IF x \in first \cup done THEN 1 ELSE 0)]

\* Held while another question is asked.
HeldNever == FALSE
HoldsBack == Busy

HandleClipboardRequest(c) ==
    /\ c \in clips /\ clips' = clips \ {c}
    /\ CASE HoldsBack -> held' = Append(held, c) /\ UNCHANGED <<modal, answers>>
         [] ~HoldsBack /\ c \in Asks -> modal' = [mode |-> "confirm", owner |-> c] /\ UNCHANGED <<held, answers>>
         [] ~HoldsBack /\ c \notin Asks -> Resume(modal, {c})
    /\ UNCHANGED <<copying, dialogues, controls, behind, active, editor, asked, withdrawn>>

----------------------------------------------------------------------------
(* Dialogues of plugins *)

Refuses == Busy \/ HasEditor

HandlePluginDialogue ==
    LET request == Head(dialogues)
        d == request.of
    IN
    /\ dialogues # <<>> /\ dialogues' = Tail(dialogues)
    /\ \/ /\ Refuses
          /\ answers' = Answered(d)
          /\ UNCHANGED <<modal, active, editor>>
       \/ /\ ~Refuses
          /\ active' = d
          /\ IF request.kind = "editor"
             THEN editor' = [NoEditor EXCEPT !.of = d, !.calling = TRUE] /\ UNCHANGED modal
             ELSE modal' = [mode |-> request.kind, owner |-> d] /\ UNCHANGED editor
          /\ UNCHANGED answers
    /\ UNCHANGED <<copying, controls, behind, clips, held, asked, withdrawn>>

\* finishPluginEditor: a pending editor.open is left to its context.
Finished(e) == IF e.finished THEN e ELSE [e EXCEPT !.finished = TRUE, !.calling = @ \/ e.open]

CancelPluginDialogue ==
    IF HasEditor
    THEN editor' = Finished(editor) /\ UNCHANGED <<modal, active, answers>>
    ELSE /\ answers' = IF answers[active] = 0 THEN Answered(active) ELSE answers
         /\ active' = None /\ modal' = Normal
         /\ UNCHANGED editor

\* What the frame ticker sees of the editor's pane.
EditorSeen ==
    LET e == [editor EXCEPT !.seen = TRUE] IN
    CASE editor.pane \in {"coming", "gone"} -> IF editor.seen THEN Finished(editor) ELSE editor
      [] editor.pane = "running" -> IF editor.shown THEN e ELSE Finished(e)
      [] editor.pane = "exited" -> Finished(e)

PollPluginDialogue ==
    /\ \/ /\ active # None /\ active \in withdrawn
          /\ CancelPluginDialogue
       \/ /\ ~(active # None /\ active \in withdrawn)
          /\ HasEditor /\ editor.open /\ ~editor.finished
          /\ editor' = EditorSeen
          /\ UNCHANGED <<modal, active, answers>>
    /\ UNCHANGED <<copying, dialogues, controls, behind, clips, held, asked, withdrawn>>

\* restoreEditorPreview
EditorAnswered ==
    /\ answers' = Answered(editor.of)
    /\ editor' = NoEditor /\ active' = None

\* An editor that was cancelled before it was open is finished again.
OpenedFinished(e) == [e EXCEPT !.open = TRUE, !.calling = FALSE, !.shown = ~e.finished]
Opened(e) == IF e.finished THEN [e EXCEPT !.open = TRUE]
             ELSE [e EXCEPT !.open = TRUE, !.calling = FALSE, !.shown = TRUE]

\* applyEditorResult: of editor.open, of editor.finish or of editor.cancel.
ApplyEditorResult(ok) ==
    /\ editor.calling
    /\ IF ok /\ ~editor.open
       THEN editor' = Opened(editor) /\ UNCHANGED <<answers, active>>
       ELSE EditorAnswered
    /\ UNCHANGED <<modal, copying, dialogues, controls, behind, clips, held, asked, withdrawn>>

\* The editor's pane in the snapshot, and a preview that the user, a navigation or
\* an event from before the pane takes off the screen.
EditorPane ==
    /\ HasEditor
    /\ editor' \in {[editor EXCEPT !.pane = p] :
                       p \in CASE editor.pane = "coming" -> {"running"}
                               [] editor.pane = "running" -> {"exited", "gone"}
                               [] editor.pane = "exited" -> {"gone"}
                               [] editor.pane = "gone" -> {}}
                   \cup {[editor EXCEPT !.shown = FALSE]}
    /\ editor' # editor
    /\ UNCHANGED <<modal, copying, dialogues, controls, behind, active, clips, held, asked, withdrawn, answers>>

----------------------------------------------------------------------------
(* Navigations *)

\* processFrontendControls and applyFrontendControl: a search of copy mode gives
\* way, anything else on the screen does not.  The first one holds up the others.
ProcessFrontendControls ==
    LET n == Head(controls)
        searching == copying /\ modal.mode = "prompt"
        busy == (Busy /\ ~searching) \/ HasEditor \/ active # None
    IN
    /\ controls # <<>> /\ (n \in withdrawn \/ n \notin behind)
    /\ controls' = Tail(controls) /\ behind' = behind \ {n}
    /\ answers' = Answered(n)
    /\ IF n \in withdrawn \/ busy THEN UNCHANGED <<modal, copying>>
       ELSE \/ UNCHANGED <<modal, copying>>  \* not there, or Core refuses
            \/ modal' = Normal /\ copying' = FALSE
    /\ UNCHANGED <<dialogues, active, editor, clips, held, asked, withdrawn>>

----------------------------------------------------------------------------
(* The user *)

\* The prompt of the commands or of a search, a confirmation of the user's own.
BeginModal(mode) ==
    /\ ~Busy /\ modal' = [mode |-> mode, owner |-> User]
    /\ UNCHANGED <<copying, dialogues, controls, behind, active, editor, clips, held, asked, withdrawn, answers>>

\* enterCopyMode, leaveCopyMode, and a focus that moves.
SwitchCopyMode ==
    /\ ~Busy /\ copying' = ~copying
    /\ UNCHANGED <<modal, dialogues, controls, behind, active, editor, clips, held, asked, withdrawn, answers>>

\* handleModalInput, an answer: the input mode is cleared before the callback, and
\* the callback may ask again (a command that wants a confirmation, an unsafe paste).
AnswerModal ==
    /\ Busy
    /\ \E next \in {Normal} \cup (IF modal.owner = User THEN {[mode |-> "confirm", owner |-> User]} ELSE {}) :
         Resume(next, {modal.owner} \cap Requests)
    /\ active' = IF modal.owner \in Dialogues THEN None ELSE active
    /\ UNCHANGED <<copying, dialogues, controls, behind, editor, clips, asked, withdrawn>>

\* handleModalInput, escape: it goes to the plugin first, an editor's too.
EscapeModal ==
    /\ Busy
    /\ \/ active # None /\ CancelPluginDialogue /\ UNCHANGED held
       \/ active = None /\ Resume(Normal, {modal.owner} \cap Clips) /\ UNCHANGED <<active, editor>>
    /\ UNCHANGED <<copying, dialogues, controls, behind, clips, asked, withdrawn>>

----------------------------------------------------------------------------
DialogueLoop ==
    \/ \E c \in Clips : HandleClipboardRequest(c)
    \/ HandlePluginDialogue \/ PollPluginDialogue \/ ProcessFrontendControls
    \/ \E ok \in BOOLEAN : ApplyEditorResult(ok)

DialogueNext ==
    \/ \E d \in Dialogues, kind \in Kinds : AskUser(d, kind)
    \/ \E c \in Clips : AskClipboard(c)
    \/ \E n \in Navigations : AskNavigation(n)
    \/ \E x \in Requests : Withdrawn(x)
    \/ \E mode \in {"prompt", "confirm"} : BeginModal(mode)
    \/ CatchUp \/ SwitchCopyMode \/ AnswerModal \/ EscapeModal \/ EditorPane
    \/ DialogueLoop

\* The loop selects among ready channels at random and its ticker never stops; a
\* call of the client ends by its deadline.
DialogueFairness ==
    /\ \A c \in Clips : WF_dialogueVars(HandleClipboardRequest(c))
    /\ WF_dialogueVars(HandlePluginDialogue) /\ WF_dialogueVars(PollPluginDialogue)
    /\ WF_dialogueVars(ProcessFrontendControls)
    /\ WF_dialogueVars(\E ok \in BOOLEAN : ApplyEditorResult(ok))

DialogueSpec == DialogueInit /\ [][DialogueNext]_dialogueVars /\ DialogueFairness

----------------------------------------------------------------------------
(* Properties *)

\* The requests that are still somewhere in the frontend.
Waiting == clips \cup {active, modal.owner} \cup {dialogues[i].of : i \in DOMAIN dialogues}
           \cup {controls[i] : i \in DOMAIN controls} \cup {held[i] : i \in DOMAIN held}

\* Every request is answered at most once, by the question that shows it, and none
\* is lost: a second answer would block the loop on a channel of capacity 1, and a
\* question that takes the place of another leaves its request to a callback nobody
\* can reach (handlePluginDialogue, handleClipboardRequest, applyEditorResult).
AnswersMatched ==
    /\ \A x \in Requests : answers[x] <= 1
    /\ modal.owner \in Requests => answers[modal.owner] = 0
    /\ active # None => answers[active] = 0 /\ (HasEditor \/ modal.owner = active)
    /\ modal.owner \in Dialogues => active = modal.owner
    /\ \A x \in asked : answers[x] = 1 \/ x \in Waiting

\* A dialogue or a navigation whose context ends is answered, whatever the screen
\* shows and wherever its editor is: nothing stays on the screen for a plugin that
\* no longer waits (pollPluginDialogue, finishPluginEditor).
DialoguesSettle ==
    \A x \in Dialogues \cup Navigations :
        x \in withdrawn ~> answers[x] = 1 /\ modal.owner # x /\ active # x

=============================================================================
