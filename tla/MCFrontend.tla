----------------------------- MODULE MCFrontend -----------------------------
(* The three parts of the text frontend, one in each behaviour. *)
EXTENDS FrontendView, FrontendDialogues, PaneInput, TLC

VARIABLE part

First(at, shown, stash, idle, w) ==
    [shown |-> shown, at |-> at, stash |-> stash, idle |-> idle,
     pane |-> 1 + Cardinality({p \in Panes : at[p] # 0}), window |-> w]

\* Two panes in one window; in two; with one stashed; beside a stashed window.
MCFirstStates ==
    {First(<<1, 1, 0>>, {1}, {}, {}, 2), First(<<1, 2, 0>>, {1, 2}, {}, {}, 3),
     First(<<1, 1, 2>>, {1, 2}, {2}, {}, 3), First(<<1, 1, 2>>, {1}, {}, {2}, 3)}

MCInit ==
    /\ part \in {"view", "dialogues", "input"}
    /\ ViewInit /\ DialogueInit /\ InputInit /\ inFocus = 1
    /\ part # "view" => ~small /\ present.stash # {}

MCNext ==
    \/ part = "view" /\ ViewNext /\ UNCHANGED <<dialogueVars, inputVars>>
    \/ part = "dialogues" /\ DialogueNext /\ UNCHANGED <<viewVars, inputVars>>
    \/ part = "input" /\ InputNext /\ UNCHANGED <<viewVars, dialogueVars>>

MCVars == <<part, viewVars, dialogueVars, inputVars>>

MCSpec == MCInit /\ [][MCNext /\ UNCHANGED part]_MCVars /\ DialogueFairness
=============================================================================
