--------------------------- MODULE IdentifierLists ---------------------------
(***************************************************************************)
(* Operators on lists of distinct identifiers, by which internal/core      *)
(* keeps the order of its workspaces and windows, and on which a layout    *)
(* tree is seen as the list of its leaves.                                 *)
(***************************************************************************)
EXTENDS Integers, Sequences, SequencesExt

IndexIn(s, x) == CHOOSE i \in DOMAIN s : s[i] = x

\* removeWorkspaceID, removeWindowID, and removePaneFromLayout on the leaves:
\* the order of the remaining identifiers is kept.
Without(s, x) == IF x \in ToSet(s) THEN RemoveAt(s, IndexIn(s, x)) ELSE s

\* insertSplit and insertRelative on the leaves: the inserted pane becomes a
\* neighbour of the target, after it unless a hint says before.
Sides == {"before", "after"}
Beside(s, target, side, p) ==
  IF s = <<>> THEN <<p>>
  ELSE InsertAt(s, IndexIn(s, target) + (IF side = "before" THEN 0 ELSE 1), p)

\* firstPane; 0 in an empty layout
FirstPane(s) == IF s = <<>> THEN 0 ELSE s[1]
=============================================================================
