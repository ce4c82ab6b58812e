----------------------------- MODULE LayoutNodes -----------------------------
(***************************************************************************)
(* The vocabulary of layouts: the nodes of a tree, how a pane is inserted  *)
(* beside another one, and the hint that remembers where a pane was.  What *)
(* is done with trees is in LayoutTrees.  Nil is the layout of an empty    *)
(* window.  Weights are uint32 in the code: here they are at most          *)
(* MaxWeight, one less than a power of two, and additions wrap.            *)
(***************************************************************************)
EXTENDS IdentifierLists

CONSTANT MaxWeight

Directions == {"horizontal", "vertical"}
NoDirection == ""
Weight == 1 .. MaxWeight

Nil == [kind |-> "none"]
Leaf(p) == [kind |-> "pane", pane |-> p]
Split(id, direction, children, weights) ==
  [kind |-> "split", id |-> id, direction |-> direction,
   children |-> children, weights |-> weights]

\* How a pane is inserted: beside which leaf, on which side, with which
\* weights for the two, in a new split of which identifier if one is needed;
\* halved when it takes half of the target's share of an existing split.
Placing(t, d, before, own, targets, halved) ==
  [target |-> t, direction |-> d, before |-> before,
   weight |-> own, targetWeight |-> targets, halved |-> halved]
After(t, d) == Placing(t, d, FALSE, 1, 1, TRUE)

NoHint == [target |-> 0, direction |-> NoDirection, before |-> FALSE,
           weight |-> 0, targetWeight |-> 0, split |-> 0]
=============================================================================
