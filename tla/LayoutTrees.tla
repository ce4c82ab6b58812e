----------------------------- MODULE LayoutTrees -----------------------------
(***************************************************************************)
(* The layout of a window: a tree whose leaves are panes and whose inner   *)
(* nodes split their area among two or more children in proportion to      *)
(* positive weights (LayoutNode, internal/core/model.go).  A command       *)
(* inserts a leaf beside another one, removes a leaf, or changes weights;  *)
(* a hint remembers where a stashed pane was.  What they do is recursive;  *)
(* what the commands need of them is stated in CoreObjects (LayoutLaws).   *)
(***************************************************************************)
EXTENDS LayoutNodes

\* The leaves from first to last, and the splits, each before those below it.
RECURSIVE TreeLeaves(_), Splits(_)
TreeLeaves(n) ==
  CASE n.kind = "none" -> <<>>
    [] n.kind = "pane" -> <<n.pane>>
    [] n.kind = "split" ->
         FlattenSeq([i \in DOMAIN n.children |-> TreeLeaves(n.children[i])])
Splits(n) ==
  IF n.kind # "split" THEN <<>>
  ELSE <<n>> \o FlattenSeq([i \in DOMAIN n.children |-> Splits(n.children[i])])

TreeShows(n, p) == p \in ToSet(TreeLeaves(n))
TreeSplitIDs(n) == {s.id : s \in ToSet(Splits(n))}

\* The place of a leaf among the children of a split.
PlaceOf(n, p) == CHOOSE i \in DOMAIN n.children : n.children[i] = Leaf(p)
HoldsLeaf(n, p) == n.kind = "split" /\ Leaf(p) \in ToSet(n.children)

\* A leaf inserted beside leaf t in direction d joins the split that holds t
\* when that split has this direction.
Joins(n, t, d) == HoldsLeaf(n, t) /\ n.direction = d
TreeRequiresSplit(n, t, d) == \A s \in ToSet(Splits(n)) : ~ Joins(s, t, d)
-----------------------------------------------------------------------------
(* Weights                                                                 *)

\* Half of every weight, rounded up in unsigned arithmetic and at least 1,
\* until all of them can be doubled.
HalfOf(w) == LET h == ((w + 1) % (MaxWeight + 1)) \div 2
             IN IF h < 1 THEN 1 ELSE h

RECURSIVE Normalized(_), LargeHalved(_)
LargeHalved(ws) ==
  IF \A i \in DOMAIN ws : ws[i] <= MaxWeight \div 2 THEN ws
  ELSE LargeHalved([i \in DOMAIN ws |-> IF ws[i] <= MaxWeight \div 2 THEN ws[i]
                                        ELSE HalfOf(ws[i])])
Normalized(ws) ==
  IF \A i \in DOMAIN ws : ws[i] <= MaxWeight \div 2 THEN ws
  ELSE Normalized([i \in DOMAIN ws |-> HalfOf(ws[i])])

\* Every weight doubles but that of child i, which is shared with the leaf
\* inserted after it.
WeightsForInsertion(ws, i) ==
  LET n == Normalized(ws)
  IN InsertAt([k \in DOMAIN n |-> IF k = i THEN n[k] ELSE n[k] * 2], i + 1, n[i])
-----------------------------------------------------------------------------
(* Insertion and removal                                                   *)

Pair(t, p, a, id) ==
  IF a.before
  THEN Split(id, a.direction, <<Leaf(p), Leaf(t)>>, <<a.weight, a.targetWeight>>)
  ELSE Split(id, a.direction, <<Leaf(t), Leaf(p)>>, <<a.targetWeight, a.weight>>)

RECURSIVE TreeInsert(_, _, _, _)
TreeInsert(n, p, a, id) ==
  CASE n = Leaf(a.target) -> Pair(a.target, p, a, id)
    [] Joins(n, a.target, a.direction) ->
         LET i == PlaceOf(n, a.target)
             at == IF a.before THEN i ELSE i + 1
         IN [n EXCEPT !.children = InsertAt(@, at, Leaf(p)),
                      !.weights = IF a.halved THEN WeightsForInsertion(@, i)
                                  ELSE InsertAt(@, at, a.weight)]
    [] n.kind = "split" /\ ~ Joins(n, a.target, a.direction) ->
         [n EXCEPT !.children = [i \in DOMAIN @ |-> TreeInsert(@[i], p, a, id)]]
    [] OTHER -> n

\* A split left with one child is replaced by it.
RECURSIVE TreeRemoveLeaf(_, _)
TreeRemoveLeaf(n, p) ==
  IF n = Leaf(p) THEN Nil
  ELSE IF ~ TreeShows(n, p) THEN n
  ELSE LET all == [i \in DOMAIN n.children |->
                     [node |-> TreeRemoveLeaf(n.children[i], p), weight |-> n.weights[i]]]
           kept == SelectSeq(all, LAMBDA c : c.node # Nil)
       IN IF Len(kept) = 1 THEN kept[1].node
          ELSE [n EXCEPT !.children = [i \in DOMAIN kept |-> kept[i].node],
                         !.weights = [i \in DOMAIN kept |-> kept[i].weight]]

RECURSIVE TreeWithWeights(_, _, _)
TreeWithWeights(n, id, ws) ==
  IF n.kind # "split" THEN n
  ELSE IF n.id = id THEN [n EXCEPT !.weights = ws]
  ELSE [n EXCEPT !.children = [i \in DOMAIN @ |-> TreeWithWeights(@[i], id, ws)]]
-----------------------------------------------------------------------------
(* Hints of stashed panes: the first leaf of the sibling before the pane   *)
(* or, for a first child, of the one after it.                             *)

TreeHintFor(n, p) ==
  IF n = Leaf(p) THEN NoHint
  ELSE LET s == CHOOSE s \in ToSet(Splits(n)) : HoldsLeaf(s, p)
           i == PlaceOf(s, p)
           j == IF i = 1 THEN 2 ELSE i - 1
       IN [target |-> TreeLeaves(s.children[j])[1], direction |-> s.direction,
           before |-> i = 1, weight |-> s.weights[i],
           targetWeight |-> s.weights[j], split |-> s.id]

Alternates(n) ==
  \A s \in ToSet(Splits(n)) : \A i \in DOMAIN s.children :
    s.children[i].kind = "split" => s.children[i].direction # s.direction

\* validateLayout, for the layout of one window
WellFormed(n) ==
  /\ \A s \in ToSet(Splits(n)) :
       /\ Len(s.children) >= 2
       /\ Len(s.children) = Len(s.weights)
       /\ \A i \in DOMAIN s.weights : s.weights[i] \in 1 .. MaxWeight
  /\ IsInjective([i \in DOMAIN Splits(n) |-> Splits(n)[i].id])
  /\ IsInjective(TreeLeaves(n))

\* resizeSplit finds the split and as many children as weights.
TreeCanResize(n, id, ws) == \E s \in ToSet(Splits(n)) : s.id = id /\ Len(s.weights) = Len(ws)
=============================================================================
