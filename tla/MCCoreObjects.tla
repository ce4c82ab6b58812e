--------------------------- MODULE MCCoreObjects ---------------------------
(***************************************************************************)
(* CoreObjects for model checking: a behaviour creates and closes panes    *)
(* and uses one further family of commands, so that the families do not    *)
(* multiply each other's states.  The families beside the layout have at   *)
(* most two panes, all in the window that can be deleted.                  *)
(*                                                                         *)
(* The trees are those of LayoutTrees; TLC evaluates the laws for all of   *)
(* them that the bounds allow.                                             *)
(***************************************************************************)
EXTENDS CoreObjects, LayoutTrees

VARIABLE family

\* All trees of at most three panes: flat ones, and a pair of which one child
\* is a pair.
WellFormedSplits(ids, k, childLists) ==
  {n \in {Split(id, d, children, weights) :
            id \in ids, d \in Directions, children \in childLists, weights \in [1 .. k -> Weight]} :
     WellFormed(n)}
SmallTrees(ps, ids) ==
  LET single == {Leaf(p) : p \in ps}
      pairs == WellFormedSplits(ids, 2, [1 .. 2 -> single])
  IN {Nil} \cup single \cup pairs \cup WellFormedSplits(ids, 3, [1 .. 3 -> single])
       \cup WellFormedSplits(ids, 2, {<<m, n>> : m \in single, n \in pairs}
                                     \cup {<<n, m>> : m \in single, n \in pairs})

Resizes == {<<2, 1>>, <<1, 3>>, <<2, 3, 1>>, <<3, 1, 2>>}
Interchangeable ==
  Permutations(Sources) \cup Permutations(Values) \cup Permutations(Clients)

FewPanes ==
  /\ \/ PaneStep(None)
     \/ family = "tools" /\ \E d \in Instances : PaneStep(d)
     \/ WindowStep
  /\ nextPaneID' <= 3
  /\ tree'[1] = Nil

MCInit ==
  /\ ObjectsInit
  /\ family \in {"moves", "stash", "weights", "labels", "attentions", "tools"}

\* In the family "stash" a pane starts its life in the first window, and at
\* most two are stashed at a time.
FirstWindowFirst == nextPaneID' # nextPaneID => paneWindow'[nextPaneID] = 1
TwoStashed == Cardinality({p \in PaneID : IsStashed(p)}') <= 2

MCNext ==
  /\ \/ family \in {"moves", "stash", "weights"} /\ (PaneStep(None) \/ WindowStep)
     \/ family = "moves" /\ MoveStep
     \/ family = "stash" /\ StashStep
     \/ family = "weights" /\ ResizeStep
     \/ family = "labels" /\ LabelStep
     \/ family = "attentions" /\ AttentionStep
     \/ family = "tools" /\ ToolStep
     \/ family \notin {"moves", "stash", "weights"} /\ FewPanes
  /\ family = "stash" => FirstWindowFirst /\ TwoStashed
  /\ UNCHANGED family

MCSpec == MCInit /\ [][MCNext]_<<objectVars, family>>
-----------------------------------------------------------------------------
(* A pane that is stashed and restored at once comes back where it was, if  *)
(* its neighbour is a leaf and directions alternate: the hint, the collapse *)
(* of a split with one child and the insertion undo each other.             *)
StashRoundTrip ==
  \A w \in windows : \A p \in ToSet(Leaves(tree[w])) :
    LET h == HintFor(tree[w], p)
        rest == RemoveLeaf(tree[w], p)
        back == Insert(rest, p, Placing(h.target, h.direction, h.before, h.weight,
                                       h.targetWeight, FALSE), h.split)
        sibling == \E s \in ToSet(Splits(tree[w])) :
                     HoldsLeaf(s, p) /\ HoldsLeaf(s, h.target)
    IN rest # Nil /\ sibling /\ Alternates(tree[w]) => back = tree[w]

(* Making room beside a child of a split takes half of that child's share   *)
(* and no one else's (splitWeightsForInsertion): the two get equal weights, *)
(* the ratio of the shares stays exactly what it was while every weight can *)
(* be doubled in 32 bits, and their ranks do when weights must be halved    *)
(* first.  For all weights of three bits.  The greatest one wraps when it   *)
(* is halved: its child then counts as one of weight 1.  This is the rule   *)
(* of the code and of core_test.go:149 ("split erased existing weight       *)
(* ratio"); the plan document, line 84, says instead that such a split      *)
(* gives all siblings equal shares, which the code does not do.             *)
Wide == INSTANCE LayoutTrees WITH MaxWeight <- 7
SharesKept ==
  \A k \in 2 .. 3 : \A ws \in [1 .. k -> 1 .. 7] : \A i \in 1 .. k :
    LET new == Wide!WeightsForInsertion(ws, i)
        place == [j \in 1 .. k |-> IF j <= i THEN j ELSE j + 1]
        share == [j \in 1 .. k |-> IF j = i THEN new[i] + new[i + 1] ELSE new[place[j]]]
        counted == [j \in 1 .. k |-> IF ws[j] = 7 THEN 1 ELSE ws[j]]
    IN /\ new[i] = new[i + 1]
       /\ \A j \in DOMAIN new : new[j] \in 1 .. 7
       /\ (\A j \in 1 .. k : ws[j] <= 3) => \A j \in 1 .. k : share[j] = 2 * ws[j]
       /\ \A j, l \in 1 .. k : counted[j] <= counted[l] => share[j] <= share[l]

(* Edits of a tree change nothing they were not asked to.                   *)
LayoutKept == StashRoundTrip /\ SharesKept
=============================================================================
