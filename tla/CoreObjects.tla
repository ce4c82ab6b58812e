----------------------------- MODULE CoreObjects -----------------------------
(***************************************************************************)
(* What the panes of internal/core carry beside their place in the         *)
(* hierarchy: the layout trees of their windows, the hints that remember   *)
(* where a stashed pane was, labels, attentions and the shared state of    *)
(* tools; and the copy of all of it that a frontend keeps by applying the  *)
(* event of every command (ApplyEvent).                                    *)
(*                                                                         *)
(* One workspace with two windows, the second of which may be deleted.  A  *)
(* command is one atomic action of the executor and its event is applied   *)
(* to the copy in the same step: EventStream models the queue in between.  *)
(*                                                                         *)
(* The layout trees are a parameter: what is read of a tree, what is done  *)
(* to it, and laws about both.  LayoutTrees is the program's.              *)
(***************************************************************************)
EXTENDS LayoutNodes, FiniteSets

CONSTANTS
  PaneLimit, SplitLimit,  \* bounds of the model on allocated identifiers
  Accepted(_, _),         \* the layouts of panes and splits that validateLayout accepts
  Leaves(_), SplitIDs(_), RequiresSplit(_, _, _), CanResize(_, _, _),
  Insert(_, _, _, _), RemoveLeaf(_, _), WithWeights(_, _, _), HintFor(_, _),
  ResizeTo,               \* the weights a resize may ask for
  Sources,                \* owners of labels and attentions
  Values,                 \* values of labels and classes of attentions
  Instances,              \* tool descriptors
  Clients,                \* clients that edit tools
  AttentionLimit,         \* Config.MaxAttentionEntries
  AttentionIDLimit, TimeLimit, GenerationLimit,  \* bounds of the model
  None

Windows == {1, 2}
PaneID == 1 .. (PaneLimit - 1)
SplitID == 1 .. (SplitLimit - 1)
Layouts == Accepted(PaneID, SplitID)
ToolStates == {"initial", "edited"}
Shows(n, p) == p \in ToSet(Leaves(n))

ASSUME ObjectsAssumption ==
  /\ PaneLimit \in Nat \ {0} /\ SplitLimit \in Nat \ {0} /\ MaxWeight \in Nat \ {0}
  /\ AttentionLimit \in Nat /\ AttentionIDLimit \in Nat \ {0}
  /\ TimeLimit \in Nat /\ GenerationLimit \in Nat
  /\ None \notin Instances \cup ToolStates

Placings == [target : PaneID, direction : Directions, before : BOOLEAN,
             weight : Weight, targetWeight : Weight, halved : BOOLEAN]
Hints == [target : PaneID, direction : Directions, before : BOOLEAN,
          weight : Weight, targetWeight : Weight, split : SplitID]

\* A hint is empty, or names a leaf before the pane or the one after it.
Neighbouring(h, leaves, p) ==
  LET i == IndexIn(leaves, p)
      j == IndexIn(leaves, h.target)
  IN /\ h.target \in ToSet(leaves)
     /\ IF h.before THEN j = i + 1 ELSE j < i

(* The laws of layouts: the operations keep a layout acceptable, and on its *)
(* leaves they are the operations on lists that CoreState knows; no split   *)
(* identifier appears but the one that was allocated for an insertion, and  *)
(* that one exactly when the insertion needs it.                            *)
ASSUME LayoutLaws ==
  /\ Nil \in Layouts /\ Leaves(Nil) = <<>> /\ SplitIDs(Nil) = {}
  /\ \A p \in PaneID :
       Leaf(p) \in Layouts /\ Leaves(Leaf(p)) = <<p>> /\ SplitIDs(Leaf(p)) = {}
  /\ \A n \in Layouts :
       /\ Leaves(n) \in Seq(PaneID) /\ IsInjective(Leaves(n)) /\ SplitIDs(n) \subseteq SplitID
       /\ Leaves(n) = <<>> => n = Nil
  /\ \A n \in Layouts : \A p \in PaneID \ ToSet(Leaves(n)), id \in (1 .. SplitLimit) \ SplitIDs(n) :
       \A a \in {b \in Placings : Shows(n, b.target)} :
         LET m == Insert(n, p, a, id)
             new == IF RequiresSplit(n, a.target, a.direction) THEN {id} ELSE {}
         IN new \subseteq SplitID =>
              /\ m \in Layouts
              /\ Leaves(m) = Beside(Leaves(n), a.target, IF a.before THEN "before" ELSE "after", p)
              /\ SplitIDs(m) = SplitIDs(n) \cup new
  /\ \A n \in Layouts : \A p \in ToSet(Leaves(n)) :
       /\ RemoveLeaf(n, p) \in Layouts
       /\ Leaves(RemoveLeaf(n, p)) = Without(Leaves(n), p)
       /\ SplitIDs(RemoveLeaf(n, p)) \subseteq SplitIDs(n)
       /\ IF Len(Leaves(n)) = 1 THEN HintFor(n, p) = NoHint
          ELSE /\ HintFor(n, p) \in Hints
               /\ HintFor(n, p).split \in SplitIDs(n)
               /\ Neighbouring(HintFor(n, p), Leaves(n), p)
  /\ \A n \in Layouts, id \in SplitID, ws \in ResizeTo :
       CanResize(n, id, ws) =>
         LET m == WithWeights(n, id, ws)
         IN m \in Layouts /\ Leaves(m) = Leaves(n) /\ SplitIDs(m) = SplitIDs(n)

VARIABLES
  windows,       \* the windows that exist
  tree,          \* Window.Layout
  nextSplitID,
  panes, nextPaneID,
  paneWindow,
  stashed,       \* stashedPanes: the hint of a stashed pane, with its window
  toolOf,        \* Pane.Tool: the descriptor it shows, or None
  tools,         \* toolInstances: generation and state; generation 0: none
  labels,        \* the set of labels
  attentions,    \* the set of attentions
  attentionKeys, \* the attention of a source at a pane; 0: none
  nextAttentionID,
  copy,          \* a frontend's snapshot
  drafts         \* what each client has read of a tool before it edits it

layoutVars == <<windows, tree, nextSplitID, panes, nextPaneID, paneWindow, stashed>>
toolVars == <<toolOf, tools>>
attentionVars == <<attentions, attentionKeys, nextAttentionID>>
objectVars == <<layoutVars, toolVars, labels, attentionVars, copy, drafts>>

\* StashedPane: the window a pane was in, and the hint
Stashed(h, w) ==
  [target |-> h.target, direction |-> h.direction, before |-> h.before, weight |-> h.weight,
   targetWeight |-> h.targetWeight, split |-> h.split, window |-> w]
NotStashed == Stashed(NoHint, 0)
NoTool == [generation |-> 0, state |-> None]
NewTool == [generation |-> 1, state |-> "initial"]
NoDraft == [descriptor |-> None, read |-> NoTool, gone |-> FALSE]
Target(kind, id) == [kind |-> kind, id |-> id]
SameKey(l, m) == l.target = m.target /\ l.source = m.source
KeyOf(a) == <<a.source, a.pane>>

IsStashed(p) == stashed[p].window # 0
OnScreen(p) == p \in panes /\ ~ IsStashed(p)

\* The part of the state a snapshot carries
Snapshot ==
  [windows |-> windows, tree |-> tree, nextSplitID |-> nextSplitID,
   panes |-> panes, nextPaneID |-> nextPaneID, paneWindow |-> paneWindow,
   stashed |-> stashed, toolOf |-> toolOf, tools |-> tools,
   labels |-> labels, attentions |-> attentions]

Tool == {NoTool} \cup [generation : Nat \ {0}, state : ToolStates]
Label == [target : [kind : {"window", "pane"}, id : PaneID \cup Windows],
          source : Sources, value : Values]
Attention == [id : Nat \ {0}, pane : PaneID, source : Sources, value : Values,
              updated : Nat, acked : Nat]
ObjectsTypeOK ==
  /\ windows \in SUBSET Windows
  /\ tree \in [Windows -> Layouts]
  /\ nextSplitID \in 1 .. SplitLimit
  /\ panes \in SUBSET PaneID /\ nextPaneID \in 1 .. PaneLimit
  /\ paneWindow \in [PaneID -> Windows \cup {0}]
  /\ stashed \in [PaneID -> {NotStashed} \cup {Stashed(h, w) : h \in Hints \cup {NoHint}, w \in Windows}]
  /\ toolOf \in [PaneID -> Instances \cup {None}]
  /\ tools \in [Instances -> Tool]
  /\ labels \in SUBSET Label
  /\ attentions \in SUBSET Attention
  /\ attentionKeys \in [Sources \X PaneID -> Nat]
  /\ nextAttentionID \in Nat \ {0}
  /\ copy = [Snapshot EXCEPT !.tools = copy.tools] /\ copy.tools \in [Instances -> Tool]
  /\ drafts \in [Clients -> [descriptor : Instances \cup {None}, read : Tool, gone : BOOLEAN]]
-----------------------------------------------------------------------------
(* What stateFromSnapshot accepts of a snapshot s                          *)

\* Split identifiers are unique over all windows; every pane is at one place,
\* in the layout of its window or stashed.
LayoutsValid(s) ==
  /\ \A w \in Windows : s.tree[w] \in Layouts
  /\ \A v, w \in Windows : v # w => SplitIDs(s.tree[v]) \cap SplitIDs(s.tree[w]) = {}
  /\ \A w \in Windows : \A p \in ToSet(Leaves(s.tree[w])) :
       w \in s.windows /\ p \in s.panes /\ s.paneWindow[p] = w
  /\ \A p \in s.panes :
       s.stashed[p].window # 0 <=> \A w \in s.windows : ~ Shows(s.tree[w], p)

\* A hint is empty, or complete and about another pane.
HintsValid(s) ==
  \A p \in s.panes :
    LET h == s.stashed[p] IN
    IF h.target = 0 THEN h = Stashed(NoHint, h.window)
    ELSE h.target # p /\ h.direction \in Directions /\ h.weight > 0 /\ h.targetWeight > 0 /\ h.split > 0

TargetExists(s, t) == IF t.kind = "window" THEN t.id \in s.windows ELSE t.id \in s.panes

ReferencesValid(s) ==
  /\ \A p \in s.panes : s.toolOf[p] # None => s.tools[s.toolOf[p]] # NoTool
  /\ \A l, m \in s.labels : TargetExists(s, l.target) /\ (SameKey(l, m) => l = m)
  /\ \A a, b \in s.attentions :
       a.pane \in s.panes /\ (a.id = b.id \/ KeyOf(a) = KeyOf(b) => a = b)

NextIdentifiersValid(s) ==
  /\ \A p \in s.panes : p < s.nextPaneID /\ s.stashed[p].split < s.nextSplitID
  /\ \A w \in s.windows : \A id \in SplitIDs(s.tree[w]) : id < s.nextSplitID

SnapshotValid(s) ==
  LayoutsValid(s) /\ HintsValid(s) /\ ReferencesValid(s) /\ NextIdentifiersValid(s)
-----------------------------------------------------------------------------
(* ApplyEvent: the changes of a snapshot, composed as the payload of each  *)
(* kind of event demands.                                                  *)

UpsertPane(s, p) ==
  [s EXCEPT !.panes = @ \cup {p.id}, !.paneWindow[p.id] = p.window, !.toolOf[p.id] = p.tool]
UpsertWindow(s, w) == [s EXCEPT !.windows = @ \cup {w.id}, !.tree[w.id] = w.layout]
BumpNextPaneID(s, p) == [s EXCEPT !.nextPaneID = IF p.id >= @ THEN p.id + 1 ELSE @]
KeepNextSplitID(s, w) == s
BumpNextSplitID(s, w) ==
  [s EXCEPT !.nextSplitID = Max({@} \cup {id + 1 : id \in SplitIDs(w.layout)})]
UpsertTool(s, d, tool) == IF tool = NoTool THEN s ELSE [s EXCEPT !.tools[d] = tool]
RemoveAttentions(s, gone) ==
  [s EXCEPT !.attentions = {a \in @ : \A g \in gone : a.id # g.id}]
UpsertAttention(s, attention) ==
  [RemoveAttentions(s, {attention}) EXCEPT !.attentions = @ \cup {attention}]
UpsertLabel(s, l) == [s EXCEPT !.labels = {m \in @ : ~ SameKey(l, m)} \cup {l}]
RemoveLabels(s, gone) ==
  [s EXCEPT !.labels = {m \in @ : \A l \in gone : ~ SameKey(l, m)}]

PaneClosed(s, e) ==
  LET gone == [s EXCEPT !.panes = @ \ {e.pane.id}, !.paneWindow[e.pane.id] = 0,
                        !.toolOf[e.pane.id] = None, !.stashed[e.pane.id] = NotStashed]
      shown == IF e.window.id = 0 THEN gone ELSE UpsertWindow(gone, e.window)
      untooled == IF e.tool = None THEN shown ELSE [shown EXCEPT !.tools[e.tool] = NoTool]
  IN RemoveAttentions(RemoveLabels(untooled, e.labels), e.attentions)

ApplyEvent(s, e) ==
  CASE e.kind = "pane_created" ->
         BumpNextSplitID(UpsertWindow(BumpNextPaneID(UpsertPane(
           UpsertTool(s, e.pane.tool, e.tool), e.pane), e.pane), e.window), e.window)
    [] e.kind = "pane_moved" ->
         BumpNextSplitID(UpsertWindow(UpsertWindow(UpsertPane(s, e.pane), e.source),
                                      e.window), e.window)
    [] e.kind = "pane_closed" -> PaneClosed(s, e)
    [] e.kind = "pane_stashed" ->
         [UpsertWindow(UpsertPane(s, e.pane), e.window) EXCEPT !.stashed[e.pane.id] = e.hint]
    [] e.kind = "pane_restored" ->
         [BumpNextSplitID(UpsertWindow(UpsertPane(s, e.pane), e.window), e.window)
            EXCEPT !.stashed[e.pane.id] = NotStashed]
    [] e.kind = "split_resized" -> UpsertWindow(s, e.window)
    [] e.kind = "window_deleted" ->
         RemoveLabels([s EXCEPT !.windows = @ \ {e.window.id}], e.labels)
    [] e.kind = "label_set" -> UpsertLabel(s, e.label)
    [] e.kind \in {"label_removed", "label_source_cleared"} -> RemoveLabels(s, e.labels)
    [] e.kind = "tool_state_updated" -> UpsertTool(s, e.descriptor, e.tool)
    [] e.kind = "attention_changed" ->
         RemoveAttentions(UpsertAttention(s, e.attention), e.removed)
    [] e.kind = "attention_source_cleared" -> RemoveAttentions(s, e.removed)

Publish(e) == copy' = ApplyEvent(copy, e)

PaneRecord(p) == [id |-> p, window |-> paneWindow'[p], tool |-> toolOf'[p]]
WindowRecord(w) == [id |-> w, layout |-> tree'[w]]
-----------------------------------------------------------------------------
(* Layout commands                                                         *)

\* splitIDForInsertion: a split identifier is allocated only when needed.
AllocateSplit(layout, t, d) ==
  IF RequiresSplit(layout, t, d)
  THEN nextSplitID < SplitLimit /\ nextSplitID' = nextSplitID + 1
  ELSE UNCHANGED nextSplitID

\* validatePaneSpec: a view of an existing tool must agree with its state.
SpecAccepted(d, tool) ==
  d # None /\ tools[d] # NoTool => tools[d].state = tool.state
\* registerTool: an existing instance is kept.
RegisterTool(d, tool) ==
  tools' = IF d = None \/ tools[d] # NoTool THEN tools ELSE [tools EXCEPT ![d] = tool]

AddPane(p, w, d, tool) ==
  /\ nextPaneID < PaneLimit
  /\ p = nextPaneID
  /\ nextPaneID' = nextPaneID + 1
  /\ panes' = panes \cup {p}
  /\ paneWindow' = [paneWindow EXCEPT ![p] = w]
  /\ toolOf' = [toolOf EXCEPT ![p] = d]
  /\ SpecAccepted(d, tool)
  /\ RegisterTool(d, tool)
  /\ UNCHANGED <<windows, stashed, labels, attentionVars, drafts>>
  /\ Publish([kind |-> "pane_created", pane |-> PaneRecord(p), window |-> WindowRecord(w),
              tool |-> tool])

CreatePane(w, p, d, tool) ==
  /\ w \in windows
  /\ tree[w] = Nil
  /\ tree' = [tree EXCEPT ![w] = Leaf(p)]
  /\ UNCHANGED nextSplitID
  /\ AddPane(p, w, d, tool)

SplitPane(t, direction, p, d, tool) ==
  LET w == paneWindow[t] IN
  /\ OnScreen(t)
  /\ AllocateSplit(tree[w], t, direction)
  /\ tree' = [tree EXCEPT ![w] = Insert(@, p, After(t, direction), nextSplitID)]
  /\ AddPane(p, w, d, tool)

MovePane(p, w, t, direction) ==
  LET from == paneWindow[p]
      left == RemoveLeaf(tree[from], p)
      into == IF w = from THEN left ELSE tree[w]
  IN
  /\ OnScreen(p)
  /\ w \in windows
  /\ t # p
  /\ IF tree[w] = Nil THEN t = 0 /\ direction = NoDirection ELSE t \in PaneID /\ Shows(into, t)
  /\ IF t = 0 THEN direction = NoDirection /\ UNCHANGED nextSplitID
     ELSE direction # NoDirection /\ AllocateSplit(into, t, direction)
  /\ tree' = [tree EXCEPT
       ![from] = left,
       ![w] = IF t = 0 THEN Leaf(p) ELSE Insert(into, p, After(t, direction), nextSplitID)]
  /\ paneWindow' = [paneWindow EXCEPT ![p] = w]
  /\ UNCHANGED <<windows, panes, nextPaneID, stashed, toolVars, labels, attentionVars, drafts>>
  /\ Publish([kind |-> "pane_moved", pane |-> PaneRecord(p), source |-> WindowRecord(from),
              window |-> WindowRecord(w)])

ResizeSplit(id, ws) ==
  /\ \E w \in windows :
       /\ CanResize(tree[w], id, ws)
       /\ tree' = [tree EXCEPT ![w] = WithWeights(@, id, ws)]
       /\ UNCHANGED <<windows, nextSplitID, panes, nextPaneID, paneWindow, stashed,
                      toolVars, labels, attentionVars, drafts>>
       /\ Publish([kind |-> "split_resized", window |-> WindowRecord(w)])

StashPane(p) ==
  LET w == paneWindow[p] IN
  /\ OnScreen(p)
  /\ stashed' = [stashed EXCEPT ![p] = Stashed(HintFor(tree[w], p), w)]
  /\ tree' = [tree EXCEPT ![w] = RemoveLeaf(@, p)]
  /\ UNCHANGED <<windows, nextSplitID, panes, nextPaneID, paneWindow, toolVars, labels,
                 attentionVars, drafts>>
  /\ Publish([kind |-> "pane_stashed", pane |-> PaneRecord(p), window |-> WindowRecord(w),
              hint |-> stashed'[p]])

\* restorePaneDestination without an explicit window: where the hint says, if
\* its neighbour is still there, else beside the first leaf of the first window.
FirstWindow == IF 1 \in windows THEN 1 ELSE 2
TargetShown(h) == TRUE
NeighbourThere(h) == tree[h.window] = Nil \/ Shows(tree[h.window], h.target)
HintedPlace(p) ==
  LET h == stashed[p] IN
  IF h.window \in windows /\ NeighbourThere(h)
  THEN [window |-> h.window,
        at |-> Placing(h.target, h.direction, h.before, h.weight, h.targetWeight, FALSE)]
  ELSE [window |-> FirstWindow,
        at |-> Placing(IF tree[FirstWindow] = Nil THEN 0 ELSE Leaves(tree[FirstWindow])[1],
                      "vertical", FALSE, 1, 1, FALSE)]
GivenPlace(w, t, direction) ==
  [window |-> w, at |-> Placing(t, direction, FALSE, 1, 1, FALSE)]

\* The split a pane came from is used again unless it still exists.
AlwaysOriginal(p) == stashed[p].split # 0
OriginalSplitFree(p) ==
  /\ stashed[p].split # 0
  /\ \A w \in windows : stashed[p].split \notin SplitIDs(tree[w])

RestorePane(p, place) ==
  LET w == place.window
      reuse == OriginalSplitFree(p)
  IN
  /\ p \in panes
  /\ IsStashed(p)
  /\ w \in windows
  /\ IF tree[w] = Nil \/ reuse THEN UNCHANGED nextSplitID
     ELSE AllocateSplit(tree[w], place.at.target, place.at.direction)
  /\ tree' = [tree EXCEPT ![w] =
       IF @ = Nil THEN Leaf(p)
       ELSE Insert(@, p, place.at, IF reuse THEN stashed[p].split ELSE nextSplitID)]
  /\ paneWindow' = [paneWindow EXCEPT ![p] = w]
  /\ stashed' = [stashed EXCEPT ![p] = NotStashed]
  /\ UNCHANGED <<windows, panes, nextPaneID, toolVars, labels, attentionVars, drafts>>
  /\ Publish([kind |-> "pane_restored", pane |-> PaneRecord(p), window |-> WindowRecord(w)])

\* A pane takes its labels, its attentions and, when it was the last view, its
\* tool instance with it.
ClosePane(p) ==
  LET w == paneWindow[p]
      d == toolOf[p]
      lastView == d # None /\ \A q \in panes \ {p} : toolOf[q] # d
      goneLabels == {l \in labels : l.target = Target("pane", p)}
      gone == {a \in attentions : a.pane = p}
  IN
  /\ p \in panes
  /\ tree' = IF IsStashed(p) THEN tree ELSE [tree EXCEPT ![w] = RemoveLeaf(@, p)]
  /\ panes' = panes \ {p}
  /\ paneWindow' = [paneWindow EXCEPT ![p] = 0]
  /\ stashed' = [stashed EXCEPT ![p] = NotStashed]
  /\ toolOf' = [toolOf EXCEPT ![p] = None]
  /\ tools' = IF lastView THEN [tools EXCEPT ![d] = NoTool] ELSE tools
  /\ labels' = labels \ goneLabels
  /\ attentions' = attentions \ gone
  /\ attentionKeys' = [k \in DOMAIN attentionKeys |-> IF k[2] = p THEN 0 ELSE attentionKeys[k]]
  /\ drafts' = [c \in Clients |-> [drafts[c] EXCEPT !.gone =
                                     @ \/ (lastView /\ drafts[c].descriptor = d)]]
  /\ UNCHANGED <<windows, nextSplitID, nextPaneID, nextAttentionID>>
  /\ Publish([kind |-> "pane_closed", pane |-> [id |-> p],
              window |-> IF w \in windows THEN WindowRecord(w) ELSE [id |-> 0],
              labels |-> goneLabels, attentions |-> gone,
              tool |-> IF lastView THEN d ELSE None])

\* The second window stands for any window that may be deleted.
DeleteWindow(w) ==
  LET gone == {l \in labels : l.target = Target("window", w)} IN
  /\ w \in windows \ {1}
  /\ tree[w] = Nil
  /\ windows' = windows \ {w}
  /\ labels' = labels \ gone
  /\ UNCHANGED <<tree, nextSplitID, panes, nextPaneID, paneWindow, stashed, toolVars,
                 attentionVars, drafts>>
  /\ Publish([kind |-> "window_deleted", window |-> [id |-> w], labels |-> gone])
-----------------------------------------------------------------------------
(* Labels                                                                  *)

labelOnly == <<layoutVars, toolVars, attentionVars, drafts>>

SetLabel(t, source, value) ==
  LET l == [target |-> t, source |-> source, value |-> value] IN
  /\ TargetExists(Snapshot, t)
  /\ l \notin labels
  /\ labels' = {m \in labels : ~ SameKey(l, m)} \cup {l}
  /\ UNCHANGED labelOnly
  /\ Publish([kind |-> "label_set", label |-> l])

RemoveLabel(l) ==
  /\ l \in labels
  /\ labels' = labels \ {l}
  /\ UNCHANGED labelOnly
  /\ Publish([kind |-> "label_removed", labels |-> {l}])

RemoveLabelsBySource(source) ==
  LET gone == {l \in labels : l.source = source} IN
  /\ gone # {}
  /\ labels' = labels \ gone
  /\ UNCHANGED labelOnly
  /\ Publish([kind |-> "label_source_cleared", labels |-> gone])
-----------------------------------------------------------------------------
(* Attentions: runtime only; acked is 0 while nobody has acknowledged.     *)

attentionOnly == <<layoutVars, toolVars, labels, drafts>>

\* evictAttentions: an acknowledged one first, then the one longest unchanged,
\* then the smallest identifier.
GoesBefore(a, b) ==
  IF (a.acked = 0) # (b.acked = 0) THEN a.acked # 0
  ELSE a.updated < b.updated \/ (a.updated = b.updated /\ a.id < b.id)
Evicted(all) ==
  IF Cardinality(all) <= AttentionLimit THEN {}
  ELSE {CHOOSE a \in all : \A b \in all \ {a} : GoesBefore(a, b)}

KeysWithout(keys, gone) ==
  [k \in DOMAIN keys |-> IF \E g \in gone : k = KeyOf(g) THEN 0 ELSE keys[k]]

RaiseNew(p, source, value, at) ==
  LET a == [id |-> nextAttentionID, pane |-> p, source |-> source, value |-> value,
            updated |-> at, acked |-> 0]
      gone == Evicted(attentions \cup {a})
  IN
  /\ p \in panes
  /\ attentionKeys[<<source, p>>] = 0
  /\ nextAttentionID < AttentionIDLimit
  /\ nextAttentionID' = nextAttentionID + 1
  /\ attentions' = (attentions \cup {a}) \ gone
  /\ attentionKeys' = KeysWithout([attentionKeys EXCEPT ![<<source, p>>] = a.id], gone)
  /\ UNCHANGED attentionOnly
  /\ Publish([kind |-> "attention_changed", attention |-> a, removed |-> gone])

\* The same key again; nothing happens when nothing is new.
RaiseAgain(a, value, at) ==
  LET b == [a EXCEPT !.value = value, !.updated = at, !.acked = 0] IN
  /\ a \in attentions
  /\ attentionKeys[KeyOf(a)] = a.id
  /\ at >= a.updated
  /\ a.value # value \/ a.acked # 0
  /\ attentions' = (attentions \ {a}) \cup {b}
  /\ UNCHANGED <<attentionKeys, nextAttentionID, attentionOnly>>
  /\ Publish([kind |-> "attention_changed", attention |-> b, removed |-> {}])

AcknowledgeAttention(a, at) ==
  LET b == [a EXCEPT !.acked = at] IN
  /\ a \in attentions
  /\ at >= a.updated
  /\ a.acked = 0
  /\ attentions' = (attentions \ {a}) \cup {b}
  /\ UNCHANGED <<attentionKeys, nextAttentionID, attentionOnly>>
  /\ Publish([kind |-> "attention_changed", attention |-> b, removed |-> {}])

RemoveAttentionsBySource(source) ==
  LET gone == {a \in attentions : a.source = source} IN
  /\ gone # {}
  /\ attentions' = attentions \ gone
  /\ attentionKeys' = KeysWithout(attentionKeys, gone)
  /\ UNCHANGED <<nextAttentionID, attentionOnly>>
  /\ Publish([kind |-> "attention_source_cleared", removed |-> gone])
-----------------------------------------------------------------------------
(* Tools: a client reads an instance from its copy and sends the state it  *)
(* made of it with the generation it has read.  The field gone is history  *)
(* for UpdatesSeeLatest: the instance was closed after it was read.        *)

ReadTool(c, d) ==
  /\ copy.tools[d] # NoTool
  /\ drafts' = [drafts EXCEPT ![c] = [descriptor |-> d, read |-> copy.tools[d], gone |-> FALSE]]
  /\ UNCHANGED <<layoutVars, toolVars, labels, attentionVars, copy>>

AnyGeneration(d, generation) == TRUE
SameGeneration(d, generation) == tools[d].generation = generation

UpdateToolState(c, state) ==
  LET d == drafts[c].descriptor
      next == [generation |-> tools[d].generation + 1, state |-> state]
  IN
  /\ d # None
  /\ tools[d] # NoTool
  /\ SameGeneration(d, drafts[c].read.generation)
  /\ next.generation < GenerationLimit
  /\ tools' = [tools EXCEPT ![d] = next]
  /\ drafts' = [drafts EXCEPT ![c] = NoDraft]
  /\ UNCHANGED <<layoutVars, toolOf, labels, attentionVars>>
  /\ Publish([kind |-> "tool_state_updated", descriptor |-> d, tool |-> next])
-----------------------------------------------------------------------------
(* What a request may ask for *)

\* validateRestorePlacement
PlaceAccepted(w, t, direction) ==
  IF tree[w] = Nil THEN t = 0 /\ direction = NoDirection
  ELSE t \in PaneID /\ direction # NoDirection /\ Shows(tree[w], t)

Empty ==
  /\ windows = Windows
  /\ tree = [w \in Windows |-> Nil]
  /\ nextSplitID = 1
  /\ panes = {}
  /\ nextPaneID = 1
  /\ paneWindow = [p \in PaneID |-> 0]
  /\ stashed = [p \in PaneID |-> NotStashed]
  /\ toolOf = [p \in PaneID |-> None]
  /\ tools = [d \in Instances |-> NoTool]
  /\ labels = {}
  /\ attentions = {}
  /\ attentionKeys = [k \in Sources \X PaneID |-> 0]
  /\ nextAttentionID = 1

ObjectsInit ==
  /\ Empty
  /\ copy = Snapshot
  /\ drafts = [c \in Clients |-> NoDraft]

\* A view of a tool is asked for with a fresh instance or with the one the
\* frontend's copy shows.
Specs(d) == IF d = None THEN {NoTool} ELSE {NewTool} \cup ({copy.tools[d]} \ {NoTool})

PaneStep(d) ==
  \/ \E w \in Windows, p \in PaneID, tool \in Specs(d) : CreatePane(w, p, d, tool)
  \/ \E t, p \in PaneID, direction \in Directions, tool \in Specs(d) :
       SplitPane(t, direction, p, d, tool)
  \/ \E p \in PaneID : d = None /\ ClosePane(p)

MoveStep ==
  \E p \in PaneID, w \in Windows, t \in PaneID \cup {0}, direction \in Directions \cup {NoDirection} :
    MovePane(p, w, t, direction)

StashStep ==
  \/ \E p \in PaneID : StashPane(p) \/ RestorePane(p, HintedPlace(p))
  \/ \E p \in PaneID, w \in Windows, t \in PaneID \cup {0}, direction \in Directions \cup {NoDirection} :
       PlaceAccepted(w, t, direction) /\ RestorePane(p, GivenPlace(w, t, direction))

WindowStep == \E w \in Windows : DeleteWindow(w)
ResizeStep == \E id \in SplitID, ws \in ResizeTo : ResizeSplit(id, ws)

LabelStep ==
  \/ \E source \in Sources :
       \/ RemoveLabelsBySource(source)
       \/ \E value \in Values, kind \in {"window", "pane"}, id \in PaneID \cup Windows :
            SetLabel(Target(kind, id), source, value)
  \/ \E l \in labels : RemoveLabel(l)

AttentionStep ==
  \/ \E source \in Sources :
       \/ RemoveAttentionsBySource(source)
       \/ \E p \in PaneID, value \in Values, at \in 1 .. TimeLimit : RaiseNew(p, source, value, at)
  \/ \E a \in attentions, at \in 1 .. TimeLimit :
       \/ AcknowledgeAttention(a, at)
       \/ \E value \in Values : RaiseAgain(a, value, at)

ToolStep ==
  \/ \E c \in Clients, d \in Instances : ReadTool(c, d)
  \/ \E c \in Clients, state \in ToolStates : UpdateToolState(c, state)

ObjectsNext ==
  \/ MoveStep \/ StashStep \/ WindowStep \/ ResizeStep
  \/ LabelStep
  \/ AttentionStep
  \/ ToolStep \/ \E d \in Instances \cup {None} : PaneStep(d)
ObjectsSpec == ObjectsInit /\ [][ObjectsNext]_objectVars
-----------------------------------------------------------------------------
(* What is kept beside the snapshot agrees with it: the index finds exactly *)
(* the attentions that exist, there are never more than the limit, and a    *)
(* tool instance lives exactly as long as a pane shows it (evictAttentions, *)
(* closePane, registerTool).                                                *)
IndexesExact ==
  /\ \A a \in attentions : attentionKeys[KeyOf(a)] = a.id
  /\ \A k \in DOMAIN attentionKeys : attentionKeys[k] # 0 => \E a \in attentions : KeyOf(a) = k
  /\ Cardinality(attentions) <= AttentionLimit
  /\ \A d \in Instances : tools[d] # NoTool <=> \E p \in panes : toolOf[p] = d

(* The state is one that stateFromSnapshot accepts, and so is a frontend's  *)
(* copy: every command clones the state through it before it runs, and one  *)
(* it refused would refuse every further command, be quarantined at the     *)
(* next start, and end every frontend at the next event.                    *)
StateAccepted == SnapshotValid(Snapshot) /\ SnapshotValid(copy) /\ IndexesExact

(* A frontend that applies every event holds Core's state, but for the      *)
(* generation of a tool: PaneCreatedEvent carries the instance of the       *)
(* command, which may be of generation 1, while registerTool keeps another. *)
(* The copy then lags behind, never ahead, and shows the same tool state.   *)
CopyFaithful ==
  /\ copy = [Snapshot EXCEPT !.tools = copy.tools]
  /\ \A d \in Instances :
       /\ copy.tools[d].state = tools[d].state
       /\ copy.tools[d].generation <= tools[d].generation

(* Optimistic concurrency of tool states: what a client writes was made of  *)
(* the state it replaces, however many views, clients and stale copies      *)
(* there are; only an instance closed and created again in between can be   *)
(* mistaken, since generations start at 1 again (updateToolState).          *)
UpdatesSeeLatest ==
  [][ \A c \in Clients :
        drafts'[c] = NoDraft /\ drafts[c] # NoDraft /\ ~ drafts[c].gone
          => drafts[c].read.state = tools[drafts[c].descriptor].state ]_objectVars

(* Every command on the trees is, on their leaves, the command of CoreState *)
(* that the hierarchy was checked and proved with, or changes no leaf.      *)
Structure == INSTANCE CoreState WITH
  WorkspaceLimit <- 2, WindowLimit <- 3, PaneLimit <- PaneLimit, Names <- {"main"},
  DefaultName <- "main", NoName <- "unnamed", Frontends <- {"f"}, Validated <- FALSE,
  nextWorkspaceID <- 2, nextWindowID <- 3, nextPaneID <- nextPaneID,
  workspaceOrder <- <<1>>, workspaceName <- <<"main">>,
  windowIDs <- <<IF windows = Windows THEN <<1, 2>> ELSE <<1>>>>,
  windows <- windows, windowName <- [w \in Windows |-> IF w \in windows THEN "main" ELSE "unnamed"],
  windowWorkspace <- [w \in Windows |-> IF w \in windows THEN 1 ELSE 0],
  layout <- [w \in Windows |-> Leaves(tree[w])],
  stashedWindows <- [w \in Windows |-> [workspace |-> 0, index |-> 0]],
  panes <- panes, paneWindow <- paneWindow, transient <- {},
  stashedPanes <- [p \in PaneID |->
    [workspace |-> IF IsStashed(p) THEN 1 ELSE 0, window |-> stashed[p].window,
     target |-> stashed[p].target, side |-> IF stashed[p].before THEN "before" ELSE "after"]],
  frontends <- {}, focus <- [f \in {"f"} |-> [workspace |-> 0, window |-> 0, pane |-> 0]]

StructureRefined == [][Structure!Next]_(Structure!vars)
=============================================================================
