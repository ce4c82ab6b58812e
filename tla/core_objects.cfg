SPECIFICATION MCSpec
SYMMETRY Interchangeable
CONSTANTS
  MaxWeight = 3
  PaneLimit = 4
  SplitLimit = 3
  Accepted <- SmallTrees
  Leaves <- TreeLeaves
  SplitIDs <- TreeSplitIDs
  RequiresSplit <- TreeRequiresSplit
  CanResize <- TreeCanResize
  Insert <- TreeInsert
  RemoveLeaf <- TreeRemoveLeaf
  WithWeights <- TreeWithWeights
  HintFor <- TreeHintFor
  ResizeTo <- Resizes
  Sources = {a, b}
  Values = {v1, v2}
  Instances = {d1}
  Clients = {c1, c2}
  AttentionLimit = 2
  AttentionIDLimit = 4
  TimeLimit = 2
  GenerationLimit = 4
  None = none
INVARIANTS
  StateAccepted
  CopyFaithful
  LayoutKept
PROPERTIES
  UpdatesSeeLatest
  StructureRefined
CHECK_DEADLOCK FALSE
