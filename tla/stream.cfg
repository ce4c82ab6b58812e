CONSTANTS
  WorkspaceLimit = 3
  WindowLimit = 3
  PaneLimit = 3
  Names = {n1, n2}
  DefaultName = n1
  NoName = none
  Frontends = {f1}
  Validated = TRUE
  EventQueueCapacity = 2
  RevisionLimit = 5
  Accepted <- ValidateSnapshot
SPECIFICATION StreamSpec
INVARIANTS
  ProjectionFaithful
  NoSilentGap
  RestartAccepts
