SPECIFICATION MCSpec
CONSTANTS
  WorkspaceLimit = 4
  WindowLimit = 4
  PaneLimit = 4
  CoreLimit = 3
  Names = {n1, n2}
  DefaultName = n1
  NoName = none
  Frontends = {f1}
  Validated = FALSE
  Scopes = {"all", "pane", "workspace", "context"}
  CallLimit = 1
  OtherLimit = 1
  NoRequest = no_request
INVARIANTS
  Hierarchy
  FocusOnScreen
  StashRecoverable
PROPERTIES
  NoIdentifierReused
  AppliedWithinGrants
  ChangesAreAnnounced
CHECK_DEADLOCK FALSE
