SPECIFICATION APISpec
CONSTANTS
  WorkspaceLimit = 4
  WindowLimit = 4
  PaneLimit = 4
  Names = {n1, n2}
  DefaultName = n1
  NoName = none
  Frontends = {}
  Validated = FALSE
  Scopes = {"all", "workspace"}
  CallLimit = 1
  OtherLimit = 1
  NoRequest = no_request
PROPERTIES
  EveryChangeAnnounced
CHECK_DEADLOCK FALSE
