CONSTANTS
  Panes = {p1}
  Sessions = {s1, s2}
  Clients = {c1, c2}
  Plugins = {c2}
  ClosePaneOnSuccessfulExit = TRUE
  FaultKinds = {"cancel", "kill"}
  Endings = {"success", "failure"}
  Restored = {"failed"}
  FaultLimit = 1
  None = none
SPECIFICATION FairTerminalSpec
PROPERTIES
  ExitsSettle
  OperationsEnd
