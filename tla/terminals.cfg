CONSTANTS
  Panes = {p1, p2}
  Sessions = {s1, s2}
  Clients = {c1, c2}
  Plugins = {c2}
  ClosePaneOnSuccessfulExit = TRUE
  FaultKinds = {"cancel", "open", "kill", "refuse"}
  Endings = {"success", "failure"}
  Restored = {"failed"}
  FaultLimit = 1
  None = none
SPECIFICATION TerminalSpec
INVARIANTS
  SessionsOwned
  ExitsTruthful
