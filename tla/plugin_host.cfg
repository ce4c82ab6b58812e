CONSTANTS
  Callbacks = {c1, c2}
  Sizes = {1, 2}
  TerminalQueueBytes = 3
  TerminalQueueCapacity = 2
  EventQueueCapacity = 1
  ConsecutiveErrorLimit = 2
  None = none
SPECIFICATION FairPluginSpec
INVARIANTS
  BudgetExact
  GivenUpHarmless
PROPERTIES
  DisabledIsCleanedUp
CHECK_DEADLOCK FALSE
