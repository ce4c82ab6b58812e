CONSTANTS
  MutationLimit = 2
  DaemonLimit = 2
  FailureLimit = 1
  EventQueueCapacity = 1
  Background = TRUE
  WaitForExit = TRUE
SPECIFICATION FairPersistenceSpec
INVARIANTS
  NothingUnsaved
PROPERTIES
  CloseCompletes
  EventuallySaved
CHECK_DEADLOCK FALSE
