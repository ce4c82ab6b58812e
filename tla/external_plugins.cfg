CONSTANTS
  Generations = {1, 2}
  Packages = {k1, k2}
  Dialogs = {d1}
  None = none
SPECIFICATION FairExternalSpec
INVARIANTS
  SessionsApart
  RegistryResolvable
PROPERTIES
  GrantsCurrent
  ManageEnds
