SPECIFICATION MCSpec
CONSTANTS
    Clients = {"one", "two"}
    Requests = {1, 2, 3}
    OwnerOf <- Owners
    EditorOf <- Editors
    Operations <- Families
    Nobody = nobody
INVARIANTS
  ProjectionInStep
  NothingLeftBehind
PROPERTIES
  StopCompletes
  DialoguesEnd
CHECK_DEADLOCK FALSE
