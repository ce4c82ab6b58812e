CONSTANTS
  Calls = {c1, c2}
  Requests = {r1, r2, r3, n1, n2, d1}
  Dialogs = {d1}
  Notes = {n1, n2}
  Large = {r2, r3}
  Few = {r1, d1}
  Size <- MCSize
  LargestMessage = 3
  ControlQueue = 4
  ControlBytes = 7
  ControlMessages = 2
  CanceledLimit = 1
  HandlerErrorLimit = 2
  Window = 2
  WindowBytes = 3
  None = none
SPECIFICATION MCSpec
SYMMETRY RpcSymmetry
INVARIANTS
  PoliteNeverStopped
  BooksExact
