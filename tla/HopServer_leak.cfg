CONSTANTS
  MaxSlot = 3
  AddrOf <- Clashing
  PrebindEnabled = TRUE
  BindMayFail = FALSE
  NoSock = NoSock
SPECIFICATION Spec
INVARIANTS NothingLeftBound
