CONSTANTS
  MaxSlot = 5
  AddrOf <- MCAddrOf
  PrebindEnabled = TRUE
  BindMayFail = TRUE
  NoSock = NoSock
  SlotLen = 8
  CloseDelay = 2
  Threshold = 3
  MaxError = 4
  StartMs <- BootWithinSlot
  HopTime = 1
  ReadGap = 1
  WriteTime = 1
  Writers = {w1, w2}
  Unread = Unread
SPECIFICATION Spec
INVARIANTS ArrivalAccepted WritesSucceed
PROPERTIES ImplementsPromptServer
