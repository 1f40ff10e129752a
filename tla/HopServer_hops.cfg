CONSTANTS
  MaxSlot = 5
  AddrOf <- Clashing
  PrebindEnabled = TRUE
  BindMayFail = TRUE
  NoSock = NoSock
SPECIFICATION FairSpec
INVARIANTS TypeOK CurrentListening SocketsOwned AtMostThreeOpen CurrentFollowsSlot OutageExplained OrphanBound
PROPERTIES HopsForward CloseQuiesces
