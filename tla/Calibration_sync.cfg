CONSTANTS
  Epoch = 50
  Offsets <- MCOffsets
  MinDelay = 1
  MaxDelay = 2
  Copies = 2
  Gap = 1
  Timeout = 4
  Default = 10
SPECIFICATION FairSpec
INVARIANTS ErrorBounded NeverAhead
PROPERTIES SyncReturns
CHECK_DEADLOCK FALSE
