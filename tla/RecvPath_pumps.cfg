CONSTANTS
  Sockets = {s1, s2}
  QueueLen = 2
  MaxGiven = 3
SPECIFICATION FairSpec
INVARIANTS TypeOK NoDeafSocket RetiringUnnoticed
PROPERTIES ImplementsLossyChannel CloseEndsReading PumpsEnd
CHECK_DEADLOCK FALSE
