CONSTANTS
  Cpus = 1
  Interval = 2
  Late = 1
  MaxTime = 5
  NoTick = NoTick
  MaxSent = 1
  MaxEarlier = 1
SPECIFICATION Spec
INVARIANTS SharesBounded LossesExplained LongTaskSampled
PROPERTIES MonitorEnds
CHECK_DEADLOCK FALSE
