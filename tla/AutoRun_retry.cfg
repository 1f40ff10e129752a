CONSTANTS
  Durations <- Ending
  Tasks = 2
  MaxFaults = 1
SPECIFICATION Spec
PROPERTIES RetriedSlotCompletes
