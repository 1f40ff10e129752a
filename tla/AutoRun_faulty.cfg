CONSTANTS
  Durations <- Ending
  Tasks = 3
  MaxFaults = 3
SPECIFICATION Spec
INVARIANTS ResultsRecorded NeverRunsAway
PROPERTIES AutoCompletes
