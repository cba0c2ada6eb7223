SPECIFICATION Spec
CONSTANTS
  MaxRuns = 5
  MaxFaults = 3
  MaxWrites = 3
  None = None
INVARIANTS
  OneWriter
  NeverDark
PROPERTIES
  TargetPreserved
CHECK_DEADLOCK FALSE
