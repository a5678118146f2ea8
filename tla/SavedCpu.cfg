CONSTANTS
  Machines = {{}}
  MaxMoment = 2
  MaxSaves = 1
SPECIFICATION Spec
INVARIANT LoadsProcessor
CHECK_DEADLOCK FALSE
