CONSTANTS
  FifoSizes = {0, 1}
  RdrfModes = {TRUE, FALSE}
  Commands <- MCCommands
  Periods <- MCPeriods
  StepCycles = {1}
  MaxBytes = 3
  BufSize = 2
  High = 2
  Low = 1
SPECIFICATION Spec
INVARIANTS
  NoMissedCause
  PinsFollowModem
  LineInOrder
PROPERTIES
  LossFlagged
  BufferDrains
