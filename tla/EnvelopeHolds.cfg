CONSTANTS
  Shapes = {9, 13}
  Periods = {1}
  EnvRate = 3
  SampleRate = 2
  Half = 2
  MaxSteps = 9
SPECIFICATION Spec
INVARIANT EnvelopeRight
CHECK_DEADLOCK FALSE
