CONSTANTS
  Base = 2
  Masks <- MCMasks
  PCRs <- MCPCRs
  Pins = {"CA2", "CB2"}
  StepCycles = {1, 3}
SPECIFICATION Spec
INVARIANTS
  CpuSeesFlags
  NoMissedUnderflow
