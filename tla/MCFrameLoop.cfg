CONSTANTS
  Base = 2
  Masks <- MCMasks
  PCRs <- MCPCRs
  Pins = {}
  StepCycles = {1, 2}
  FrameCycles = 3
  VsyncCycle = 2
  ServiceCycles = 2
  WaitCycles = 1
  SavePoints <- MCSavePoints
SPECIFICATION LoopSpec
INVARIANTS
  FrozenAtWai
  OneVsyncPerFrame
PROPERTIES
  OnlyKeysPart
  TimerWakes
