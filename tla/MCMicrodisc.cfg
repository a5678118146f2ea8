CONSTANTS
  Drives = {0, 1}
  Disk <- MCDisk
  SectorLen = 2
  RegMax = 3
  Bytes = {1}
  Controls <- MCControls
  Delay <- MCDelay
  StepCycles = {1}
  NoSector = NoSector
  SavePoints <- MCSavePoints
SPECIFICATION Spec
INVARIANTS
  TransferInBounds
  PointerInImage
PROPERTIES
  CpuIrqFollows
