CONSTANTS
  Drives = {0, 1}
  Disk <- MCDisk
  SectorLen = 2
  RegMax = 3
  Bytes = {1, 2}
  Controls <- MCControls
  Delay <- MCDelay
  StepCycles = {1, 2}
  NoSector = NoSector
  SavePoints <- MCSavePoints
  StepsOutOnTrack0 = FALSE
  SavesAt = {"idle"}
SPECIFICATION DriverSpec
INVARIANTS
  RestAfterCommand
PROPERTIES
  CommandEnds
  TransfersInOrder
