CONSTANTS
  Units = {"tape", "state", "sound", "modem", "keys", "port", "blitter"}
  Machines = {{}, {"disk"}, {"disk", "serial"}}
  MaxMoment = 2
  MaxSaves = 2
  Shapes = {0, 4, 8, 10, 12, 14}
  Periods = {0, 1, 2}
  EnvRate = 3
  SampleRate = 2
  Half = 4
  MaxSteps = 20
  Listens = {TRUE}
  Guard = 1
  RxSize = 4
  CmdSize = 2
  Commands = {"AT", "E0", "H", "D", "A"}
  MaxCalls = 2
  MaxBytes = 3
  MaxWire = 1
  Scancodes <- MCScancodes
  Position <- MCPosition
  Special <- MCSpecial
  Modifiers = {"lshift"}
  Chars <- MCChars
  JoyKeys <- MCJoyKeys
  Setups <- MCSetups
  KeyFrames = 2
  PauseFrames = 3
  MaxPressed = 2
  Uses = {"print", "sound"}
  Kind = "plotter"
  Printable = {"D", "P", "I", "1", ",", "CR"}
  Letters = {"D", "P", "I"}
  SoundRegisters = {"r14"}
  Values = {"1"}
  Width = 2
  Height = 3
  ParamLen = 3
  MaxPrinted = 4
SPECIFICATION DeviceSpec
INVARIANTS
  BlocksReadBack
  ProgramRestored
  SectionsOfOneSave
  EnvelopeRight
  DataReachesPeer
  ReportsFollowMode
  NothingStuck
  TypedInOrder
  PlotterObeys
  PictureRight
CHECK_DEADLOCK FALSE
