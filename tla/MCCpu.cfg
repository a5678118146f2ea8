CONSTANTS
  Programs <- MCPrograms
  MaxMove = 4
  Blank <- MCBlank
SPECIFICATION ReturnsSpec
INVARIANTS
  DecimalRight
PROPERTIES
  ActsAs6502
  ModesKept
  ReturnsHome
CHECK_DEADLOCK FALSE
