SPECIFICATION Spec
CONSTANTS
  MaxByte = 3
  MAX_FRAME_SIZE = 6
  CrcSize = 2
  Checked <- FewFrames
  MaxFrames = 3
  MaxFaults = 2
INVARIANTS
  NoOverrun
  InStep
PROPERTIES
  OnlyDamageCosts
  IsLossyLine
CHECK_DEADLOCK FALSE
