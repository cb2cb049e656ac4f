SPECIFICATION MCSpec
CONSTANTS
  PageCount = 2
  PageBytes = 2
  MaxByte = 2
  Layout <- MCLayout
  MAGIC_NUMBER = 1
  MaxFailures = 2
  MaxData = 2
  MaxLogFailures = 2
  EEPROM_SIZE = 2
  Sectors = 2
  SectorCells = 2
INVARIANTS
  SettingsKept
  RetainedInOrder
PROPERTIES
  IsByteStore
