SPECIFICATION LogSpec
CONSTANTS
  EEPROM_SIZE = 2
  Sectors = 2
  SectorCells = 2
  MaxData = 2
  MaxLogFailures = 2
INVARIANTS
  Retained
