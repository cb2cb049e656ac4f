SPECIFICATION MCSpec
CONSTANTS
  N = 2
  NumSlaves = 2
  CONNECTED = 0
  MATRIX = 1
  Objects = {0, 1}
  ObjectType <- LinkTypes
  Contents <- LinkContents
  MaxChanges = 1
  LineSize = 1
  Systems = {"chain", "object"}
  Parts = {1, 2}
  Data = {0, 1}
  Zero = 0
INVARIANTS
  FromItsSlave
  FromTheMaster
  RemoteIsFirstSlave
  NoRace
PROPERTIES
  NeverBack
  IsMailbox
