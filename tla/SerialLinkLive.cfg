SPECIFICATION MCFairSpec
CONSTANTS
  N = 1
  NumSlaves = 2
  CONNECTED = 0
  MATRIX = 1
  Objects = {0, 1}
  ObjectType <- LinkTypes
  Contents <- LinkContents
  MaxChanges = 2
  LineSize = 1
  Systems = {"chain"}
  Parts = {1}
  Data = {0}
  Zero = 0
PROPERTIES
  Follows
