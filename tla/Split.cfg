SPECIFICATION MCSpec
CONSTANTS
  ROWS_PER_HAND = 3
  ERROR_DISCONNECT_COUNT = 5
  ErrorCountMax = 7
  MaxChanges = 2
  Modes = {"static", "rainbow"}
  Components = {"hue"}
  Levels = {0, 1}
  Ignored <- RainbowIgnores
  ENCODER_RESOLUTION = 4
  MaxPosition = 6
  MaxUneven = 3
INVARIANTS
  DisconnectedIsReleased
  LightsFollow
  StepsCounted
PROPERTIES
  RowsNeverBack
  RowsFollow
