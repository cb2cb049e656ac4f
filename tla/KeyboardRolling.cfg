SPECIFICATION MCSpec
CONSTANTS
  Mods = {"KC_LSFT", "KC_LCTL"}
  Codes = {"KC_A", "KC_B", "KC_C", "KC_D", "KC_E"}
  Layers = {0, 1, 2}
  Keys <- AllKeys
  Keymap <- MCKeymap
  Hands <- RollingHands
  ReportKeys = 1
  TappingToggle = 5
  MaxTapCount = 2
  IgnoreModTapInterrupt = TRUE
  PermissiveHold = FALSE
  TappingForceHold = TRUE
  TappingTerm = 5
  TimerMax = 15
  WaitingBufferSize = 3
  TimeSteps = {1}
INVARIANTS
  TypeOK
  NoOrphan
PROPERTIES
  HoldNeedsTerm
  OneshotModsRide
  OneshotModsKept
