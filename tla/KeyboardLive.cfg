SPECIFICATION MCFairSpec
CONSTANTS
  Mods = {"KC_LSFT", "KC_LCTL"}
  Codes = {"KC_A", "KC_B", "KC_C", "KC_D", "KC_E"}
  Layers = {0, 1}
  Keys <- LiveKeys
  Keymap <- MCKeymap
  Hands <- LiveHands
  ReportKeys = 6
  TappingToggle = 5
  MaxTapCount = 2
  IgnoreModTapInterrupt = FALSE
  PermissiveHold = TRUE
  TappingForceHold = FALSE
  TappingTerm = 5
  TimerMax = 15
  WaitingBufferSize = 8
  TimeSteps = {1}
PROPERTIES
  AlwaysDecided
  HeldKeyReported
