SPECIFICATION MCSpec
CONSTANTS
  Mods = {"KC_LSFT", "KC_LCTL"}
  Codes = {"KC_A", "KC_B", "KC_C", "KC_D", "KC_E"}
  Layers = {0, 1, 2}
  Keys <- AllKeys
  Keymap <- MCKeymap
  Hands <- TapHoldHands
  ReportKeys = 6
  TappingToggle = 5
  MaxTapCount = 2
  IgnoreModTapInterrupt = FALSE
  PermissiveHold = FALSE
  TappingForceHold = FALSE
  TappingTerm = 5
  TimerMax = 15
  WaitingBufferSize = 8
  TimeSteps = {1}
INVARIANTS
  NothingOrphaned
  NothingStuck
  TappingKeyDown
  BufferEmptyAfterTap
