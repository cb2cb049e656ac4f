SPECIFICATION MCSpec
CONSTANTS
  Mods = {"KC_LSFT", "KC_LCTL", "KC_RSFT"}
  Codes = {"KC_A", "KC_B", "KC_C", "KC_D", "KC_E", "KC_F", "KC_G", "KC_9", "KC_0", "KC_GRAVE", "KC_ESC"}
  Layers = {0, 1}
  Keys <- AllKeys
  Keymap <- MCKeymap
  Keycode <- MCKeycode
  ReportKeys = 6
  TappingToggle = 5
  MaxTapCount = 15
  IgnoreModTapInterrupt = FALSE
  TimerMax = 7
  TAPPING_TERM = 2
  DYNAMIC_MACRO_SIZE = 4
  Dances <- MCDances
  LEADER_TIMEOUT = 2
  LeaderLength = 2
  Dictionary <- MCDictionary
  Combos <- MCCombos
  MAX_COMBO_LENGTH = 8
  COMBO_TERM = 2
  AUTO_SHIFT_TIMEOUT = 2
  AutoShifted = {"KC_F", "KC_G"}
  Cadets <- MCCadets
  TimeSteps = {0, 2}
INVARIANTS
  NoOrphan
  AtRest
  AsRecorded
PROPERTIES
  InOrder
