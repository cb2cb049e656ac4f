SPECIFICATION FairSpec
CONSTANTS
  Keys = {1, 2, 3}
  DEBOUNCE = 2
  TimerMax = 12
  TimeSteps = {0, 2}
INVARIANTS
  PendingIsDebounced
PROPERTIES
  PushedWhenStill
  Settles
