SPECIFICATION FairSpec
CONSTANTS
  Keys = {1, 2, 3}
  Rows = {{1, 2}, {3}}
  MAX_DEBOUNCE = 5
  DEBOUNCE = 2
  TimerMax = 12
  TimeSteps = {0, 2}
  LongGaps = {5}
PROPERTIES
  LockedUnlessWrapped
  Immediate
  Settles
