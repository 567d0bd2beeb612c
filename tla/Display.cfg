SPECIFICATION FairSpec
CONSTANTS
  Cols = 2
  Pages <- MCPages
  TextLength <- MCTextLength
  Modes = 3
  DEBOUNCE = 1
  Bounce = 0
  MaxPresses = 2
INVARIANTS ScreenIsOnePage
PROPERTIES DisplayFollowsButton MissingSensorShown
