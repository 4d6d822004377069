SPECIFICATION Spec
CONSTANTS
  Threads = {t1}
  NoThread = NoThread
  NumLayers = 2
  MaxTokens = 3
  Capacities = {6}
  WrapCells = 16
  MaxContext = 4
  MaxPrompt = 2
  MaxPositions = 4
  MaxCalls = 1
CHECK_DEADLOCK FALSE
INVARIANT ReadsFollowLayout
