SPECIFICATION Spec
CONSTANTS
  Threads = {t1, t2}
  NoThread = NoThread
  NumLayers = 2
  MaxTokens = 3
  Capacities = {5, 6}
  WrapCells = 16
  MaxContext = 4
  MaxPrompt = 2
  MaxPositions = 5
  MaxCalls = 3
CHECK_DEADLOCK FALSE
INVARIANTS TypeOK AttentionReadsOwn EndedCallsAreNotRead
