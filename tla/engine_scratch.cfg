SPECIFICATION Spec
CONSTANTS
  Threads = {t1, t2}
  NoThread = NoThread
  NumLayers = 2
  MinCapacity = 1
  MaxPrompt = 2
  MaxTokens = 1
  MaxCalls = 2
  Greedy = FALSE
CHECK_DEADLOCK FALSE
INVARIANTS TypeOK LoneCallReadsOwn PassReadsOwn WorkspaceFits
