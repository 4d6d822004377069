SPECIFICATION Spec
CONSTANTS
  t1 = t1
  t2 = t2
  a = a
  w = w
  Threads <- ThreadsValue
  Words <- WordsValue
  Wide <- WideValue
  Prompts <- PromptsValue
  ContextSize = 6
  ChunkSize = 2
  MaxTokens = 2
  MaxCalls = 3
  MaxDepth = 2
  MaxOpens = 2
SYMMETRY ThreadSymmetry
INVARIANTS
  TypeOK
  FaultsNeedMisuse
  SampledAfterOwnText
  NothingLeaks
CHECK_DEADLOCK FALSE
