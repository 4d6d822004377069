SPECIFICATION FairSpec
CONSTANTS
  Threads = {t1, t2, t3}
  NoThread = NoThread
  NumChunks = 2
  Span <- MCSpan
  Data <- MCDistinct
  MaxMapBytes = 2
  MaxTokens = 2
  MaxCalls = 1
  HasEmbedding = TRUE
  Kernels = {"native", "pool"}
INVARIANTS TypeOK MapOnce ViewsAreListed AtMostOneLatePiece PassesExclusive CallsReadMapped
PROPERTIES ViewsSpec CallsEnd CloseCompletes
