SPECIFICATION Spec
CONSTANTS
  Threads = {t1, t2}
  NoThread = NoThread
  NumChunks = 2
  Span <- MCSpan
  Data <- MCDistinct
  MaxMapBytes = 2
  MaxTokens = 1
  MaxCalls = 1
  HasEmbedding = TRUE
  Kernels = {"native"}
INVARIANT NoUseAfterUnmap
