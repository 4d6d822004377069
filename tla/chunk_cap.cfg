SPECIFICATION Spec
CONSTANTS
  Layers <- MCLayers
  MaxOffset = 4
  MaxChunkBytes = 2
  ChunkCap = 3
INVARIANTS ChunksAreCapped
CHECK_DEADLOCK FALSE
