SPECIFICATION Spec
CONSTANTS
  Layers <- MCLayers
  MaxOffset = 4
  MaxChunkBytes = 2
  ChunkCap = 3
INVARIANTS TypeOK SlicesCover LayersRunOnceInOrder OnlySingleLayersExceed CutsAreNeeded
CHECK_DEADLOCK FALSE
