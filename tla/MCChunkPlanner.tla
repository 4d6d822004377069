--------------------------- MODULE MCChunkPlanner ---------------------------
(* Constants of the runs of ChunkPlanner. *)
EXTENDS ChunkPlanner

\* Four layers with a gap in their numbers.
MCLayers == {0, 1, 3, 4}
=============================================================================
