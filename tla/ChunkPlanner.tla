---------------------------- MODULE ChunkPlanner ----------------------------
(***************************************************************************)
(* GgufTensorIndexer.createChunks: layers, in the order of their numbers,  *)
(* are packed into chunks that are mapped as one slice of the file each.   *)
(* The tensors of a layer count only through the first and the last byte   *)
(* they reach, so a layer is its extent in the file; extents of different  *)
(* layers may lie in any order, leave gaps and interleave.  One action is  *)
(* one round of the loop over layerMap, or the code behind the loop.       *)
(***************************************************************************)
EXTENDS Integers, Sequences

CONSTANTS
  Layers,         \* keys of layerMap: the layers that own tensors
  MaxOffset,      \* bound of the file offsets that TLC tries
  MaxChunkBytes,  \* the budget of the caller
  ChunkCap        \* 1_500_000_000 in the code

ASSUME PlannerAssumption ==
  /\ Layers \subseteq Nat
  /\ MaxOffset \in Nat
  /\ MaxChunkBytes \in Int
  /\ ChunkCap \in Nat

VARIABLES
  extent,           \* extent[l]: lo, hi, the bytes between which layer l lies (a constant)
  todo,             \* layers the loop has not reached
  current,          \* the layers of currentChunkTensors
  chunkStartLayer,
  lastLayer,
  chunks,           \* the result list
  done

vars == <<extent, todo, current, chunkStartLayer, lastLayer, chunks, done>>

Extents == {e \in [lo : 0..MaxOffset, hi : 0..MaxOffset] : e.lo =< e.hi}

Init ==
  /\ extent \in [Layers -> Extents]
  /\ todo = Layers
  /\ current = {}
  /\ chunkStartLayer = -1
  /\ lastLayer = -1
  /\ chunks = <<>>
  /\ done = FALSE

-----------------------------------------------------------------------------
EffectiveMaxBytes == IF MaxChunkBytes < ChunkCap THEN MaxChunkBytes ELSE ChunkCap

\* As if the tensors of the first layer came first in the file.
MinOffsetOfFirst(S) ==
  IF S = {} THEN 0 ELSE extent[CHOOSE l \in S : \A m \in S : l =< m].lo

MinOffset(S) ==
  IF S = {} THEN 0
  ELSE CHOOSE o \in {extent[l].lo : l \in S} : \A l \in S : o =< extent[l].lo

MaxEnd(S) ==
  CHOOSE o \in {extent[l].hi : l \in S} : \A l \in S : extent[l].hi =< o

\* The outer Math.max with 0 never chooses 0 over a difference.
PhysicalSpan(S) == IF S = {} THEN 0 ELSE MaxEnd(S) - MinOffset(S)

LayerChunk ==
  [startLayer |-> chunkStartLayer, endLayer |-> lastLayer, layers |-> current,
   physicalStartOffset |-> MinOffset(current),
   physicalSpanBytes |-> PhysicalSpan(current)]

\* The size of the last layer alone decides: it forgets what is in the chunk.
ExceedsByLayer(l) == PhysicalSpan({l}) > EffectiveMaxBytes /\ current # {}

\* A chunk may not even reach the limit.
ExceedsOrMeets(l) == PhysicalSpan(current \cup {l}) >= EffectiveMaxBytes /\ current # {}

\* The check for an empty current chunk is missing.
ExceedsEvenEmpty(l) == PhysicalSpan(current \cup {l}) > EffectiveMaxBytes

Exceeds(l) == PhysicalSpan(current \cup {l}) > EffectiveMaxBytes /\ current # {}

IsNext(l) == l \in todo /\ \A m \in todo : l =< m

\* The layer joins the current chunk.
Extend(l) ==
  /\ IsNext(l)
  /\ ~Exceeds(l)
  /\ current' = current \cup {l}
  /\ chunkStartLayer' = IF chunkStartLayer = -1 THEN l ELSE chunkStartLayer
  /\ lastLayer' = l
  /\ todo' = todo \ {l}
  /\ UNCHANGED <<extent, chunks, done>>

CutKeepsTensors(l) ==
  /\ IsNext(l)
  /\ Exceeds(l)
  /\ chunks' = Append(chunks, LayerChunk)
  /\ current' = current \cup {l}
  /\ chunkStartLayer' = l
  /\ lastLayer' = l
  /\ todo' = todo \ {l}
  /\ UNCHANGED <<extent, done>>

\* The current chunk is closed and the layer starts a new one.
Cut(l) ==
  /\ IsNext(l)
  /\ Exceeds(l)
  /\ chunks' = Append(chunks, LayerChunk)
  /\ current' = {l}
  /\ chunkStartLayer' = l
  /\ lastLayer' = l
  /\ todo' = todo \ {l}
  /\ UNCHANGED <<extent, done>>

FinishDropsTail ==
  /\ ~done
  /\ todo = {}
  /\ done' = TRUE
  /\ current' = {}
  /\ UNCHANGED <<extent, todo, chunkStartLayer, lastLayer, chunks>>

\* Behind the loop: the last chunk (none when there are no layers).
Finish ==
  /\ ~done
  /\ todo = {}
  /\ done' = TRUE
  /\ chunks' = IF current = {} THEN chunks ELSE Append(chunks, LayerChunk)
  /\ current' = {}
  /\ UNCHANGED <<extent, todo, chunkStartLayer, lastLayer>>

Next ==
  \/ \E l \in Layers : Extend(l) \/ Cut(l)
  \/ Finish

Spec == Init /\ [][Next]_vars

-----------------------------------------------------------------------------
ChunkIds == DOMAIN chunks

\* The program's types; a chunk holds at least one layer.
TypeOK ==
  /\ extent \in [Layers -> Extents]
  /\ todo \subseteq Layers
  /\ current \subseteq Layers
  /\ chunkStartLayer \in Layers \cup {-1}
  /\ lastLayer \in Layers \cup {-1}
  /\ chunks \in Seq([startLayer : Layers, endLayer : Layers,
                     layers : (SUBSET Layers) \ {{}},
                     physicalStartOffset : Int, physicalSpanBytes : Int])
  /\ done \in BOOLEAN

\* GgufTensorIndexer.java:17: the slice of a chunk covers every byte of its
\* layers, so that the zero-copy test of gemv (inChunk) succeeds for each of
\* their tensors and no read leaves the slice.
SlicesCover ==
  \A i \in ChunkIds : \A l \in chunks[i].layers :
    /\ chunks[i].physicalStartOffset =< extent[l].lo
    /\ extent[l].hi =< chunks[i].physicalStartOffset + chunks[i].physicalSpanBytes

\* The token step runs startLayer..endLayer of every chunk in turn: each layer
\* that has tensors runs exactly once, inside the chunk that holds its tensors,
\* and the layers run in ascending order.
LayersRunOnceInOrder ==
  /\ \A i \in ChunkIds :
       /\ chunks[i].startLayer =< chunks[i].endLayer
       /\ chunks[i].layers =
            {l \in Layers : chunks[i].startLayer =< l /\ l =< chunks[i].endLayer}
  /\ \A i, j \in ChunkIds : i < j => chunks[i].endLayer < chunks[j].startLayer
  /\ done => \A l \in Layers : \E i \in ChunkIds : l \in chunks[i].layers

\* A slice is larger than the limit only when it holds one layer, which the
\* planner cannot split.
OnlySingleLayersExceed ==
  \A i \in ChunkIds :
    \/ chunks[i].physicalSpanBytes =< EffectiveMaxBytes
    \/ \E l \in Layers : chunks[i].layers = {l}

\* GgufTensorIndexer.java:205: "Strictly enforce an upper limit of 1.5 GB", to guarantee
\* that FileChannel.map never exceeds the 32-bit limit: no slice is larger than that.
ChunksAreCapped == \A i \in ChunkIds : chunks[i].physicalSpanBytes =< ChunkCap

\* Packing is greedy: no chunk could have taken the first layer of the next one
\* (fewer chunks would need a different order of layers).
CutsAreNeeded ==
  \A i \in ChunkIds : i + 1 \in ChunkIds =>
    PhysicalSpan(chunks[i].layers \cup {chunks[i + 1].startLayer}) > EffectiveMaxBytes
=============================================================================
