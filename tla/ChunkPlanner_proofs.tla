------------------------ MODULE ChunkPlanner_proofs ------------------------
(***************************************************************************)
(* Proofs about ChunkPlanner for every set of layers, every placement of   *)
(* their tensors in the file and every budget.                             *)
(***************************************************************************)
EXTENDS ChunkPlanner, TLAPS

-----------------------------------------------------------------------------
(* Extents.  A set with a first and a last byte is called bounded; bounded  *)
(* sets are built one layer at a time, as the planner does it.              *)

ExtentType == extent \in [Layers -> Extents]

Bounded(S) ==
  /\ S \subseteq Layers
  /\ \E l \in S : \A m \in S : extent[l].lo =< extent[m].lo
  /\ \E l \in S : \A m \in S : extent[m].hi =< extent[l].hi

LEMMA ExtentBytes ==
  ASSUME ExtentType, NEW l \in Layers
  PROVE  extent[l].lo \in Nat /\ extent[l].hi \in Nat /\ extent[l].lo =< extent[l].hi
BY PlannerAssumption DEF ExtentType, Extents

LEMMA SingletonBounded ==
  ASSUME ExtentType, NEW l \in Layers
  PROVE  Bounded({l})
BY ExtentBytes DEF Bounded

LEMMA ExtendBounded ==
  ASSUME ExtentType, NEW S, Bounded(S), NEW l \in Layers
  PROVE  Bounded(S \cup {l})
<1>1. \E a \in S \cup {l} : \A m \in S \cup {l} : extent[a].lo =< extent[m].lo
  <2>. PICK a \in S : \A m \in S : extent[a].lo =< extent[m].lo
    BY DEF Bounded
  <2>1. S \subseteq Layers
    BY DEF Bounded
  <2>2. CASE extent[a].lo =< extent[l].lo
    BY <2>1, <2>2, ExtentBytes
  <2>3. CASE extent[l].lo < extent[a].lo
    <3>1. \A m \in S \cup {l} : extent[l].lo =< extent[m].lo
      BY <2>1, <2>3, ExtentBytes
    <3>. QED
      BY <3>1
  <2>. QED
    BY <2>1, <2>2, <2>3, ExtentBytes
<1>2. \E a \in S \cup {l} : \A m \in S \cup {l} : extent[m].hi =< extent[a].hi
  <2>. PICK a \in S : \A m \in S : extent[m].hi =< extent[a].hi
    BY DEF Bounded
  <2>1. S \subseteq Layers
    BY DEF Bounded
  <2>2. CASE extent[l].hi =< extent[a].hi
    BY <2>1, <2>2, ExtentBytes
  <2>3. CASE extent[a].hi < extent[l].hi
    <3>1. \A m \in S \cup {l} : extent[m].hi =< extent[l].hi
      BY <2>1, <2>3, ExtentBytes
    <3>. QED
      BY <3>1
  <2>. QED
    BY <2>1, <2>2, <2>3, ExtentBytes
<1>. QED
  BY <1>1, <1>2 DEF Bounded

\* The slice computed for a bounded set reaches all bytes of its layers.
LEMMA SpanOfBounded ==
  ASSUME ExtentType, NEW S, Bounded(S)
  PROVE  /\ S # {}
         /\ MinOffset(S) \in Nat
         /\ PhysicalSpan(S) \in Int
         /\ \A l \in S : /\ MinOffset(S) =< extent[l].lo
                         /\ extent[l].hi =< MinOffset(S) + PhysicalSpan(S)
<1>1. S # {} /\ S \subseteq Layers
  BY DEF Bounded
<1>2. /\ MinOffset(S) \in {extent[l].lo : l \in S}
      /\ \A l \in S : MinOffset(S) =< extent[l].lo
  <2>1. \E o \in {extent[l].lo : l \in S} : \A l \in S : o =< extent[l].lo
    BY DEF Bounded
  <2>. QED
    BY <1>1, <2>1 DEF MinOffset
<1>3. /\ MaxEnd(S) \in {extent[l].hi : l \in S}
      /\ \A l \in S : extent[l].hi =< MaxEnd(S)
  <2>1. \E o \in {extent[l].hi : l \in S} : \A l \in S : extent[l].hi =< o
    BY DEF Bounded
  <2>. QED
    BY <2>1 DEF MaxEnd
<1>4. MinOffset(S) \in Nat /\ MaxEnd(S) \in Nat
  BY <1>1, <1>2, <1>3, ExtentBytes
<1>5. PhysicalSpan(S) = MaxEnd(S) - MinOffset(S)
  BY <1>1 DEF PhysicalSpan
<1>6. \A l \in S : extent[l].hi \in Nat
  BY <1>1, ExtentBytes
<1>. QED
  BY <1>1, <1>2, <1>3, <1>4, <1>5, <1>6

LEMMA SpanUnchanged ==
  ASSUME UNCHANGED extent
  PROVE  \A S : PhysicalSpan(S)' = PhysicalSpan(S) /\ (Bounded(S) => Bounded(S)')
BY DEF PhysicalSpan, MinOffset, MaxEnd, Bounded

-----------------------------------------------------------------------------
(* The inductive invariant: the chunk under construction is a run of        *)
(* consecutive layers behind all finished chunks, it fits or is one layer,  *)
(* and its first layer did not fit into the chunk before it.                *)

OpenChunkInv ==
  /\ current # {} => /\ Bounded(current)
                     /\ chunkStartLayer \in current
                     /\ lastLayer \in current
  /\ \/ current = {}
     \/ PhysicalSpan(current) =< EffectiveMaxBytes
     \/ \E l \in Layers : current = {l}
  /\ ~done /\ current = {} => chunkStartLayer = -1 /\ lastLayer = -1 /\ chunks = <<>>
  /\ ~done => /\ current = {l \in Layers : chunkStartLayer =< l /\ l =< lastLayer}
              /\ todo = {l \in Layers : lastLayer < l}
              /\ \A i \in ChunkIds : chunks[i].endLayer < chunkStartLayer
  /\ ~done /\ chunks # <<>> =>
       PhysicalSpan(chunks[Len(chunks)].layers \cup {chunkStartLayer}) > EffectiveMaxBytes
  /\ done => todo = {} /\ current = {}

\* LayersRunOnceInOrder with the layers that are still on their way.
PartitionInv ==
  /\ \A i \in ChunkIds :
       /\ chunks[i].startLayer =< chunks[i].endLayer
       /\ chunks[i].layers =
            {l \in Layers : chunks[i].startLayer =< l /\ l =< chunks[i].endLayer}
  /\ \A i, j \in ChunkIds : i < j => chunks[i].endLayer < chunks[j].startLayer
  /\ \A l \in Layers : \/ l \in todo
                       \/ l \in current
                       \/ \E i \in ChunkIds : l \in chunks[i].layers

PlanInv ==
  /\ TypeOK
  /\ OpenChunkInv
  /\ PartitionInv
  /\ SlicesCover
  /\ OnlySingleLayersExceed
  /\ CutsAreNeeded

ChunkType ==
  [startLayer : Layers, endLayer : Layers, layers : (SUBSET Layers) \ {{}},
   physicalStartOffset : Int, physicalSpanBytes : Int]

LEMMA ChunksType == TypeOK => chunks \in Seq(ChunkType)
BY DEF TypeOK, ChunkType

LEMMA InitPlanInv == Init => PlanInv
<1>. SUFFICES ASSUME Init
              PROVE  PlanInv
  OBVIOUS
<1>1. TypeOK
  <2>1. chunks \in Seq(ChunkType)
    BY DEF Init
  <2>. QED
    BY <2>1 DEF Init, TypeOK, ChunkType
<1>2. \A l \in Layers : l \in Int /\ -1 < l /\ ~(-1 =< l /\ l =< -1)
  BY PlannerAssumption
<1>. QED
  BY <1>1, <1>2 DEF Init, PlanInv, OpenChunkInv, PartitionInv, SlicesCover,
     OnlySingleLayersExceed, CutsAreNeeded, ChunkIds

-----------------------------------------------------------------------------
(* A finished chunk.                                                        *)

LEMMA FinishedChunk ==
  ASSUME TypeOK, OpenChunkInv, current # {}
  PROVE  /\ LayerChunk \in ChunkType
         /\ \A l \in LayerChunk.layers :
              /\ LayerChunk.physicalStartOffset =< extent[l].lo
              /\ extent[l].hi =< LayerChunk.physicalStartOffset + LayerChunk.physicalSpanBytes
         /\ \/ LayerChunk.physicalSpanBytes =< EffectiveMaxBytes
            \/ \E l \in Layers : LayerChunk.layers = {l}
<1>1. ExtentType /\ Bounded(current) /\ current \subseteq Layers
  BY DEF TypeOK, ExtentType, OpenChunkInv
<1>2. chunkStartLayer \in Layers /\ lastLayer \in Layers
  BY <1>1 DEF OpenChunkInv
<1>. QED
  BY <1>1, <1>2, SpanOfBounded DEF LayerChunk, ChunkType, OpenChunkInv

LEMMA AppendedChunks ==
  ASSUME TypeOK, OpenChunkInv, current # {}, chunks' = Append(chunks, LayerChunk)
  PROVE  /\ chunks' \in Seq(ChunkType)
         /\ Len(chunks') = Len(chunks) + 1
         /\ Len(chunks) \in Nat
         /\ ChunkIds = 1..Len(chunks)
         /\ ChunkIds' = 1..Len(chunks) + 1
         /\ \A i \in ChunkIds : i \in ChunkIds' /\ chunks'[i] = chunks[i] /\ i # Len(chunks')
         /\ \A i \in ChunkIds' : i \in ChunkIds \/ i = Len(chunks')
         /\ chunks'[Len(chunks')] = LayerChunk
<1>1. LayerChunk \in ChunkType /\ chunks \in Seq(ChunkType)
  BY FinishedChunk DEF TypeOK, ChunkType
<1>. QED
  BY <1>1 DEF ChunkIds

\* What holds of the finished chunks still does with one more.
LEMMA AppendKeepsChunks ==
  ASSUME PlanInv, ~done, current # {}, UNCHANGED extent,
         chunks' = Append(chunks, LayerChunk)
  PROVE  /\ SlicesCover'
         /\ OnlySingleLayersExceed'
         /\ CutsAreNeeded'
         /\ \A i \in ChunkIds' :
              /\ chunks'[i].startLayer =< chunks'[i].endLayer
              /\ chunks'[i].layers =
                   {l \in Layers : chunks'[i].startLayer =< l /\ l =< chunks'[i].endLayer}
              /\ chunks'[i].endLayer =< lastLayer
         /\ \A i, j \in ChunkIds' : i < j => chunks'[i].endLayer < chunks'[j].startLayer
<1>. DEFINE n == Len(chunks')
<1>. USE DEF PlanInv
<1>1. /\ \A i \in ChunkIds : i \in ChunkIds' /\ chunks'[i] = chunks[i] /\ i # n
      /\ \A i \in ChunkIds' : i \in ChunkIds \/ i = n
      /\ chunks'[n] = LayerChunk
      /\ n = Len(chunks) + 1 /\ Len(chunks) \in Nat
      /\ ChunkIds = 1..Len(chunks) /\ ChunkIds' = 1..n
  BY AppendedChunks
<1>2. /\ LayerChunk.startLayer = chunkStartLayer
      /\ LayerChunk.endLayer = lastLayer
      /\ LayerChunk.layers = current
  BY DEF LayerChunk
<1>3. /\ chunkStartLayer \in Layers /\ lastLayer \in Layers /\ chunkStartLayer =< lastLayer
      /\ current = {l \in Layers : chunkStartLayer =< l /\ l =< lastLayer}
      /\ \A i \in ChunkIds : chunks[i].endLayer < chunkStartLayer
  BY DEF OpenChunkInv, TypeOK
<1>4. \A l \in Layers : l \in Int
  BY PlannerAssumption
<1>5. \A i \in ChunkIds : chunks[i].endLayer \in Int /\ chunks[i].startLayer \in Int
  <2>1. \A i \in ChunkIds : chunks[i] \in ChunkType
    BY ChunksType DEF ChunkIds
  <2>. QED
    BY <1>4, <2>1 DEF ChunkType
<1>6. SlicesCover'
  BY <1>1, FinishedChunk DEF SlicesCover
<1>7. OnlySingleLayersExceed'
  BY <1>1, FinishedChunk DEF OnlySingleLayersExceed, EffectiveMaxBytes
<1>8. CutsAreNeeded'
  <2>. SUFFICES ASSUME NEW i \in ChunkIds', i + 1 \in ChunkIds'
                PROVE  PhysicalSpan(chunks[i].layers \cup {chunks[i + 1].startLayer})'
                         > EffectiveMaxBytes
    BY DEF CutsAreNeeded, EffectiveMaxBytes
  <2>1. i \in ChunkIds /\ chunks'[i] = chunks[i]
    BY <1>1
  <2>2. PhysicalSpan(chunks[i].layers \cup {chunks'[i + 1].startLayer}) > EffectiveMaxBytes
    <3>1. CASE i + 1 \in ChunkIds
      BY <1>1, <2>1, <3>1 DEF CutsAreNeeded
    <3>2. CASE i + 1 = n
      <4>1. i = Len(chunks) /\ chunks # <<>>
        BY <1>1, <2>1, <3>2
      <4>2. chunks'[i + 1].startLayer = chunkStartLayer
        BY <1>1, <1>2, <3>2
      <4>. QED
        BY <4>1, <4>2 DEF OpenChunkInv
    <3>. QED
      BY <1>1, <3>1, <3>2
  <2>. QED
    BY <2>1, <2>2, SpanUnchanged
<1>9. \A i \in ChunkIds' :
        /\ chunks'[i].startLayer =< chunks'[i].endLayer
        /\ chunks'[i].layers =
             {l \in Layers : chunks'[i].startLayer =< l /\ l =< chunks'[i].endLayer}
        /\ chunks'[i].endLayer =< lastLayer
  <2>. TAKE i \in ChunkIds'
  <2>1. CASE i \in ChunkIds
    BY <1>1, <1>3, <1>4, <1>5, <2>1 DEF PartitionInv
  <2>2. CASE i = n
    BY <1>1, <1>2, <1>3, <1>4, <2>2
  <2>. QED
    BY <1>1, <2>1, <2>2
<1>10. \A i, j \in ChunkIds' : i < j => chunks'[i].endLayer < chunks'[j].startLayer
  <2>. TAKE i, j \in ChunkIds'
  <2>. HAVE i < j
  <2>1. i \in ChunkIds
    BY <1>1
  <2>2. CASE j \in ChunkIds
    BY <1>1, <2>1, <2>2 DEF PartitionInv
  <2>3. CASE j = n
    BY <1>1, <1>2, <1>3, <2>1, <2>3
  <2>. QED
    BY <1>1, <2>2, <2>3
<1>. QED
  BY <1>6, <1>7, <1>8, <1>9, <1>10

-----------------------------------------------------------------------------
(* The steps.                                                               *)

LEMMA ExtendPlanInv ==
  ASSUME PlanInv, ~done, NEW l \in Layers, Extend(l)
  PROVE  PlanInv'
<1>. USE DEF PlanInv
<1>1. /\ l \in todo /\ (\A m \in todo : l =< m)
      /\ current' = current \cup {l}
      /\ chunkStartLayer' = IF chunkStartLayer = -1 THEN l ELSE chunkStartLayer
      /\ lastLayer' = l
      /\ todo' = todo \ {l}
      /\ UNCHANGED <<extent, chunks, done>>
      /\ PhysicalSpan(current \cup {l}) =< EffectiveMaxBytes \/ current = {}
  <2>1. ExtentType /\ (current # {} => Bounded(current))
    BY DEF TypeOK, ExtentType, OpenChunkInv
  <2>2. current # {} => PhysicalSpan(current \cup {l}) \in Int
    BY <2>1, ExtendBounded, SpanOfBounded
  <2>3. EffectiveMaxBytes \in Int
    BY PlannerAssumption DEF EffectiveMaxBytes
  <2>. QED
    BY <2>2, <2>3 DEF Extend, IsNext, Exceeds
<1>2. /\ \A m \in Layers : m \in Int /\ m > -1
      /\ todo = {m \in Layers : lastLayer < m}
      /\ current = {m \in Layers : chunkStartLayer =< m /\ m =< lastLayer}
      /\ lastLayer \in Layers \cup {-1}
      /\ chunkStartLayer \in Layers \cup {-1}
      /\ current = {} => chunkStartLayer = -1 /\ lastLayer = -1 /\ chunks = <<>>
      /\ current # {} => chunkStartLayer \in current
  BY PlannerAssumption DEF TypeOK, OpenChunkInv
<1>3. TypeOK'
  BY <1>1, ChunksType DEF TypeOK, ChunkType
<1>4. ExtentType /\ Bounded(current') /\ \A S : Bounded(S) => Bounded(S)'
  BY <1>1, SingletonBounded, ExtendBounded, SpanUnchanged DEF TypeOK, ExtentType, OpenChunkInv
<1>5. current' = {m \in Layers : chunkStartLayer' =< m /\ m =< lastLayer'}
  <2>1. CASE current = {}
    <3>1. \A m \in Layers : m \in todo
      BY <1>2, <2>1
    <3>2. \A m \in Layers : l =< m /\ m =< l => m = l
      BY <1>2
    <3>. QED
      BY <1>1, <1>2, <2>1, <3>1, <3>2
  <2>2. CASE current # {}
    <3>1. chunkStartLayer' = chunkStartLayer
      BY <1>1, <1>2, <2>2
    <3>2. \A m \in Layers : m \in current \cup {l} <=> chunkStartLayer =< m /\ m =< l
      <4>. TAKE m \in Layers
      <4>1. CASE m =< lastLayer
        BY <1>1, <1>2, <2>2, <4>1
      <4>2. CASE lastLayer < m
        <5>1. m \in todo /\ l =< m
          BY <1>1, <1>2, <4>2
        <5>. QED
          BY <1>1, <1>2, <2>2, <4>2, <5>1
      <4>. QED
        BY <1>2, <4>1, <4>2
    <3>. QED
      BY <1>1, <1>2, <3>1, <3>2
  <2>. QED
    BY <2>1, <2>2
<1>6. todo' = {m \in Layers : lastLayer' < m}
  BY <1>1, <1>2
<1>7. /\ \A S : PhysicalSpan(S)' = PhysicalSpan(S)
      /\ ChunkIds' = ChunkIds
      /\ EffectiveMaxBytes' = EffectiveMaxBytes
  BY <1>1, SpanUnchanged DEF ChunkIds, EffectiveMaxBytes
<1>8. OpenChunkInv'
  <2>1. chunkStartLayer' \in current' /\ lastLayer' \in current' /\ Bounded(current)'
    BY <1>1, <1>2, <1>4
  <2>2. \/ PhysicalSpan(current)' =< EffectiveMaxBytes'
        \/ \E m \in Layers : current' = {m}
    BY <1>1, <1>7
  <2>3. \A i \in ChunkIds' : chunks'[i].endLayer < chunkStartLayer'
    BY <1>1, <1>2, <1>7 DEF OpenChunkInv, ChunkIds
  <2>4. chunks' # <<>> =>
          PhysicalSpan(chunks[Len(chunks)].layers \cup {chunkStartLayer})' > EffectiveMaxBytes'
    <3>. SUFFICES ASSUME chunks # <<>>
                  PROVE  PhysicalSpan(chunks[Len(chunks)].layers \cup {chunkStartLayer})'
                           > EffectiveMaxBytes
      BY <1>1, <1>7
    <3>1. chunkStartLayer' = chunkStartLayer
      BY <1>1, <1>2
    <3>2. PhysicalSpan(chunks[Len(chunks)].layers \cup {chunkStartLayer})'
            = PhysicalSpan(chunks[Len(chunks)].layers \cup {chunkStartLayer})
      BY <1>1, <1>7, <3>1
    <3>. QED
      BY <1>1, <3>2 DEF OpenChunkInv
  <2>. QED
    BY <1>1, <1>5, <1>6, <2>1, <2>2, <2>3, <2>4 DEF OpenChunkInv
<1>9. PartitionInv'
  BY <1>1, <1>7 DEF PartitionInv
<1>10. SlicesCover' /\ OnlySingleLayersExceed' /\ CutsAreNeeded'
  BY <1>1, <1>7 DEF SlicesCover, OnlySingleLayersExceed, CutsAreNeeded
<1>. QED
  BY <1>3, <1>8, <1>9, <1>10

LEMMA CutPlanInv ==
  ASSUME PlanInv, ~done, NEW l \in Layers, Cut(l)
  PROVE  PlanInv'
<1>. USE DEF PlanInv
<1>. DEFINE n == Len(chunks')
<1>1. /\ l \in todo /\ (\A m \in todo : l =< m)
      /\ current # {}
      /\ PhysicalSpan(current \cup {l}) > EffectiveMaxBytes
      /\ chunks' = Append(chunks, LayerChunk)
      /\ current' = {l}
      /\ chunkStartLayer' = l
      /\ lastLayer' = l
      /\ todo' = todo \ {l}
      /\ UNCHANGED <<extent, done>>
  BY DEF Cut, IsNext, Exceeds
<1>2. /\ \A m \in Layers : m \in Int /\ m > -1
      /\ todo = {m \in Layers : lastLayer < m}
      /\ current = {m \in Layers : chunkStartLayer =< m /\ m =< lastLayer}
      /\ lastLayer \in Layers
      /\ lastLayer < l
  BY <1>1, PlannerAssumption DEF TypeOK, OpenChunkInv
<1>3. /\ \A i \in ChunkIds : i \in ChunkIds' /\ chunks'[i] = chunks[i]
      /\ \A i \in ChunkIds' : i \in ChunkIds \/ i = n
      /\ n \in ChunkIds' /\ chunks'[n] = LayerChunk
      /\ chunks' \in Seq(ChunkType)
  BY <1>1, AppendedChunks
<1>4. /\ SlicesCover' /\ OnlySingleLayersExceed' /\ CutsAreNeeded'
      /\ \A i \in ChunkIds' :
           /\ chunks'[i].startLayer =< chunks'[i].endLayer
           /\ chunks'[i].layers =
                {m \in Layers : chunks'[i].startLayer =< m /\ m =< chunks'[i].endLayer}
           /\ chunks'[i].endLayer =< lastLayer
      /\ \A i, j \in ChunkIds' : i < j => chunks'[i].endLayer < chunks'[j].startLayer
  BY <1>1, AppendKeepsChunks
<1>5. TypeOK'
  BY <1>1, <1>3 DEF TypeOK, ChunkType
<1>6. PartitionInv'
  <2>1. LayerChunk.layers = current
    BY DEF LayerChunk
  <2>2. \A m \in Layers : \/ m \in todo'
                        \/ m \in current'
                        \/ \E i \in ChunkIds' : m \in chunks'[i].layers
    BY <1>1, <1>3, <2>1 DEF PartitionInv
  <2>. QED
    BY <1>4, <2>2 DEF PartitionInv
<1>7. OpenChunkInv'
  <2>1. Bounded(current)'
    <3>1. ExtentType
      BY DEF TypeOK, ExtentType
    <3>2. Bounded({l}) /\ \A S : Bounded(S) => Bounded(S)'
      BY <1>1, <3>1, SingletonBounded, SpanUnchanged
    <3>. QED
      BY <1>1, <3>2
  <2>2. /\ current' = {m \in Layers : chunkStartLayer' =< m /\ m =< lastLayer'}
        /\ todo' = {m \in Layers : lastLayer' < m}
    <3>1. l \in Nat /\ \A m \in Layers : m \in Nat
      BY PlannerAssumption
    <3>2. \A m \in Layers : (l =< m /\ m =< l) <=> m = l
      <4>1. \A a, b \in Nat : (a =< b /\ b =< a) <=> b = a
        OBVIOUS
      <4>. QED
        BY <3>1, <4>1
    <3>3. lastLayer \in Nat
      BY <1>2, <3>1
    <3>4. \A m \in Layers : m \in todo \ {l} <=> l < m
      BY <1>1, <1>2, <3>1, <3>3
    <3>5. {l} = {m \in Layers : l =< m /\ m =< l}
      BY <3>2
    <3>. QED
      BY <1>1, <1>2, <3>4, <3>5
  <2>3. \A i \in ChunkIds' : chunks'[i].endLayer < chunkStartLayer'
    <3>1. \A i \in ChunkIds' : chunks'[i].endLayer \in Nat
      <4>1. \A i \in ChunkIds' : chunks'[i] \in ChunkType
        BY <1>3 DEF ChunkIds
      <4>2. Layers \subseteq Nat
        BY PlannerAssumption
      <4>. QED
        BY <4>1, <4>2 DEF ChunkType
    <3>2. lastLayer \in Nat /\ l \in Nat
      BY <1>2, PlannerAssumption
    <3>. QED
      <4>1. \A a, b, c \in Nat : a =< b /\ b < c => a < c
        OBVIOUS
      <4>2. \A i \in ChunkIds' : chunks'[i].endLayer =< lastLayer
        BY <1>4
      <4>3. lastLayer < l /\ chunkStartLayer' = l
        BY <1>1, <1>2
      <4>. QED
        BY ONLY <3>1, <3>2, <4>1, <4>2, <4>3
  <2>4. PhysicalSpan(chunks[Len(chunks)].layers \cup {chunkStartLayer})' > EffectiveMaxBytes'
    <3>1. chunks'[n].layers = current
      BY <1>3 DEF LayerChunk
    <3>2. PhysicalSpan(chunks[Len(chunks)].layers \cup {chunkStartLayer})'
            = PhysicalSpan(current \cup {l})
      BY <1>1, <3>1, SpanUnchanged
    <3>. QED
      BY <1>1, <3>2 DEF EffectiveMaxBytes
  <2>. QED
    BY <1>1, <2>1, <2>2, <2>3, <2>4 DEF OpenChunkInv
<1>. QED
  BY <1>4, <1>5, <1>6, <1>7

LEMMA FinishPlanInv ==
  ASSUME PlanInv, ~done, Finish
  PROVE  PlanInv'
<1>. USE DEF PlanInv
<1>1. /\ todo = {} /\ todo' = {}
      /\ done' /\ done' \in BOOLEAN
      /\ current' = {}
      /\ UNCHANGED <<extent, chunkStartLayer, lastLayer>>
  BY DEF Finish
<1>2. OpenChunkInv'
  BY <1>1 DEF OpenChunkInv
<1>3. CASE current = {}
  <2>1. UNCHANGED chunks
    BY <1>3 DEF Finish
  <2>2. /\ \A S : PhysicalSpan(S)' = PhysicalSpan(S)
        /\ ChunkIds' = ChunkIds
        /\ EffectiveMaxBytes' = EffectiveMaxBytes
    BY <1>1, <2>1, SpanUnchanged DEF ChunkIds, EffectiveMaxBytes
  <2>3. TypeOK'
    BY <1>1, <2>1 DEF TypeOK
  <2>4. PartitionInv'
    BY <1>1, <1>3, <2>1, <2>2 DEF PartitionInv
  <2>5. SlicesCover' /\ OnlySingleLayersExceed' /\ CutsAreNeeded'
    BY <1>1, <2>1, <2>2 DEF SlicesCover, OnlySingleLayersExceed, CutsAreNeeded
  <2>. QED
    BY <1>2, <2>3, <2>4, <2>5
<1>4. CASE current # {}
  <2>1. chunks' = Append(chunks, LayerChunk)
    BY <1>4 DEF Finish
  <2>2. /\ \A i \in ChunkIds : i \in ChunkIds' /\ chunks'[i] = chunks[i]
        /\ Len(chunks') \in ChunkIds' /\ chunks'[Len(chunks')] = LayerChunk
        /\ chunks' \in Seq(ChunkType)
    BY <1>4, <2>1, AppendedChunks
  <2>3. /\ SlicesCover' /\ OnlySingleLayersExceed' /\ CutsAreNeeded'
        /\ \A i \in ChunkIds' :
             /\ chunks'[i].startLayer =< chunks'[i].endLayer
             /\ chunks'[i].layers =
                  {m \in Layers : chunks'[i].startLayer =< m /\ m =< chunks'[i].endLayer}
        /\ \A i, j \in ChunkIds' : i < j => chunks'[i].endLayer < chunks'[j].startLayer
    BY <1>1, <1>4, <2>1, AppendKeepsChunks
  <2>4. TypeOK'
    BY <1>1, <2>2 DEF TypeOK, ChunkType
  <2>5. LayerChunk.layers = current
    BY DEF LayerChunk
  <2>6. PartitionInv'
    BY <1>1, <2>2, <2>3, <2>5 DEF PartitionInv
  <2>. QED
    BY <1>2, <2>3, <2>4, <2>6
<1>. QED
  BY <1>3, <1>4

LEMMA NextPlanInv == PlanInv /\ [Next]_vars => PlanInv'
<1>. SUFFICES ASSUME PlanInv, [Next]_vars
              PROVE  PlanInv'
  OBVIOUS
<1>1. CASE UNCHANGED vars
  <2>1. /\ UNCHANGED <<extent, todo, current, chunkStartLayer, lastLayer, chunks, done>>
        /\ \A S : PhysicalSpan(S)' = PhysicalSpan(S) /\ (Bounded(S) => Bounded(S)')
        /\ ChunkIds' = ChunkIds
        /\ EffectiveMaxBytes' = EffectiveMaxBytes
    BY <1>1, SpanUnchanged DEF vars, ChunkIds, EffectiveMaxBytes
  <2>2. OpenChunkInv'
    BY <2>1 DEF PlanInv, OpenChunkInv
  <2>3. TypeOK' /\ PartitionInv'
    BY <2>1 DEF PlanInv, TypeOK, PartitionInv
  <2>4. SlicesCover' /\ OnlySingleLayersExceed' /\ CutsAreNeeded'
    BY <2>1 DEF PlanInv, SlicesCover, OnlySingleLayersExceed, CutsAreNeeded
  <2>. QED
    BY <2>2, <2>3, <2>4 DEF PlanInv
<1>2. ASSUME NEW l \in Layers, Extend(l) \/ Cut(l)
      PROVE  PlanInv'
  <2>1. ~done
    BY <1>2 DEF Extend, Cut, IsNext, PlanInv, OpenChunkInv
  <2>. QED
    BY <1>2, <2>1, ExtendPlanInv, CutPlanInv
<1>3. CASE Finish
  BY <1>3, FinishPlanInv DEF Finish
<1>. QED
  BY <1>1, <1>2, <1>3 DEF Next

LEMMA PlanInvariant == Spec => []PlanInv
BY InitPlanInv, NextPlanInv, PTL DEF Spec

-----------------------------------------------------------------------------
\* The planner's variables keep their types and no chunk is empty.
THEOREM PlannerTypeCorrect == Spec => []TypeOK
BY PlanInvariant, PTL DEF PlanInv

\* GgufTensorIndexer.java:17 for every model file: the slice of a chunk covers
\* every byte of its layers, however the tensors lie in the file.
THEOREM SlicesCoverTheirLayers == Spec => []SlicesCover
<1>1. PlanInv => SlicesCover
  BY DEF PlanInv
<1>. QED
  BY <1>1, PlanInvariant, PTL

\* Every layer runs exactly once in a token step, in order, inside the chunk
\* that holds its tensors.
THEOREM LayersRunOnce == Spec => []LayersRunOnceInOrder
<1>1. PlanInv => LayersRunOnceInOrder
  BY DEF PlanInv, OpenChunkInv, PartitionInv, LayersRunOnceInOrder
<1>. QED
  BY <1>1, PlanInvariant, PTL

\* The budget is exceeded only by chunks of one layer.
THEOREM BudgetExceededBySingleLayers == Spec => []OnlySingleLayersExceed
<1>1. PlanInv => OnlySingleLayersExceed
  BY DEF PlanInv
<1>. QED
  BY <1>1, PlanInvariant, PTL

\* No chunk is closed while the next layer would still have fitted.
THEOREM PackingIsGreedy == Spec => []CutsAreNeeded
<1>1. PlanInv => CutsAreNeeded
  BY DEF PlanInv
<1>. QED
  BY <1>1, PlanInvariant, PTL
=============================================================================
