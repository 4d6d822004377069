----------------------------- MODULE KernelCalls -----------------------------
(***************************************************************************)
(* One thread's matrix products and attentions: by which path a call is    *)
(* computed (GPU attempt, native kernel, Java), and the buffers it passes  *)
(* through: the thread-local NativeBuffers, which are grown, reused and    *)
(* never cleared, and the three GPU buffers of the engine.                 *)
(*                                                                         *)
(* The GPU attempt runs inside passes only, which exclude one another      *)
(* (StreamingModel!PassesExclusive).  Its result is not used: the weights  *)
(* are never uploaded, and the native kernel then computes the product.    *)
(***************************************************************************)
EXTENDS BlockKernels

CONSTANTS
  Calls,          \* bound: a sequence of sets, what the first, second... call may be
  InFloats,       \* initial size of NativeBuffers.inBuf, 8192
  OutFloats,      \* initial size of NativeBuffers.outBuf, 131072
  SerialRows,     \* parallel_for: so many rows are computed by the caller, 32
  HwThreads,      \* parallel_for: its threads, at most 16
  GpuWeightLimit  \* bytes of weights the GPU buffer takes, 4 MB

\* Rows of whole blocks, in a matrix that starts at byte base of where it is; gemv
\* takes one input vector.
Matrices ==
  {c \in [op : {"gemv", "gemm"}, format : Formats, rows : Nat \ {0}, cols : Nat \ {0},
          batch : Nat \ {0}, place : {"mapped", "direct", "heap"}, base : Nat] :
     c.cols % BlockColumns[c.format] = 0 /\ (c.op = "gemv" => c.batch = 1)}

\* Heads over the positions 0 to pos of a layer whose slice of the cache has
\* maxTokens of them.  Nothing keeps pos below maxTokens (PersistentKVCache), nor do
\* the KV heads have to divide the heads.
Heads ==
  [op : {"attention"}, heads : Nat \ {0}, kvHeads : Nat \ {0}, headDim : Nat \ {0},
   maxTokens : Nat \ {0}, pos : Nat, faint : SUBSET Nat]

ASSUME KernelAssumption ==
  /\ Calls \in Seq(SUBSET (Matrices \cup Heads))
  /\ {InFloats, OutFloats, HwThreads, GpuWeightLimit} \subseteq Nat \ {0}
  /\ SerialRows \in Nat

VARIABLES
  gpu,        \* the engine has a GPU context (a constant)
  native,     \* NativeGemvBackend.isAvailable() (a constant)
  pc,         \* where the thread is
  number,     \* calls made so far
  call,       \* the current (or last) call
  inBuf,      \* NativeBuffers.inBuf: <<call, row of the batch, index>> of each float
  outBuf,     \* NativeBuffers.outBuf: the sum in each float
  result,     \* the arrays of the caller
  slot,       \* the engine's three GPU fields: [buffer, capacity], buffer 0 for null
  live,       \* GPU buffers allocated and not freed
  lastBuffer, \* GPU buffers made so far
  failed      \* history: GPU fields whose last allocation failed

gpuVars == <<slot, live, lastBuffer, failed>>
vars == <<gpu, native, pc, number, call, inBuf, outBuf, result, gpuVars>>

Slots == {"vecIn", "vecOut", "weights"}
NoCall == [op |-> "none"]

\* What a buffer holds before anything is written to it.
NoFloat == <<0, 0, 0>>
Stale == <<>>

Init ==
  /\ gpu \in BOOLEAN
  /\ native \in BOOLEAN
  /\ pc = "returned"
  /\ number = 0
  /\ call = NoCall
  /\ inBuf = [i \in 0..InFloats - 1 |-> NoFloat]
  /\ outBuf = [i \in 0..OutFloats - 1 |-> Stale]
  /\ result = <<>>
  /\ slot = [s \in Slots |-> [buffer |-> 0, capacity |-> 0]]
  /\ live = {}
  /\ lastBuffer = 0
  /\ failed = {}

-----------------------------------------------------------------------------
(* Shapes of a call.                                                        *)

IsMatrix(c) == c.op \in {"gemv", "gemm"}

\* A call reads Batch(c) input vectors of InWidth(c) floats each.
Batch(c) == IF IsMatrix(c) THEN c.batch ELSE 1
InWidth(c) == IF IsMatrix(c) THEN c.cols ELSE c.heads * c.headDim
OutWidth(c) == IF IsMatrix(c) THEN c.rows ELSE c.heads * c.headDim

\* Room for one output vector only, whatever the batch.
TotalOutOfOne(c) == OutWidth(c)

TotalIn(c) == Batch(c) * InWidth(c)
TotalOut(c) == Batch(c) * OutWidth(c)

\* Elements of getKSegment and of getVSegment, the slices of one layer.
SegmentLength(c) == c.maxTokens * c.kvHeads * c.headDim

RowAddress(c, r) == c.base + r * RowBytes(c.format, c.cols)

HasKernel(c) == c.format \in {"Q4_0", "Q8_0", "Q4_K"}

\* The kernel is tried: for attention always, for a matrix unless it lies in a byte
\* array that is passed to gemv.
TriesNative(c) ==
  /\ native
  /\ IsMatrix(c) => HasKernel(c) /\ (c.op = "gemv" => c.place # "heap")

Route(c) == IF TriesNative(c) THEN "native" ELSE "fallback"

\* gemv on mapped weights is first tried on the GPU.
TriesGpu(c) == gpu /\ c.op = "gemv" /\ HasKernel(c) /\ c.place = "mapped"

Begin(c) ==
  /\ pc = "returned"
  /\ number < Len(Calls)
  /\ c \in Calls[number + 1]
  /\ number' = number + 1
  /\ call' = c
  /\ result' = Stale
  /\ pc' = IF TriesGpu(c) THEN "gpuVecIn" ELSE Route(c)
  /\ UNCHANGED <<gpu, native, inBuf, outBuf, gpuVars>>

-----------------------------------------------------------------------------
(* The GPU attempt.                                                         *)

\* Floats or bytes the call needs in each buffer.
Needed(s) ==
  CASE s = "vecIn" -> call.cols
    [] s = "vecOut" -> call.rows
    [] s = "weights" -> LET bytes == call.rows * RowBytes(call.format, call.cols)
                        IN IF bytes < GpuWeightLimit THEN bytes ELSE GpuWeightLimit

\* The buffer is kept once there is one.
SufficesAny(s) == slot[s].buffer # 0

Suffices(s) == slot[s].buffer # 0 /\ slot[s].capacity >= Needed(s)

\* A larger buffer is allocated and the old one forgotten.
EnsureLeaks(s, from, to) ==
  /\ pc = from
  /\ ~Suffices(s)
  /\ lastBuffer' = lastBuffer + 1
  /\ slot' = [slot EXCEPT ![s] = [buffer |-> lastBuffer + 1, capacity |-> Needed(s)]]
  /\ live' = live \cup {lastBuffer + 1}
  /\ pc' = to
  /\ failed' = failed \ {s}
  /\ UNCHANGED <<gpu, native, number, call, inBuf, outBuf, result>>

\* The old buffer is freed first; the fields change only when the new one exists.
EnsureAllocates(s, from, to) ==
  /\ pc = from
  /\ ~Suffices(s)
  /\ lastBuffer' = lastBuffer + 1
  /\ slot' = [slot EXCEPT ![s] = [buffer |-> lastBuffer + 1, capacity |-> Needed(s)]]
  /\ live' = (live \ {slot[s].buffer}) \cup {lastBuffer + 1}
  /\ failed' = failed \ {s}
  /\ pc' = to
  /\ UNCHANGED <<gpu, native, number, call, inBuf, outBuf, result>>

\* The allocation throws: the fields still name the buffer that was freed, and
\* the call goes on without the GPU.
EnsureFails(s, from) ==
  /\ pc = from
  /\ ~Suffices(s)
  /\ live' = live \ {slot[s].buffer}
  /\ failed' = failed \cup {s}
  /\ pc' = Route(call)
  /\ UNCHANGED <<gpu, native, number, call, inBuf, outBuf, result, slot, lastBuffer>>

EnsureKeeps(s, from, to) ==
  /\ pc = from
  /\ Suffices(s)
  /\ pc' = to
  /\ UNCHANGED <<gpu, native, number, call, inBuf, outBuf, result, gpuVars>>

Ensure(s, from, to) == EnsureKeeps(s, from, to) \/ EnsureAllocates(s, from, to) \/ EnsureFails(s, from)

\* gpuVecIn.upload(vecIn).
Upload ==
  /\ pc = "upload"
  /\ pc' = "gpuWeights"
  /\ UNCHANGED <<gpu, native, number, call, inBuf, outBuf, result, gpuVars>>

\* gpuContext.gemv...(): then the native kernel computes the product; it throws
\* when the library is not there, and Java computes it.
GpuDispatch ==
  /\ pc = "dispatch"
  /\ pc' = Route(call)
  /\ UNCHANGED <<gpu, native, number, call, inBuf, outBuf, result, gpuVars>>

\* Upload or dispatch throws (as it may on a buffer that was freed).
GpuThrows ==
  /\ pc \in {"upload", "dispatch"}
  /\ pc' = Route(call)
  /\ UNCHANGED <<gpu, native, number, call, inBuf, outBuf, result, gpuVars>>

GpuStep ==
  \/ Ensure("vecIn", "gpuVecIn", "gpuVecOut")
  \/ Ensure("vecOut", "gpuVecOut", "upload")
  \/ Upload
  \/ Ensure("weights", "gpuWeights", "dispatch")
  \/ GpuDispatch
  \/ GpuThrows

-----------------------------------------------------------------------------
(* The native kernel.                                                       *)

\* A buffer of another size is replaced by one that fits exactly.
EnsuredExactly(buf, needed, empty) ==
  IF Cardinality(DOMAIN buf) = needed THEN buf ELSE [i \in 0..needed - 1 |-> empty]

\* ensureIn, ensureOut: a buffer too small is replaced by one at least twice its size.
Ensured(buf, needed, empty) ==
  LET size == Cardinality(DOMAIN buf)
      larger == IF needed > 2 * size THEN needed ELSE 2 * size
  IN IF size >= needed THEN buf ELSE [i \in 0..larger - 1 |-> empty]

\* Every input vector is copied to the start of the buffer.
CopiedInToStart(buf) ==
  [i \in DOMAIN buf |-> IF i < TotalIn(call) THEN <<number, 0, i % InWidth(call)>> ELSE buf[i]]

\* The input vectors are copied one behind the other.
CopiedIn(buf) ==
  [i \in DOMAIN buf |-> IF i < TotalIn(call)
                        THEN <<number, i \div InWidth(call), i % InWidth(call)>>
                        ELSE buf[i]]

Prepare ==
  /\ pc = "native"
  /\ inBuf' = CopiedIn(Ensured(inBuf, TotalIn(call), NoFloat))
  /\ outBuf' = Ensured(outBuf, TotalOut(call), Stale)
  /\ pc' = "kernel"
  /\ UNCHANGED <<gpu, native, number, call, result, gpuVars>>

\* Indices of a sum replaced by the floats that are there.
Resolve(sum, floats) == [k \in DOMAIN sum |-> <<sum[k][1], floats[sum[k][2]]>>]

KernelRows(c) ==
  UNION {range[1]..range[2] - 1 :
           range \in ParallelFor(IF IsMatrix(c) THEN c.rows ELSE c.heads, HwThreads, SerialRows)}

\* Element <<t, r>> of a product is float t * rows + r of the output buffer.
MatrixOut ==
  [i \in DOMAIN outBuf |->
     LET t == i \div call.rows   r == i % call.rows
     IN IF t < call.batch /\ r \in KernelRows(call)
        THEN Resolve(NativeRow(call.op, call.format, RowAddress(call, r), call.cols, t * call.cols),
                     inBuf)
        ELSE outBuf[i]]

\* The sum over the cached values of head h: a position whose share is negligible
\* (faint) is left out.  Term: the share <<h, t>> of position t, and a cache index.
WeightedSum(c, h, d, width) ==
  LET kept == Ascending((0..c.pos) \ c.faint)
      visits == Cardinality({j \in 1..c.headDim : Visited(c.headDim, width)[j] = d})
      term(t) == <<<<h, t>>,
                   CacheIndex(c.kvHeads, c.headDim, t, KvHead(c.heads, c.kvHeads, h)) + d>>
  IN Concat(Len(kept), visits, LAMBDA k : [i \in 1..visits |-> term(kept[k + 1])])

\* Scores of the head for each position: indices of q resolved, of the cache not.
HeadScores(c, h, path, floats) ==
  [t \in 0..c.pos |->
     LET q == h * c.headDim
         k0 == CacheIndex(c.kvHeads, c.headDim, t, KvHead(c.heads, c.kvHeads, h))
         sum == IF path = "native" THEN NativeScore(q, k0, c.headDim) ELSE JavaScore(q, k0, c.headDim)
     IN [k \in DOMAIN sum |-> <<floats[sum[k][1]], sum[k][2]>>]]

\* Components a loop over a value vector takes at a time.
Width == [native |-> 8, java |-> 4]

\* Scores and output of the heads.
Attention(c, heads, path, floats) ==
  [scores |-> [h \in heads |-> HeadScores(c, h, path, floats)],
   out |-> [h \in heads |-> [d \in 0..c.headDim - 1 |-> WeightedSum(c, h, d, Width[path])]]]

AttentionOut(attention) ==
  [i \in DOMAIN outBuf |->
     IF i \div call.headDim \in DOMAIN attention.out
     THEN attention.out[i \div call.headDim][i % call.headDim] ELSE outBuf[i]]

\* Kernel and copy of the output buffer to the arrays of the caller.  The foreign
\* function interface refuses a byte array, before the kernel runs.
RunMatrixKernel ==
  /\ pc = "kernel"
  /\ IsMatrix(call)
  /\ call.place # "heap"
  /\ outBuf' = MatrixOut
  /\ result' = [t \in 0..call.batch - 1 |-> [r \in 0..call.rows - 1 |-> outBuf'[t * call.rows + r]]]
  /\ pc' = "returned"
  /\ UNCHANGED <<gpu, native, number, call, inBuf, gpuVars>>

RunAttentionKernel ==
  /\ pc = "kernel"
  /\ ~IsMatrix(call)
  /\ LET attention == Attention(call, KernelRows(call), "native", inBuf)
     IN /\ outBuf' = AttentionOut(attention)
        /\ result' = [scores |-> attention.scores,
                      out |-> [h \in 0..call.heads - 1 |->
                                 [d \in 0..call.headDim - 1 |-> outBuf'[h * call.headDim + d]]]]
  /\ pc' = "returned"
  /\ UNCHANGED <<gpu, native, number, call, inBuf, gpuVars>>

\* getKSegment throws when the cache has no room for the layer (PersistentKVCache!
\* SegmentFits), before any buffer is touched.
SegmentThrows ==
  /\ pc = "native"
  /\ ~IsMatrix(call)
  /\ pc' = "fallback"
  /\ UNCHANGED <<gpu, native, number, call, inBuf, outBuf, result, gpuVars>>

RefuseHeap ==
  /\ pc = "kernel"
  /\ IsMatrix(call)
  /\ call.place = "heap"
  /\ pc' = "fallback"
  /\ UNCHANGED <<gpu, native, number, call, inBuf, outBuf, result, gpuVars>>

-----------------------------------------------------------------------------
(* Java.                                                                    *)

\* All rows (RowDispatch) and all heads, straight from the caller's arrays.
Fallback ==
  /\ pc = "fallback"
  /\ result' =
       IF IsMatrix(call)
       THEN [t \in 0..call.batch - 1 |-> [r \in 0..call.rows - 1 |->
               Resolve(JavaRow(call.op, call.format, RowAddress(call, r), call.cols,
                               call.place # "mapped"),
                       [i \in 0..call.cols - 1 |-> <<number, t, i>>])]]
       ELSE Attention(call, 0..call.heads - 1, "java",
                      [i \in 0..TotalIn(call) - 1 |-> <<number, 0, i>>])
  /\ pc' = "returned"
  /\ UNCHANGED <<gpu, native, number, call, inBuf, outBuf, gpuVars>>

\* The attention loop throws at the end of the cache or of the score buffer (both are
\* PersistentKVCache!Throws): there is no result.
AttentionThrows ==
  /\ pc = "fallback"
  /\ ~IsMatrix(call)
  /\ call' = NoCall
  /\ result' = Stale
  /\ pc' = "returned"
  /\ UNCHANGED <<gpu, native, number, inBuf, outBuf, gpuVars>>

\* engine.close(), between calls: a free that throws is ignored.
Close ==
  /\ pc = "returned"
  /\ live' = live \ {slot[s].buffer : s \in Slots}
  /\ slot' = [s \in Slots |-> [slot[s] EXCEPT !.buffer = 0]]
  /\ pc' = "closed"
  /\ UNCHANGED <<gpu, native, number, call, inBuf, outBuf, result, lastBuffer, failed>>

Next ==
  \/ \E c \in UNION ToSet(Calls) : Begin(c)
  \/ GpuStep
  \/ Prepare \/ RunMatrixKernel \/ RunAttentionKernel \/ SegmentThrows \/ RefuseHeap
  \/ Fallback \/ AttentionThrows
  \/ Close

Spec == Init /\ [][Next]_vars

-----------------------------------------------------------------------------
\* Types; NativeBuffers never shrink.
TypeOK ==
  /\ {gpu, native} \subseteq BOOLEAN
  /\ pc \in {"returned", "gpuVecIn", "gpuVecOut", "upload", "gpuWeights", "dispatch",
             "native", "kernel", "fallback", "closed"}
  /\ number \in 0..Len(Calls)
  /\ call \in (UNION ToSet(Calls)) \cup {NoCall}
  /\ Cardinality(DOMAIN inBuf) >= InFloats /\ Cardinality(DOMAIN outBuf) >= OutFloats
  /\ slot \in [Slots -> [buffer : 0..lastBuffer, capacity : Nat]]
  /\ lastBuffer \in Nat
  /\ live \subseteq 1..lastBuffer
  /\ failed \subseteq Slots

\* The terms of row r for input vector t: every column once, with its decoded
\* weight (for Q4_0 with that of another column, see KernelColumn).
Reference(t, r) ==
  {<<Decoded(call.format, RowAddress(call, r), KernelColumn(call.format, c)), <<number, t, c>>>> :
     c \in 0..call.cols - 1}

\* The path makes no difference: native or Java, single or batched, from mapped,
\* off-heap or heap bytes, after whatever the GPU did, every element of a product
\* is the sum over the row of weight times input, of this call's input and of no
\* other, although both native buffers still hold earlier calls.
ResultsAreDecoded ==
  pc = "returned" /\ IsMatrix(call) =>
    \A t \in 0..call.batch - 1, r \in 0..call.rows - 1 : IsSumOf(result[t][r], Reference(t, r))

\* fastai_streaming_kernels.cpp:21 promises the block_q4_0 of ggml and lines 83-86 name
\* its nibbles: the low ones are columns 0 to 15, the high ones columns 16 to 31, as
\* GgufDequantizer takes them.  So a product multiplies every input with the weight
\* that a look-up of the same row finds in that column.
ProductsMatchLookups ==
  pc = "returned" /\ IsMatrix(call) =>
    \A t \in 0..call.batch - 1, r \in 0..call.rows - 1 :
      IsSumOf(result[t][r],
              {<<Decoded(call.format, RowAddress(call, r), c), <<number, t, c>>>> :
                 c \in 0..call.cols - 1})

\* The dequantizer uses up a row: all values it reads (quants, scales, minima)
\* together are the stored bits, each of which belongs to one value, no quant
\* serves two columns, and the fields of each value lie side by side.
DecodingLosesNothing ==
  pc = "returned" /\ IsMatrix(call) =>
    LET weights == {Decoded(call.format, 0, c) : c \in 0..call.cols - 1}
        values == UNION {{w.quant} \cup w.scale \cup w.less : w \in weights}
    IN /\ Cardinality({w.quant : w \in weights}) = call.cols
       /\ \A v \in values : IsWhole(v, Cardinality(StoredBits(v)))
       /\ UNION {StoredBits(v) : v \in values} =
            (0..RowBytes(call.format, call.cols) - 1) \X (0..7)
       /\ Cardinality(UNION {{v} \X StoredBits(v) : v \in values}) =
            8 * RowBytes(call.format, call.cols)

\* Attention, native or Java: the score of a position is the whole dot product of
\* the head's query with the key of its group's KV head, and the output the whole
\* weighted sum of the values, every component once, whatever the head dimension
\* leaves over for the last steps of the loops.  (For heads in groups of one size;
\* which cell of the cache holds a position's vectors is PersistentKVCache.)
AttentionIsExact ==
  pc = "returned" /\ call.op = "attention" /\ call.heads % call.kvHeads = 0 =>
    \A h \in 0..call.heads - 1 :
      LET kvH == (h * call.kvHeads) \div call.heads
          cached(t, d) == (t * call.kvHeads + kvH) * call.headDim + d
      IN /\ \A t \in 0..call.pos :
              IsSumOf(result.scores[h][t],
                      {<<<<number, 0, h * call.headDim + d>>, cached(t, d)>> :
                         d \in 0..call.headDim - 1})
         /\ \A d \in 0..call.headDim - 1 :
              IsSumOf(result.out[h][d],
                      {<<<<h, t>>, cached(t, d)>> : t \in (0..call.pos) \ call.faint})

\* The elements of the K and of the V slice the native attention reads.
Reads(sum) == {sum[k][2] : k \in DOMAIN sum}
CacheReads(c) ==
  UNION ({Reads(HeadScores(c, h, "native", inBuf)[t]) : h \in KernelRows(c), t \in 0..c.pos}
         \cup {Reads(WeightedSum(c, h, d, Width.native)) :
                 h \in KernelRows(c), d \in 0..c.headDim - 1})

\* All fields of a weight: of its quant, its scales and its minimum.
Fields(w) == UNION ({w.quant} \cup w.scale \cup w.less)

\* Every query head has a KV head of its own, or shares it with its group.
WholeGroups(c) == c.heads =< c.kvHeads \/ c.heads % c.kvHeads = 0

\* Native code checks nothing.  It has room for what it reads and writes in the two
\* buffers, and of a matrix it reads the matrix only: quants, scales and minima.  The
\* slices of the cache are another matter, as max_tokens is never looked at: they are
\* kept to exactly as long as the position is in the context, and for heads without
\* whole groups (of which the last read the next position's) one position less.
KernelStaysInside ==
  pc = "kernel" =>
    /\ \A t \in 0..Batch(call) - 1 :
         /\ {t * InWidth(call) + i : i \in 0..InWidth(call) - 1} \subseteq DOMAIN inBuf
         /\ {t * OutWidth(call) + r : r \in 0..OutWidth(call) - 1} \subseteq DOMAIN outBuf
    /\ IsMatrix(call) =>
         \A r \in KernelRows(call), t \in 0..call.batch - 1 :
           LET sum == NativeRow(call.op, call.format, RowAddress(call, r), call.cols, t * call.cols)
           IN \A k \in DOMAIN sum :
                /\ sum[k][2] \in 0..Batch(call) * call.cols - 1
                /\ \A f \in Fields(sum[k][1]) :
                     f[1] - call.base \in 0..call.rows * RowBytes(call.format, call.cols) - 1
    /\ ~IsMatrix(call) =>
         (CacheReads(call) \subseteq 0..SegmentLength(call) - 1
            <=> call.pos + (IF WholeGroups(call) THEN 0 ELSE 1) < call.maxTokens)

\* When the GPU is handed a buffer it is large enough (4 MB of weights at most), and
\* it is one that was not freed unless the last allocation for that field failed.
GpuBuffersFit ==
  LET used == CASE pc = "upload" -> {"vecIn"} [] pc = "dispatch" -> Slots [] OTHER -> {}
  IN \A s \in used : /\ slot[s].capacity >= Needed(s)
                     /\ slot[s].buffer \in live \/ s \in failed

\* Every GPU buffer that exists is named by a field, also after failures, so close()
\* leaves none.
NoGpuLeak ==
  /\ live \subseteq {slot[s].buffer : s \in Slots}
  /\ pc = "closed" => live = {}
=============================================================================
