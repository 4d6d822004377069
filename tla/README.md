# A verification project for FastAIModel

TLA+ models of FastAIModel, their model-checking runs and machine-checked
proofs. The models are translated from the source; line numbers refer to the
commit beside this directory. `J/` stands for
`fastaimodel-streaming/src/main/java/fastaimodel/streaming/`.

FastAIModel runs language models from Java. Its core is the *streaming engine*
(`fastaimodel-streaming`): a GGUF file is cut into chunks of consecutive
layers, each chunk is memory-mapped, and every token passes through all chunks.
Two thin backends stand beside it: llama.cpp through JNI and the ONNX runtime.

## 1. Inventory

| Part | State | Operations | Interacts with |
|---|---|---|---|
| `FastAIStreamingModel` | `closed`, all parts below | constructor, `stream`, `close` | calls all others; calls the user's token callback, which may call back |
| `ChunkPipelineScheduler` | `cachedPointers`, its monitor | `executeTokenStep` (synchronized), `close` (not) | maps and unmaps through the registry, calls the engine |
| `NativeChunkMmap` (the registry) | `mappedBuffers`, `pointerToBuffer`, the channel | `mapChunkPointer`, `mapChunk`, `unmapPointer`, `close` (all synchronized) | OS mappings |
| `GgufTensorIndexer` | tensors, `layerMap` | `parse`, `createChunks` | read by the model and the engine |
| `PersistentKVCache` | two flat buffers | `storeKV`, `getK/V`, `getK/VSegment`, `reset`, `advanceToken(s)` | written and read by the engine |
| `StreamingTransformerEngine` | scratch arrays, batch workspace, GPU buffers, pool, file channel | `getEmbedding`, `computeLayer(Batch)`, `sampleNextToken`, `close` | reads weights through chunk pointers; submits rows to its pool |
| native kernels, `NativeGemvBackend` | thread-local native buffers | `gemv*`, `gemm*`, `computeAttention` | called by the engine |
| `GgufTokenizer` | vocabulary, merge ranks | `loadFromGguf`, `encode`, `decode` | called by `stream` |
| `DoubleBufferRing` | two slots | `acquire`, `release`, `close` | built and closed by the model, not used |
| `FastAIModel` + JNI, `FastAIOnnxModel` | native handle / session | `predict`, `close` / `embed`, `close` | llama.cpp, ONNX runtime |
| resolvers, configuration | - | look-ups | file system |

What is hard here, and what makes each part correct:

* **close() against stream().** `stream` tests `closed` once. `close` takes no
  lock of the scheduler, unmaps chunk by chunk, then closes the registry, then
  the engine; it may run beside passes of other threads, or inside the token
  callback of a call that then goes on. Correct: no view is read after it is
  unmapped; nothing stays mapped; chunks are mapped once; calls end.
* **The registry's list compares by content** (`ArrayList.remove(Object)` with
  `ByteBuffer.equals`). Correct: list, table and existing views agree.
* **Planning.** Tensors lie in any order in the file. Correct: slices cover
  their layers, every layer runs exactly once and in order, limits hold.
* **The KV cache is never reset**, is clamped to 2 GB, and locates cells by
  arithmetic that is checked on writing and not on reading. Correct: attention
  reads what this very call stored for that layer and position.
* **Splitting rows over workers**, with a pool that may close and tasks that
  may throw. Correct: no row twice, none missing, no worker left behind.
* **Scratch arrays of the engine** are shared by all threads; sampling and
  embedding look-ups use them outside the monitor.
* **Kernels.** A product has up to three implementations (batched and single, native
  and Java, over mapped or copied bytes), each with its own unpacking of packed
  bits and its own order of additions, and each passes through buffers that are
  grown, reused and never cleared. Correct: the path makes no difference.
* **GPU buffers** are freed before their successor exists. Correct: one that is
  handed to the GPU is large enough and alive; none is lost.
* **The GGUF readers** must agree with each other and end at the end of file:
  one reads field by field, the other through a buffer that runs ahead of it.
* **The llama.cpp object** has one handle, one context and no lock. The context is never
  cleared and fills up over the predictions, a callback may predict or close,
  and every call into llama.cpp may fail. Correct: sampled tokens continue the
  call's own text, nothing freed is used, nothing is left allocated.

`PROJECT.json` lists the hazards line by line with the properties that guard
against each, and the ones no property covers yet.

## 2. Modules

```
WeightViews          what the pipeline promises about its views (abstract)
   ^ implemented by
StreamingModel       stream(), close(), scheduler, pointer cache, engine's life
   | INSTANCE (Mmap)
NativeChunkMmap      the registry of mapped slices

ChunkPlanner         createChunks
PersistentKVCache    the cache under the passes of several calls
EngineScratch        the engine's shared arrays and workspace under several calls
RowDispatch          rows of a matrix over pool tasks or native threads

BlockKernels         which stored bits meet which input, for every kernel
   ^ EXTENDS
KernelCalls          the path of a product or attention, native and GPU buffers

PlainReader          reading a header without a buffer (abstract)
   ^ implemented by
BufferedReader       the tokenizer's reader

LlamaModel           the llama.cpp backend: handle, predictions, context

StreamingModel_proofs      ChunkPlanner_proofs    PersistentKVCache_proofs
EngineScratch_proofs       RowDispatch_proofs     KernelCalls_proofs
BufferedReader_proofs      LlamaModel_proofs
```

`MC*.tla` only give constants their values. Operators whose comment describes a
plausible mistake ("without its limit", "as if ...") are not part of any
specification: they are the variants used to confirm that each property
notices such a mistake.

**NativeChunkMmap** (`J/io/NativeChunkMmap.java`). A buffer is the number of a
successful `map`; `chunkOf` remembers which chunk it maps, `live` which views
exist, `listed` is `mappedBuffers`, `registered` is `pointerToBuffer`. All
methods are synchronized and call nothing outside, so each is one action.
`FirstEqual` is `remove`'s search by content: `Span` and `Data` of a chunk stand
for length and bytes. `UnmapReadsDead` says when that search reads an unmapped
buffer.

**StreamingModel** (`J/FastAIStreamingModel.java`,
`J/pipeline/ChunkPipelineScheduler.java`). Each thread has a program counter;
an action is what happens between two points another thread can observe. Reading
a cached pointer (`UseCached`) and computing on it (`Compute`) are two actions,
as are mapping a chunk and storing its pointer. The lookup, the mapping,
the layers, the sampling and the callback may throw at any time. A layer also does so with the
engine open, when `join` rethrows what a task has thrown, and
`ComputeThrows` may then leave tasks of the dispatch behind
(`StreamingTransformerEngine.java:791-793`): `stragglers` are the buffers they still read,
after the call has ended. A task left behind by the projection (`SampleThrows`) reads a
copy of the weights on the heap and is not followed. `close` is `BeginClose` (compare-and-set), one `Unmap` per
slot, `CloseMmap`, `CloseEngine`; it starts between calls or inside a token
callback, and continues there. `crash` is the end of the process, and names who read an unmapped
view: a pass, the comparisons of `close`, or a task left behind. `exclusive` is the
behaviour of the caller, chosen in `Init`: whether it closes only while no other thread
streams.
Constants choose the deployment: `HasEmbedding` (the file has
`token_embd.weight`), `Kernels` (whether native kernels, the pool, or either of them
may serve a product; in a model of mixed formats both do).

**ChunkPlanner** (`J/io/GgufTensorIndexer.java:201-266`). One action per round
of the loop over `layerMap`: `Extend` or `Cut`, then `Finish`. A layer is the
first and the last byte of its tensors, because the spans depend on nothing
else; every placement is an initial state.

**PersistentKVCache** (`J/buffer/PersistentKVCache.java` and the attention of
`J/compute/StreamingTransformerEngine.java`). The cache is an array of cells; a
cell holds the call, layer and position it was computed for; `beside` remembers which
calls have run beside a thread's call. A pass stores the
positions of the pass in a layer and then attends to all earlier ones. Three
ways to read: the native kernel from the start of the layer's slice (bounded by
nothing), the Java loop (index cast to int, bounded by the buffer and by the
score buffer), the batched Java loop of the prompt.

**EngineScratch** (`J/compute/StreamingTransformerEngine.java`). An array is the
stamp of the turn (half a layer, a sampling, a look-up) that wrote it last. The
arithmetic of a turn is a table of operations, each with the arrays it reads and
writes, in the order of the code; `Operate` runs the next one. The engine's own
arrays and every workspace made are separate sets; a prompt pass computes in the
workspace it was handed before it took the monitor.

**RowDispatch** (`dispatchFusedGemv`, `dispatchFusedGemm`, `parallel_for`). The
caller splits, submits, joins in order; workers compute rows one at a time. The
two users differ in two numbers and in what can fail; a behaviour has one of them.

**BlockKernels** (`fastai_streaming_kernels.cpp`, the fused kernels of
`J/compute/StreamingTransformerEngine.java`, `GgufDequantizer`). Operators only.
A weight is the set of bit fields it is made of, a product is a weight and the
index of an input float, a sum is the sequence of its products in the order
they are added; AVX2 registers are sequences of lanes. So an index that is off
by one, a nibble taken twice or a lane dropped in a horizontal sum changes the
result, and rounding does not. Sequences are given by index (`Joined` for an array
of equal pieces, `Ascending` for a set of positions in order) and never by recursion,
which is what lets `KernelCalls_proofs` speak about rows of any length. The kernels of a format share their loop where the code
repeats it (`DotOf`, `GemmOf`, `FusedDotBatch`). `KernelColumn` records a
fact about `Q4_0`: see section 3.

**KernelCalls** (`dispatchFusedGemv`, `dispatchFusedGemm`, `NativeGemvBackend`).
One thread and a sequence of calls. A call tries the GPU (three `Ensure` steps,
upload, dispatch, each of which may throw and then falls through), then the
native kernel through the thread-local buffers, then Java. Buffer contents carry
the number of the call that wrote them, so a float left behind by an earlier
call is told from the call's own. A heap array refused by the foreign function
interface falls back after the buffers were already filled. An attention call carries
the length of the context it is handed a slice for (`SegmentLength`), the position is
not bounded by it, and the KV heads need not divide the heads: the native kernel computes its
addresses from the position alone, while the Java loops may throw (`AttentionThrows`).

**PlainReader, BufferedReader** (`GgufTensorIndexer`, `FastGgufReader`). A byte is its
offset in the file. `Requests` is what the parser asks a reader for; the
buffered reader answers with one action per `channel.read` (which may be short) and
the steps between two reads. `pos`, the reader's own place, is derived from channel
and buffer, and is the refinement mapping.

**LlamaModel** (`fastaimodel.cpp`, `FastAIModel.java`). Each thread has a stack of
calls, since a callback may call the object again; one action is one call into
llama.cpp or the Java code between two native calls. What `llama.h` leaves
undefined (a freed or shared context, logits that do not exist) is a `fault`, after
which nothing is said. `misused` remembers that the program overlapped two
threads' calls, or closed the object in a callback.

**WeightViews.** Abstract: a chunk is fresh, mapped or released; released only
after closing began; nothing is mapped once the views are shut down.
`StreamingModel!Views` maps buffers to it.

## 3. Runs

Bounds are chosen so that every action fires (all of them do) and so that the
smallest situation in which two actors can disturb each other occurs with one
to spare.

| Run | Bounds | Shows |
|---|---|---|
| `stream_close_races` | 3 threads, 2 chunks, 2 tokens, 1 call each, native kernels and a pool that may refuse | mapped once, registry exact, at most one late piece, passes exclusive, implements `WeightViews`; calls end, close completes; with exclusive closing no pass and no `close` reads an unmapped view |
| `chunk_planner` | layers {0,1,3,4}, offsets 0..4, limit 2 | all placements: coverage, order, limits, greedy packing |
| `kv_cache` | 2 threads, 3 calls, 2 layers, context 3, up to 5 positions, native or Java attention, room for 5 or 6 cells | calls without overlap attend to their own entries; within the context no call reads what a call has left that ended before it began |
| `engine_scratch` | 2 threads, 2 calls, 2 layers, prompts of 1 or 2 rows, workspaces from 1 row on | lone calls read only what the turn wrote; passes do so in any case, `normX` excepted; workspaces fit |
| `kernel_calls` | three calls in a row out of 17 shapes: every format, one and two blocks, 1-3 rows, batches of 1 and 2, mapped, off-heap and heap bytes, heads of 4, 7, 8, 12 and 30 floats, inside the context and past it, with and without whole groups; with and without library and GPU, any allocation may fail | every path gives the sum of decoded weights times this call's input; attention complete; kernels stay in the buffers and matrices they are handed, and in the slices of the cache exactly up to the end of the context; GPU buffers fit and do not leak |
| `gguf_reader` | three headers with every kind of item, a buffer of 10 bytes, files that end at each byte from 0 to 105, reads of every length | implements `PlainReader`; no byte lost or doubled; parses end unless the file ends in a string |
| `llama_model` | 2 threads, 3 predictions, 2 nested, prompts of 0, 1 and 3 tokens in chunks of 2, context 6, 2 attempts to open | faults only by misuse, tokens continue the call's own text, no leaks, memory within the context |
| `row_dispatch` | up to 8 rows, 4 cores; pool that closes with tasks that throw, or native threads | one worker per row, complete results, tasks fit the cores, ends |

Three threads are one more than any of the races needs; two chunks give a
first and a last round to every loop over chunks; two tokens let a call
be overtaken before, in and after a generation step. Four layers with a gap give
chunks of one, two and more layers and a first, inner and last cut. The code's
16 or 32 rows to compute inline scale to 2 and 4: what matters is to be just
below, at and above the threshold, and row counts that leave the last part
full, short or empty. For native threads the number of cores stays below the number
of rows that are split, as in the code (16 against 33 or more).

In `kernel_calls` rows have one and two blocks, so that a stride is used once and
repeated; the initial buffers are smaller than some calls and larger than
others; the GPU's limit of 80 bytes lies between the sizes of the matrices; 30
leaves a head with a step of 16, one of 8 and single steps, 12 and 7 leave other
rests. Five attention calls are one in the context, one behind its end, and heads the KV
heads do not divide in the context, before its end and at it. The third call is one of two products that use the GPU, after any two
others. The buffer of `gguf_reader` holds a number (8 bytes, the
least for which `ensure` can succeed) and little more: strings of 0, 3, 10, 14 and 23
bytes are empty, shorter than, as long as and longer than it. In `llama_model` a
context of 6 can be filled, exactly or not quite, by two predictions; two threads are enough for any overlap, and the third prediction
can follow a nested one. Threads are symmetric there.

Deadlock is checked in the runs of the pipeline (`Finished` is the only way to
stop); the planner, the cache runs (calls are bounded), the dispatch, the kernel calls,
the readers and the llama object (which ends in a fault, or closed) end by design.

Fairness (`stream_close_races`, `row_dispatch`, `gguf_reader`): weak fairness of each thread
inside a call, which is the JVM scheduling runnable threads and a user callback
that returns; nothing obliges anyone to call. Weak fairness is enough although
the monitor is not fair: passes are finite and calls bounded. In `row_dispatch`
the pool runs what it accepted (`shutdown()`, not `shutdownNow()`). The
parser of `gguf_reader` is one thread that waits for nothing but a local file.

### Disagreements between code and documents

| Run | What happens |
|---|---|
| `use_after_unmap` | `close()` beside a running pass unmaps the chunk the pass is about to read (`ChunkPipelineScheduler.java:58`) |
| `q4_0_layout` | the `Q4_0` kernels multiply each input with the weight of another column than a look-up finds there (`fastai_streaming_kernels.cpp:89`) |
| `kv_context_overrun` | past the context attention reads the next layer's cells: the Java loops through `getK` and `getV`, which compare nothing with `maxTokens`, and the native kernel alike (`PersistentKVCache.java:67`) |
| `chunk_cap` | a single layer above the 1.5 GB cap becomes a chunk above the cap (`GgufTensorIndexer.java:227`) |

The same facts bound what does hold. With exclusive closing neither a pass nor `close`
reads an unmapped view (`CallsReadMapped`). A task can: when `join` rethrows the failure
of a part, the parts behind it still run, `stream` throws, and a `close` that follows
unmaps the chunk under them. Without products that need the pool there is no such task
(`ExclusiveCloseWithoutPool`). A call within the context that no other call overlaps is
never wrong (`AttentionReadsOwn`); with an overlap each call overwrites the entries of the
other, since both count from position 0 in the one cache, but what earlier calls left
is not read (`EndedCallsAreNotRead`). Only single layers exceed the cap
(`OnlySingleLayersExceed`).

Seen while modelling, without a run of its own: sampling and embedding look-ups use
`normX`, `logitsBuf`, `topScores` and `embdRowRaw` without the monitor, so two calls at
once can disturb each other's tokens (no document promises otherwise; `PassReadsOwn`
states what the monitor does protect). `mappedBuffers.remove` compares by
content, so with slices of equal bytes (a sparse test file) it takes another buffer's
entry, and then a view mapped beside `close()` can stay (`NativeChunkMmap.java:68`;
this is why some theorems assume `DistinctContents`). All chunks stay mapped, where
the demo states a footprint of two (`StreamingDemo.java:155`).

Kernels:
* The `Q4_0` kernels, native and Java, take a byte's nibbles for neighbouring columns
  `2i` and `2i+1`; `GgufDequantizer.java:71-77`, and the comments beside the
  kernel, take them for columns `i` and `i+16` (`q4_0_layout`). Products and look-ups of one `Q4_0` tensor (a tied embedding) thus use
  different weights. `ResultsAreDecoded` is stated with `KernelColumn`, which is
  exactly this permutation: up to it all paths agree.
* The result of the GPU attempt is not used, its weight buffer is capped at 4 MB
  (`StreamingTransformerEngine.java:705`) though the kernel is told all rows, and the
  weights are never uploaded. A failed allocation leaves the field naming a
  freed buffer; `GpuBuffersFit` allows that only after such a failure.
* Native attention never looks at `max_tokens`. It leaves its slice of the cache when the
  position is behind the context, and one position earlier when the KV heads do not divide
  the heads, since the last heads then read the next position's vectors.
  `KernelStaysInside` states both directions.

Readers:
* When the file ends inside a string, `FastGgufReader.readString` goes round
  forever; the plain reader returns a string padded with zeros. `RefinesPlainReader`
  holds because not to go on is allowed; `ParseEndsUnlessStringIsCut`
  names the exception.
* Arrays whose elements have no known scalar type are skipped as nothing by
  one reader and as one byte per element by the other. The headers of the run have
  no such array.

llama.cpp backend:
* The context is never cleared: a prediction continues the text of those before
  it, and once it is full every later one ends without a word. A failure in the
  middle of a prompt leaves the chunks before it in the context. (A chunk that fails leaves
  nothing of itself: `llama.h:950-957` keeps the ubatches processed before a fatal error, but
  a chunk of 512 tokens is a single ubatch, as `n_ubatch` is 2048, `fastaimodel.cpp:117`.)
* An empty prompt samples from the logits of the call before, or from none.
* `nativeFree` calls `llama_backend_free` for each object, which
  `llama.h:456` reserves for the end of the program; a constructor that throws
  does not give its initialization back (`NothingLeaks` counts both).

## 4. Proofs

TLAPS proves the following for every value of the constants that satisfies the
named assumptions. Every invariant a passing run checks is stated by a theorem, and so
is each of the two refinements. Every module `M_proofs` follows one plan: an
inductive invariant whose parts have a name each, `Init` implies it, one lemma per part
(or per action) for the steps, and the theorems about `Spec` last.

### Assumptions

`ModelAssumption`, `MmapAssumption`, `PlannerAssumption`, `DispatchAssumption`,
`CacheAssumption`, `ScratchAssumption`, `LlamaAssumption` give the ranges of the
parameters, and say nothing about behaviour. Three say more:

* `LayerAssumption` (`PersistentKVCache`): the first layer behind the buffer is still
  reached before the `int` index of the Java attention wraps. The cache is clamped to
  2 GB, which is half of that range, and `FastAIStreamingModel.java:108` limits a layer
  to 2048 positions, so that a layer would fill the other half only with an embedding of
  half a million numbers. The assumption is needed: the attempt to prove `AttentionReadsOwn`
  without it led to a counterexample (three layers of 7 positions, a buffer of three cells,
  a wrap at 6), in which the index of a whole layer that was never stored wraps back
  into the buffer instead of throwing.
* `ReaderAssumption` (`BufferedReader`): headers are sequences of `Items`, which
  are the kinds of entry both readers know; nested arrays and arrays of unknown
  element types, which the two skip differently, are left out (section 3). The buffer holds
  at least the eight bytes of the largest number.
* `KernelAssumption` (`KernelCalls`): a call is a member of `Matrices` or `Heads`:
  rows of whole blocks of their format, as every GGUF tensor of these
  formats has, and heads of any numbers, at any position.

Some theorems have a hypothesis of their own (`DistinctContents`, `HasEmbedding`, no
products for the pool), explained where they occur. Each of them holds in a run.

### The pipeline: `StreamingModel_proofs`

* `TypeCorrect`: types and the bound of the generation loop.
* `PassesAreExclusive`: from `MonitorInv`, a thread inside a pass owns the
  monitor; a throw gives it up.
* `ChunksAreMappedOnce`: from `PassInv`/`CacheInv`: a buffer exists for a chunk
  exactly when its slot is filled or the thread in the pass is about to fill it.
  Exclusion of passes is needed for it.
* `RegistryIsExact`, `NoViewIsLeft`: assume `DistinctContents` (no two slices of equal size and
  bytes). Then `remove` removes what it was asked to (`RegistryStaysExact`), so
  the list equals the set of views until the registry is closed.
* `OneLatePieceAtMost`: assumes `HasEmbedding`; `LateInv` relates the late
  pieces of a call to where it is.
* `ExclusiveCloseIsSafe`, `ExclusiveCloseLeavesNoView`: for a caller that closes
  exclusively, with `HasEmbedding` and nothing about contents. `ExclusiveInv`: before a close
  begins every filled slot names a live view; from then until the engine
  is closed no thread is in a pass; afterwards no call gets past its lookup. The
  first speaks of passes and of `close`, not of tasks that a failed dispatch left behind, which
  nothing waits for.
* `ExclusiveCloseWithoutPool`: without products for the pool there are no such tasks
  (`TasklessInv`), and then nobody reads an unmapped view.
* `PipelineImplementsViews`, under `DistinctContents`: initial
  states map to initial states, every step to a step of `WeightViews` or a stutter.

### The planner: `ChunkPlanner_proofs`

`PlannerTypeCorrect`, `SlicesCoverTheirLayers`,
`LayersRunOnce`, `BudgetExceededBySingleLayers`, `PackingIsGreedy`, for any finite
or infinite set of layer numbers, any offsets and any limits. The invariant
`PlanInv` adds to the properties what the loop keeps: the layers taken so far are
those of the finished chunks and of the open one, in order (`PartitionInv`), and
the open chunk is non-empty once the loop has begun and exceeds the limit only if it has
one layer (`OpenChunkInv`).

### The cache: `PersistentKVCache_proofs`

`CacheTypes`, `EndedCallsStayUnread`, `LoneCallAttendsToItself`. That attention reads
what the call or one beside it stored is not inductive. `HeldInv` adds what is in the cache
between the passes of a call: entries of the call, or of those that have run `beside` it, for every
position before the pass in all layers, and for those of the pass in the layers already
stored. A store of another call puts an entry of a call beside it there, which is why
the history only grows; and it must hit that cell with that layer and
position, which is the arithmetic of `Index`: different layers and positions
below `MaxTokens` have different cells. A lone call is one with nobody beside it. `NoWrapInv` says that no pass
reaches a layer whose offsets wrap, because a read in a layer before it has
thrown; this step needs `LayerAssumption`.

### The engine's arrays: `EngineScratch_proofs`

`ScratchTypes`, `LoneCallIsClean`, `PassesAreClean`, `WorkspaceHasRoom`. `StampInv`: an
array that a turn has written, and that nobody else may write, still bears the
stamp of the turn. Who may write it is `Guarded`: nobody when the call is alone, and
for a pass nobody outside of the monitor, `normX` of the engine's own arrays
excepted. The other half is a fact about the programs: each operation reads only what
an earlier operation of its turn wrote (`EmbedReadsWritten` and its companions).
`RoomInv` carries the workspace's size from where it is chosen, before the monitor,
to where it is used.

### Row dispatch: `RowDispatch_proofs`

`RowsAreSharedOut`, `ResultIsComplete`, `TasksFitTheCores`, for every number of rows
and cores and every pair of thresholds. `WritesInv` gives the number of
writes of each row exactly (one behind the progress of its task, else none), which
together with the disjoint parts (`TaskInv`), the empty parts being the last
(`SubmitInv`) and the order of joining (`JoinInv`) is inductive. The arithmetic is
that of division rounded up: the parts cover the rows, and the tasks are no more than the
cores.

### Kernels and buffers: `KernelCalls_proofs`

For every sequence of calls, and every number of rows, blocks, batches, heads,
positions and threads:

* `KernelTypes`, `GpuCallsHaveRoom`, `GpuBuffersAreFreed` from `KernelInv`: the
  buffers take the call that is about to use them (`BuffersInv`), each GPU field names a
  buffer that exists, or none, or its last allocation failed, no two name the same and
  no buffer is without a name (`FieldsInv`), and those of the call so far
  are large enough (`GivenInv`).
* `ProductsAreDecoded` from `SumsInv`, which adds that the input
  buffer begins with this call's input once the call has been prepared (`InputInv`):
  a kernel must be shown not to read what an earlier call left
  behind. The rest is about the operators of `BlockKernels`. A
  sequence `Adds` a set of columns when it lists the term of each of them once; lanes,
  unrolled steps, blocks and the rest of a row each add a part, the parts are
  disjoint, and together they are the row. A concatenation is given by index,
  so that no induction is needed.
* `AttentionIsWhole` from `AttentionInv`, likewise, for the steps of 16, 8 and 1
  of a dot product, the weighted sum of the values, and the head's group; for heads in groups
  of one size.
* `KernelIsInside` from `KernelInv`: a sum of terms of a row reads only bytes of that row. For
  attention it is an equivalence, for every number of heads and every position: the
  largest element read is compared with the length of the slice, so it says when the
  slice is left as well as when it is not.
* `EveryBitIsDecoded`: each stored bit of a row belongs to exactly one of the values
  decoded from it. `Owner` names, for each format, the value a bit of a
  block belongs to; for each format two facts are shown (`UsedUp`): the bits of
  a decoded value are owned by it, and every bit's owner is decoded. Rows follow by
  counting: a bijection between columns and quants (none is taken twice), and one
  between bits and the bits of the values (none is left).

### Readers: `BufferedReader_proofs`

`BufferKeepsItsPlace` and the refinement `ReadersAgree`. `PlacesInv` names the bytes in
the buffer and in the string under way one by one: they are the ones just before the
channel's position. `InFileInv`: a channel beyond the end of the file (a skip may lead
there) leaves an empty buffer. `WorkInv`: what `ensure` still wants belongs to the request in
progress. With them each read, however short, maps to a step of `PlainReader` or
to a stutter.

### llama.cpp: `LlamaModel_proofs`

`LlamaTypes`, `FaultsOnlyByMisuse`, `NothingIsLeaked`, `TextContinues`, for any number
of threads and nested calls of any depth. `SamplerInv` counts: there are as many
samplers as stack slots between the making of one and its freeing. `LiveInv`: the
objects exist from the constructor until the first `nativeFree`. `UseInv`: without
misuse one thread is in a call, and its handle is set. `TextInv`: the memory ends with what
the innermost call has fed, behind the text it found; and the logits are those
of its last token.

### Only model-checked

Liveness (`CallsEnd`, `CloseCompletes`, `DispatchEnds`, `ParseEndsUnlessStringIsCut`): it
rests on fairness and ENABLED, which the prover does not handle.

## 5. Not modelled

Floating-point arithmetic, prompt templates, timing output, the builder, value
objects and file-system look-ups; demos, benchmarks, vendored headers and
binaries. Memory is sequentially consistent: the unsynchronized reads of
`cachedPointers` in `close()` may see a store late, which has the outcomes of a
store that happens late. `currentTokenIndex` of the cache is read by
nobody but a getter and is left out. I/O errors inside `close()` are left out.

Per module:
* `BlockKernels`, `KernelCalls`: rounding, and the values of softmax (the `faint` positions
  stand for those whose share is negligible); the half-precision
  conversion; `int` overflow of `batchSize * inCols`, far outside of real
  shapes; which values attention computes from behind its slice, or for heads without whole
  groups (only where it reads). How rows are given
  to threads is `RowDispatch`; a GPU call beside `close()` is not covered.
* `StreamingModel`: which matrices of a mixed model the pool serves, and how many tasks of a
  dispatch are left behind (a buffer counts as read until the last is done). Slices
  of equal bytes are in no run; `ExclusiveCloseIsSafe`, `ExclusiveCloseLeavesNoView` and
  `ChunksAreMappedOnce` hold for them too.
* `EngineScratch`: an operation is one step, so what tasks left behind by a failed dispatch
  still write into the arrays is left out.
* `PlainReader`, `BufferedReader`: negative lengths and other malformed headers
  (a file may only end early), nested arrays, and what the parsers make of the values.
* `LlamaModel`: loading the libraries, `nativeSetVerbose`, null arguments, the
  `INT32_MIN` of `llama_tokenize`, and a callback's exception that stays pending while the
  loop goes on calling JNI, which JNI leaves undefined.

Not modelled at all: the tokenizer's merging, its greedy fallback and its byte-unicode table
(string algorithms of one thread, better tested on real vocabularies), the
sampler's choice of a token (floating point and a random draw), the ONNX backend
(one call into another library's session), the resolvers, and `DoubleBufferRing`,
which the model builds and closes but nothing uses.

Most lines of C and C++ in the repository are the vendored headers of llama.cpp and
ggml (`src/native/llama`): declarations of other people's functions, of which the code
here calls about twenty. They hold no behaviour to model, so the models cover
nearly all of the two C++ files of the project and nothing of these headers.

## 6. Plan

Done: the pipeline, the planner, the cache, scratch arrays and dispatch; kernels
with their buffers, the readers, the llama.cpp backend; a theorem for each of
their invariants. What remains, in the order of importance:

1. The writes of tasks that outlive their dispatch (`StreamingTransformerEngine.java:792`)
   beside the next operation's use of the scratch arrays. (What they read is in
   `StreamingModel`.)
2. Short reads of embedding rows, and closing when a step of `close()` throws.
