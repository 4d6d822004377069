--------------------------- MODULE StreamingModel ---------------------------
(***************************************************************************)
(* FastAIStreamingModel with its ChunkPipelineScheduler: threads that call *)
(* stream() and close() on one model, the monitor of the scheduler, the    *)
(* cache of chunk pointers, the registry of mapped slices, and the file    *)
(* channel and thread pool of the compute engine.                          *)
(*                                                                         *)
(* One action is what a thread does between two points where another       *)
(* thread can tell the difference: taking or releasing the monitor, one    *)
(* synchronized call into the registry, one access to the pointer cache,   *)
(* one use of the engine.  Slot reads by close() are not synchronized with *)
(* the stores of executeTokenStep; a store that becomes visible late has   *)
(* the same outcomes as one that happens late, which the interleaving      *)
(* of Store and Unmap covers.                                              *)
(***************************************************************************)
EXTENDS Naturals, Sequences

CONSTANTS
  Threads,         \* the caller's threads
  NoThread,        \* the value of an unowned monitor
  NumChunks, Span, Data, MaxMapBytes,   \* see NativeChunkMmap
  MaxTokens,       \* the maxTokens argument of stream()
  MaxCalls,        \* bound: stream() calls of one thread
  HasEmbedding,    \* the model file has token_embd.weight
  Kernels          \* what serves a gemv of the model: "native", "pool", or either

Chunks == 1..NumChunks

ASSUME ModelAssumption ==
  /\ NoThread \notin Threads
  /\ NumChunks \in Nat \ {0}
  /\ Span \in [Chunks -> Nat]
  /\ Data \in [Chunks -> Nat]
  /\ MaxMapBytes \in Nat
  /\ MaxTokens \in Nat
  /\ MaxCalls \in Nat
  /\ HasEmbedding \in BOOLEAN
  /\ Kernels \subseteq {"native", "pool"}

VARIABLES
  chunkOf, live, listed, registered, mapOpen,   \* see NativeChunkMmap
  cachedPointers,  \* [Chunks -> buffer number, 0 for null]
  monitor,         \* owner of the scheduler's monitor
  closed,          \* FastAIStreamingModel.closed
  engineOpen,      \* the engine's channel is open and its pool accepts tasks
  stragglers,      \* buffers that tasks still read whose dispatch has thrown
  crash,           \* whose read of unmapped memory has killed the process
  exclusive,       \* the caller closes only while no other thread is in stream()
  pc,              \* where each thread is
  chunk,           \* loop index of executeTokenStep or of scheduler.close()
  ptr,             \* local pointer of executeTokenStep
  generated,       \* generatedCount of the running call
  late,            \* pieces the running call sampled after the engine closed
  calls,           \* stream() calls the thread may still make
  resume           \* where the thread that closes continues afterwards

Mmap == INSTANCE NativeChunkMmap

mmapVars == <<chunkOf, live, listed, registered, mapOpen>>
sharedVars == <<cachedPointers, monitor, closed, engineOpen, stragglers, crash, exclusive>>
localVars == <<pc, chunk, ptr, generated, late, calls, resume>>
vars == <<mmapVars, sharedVars, localVars>>

Init ==
  /\ Mmap!MmapInit
  /\ cachedPointers = [c \in Chunks |-> 0]
  /\ monitor = NoThread
  /\ closed = FALSE
  /\ engineOpen = TRUE
  /\ stragglers = {}
  /\ crash = "none"
  /\ exclusive \in BOOLEAN
  /\ pc = [t \in Threads |-> "idle"]
  /\ chunk = [t \in Threads |-> 1]
  /\ ptr = [t \in Threads |-> 0]
  /\ generated = [t \in Threads |-> 0]
  /\ late = [t \in Threads |-> 0]
  /\ calls = [t \in Threads |-> MaxCalls]
  /\ resume = [t \in Threads |-> "idle"]

Goto(t, label) == pc' = [pc EXCEPT ![t] = label]

-----------------------------------------------------------------------------
(* stream(): entry, embedding lookup, the monitor of executeTokenStep.      *)

\* The only check of the closed flag is the one on entry.
Start(t) ==
  /\ pc[t] = "idle"
  /\ calls[t] > 0
  /\ calls' = [calls EXCEPT ![t] = @ - 1]
  /\ Goto(t, IF closed THEN "idle" ELSE "embed")
  /\ UNCHANGED <<mmapVars, sharedVars, chunk, ptr, generated, late, resume>>

\* The locals of a call end with it (the next one starts with none).
EndCall(t) ==
  /\ Goto(t, "idle")
  /\ chunk' = [chunk EXCEPT ![t] = 1]
  /\ ptr' = [ptr EXCEPT ![t] = 0]
  /\ generated' = [generated EXCEPT ![t] = 0]
  /\ late' = [late EXCEPT ![t] = 0]
  /\ UNCHANGED <<calls, resume>>

\* A lock that no finally block gives up.
ThrowKeepsMonitor(t) == EndCall(t) /\ UNCHANGED <<mmapVars, sharedVars>>

\* An exception leaves stream(); a synchronized block gives up its monitor.
\* Nobody waits for the tasks of a dispatch that has thrown.
ThrowLeaving(t, left) ==
  /\ EndCall(t)
  /\ monitor' = IF monitor = t THEN NoThread ELSE monitor
  /\ stragglers' = stragglers \cup left
  /\ UNCHANGED <<mmapVars, cachedPointers, closed, engineOpen, crash, exclusive>>

Throw(t) == ThrowLeaving(t, {})

\* As if embeddings came from memory.
NoEmbeddingFails == FALSE

\* getEmbedding reads the row of a token from the engine's channel.
EmbeddingFails == HasEmbedding /\ ~engineOpen

Embed(t) ==
  /\ pc[t] = "embed"
  /\ ~EmbeddingFails
  /\ Goto(t, "enter")
  /\ UNCHANGED <<mmapVars, sharedVars, chunk, ptr, generated, late, calls, resume>>

\* The channel is closed, or the read fails.
EmbedThrows(t) ==
  /\ pc[t] = "embed"
  /\ HasEmbedding
  /\ Throw(t)

\* executeTokenStep without "synchronized".
EnterUnsynchronized(t) ==
  /\ pc[t] = "enter"
  /\ monitor' = t
  /\ chunk' = [chunk EXCEPT ![t] = 1]
  /\ Goto(t, "resolve")
  /\ UNCHANGED <<mmapVars, cachedPointers, closed, engineOpen, stragglers, crash, exclusive,
                 ptr, generated, late, calls, resume>>

Enter(t) ==
  /\ pc[t] = "enter"
  /\ monitor = NoThread
  /\ monitor' = t
  /\ chunk' = [chunk EXCEPT ![t] = 1]
  /\ Goto(t, "resolve")
  /\ UNCHANGED <<mmapVars, cachedPointers, closed, engineOpen, stragglers, crash, exclusive,
                 ptr, generated, late, calls, resume>>

-----------------------------------------------------------------------------
(* executeTokenStep: one pass over the chunks.                              *)

UseCached(t) ==
  /\ pc[t] = "resolve"
  /\ cachedPointers[chunk[t]] # 0
  /\ ptr' = [ptr EXCEPT ![t] = cachedPointers[chunk[t]]]
  /\ Goto(t, "compute")
  /\ UNCHANGED <<mmapVars, sharedVars, chunk, generated, late, calls, resume>>

MapFirst(t) ==
  /\ pc[t] = "resolve"
  /\ cachedPointers[chunk[t]] = 0
  /\ Mmap!MapChunkPointer(chunk[t])
  /\ ptr' = [ptr EXCEPT ![t] = Len(chunkOf')]
  /\ Goto(t, "store")
  /\ UNCHANGED <<sharedVars, chunk, generated, late, calls, resume>>

\* mapChunkPointer throws: slice too large, channel closed, or the OS refuses.
MapThrows(t) ==
  /\ pc[t] = "resolve"
  /\ cachedPointers[chunk[t]] = 0
  /\ Throw(t)

\* The pointer is used but not kept.
StoreForgotten(t) ==
  /\ pc[t] = "store"
  /\ Goto(t, "compute")
  /\ UNCHANGED <<mmapVars, sharedVars, chunk, ptr, generated, late, calls, resume>>

Store(t) ==
  /\ pc[t] = "store"
  /\ cachedPointers' = [cachedPointers EXCEPT ![chunk[t]] = ptr[t]]
  /\ Goto(t, "compute")
  /\ UNCHANGED <<mmapVars, monitor, closed, engineOpen, stragglers, crash, exclusive,
                 chunk, ptr, generated, late, calls, resume>>

\* Matrices of a format without a native kernel, or all of them without the
\* library, are computed by the pool, which refuses tasks once it is shut down.
\* Which matrices of a mixed model these are is not followed.
Served == "native" \in Kernels \/ engineOpen

\* The layers of the chunk read their weights through the pointer.
Compute(t) ==
  /\ pc[t] = "compute"
  /\ Served
  /\ ptr[t] \in live
  /\ IF chunk[t] < NumChunks
     THEN /\ chunk' = [chunk EXCEPT ![t] = @ + 1]
          /\ Goto(t, "resolve")
          /\ UNCHANGED monitor
     ELSE /\ monitor' = NoThread
          /\ Goto(t, "sample")
          /\ chunk' = [chunk EXCEPT ![t] = 1]
  /\ ptr' = [ptr EXCEPT ![t] = 0]
  /\ UNCHANGED <<mmapVars, cachedPointers, closed, engineOpen, stragglers, crash, exclusive,
                 generated, late, calls, resume>>

\* The tasks that a failed layer can leave behind in the pool: those submitted
\* before one was refused, and those behind the first whose join() throws.
LeftBehind(t) == IF "pool" \in Kernels THEN {{}, {ptr[t]}} ELSE {{}}

\* A layer fails: the pool refuses a task, join() rethrows what a task has
\* thrown, or an allocation fails; the engine may be open.
ComputeThrows(t) ==
  /\ pc[t] = "compute"
  /\ \E left \in LeftBehind(t) : ThrowLeaving(t, left)

\* Reading the weights of a view that is gone ends the process.
Crash(culprit) ==
  /\ crash' = culprit
  /\ UNCHANGED <<mmapVars, cachedPointers, monitor, closed, engineOpen, stragglers,
                 exclusive, localVars>>

ComputeCrashes(t) ==
  /\ pc[t] = "compute"
  /\ Served
  /\ ptr[t] \notin live
  /\ Crash("pass")

\* The last task left behind on a view is done: a pool that is shut down still
\* runs what it has accepted, and neither close() nor the next pass waits.
StragglerEnds(b) ==
  /\ stragglers' = stragglers \ {b}
  /\ UNCHANGED <<mmapVars, cachedPointers, monitor, closed, engineOpen, crash, exclusive,
                 localVars>>

StragglerCrashes(b) ==
  /\ b \notin live
  /\ Crash("task")

-----------------------------------------------------------------------------
(* The generation loop of stream().                                         *)

\* maxTokens reached, or a stop token sampled.
Return(t) ==
  /\ pc[t] = "sample"
  /\ generated[t] < MaxTokens => Served
  /\ EndCall(t)
  /\ UNCHANGED <<mmapVars, sharedVars>>

\* The projection reads a copy of its weights on the heap, and so do the tasks
\* that it may leave behind.
SampleThrows(t) ==
  /\ pc[t] = "sample"
  /\ generated[t] < MaxTokens
  /\ Throw(t)

\* The generation loop without its limit.
SampleUnlimited(t) ==
  /\ pc[t] = "sample"
  /\ Served
  /\ generated' = [generated EXCEPT ![t] = @ + 1]
  /\ late' = [late EXCEPT ![t] = IF engineOpen THEN @ ELSE @ + 1]
  /\ Goto(t, "callback")
  /\ UNCHANGED <<mmapVars, sharedVars, chunk, ptr, calls, resume>>

\* A piece is sampled and the callback entered (skipped for an empty piece).
\* generatedCount++ follows the callback in the code; nothing reads it between.
Sample(t) ==
  /\ pc[t] = "sample"
  /\ generated[t] < MaxTokens
  /\ Served
  /\ generated' = [generated EXCEPT ![t] = @ + 1]
  /\ late' = [late EXCEPT ![t] = IF engineOpen THEN @ ELSE @ + 1]
  /\ \E label \in {"callback", "embed"} : Goto(t, label)
  /\ UNCHANGED <<mmapVars, sharedVars, chunk, ptr, calls, resume>>

\* A closed model does not run the forward step, but goes on with the loop.
CallbackContinues(t) ==
  /\ pc[t] = "callback"
  /\ Goto(t, IF closed THEN "sample" ELSE "embed")
  /\ UNCHANGED <<mmapVars, sharedVars, chunk, ptr, generated, late, calls, resume>>

CallbackReturns(t) ==
  /\ pc[t] = "callback"
  /\ Goto(t, "embed")
  /\ UNCHANGED <<mmapVars, sharedVars, chunk, ptr, generated, late, calls, resume>>

CallbackThrows(t) ==
  /\ pc[t] = "callback"
  /\ Throw(t)

-----------------------------------------------------------------------------
(* close(), called between streams or from the token callback of one.       *)

\* close() that does not set the flag first.
BeginCloseLateFlag(t) ==
  /\ pc[t] \in {"idle", "callback"}
  /\ exclusive => \A u \in Threads \ {t} : pc[u] = "idle"
  /\ ~closed
  /\ resume' = [resume EXCEPT ![t] = pc[t]]
  /\ chunk' = [chunk EXCEPT ![t] = 1]
  /\ Goto(t, "unmap")
  /\ UNCHANGED <<mmapVars, sharedVars, ptr, generated, late, calls>>

BeginClose(t) ==
  /\ pc[t] \in {"idle", "callback"}
  /\ exclusive => \A u \in Threads \ {t} : pc[u] = "idle"
  /\ ~closed
  /\ closed' = TRUE
  /\ resume' = [resume EXCEPT ![t] = pc[t]]
  /\ chunk' = [chunk EXCEPT ![t] = 1]
  /\ Goto(t, "unmap")
  /\ UNCHANGED <<mmapVars, cachedPointers, monitor, engineOpen, stragglers, crash, exclusive,
                 ptr, generated, late, calls>>

\* One round of the loop of scheduler.close(), which holds no monitor.
\* unmapPointer ignores the null pointer.
Unmap(t) ==
  /\ pc[t] = "unmap"
  /\ ~Mmap!UnmapReadsDead(cachedPointers[chunk[t]])
  /\ Mmap!UnmapPointer(cachedPointers[chunk[t]])
  /\ IF chunk[t] < NumChunks
     THEN chunk' = [chunk EXCEPT ![t] = @ + 1] /\ UNCHANGED pc
     ELSE Goto(t, "closeMmap") /\ UNCHANGED chunk
  /\ UNCHANGED <<sharedVars, ptr, generated, late, calls, resume>>

UnmapCrashes(t) ==
  /\ pc[t] = "unmap"
  /\ Mmap!UnmapReadsDead(cachedPointers[chunk[t]])
  /\ Crash("close")

\* close() that leaves after the registry.
CloseMmapOnly(t) ==
  /\ pc[t] = "closeMmap"
  /\ Mmap!CloseMmap
  /\ Goto(t, resume[t])
  /\ UNCHANGED <<sharedVars, chunk, ptr, generated, late, calls, resume>>

CloseMmap(t) ==
  /\ pc[t] = "closeMmap"
  /\ Mmap!CloseMmap
  /\ Goto(t, "closeEngine")
  /\ UNCHANGED <<sharedVars, chunk, ptr, generated, late, calls, resume>>

CloseEngine(t) ==
  /\ pc[t] = "closeEngine"
  /\ engineOpen' = FALSE
  /\ Goto(t, resume[t])
  /\ UNCHANGED <<mmapVars, cachedPointers, monitor, closed, stragglers, crash, exclusive,
                 chunk, ptr, generated, late, calls, resume>>

-----------------------------------------------------------------------------
StreamStep(t) ==
  \/ Embed(t) \/ EmbedThrows(t) \/ Enter(t)
  \/ UseCached(t) \/ MapFirst(t) \/ MapThrows(t) \/ Store(t)
  \/ Compute(t) \/ ComputeThrows(t) \/ ComputeCrashes(t)
  \/ Return(t) \/ Sample(t) \/ SampleThrows(t)
  \/ CallbackReturns(t) \/ CallbackThrows(t)

CloseStep(t) == Unmap(t) \/ UnmapCrashes(t) \/ CloseMmap(t) \/ CloseEngine(t)

\* What a thread does once it is inside stream() or close().
Progress(t) == crash = "none" /\ (StreamStep(t) \/ CloseStep(t))

\* What the caller decides.
Call(t) == crash = "none" /\ (Start(t) \/ BeginClose(t))

\* What is left of a dispatch that has thrown.
Linger(b) == crash = "none" /\ (StragglerEnds(b) \/ StragglerCrashes(b))

\* Every call has ended, or the process has: nobody is obliged to go on.
Finished ==
  /\ crash # "none" \/ \A t \in Threads : pc[t] = "idle" /\ calls[t] = 0
  /\ UNCHANGED vars

Next ==
  \/ Finished
  \/ \E t \in Threads : Progress(t) \/ Call(t)
  \/ \E b \in stragglers : Linger(b)

Spec == Init /\ [][Next]_vars

\* Threads are scheduled and callbacks return; nobody is obliged to call.
FairSpec == Spec /\ \A t \in Threads : WF_vars(Progress(t))

-----------------------------------------------------------------------------
\* Where a thread can be.
Labels == {"idle", "embed", "enter", "resolve", "store", "compute", "sample",
           "callback", "unmap", "closeMmap", "closeEngine"}

\* The program's types; no call generates more than maxTokens pieces.
TypeOK ==
  /\ Mmap!MmapTypeOK
  /\ cachedPointers \in [Chunks -> Nat]
  /\ monitor \in Threads \cup {NoThread}
  /\ closed \in BOOLEAN
  /\ engineOpen \in BOOLEAN
  /\ stragglers \subseteq Nat
  /\ crash \in {"none", "pass", "close", "task"}
  /\ exclusive \in BOOLEAN
  /\ pc \in [Threads -> Labels]
  /\ chunk \in [Threads -> Chunks]
  /\ ptr \in [Threads -> Nat]
  /\ generated \in [Threads -> 0..MaxTokens]
  /\ late \in [Threads -> Nat]
  /\ calls \in [Threads -> 0..MaxCalls]
  /\ resume \in [Threads -> {"idle", "callback"}]

\* ChunkPipelineScheduler.java:13: each chunk is mapped ONCE in the life of the
\* model, however many threads stream and however often a mapping fails.
MapOnce == \A a, b \in Mmap!Buffers : chunkOf[a] = chunkOf[b] => a = b

\* The list of the registry and its pointer table name the views that exist,
\* also while passes map further chunks beside close(): mappedBuffers.remove,
\* which looks for equal bytes, took the buffer it was asked to take.
ViewsAreListed == Mmap!RegistryExact

\* When close() is done with the registry no view of the file is left, those
\* mapped by streams that ran on beside it included (no file lock remains).
NothingLeftMapped == ~mapOpen => live = {}

\* Nobody ever reads weights through a view that is gone.
NoUseAfterUnmap == crash = "none"

\* A caller that closes only while no other thread streams is safe from its own
\* calls, whatever throws in them and also when close() is called in a callback:
\* neither a pass nor the comparisons of close() read a view that is gone.  Only
\* a task can that a failed dispatch has left running in the pool.
CallsReadMapped == exclusive => crash \in {"none", "task"}

\* A call that the model is closed under delivers at most one more piece once
\* the engine is closed: the next embedding lookup throws.
AtMostOneLatePiece == \A t \in Threads : late[t] =< 1

\* At most one thread is inside executeTokenStep, so passes over the chunks
\* never interleave: the engine keeps the state of a layer (residual, q, k, v,
\* gate, up) in fields that all threads share.
PassesExclusive ==
  \A t, u \in Threads :
    {pc[t], pc[u]} \subseteq {"resolve", "store", "compute"} => t = u

\* Every call of stream() and of close() ends, unless the process dies.
CallsEnd == \A t \in Threads : pc[t] # "idle" ~> pc[t] = "idle" \/ crash # "none"

\* A close() that has begun releases everything: no later call would do it.
CloseCompletes == closed ~> crash # "none" \/ (~mapOpen /\ ~engineOpen)

\* The state of the views, chunk by chunk.
ViewOf(c) ==
  IF \A b \in Mmap!Buffers : chunkOf[b] # c THEN "fresh"
  ELSE IF \E b \in live : chunkOf[b] = c THEN "mapped"
  ELSE "released"

Views ==
  INSTANCE WeightViews WITH
    view <- [c \in Chunks |-> ViewOf(c)],
    closing <- closed,
    shut <- ~mapOpen

\* The pipeline keeps the promise of WeightViews: one view per chunk, released
\* by nothing but close(), and none when close() is done with the registry.
ViewsSpec == Views!Spec
=============================================================================
