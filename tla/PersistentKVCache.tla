-------------------------- MODULE PersistentKVCache --------------------------
(***************************************************************************)
(* The key/value cache and its use by the attention of stream() calls.     *)
(* A cell holds the K and V vectors of one position in one layer, for all  *)
(* heads; its content is the call, layer and position it was computed for. *)
(* The cache is one flat buffer; a (layer, position) pair is located by    *)
(* arithmetic, and nothing ever clears it: reset() has no caller.          *)
(*                                                                         *)
(* A call makes one pass over the layers for its whole prompt and then one *)
(* per token.  Passes exclude one another (StreamingModel!PassesExclusive);*)
(* between two of its passes a call can be overtaken by others.            *)
(***************************************************************************)
EXTENDS Integers

CONSTANTS
  Threads,
  NoThread,
  NumLayers,
  MaxTokens,      \* PersistentKVCache.maxTokens
  Capacities,     \* cells the buffer may hold: safeSize clamps it to 2 GB
  WrapCells,      \* cells in 2^32 bytes: the range of the (int) casts
  MaxContext,     \* length of the score buffers of the Java attention, at least MaxTokens
  MaxPrompt,      \* bound: tokens of a prompt
  MaxPositions,   \* bound: positions a call computes
  MaxCalls        \* bound: calls

ASSUME CacheAssumption ==
  /\ NoThread \notin Threads
  /\ {NumLayers, MaxTokens, MaxContext, MaxPrompt} \subseteq Nat \ {0}
  /\ MaxTokens =< MaxContext
  /\ {MaxPositions, MaxCalls} \subseteq Nat
  /\ WrapCells \in Nat \ {0, 1}
  /\ Capacities \subseteq Nat
  /\ \A n \in Capacities : 2 * n =< WrapCells

\* One layer takes less than 2 GB of each buffer, which only an embedding of half
\* a million numbers would not: maxTokens is 2048 at most.  So the first layer that
\* is beyond the buffer is still in the range of the casts.
ASSUME LayerAssumption == \A n \in Capacities : n + MaxTokens =< WrapCells

VARIABLES
  native,     \* NativeGemvBackend.isAvailable() (a constant)
  capacity,   \* cells the buffer holds (a constant)
  cell,       \* contents of the buffer
  owner,      \* the thread inside a pass
  phase,      \* of the pass: "store" or "attend"
  layer,      \* of the pass
  call,       \* number of the call a thread runs, 0 for none
  start,      \* first position of the thread's current (or next) pass
  batch,      \* positions of that pass
  lastCall,   \* calls made so far
  beside      \* history: the calls that have run beside the thread's call so far

vars == <<native, capacity, cell, owner, phase, layer, call, start, batch, lastCall, beside>>

Layers == 0..NumLayers - 1
Empty == [call |-> 0, layer |-> 0, pos |-> 0]

Init ==
  /\ native \in BOOLEAN
  /\ capacity \in Capacities
  /\ cell = [i \in 0..capacity - 1 |-> Empty]
  /\ owner = NoThread
  /\ phase = "store"
  /\ layer = 0
  /\ call = [t \in Threads |-> 0]
  /\ start = [t \in Threads |-> 0]
  /\ batch = [t \in Threads |-> 1]
  /\ lastCall = 0
  /\ beside = [t \in Threads |-> {}]

-----------------------------------------------------------------------------
(* Locating a cell. *)

Index(l, p) == l * MaxTokens + p

\* storeKV that takes a cell filled before for its own.
StorableOnce(l, p) == Index(l, p) < capacity /\ cell[Index(l, p)] = Empty

\* storeKV: positions beyond the context and cells beyond the buffer are dropped.
Storable(l, p) == p < MaxTokens /\ Index(l, p) < capacity

\* getK with the index clamped into the buffer, as if a check had been "fixed".
IntIndexClamped(l, p) == IF Index(l, p) < capacity THEN Index(l, p) ELSE capacity - 1

\* getK and getV cast the byte offset to int and check nothing themselves; the
\* buffer throws for a negative offset or one behind its end.
IntIndex(l, p) == Index(l, p) % WrapCells

\* getKSegment: asSlice throws when the slice of the layer leaves the buffer, and
\* computeAttention then falls back to the Java loop.
SegmentFits(l) == Index(l, MaxTokens) =< capacity

\* The native kernel ignores max_tokens: it reads from the start of the slice on.
UsesNative(t) == native /\ start[t] > 0 /\ SegmentFits(layer)

PassPositions(t) == start[t]..start[t] + batch[t] - 1
ReadPositions(t) == 0..start[t] + batch[t] - 1

\* The cell that attention reads for a position.
ReadIndex(t, p) == IF UsesNative(t) THEN Index(layer, p) ELSE IntIndex(layer, p)

\* The Java loop: the buffer throws for a bad offset, and so does the score
\* buffer for a position behind its end.
Throws(t) ==
  ~UsesNative(t) /\ \E p \in ReadPositions(t) :
                      IntIndex(layer, p) >= capacity \/ p >= MaxContext

-----------------------------------------------------------------------------
Tag(t, l, p) == [call |-> call[t], layer |-> l, pos |-> p]

\* stream() begins: positions count from 0 again, the cache stays as it is.
Begin(t) ==
  /\ call[t] = 0
  /\ lastCall < MaxCalls
  /\ lastCall' = lastCall + 1
  /\ call' = [call EXCEPT ![t] = lastCall + 1]
  /\ start' = [start EXCEPT ![t] = 0]
  /\ \E n \in 1..MaxPrompt : batch' = [batch EXCEPT ![t] = n]
  /\ beside' = [u \in Threads |->
                  IF u = t THEN {call[v] : v \in Threads} \ {0}
                  ELSE IF call[u] # 0 THEN beside[u] \cup {lastCall + 1}
                  ELSE {}]
  /\ UNCHANGED <<native, capacity, cell, owner, phase, layer>>

\* A pass begins, in executeTokenStep.
Enter(t) ==
  /\ call[t] # 0
  /\ start[t] + batch[t] =< MaxPositions
  /\ owner = NoThread
  /\ owner' = t
  /\ phase' = "store"
  /\ layer' = 0
  /\ UNCHANGED <<native, capacity, beside, cell, call, start, batch, lastCall>>

\* computeLayer and computeLayerBatch store the positions of the pass, in order.
StoreKV(t) ==
  /\ owner = t
  /\ phase = "store"
  /\ cell' = [i \in DOMAIN cell |->
                LET stored == {p \in PassPositions(t) : Storable(layer, p) /\ Index(layer, p) = i}
                IN IF stored = {} THEN cell[i]
                   ELSE Tag(t, layer, CHOOSE p \in stored : \A q \in stored : q =< p)]
  /\ phase' = "attend"
  /\ UNCHANGED <<native, capacity, beside, owner, layer, call, start, batch, lastCall>>

\* NextLayer without the bound of the loop over the layers.
NextLayerUnbounded(t) ==
  /\ owner = t
  /\ phase = "attend"
  /\ ~Throws(t)
  /\ layer' = layer + 1
  /\ phase' = "store"
  /\ UNCHANGED <<native, capacity, beside, cell, owner, call, start, batch, lastCall>>

\* Attention has read all positions up to the last of the pass; the next layer.
NextLayer(t) ==
  /\ owner = t
  /\ phase = "attend"
  /\ ~Throws(t)
  /\ layer < NumLayers - 1
  /\ layer' = layer + 1
  /\ phase' = "store"
  /\ UNCHANGED <<native, capacity, beside, cell, owner, call, start, batch, lastCall>>

\* The pass ends; the next one is for the one position behind it (currentPos).
Leave(t) ==
  /\ owner = t
  /\ phase = "attend"
  /\ ~Throws(t)
  /\ layer = NumLayers - 1
  /\ owner' = NoThread
  /\ phase' = "store"
  /\ layer' = 0
  /\ start' = [start EXCEPT ![t] = @ + batch[t]]
  /\ batch' = [batch EXCEPT ![t] = 1]
  /\ UNCHANGED <<native, capacity, beside, cell, call, lastCall>>

\* The call ends between two passes: all tokens generated, a stop token, or an
\* exception of an embedding lookup, a sampling or the callback.
End(t) ==
  /\ call[t] # 0
  /\ owner # t
  /\ call' = [call EXCEPT ![t] = 0]
  /\ beside' = [beside EXCEPT ![t] = {}]
  /\ UNCHANGED <<native, capacity, cell, owner, phase, layer, start, batch, lastCall>>

\* An exception ends the call inside a pass and leaves the layers written so far.
Abort(t) ==
  /\ owner = t
  /\ owner' = NoThread
  /\ phase' = "store"
  /\ layer' = 0
  /\ call' = [call EXCEPT ![t] = 0]
  /\ beside' = [beside EXCEPT ![t] = {}]
  /\ UNCHANGED <<native, capacity, cell, start, batch, lastCall>>

Next ==
  \E t \in Threads :
    \/ Begin(t) \/ Enter(t) \/ StoreKV(t)
    \/ NextLayer(t) \/ Leave(t) \/ End(t) \/ Abort(t)

Spec == Init /\ [][Next]_vars

-----------------------------------------------------------------------------
\* The program's types; a pass stays within the layers of the model.
TypeOK ==
  /\ native \in BOOLEAN
  /\ capacity \in Capacities
  /\ cell \in [0..capacity - 1 -> [call : Nat, layer : Nat, pos : Nat]]
  /\ owner \in Threads \cup {NoThread}
  /\ phase \in {"store", "attend"}
  /\ layer \in Layers
  /\ call \in [Threads -> 0..MaxCalls]
  /\ start \in [Threads -> Nat]
  /\ batch \in [Threads -> 1..MaxPrompt]
  /\ lastCall \in 0..MaxCalls
  /\ beside \in [Threads -> SUBSET (1..MaxCalls)]

\* A call that no other call overlaps and that stays within the context attends
\* to what it computed itself: whatever is read at (layer, p) was stored by this
\* very call for (layer, p), although the cache is never reset, earlier calls ran
\* over the context or were aborted half way, and the buffer may be too small for
\* all layers.  (A read that throws is not a wrong read.)
AttentionReadsOwn ==
  \A t \in Threads :
    /\ owner = t
    /\ phase = "attend"
    /\ beside[t] = {}
    /\ start[t] + batch[t] =< MaxTokens
    /\ ~Throws(t)
    => \A p \in ReadPositions(t) :
         ReadIndex(t, p) < capacity /\ cell[ReadIndex(t, p)] = Tag(t, layer, p)

\* PersistentKVCache.java:8 promises the layout "[layer][tokenPos]": a read for a
\* layer and a position finds an entry of that layer and position, of whatever
\* call, also when calls interleave or run over the context.
ReadsFollowLayout ==
  \A t \in Threads :
    owner = t /\ phase = "attend" /\ ~Throws(t) =>
      \A p \in ReadPositions(t) :
        /\ ReadIndex(t, p) < capacity
        /\ cell[ReadIndex(t, p)].layer = layer
        /\ cell[ReadIndex(t, p)].pos = p

\* A call within the context reads no entry of another layer or position, and none
\* of a call that had ended before it began: calls that run beside each other in the
\* one cache, which both fill from position 0, take each other's entries, but what
\* earlier calls have left is always overwritten before it is read, also when a call
\* beside it is aborted in the middle of a pass or runs over the context.
EndedCallsAreNotRead ==
  \A t \in Threads :
    /\ owner = t
    /\ phase = "attend"
    /\ start[t] + batch[t] =< MaxTokens
    /\ ~Throws(t)
    => \A p \in ReadPositions(t) :
         /\ ReadIndex(t, p) < capacity
         /\ \E c \in {call[t]} \cup beside[t] :
              cell[ReadIndex(t, p)] = [call |-> c, layer |-> layer, pos |-> p]
=============================================================================
