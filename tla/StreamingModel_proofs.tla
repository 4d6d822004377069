----------------------- MODULE StreamingModel_proofs -----------------------
(***************************************************************************)
(* Proofs about StreamingModel for every number of threads, chunks, tokens *)
(* and calls, and every content of the file unless a theorem says so.      *)
(***************************************************************************)
EXTENDS StreamingModel, TLAPS

-----------------------------------------------------------------------------
(* Counting. *)

LEMMA NextChunk ==
  1 \in Chunks /\ \A c \in Chunks : c < NumChunks => c + 1 \in Chunks
BY ModelAssumption DEF Chunks

LEMMA NextPiece ==
  \A n \in 0..MaxTokens : n < MaxTokens => n + 1 \in 0..MaxTokens
BY ModelAssumption

LEMMA OneCallLess ==
  \A n \in 0..MaxCalls : n > 0 => n - 1 \in 0..MaxCalls
BY ModelAssumption

\* Tasks that a dispatch has left behind touch nothing but themselves.
LEMMA LingerChanges ==
  ASSUME NEW b, Linger(b)
  PROVE  /\ UNCHANGED <<mmapVars, cachedPointers, monitor, closed, engineOpen, exclusive,
                        localVars>>
         /\ stragglers' \subseteq stragglers
         /\ crash' \in {crash, "task"}
BY DEF Linger, StragglerEnds, StragglerCrashes, Crash

\* An exception ends the call; what it may leave behind are tasks.
LEMMA ComputeThrowsLeaving ==
  ASSUME NEW t, ComputeThrows(t)
  PROVE  pc[t] = "compute" /\ \E left \in {{}, {ptr[t]}} : ThrowLeaving(t, left)
BY DEF ComputeThrows, LeftBehind

-----------------------------------------------------------------------------
(* Type correctness. *)

\* What the two calls into the registry do to the types of its variables.
LEMMA MapKeepsTypes ==
  ASSUME Mmap!MmapTypeOK, NEW c \in Chunks, Mmap!MapChunkPointer(c)
  PROVE  /\ Mmap!MmapTypeOK'
         /\ Len(chunkOf') = Len(chunkOf) + 1
         /\ Len(chunkOf) \in Nat
         /\ Len(chunkOf') \in Mmap!Buffers'
         /\ chunkOf'[Len(chunkOf')] = c
         /\ \A b \in Mmap!Buffers : b \in Mmap!Buffers' /\ chunkOf'[b] = chunkOf[b]
         /\ \A b \in Mmap!Buffers' : b \in Mmap!Buffers \/ b = Len(chunkOf')
BY DEF Mmap!MmapTypeOK, Mmap!MapChunkPointer, Mmap!NewBuffer, Mmap!Buffers, Mmap!Chunks, Chunks

LEMMA UnmapKeepsTypes ==
  ASSUME Mmap!MmapTypeOK, NEW p, Mmap!UnmapPointer(p)
  PROVE  Mmap!MmapTypeOK'
BY DEF Mmap!MmapTypeOK, Mmap!UnmapPointer, Mmap!FirstEqual, Mmap!Buffers, Mmap!Chunks, Chunks

LEMMA CloseKeepsTypes ==
  ASSUME Mmap!MmapTypeOK, Mmap!CloseMmap
  PROVE  Mmap!MmapTypeOK'
BY DEF Mmap!MmapTypeOK, Mmap!CloseMmap, Mmap!Buffers, Mmap!Chunks, Chunks

LEMMA InitTypeOK == Init => TypeOK
<1>. SUFFICES ASSUME Init
              PROVE  TypeOK
  OBVIOUS
<1>1. Mmap!MmapTypeOK
  BY DEF Init, Mmap!MmapInit, Mmap!MmapTypeOK, Mmap!Buffers
<1>2. 1 \in Chunks
  BY NextChunk
<1>3. 0 \in 0..MaxTokens /\ MaxCalls \in 0..MaxCalls
  BY ModelAssumption
<1>. QED
  BY <1>1, <1>2, <1>3 DEF Init, TypeOK, Labels

LEMMA NextTypeOK == TypeOK /\ [Next]_vars => TypeOK'
<1>. SUFFICES ASSUME TypeOK, [Next]_vars
              PROVE  TypeOK'
  OBVIOUS
<1>. USE DEF TypeOK, Labels, Goto, mmapVars, sharedVars, localVars
<1>linger. ASSUME NEW b \in stragglers, Linger(b)
           PROVE  TypeOK'
  BY <1>linger, LingerChanges DEF Mmap!MmapTypeOK, Mmap!Buffers
<1>same. ASSUME UNCHANGED mmapVars
         PROVE  Mmap!MmapTypeOK'
  BY <1>same DEF Mmap!MmapTypeOK, Mmap!Buffers
<1>one. 1 \in Chunks /\ 0 \in 0..MaxTokens
  BY ModelAssumption DEF Chunks
<1>stutter. CASE UNCHANGED vars
  BY <1>stutter, <1>same DEF vars
<1>finished. CASE Finished
  BY <1>finished, <1>stutter DEF Finished
<1>step. ASSUME NEW t \in Threads, Progress(t) \/ Call(t)
         PROVE  TypeOK'
  <2>1. CASE Start(t)
    BY <2>1, <1>same, <1>one, OneCallLess DEF Start
  <2>end. ASSUME EndCall(t)
          PROVE  /\ pc' \in [Threads -> Labels]
                 /\ chunk' \in [Threads -> Chunks]
                 /\ ptr' \in [Threads -> Nat]
                 /\ generated' \in [Threads -> 0..MaxTokens]
                 /\ late' \in [Threads -> Nat]
                 /\ UNCHANGED <<calls, resume>>
    BY <2>end, <1>one DEF EndCall
  <2>leaving. ASSUME NEW left \in SUBSET Nat, ThrowLeaving(t, left)
              PROVE  TypeOK'
    BY <2>leaving, <2>end, <1>same DEF ThrowLeaving
  <2>throw. ASSUME Throw(t)
            PROVE  TypeOK'
    BY <2>throw, <2>leaving DEF Throw
  <2>2. CASE Embed(t)
    BY <2>2, <1>same DEF Embed
  <2>3. CASE EmbedThrows(t)
    BY <2>3, <2>throw DEF EmbedThrows
  <2>4. CASE Enter(t)
    BY <2>4, <1>same, <1>one DEF Enter
  <2>5. CASE UseCached(t)
    BY <2>5, <1>same DEF UseCached
  <2>6. CASE MapFirst(t)
    <3>1. Mmap!MmapTypeOK' /\ Len(chunkOf') \in Nat
      BY <2>6, MapKeepsTypes DEF MapFirst
    <3>. QED
      BY <2>6, <3>1 DEF MapFirst
  <2>7. CASE MapThrows(t)
    BY <2>7, <2>throw DEF MapThrows
  <2>8. CASE Store(t)
    BY <2>8, <1>same DEF Store
  <2>9. CASE Compute(t)
    <3>1. CASE chunk[t] < NumChunks
      BY <2>9, <3>1, <1>same, NextChunk DEF Compute
    <3>2. CASE ~(chunk[t] < NumChunks)
      BY <2>9, <3>2, <1>same, <1>one DEF Compute
    <3>. QED
      BY <3>1, <3>2
  <2>10. CASE ComputeThrows(t)
    <3>1. PICK left \in {{}, {ptr[t]}} : ThrowLeaving(t, left)
      BY <2>10, ComputeThrowsLeaving
    <3>. QED
      BY <3>1, <2>leaving
  <2>crash. ASSUME NEW culprit \in {"pass", "close"}, Crash(culprit)
            PROVE  TypeOK'
    BY <2>crash, <1>same DEF Crash
  <2>11. CASE ComputeCrashes(t)
    BY <2>11, <2>crash DEF ComputeCrashes
  <2>12. CASE Return(t)
    BY <2>12, <2>end, <1>same DEF Return
  <2>13. CASE Sample(t)
    <3>1. generated[t] + 1 \in 0..MaxTokens
      BY <2>13, NextPiece DEF Sample
    <3>2. /\ generated' \in [Threads -> 0..MaxTokens]
          /\ late' \in [Threads -> Nat]
      BY <2>13, <3>1 DEF Sample
    <3>3. pc' \in [Threads -> Labels]
      <4>. PICK label \in {"callback", "embed"} : Goto(t, label)
        BY <2>13 DEF Sample
      <4>. QED
        OBVIOUS
    <3>. QED
      BY <2>13, <3>2, <3>3, <1>same DEF Sample
  <2>14. CASE SampleThrows(t)
    BY <2>14, <2>throw DEF SampleThrows
  <2>15. CASE CallbackReturns(t)
    BY <2>15, <1>same DEF CallbackReturns
  <2>16. CASE CallbackThrows(t)
    BY <2>16, <2>throw DEF CallbackThrows
  <2>17. CASE BeginClose(t)
    BY <2>17, <1>same, <1>one DEF BeginClose
  <2>18. CASE Unmap(t)
    <3>. Mmap!MmapTypeOK'
      BY <2>18, UnmapKeepsTypes DEF Unmap
    <3>1. CASE chunk[t] < NumChunks
      BY <2>18, <3>1, NextChunk DEF Unmap
    <3>2. CASE ~(chunk[t] < NumChunks)
      BY <2>18, <3>2 DEF Unmap
    <3>. QED
      BY <3>1, <3>2
  <2>19. CASE UnmapCrashes(t)
    BY <2>19, <2>crash DEF UnmapCrashes
  <2>20. CASE CloseMmap(t)
    BY <2>20, CloseKeepsTypes DEF CloseMmap
  <2>21. CASE CloseEngine(t)
    BY <2>21, <1>same DEF CloseEngine
  <2>. QED
    BY <1>step, <2>1, <2>2, <2>3, <2>4, <2>5, <2>6, <2>7, <2>8, <2>9, <2>10, <2>11,
       <2>12, <2>13, <2>14, <2>15, <2>16, <2>17, <2>18, <2>19, <2>20, <2>21
       DEF Progress, Call, StreamStep, CloseStep
<1>. QED
  BY <1>stutter, <1>finished, <1>step, <1>linger DEF Next

\* The variables keep their types, and no call generates more than maxTokens
\* pieces, for any number of threads and calls.
THEOREM TypeCorrect == Spec => []TypeOK
BY InitTypeOK, NextTypeOK, PTL DEF Spec

-----------------------------------------------------------------------------
(* Passes are exclusive, and slices are mapped in the order of the chunks:  *)
(* the buffer of chunk c is the c-th that is made, it is made once, and     *)
(* whoever is past chunk c in a pass finds its pointer in the cache.        *)

InPass == {"resolve", "store", "compute"}

MonitorInv == \A t \in Threads : pc[t] \in InPass => monitor = t

CacheInv ==
  /\ \A b \in Mmap!Buffers : chunkOf[b] = b
  /\ \A c \in Chunks : cachedPointers[c] = 0 \/ (cachedPointers[c] = c /\ c \in Mmap!Buffers)
  /\ \A b \in Mmap!Buffers :
       cachedPointers[b] = b \/ \E t \in Threads : pc[t] = "store" /\ chunk[t] = b
  /\ \A t \in Threads : pc[t] \in InPass =>
       \A d \in Chunks : d < chunk[t] => cachedPointers[d] = d
  /\ \A t \in Threads : pc[t] = "store" =>
       /\ cachedPointers[chunk[t]] = 0
       /\ ptr[t] = chunk[t]
       /\ chunk[t] \in Mmap!Buffers
  /\ \A t \in Threads : pc[t] = "compute" =>
       /\ cachedPointers[chunk[t]] = chunk[t]
       /\ ptr[t] = chunk[t]

PassInv == TypeOK /\ MonitorInv /\ CacheInv

\* Steps that read and write nothing of this.
LEMMA PassInvUntouched ==
  ASSUME MonitorInv, CacheInv,
         UNCHANGED <<chunkOf, cachedPointers, monitor, pc, chunk, ptr>>
  PROVE  MonitorInv' /\ CacheInv'
BY DEF MonitorInv, CacheInv, Mmap!Buffers

\* Steps of a thread that is then outside executeTokenStep.
LEMMA PassInvOutside ==
  ASSUME MonitorInv, CacheInv, NEW t \in Threads,
         UNCHANGED <<chunkOf, cachedPointers>>,
         pc[t] # "store",
         pc'[t] \notin InPass,
         \A u \in Threads : u = t \/ UNCHANGED <<pc[u], chunk[u], ptr[u]>>,
         \A u \in Threads : u = t \/ (monitor = u => monitor' = u)
  PROVE  MonitorInv' /\ CacheInv'
BY DEF MonitorInv, CacheInv, InPass, Mmap!Buffers

LEMMA EnterPassInv ==
  ASSUME PassInv, NEW t \in Threads, Enter(t)
  PROVE  MonitorInv' /\ CacheInv'
<1>1. MonitorInv'
  BY ModelAssumption DEF PassInv, TypeOK, MonitorInv, Enter, Goto, InPass
<1>2. /\ chunk' = [chunk EXCEPT ![t] = 1]
      /\ pc' = [pc EXCEPT ![t] = "resolve"]
      /\ pc[t] = "enter"
      /\ UNCHANGED <<chunkOf, cachedPointers, ptr>>
  BY DEF Enter, Goto, mmapVars
<1>3. \A d \in Chunks : ~(d < 1)
  BY ModelAssumption DEF Chunks
<1>. QED
  BY <1>1, <1>2, <1>3 DEF PassInv, TypeOK, CacheInv, InPass, Mmap!Buffers

LEMMA UseCachedPassInv ==
  ASSUME PassInv, NEW t \in Threads, UseCached(t)
  PROVE  MonitorInv' /\ CacheInv'
BY DEF PassInv, TypeOK, MonitorInv, CacheInv, UseCached, Goto, InPass, Mmap!Buffers,
       mmapVars, sharedVars

LEMMA MapFirstPassInv ==
  ASSUME PassInv, NEW t \in Threads, MapFirst(t)
  PROVE  MonitorInv' /\ CacheInv'
<1>. DEFINE c == chunk[t]
<1>1. /\ pc[t] = "resolve" /\ cachedPointers[c] = 0
      /\ pc' = [pc EXCEPT ![t] = "store"]
      /\ ptr' = [ptr EXCEPT ![t] = Len(chunkOf')]
      /\ UNCHANGED <<cachedPointers, monitor, chunk>>
      /\ c \in Chunks
  BY DEF MapFirst, Goto, sharedVars, PassInv, TypeOK
<1>2. MonitorInv'
  BY <1>1 DEF PassInv, TypeOK, MonitorInv, InPass
<1>3. /\ Len(chunkOf') = Len(chunkOf) + 1
      /\ Len(chunkOf) \in Nat
      /\ Len(chunkOf') \in Mmap!Buffers'
      /\ chunkOf'[Len(chunkOf')] = c
      /\ \A b \in Mmap!Buffers : b \in Mmap!Buffers' /\ chunkOf'[b] = chunkOf[b]
      /\ \A b \in Mmap!Buffers' : b \in Mmap!Buffers \/ b = Len(chunkOf')
  BY <1>1, MapKeepsTypes DEF MapFirst, PassInv, TypeOK
<1>4. Mmap!Buffers = 1..Len(chunkOf)
  BY DEF PassInv, TypeOK, Mmap!MmapTypeOK, Mmap!Buffers
<1>5. \A u \in Threads : pc[u] # "store"
  BY <1>1 DEF PassInv, MonitorInv, InPass
<1>6. Len(chunkOf') = c
  <2>1. c \notin Mmap!Buffers
    <3>1. c # 0
      BY <1>1, ModelAssumption DEF Chunks
    <3>. QED
      BY <1>1, <1>5, <3>1 DEF PassInv, CacheInv
  <2>2. \A d \in Chunks : d < c => d \in Mmap!Buffers
    <3>. TAKE d \in Chunks
    <3>. HAVE d < c
    <3>1. cachedPointers[d] = d
      BY <1>1 DEF PassInv, CacheInv, InPass
    <3>. QED
      BY <3>1, ModelAssumption DEF PassInv, CacheInv, Chunks
  <2>3. c = 1 \/ c - 1 \in Mmap!Buffers
    <3>1. NumChunks \in Nat /\ c \in 1..NumChunks
      BY <1>1, ModelAssumption DEF Chunks
    <3>2. c # 1 => c - 1 \in 1..NumChunks /\ c - 1 < c
      BY <3>1
    <3>. QED
      BY <2>2, <3>2 DEF Chunks
  <2>. QED
    BY SMTT(30), <1>1, <1>3, <1>4, <2>1, <2>3, ModelAssumption DEF Chunks
<1>7. CacheInv'
  <2>1. \A b \in Mmap!Buffers' : chunkOf'[b] = b
    BY <1>3, <1>6 DEF PassInv, CacheInv
  <2>2. \A d \in Chunks : cachedPointers'[d] = 0 \/ (cachedPointers'[d] = d /\ d \in Mmap!Buffers')
    BY <1>1, <1>3 DEF PassInv, CacheInv
  <2>3. \A b \in Mmap!Buffers' :
          cachedPointers'[b] = b \/ \E u \in Threads : pc'[u] = "store" /\ chunk'[u] = b
    BY <1>1, <1>3, <1>5, <1>6 DEF PassInv, TypeOK, CacheInv
  <2>4. \A u \in Threads : pc'[u] \in InPass =>
          \A d \in Chunks : d < chunk'[u] => cachedPointers'[d] = d
    BY <1>1 DEF PassInv, TypeOK, CacheInv, InPass
  <2>5. \A u \in Threads : pc'[u] = "store" =>
          /\ cachedPointers'[chunk'[u]] = 0
          /\ ptr'[u] = chunk'[u]
          /\ chunk'[u] \in Mmap!Buffers'
    BY <1>1, <1>3, <1>5, <1>6 DEF PassInv, TypeOK
  <2>6. \A u \in Threads : pc'[u] = "compute" =>
          /\ cachedPointers'[chunk'[u]] = chunk'[u]
          /\ ptr'[u] = chunk'[u]
    BY <1>1 DEF PassInv, TypeOK, CacheInv
  <2>. QED
    BY <2>1, <2>2, <2>3, <2>4, <2>5, <2>6 DEF CacheInv
<1>. QED
  BY <1>2, <1>7

LEMMA StorePassInv ==
  ASSUME PassInv, NEW t \in Threads, Store(t)
  PROVE  MonitorInv' /\ CacheInv'
<1>1. /\ pc[t] = "store"
      /\ pc' = [pc EXCEPT ![t] = "compute"]
      /\ cachedPointers' = [cachedPointers EXCEPT ![chunk[t]] = ptr[t]]
      /\ UNCHANGED <<chunkOf, monitor, chunk, ptr>>
      /\ chunk[t] \in Chunks
  BY DEF Store, Goto, mmapVars, PassInv, TypeOK
<1>2. MonitorInv'
  BY <1>1 DEF PassInv, TypeOK, MonitorInv, InPass
<1>3. \A u \in Threads : pc[u] \in InPass => u = t
  BY <1>1 DEF PassInv, MonitorInv, InPass
<1>4. ptr[t] = chunk[t] /\ chunk[t] \in Mmap!Buffers
  BY <1>1 DEF PassInv, CacheInv
<1>5. CacheInv'
  BY <1>1, <1>3, <1>4 DEF PassInv, TypeOK, CacheInv, InPass, Mmap!Buffers
<1>. QED
  BY <1>2, <1>5

LEMMA ComputePassInv ==
  ASSUME PassInv, NEW t \in Threads, Compute(t)
  PROVE  MonitorInv' /\ CacheInv'
<1>1. CASE chunk[t] < NumChunks
  <2>1. /\ pc[t] = "compute"
        /\ pc' = [pc EXCEPT ![t] = "resolve"]
        /\ chunk' = [chunk EXCEPT ![t] = chunk[t] + 1]
        /\ ptr' = [ptr EXCEPT ![t] = 0]
        /\ UNCHANGED <<chunkOf, cachedPointers, monitor>>
    BY <1>1 DEF Compute, Goto, mmapVars
  <2>2. MonitorInv'
    BY <2>1 DEF PassInv, TypeOK, MonitorInv, InPass
  <2>3. \A d \in Chunks : d < chunk[t] + 1 => d < chunk[t] \/ d = chunk[t]
    <3>1. chunk[t] \in Chunks
      BY DEF PassInv, TypeOK
    <3>. QED
      BY <3>1, ModelAssumption DEF Chunks
  <2>4. \A d \in Chunks : d < chunk[t] + 1 => cachedPointers[d] = d
    BY <2>1, <2>3 DEF PassInv, CacheInv, InPass
  <2>5. CacheInv'
    BY <2>1, <2>4 DEF PassInv, TypeOK, CacheInv, InPass, Mmap!Buffers
  <2>. QED
    BY <2>2, <2>5
<1>2. CASE ~(chunk[t] < NumChunks)
  <2>1. /\ pc[t] = "compute"
        /\ pc' = [pc EXCEPT ![t] = "sample"]
        /\ monitor' = NoThread
        /\ monitor = t
        /\ UNCHANGED <<chunkOf, cachedPointers>>
        /\ \A u \in Threads : u = t \/ UNCHANGED <<chunk[u], ptr[u]>>
    BY <1>2 DEF Compute, Goto, mmapVars, PassInv, TypeOK, MonitorInv, InPass
  <2>. QED
    BY <2>1, PassInvOutside DEF PassInv, TypeOK, InPass
<1>. QED
  BY <1>1, <1>2

LEMMA InitPassInv == Init => PassInv
<1>. SUFFICES ASSUME Init
              PROVE  PassInv
  OBVIOUS
<1>1. Mmap!Buffers = {}
  BY DEF Init, Mmap!MmapInit, Mmap!Buffers
<1>. QED
  BY <1>1, InitTypeOK DEF Init, PassInv, MonitorInv, CacheInv, InPass

LEMMA NextPassInv == PassInv /\ [Next]_vars => PassInv'
<1>. SUFFICES ASSUME PassInv, [Next]_vars
              PROVE  MonitorInv' /\ CacheInv'
  BY NextTypeOK DEF PassInv
<1>. USE DEF mmapVars, sharedVars, localVars
<1>inv. TypeOK /\ MonitorInv /\ CacheInv
  BY DEF PassInv
<1>stutter. CASE UNCHANGED vars
  BY <1>stutter, <1>inv, PassInvUntouched DEF vars
<1>finished. CASE Finished
  BY <1>finished, <1>stutter DEF Finished
<1>linger. ASSUME NEW b \in stragglers, Linger(b)
           PROVE  MonitorInv' /\ CacheInv'
  BY <1>linger, <1>inv, LingerChanges, PassInvUntouched
<1>step. ASSUME NEW t \in Threads, Progress(t) \/ Call(t)
         PROVE  MonitorInv' /\ CacheInv'
  <2>goto. \A l : Goto(t, l) => pc'[t] = l /\ \A u \in Threads : u = t \/ UNCHANGED pc[u]
    BY <1>inv DEF TypeOK, Goto
  <2>out. ASSUME NEW l \in Labels \ InPass, Goto(t, l),
                 UNCHANGED <<chunkOf, cachedPointers>>,
                 pc[t] # "store",
                 \A u \in Threads : u = t \/ UNCHANGED <<chunk[u], ptr[u]>>,
                 monitor' = monitor \/ (monitor = t /\ monitor' = NoThread)
          PROVE  MonitorInv' /\ CacheInv'
    BY <1>inv, <2>goto, <2>out, PassInvOutside
  <2>1. CASE Start(t)
    BY <2>1, <2>out DEF Start, Labels, InPass
  <2>end. EndCall(t) => /\ Goto(t, "idle")
                        /\ \A u \in Threads : u = t \/ UNCHANGED <<chunk[u], ptr[u]>>
    BY <1>inv DEF EndCall, TypeOK
  <2>leaving. ASSUME NEW left, ThrowLeaving(t, left), pc[t] # "store"
              PROVE  MonitorInv' /\ CacheInv'
    BY <2>leaving, <2>end, <2>out DEF ThrowLeaving, Labels, InPass
  <2>throw. ASSUME Throw(t), pc[t] # "store"
            PROVE  MonitorInv' /\ CacheInv'
    BY <2>throw, <2>leaving DEF Throw
  <2>2. CASE Embed(t)
    BY <2>2, <2>out DEF Embed, Labels, InPass
  <2>3. CASE EmbedThrows(t)
    BY <2>3, <2>throw DEF EmbedThrows
  <2>4. CASE Enter(t)
    BY <2>4, EnterPassInv
  <2>5. CASE UseCached(t)
    BY <2>5, UseCachedPassInv
  <2>6. CASE MapFirst(t)
    BY <2>6, MapFirstPassInv
  <2>7. CASE MapThrows(t)
    BY <2>7, <2>throw DEF MapThrows
  <2>8. CASE Store(t)
    BY <2>8, StorePassInv
  <2>9. CASE Compute(t)
    BY <2>9, ComputePassInv
  <2>10. CASE ComputeThrows(t)
    BY <2>10, <2>leaving, ComputeThrowsLeaving
  <2>crash. ASSUME NEW culprit, Crash(culprit)
            PROVE  MonitorInv' /\ CacheInv'
    BY <2>crash, <1>inv, PassInvUntouched DEF Crash
  <2>11. CASE ComputeCrashes(t)
    BY <2>11, <2>crash DEF ComputeCrashes
  <2>12. CASE Return(t)
    BY <2>12, <2>end, <2>out DEF Return, Labels, InPass
  <2>13. CASE Sample(t)
    BY <2>13, <2>out DEF Sample, Labels, InPass
  <2>14. CASE SampleThrows(t)
    BY <2>14, <2>throw DEF SampleThrows
  <2>15. CASE CallbackReturns(t)
    BY <2>15, <2>out DEF CallbackReturns, Labels, InPass
  <2>16. CASE CallbackThrows(t)
    BY <2>16, <2>throw DEF CallbackThrows
  <2>chunk. \A n : chunk' = [chunk EXCEPT ![t] = n] =>
              \A u \in Threads : u = t \/ UNCHANGED chunk[u]
    BY <1>inv DEF TypeOK
  <2>17. CASE BeginClose(t)
    BY <2>17, <2>out, <2>chunk DEF BeginClose, Labels, InPass
  <2>18. CASE Unmap(t)
    <3>1. /\ pc[t] = "unmap"
          /\ UNCHANGED <<chunkOf, cachedPointers, monitor, ptr>>
      BY <2>18 DEF Unmap, Mmap!UnmapPointer
    <3>2. CASE chunk[t] < NumChunks
      <4>1. UNCHANGED pc /\ \A u \in Threads : u = t \/ UNCHANGED chunk[u]
        BY <2>18, <3>2, <2>chunk DEF Unmap
      <4>. QED
        BY <3>1, <4>1, <1>inv, PassInvOutside DEF InPass
    <3>3. CASE ~(chunk[t] < NumChunks)
      BY <2>18, <3>1, <3>3, <2>out DEF Unmap, Labels, InPass
    <3>. QED
      BY <3>2, <3>3
  <2>19. CASE UnmapCrashes(t)
    BY <2>19, <2>crash DEF UnmapCrashes
  <2>20. CASE CloseMmap(t)
    BY <2>20, <2>out DEF CloseMmap, Mmap!CloseMmap, Labels, InPass
  <2>21. CASE CloseEngine(t)
    <3>1. resume[t] \in Labels \ InPass
      BY <1>inv DEF TypeOK, Labels, InPass
    <3>. QED
      BY <2>21, <3>1, <2>out DEF CloseEngine
  <2>. QED
    BY <1>step, <2>1, <2>2, <2>3, <2>4, <2>5, <2>6, <2>7, <2>8, <2>9, <2>10, <2>11,
       <2>12, <2>13, <2>14, <2>15, <2>16, <2>17, <2>18, <2>19, <2>20, <2>21
       DEF Progress, Call, StreamStep, CloseStep
<1>. QED
  BY <1>stutter, <1>finished, <1>step, <1>linger DEF Next

LEMMA PassInvariant == Spec => []PassInv
BY InitPassInv, NextPassInv, PTL DEF Spec

\* Passes over the chunks never interleave, however many threads stream, close,
\* or are thrown out of a pass by an exception.
THEOREM PassesAreExclusive == Spec => []PassesExclusive
<1>1. PassInv => PassesExclusive
  BY DEF PassInv, MonitorInv, InPass, PassesExclusive
<1>. QED
  BY <1>1, PassInvariant, PTL

\* No chunk is ever mapped twice: whatever the file holds, whoever closes, and
\* however often a mapping failed before.
THEOREM ChunksAreMappedOnce == Spec => []MapOnce
<1>1. PassInv => MapOnce
  BY DEF PassInv, CacheInv, MapOnce
<1>. QED
  BY <1>1, PassInvariant, PTL

-----------------------------------------------------------------------------
(* The registry.  mappedBuffers.remove(buffer) takes the first buffer with  *)
(* the same bytes, so what it promises depends on the file: no two chunks   *)
(* of one size may hold the same bytes.                                     *)

DistinctContents ==
  \A c, d \in Chunks : Span[c] = Span[d] /\ Data[c] = Data[d] => c = d

LEMMA MapKeepsRegistry ==
  ASSUME Mmap!RegistryExact, Mmap!MmapTypeOK, NEW c \in Chunks, Mmap!MapChunkPointer(c)
  PROVE  Mmap!RegistryExact'
BY DEF Mmap!RegistryExact, Mmap!MapChunkPointer, Mmap!NewBuffer, Mmap!Mappable

LEMMA UnmapKeepsRegistry ==
  ASSUME Mmap!RegistryExact, Mmap!MmapTypeOK, MapOnce, DistinctContents,
         NEW p, Mmap!UnmapPointer(p)
  PROVE  Mmap!RegistryExact'
<1>1. CASE p \notin registered
  BY <1>1 DEF Mmap!RegistryExact, Mmap!UnmapPointer
<1>2. CASE p \in registered /\ mapOpen
  <2>1. p \in Mmap!Buffers /\ p \in listed /\ listed \subseteq Mmap!Buffers
    BY <1>2 DEF Mmap!RegistryExact, Mmap!MmapTypeOK
  <2>2. \A a \in Mmap!Buffers : chunkOf[a] \in Chunks
    <3>1. Mmap!Chunks = Chunks
      BY DEF Mmap!Chunks, Chunks
    <3>. QED
      BY <3>1 DEF Mmap!MmapTypeOK, Mmap!Buffers
  <2>3. \A a \in listed : Mmap!SameBytes(a, p) <=> a = p
    BY <2>1, <2>2 DEF Mmap!SameBytes, DistinctContents, MapOnce
  <2>4. p =< p
    BY <2>1 DEF Mmap!MmapTypeOK, Mmap!Buffers
  <2>5. Mmap!FirstEqual(p) = {p}
    BY <2>1, <2>3, <2>4 DEF Mmap!FirstEqual
  <2>. QED
    BY <1>2, <2>5 DEF Mmap!RegistryExact, Mmap!UnmapPointer
<1>3. CASE p \in registered /\ ~mapOpen
  BY <1>3 DEF Mmap!RegistryExact, Mmap!UnmapPointer
<1>. QED
  BY <1>1, <1>2, <1>3

LEMMA CloseKeepsRegistry ==
  ASSUME Mmap!RegistryExact, Mmap!CloseMmap
  PROVE  Mmap!RegistryExact'
BY DEF Mmap!RegistryExact, Mmap!CloseMmap

\* The steps of the model that leave the registry alone, and those that do not.
LEMMA RegistrySteps ==
  ASSUME TypeOK, Next
  PROVE  \/ UNCHANGED mmapVars
         \/ \E c \in Chunks : Mmap!MapChunkPointer(c)
         \/ \E p : Mmap!UnmapPointer(p)
         \/ Mmap!CloseMmap
<1>1. \A t \in Threads : chunk[t] \in Chunks
  BY DEF TypeOK
<1>2. ASSUME NEW t \in Threads, MapFirst(t)
      PROVE  \E c \in Chunks : Mmap!MapChunkPointer(c)
  BY <1>1, <1>2 DEF MapFirst
<1>3. ASSUME NEW t \in Threads, Unmap(t)
      PROVE  \E p : Mmap!UnmapPointer(p)
  BY <1>3 DEF Unmap
<1>4. ASSUME NEW t \in Threads, CloseMmap(t)
      PROVE  Mmap!CloseMmap
  BY <1>4 DEF CloseMmap
<1>5. ASSUME NEW t \in Threads, Progress(t) \/ Call(t),
             ~MapFirst(t), ~Unmap(t), ~CloseMmap(t)
      PROVE  UNCHANGED mmapVars
  BY <1>5 DEF Progress, Call, StreamStep, CloseStep, Start, Embed, EmbedThrows, Enter,
     UseCached, MapThrows, Store, Compute, ComputeThrows, ComputeCrashes, Return, Sample,
     SampleThrows, CallbackReturns, CallbackThrows, BeginClose, UnmapCrashes, CloseEngine,
     Throw, ThrowLeaving, Crash
<1>6. Finished => UNCHANGED mmapVars
  BY DEF Finished, vars
<1>7. ASSUME NEW b \in stragglers, Linger(b)
      PROVE  UNCHANGED mmapVars
  BY <1>7, LingerChanges
<1>. QED
  BY <1>2, <1>3, <1>4, <1>5, <1>6, <1>7 DEF Next, Progress, Call

LEMMA RegistryStaysExact == DistinctContents => (Spec => []Mmap!RegistryExact)
<1>. SUFFICES ASSUME DistinctContents
              PROVE  Spec => []Mmap!RegistryExact
  OBVIOUS
<1>1. Init => Mmap!RegistryExact
  BY DEF Init, Mmap!MmapInit, Mmap!RegistryExact
<1>2. PassInv /\ Mmap!RegistryExact /\ [Next]_vars => Mmap!RegistryExact'
  <2>. SUFFICES ASSUME PassInv, Mmap!RegistryExact, [Next]_vars
                PROVE  Mmap!RegistryExact'
    OBVIOUS
  <2>1. MapOnce /\ TypeOK /\ Mmap!MmapTypeOK
    BY DEF PassInv, CacheInv, MapOnce, TypeOK
  <2>2. CASE UNCHANGED mmapVars
    BY <2>2 DEF mmapVars, Mmap!RegistryExact
  <2>3. CASE UNCHANGED vars
    BY <2>2, <2>3 DEF vars
  <2>. QED
    BY <2>1, <2>2, <2>3, RegistrySteps, MapKeepsRegistry, UnmapKeepsRegistry, CloseKeepsRegistry
<1>. QED
  BY <1>1, <1>2, PassInvariant, PTL DEF Spec

\* When no two chunks of one size hold the same bytes, list, pointer table and
\* existing views agree for as long as the registry is open.
THEOREM RegistryIsExact == DistinctContents => (Spec => []ViewsAreListed)
<1>1. Mmap!RegistryExact => ViewsAreListed
  BY DEF ViewsAreListed
<1>. QED
  BY <1>1, RegistryStaysExact, PTL

\* When no two chunks of one size hold the same bytes, a closed registry leaves
\* no view behind, whatever streams ran beside close() and were cut off.
THEOREM NoViewIsLeft == DistinctContents => (Spec => []NothingLeftMapped)
<1>1. Mmap!RegistryExact => NothingLeftMapped
  BY DEF Mmap!RegistryExact, NothingLeftMapped
<1>. QED
  BY <1>1, RegistryStaysExact, PTL

-----------------------------------------------------------------------------
(* A piece sampled after the engine was closed is the last one: the call is *)
(* on its way to the embedding lookup that fails.                           *)

LateInv ==
  \A t \in Threads :
    \/ late[t] = 0
    \/ /\ late[t] = 1
       /\ ~engineOpen
       /\ pc[t] \in {"idle", "callback", "embed", "unmap", "closeMmap", "closeEngine"}

LEMMA NextLateInv ==
  ASSUME HasEmbedding, TypeOK, LateInv, [Next]_vars
  PROVE  LateInv'
<1>. USE DEF TypeOK, LateInv, mmapVars, sharedVars, localVars
<1>stutter. CASE UNCHANGED vars
  BY <1>stutter DEF vars
<1>finished. CASE Finished
  BY <1>finished, <1>stutter DEF Finished
<1>linger. ASSUME NEW b \in stragglers, Linger(b)
           PROVE  LateInv'
  BY <1>linger, LingerChanges
<1>step. ASSUME NEW t \in Threads, Progress(t) \/ Call(t)
         PROVE  LateInv'
  <2>goto. ASSUME NEW l, Goto(t, l), UNCHANGED <<late, engineOpen>>,
                  \/ pc[t] \in {"enter", "resolve", "store", "compute", "sample"}
                  \/ l \in {"idle", "callback", "embed", "unmap", "closeMmap", "closeEngine"}
           PROVE  LateInv'
    BY <2>goto DEF Goto
  <2>end. ASSUME EndCall(t), UNCHANGED engineOpen
          PROVE  LateInv'
    BY <2>end DEF EndCall, Goto
  <2>leaving. ASSUME NEW left, ThrowLeaving(t, left)
              PROVE  LateInv'
    BY <2>leaving, <2>end DEF ThrowLeaving
  <2>throw. ASSUME Throw(t)
            PROVE  LateInv'
    BY <2>throw, <2>leaving DEF Throw
  <2>10. CASE ComputeThrows(t)
    BY <2>10, <2>leaving, ComputeThrowsLeaving
  <2>crash. ASSUME NEW culprit, Crash(culprit)
            PROVE  LateInv'
    BY <2>crash DEF Crash
  <2>1. CASE Start(t)
    BY <2>1 DEF Start, Goto
  <2>2. CASE Embed(t)
    <3>1. engineOpen /\ pc[t] = "embed" /\ UNCHANGED <<late, engineOpen>> /\ Goto(t, "enter")
      BY <2>2 DEF Embed, EmbeddingFails
    <3>. QED
      BY <3>1 DEF Goto
  <2>4. CASE Enter(t)
    BY <2>4, <2>goto DEF Enter
  <2>5. CASE UseCached(t)
    BY <2>5, <2>goto DEF UseCached
  <2>6. CASE MapFirst(t)
    BY <2>6, <2>goto DEF MapFirst
  <2>8. CASE Store(t)
    BY <2>8, <2>goto DEF Store
  <2>9. CASE Compute(t)
    BY <2>9, <2>goto DEF Compute
  <2>12. CASE Return(t)
    BY <2>12, <2>end DEF Return
  <2>13. CASE Sample(t)
    <3>1. late[t] = 0
      BY <2>13 DEF Sample
    <3>. PICK label \in {"callback", "embed"} : Goto(t, label)
      BY <2>13 DEF Sample
    <3>2. /\ UNCHANGED engineOpen
          /\ late' = [late EXCEPT ![t] = IF engineOpen THEN 0 ELSE 1]
      BY <2>13, <3>1 DEF Sample
    <3>. QED
      BY <3>1, <3>2 DEF Goto
  <2>15. CASE CallbackReturns(t)
    BY <2>15, <2>goto DEF CallbackReturns
  <2>17. CASE BeginClose(t)
    BY <2>17, <2>goto DEF BeginClose
  <2>18. CASE Unmap(t)
    BY <2>18, <2>goto DEF Unmap
  <2>20. CASE CloseMmap(t)
    BY <2>20, <2>goto DEF CloseMmap
  <2>21. CASE CloseEngine(t)
    <3>1. /\ ~engineOpen'
          /\ UNCHANGED late
          /\ Goto(t, resume[t])
          /\ resume[t] \in {"idle", "callback"}
      BY <2>21 DEF CloseEngine
    <3>. QED
      BY <3>1 DEF Goto
  <2>. QED
    BY <1>step, <2>throw, <2>crash, <2>1, <2>2, <2>4, <2>5, <2>6, <2>8, <2>9, <2>10, <2>12,
       <2>13, <2>15, <2>17, <2>18, <2>20, <2>21
       DEF Progress, Call, StreamStep, CloseStep, EmbedThrows, MapThrows,
           ComputeCrashes, SampleThrows, CallbackThrows, UnmapCrashes
<1>. QED
  BY <1>stutter, <1>finished, <1>step, <1>linger DEF Next

\* A model file with token_embd.weight: no call delivers more than one piece
\* that it sampled after the engine was closed under it.
THEOREM OneLatePieceAtMost == HasEmbedding => (Spec => []AtMostOneLatePiece)
<1>. SUFFICES ASSUME HasEmbedding
              PROVE  Spec => []AtMostOneLatePiece
  OBVIOUS
<1>1. Init => LateInv
  BY DEF Init, LateInv
<1>2. TypeOK /\ LateInv /\ [Next]_vars => LateInv'
  BY NextLateInv
<1>3. LateInv => AtMostOneLatePiece
  <2>1. 0 =< 1 /\ 1 =< 1
    OBVIOUS
  <2>. QED
    BY <2>1 DEF LateInv, AtMostOneLatePiece
<1>. QED
  BY <1>1, <1>2, <1>3, TypeCorrect, PTL DEF Spec

-----------------------------------------------------------------------------
(* With a caller that closes alone.                                         *)

Closing == {"unmap", "closeMmap", "closeEngine"}

ExclusiveInv ==
  /\ crash \in {"none", "task"}
  /\ \A t \in Threads : pc[t] \in Closing =>
       closed /\ \A u \in Threads : u = t \/ pc[u] = "idle"
  /\ closed => \A t \in Threads :
       \/ pc[t] \in Closing \cup {"idle"}
       \/ pc[t] \in {"callback", "embed"} /\ ~engineOpen
  /\ ~closed => mapOpen /\ listed = Mmap!Buffers /\ live = Mmap!Buffers /\ registered = Mmap!Buffers
  /\ \A t \in Threads : pc[t] = "unmap" =>
       /\ listed = {b \in Mmap!Buffers : b >= chunk[t]}
       /\ live = listed
       /\ registered = listed
  /\ \A t \in Threads : pc[t] = "closeMmap" => live = {}
  /\ ~mapOpen => live = {}

\* One round of the unmapping loop takes the buffer of its chunk, if there is
\* one, out of all three sets: nothing before it is left to be equal to it.
LEMMA UnmapExclusive ==
  ASSUME PassInv, ExclusiveInv, NEW t \in Threads, pc[t] = "unmap",
         Mmap!UnmapPointer(cachedPointers[chunk[t]])
  PROVE  /\ UNCHANGED <<chunkOf, mapOpen>>
         /\ listed' = {b \in Mmap!Buffers : b >= chunk[t] + 1}
         /\ live' = listed'
         /\ registered' = listed'
<1>. DEFINE i == chunk[t]
<1>1. /\ i \in Chunks
      /\ Mmap!Buffers = 1..Len(chunkOf)
      /\ Len(chunkOf) \in Nat
  BY DEF PassInv, TypeOK, Mmap!MmapTypeOK, Mmap!Buffers
<1>2. /\ listed = {b \in Mmap!Buffers : b >= i}
      /\ live = listed
      /\ registered = listed
  BY DEF ExclusiveInv
<1>3. UNCHANGED <<chunkOf, mapOpen>>
  BY DEF Mmap!UnmapPointer
<1>4. \A u \in Threads : pc[u] # "store"
  BY DEF ExclusiveInv, Closing
<1>5. CASE i \in Mmap!Buffers
  <2>1. cachedPointers[i] = i
    BY <1>4, <1>5 DEF PassInv, CacheInv
  <2>2. i \in registered
    BY <1>1, <1>2, <1>5
  <2>3. Mmap!FirstEqual(i) = {i}
    <3>1. i \in listed /\ \A d \in listed : i =< d
      BY <1>1, <1>2, <1>5
    <3>2. \A a \in listed : a =< i => a = i
      <4>1. i \in Nat /\ \A a \in listed : a \in Nat /\ a >= i
        BY <1>1, <1>2, ModelAssumption DEF Chunks
      <4>. QED
        BY <4>1
    <3>. QED
      BY <3>1, <3>2 DEF Mmap!FirstEqual, Mmap!SameBytes
  <2>4. /\ listed' = listed \ {i}
        /\ live' = live \ {i}
        /\ registered' = registered \ {i}
    BY <2>1, <2>2, <2>3 DEF Mmap!UnmapPointer
  <2>5. {b \in Mmap!Buffers : b >= i} \ {i} = {b \in Mmap!Buffers : b >= i + 1}
    BY <1>1, <1>5
  <2>. QED
    BY <1>2, <1>3, <2>4, <2>5
<1>6. CASE i \notin Mmap!Buffers
  <2>1. cachedPointers[i] = 0
    BY <1>1, <1>6 DEF PassInv, CacheInv
  <2>2. 0 \notin registered
    BY <1>1, <1>2
  <2>3. UNCHANGED <<listed, live, registered>>
    BY <2>1, <2>2 DEF Mmap!UnmapPointer
  <2>4. {b \in Mmap!Buffers : b >= i} = {b \in Mmap!Buffers : b >= i + 1}
    <3>1. i \in Nat
      BY <1>1, ModelAssumption DEF Chunks
    <3>. QED
      BY <1>1, <1>6, <3>1
  <2>. QED
    BY <1>2, <1>3, <2>3, <2>4
<1>. QED
  BY <1>5, <1>6

LEMMA NextExclusiveInv ==
  ASSUME exclusive, HasEmbedding, PassInv, ExclusiveInv, [Next]_vars
  PROVE  ExclusiveInv'
<1>. USE DEF mmapVars, sharedVars, localVars, Closing
<1>types. TypeOK
  BY DEF PassInv
<1>stutter. CASE UNCHANGED vars
  BY <1>stutter DEF vars, ExclusiveInv, Mmap!Buffers
<1>finished. CASE Finished
  BY <1>finished, <1>stutter DEF Finished
<1>linger. ASSUME NEW b \in stragglers, Linger(b)
           PROVE  ExclusiveInv'
  BY <1>linger, LingerChanges DEF ExclusiveInv, Mmap!Buffers
<1>step. ASSUME NEW t \in Threads, Progress(t) \/ Call(t)
         PROVE  ExclusiveInv'
  \* A thread that streams, or stops, while the model is open or its engine closed.
  <2>goto. ASSUME NEW l, Goto(t, l), l \notin Closing, pc[t] \notin Closing,
                  UNCHANGED <<mmapVars, closed, engineOpen, crash>>,
                  \A u \in Threads : u = t \/ UNCHANGED chunk[u],
                  \/ l = "idle"
                  \/ closed => l \in {"callback", "embed"} /\ ~engineOpen,
                  l # "idle" /\ pc[t] = "idle" => ~closed
           PROVE  ExclusiveInv'
    BY <1>types, <2>goto DEF Goto, TypeOK, ExclusiveInv, Mmap!Buffers
  <2>open. pc[t] \in {"enter", "resolve", "store", "compute", "sample"} => ~closed
    BY DEF ExclusiveInv
  <2>chunk. \A n : chunk' = [chunk EXCEPT ![t] = n] =>
              \A u \in Threads : u = t \/ UNCHANGED chunk[u]
    BY <1>types DEF TypeOK
  <2>end. EndCall(t) => Goto(t, "idle") /\ \A u \in Threads : u = t \/ UNCHANGED chunk[u]
    BY <1>types DEF EndCall, TypeOK
  <2>leaving. ASSUME NEW left, ThrowLeaving(t, left), pc[t] \notin Closing
              PROVE  ExclusiveInv'
    BY <2>leaving, <2>end, <2>goto DEF ThrowLeaving
  <2>throw. ASSUME Throw(t), pc[t] \notin Closing
            PROVE  ExclusiveInv'
    BY <2>throw, <2>leaving DEF Throw
  <2>10. CASE ComputeThrows(t)
    BY <2>10, <2>leaving, ComputeThrowsLeaving
  <2>1. CASE Start(t)
    BY <2>1, <2>goto DEF Start
  <2>2. CASE Embed(t)
    BY <2>2, <2>goto DEF Embed, EmbeddingFails, ExclusiveInv
  <2>4. CASE Enter(t)
    BY <2>4, <2>goto, <2>open, <2>chunk DEF Enter
  <2>5. CASE UseCached(t)
    BY <2>5, <2>goto, <2>open DEF UseCached
  <2>6. CASE MapFirst(t)
    <3>1. /\ pc[t] = "resolve" /\ ~closed
          /\ Goto(t, "store")
          /\ UNCHANGED <<closed, engineOpen, crash, mapOpen>>
          /\ mapOpen
      BY <2>6, <2>open DEF MapFirst, Mmap!MapChunkPointer, Mmap!Mappable
    <3>2. /\ Mmap!Buffers' = Mmap!Buffers \cup {Len(chunkOf) + 1}
          /\ listed' = listed \cup {Len(chunkOf) + 1}
          /\ live' = live \cup {Len(chunkOf) + 1}
          /\ registered' = registered \cup {Len(chunkOf) + 1}
      <4>1. /\ Mmap!MapChunkPointer(chunk[t])
            /\ chunk[t] \in Chunks
            /\ Mmap!MmapTypeOK
        BY <2>6, <1>types DEF MapFirst, TypeOK
      <4>2. Mmap!Buffers' = Mmap!Buffers \cup {Len(chunkOf) + 1}
        BY <4>1, MapKeepsTypes
      <4>. QED
        BY <4>1, <4>2 DEF Mmap!MapChunkPointer, Mmap!NewBuffer
    <3>. QED
      BY <1>types, <3>1, <3>2 DEF TypeOK, ExclusiveInv, Goto
  <2>8. CASE Store(t)
    BY <2>8, <2>goto, <2>open DEF Store
  <2>9. CASE Compute(t)
    <3>1. CASE chunk[t] < NumChunks
      BY <2>9, <3>1, <2>goto, <2>open, <2>chunk DEF Compute
    <3>2. CASE ~(chunk[t] < NumChunks)
      BY <2>9, <3>2, <2>goto, <2>open, <2>chunk DEF Compute
    <3>. QED
      BY <3>1, <3>2
  <2>11. CASE ComputeCrashes(t)
    <3>1. pc[t] = "compute" /\ ptr[t] \notin live
      BY <2>11 DEF ComputeCrashes
    <3>2. live = Mmap!Buffers
      BY <3>1, <2>open DEF ExclusiveInv
    <3>3. ptr[t] \in Mmap!Buffers
      <4>1. chunk[t] \in Chunks /\ chunk[t] # 0
        BY <1>types, ModelAssumption DEF TypeOK, Chunks
      <4>. QED
        BY <3>1, <4>1 DEF PassInv, CacheInv
    <3>. QED
      BY <3>1, <3>2, <3>3
  <2>12. CASE Return(t)
    BY <2>12, <2>end, <2>goto DEF Return
  <2>13. CASE Sample(t)
    BY <2>13, <2>goto, <2>open DEF Sample
  <2>15. CASE CallbackReturns(t)
    BY <2>15, <2>goto DEF CallbackReturns, ExclusiveInv
  <2>17. CASE BeginClose(t)
    <3>1. /\ ~closed /\ closed'
          /\ \A u \in Threads \ {t} : pc[u] = "idle"
          /\ pc' = [pc EXCEPT ![t] = "unmap"]
          /\ chunk' = [chunk EXCEPT ![t] = 1]
          /\ UNCHANGED <<mmapVars, engineOpen, crash>>
      BY <2>17 DEF BeginClose, Goto
    <3>2. {b \in Mmap!Buffers : b >= 1} = Mmap!Buffers
      <4>1. Mmap!Buffers = 1..Len(chunkOf) /\ Len(chunkOf) \in Nat
        BY <1>types DEF TypeOK, Mmap!MmapTypeOK, Mmap!Buffers
      <4>. QED
        BY <4>1
    <3>3. Mmap!Buffers' = Mmap!Buffers
      BY <3>1 DEF Mmap!Buffers
    <3>. QED
      BY <1>types, <3>1, <3>2, <3>3 DEF TypeOK, ExclusiveInv
  <2>18. CASE Unmap(t)
    <3>1. /\ pc[t] = "unmap"
          /\ Mmap!UnmapPointer(cachedPointers[chunk[t]])
          /\ UNCHANGED <<closed, engineOpen, crash>>
      BY <2>18 DEF Unmap
    <3>2. /\ UNCHANGED <<chunkOf, mapOpen>>
          /\ listed' = {b \in Mmap!Buffers : b >= chunk[t] + 1}
          /\ live' = listed'
          /\ registered' = listed'
      BY <3>1, UnmapExclusive
    <3>3. ~mapOpen => live' = {}
      BY <3>1, <3>2 DEF Mmap!UnmapPointer, ExclusiveInv
    <3>4. closed /\ \A u \in Threads : u = t \/ pc[u] = "idle"
      BY <3>1 DEF ExclusiveInv
    <3>5. Mmap!Buffers' = Mmap!Buffers
      BY <3>2 DEF Mmap!Buffers
    <3>6. CASE chunk[t] < NumChunks
      <4>1. UNCHANGED pc /\ chunk' = [chunk EXCEPT ![t] = chunk[t] + 1]
        BY <2>18, <3>6 DEF Unmap
      <4>. QED
        BY <1>types, <3>1, <3>2, <3>3, <3>4, <3>5, <4>1 DEF TypeOK, ExclusiveInv
    <3>7. CASE ~(chunk[t] < NumChunks)
      <4>1. pc' = [pc EXCEPT ![t] = "closeMmap"] /\ UNCHANGED chunk
        BY <2>18, <3>7 DEF Unmap, Goto
      <4>2. live' = {}
        <5>1. chunk[t] \in 1..NumChunks /\ \A b \in Mmap!Buffers : b \in 1..NumChunks
          <6>1. Mmap!Chunks = Chunks
            BY DEF Mmap!Chunks, Chunks
          <6>2. \A b \in Mmap!Buffers : chunkOf[b] \in Chunks
            BY <1>types, <6>1 DEF TypeOK, Mmap!MmapTypeOK, Mmap!Buffers
          <6>. QED
            BY <1>types, <6>2 DEF PassInv, CacheInv, TypeOK, Chunks
        <5>. QED
          BY <3>2, <3>7, <5>1, ModelAssumption
      <4>. QED
        BY <1>types, <3>1, <3>4, <3>5, <4>1, <4>2 DEF TypeOK, ExclusiveInv
    <3>. QED
      BY <3>6, <3>7
  <2>19. CASE UnmapCrashes(t)
    BY <2>19 DEF UnmapCrashes, ExclusiveInv, Mmap!UnmapReadsDead
  <2>20. CASE CloseMmap(t)
    <3>1. /\ pc[t] = "closeMmap"
          /\ pc' = [pc EXCEPT ![t] = "closeEngine"]
          /\ live' = live \ listed
          /\ UNCHANGED <<chunk, closed, engineOpen, crash>>
      BY <2>20 DEF CloseMmap, Mmap!CloseMmap, Goto
    <3>2. /\ live = {} /\ closed
          /\ \A u \in Threads : u = t \/ pc[u] = "idle"
      BY <3>1 DEF ExclusiveInv
    <3>. QED
      BY <1>types, <3>1, <3>2 DEF TypeOK, ExclusiveInv
  <2>21. CASE CloseEngine(t)
    <3>1. /\ pc[t] = "closeEngine"
          /\ pc' = [pc EXCEPT ![t] = resume[t]]
          /\ resume[t] \in {"idle", "callback"}
          /\ ~engineOpen'
          /\ UNCHANGED <<mmapVars, chunk, closed, crash>>
      BY <2>21, <1>types DEF CloseEngine, Goto, TypeOK
    <3>2. closed /\ \A u \in Threads : u = t \/ pc[u] = "idle"
      BY <3>1 DEF ExclusiveInv
    <3>. QED
      BY <1>types, <3>1, <3>2 DEF TypeOK, ExclusiveInv, Mmap!Buffers
  <2>. QED
    BY <1>step, <2>throw, <2>1, <2>2, <2>4, <2>5, <2>6, <2>8, <2>9, <2>10, <2>11, <2>12,
       <2>13, <2>15, <2>17, <2>18, <2>19, <2>20, <2>21
       DEF Progress, Call, StreamStep, CloseStep, EmbedThrows, MapThrows, SampleThrows,
           CallbackThrows
<1>. QED
  BY <1>stutter, <1>finished, <1>step, <1>linger DEF Next

LEMMA ExclusiveInvariant == HasEmbedding => (Spec => [](exclusive => ExclusiveInv))
<1>. SUFFICES ASSUME HasEmbedding
              PROVE  Spec => [](exclusive => ExclusiveInv)
  OBVIOUS
<1>1. Init => (exclusive => ExclusiveInv)
  BY DEF Init, Mmap!MmapInit, ExclusiveInv, Closing, Mmap!Buffers
<1>2. [Next]_vars => UNCHANGED exclusive
  <2>1. ASSUME NEW t \in Threads, Progress(t) \/ Call(t)
        PROVE  UNCHANGED exclusive
    BY <2>1 DEF Progress, Call, StreamStep, CloseStep, Start, Embed, EmbedThrows, Enter,
       UseCached, MapFirst, MapThrows, Store, Compute, ComputeThrows, ComputeCrashes, Return,
       Sample, SampleThrows, CallbackReturns, CallbackThrows, BeginClose, Unmap, UnmapCrashes,
       CloseMmap, CloseEngine, Throw, ThrowLeaving, Crash, sharedVars
  <2>. QED
    BY <2>1, LingerChanges DEF Next, Finished, vars, sharedVars
<1>3. PassInv /\ (exclusive => ExclusiveInv) /\ [Next]_vars => (exclusive => ExclusiveInv)'
  BY <1>2, NextExclusiveInv
<1>. QED
  BY <1>1, <1>3, PassInvariant, PTL DEF Spec

\* A caller that closes only while no other thread streams, be it from its own
\* token callback, is safe from its calls, whatever they throw: no pass and no
\* close() reads a view that is gone.
THEOREM ExclusiveCloseIsSafe == HasEmbedding => (Spec => []CallsReadMapped)
<1>1. (exclusive => ExclusiveInv) => CallsReadMapped
  BY DEF ExclusiveInv, CallsReadMapped
<1>. QED
  BY <1>1, ExclusiveInvariant, PTL

\* Without rows for the pool no task is left behind.
TasklessInv == stragglers = {} /\ crash # "task"

LEMMA NextTasklessInv ==
  "pool" \notin Kernels /\ TasklessInv /\ [Next]_vars => TasklessInv'
<1>. SUFFICES ASSUME "pool" \notin Kernels, TasklessInv, [Next]_vars
              PROVE  TasklessInv'
  OBVIOUS
<1>1. ASSUME NEW t \in Threads, Progress(t) \/ Call(t)
      PROVE  TasklessInv'
  <2>1. CASE ComputeThrows(t)
    BY <2>1 DEF ComputeThrows, LeftBehind, ThrowLeaving, TasklessInv
  <2>2. CASE ~ComputeThrows(t)
    BY <1>1, <2>2 DEF TasklessInv, Progress, Call, StreamStep, CloseStep, Start, Embed,
       EmbedThrows, Enter, UseCached, MapFirst, MapThrows, Store, Compute, ComputeCrashes,
       Return, Sample, SampleThrows, CallbackReturns, CallbackThrows, BeginClose, Unmap,
       UnmapCrashes, CloseMmap, CloseEngine, Throw, ThrowLeaving, Crash, sharedVars
  <2>. QED
    BY <2>1, <2>2
<1>. QED
  BY <1>1 DEF TasklessInv, Next, Finished, vars, sharedVars

\* When no product needs the pool, nobody at all reads a view that is gone if
\* close() never runs beside the stream() of another thread.
THEOREM ExclusiveCloseWithoutPool ==
  HasEmbedding /\ "pool" \notin Kernels => (Spec => [](exclusive => NoUseAfterUnmap))
<1>. SUFFICES ASSUME HasEmbedding, "pool" \notin Kernels
              PROVE  Spec => [](exclusive => NoUseAfterUnmap)
  OBVIOUS
<1>1. Init => TasklessInv
  BY DEF Init, TasklessInv
<1>2. TasklessInv /\ [Next]_vars => TasklessInv'
  BY NextTasklessInv
<1>3. TasklessInv /\ CallsReadMapped => (exclusive => NoUseAfterUnmap)
  BY DEF TasklessInv, CallsReadMapped, NoUseAfterUnmap
<1>. QED
  BY <1>1, <1>2, <1>3, ExclusiveCloseIsSafe, PTL DEF Spec

\* For that caller close() leaves no view behind whatever the file holds, equal
\* chunks included.
THEOREM ExclusiveCloseLeavesNoView ==
  HasEmbedding => (Spec => [](exclusive => NothingLeftMapped))
<1>1. (exclusive => ExclusiveInv) => (exclusive => NothingLeftMapped)
  BY DEF ExclusiveInv, NothingLeftMapped
<1>. QED
  BY <1>1, ExclusiveInvariant, PTL

-----------------------------------------------------------------------------
(***************************************************************************)
(* StreamingModel implements WeightViews when no two chunks of one size    *)
(* hold the same bytes.                                                    *)
(***************************************************************************)

(* close() runs once, by one thread, and the registry is open until it gets *)
(* there.                                                                   *)

CloserInv ==
  /\ \A t \in Threads : pc[t] \in Closing =>
       closed /\ \A u \in Threads : u = t \/ pc[u] \notin Closing
  /\ \A t \in Threads : pc[t] \in {"unmap", "closeMmap"} => mapOpen
  /\ ~closed => mapOpen

LEMMA InitCloserInv == Init => CloserInv
BY DEF Init, Mmap!MmapInit, CloserInv, Closing

LEMMA NextCloserInv ==
  ASSUME TypeOK, CloserInv, [Next]_vars
  PROVE  CloserInv'
<1>. USE DEF TypeOK, mmapVars, sharedVars, localVars, Closing
<1>stutter. CASE UNCHANGED vars
  BY <1>stutter DEF vars, CloserInv
<1>finished. CASE Finished
  BY <1>finished, <1>stutter DEF Finished
<1>linger. ASSUME NEW b \in stragglers, Linger(b)
           PROVE  CloserInv'
  BY <1>linger, LingerChanges DEF CloserInv
<1>step. ASSUME NEW t \in Threads, Progress(t) \/ Call(t)
         PROVE  CloserInv'
  <2>goto. ASSUME NEW l, Goto(t, l), UNCHANGED <<closed, mapOpen>>,
                  l \in {"unmap", "closeMmap"} => pc[t] = "unmap",
                  l # "closeEngine"
           PROVE  CloserInv'
    BY <2>goto DEF Goto, CloserInv
  <2>leaving. ASSUME NEW left, ThrowLeaving(t, left)
              PROVE  CloserInv'
    BY <2>leaving, <2>goto DEF ThrowLeaving, EndCall
  <2>throw. ASSUME Throw(t)
            PROVE  CloserInv'
    BY <2>throw, <2>leaving DEF Throw
  <2>10. CASE ComputeThrows(t)
    BY <2>10, <2>leaving, ComputeThrowsLeaving
  <2>crash. ASSUME NEW culprit, Crash(culprit)
            PROVE  CloserInv'
    BY <2>crash DEF Crash, CloserInv
  <2>1. CASE Start(t)
    BY <2>1, <2>goto DEF Start
  <2>2. CASE Embed(t)
    BY <2>2, <2>goto DEF Embed
  <2>4. CASE Enter(t)
    BY <2>4, <2>goto DEF Enter
  <2>5. CASE UseCached(t)
    BY <2>5, <2>goto DEF UseCached
  <2>6. CASE MapFirst(t)
    BY <2>6, <2>goto DEF MapFirst, Mmap!MapChunkPointer
  <2>8. CASE Store(t)
    BY <2>8, <2>goto DEF Store
  <2>9. CASE Compute(t)
    BY <2>9, <2>goto DEF Compute
  <2>12. CASE Return(t)
    BY <2>12, <2>goto DEF Return, EndCall
  <2>13. CASE Sample(t)
    BY <2>13, <2>goto DEF Sample
  <2>15. CASE CallbackReturns(t)
    BY <2>15, <2>goto DEF CallbackReturns
  <2>17. CASE BeginClose(t)
    <3>1. ~closed /\ closed' /\ UNCHANGED mapOpen /\ pc' = [pc EXCEPT ![t] = "unmap"]
      BY <2>17 DEF BeginClose, Goto
    <3>. QED
      BY <3>1 DEF CloserInv
  <2>18. CASE Unmap(t)
    <3>1. pc[t] = "unmap" /\ UNCHANGED <<closed, mapOpen>>
      BY <2>18 DEF Unmap, Mmap!UnmapPointer
    <3>2. UNCHANGED pc \/ Goto(t, "closeMmap")
      BY <2>18 DEF Unmap
    <3>. QED
      BY <3>1, <3>2, <2>goto DEF CloserInv
  <2>20. CASE CloseMmap(t)
    <3>1. /\ pc[t] = "closeMmap"
          /\ pc' = [pc EXCEPT ![t] = "closeEngine"]
          /\ UNCHANGED closed
      BY <2>20 DEF CloseMmap, Goto
    <3>. QED
      BY <3>1 DEF CloserInv
  <2>21. CASE CloseEngine(t)
    <3>1. resume[t] \in {"idle", "callback"}
      OBVIOUS
    <3>. QED
      BY <2>21, <3>1, <2>goto DEF CloseEngine
  <2>. QED
    BY <1>step, <2>throw, <2>crash, <2>1, <2>2, <2>4, <2>5, <2>6, <2>8, <2>9, <2>10, <2>12,
       <2>13, <2>15, <2>17, <2>18, <2>20, <2>21
       DEF Progress, Call, StreamStep, CloseStep, EmbedThrows, MapThrows,
           ComputeCrashes, SampleThrows, CallbackThrows, UnmapCrashes
<1>. QED
  BY <1>stutter, <1>finished, <1>step, <1>linger DEF Next

-----------------------------------------------------------------------------
(* The refinement, step by step.                                            *)

\* Buffers are numbered like their chunks, so a view is found by its number.
ViewsByNumber ==
  \A c \in Chunks :
    ViewOf(c) = IF c \notin Mmap!Buffers THEN "fresh"
                ELSE IF c \in live THEN "mapped" ELSE "released"

LEMMA ViewByNumber == PassInv => ViewsByNumber
<1>. SUFFICES ASSUME PassInv
              PROVE  ViewsByNumber
  OBVIOUS
<1>1. /\ live \subseteq Mmap!Buffers
      /\ \A b \in Mmap!Buffers : chunkOf[b] = b
  BY DEF PassInv, TypeOK, Mmap!MmapTypeOK, CacheInv
<1>. QED
  BY <1>1 DEF ViewsByNumber, ViewOf

LEMMA ViewByNumberNext == PassInv' => ViewsByNumber'
BY ViewByNumber, PTL

LEMMA InitViews == Init => Views!Init
BY ModelAssumption DEF Init, Mmap!MmapInit, Views!Init, ViewOf, Mmap!Buffers

LEMMA MapFirstViews ==
  ASSUME PassInv, PassInv', NEW t \in Threads, MapFirst(t)
  PROVE  Views!Map(chunk[t])
<1>. DEFINE c == chunk[t]
<1>1. /\ Mmap!MapChunkPointer(c) /\ c \in Chunks /\ Mmap!MmapTypeOK
      /\ pc[t] = "resolve" /\ cachedPointers[c] = 0
      /\ pc'[t] = "store" /\ chunk' = chunk /\ ptr'[t] = Len(chunkOf')
      /\ UNCHANGED closed
  BY DEF MapFirst, PassInv, TypeOK, Goto, sharedVars
<1>2. Len(chunkOf') = c
  BY <1>1 DEF PassInv, CacheInv
<1>3. Mmap!Buffers' = Mmap!Buffers \cup {c} /\ c \notin Mmap!Buffers
  <2>1. /\ Len(chunkOf) \in Nat
        /\ Mmap!Buffers = 1..Len(chunkOf)
    BY <1>1 DEF Mmap!MmapTypeOK, Mmap!Buffers
  <2>2. /\ Mmap!Buffers' = Mmap!Buffers \cup {Len(chunkOf')}
        /\ Len(chunkOf') = Len(chunkOf) + 1
    BY <1>1, MapKeepsTypes
  <2>. QED
    BY <1>2, <2>1, <2>2
<1>4. live' = live \cup {c} /\ mapOpen /\ mapOpen'
  <2>1. Len(chunkOf') = Len(chunkOf) + 1
    BY <1>1, MapKeepsTypes
  <2>. QED
    BY <1>1, <1>2, <2>1 DEF Mmap!MapChunkPointer, Mmap!NewBuffer, Mmap!Mappable
<1>5. \A d \in Chunks : ViewOf(d)' = IF d = c THEN "mapped" ELSE ViewOf(d)
  <2>. TAKE d \in Chunks
  <2>1. ViewOf(d)' = IF d \notin Mmap!Buffers' THEN "fresh"
                     ELSE IF d \in live' THEN "mapped" ELSE "released"
    BY ViewByNumberNext DEF ViewsByNumber
  <2>. QED
    BY <1>3, <1>4, <2>1, ViewByNumber DEF ViewsByNumber
<1>6. ViewOf(c) = "fresh"
  BY <1>1, <1>3, ViewByNumber DEF ViewsByNumber
<1>. QED
  BY <1>1, <1>4, <1>5, <1>6 DEF Views!Map

LEMMA UnmapViews ==
  ASSUME PassInv, PassInv', CloserInv, Mmap!RegistryExact, DistinctContents,
         NEW t \in Threads, Unmap(t)
  PROVE  (\E c \in Chunks : Views!Release(c)) \/ UNCHANGED Views!viewVars
<1>. DEFINE p == cachedPointers[chunk[t]]
<1>1. /\ closed /\ closed' /\ mapOpen /\ mapOpen'
      /\ UNCHANGED chunkOf
      /\ live' = IF p \in registered THEN live \ {p} ELSE live
  BY DEF Unmap, Mmap!UnmapPointer, CloserInv, Closing, sharedVars
<1>2. \A d \in Chunks : ViewOf(d)' = IF d \notin Mmap!Buffers THEN "fresh"
                                     ELSE IF d \in live' THEN "mapped" ELSE "released"
  <2>1. Mmap!Buffers' = Mmap!Buffers
    BY <1>1 DEF Mmap!Buffers
  <2>. QED
    BY <2>1, ViewByNumberNext DEF ViewsByNumber
<1>3. CASE p \in registered
  <2>1. p \in live /\ p \in Mmap!Buffers
    BY <1>1, <1>3 DEF Mmap!RegistryExact, PassInv, TypeOK, Mmap!MmapTypeOK
  <2>2. p \in Chunks
    <3>1. Mmap!Chunks = Chunks
      BY DEF Mmap!Chunks, Chunks
    <3>2. chunkOf[p] \in Chunks
      BY <2>1, <3>1 DEF PassInv, TypeOK, Mmap!MmapTypeOK, Mmap!Buffers
    <3>. QED
      BY <2>1, <3>2 DEF PassInv, CacheInv
  <2>3. ViewOf(p) = "mapped"
    BY <2>1, <2>2, ViewByNumber DEF ViewsByNumber
  <2>4. \A d \in Chunks : ViewOf(d)' = IF d = p THEN "released" ELSE ViewOf(d)
    BY <1>1, <1>2, <1>3, <2>1, ViewByNumber DEF ViewsByNumber
  <2>5. Views!Release(p)
    BY <1>1, <2>2, <2>3, <2>4 DEF Views!Release
  <2>. QED
    BY <2>2, <2>5
<1>4. CASE p \notin registered
  <2>1. \A d \in Chunks : ViewOf(d)' = ViewOf(d)
    BY <1>1, <1>2, <1>4, ViewByNumber DEF ViewsByNumber
  <2>. QED
    BY <1>1, <2>1 DEF Views!viewVars
<1>. QED
  BY <1>3, <1>4

LEMMA CloseMmapViews ==
  ASSUME PassInv, PassInv', CloserInv, Mmap!RegistryExact, NEW t \in Threads, CloseMmap(t)
  PROVE  Views!Shutdown
<1>1. /\ closed /\ closed' = closed /\ mapOpen /\ ~mapOpen'
      /\ UNCHANGED chunkOf
      /\ live' = {}
  BY DEF CloseMmap, Mmap!CloseMmap, CloserInv, Closing, sharedVars, Mmap!RegistryExact
<1>2. \A d \in Chunks : ViewOf(d)' = IF ViewOf(d) = "mapped" THEN "released" ELSE ViewOf(d)
  <2>1. Mmap!Buffers' = Mmap!Buffers
    BY <1>1 DEF Mmap!Buffers
  <2>2. \A d \in Chunks : ViewOf(d)' = IF d \notin Mmap!Buffers THEN "fresh" ELSE "released"
    BY <1>1, <2>1, ViewByNumberNext DEF ViewsByNumber
  <2>. QED
    BY <2>2, ViewByNumber DEF ViewsByNumber
<1>. QED
  BY <1>1, <1>2 DEF Views!Shutdown

LEMMA NextViews ==
  ASSUME PassInv, PassInv', CloserInv, Mmap!RegistryExact, DistinctContents, [Next]_vars
  PROVE  [Views!Next]_Views!viewVars
<1>same. ASSUME UNCHANGED <<mmapVars, closed>>
         PROVE  UNCHANGED Views!viewVars
  BY <1>same DEF mmapVars, Views!viewVars, ViewOf, Mmap!Buffers
<1>stutter. CASE UNCHANGED vars
  BY <1>stutter, <1>same DEF vars, sharedVars
<1>finished. CASE Finished
  BY <1>finished, <1>stutter DEF Finished
<1>linger. ASSUME NEW b \in stragglers, Linger(b)
           PROVE  [Views!Next]_Views!viewVars
  BY <1>linger, <1>same, LingerChanges
<1>step. ASSUME NEW t \in Threads, Progress(t) \/ Call(t)
         PROVE  [Views!Next]_Views!viewVars
  <2>1. CASE MapFirst(t)
    BY <2>1, MapFirstViews DEF Views!Next, PassInv, TypeOK
  <2>2. CASE Unmap(t)
    BY <2>2, UnmapViews DEF Views!Next
  <2>3. CASE CloseMmap(t)
    BY <2>3, CloseMmapViews DEF Views!Next
  <2>4. CASE BeginClose(t)
    <3>1. ~closed /\ closed' /\ UNCHANGED mmapVars
      BY <2>4 DEF BeginClose
    <3>2. \A d \in Chunks : ViewOf(d)' = ViewOf(d)
      BY <3>1 DEF mmapVars, ViewOf, Mmap!Buffers
    <3>3. Views!BeginClose
      BY <3>1, <3>2 DEF Views!BeginClose, mmapVars
    <3>. QED
      BY <3>3 DEF Views!Next
  <2>5. CASE ~MapFirst(t) /\ ~Unmap(t) /\ ~CloseMmap(t) /\ ~BeginClose(t)
    <3>1. UNCHANGED <<mmapVars, closed>>
      BY <1>step, <2>5 DEF Progress, Call, StreamStep, CloseStep, Start, Embed, EmbedThrows,
         Enter, UseCached, MapThrows, Store, Compute, ComputeThrows, ComputeCrashes, Return,
         Sample, SampleThrows, CallbackReturns, CallbackThrows, UnmapCrashes, CloseEngine,
         Throw, ThrowLeaving, Crash, sharedVars
    <3>. QED
      BY <3>1, <1>same
  <2>. QED
    BY <2>1, <2>2, <2>3, <2>4, <2>5
<1>. QED
  BY <1>stutter, <1>finished, <1>step, <1>linger DEF Next

\* The pipeline implements its abstract specification: whatever the threads do,
\* every chunk gets at most one view, which only close() takes away, and no view
\* outlives the registry.
THEOREM PipelineImplementsViews == DistinctContents => (Spec => ViewsSpec)
<1>. SUFFICES ASSUME DistinctContents
              PROVE  Spec => ViewsSpec
  OBVIOUS
<1>1. TypeOK /\ CloserInv /\ [Next]_vars => CloserInv'
  BY NextCloserInv
<1>2. PassInv /\ PassInv' /\ CloserInv /\ Mmap!RegistryExact /\ [Next]_vars
        => [Views!Next]_Views!viewVars
  BY NextViews
<1>3. Spec => []Mmap!RegistryExact
  BY RegistryStaysExact
<1>. QED
  BY <1>1, <1>2, <1>3, InitViews, InitCloserInv, TypeCorrect, PassInvariant, PTL
     DEF Spec, ViewsSpec, Views!Spec
=============================================================================
