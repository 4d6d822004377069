----------------------- MODULE PersistentKVCache_proofs -----------------------
(***************************************************************************)
(* Proofs about PersistentKVCache for every number of threads, layers,     *)
(* positions and cells.                                                    *)
(***************************************************************************)
EXTENDS PersistentKVCache, TLAPS

-----------------------------------------------------------------------------
(* Locating a cell. *)

LEMMA TimesIsMonotonic ==
  ASSUME NEW a \in Nat, NEW b \in Nat, NEW c \in Nat, a =< b
  PROVE  a * c =< b * c
BY Z3

LEMMA SmallModulo ==
  ASSUME NEW a \in Nat, NEW b \in Nat \ {0}, a < b
  PROVE  a % b = a
BY Z3

LEMMA ConstantNumbers ==
  /\ NumLayers \in Nat \ {0} /\ MaxTokens \in Nat \ {0}
  /\ MaxPrompt \in Nat \ {0} /\ WrapCells \in Nat \ {0}
  /\ MaxCalls \in Nat
BY CacheAssumption

LEMMA IndexIsNat ==
  ASSUME NEW l \in Nat, NEW p \in Nat
  PROVE  Index(l, p) \in Nat
BY ConstantNumbers DEF Index

\* A layer ends where the next one begins, or before.
LEMMA LayersAreOrdered ==
  ASSUME NEW l \in Nat, NEW m \in Nat, l < m,
         NEW p \in Nat, p < MaxTokens, NEW q \in Nat
  PROVE  Index(l, p) < Index(m, q)
<1>1. (l + 1) * MaxTokens =< m * MaxTokens
  BY ConstantNumbers, TimesIsMonotonic
<1>2. (l + 1) * MaxTokens = l * MaxTokens + MaxTokens
  BY ConstantNumbers
<1>3. l * MaxTokens \in Nat /\ m * MaxTokens \in Nat
  BY ConstantNumbers
<1>. QED
  BY <1>1, <1>2, <1>3, ConstantNumbers DEF Index

\* Two positions within the context never share a cell.
LEMMA IndexIsInjective ==
  ASSUME NEW l \in Nat, NEW p \in Nat, p < MaxTokens,
         NEW m \in Nat, NEW q \in Nat, q < MaxTokens,
         Index(l, p) = Index(m, q)
  PROVE  l = m /\ p = q
<1>1. Index(l, p) \in Nat /\ Index(m, q) \in Nat
  BY IndexIsNat
<1>2. l = m
  BY <1>1, LayersAreOrdered
<1>3. l * MaxTokens \in Nat
  BY ConstantNumbers
<1>. QED
  BY <1>2, <1>3 DEF Index

-----------------------------------------------------------------------------
(* The inductive invariant. *)

\* Who is in a pass runs a call, and calls that run now run beside each other.
PassInv ==
  /\ owner # NoThread => call[owner] # 0
  /\ \A t, u \in Threads : t # u /\ call[t] # 0 /\ call[u] # 0 => call[u] \in beside[t]

\* The call of t, and those that have run beside it.
Running(t) == {call[t]} \cup beside[t]

\* The buffer holds what one of them computed for (l, p), if it has room for it.
Holds(t, l, p) ==
  Storable(l, p) =>
    \E c \in Running(t) : cell[Index(l, p)] = [call |-> c, layer |-> l, pos |-> p]

\* For all positions before the pass of a call, and for those of the pass in the layers
\* it has stored, the buffer holds its own entries, or those written over them by
\* calls beside it.
HeldInv ==
  \A t \in Threads : call[t] # 0 =>
    /\ \A l \in Layers : \A p \in 0..start[t] - 1 : Holds(t, l, p)
    /\ owner = t =>
         \A l \in Layers : l < layer \/ (l = layer /\ phase = "attend") =>
           \A p \in PassPositions(t) : Holds(t, l, p)

\* No pass gets to a layer whose offsets wrap: the reads of a layer before it, beyond
\* the buffer, have thrown.
NoWrapInv == Index(layer, 0) < WrapCells

CacheInv == TypeOK /\ PassInv /\ HeldInv /\ NoWrapInv

LEMMA InitCacheInv == Init => CacheInv
<1>. SUFFICES ASSUME Init
              PROVE  CacheInv
  OBVIOUS
<1>1. 0 \in Layers /\ 1 \in 1..MaxPrompt /\ 0 \in 0..MaxCalls
  BY ConstantNumbers DEF Layers
<1>2. TypeOK
  BY <1>1 DEF Init, TypeOK, Empty
<1>3. PassInv /\ HeldInv
  BY DEF Init, PassInv, HeldInv
<1>4. NoWrapInv
  BY ConstantNumbers DEF Init, NoWrapInv, Index
<1>. QED
  BY <1>2, <1>3, <1>4 DEF CacheInv

\* The positions of a pass, and of the reads in it.
LEMMA PassNumbers ==
  ASSUME TypeOK, NEW t \in Threads
  PROVE  /\ start[t] \in Nat /\ batch[t] \in Nat \ {0} /\ call[t] \in Nat
         /\ layer \in Nat /\ layer < NumLayers /\ capacity \in Nat
         /\ PassPositions(t) \subseteq Nat
         /\ ReadPositions(t) = (0..start[t] - 1) \cup PassPositions(t)
<1>1. start[t] \in Nat /\ batch[t] \in Nat \ {0} /\ call[t] \in Nat
  BY ConstantNumbers DEF TypeOK
<1>2. layer \in Nat /\ layer < NumLayers /\ capacity \in Nat
  BY ConstantNumbers, CacheAssumption DEF TypeOK, Layers
<1>. QED
  BY <1>1, <1>2 DEF PassPositions, ReadPositions

\* storeKV writes the cells of its layer and positions, and no others.
LEMMA StoreWrites ==
  ASSUME TypeOK, NEW t \in Threads, StoreKV(t), NEW i \in 0..capacity - 1
  PROVE  \/ /\ cell'[i] = cell[i]
            /\ \A p \in PassPositions(t) : ~(Storable(layer, p) /\ Index(layer, p) = i)
         \/ \E p \in PassPositions(t) :
              /\ Storable(layer, p) /\ Index(layer, p) = i
              /\ cell'[i] = Tag(t, layer, p)
<1> DEFINE stored == {p \in PassPositions(t) : Storable(layer, p) /\ Index(layer, p) = i}
           last == CHOOSE p \in stored : \A q \in stored : q =< p
<1>1. DOMAIN cell = 0..capacity - 1
  BY DEF TypeOK
<1>2. cell'[i] = IF stored = {} THEN cell[i] ELSE Tag(t, layer, last)
  BY <1>1 DEF StoreKV
<1>3. \A p, q \in stored : p \in Nat /\ p = q
  BY PassNumbers, IndexIsInjective DEF Storable
<1>4. ASSUME stored # {}
      PROVE  last \in stored
  <2>1. PICK p \in stored : TRUE
    BY <1>4
  <2>2. \A q \in stored : q =< p
    BY <1>3
  <2>. QED
    BY <2>1, <2>2
<1>. HIDE DEF last
<1>5. CASE stored = {}
  BY <1>2, <1>5
<1>6. CASE stored # {}
  BY <1>2, <1>4, <1>6
<1>. QED
  BY <1>5, <1>6

LEMMA NextTypeOK == TypeOK /\ [Next]_vars => TypeOK'
<1>. SUFFICES ASSUME TypeOK, [Next]_vars
              PROVE  TypeOK'
  OBVIOUS
<1>. USE DEF TypeOK
<1>1. ASSUME NEW t \in Threads, Begin(t)
      PROVE  TypeOK'
  <2>1. lastCall + 1 \in 0..MaxCalls
    BY <1>1, ConstantNumbers DEF Begin
  <2>2. batch' \in [Threads -> 1..MaxPrompt]
    BY <1>1 DEF Begin
  <2>3. start' \in [Threads -> Nat] /\ call' \in [Threads -> 0..MaxCalls]
    BY <1>1, <2>1 DEF Begin
  <2>4. beside' \in [Threads -> SUBSET (1..MaxCalls)]
    <3>1. \A n \in 0..MaxCalls : n # 0 => n \in 1..MaxCalls
      BY ConstantNumbers
    <3>2. lastCall + 1 \in 1..MaxCalls
      BY <1>1, ConstantNumbers DEF Begin
    <3>3. {call[v] : v \in Threads} \ {0} \subseteq 1..MaxCalls
      BY <3>1
    <3>. QED
      BY <1>1, <3>2, <3>3 DEF Begin
  <2>. QED
    BY <1>1, <2>1, <2>2, <2>3, <2>4 DEF Begin
<1>2. ASSUME NEW t \in Threads, Enter(t)
      PROVE  TypeOK'
  BY <1>2, ConstantNumbers DEF Enter, Layers
<1>3. ASSUME NEW t \in Threads, StoreKV(t)
      PROVE  TypeOK'
  <2>1. \A i \in 0..capacity - 1 : cell'[i] \in [call : Nat, layer : Nat, pos : Nat]
    <3>. SUFFICES ASSUME NEW i \in 0..capacity - 1
                  PROVE  cell'[i] \in [call : Nat, layer : Nat, pos : Nat]
      OBVIOUS
    <3>1. \A p \in PassPositions(t) : Tag(t, layer, p) \in [call : Nat, layer : Nat, pos : Nat]
      BY PassNumbers DEF Tag
    <3>2. cell[i] \in [call : Nat, layer : Nat, pos : Nat]
      OBVIOUS
    <3>3. cell'[i] = cell[i] \/ \E p \in PassPositions(t) : cell'[i] = Tag(t, layer, p)
      BY <1>3, StoreWrites
    <3>. QED
      BY ONLY <3>1, <3>2, <3>3
  <2>2. cell' \in [0..capacity - 1 -> [call : Nat, layer : Nat, pos : Nat]]
    BY <1>3, <2>1 DEF StoreKV
  <2>. QED
    BY <1>3, <2>2 DEF StoreKV
<1>4. ASSUME NEW t \in Threads, NextLayer(t)
      PROVE  TypeOK'
  BY <1>4, ConstantNumbers DEF NextLayer, Layers
<1>5. ASSUME NEW t \in Threads, Leave(t)
      PROVE  TypeOK'
  <2>1. start' \in [Threads -> Nat] /\ batch' \in [Threads -> 1..MaxPrompt]
    BY <1>5, ConstantNumbers, PassNumbers DEF Leave
  <2>. QED
    BY <1>5, <2>1, ConstantNumbers DEF Leave, Layers
<1>6. ASSUME NEW t \in Threads, End(t)
      PROVE  TypeOK'
  BY <1>6, ConstantNumbers DEF End
<1>7. ASSUME NEW t \in Threads, Abort(t)
      PROVE  TypeOK'
  BY <1>7, ConstantNumbers DEF Abort, Layers
<1>8. CASE UNCHANGED vars
  BY <1>8 DEF vars
<1>. QED
  BY <1>1, <1>2, <1>3, <1>4, <1>5, <1>6, <1>7, <1>8 DEF Next

LEMMA NextPassInv == TypeOK /\ PassInv /\ [Next]_vars => PassInv'
<1>. SUFFICES ASSUME TypeOK, PassInv, [Next]_vars
              PROVE  PassInv'
  OBVIOUS
<1>. USE DEF TypeOK, PassInv
<1>1. ASSUME NEW t \in Threads, Begin(t)
      PROVE  PassInv'
  <2>1. \A u \in Threads : call'[u] = IF u = t THEN lastCall + 1 ELSE call[u]
    BY <1>1 DEF Begin
  <2>2. owner' # NoThread => call'[owner'] # 0
    BY <1>1, <2>1 DEF Begin
  <2>3. \A u \in Threads : u # t /\ call[u] # 0 =>
          /\ call[u] \in beside'[t]
          /\ beside'[u] = beside[u] \cup {lastCall + 1}
    BY <1>1 DEF Begin
  <2>4. ASSUME NEW u \in Threads, NEW v \in Threads, u # v, call'[u] # 0, call'[v] # 0
        PROVE  call'[v] \in beside'[u]
    <3>1. CASE u = t
      BY <2>1, <2>3, <2>4, <3>1
    <3>2. CASE u # t /\ v = t
      BY <2>1, <2>3, <2>4, <3>2
    <3>3. CASE u # t /\ v # t
      BY <2>1, <2>3, <2>4, <3>3
    <3>. QED
      BY <3>1, <3>2, <3>3
  <2>. QED
    BY <2>2, <2>4
<1>2. ASSUME NEW t \in Threads, Enter(t)
      PROVE  PassInv'
  BY <1>2 DEF Enter
<1>3. ASSUME NEW t \in Threads, StoreKV(t) \/ NextLayer(t)
      PROVE  PassInv'
  BY <1>3 DEF StoreKV, NextLayer
<1>4. ASSUME NEW t \in Threads, Leave(t)
      PROVE  PassInv'
  BY <1>4 DEF Leave
<1>5. ASSUME NEW t \in Threads, End(t) \/ Abort(t)
      PROVE  PassInv'
  <2>1. call' = [call EXCEPT ![t] = 0] /\ owner' \in {owner, NoThread} /\ owner' # t
        /\ beside' = [beside EXCEPT ![t] = {}]
    BY <1>5, CacheAssumption DEF End, Abort
  <2>. QED
    BY <2>1
<1>6. CASE UNCHANGED vars
  BY <1>6 DEF vars
<1>. QED
  BY <1>1, <1>2, <1>3, <1>4, <1>5, <1>6 DEF Next

\* Attention that has not thrown has read within the buffer, so the layer behind it
\* is in the range of the casts.
LEMMA ReadsStayInside ==
  ASSUME TypeOK, NoWrapInv, NEW t \in Threads, ~Throws(t), NEW p \in ReadPositions(t),
         p < MaxTokens
  PROVE  /\ Index(layer, MaxTokens) < WrapCells
         /\ ReadIndex(t, p) = Index(layer, p) /\ Storable(layer, p)
<1>1. /\ layer \in Nat /\ capacity \in Nat /\ p \in Nat
      /\ 0 \in ReadPositions(t)
  BY PassNumbers DEF ReadPositions
<1>2. /\ layer * MaxTokens \in Nat
      /\ capacity + MaxTokens =< WrapCells
      /\ MaxTokens \in Nat \ {0} /\ WrapCells \in Nat \ {0}
  BY <1>1, ConstantNumbers, LayerAssumption DEF TypeOK
<1>3. CASE UsesNative(t)
  BY <1>1, <1>2, <1>3 DEF UsesNative, SegmentFits, Index, ReadIndex, Storable
<1>4. CASE ~UsesNative(t)
  <2>1. \A q \in ReadPositions(t) : IntIndex(layer, q) < capacity
    <3>1. \A q \in ReadPositions(t) : ~(IntIndex(layer, q) >= capacity)
      BY <1>4 DEF Throws
    <3>2. \A q \in ReadPositions(t) : IntIndex(layer, q) \in Nat
      <4>1. \A q \in ReadPositions(t) : Index(layer, q) \in Nat
        BY <1>1, IndexIsNat, PassNumbers DEF ReadPositions
      <4>. QED
        BY <1>2, <4>1 DEF IntIndex
    <3>. QED
      BY <1>1, <3>1, <3>2
  <2>2. Index(layer, 0) \in Nat /\ Index(layer, p) \in Nat
    BY <1>1, IndexIsNat
  <2>3. IntIndex(layer, 0) = Index(layer, 0)
    BY <1>2, <2>2, SmallModulo DEF IntIndex, NoWrapInv
  <2>4. Index(layer, 0) < capacity
    BY <1>1, <2>1, <2>3
  <2>5. Index(layer, MaxTokens) < WrapCells /\ Index(layer, p) < WrapCells
    BY <1>1, <1>2, <2>4 DEF Index
  <2>6. IntIndex(layer, p) = Index(layer, p)
    BY <1>2, <2>2, <2>5, SmallModulo DEF IntIndex
  <2>. QED
    BY <1>4, <2>1, <2>5, <2>6 DEF ReadIndex, Storable
<1>. QED
  BY <1>3, <1>4

LEMMA NextNoWrapInv == TypeOK /\ NoWrapInv /\ [Next]_vars => NoWrapInv'
<1>. SUFFICES ASSUME TypeOK, NoWrapInv, [Next]_vars
              PROVE  NoWrapInv'
  OBVIOUS
<1>1. CASE layer' = layer
  BY <1>1 DEF NoWrapInv, Index
<1>2. CASE layer' = 0
  BY <1>2, ConstantNumbers DEF NoWrapInv, Index
<1>3. ASSUME NEW t \in Threads, NextLayer(t)
      PROVE  NoWrapInv'
  <2>1. 0 \in ReadPositions(t)
    BY PassNumbers DEF ReadPositions
  <2>2. Index(layer, MaxTokens) < WrapCells
    BY <1>3, <2>1, ConstantNumbers, ReadsStayInside DEF NextLayer
  <2>3. (layer + 1) * MaxTokens = layer * MaxTokens + MaxTokens /\ layer * MaxTokens \in Nat
    BY <1>3, ConstantNumbers, PassNumbers
  <2>. QED
    BY <1>3, <2>2, <2>3, ConstantNumbers DEF NextLayer, NoWrapInv, Index
<1>. QED
  BY <1>1, <1>2, <1>3 DEF Next, Begin, Enter, StoreKV, Leave, End, Abort, vars

LEMMA NextHeldInv == TypeOK /\ PassInv /\ HeldInv /\ [Next]_vars => HeldInv'
<1>. SUFFICES ASSUME TypeOK, PassInv, HeldInv, [Next]_vars,
                     NEW u \in Threads, call'[u] # 0
              PROVE  /\ \A l \in Layers : \A p \in 0..start'[u] - 1 : Holds(u, l, p)'
                     /\ owner' = u =>
                          \A l \in Layers : l < layer' \/ (l = layer' /\ phase' = "attend") =>
                            \A p \in PassPositions(u)' : Holds(u, l, p)'
  BY DEF HeldInv, PassPositions
<1>old. ASSUME call[u] # 0
        PROVE  /\ \A l \in Layers : \A p \in 0..start[u] - 1 : Holds(u, l, p)
               /\ owner = u =>
                    \A l \in Layers : l < layer \/ (l = layer /\ phase = "attend") =>
                      \A p \in PassPositions(u) : Holds(u, l, p)
  BY <1>old DEF HeldInv
<1>keep. ASSUME UNCHANGED <<capacity, cell>>, call'[u] = call[u], beside[u] \subseteq beside'[u],
                NEW l, NEW p, Holds(u, l, p)
         PROVE  Holds(u, l, p)'
  <2>1. Storable(l, p)' = Storable(l, p) /\ Index(l, p)' = Index(l, p)
    BY <1>keep DEF Storable, Index
  <2>2. Running(u) \subseteq Running(u)'
    BY <1>keep DEF Running
  <2>. QED
    BY <1>keep, <2>1, <2>2 DEF Holds
<1>1. ASSUME NEW t \in Threads, Begin(t), u = t
      PROVE  start'[u] = 0 /\ owner' # u
  <2>1. call[t] = 0 /\ owner' = owner /\ start'[t] = 0
    BY <1>1 DEF Begin, TypeOK
  <2>. QED
    BY <1>1, <2>1, CacheAssumption DEF PassInv
<1>other. ASSUME NEW t \in Threads, Begin(t), u # t
          PROVE  /\ UNCHANGED <<start[u], batch[u], owner, layer, phase, capacity, cell, call[u]>>
                 /\ beside[u] \subseteq beside'[u]
  <2>1. /\ UNCHANGED <<owner, layer, phase, capacity, cell>>
        /\ UNCHANGED start[u] /\ UNCHANGED batch[u] /\ UNCHANGED call[u]
    BY <1>other DEF Begin, TypeOK
  <2>2. beside'[u] = beside[u] \cup {lastCall + 1}
    BY <1>other, <2>1 DEF Begin
  <2>. QED
    BY <2>1, <2>2
<1>2. ASSUME NEW t \in Threads, Enter(t)
      PROVE  /\ UNCHANGED <<beside, call, start, batch, capacity, cell>>
             /\ owner' = t /\ layer' = 0 /\ phase' = "store"
  BY <1>2 DEF Enter
<1>3. ASSUME NEW t \in Threads, StoreKV(t)
      PROVE  /\ \A l \in Layers : \A p \in 0..start'[u] - 1 : Holds(u, l, p)'
             /\ owner' = u =>
                  \A l \in Layers : l < layer' \/ (l = layer' /\ phase' = "attend") =>
                    \A p \in PassPositions(u)' : Holds(u, l, p)'
  <2>1. /\ UNCHANGED <<capacity, owner, layer, call, start, batch, beside>>
        /\ owner = t /\ phase' = "attend"
    BY <1>3 DEF StoreKV
  \* What is stored is the call's own, or that of a call beside it.
  <2>2. call[u] # 0 /\ call[t] \in Running(u)
    BY <2>1, CacheAssumption DEF PassInv, Running
  <2>3. \A l, p : /\ Running(u)' = Running(u) /\ Storable(l, p)' = Storable(l, p)
                  /\ Index(l, p)' = Index(l, p)
    BY <2>1 DEF Running, Storable, Index
  <2>4. /\ layer \in Nat /\ capacity \in Nat /\ start[u] \in Nat
        /\ PassPositions(t) \subseteq Nat /\ PassPositions(u)' = PassPositions(u)
        /\ PassPositions(u) \subseteq Nat
        /\ Layers \subseteq Nat
    BY <2>1, ConstantNumbers, PassNumbers DEF PassPositions, Layers
  \* What the store finds in place, or puts in its place, is of a running call.
  <2>5. ASSUME NEW l \in Layers, NEW p \in Nat,
               Holds(u, l, p) \/ (u = t /\ l = layer /\ p \in PassPositions(u))
        PROVE  Holds(u, l, p)'
    <3>. SUFFICES ASSUME Storable(l, p)
                  PROVE  \E c \in Running(u) :
                           cell'[Index(l, p)] = [call |-> c, layer |-> l, pos |-> p]
      BY <2>3 DEF Holds
    <3>1. Index(l, p) \in 0..capacity - 1 /\ p < MaxTokens
      BY <2>4, IndexIsNat DEF Storable
    <3>2. ASSUME NEW q \in PassPositions(t), Storable(layer, q), Index(layer, q) = Index(l, p),
                 cell'[Index(l, p)] = Tag(t, layer, q)
          PROVE  \E c \in Running(u) :
                   cell'[Index(l, p)] = [call |-> c, layer |-> l, pos |-> p]
      <4>1. layer = l /\ q = p
        BY <2>4, <3>1, <3>2, IndexIsInjective DEF Storable
      <4>. QED
        BY <2>2, <3>2, <4>1 DEF Tag
    <3>3. ASSUME cell'[Index(l, p)] = cell[Index(l, p)],
                 \A q \in PassPositions(t) : ~(Storable(layer, q) /\ Index(layer, q) = Index(l, p))
          PROVE  \E c \in Running(u) :
                   cell'[Index(l, p)] = [call |-> c, layer |-> l, pos |-> p]
      BY <2>5, <3>3 DEF Holds
    <3>. QED
      BY <1>3, <3>1, <3>2, <3>3, StoreWrites
  <2>6. \A l \in Layers : \A p \in 0..start'[u] - 1 : Holds(u, l, p)'
    BY <1>old, <2>1, <2>2, <2>4, <2>5
  <2>7. u = t =>
          \A l \in Layers : l < layer \/ l = layer => \A p \in PassPositions(u) : Holds(u, l, p)'
    BY <1>old, <2>1, <2>2, <2>4, <2>5
  <2>. QED
    BY <2>1, <2>4, <2>6, <2>7
<1>4. ASSUME NEW t \in Threads, NextLayer(t)
      PROVE  /\ UNCHANGED <<beside, call, start, batch, capacity, cell, owner>>
             /\ owner = t /\ phase = "attend" /\ layer' = layer + 1 /\ phase' = "store"
  BY <1>4 DEF NextLayer
<1>5. ASSUME NEW t \in Threads, Leave(t)
      PROVE  /\ UNCHANGED <<beside, call, capacity, cell>>
             /\ owner = t /\ owner' = NoThread /\ phase = "attend" /\ layer = NumLayers - 1
             /\ start' = [start EXCEPT ![t] = @ + batch[t]]
  BY <1>5 DEF Leave
<1>6. ASSUME NEW t \in Threads, End(t) \/ Abort(t)
      PROVE  /\ UNCHANGED <<start, batch, capacity, cell>> /\ call'[u] = call[u]
             /\ beside'[u] = beside[u]
             /\ owner' = NoThread \/ UNCHANGED <<owner, layer, phase>>
  BY <1>6 DEF End, Abort, TypeOK
<1>7. CASE \E t \in Threads : Begin(t)
  <2>. PICK t \in Threads : Begin(t)
    BY <1>7
  <2>1. CASE u = t
    BY <1>1, <2>1
  <2>2. CASE u # t
    <3>1. PassPositions(u)' = PassPositions(u)
      BY <1>other, <2>2 DEF PassPositions
    <3>2. \A l, p : Holds(u, l, p) => Holds(u, l, p)'
      BY <1>other, <1>keep, <2>2
    <3>. QED
      BY <1>old, <1>other, <2>2, <3>1, <3>2
  <2>. QED
    BY <2>1, <2>2
<1>8. CASE \E t \in Threads : Enter(t)
  <2>1. \A l, p : Holds(u, l, p) => Holds(u, l, p)'
    BY <1>2, <1>8, <1>keep
  <2>2. ~\E l \in Layers : l < 0
    BY ConstantNumbers DEF Layers
  <2>. QED
    BY <1>old, <1>2, <1>8, <2>1, <2>2
<1>9. CASE \E t \in Threads : NextLayer(t)
  <2>1. \A l, p : Holds(u, l, p) => Holds(u, l, p)'
    BY <1>4, <1>9, <1>keep
  <2>2. \A l \in Layers : l < layer + 1 => l < layer \/ l = layer
    BY ConstantNumbers, PassNumbers DEF Layers
  <2>3. PassPositions(u)' = PassPositions(u)
    BY <1>4, <1>9 DEF PassPositions
  <2>. QED
    BY <1>old, <1>4, <1>9, <2>1, <2>2, <2>3
<1>10. CASE \E t \in Threads : Leave(t)
  <2>1. \A l, p : Holds(u, l, p) => Holds(u, l, p)'
    BY <1>5, <1>10, <1>keep
  <2>2. PICK t \in Threads : Leave(t)
    BY <1>10
  <2>3. owner' # u
    BY <1>5, <2>2, CacheAssumption
  <2>4. CASE u = t
    <3>1. \A l \in Layers : l < layer \/ l = layer
      BY <1>5, <2>2, ConstantNumbers DEF Layers
    <3>2. \A p \in 0..start'[u] - 1 : p \in 0..start[u] - 1 \/ p \in PassPositions(u)
      BY SMTT(30), <1>5, <2>2, <2>4, PassNumbers DEF TypeOK, PassPositions
    <3>. QED
      BY <1>old, <1>5, <2>1, <2>2, <2>3, <2>4, <3>1, <3>2
  <2>5. CASE u # t
    <3>1. start'[u] = start[u]
      BY <1>5, <2>2, <2>5 DEF TypeOK
    <3>. QED
      BY <1>old, <1>5, <2>1, <2>2, <2>3, <3>1
  <2>. QED
    BY <2>4, <2>5
<1>11. CASE (\E t \in Threads : End(t) \/ Abort(t)) \/ UNCHANGED vars
  <2>1. /\ UNCHANGED <<start, batch, capacity, cell>> /\ call'[u] = call[u]
        /\ beside'[u] = beside[u]
        /\ owner' = NoThread \/ UNCHANGED <<owner, layer, phase>>
    BY <1>6, <1>11 DEF vars
  <2>2. \A l, p : Holds(u, l, p) => Holds(u, l, p)'
    BY <2>1, <1>keep
  <2>3. PassPositions(u)' = PassPositions(u)
    BY <2>1 DEF PassPositions
  <2>. QED
    BY <1>old, <2>1, <2>2, <2>3, CacheAssumption
<1>. QED
  BY <1>3, <1>7, <1>8, <1>9, <1>10, <1>11 DEF Next

-----------------------------------------------------------------------------
(* What follows from the invariant. *)

LEMMA CacheInvHolds == Spec => []CacheInv
<1>1. CacheInv /\ [Next]_vars => CacheInv'
  BY NextTypeOK, NextPassInv, NextHeldInv, NextNoWrapInv DEF CacheInv
<1>. QED
  BY <1>1, InitCacheInv, PTL DEF Spec

\* The program's types hold, and the loop over the layers stays within the model.
THEOREM CacheTypes == Spec => []TypeOK
<1>1. CacheInv => TypeOK
  BY DEF CacheInv
<1>. QED
  BY <1>1, CacheInvHolds, PTL

\* A call within the context never reads what a call has left that ended before it
\* began, nor an entry of another layer or position, however calls overlap, abort or
\* overrun, although nothing clears the cache, the buffer may be too small for the
\* model and the Java reads cast their offsets to int.
THEOREM EndedCallsStayUnread == Spec => []EndedCallsAreNotRead
<1>1. ASSUME CacheInv
      PROVE  EndedCallsAreNotRead
  <2>. SUFFICES ASSUME NEW t \in Threads, owner = t, phase = "attend",
                       start[t] + batch[t] =< MaxTokens, ~Throws(t),
                       NEW p \in ReadPositions(t)
                PROVE  /\ ReadIndex(t, p) < capacity
                       /\ \E c \in Running(t) :
                            cell[ReadIndex(t, p)] = [call |-> c, layer |-> layer, pos |-> p]
    BY DEF EndedCallsAreNotRead, Running
  <2>1. TypeOK /\ PassInv /\ HeldInv /\ NoWrapInv
    BY <1>1 DEF CacheInv
  <2>2. p \in Nat /\ p < MaxTokens /\ layer \in Layers
    BY <2>1, ConstantNumbers, PassNumbers DEF ReadPositions, TypeOK
  <2>3. ReadIndex(t, p) = Index(layer, p) /\ Storable(layer, p)
    BY <2>1, <2>2, ReadsStayInside
  <2>4. call[t] # 0
    BY <2>1, CacheAssumption DEF PassInv
  <2>5. p \in 0..start[t] - 1 \/ p \in PassPositions(t)
    BY <2>1, PassNumbers
  <2>6. Holds(t, layer, p)
    BY <2>1, <2>2, <2>4, <2>5 DEF HeldInv
  <2>. QED
    BY <2>3, <2>6 DEF Holds, Storable
<1>. QED
  BY <1>1, CacheInvHolds, PTL

\* A call that runs alone and within the context attends to its own entries only.
THEOREM LoneCallAttendsToItself == Spec => []AttentionReadsOwn
<1>1. EndedCallsAreNotRead => AttentionReadsOwn
  BY DEF EndedCallsAreNotRead, AttentionReadsOwn, Tag
<1>. QED
  BY <1>1, EndedCallsStayUnread, PTL
===============================================================================
