-------------------------- MODULE BufferedReader_proofs --------------------------
(***************************************************************************)
(* Proofs about BufferedReader for every header, file size and buffer:     *)
(* the buffer is where it should be, and the reader with the buffer does   *)
(* what the plain reader does.                                             *)
(***************************************************************************)
EXTENDS BufferedReader, Integers, SequenceTheorems, TLAPS

-----------------------------------------------------------------------------
(* The inductive invariant. *)

\* What is left to do for an item.
Steps == [op : {"get"}, bytes : 1..8] \cup [op : {"body", "skip"}, bytes : Nat]

ReaderTypeOK ==
  /\ size \in Nat
  /\ items \in Seq(Items)
  /\ todo \in Seq(Steps)
  /\ chan \in Nat
  /\ buf \in Seq(Nat) /\ part \in Seq(Nat) /\ got \in Seq(Nat)
  /\ want \in Nat
  /\ failed \in BOOLEAN

\* The bytes of the file in part and buffer, named one by one.
PlacesInv ==
  /\ chan >= Len(buf) + Len(part)
  /\ \A i \in 1..Len(part) : part[i] = chan - Len(buf) - Len(part) + i
  /\ \A i \in 1..Len(buf) : buf[i] = chan - Len(buf) + i
  /\ Len(buf) =< Capacity

\* Bytes come from the file: only a skip moves the channel past its end, and it
\* empties the buffer.
InFileInv == buf # <<>> \/ part # <<>> => chan =< size

\* A string is in progress, or an ensure() that still lacks what it was called for.
WorkInv ==
  /\ part # <<>> => Asked("body")
  /\ Asked("body") => Len(part) =< Count
  /\ want > 0 => \/ Asked("get") /\ Len(buf) < Count /\ want = Count
                 \/ Asked("body")

ReaderInv == ReaderTypeOK /\ PlacesInv /\ InFileInv /\ WorkInv

-----------------------------------------------------------------------------
(* What the items ask for. *)

LEMMA SizesAreNumbers ==
  ASSUME NEW type \in Nat, NEW count \in Nat
  PROVE  /\ Plain!ScalarBytes(type) \in Nat
         /\ type \in ScalarTypes => /\ GetGgufTypeSize(type) = Plain!ScalarBytes(type)
                                    /\ count * GetGgufTypeSize(type) \in Nat
<1>1. Plain!ScalarBytes(type) \in {0, 1, 2, 4, 8}
  BY DEF Plain!ScalarBytes
<1>2. type \in ScalarTypes => GetGgufTypeSize(type) = Plain!ScalarBytes(type)
  BY DEF Plain!ScalarBytes, GetGgufTypeSize, ScalarTypes
<1>3. \A n \in {0, 1, 2, 4, 8} : count * n \in Nat
  OBVIOUS
<1>. QED
  BY <1>1, <1>2, <1>3

\* Both readers turn an item into the same requests.
LEMMA RequestsAgree ==
  ASSUME NEW item \in Items
  PROVE  Requests(item) = Plain!Requests(item)
<1>1. CASE item.kind = "scalars"
  <2>1. item.type \in ScalarTypes /\ item.type \in Nat /\ item.count \in Nat
    BY <1>1 DEF Items, ScalarTypes
  <2>2. GetGgufTypeSize(item.type) = Plain!ScalarBytes(item.type)
    BY <2>1, SizesAreNumbers
  <2>. QED
    BY <1>1, <2>2 DEF Requests, SkipArray, Plain!Requests, Plain!SkipArray, Plain!IntBytes, Plain!LongBytes
<1>. QED
  BY <1>1 DEF Requests

LEMMA RequestsAreSteps ==
  ASSUME NEW item \in Items
  PROVE  Requests(item) \in Seq(Steps)
<1>steps. /\ \A n \in 1..8 : Plain!Get(n) \in Steps
          /\ \A n \in Nat : Plain!Body(n) \in Steps /\ Plain!Skip(n) \in Steps
  BY DEF Plain!Get, Plain!Body, Plain!Skip, Steps
<1>numbers. Plain!IntBytes \in 1..8 /\ Plain!LongBytes \in 1..8
  BY DEF Plain!IntBytes, Plain!LongBytes
<1>0. Requests(item) = Plain!Requests(item)
  BY RequestsAgree
<1>. HIDE DEF Steps
<1>1. CASE item.kind = "number"
  <2>1. item.bytes \in 1..8 /\ Requests(item) = <<Plain!Get(item.bytes)>>
    BY <1>0, <1>1 DEF Items, Plain!Requests
  <2>. QED
    BY <1>steps, <2>1
<1>2. CASE item.kind = "string"
  <2>1. item.length \in Nat /\ Requests(item) = <<Plain!Get(Plain!LongBytes), Plain!Body(item.length)>>
    BY <1>0, <1>2 DEF Items, Plain!Requests, Plain!ReadString
  <2>. QED
    BY <1>steps, <1>numbers, <2>1
<1>3. CASE item.kind = "scalar"
  <2>1. item.type \in Nat /\ Requests(item) = <<Plain!Skip(Plain!ScalarBytes(item.type))>>
    BY <1>0, <1>3 DEF Items, Plain!Requests, Plain!SkipScalar
  <2>. QED
    BY <1>steps, <2>1, SizesAreNumbers
<1>4. CASE item.kind = "text"
  <2>1. item.length \in Nat /\ Requests(item) = <<Plain!Get(Plain!LongBytes), Plain!Skip(item.length)>>
    BY <1>0, <1>4 DEF Items, Plain!Requests, Plain!SkipString
  <2>. QED
    BY <1>steps, <1>numbers, <2>1
<1>5. CASE item.kind = "texts"
  <2> DEFINE lengths == item.lengths
             head == <<Plain!Get(Plain!IntBytes), Plain!Get(Plain!LongBytes)>>
             rest == [i \in 1..2 * Len(lengths) |->
                        IF i % 2 = 1 THEN Plain!Get(Plain!LongBytes) ELSE Plain!Skip(lengths[i \div 2])]
  <2>1. lengths \in Seq(Nat) /\ Len(lengths) \in Nat
    <3>1. lengths \in Seq(Nat)
      BY <1>5 DEF Items
    <3>. QED
      BY <3>1
  <2>2. Requests(item) = head \o rest
    BY <1>0, <1>5 DEF Plain!Requests, Plain!SkipStrings
  <2>3. head \in Seq(Steps)
    BY <1>steps, <1>numbers
  <2>4. ASSUME NEW i \in 1..2 * Len(lengths), i % 2 # 1
        PROVE  Plain!Skip(lengths[i \div 2]) \in Steps
    <3>1. i \div 2 \in 1..Len(lengths)
      BY <2>1, <2>4
    <3>2. lengths[i \div 2] \in Nat
      BY <2>1, <3>1
    <3>. QED
      BY <1>steps, <3>2
  <2>5. rest \in Seq(Steps)
    <3> DEFINE n == 2 * Len(lengths)
    <3>1. rest \in [1..n -> Steps]
      BY <1>steps, <1>numbers, <2>4
    <3>2. n \in Nat
      BY <2>1
    <3>. HIDE DEF n, rest
    <3>. QED
      BY <3>1, <3>2
  <2>. HIDE DEF head, rest
  <2>. QED
    BY <2>2, <2>3, <2>5, ConcatProperties
<1>6. CASE item.kind = "scalars"
  <2>1. /\ item.type \in ScalarTypes /\ item.type \in Nat /\ item.count \in Nat
        /\ Requests(item) = <<Plain!Get(4), Plain!Get(8), Plain!Skip(item.count * GetGgufTypeSize(item.type))>>
    BY <1>6 DEF Items, ScalarTypes, Requests, SkipArray
  <2>2. item.count * GetGgufTypeSize(item.type) \in Nat
    BY <2>1, SizesAreNumbers
  <2>. QED
    BY <1>steps, <2>1, <2>2
<1>. QED
  BY <1>1, <1>2, <1>3, <1>4, <1>5, <1>6 DEF Items

-----------------------------------------------------------------------------
(* The invariant is kept. *)

LEMMA TodoIsStep ==
  ASSUME ReaderTypeOK, todo # <<>>
  PROVE  /\ Head(todo) \in Steps /\ Tail(todo) \in Seq(Steps)
         /\ Head(todo).op \in {"get", "body", "skip"} /\ Count \in Nat
         /\ Asked("get") => Count \in 1..8
<1>1. todo \in Seq(Steps)
  BY DEF ReaderTypeOK
<1>2. Head(todo) \in Steps /\ Tail(todo) \in Seq(Steps)
  BY <1>1, HeadTailProperties
<1>. QED
  BY <1>2 DEF Steps, Count, Asked

\* The next request, whatever it will be.
LEMMA RequestCounts ==
  ASSUME NEW requests \in Seq(Steps), requests # <<>>
  PROVE  Head(requests).bytes \in Nat
<1>1. Head(requests) \in Steps
  BY HeadTailProperties
<1>. QED
  BY <1>1 DEF Steps

LEMMA ReaderNumbers ==
  ASSUME ReaderTypeOK
  PROVE  /\ buf \in Seq(Nat) /\ part \in Seq(Nat)
         /\ Len(buf) \in Nat /\ Len(part) \in Nat /\ chan \in Nat /\ size \in Nat /\ want \in Nat
         /\ Capacity \in Nat /\ Capacity >= 8
<1>1. buf \in Seq(Nat) /\ part \in Seq(Nat) /\ chan \in Nat /\ size \in Nat /\ want \in Nat
  BY DEF ReaderTypeOK
<1>. QED
  BY <1>1, ReaderAssumption

\* What is left of the buffer when the first n bytes are taken.
LEMMA RestOfBuffer ==
  ASSUME ReaderTypeOK, PlacesInv, NEW n \in Nat, n =< Len(buf)
  PROVE  /\ SubSeq(buf, n + 1, Len(buf)) \in Seq(Nat)
         /\ Len(SubSeq(buf, n + 1, Len(buf))) = Len(buf) - n
         /\ \A i \in 1..Len(buf) - n :
              SubSeq(buf, n + 1, Len(buf))[i] = chan - (Len(buf) - n) + i
<1>1. buf \in Seq(Nat) /\ Len(buf) \in Nat /\ chan \in Nat
  BY ReaderNumbers
<1>2. \A i \in n + 1..Len(buf) : buf[i] \in Nat
  BY <1>1
<1>3. n + 1 \in Int /\ Len(buf) \in Int
  BY <1>1
<1>4. /\ SubSeq(buf, n + 1, Len(buf)) \in Seq(Nat)
      /\ Len(SubSeq(buf, n + 1, Len(buf))) = IF n + 1 =< Len(buf) THEN Len(buf) - (n + 1) + 1 ELSE 0
      /\ \A i \in 1..Len(buf) - (n + 1) + 1 :
           SubSeq(buf, n + 1, Len(buf))[i] = buf[n + 1 + i - 1]
  BY <1>2, <1>3, SubSeqProperties
<1>5. Len(SubSeq(buf, n + 1, Len(buf))) = Len(buf) - n
  BY <1>1, <1>4
<1>6. ASSUME NEW i \in 1..Len(buf) - n
      PROVE  SubSeq(buf, n + 1, Len(buf))[i] = chan - (Len(buf) - n) + i
  <2>1. i \in 1..Len(buf) - (n + 1) + 1 /\ n + 1 + i - 1 = n + i /\ n + i \in 1..Len(buf)
    BY <1>1
  <2>2. SubSeq(buf, n + 1, Len(buf))[i] = buf[n + i]
    BY <1>4, <2>1
  <2>3. buf[n + i] = chan - Len(buf) + (n + i)
    BY <2>1 DEF PlacesInv
  <2>. QED
    BY <1>1, <2>2, <2>3
<1>. QED
  BY <1>4, <1>5, <1>6

\* The first n bytes of the buffer.
LEMMA FrontOfBuffer ==
  ASSUME ReaderTypeOK, PlacesInv, NEW n \in Nat, n =< Len(buf)
  PROVE  /\ SubSeq(buf, 1, n) \in Seq(Nat) /\ Len(SubSeq(buf, 1, n)) = n
         /\ \A i \in 1..n : SubSeq(buf, 1, n)[i] = chan - Len(buf) + i
<1>1. buf \in Seq(Nat) /\ Len(buf) \in Nat /\ chan \in Nat
  BY ReaderNumbers
<1>2. \A i \in 1..n : buf[i] \in Nat
  BY <1>1
<1>3. 1 \in Int /\ n \in Int
  OBVIOUS
<1>4. /\ SubSeq(buf, 1, n) \in Seq(Nat)
      /\ Len(SubSeq(buf, 1, n)) = IF 1 =< n THEN n - 1 + 1 ELSE 0
      /\ \A i \in 1..n - 1 + 1 : SubSeq(buf, 1, n)[i] = buf[1 + i - 1]
  BY <1>2, <1>3, SubSeqProperties
<1>5. \A i \in 1..n : i \in 1..n - 1 + 1 /\ 1 + i - 1 = i /\ i \in 1..Len(buf)
  BY <1>1
<1>6. \A i \in 1..n : SubSeq(buf, 1, n)[i] = chan - Len(buf) + i
  BY <1>4, <1>5 DEF PlacesInv
<1>. QED
  BY <1>4, <1>6

\* The bytes a buffer without some of its front still holds are at their places.
LEMMA BufferIsConsumed ==
  ASSUME ReaderTypeOK, PlacesInv, InFileInv, NEW n \in Nat, n =< Len(buf),
         chan' = chan, buf' = SubSeq(buf, n + 1, Len(buf)), part' = <<>>, UNCHANGED size
  PROVE  PlacesInv' /\ InFileInv' /\ buf' \in Seq(Nat) /\ Len(buf') = Len(buf) - n
<1>1. /\ Len(buf) \in Nat /\ chan \in Nat /\ Len(part) \in Nat
      /\ Capacity \in Nat /\ chan >= Len(buf) + Len(part) /\ Len(buf) =< Capacity
  BY ReaderNumbers DEF PlacesInv
<1>2. /\ buf' \in Seq(Nat) /\ Len(buf') = Len(buf) - n
      /\ \A i \in 1..Len(buf) - n : buf'[i] = chan - (Len(buf) - n) + i
  BY RestOfBuffer
<1>3. Len(part') = 0
  OBVIOUS
<1>4. PlacesInv'
  <2>1. chan' >= Len(buf') + Len(part') /\ Len(buf') =< Capacity
    BY <1>1, <1>2, <1>3
  <2>2. \A i \in 1..Len(part') : part'[i] = chan' - Len(buf') - Len(part') + i
    BY <1>3
  <2>3. \A i \in 1..Len(buf') : buf'[i] = chan' - Len(buf') + i
    BY <1>2
  <2>. QED
    BY <2>1, <2>2, <2>3 DEF PlacesInv
<1>5. InFileInv'
  <2>1. buf' # <<>> => Len(buf') > 0
    BY <1>2
  <2>2. buf' # <<>> => buf # <<>>
    BY <1>1, <1>2, <2>1
  <2>. QED
    BY <2>2 DEF InFileInv
<1>. QED
  BY <1>2, <1>4, <1>5

LEMMA NextItemKeeps ==
  ASSUME ReaderInv, NextItem
  PROVE  ReaderInv'
<1>. USE DEF ReaderInv
<1>1. /\ todo = <<>> /\ items # <<>> /\ todo' = Requests(Head(items)) /\ items' = Tail(items)
      /\ UNCHANGED <<size, chan, buf, want, part, got, failed>>
  BY DEF NextItem
<1>2. items \in Seq(Items)
  BY DEF ReaderTypeOK
<1>3. Head(items) \in Items /\ items' \in Seq(Items)
  BY <1>1, <1>2, HeadTailProperties
<1>4. todo' \in Seq(Steps)
  BY <1>1, <1>3, RequestsAreSteps
<1>5. ReaderTypeOK'
  BY <1>1, <1>3, <1>4 DEF ReaderTypeOK
<1>6. part = <<>> /\ ~(want > 0)
  BY <1>1 DEF WorkInv, Asked
<1>7. Len(part') = 0 /\ part' = <<>> /\ ~(want' > 0)
  BY <1>1, <1>6
<1>8. Asked("body")' => Count' \in Nat
  BY <1>5, RequestCounts DEF Asked, Count, ReaderTypeOK
<1>9. WorkInv'
  BY <1>7, <1>8 DEF WorkInv
<1>. QED
  BY <1>1, <1>5, <1>9 DEF PlacesInv, InFileInv

LEMMA EnsureBytesKeeps ==
  ASSUME ReaderInv, EnsureBytes
  PROVE  ReaderInv'
<1>. USE DEF ReaderInv
<1>1. UNCHANGED <<size, items, todo, chan, buf, part, got, failed>>
  BY DEF EnsureBytes
<1>2. \/ Asked("get") /\ Len(buf) < Count /\ want' = Count
      \/ Asked("body") /\ Len(part) < Count /\ want' = WantOfString
  BY DEF EnsureBytes
<1>3. Count \in Nat /\ Len(part) \in Nat /\ Capacity \in Nat
  BY <1>2, ReaderNumbers, TodoIsStep DEF Asked
<1>4. want' \in Nat
  BY <1>2, <1>3 DEF WantOfString
<1>5. WorkInv'
  BY <1>1, <1>2 DEF WorkInv, Asked, Count
<1>. QED
  BY <1>1, <1>4, <1>5 DEF ReaderTypeOK, PlacesInv, InFileInv

LEMMA ChannelReadKeeps ==
  ASSUME ReaderInv, ChannelRead
  PROVE  ReaderInv' /\ pos' = pos
<1>. USE DEF ReaderInv
<1>1. PICK n \in 1..Capacity :
        /\ n =< Capacity - Len(buf) /\ n =< size - chan
        /\ buf' = buf \o [i \in 1..n |-> chan + i]
        /\ chan' = chan + n
  BY DEF ChannelRead, Kept
<1>2. /\ UNCHANGED <<size, items, todo, part, got, failed>>
      /\ want > 0
      /\ want' = IF Len(buf') < want THEN want ELSE 0
  BY DEF ChannelRead
<1>3. /\ buf \in Seq(Nat) /\ Len(buf) \in Nat /\ Len(part) \in Nat /\ chan \in Nat
      /\ size \in Nat /\ want \in Nat /\ Capacity \in Nat
  BY ReaderNumbers
<1> DEFINE read == [i \in 1..n |-> chan + i]
<1>4. read \in Seq(Nat) /\ Len(read) = n /\ \A i \in 1..n : read[i] = chan + i
  BY <1>3
<1>5. buf' = buf \o read
  BY <1>1
<1>. HIDE DEF read
<1>6. /\ buf' \in Seq(Nat) /\ Len(buf') = Len(buf) + n
      /\ \A i \in 1..Len(buf) + n : buf'[i] = IF i =< Len(buf) THEN buf[i] ELSE read[i - Len(buf)]
  BY <1>3, <1>4, <1>5, ConcatProperties
<1>7. \A i \in 1..Len(buf') : buf'[i] = chan' - Len(buf') + i
  <2>. SUFFICES ASSUME NEW i \in 1..Len(buf')
                PROVE  buf'[i] = chan' - Len(buf') + i
    OBVIOUS
  <2>0. /\ i \in 1..Len(buf) + n /\ chan' = chan + n
        /\ chan' - Len(buf') + i = chan - Len(buf) + i
    <3>1. chan' = chan + n
      BY <1>1
    <3>2. Len(buf') = Len(buf) + n
      BY <1>6
    <3>. QED
      BY <1>3, <3>1, <3>2
  <2>1. CASE i =< Len(buf)
    <3>1. buf[i] = chan - Len(buf) + i
      BY <1>3, <2>0, <2>1 DEF PlacesInv
    <3>. QED
      BY <1>3, <1>6, <2>0, <2>1, <3>1
  <2>2. CASE i > Len(buf)
    <3>1. i - Len(buf) \in 1..n
      BY <1>3, <2>0, <2>2
    <3>2. read[i - Len(buf)] = chan + (i - Len(buf))
      BY <1>4, <3>1
    <3>. QED
      BY <1>3, <1>6, <2>0, <2>2, <3>2
  <2>. QED
    BY <1>3, <2>0, <2>1, <2>2
<1>8. PlacesInv'
  <2>1. chan >= Len(buf) + Len(part)
    BY DEF PlacesInv
  <2>2. chan' - Len(buf') - Len(part') = chan - Len(buf) - Len(part)
    BY <1>1, <1>2, <1>3, <1>6
  <2>3. \A i \in 1..Len(part') : part'[i] = chan' - Len(buf') - Len(part') + i
    BY <1>2, <2>2 DEF PlacesInv
  <2>4. chan' >= Len(buf') + Len(part') /\ Len(buf') =< Capacity
    BY <1>1, <1>2, <1>3, <1>6, <2>1
  <2>. QED
    BY <1>7, <2>3, <2>4 DEF PlacesInv
<1>9. InFileInv'
  BY <1>1, <1>2, <1>3 DEF InFileInv
<1>10. chan' \in Nat /\ want' \in Nat
  BY <1>1, <1>2, <1>3
<1>11. WorkInv'
  BY <1>2, <1>3 DEF WorkInv, Asked, Count
<1>12. pos' = pos
  BY <1>1, <1>2, <1>3, <1>6 DEF pos
<1>. QED
  BY <1>2, <1>6, <1>8, <1>9, <1>10, <1>11, <1>12 DEF ReaderTypeOK

LEMMA ChannelEndsKeeps ==
  ASSUME ReaderInv, ChannelEnds
  PROVE  ReaderInv'
<1>. USE DEF ReaderInv
<1>1. /\ want' = 0 /\ failed' = Asked("get")
      /\ UNCHANGED <<size, items, todo, chan, buf, part, got>>
  BY DEF ChannelEnds
<1>2. ~(want' > 0) /\ want' \in Nat
  BY <1>1
<1>3. failed' \in BOOLEAN
  BY <1>1 DEF Asked
<1>4. WorkInv'
  BY <1>1, <1>2 DEF WorkInv, Asked, Count
<1>. QED
  BY <1>1, <1>2, <1>3, <1>4 DEF ReaderTypeOK, PlacesInv, InFileInv

LEMMA GetNumberKeeps ==
  ASSUME ReaderInv, GetNumber
  PROVE  ReaderInv'
<1>. USE DEF ReaderInv
<1>1. /\ Asked("get") /\ want = 0 /\ Len(buf) >= Count
      /\ got' = SubSeq(buf, 1, Count) /\ buf' = SubSeq(buf, Count + 1, Len(buf))
      /\ todo' = Tail(todo) /\ UNCHANGED <<size, items, chan, want, part, failed>>
  BY DEF GetNumber
<1>2. Count \in Nat /\ todo' \in Seq(Steps) /\ Len(buf) \in Nat
  BY <1>1, TodoIsStep, ReaderNumbers DEF Asked
<1>3. part = <<>> /\ part' = <<>> /\ Len(part') = 0
  BY <1>1 DEF WorkInv, Asked
<1>4. PlacesInv' /\ InFileInv' /\ buf' \in Seq(Nat)
  BY <1>1, <1>2, <1>3, BufferIsConsumed
<1>5. got' \in Seq(Nat)
  BY <1>1, <1>2, FrontOfBuffer
<1>6. ReaderTypeOK'
  BY <1>1, <1>2, <1>4, <1>5 DEF ReaderTypeOK
<1>7. WorkInv'
  <2>1. Asked("body")' => Count' \in Nat
    BY <1>6, RequestCounts DEF Asked, Count, ReaderTypeOK
  <2>. QED
    BY <1>1, <1>3, <2>1 DEF WorkInv
<1>. QED
  BY <1>4, <1>6, <1>7

LEMMA CopyChunkKeeps ==
  ASSUME ReaderInv, CopyChunk
  PROVE  ReaderInv' /\ pos' = pos
<1>. USE DEF ReaderInv
<1> DEFINE n == ChunkLength
           chunk == SubSeq(buf, 1, n)
<1>1. /\ Asked("body") /\ want = 0 /\ Len(part) < Count /\ buf # <<>>
      /\ part' = part \o chunk /\ buf' = SubSeq(buf, n + 1, Len(buf))
      /\ UNCHANGED <<size, items, todo, chan, want, got, failed>>
  BY DEF CopyChunk
<1>2. /\ buf \in Seq(Nat) /\ Len(buf) \in Nat /\ part \in Seq(Nat) /\ Len(part) \in Nat
      /\ chan \in Nat /\ Count \in Nat /\ Capacity \in Nat
  BY <1>1, ReaderNumbers, TodoIsStep DEF Asked
<1>3. n \in Nat /\ n =< Len(buf) /\ Len(part) + n =< Count
  BY <1>1, <1>2 DEF ChunkLength
<1>. HIDE DEF n
<1>4. chunk \in Seq(Nat) /\ Len(chunk) = n /\ \A i \in 1..n : chunk[i] = chan - Len(buf) + i
  BY <1>3, FrontOfBuffer
<1>5. /\ buf' \in Seq(Nat) /\ Len(buf') = Len(buf) - n
      /\ \A i \in 1..Len(buf) - n : buf'[i] = chan - (Len(buf) - n) + i
  BY <1>1, <1>3, RestOfBuffer
<1>. HIDE DEF chunk
<1>6. /\ part' \in Seq(Nat) /\ Len(part') = Len(part) + n
      /\ \A i \in 1..Len(part) + n : part'[i] = IF i =< Len(part) THEN part[i] ELSE chunk[i - Len(part)]
  BY <1>1, <1>2, <1>4, ConcatProperties
<1>7. chan - Len(buf') - Len(part') = chan - Len(buf) - Len(part)
  BY <1>2, <1>3, <1>5, <1>6
<1>8. \A i \in 1..Len(part') : part'[i] = chan - Len(buf) - Len(part) + i
  <2>. SUFFICES ASSUME NEW i \in 1..Len(part) + n
                PROVE  part'[i] = chan - Len(buf) - Len(part) + i
    BY <1>6
  <2>1. CASE i =< Len(part)
    <3>1. part[i] = chan - Len(buf) - Len(part) + i
      BY <1>2, <2>1 DEF PlacesInv
    <3>. QED
      BY <1>2, <1>6, <2>1, <3>1
  <2>2. CASE i > Len(part)
    <3>1. i - Len(part) \in 1..n
      BY <1>2, <1>3, <2>2
    <3>2. chunk[i - Len(part)] = chan - Len(buf) + (i - Len(part))
      BY <1>4, <3>1
    <3>. QED
      BY <1>2, <1>3, <1>6, <2>2, <3>2
  <2>. QED
    BY <1>2, <1>3, <2>1, <2>2
<1>9. PlacesInv'
  <2>1. chan >= Len(buf) + Len(part) /\ Len(buf) =< Capacity
    BY DEF PlacesInv
  <2>2. chan' >= Len(buf') + Len(part') /\ Len(buf') =< Capacity
    <3>1. chan' = chan /\ Len(buf') = Len(buf) - n /\ Len(part') = Len(part) + n
      BY <1>1, <1>5, <1>6
    <3>. QED
      BY <1>2, <1>3, <2>1, <3>1
  <2>3. \A i \in 1..Len(part') : part'[i] = chan' - Len(buf') - Len(part') + i
    BY <1>1, <1>7, <1>8
  <2>4. \A i \in 1..Len(buf') : buf'[i] = chan' - Len(buf') + i
    BY <1>1, <1>5
  <2>. QED
    BY <2>2, <2>3, <2>4 DEF PlacesInv
<1>10. InFileInv'
  BY <1>1 DEF InFileInv
<1>11. WorkInv'
  BY <1>1, <1>2, <1>3, <1>6 DEF WorkInv, Asked, Count
<1>12. pos' = pos
  BY <1>1, <1>7 DEF pos
<1>. QED
  BY <1>1, <1>5, <1>6, <1>9, <1>10, <1>11, <1>12 DEF ReaderTypeOK

LEMMA StringEndsKeeps ==
  ASSUME ReaderInv, StringEnds
  PROVE  ReaderInv'
<1>. USE DEF ReaderInv
<1>1. /\ Asked("body") /\ want = 0 /\ Len(part) = Count
      /\ got' = part /\ part' = <<>> /\ todo' = Tail(todo)
      /\ UNCHANGED <<size, items, chan, buf, want, failed>>
  BY DEF StringEnds
<1>2. /\ todo' \in Seq(Steps) /\ Len(buf) \in Nat /\ Len(part) \in Nat /\ chan \in Nat
      /\ part \in Seq(Nat) /\ Len(part') = 0 /\ part' \in Seq(Nat)
  BY <1>1, TodoIsStep, ReaderNumbers DEF Asked
<1>3. PlacesInv'
  BY <1>1, <1>2 DEF PlacesInv
<1>4. ReaderTypeOK'
  BY <1>1, <1>2 DEF ReaderTypeOK
<1>5. WorkInv'
  <2>1. Asked("body")' => Count' \in Nat
    BY <1>4, RequestCounts DEF Asked, Count, ReaderTypeOK
  <2>. QED
    BY <1>1, <1>2, <2>1 DEF WorkInv
<1>6. InFileInv'
  BY <1>1 DEF InFileInv
<1>. QED
  BY <1>3, <1>4, <1>5, <1>6

LEMMA SkipBytesKeeps ==
  ASSUME ReaderInv, SkipBytes
  PROVE  ReaderInv' /\ pos' = pos + Count /\ part = <<>> /\ part' = <<>>
<1>. USE DEF ReaderInv
<1> DEFINE n == SkipFromBuffer
<1>1. /\ Asked("skip") /\ buf' = SubSeq(buf, n + 1, Len(buf))
      /\ chan' = (IF n < Count THEN chan + SkipFromChannel ELSE chan)
      /\ todo' = Tail(todo) /\ UNCHANGED <<size, items, want, part, got, failed>>
  BY DEF SkipBytes
<1>2. /\ Count \in Nat /\ todo' \in Seq(Steps) /\ Len(buf) \in Nat /\ chan \in Nat
  BY <1>1, TodoIsStep, ReaderNumbers DEF Asked
<1>3. n \in Nat /\ n =< Len(buf) /\ n =< Count /\ (n < Count => n = Len(buf))
  BY <1>2 DEF SkipFromBuffer
<1>4. SkipFromChannel = Count - n
  BY DEF SkipFromChannel
<1>. HIDE DEF n
<1>5. part = <<>> /\ part' = <<>> /\ Len(part) = 0 /\ Len(part') = 0 /\ ~(want > 0)
  BY <1>1 DEF WorkInv, Asked
<1>6. buf' \in Seq(Nat) /\ Len(buf') = Len(buf) - n
  BY <1>1, <1>3, RestOfBuffer
<1>7. chan' \in Nat /\ chan' - Len(buf') = chan - Len(buf) + Count
  <2>1. CASE n < Count
    <3>1. chan' = chan + (Count - n) /\ n = Len(buf) /\ Len(buf') = Len(buf) - n
      BY <1>1, <1>3, <1>4, <1>6, <2>1
    <3>. QED
      BY <1>2, <1>3, <3>1
  <2>2. CASE ~(n < Count)
    <3>1. chan' = chan /\ n = Count /\ Len(buf') = Len(buf) - n
      BY <1>1, <1>2, <1>3, <1>6, <2>2
    <3>. QED
      BY <1>2, <1>3, <3>1
  <2>. QED
    BY <2>1, <2>2
<1>8. ReaderTypeOK'
  BY <1>1, <1>2, <1>6, <1>7 DEF ReaderTypeOK
<1>9. PlacesInv' /\ InFileInv'
  <2>1. CASE n < Count
    <3>1. Len(buf') = 0 /\ buf' = <<>>
      BY <1>2, <1>3, <1>6, <2>1
    <3>. QED
      BY <1>5, <1>7, <3>1, ReaderNumbers DEF PlacesInv, InFileInv
  <2>2. CASE ~(n < Count)
    BY <1>1, <1>3, <1>5, <2>2, BufferIsConsumed
  <2>. QED
    BY <2>1, <2>2
<1>10. WorkInv'
  <2>1. Asked("body")' => Count' \in Nat
    BY <1>8, RequestCounts DEF Asked, Count, ReaderTypeOK
  <2>. QED
    BY <1>1, <1>5, <2>1 DEF WorkInv
<1>11. pos' = pos + Count
  BY <1>2, <1>5, <1>6, <1>7 DEF pos
<1>. QED
  BY <1>5, <1>8, <1>9, <1>10, <1>11

\* The invariant holds in every state of the reader.
LEMMA ReaderInvHolds == Spec => []ReaderInv
<1>1. Init => ReaderInv
  <2>. SUFFICES ASSUME Init
                PROVE  ReaderInv
    OBVIOUS
  <2>. USE DEF Init
  <2>1. size \in Nat /\ items \in Seq(Items)
    BY ReaderAssumption
  <2>2. Len(<<>>) = 0 /\ <<>> \in Seq(Nat) /\ <<>> \in Seq(Steps)
    OBVIOUS
  <2>3. ReaderTypeOK
    BY <2>1, <2>2 DEF ReaderTypeOK
  <2>4. PlacesInv
    BY <2>2, ReaderAssumption DEF PlacesInv
  <2>5. InFileInv /\ WorkInv
    BY DEF InFileInv, WorkInv, Asked
  <2>. QED
    BY <2>3, <2>4, <2>5 DEF ReaderInv
<1>2. ReaderInv /\ [Next]_vars => ReaderInv'
  <2>. SUFFICES ASSUME ReaderInv, [Next]_vars
                PROVE  ReaderInv'
    OBVIOUS
  <2>1. CASE Next
    BY <2>1, NextItemKeeps, EnsureBytesKeeps, ChannelReadKeeps, ChannelEndsKeeps, GetNumberKeeps,
       CopyChunkKeeps, StringEndsKeeps, SkipBytesKeeps DEF Next
  <2>2. CASE UNCHANGED vars
    BY <2>2 DEF vars, ReaderInv, ReaderTypeOK, PlacesInv, InFileInv, WorkInv, Asked, Count
  <2>. QED
    BY <2>1, <2>2
<1>. QED
  BY <1>1, <1>2, PTL DEF Spec

-----------------------------------------------------------------------------
(* The theorems. *)

(***************************************************************************)
(* The bytes of the string in progress and of the buffer are those just    *)
(* before the channel's position, in order and without a gap, however much *)
(* each channel.read delivered (ensure, readString and skipBytes of        *)
(* FastGgufReader).                                                        *)
(***************************************************************************)
THEOREM BufferKeepsItsPlace == Spec => []BufferIsBehindChannel
<1>1. ReaderInv => BufferIsBehindChannel
  <2>. SUFFICES ASSUME ReaderInv
                PROVE  BufferIsBehindChannel
    OBVIOUS
  <2>1. /\ buf \in Seq(Nat) /\ Len(buf) \in Nat /\ part \in Seq(Nat) /\ Len(part) \in Nat
        /\ chan \in Nat
    BY ReaderNumbers DEF ReaderInv
  <2>2. PlacesInv
    BY DEF ReaderInv
  <2>3. pos \in Nat /\ Len(buf) =< Capacity
    BY <2>1, <2>2 DEF PlacesInv, pos
  <2> DEFINE held == [i \in 1..Len(part) + Len(buf) |-> pos + i]
  <2>4. /\ part \o buf \in Seq(Nat) /\ Len(part \o buf) = Len(part) + Len(buf)
        /\ \A i \in 1..Len(part) + Len(buf) :
             (part \o buf)[i] = IF i =< Len(part) THEN part[i] ELSE buf[i - Len(part)]
    BY <2>1, ConcatProperties
  <2>5. held \in Seq(Nat) /\ Len(held) = Len(part) + Len(buf)
    BY <2>1, <2>3
  <2>6. ASSUME NEW i \in 1..Len(part) + Len(buf)
        PROVE  (part \o buf)[i] = held[i]
    <3>1. held[i] = pos + i
      OBVIOUS
    <3>2. CASE i =< Len(part)
      <4>1. part[i] = chan - Len(buf) - Len(part) + i
        BY <2>1, <2>2, <3>2 DEF PlacesInv
      <4>. QED
        BY <2>4, <3>1, <3>2, <4>1 DEF pos
    <3>3. CASE i > Len(part)
      <4>1. i - Len(part) \in 1..Len(buf)
        BY <2>1, <3>3
      <4>2. buf[i - Len(part)] = chan - Len(buf) + (i - Len(part))
        BY <2>2, <4>1 DEF PlacesInv
      <4>3. (part \o buf)[i] = buf[i - Len(part)]
        BY <2>1, <2>4, <3>3
      <4>. QED
        BY <2>1, <3>1, <4>2, <4>3 DEF pos
    <3>. QED
      BY <2>1, <3>2, <3>3
  <2>. HIDE DEF held
  <2>7. part \o buf = held
    BY <2>4, <2>5, <2>6, SeqEqual
  <2>. QED
    BY <2>3, <2>7 DEF BufferIsBehindChannel, held
<1>. QED
  BY <1>1, ReaderInvHolds, PTL

-----------------------------------------------------------------------------
(* What a step of the reader is to the plain reader. *)

\* Bytes in hand are bytes of the file.
LEMMA HeldBytesAreInFile ==
  ASSUME ReaderInv
  PROVE  /\ pos \in Nat /\ Plain!Rest \in Nat
         /\ Len(buf) + Len(part) > 0 => Len(buf) + Len(part) =< Plain!Rest
<1>1. /\ buf \in Seq(Nat) /\ Len(buf) \in Nat /\ part \in Seq(Nat) /\ Len(part) \in Nat
      /\ chan \in Nat /\ size \in Nat
  BY ReaderNumbers DEF ReaderInv
<1>2. chan >= Len(buf) + Len(part)
  BY DEF ReaderInv, PlacesInv
<1>3. Len(buf) + Len(part) > 0 => chan =< size
  <2>1. Len(<<>>) = 0
    OBVIOUS
  <2>. QED
    BY <1>1, <2>1 DEF ReaderInv, InFileInv
<1>. QED
  BY <1>1, <1>2, <1>3 DEF pos, Plain!Rest

LEMMA GetNumberIsRead ==
  ASSUME ReaderInv, GetNumber
  PROVE  Plain!Read
<1>1. /\ Asked("get") /\ Len(buf) >= Count
      /\ got' = SubSeq(buf, 1, Count) /\ buf' = SubSeq(buf, Count + 1, Len(buf))
      /\ todo' = Tail(todo) /\ UNCHANGED <<size, items, chan, want, part, failed>>
  BY DEF GetNumber
<1>2. Count \in 1..8 /\ Len(buf) \in Nat /\ chan \in Nat /\ Len(part) \in Nat
  BY <1>1, TodoIsStep, ReaderNumbers DEF ReaderInv, Asked
<1>3. part = <<>> /\ part' = <<>>
  BY <1>1 DEF ReaderInv, WorkInv, Asked
<1>4. Len(part) = 0 /\ Len(part') = 0
  BY <1>3
<1>5. Count =< Plain!Rest
  BY <1>1, <1>2, <1>4, HeldBytesAreInFile
<1>6. /\ Len(buf') = Len(buf) - Count
      /\ SubSeq(buf, 1, Count) \in Seq(Nat) /\ Len(SubSeq(buf, 1, Count)) = Count
      /\ \A i \in 1..Count : SubSeq(buf, 1, Count)[i] = chan - Len(buf) + i
  BY <1>1, <1>2, RestOfBuffer, FrontOfBuffer DEF ReaderInv
<1>7. pos = chan - Len(buf) /\ pos' = pos + Count
  <2>1. chan' = chan /\ Len(buf') = Len(buf) - Count
    BY <1>1, <1>6
  <2>. QED
    BY <1>2, <1>4, <2>1 DEF pos
<1>8. got' = Plain!Bytes(pos, Count)
  <2>1. pos \in Nat
    BY HeldBytesAreInFile
  <2> DEFINE bytes == [i \in 1..Count |-> pos + i]
  <2>2. bytes \in Seq(Nat) /\ Len(bytes) = Count /\ \A i \in 1..Count : bytes[i] = pos + i
    BY <1>2, <2>1
  <2>. HIDE DEF bytes
  <2>3. \A i \in 1..Count : SubSeq(buf, 1, Count)[i] = bytes[i]
    BY <1>6, <1>7, <2>2
  <2>4. SubSeq(buf, 1, Count) = bytes
    BY <1>6, <2>2, <2>3, SeqEqual
  <2>. QED
    BY <1>1, <2>4 DEF Plain!Bytes, bytes
<1>. QED
  BY <1>1, <1>5, <1>7, <1>8 DEF Plain!Read, Asked, Count

LEMMA StringEndsIsReadBody ==
  ASSUME ReaderInv, StringEnds
  PROVE  Plain!ReadBody
<1>1. /\ Asked("body") /\ Len(part) = Count
      /\ got' = part /\ part' = <<>> /\ todo' = Tail(todo)
      /\ UNCHANGED <<size, items, chan, buf, want, failed>>
  BY DEF StringEnds
<1>2. /\ Count \in Nat /\ Len(buf) \in Nat /\ chan \in Nat /\ part \in Seq(Nat) /\ Len(part) \in Nat
      /\ Len(part') = 0
  BY <1>1, TodoIsStep, ReaderNumbers DEF ReaderInv, Asked
<1>3. pos \in Nat /\ Count =< Plain!Rest
  BY <1>1, <1>2, HeldBytesAreInFile
<1>4. pos' = pos + Count
  BY <1>1, <1>2 DEF pos
<1>5. part = Plain!Bytes(pos, Count)
  <2> DEFINE bytes == [i \in 1..Count |-> pos + i]
  <2>1. bytes \in Seq(Nat) /\ Len(bytes) = Count /\ \A i \in 1..Count : bytes[i] = pos + i
    BY <1>2, <1>3
  <2>. HIDE DEF bytes
  <2>2. \A i \in 1..Count : part[i] = bytes[i]
    BY <1>1, <2>1 DEF ReaderInv, PlacesInv, pos
  <2>3. part = bytes
    BY <1>1, <1>2, <2>1, <2>2, SeqEqual
  <2>. QED
    BY <2>3 DEF Plain!Bytes, bytes
<1>. QED
  BY <1>1, <1>3, <1>4, <1>5 DEF Plain!ReadBody, Asked, Count

LEMMA ChannelEndsIsFailure ==
  ASSUME ReaderInv, ~failed, ChannelEnds
  PROVE  Plain!Read \/ UNCHANGED Plain!vars
<1>1. /\ want > 0 /\ chan >= size /\ failed' = Asked("get")
      /\ UNCHANGED <<size, items, todo, chan, buf, part, got>>
  BY DEF ChannelEnds
<1>2. pos' = pos
  BY <1>1 DEF pos
<1>3. CASE Asked("get")
  <2>1. part = <<>> /\ Len(buf) < Count
    BY <1>1, <1>3 DEF ReaderInv, WorkInv, Asked
  <2>2. /\ Count \in 1..8 /\ Len(buf) \in Nat /\ chan \in Nat /\ size \in Nat /\ Len(part) = 0
        /\ buf \in Seq(Nat)
    BY <1>3, <2>1, TodoIsStep, ReaderNumbers DEF ReaderInv, Asked
  <2>3. Len(buf) > 0 => chan =< size
    <3>1. Len(<<>>) = 0
      OBVIOUS
    <3>. QED
      BY <2>2, <3>1 DEF ReaderInv, InFileInv
  <2>4. Count > Plain!Rest
    BY <1>1, <2>1, <2>2, <2>3 DEF Plain!Rest, pos
  <2>. QED
    BY <1>1, <1>2, <1>3, <2>4 DEF Plain!Read, Asked, Count
<1>4. CASE ~Asked("get")
  <2>1. failed' = failed
    <3>1. failed = FALSE
      BY DEF ReaderInv, ReaderTypeOK
    <3>2. failed' = FALSE
      BY <1>1, <1>4
    <3>. QED
      BY <3>1, <3>2
  <2>. QED
    BY <1>1, <1>2, <2>1 DEF Plain!vars
<1>. QED
  BY <1>3, <1>4

(***************************************************************************)
(* The reader with the buffer implements the plain reader: each of its     *)
(* steps is one of the plain reader's, or is not seen by the parser.       *)
(***************************************************************************)
THEOREM ReadersAgree == Spec => RefinesPlainReader
<1>1. Init => Plain!Init
  <2>. SUFFICES ASSUME Init
                PROVE  Plain!Init
    OBVIOUS
  <2>1. chan = 0 /\ buf = <<>> /\ part = <<>>
    BY DEF Init
  <2>2. chan = 0 /\ Len(buf) = 0 /\ Len(part) = 0
    BY <2>1
  <2>3. pos = 0
    BY <2>2 DEF pos
  <2>. QED
    BY <2>3 DEF Init, Plain!Init
<1>2. ReaderInv /\ [Next]_vars => [Plain!Next]_(Plain!vars)
  <2>. SUFFICES ASSUME ReaderInv, [Next]_vars
                PROVE  Plain!Next \/ UNCHANGED Plain!vars
    OBVIOUS
  <2>1. CASE UNCHANGED vars
    BY <2>1 DEF vars, Plain!vars, pos
  <2>2. CASE Next
    <3>1. ~failed
      BY <2>2 DEF Next
    <3>2. CASE NextItem
      <4>1. items \in Seq(Items) /\ items # <<>>
        BY <3>2 DEF NextItem, ReaderInv, ReaderTypeOK
      <4>2. Requests(Head(items)) = Plain!Requests(Head(items))
        BY <4>1, HeadTailProperties, RequestsAgree
      <4>3. Plain!NextItem /\ UNCHANGED size
        BY <3>2, <4>2 DEF NextItem, Plain!NextItem, pos
      <4>. QED
        BY <3>1, <4>3 DEF Plain!Next
    <3>3. CASE EnsureBytes
      BY <3>3 DEF EnsureBytes, Plain!vars, pos
    <3>4. CASE ChannelRead
      <4>1. pos' = pos
        BY <3>4, ChannelReadKeeps
      <4>. QED
        BY <3>4, <4>1 DEF ChannelRead, Plain!vars
    <3>5. CASE ChannelEnds
      <4>1. UNCHANGED size
        BY <3>5 DEF ChannelEnds
      <4>. QED
        BY <3>1, <3>5, <4>1, ChannelEndsIsFailure DEF Plain!Next
    <3>6. CASE GetNumber
      <4>1. UNCHANGED size
        BY <3>6 DEF GetNumber
      <4>. QED
        BY <3>1, <3>6, <4>1, GetNumberIsRead DEF Plain!Next
    <3>7. CASE CopyChunk
      <4>1. pos' = pos
        BY <3>7, CopyChunkKeeps
      <4>. QED
        BY <3>7, <4>1 DEF CopyChunk, Plain!vars
    <3>8. CASE StringEnds
      <4>1. UNCHANGED size
        BY <3>8 DEF StringEnds
      <4>. QED
        BY <3>1, <3>8, <4>1, StringEndsIsReadBody DEF Plain!Next
    <3>9. CASE SkipBytes
      <4>1. pos' = pos + Count
        BY <3>9, SkipBytesKeeps
      <4>2. Plain!SkipBytes /\ UNCHANGED size
        BY <3>9, <4>1 DEF SkipBytes, Plain!SkipBytes, Asked, Count
      <4>. QED
        BY <3>1, <4>2 DEF Plain!Next
    <3>. QED
      BY <2>2, <3>2, <3>3, <3>4, <3>5, <3>6, <3>7, <3>8, <3>9 DEF Next
  <2>. QED
    BY <2>1, <2>2
<1>. QED
  BY <1>1, <1>2, ReaderInvHolds, PTL DEF Spec, RefinesPlainReader, Plain!Spec
================================================================================
