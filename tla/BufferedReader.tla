--------------------------- MODULE BufferedReader ---------------------------
(***************************************************************************)
(* FastGgufReader, the tokenizer's reader of GGUF headers: a direct buffer *)
(* in front of the file channel.  The buffer is filled ahead of what is    *)
(* asked for, so the channel's position is not the reader's: skips take    *)
(* what they can from the buffer and move the channel for the rest, and a  *)
(* string longer than the buffer passes through it in pieces.              *)
(*                                                                         *)
(* One action is one call of channel.read, which may deliver fewer bytes   *)
(* than there is room for, or the code between two of them.  Items and     *)
(* byte offsets are those of PlainReader.                                  *)
(***************************************************************************)
EXTENDS Naturals, Sequences

CONSTANTS
  Files,      \* headers: sequences of items
  MaxSize,    \* bound: bytes of a file
  Capacity    \* bytes of the buffer (4 MiB in the code)

ScalarTypes == {0, 1, 2, 3, 4, 5, 6, 7, 10, 11, 12}

(***************************************************************************)
(* What a parser asks for.  Arrays of arrays are not among the items: the  *)
(* two readers skip the size of their element differently.                 *)
(***************************************************************************)
Items ==
  [kind : {"number"}, bytes : 1..8]
    \cup [kind : {"string", "text"}, length : Nat]
    \cup [kind : {"scalar"}, type : Nat]
    \cup [kind : {"texts"}, lengths : Seq(Nat)]
    \cup [kind : {"scalars"}, type : ScalarTypes, count : Nat]

ASSUME ReaderAssumption ==
  /\ Files \subseteq Seq(Items)
  /\ MaxSize \in Nat
  /\ Capacity \in Nat /\ Capacity >= 8

VARIABLES
  size, items, todo,  \* see PlainReader
  chan,    \* channel.position()
  buf,     \* bytes in the buffer from its position to its limit
  want,    \* the argument of an ensure() that is reading, else 0
  part,    \* bytes of the string in progress that readString has copied
  got, failed         \* see PlainReader

vars == <<size, items, todo, chan, buf, want, part, got, failed>>

\* The reader's own position: the bytes in the buffer have not been asked for.
pos == chan - Len(buf) - Len(part)

Plain == INSTANCE PlainReader

-----------------------------------------------------------------------------
(* What an item asks for: skipValue of this reader. *)

GetGgufTypeSize(type) ==
  CASE type \in {0, 1, 7}    -> 1
    [] type \in {2, 3}       -> 2
    [] type \in {4, 5, 6}    -> 4
    [] type \in {10, 11, 12} -> 8
    [] OTHER                 -> 1

SkipArray(type, count) ==
  <<Plain!Get(4), Plain!Get(8), Plain!Skip(count * GetGgufTypeSize(type))>>

\* The two readers skip all values alike but arrays of scalars.
Requests(item) ==
  IF item.kind = "scalars" THEN SkipArray(item.type, item.count)
  ELSE Plain!Requests(item)

Asked(op) == todo # <<>> /\ Head(todo).op = op

Count == Head(todo).bytes

-----------------------------------------------------------------------------
Init ==
  /\ size \in 0..MaxSize
  /\ items \in Files
  /\ todo = <<>>
  /\ chan = 0
  /\ buf = <<>>
  /\ want = 0
  /\ part = <<>>
  /\ got = <<>>
  /\ failed = FALSE

NextItem ==
  /\ todo = <<>> /\ items # <<>>
  /\ todo' = Requests(Head(items))
  /\ items' = Tail(items)
  /\ UNCHANGED <<size, chan, buf, want, part, got, failed>>

\* Mistake: a string asks for all it lacks, more than the buffer can hold.
LackingOfString == Count - Len(part)

WantOfString ==
  IF Count - Len(part) < Capacity THEN Count - Len(part) ELSE Capacity

\* ensure() reads when the buffer holds less than a number needs, or nothing of a string.
EnsureBytes ==
  /\ want = 0
  /\ \/ Asked("get") /\ Len(buf) < Count /\ want' = Count
     \/ /\ Asked("body") /\ Len(part) < Count /\ buf = <<>>
        /\ want' = WantOfString
  /\ UNCHANGED <<size, items, todo, chan, buf, part, got, failed>>

\* Mistake: the buffer is cleared where it should be compacted.
KeptNothing == <<>>

\* What compact() keeps for the reads that follow.
Kept == buf

\* channel.read fills the buffer behind the bytes it holds, in part or in full.
ChannelRead ==
  /\ want > 0 /\ chan < size
  /\ \E n \in 1..Capacity :
       /\ n <= Capacity - Len(buf) /\ n <= size - chan
       /\ buf' = Kept \o [i \in 1..n |-> chan + i]
       /\ chan' = chan + n
  /\ want' = IF Len(buf') < want THEN want ELSE 0
  /\ UNCHANGED <<size, items, todo, part, got, failed>>

(***************************************************************************)
(* At the end of the file ensure() gives up in silence.  The number that   *)
(* asked for it finds too few bytes and throws; readString goes round      *)
(* again with a chunk of no bytes.                                         *)
(***************************************************************************)
ChannelEnds ==
  /\ want > 0 /\ chan >= size
  /\ want' = 0
  /\ failed' = Asked("get")
  /\ UNCHANGED <<size, items, todo, chan, buf, part, got>>

GetNumber ==
  /\ Asked("get") /\ want = 0 /\ Len(buf) >= Count
  /\ got' = SubSeq(buf, 1, Count)
  /\ buf' = SubSeq(buf, Count + 1, Len(buf))
  /\ todo' = Tail(todo)
  /\ UNCHANGED <<size, items, chan, want, part, failed>>

ChunkLength == IF Len(buf) < Count - Len(part) THEN Len(buf) ELSE Count - Len(part)

\* One turn of readString's loop, with something in the buffer.
CopyChunk ==
  /\ Asked("body") /\ want = 0
  /\ Len(part) < Count /\ buf # <<>>
  /\ part' = part \o SubSeq(buf, 1, ChunkLength)
  /\ buf' = SubSeq(buf, ChunkLength + 1, Len(buf))
  /\ UNCHANGED <<size, items, todo, chan, want, got, failed>>

StringEnds ==
  /\ Asked("body") /\ want = 0 /\ Len(part) = Count
  /\ got' = part
  /\ part' = <<>>
  /\ todo' = Tail(todo)
  /\ UNCHANGED <<size, items, chan, buf, want, failed>>

SkipFromBuffer == IF Len(buf) < Count THEN Len(buf) ELSE Count

\* Mistake: the channel moves by the whole count, what the buffer gave included.
SkipFromChannelAll == Count

SkipFromChannel == Count - SkipFromBuffer

\* skipBytes: from the buffer first; what is left moves the channel.
SkipBytes ==
  /\ Asked("skip")
  /\ buf' = SubSeq(buf, SkipFromBuffer + 1, Len(buf))
  /\ chan' = IF SkipFromBuffer < Count THEN chan + SkipFromChannel ELSE chan
  /\ todo' = Tail(todo)
  /\ UNCHANGED <<size, items, want, part, got, failed>>

Next ==
  /\ ~failed
  /\ \/ NextItem \/ EnsureBytes \/ ChannelRead \/ ChannelEnds \/ GetNumber
     \/ CopyChunk \/ StringEnds \/ SkipBytes

\* The parser runs on: it waits for nothing but the file.
Spec == Init /\ [][Next]_vars /\ WF_vars(Next)

-----------------------------------------------------------------------------
(***************************************************************************)
(* The tokenizer's reader hands its parser the bytes the plain reader      *)
(* hands its own: the buffer, short reads, strings longer than the buffer  *)
(* and skips across its end show nowhere, and both skip the same bytes of  *)
(* every value but a nested array.  Where the file ends within a number    *)
(* both throw; where it ends within a string this reader never returns.    *)
(***************************************************************************)
RefinesPlainReader == Plain!Spec

(***************************************************************************)
(* The buffer holds the bytes just before the channel's position, in order *)
(* and without a gap, and the string in progress those just before them:   *)
(* no byte is lost or seen twice by compact(), a skip past the buffer or a *)
(* string taken in pieces.                                                 *)
(***************************************************************************)
BufferIsBehindChannel ==
  /\ part \o buf = [i \in 1..Len(part) + Len(buf) |-> pos + i]
  /\ Len(buf) <= Capacity
  /\ pos \in Nat

\* The file ends within a string the parser reads.
StringIsCut == Asked("body") /\ pos + Count > size

(***************************************************************************)
(* Every parse ends, with the last item or an exception, unless the file   *)
(* ends within a string (then ensure() gives up and readString goes round  *)
(* forever).                                                               *)
(***************************************************************************)
ParseEndsUnlessStringIsCut ==
  <>(failed \/ (todo = <<>> /\ items = <<>>) \/ StringIsCut)
=============================================================================
