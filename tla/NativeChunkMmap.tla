--------------------------- MODULE NativeChunkMmap ---------------------------
(***************************************************************************)
(* The registry of memory-mapped file slices (io/NativeChunkMmap.java).    *)
(*                                                                         *)
(* Every successful FileChannel.map makes one MappedByteBuffer; buffers    *)
(* are numbered in the order they are made, and a native pointer is the    *)
(* number of its buffer (0 is the null pointer).  A read through the       *)
(* pointer of a buffer that is no longer live is a read of memory that the *)
(* OS has taken back, or has handed out again for something else.          *)
(*                                                                         *)
(* All methods are synchronized on the registry and call nothing outside   *)
(* it, so each is one action.  mapChunk(), which hands out the buffer       *)
(* itself, has no caller.                                                  *)
(***************************************************************************)
EXTENDS Naturals, Sequences

CONSTANTS
  NumChunks,    \* layer chunks of the model: the slices that are mapped
  Span,         \* Span[c]: size of chunk c (LayerChunk.physicalSpanBytes)
  Data,         \* Data[c]: what the file holds in chunk c
  MaxMapBytes   \* Integer.MAX_VALUE, the limit of one mapping

Chunks == 1..NumChunks

VARIABLES
  chunkOf,      \* chunkOf[b]: the chunk buffer b maps; its domain is the buffers ever made
  live,         \* buffers whose OS view still exists
  listed,       \* mappedBuffers; the list is in the order of the numbers
  registered,   \* the buffers in pointerToBuffer, keyed by their pointer
  mapOpen       \* the FileChannel is open

mmapVars == <<chunkOf, live, listed, registered, mapOpen>>

Buffers == DOMAIN chunkOf

MmapInit ==
  /\ chunkOf = <<>>
  /\ live = {}
  /\ listed = {}
  /\ registered = {}
  /\ mapOpen = TRUE

-----------------------------------------------------------------------------
(* Mapping. *)

Mappable(c) == mapOpen /\ Span[c] =< MaxMapBytes

\* channel.map returned: a new buffer, at the end of the list.
NewBuffer(c) ==
  /\ chunkOf' = Append(chunkOf, c)
  /\ live' = live \cup {Len(chunkOf) + 1}
  /\ listed' = listed \cup {Len(chunkOf) + 1}

MapChunkPointer(c) ==
  /\ Mappable(c)
  /\ NewBuffer(c)
  /\ registered' = registered \cup {Len(chunkOf) + 1}
  /\ UNCHANGED mapOpen

-----------------------------------------------------------------------------
(* Unmapping.  mappedBuffers.remove(buffer) removes the first element that  *)
(* ByteBuffer.equals finds equal: same size, same bytes.                    *)

SameBytes(a, b) ==
  /\ Span[chunkOf[a]] = Span[chunkOf[b]]
  /\ Data[chunkOf[a]] = Data[chunkOf[b]]

FirstEqual(b) ==
  {a \in listed : /\ SameBytes(a, b)
                  /\ \A d \in listed : SameBytes(d, b) => a =< d}

\* The view goes, its list entry stays.
UnmapPointerKeepsEntry(p) ==
  /\ live' = IF p \in registered THEN live \ {p} ELSE live
  /\ registered' = registered \ {p}
  /\ UNCHANGED <<chunkOf, listed, mapOpen>>

\* The entries go, the view stays.
UnmapPointerForgetsView(p) ==
  /\ listed' = IF p \in registered THEN listed \ FirstEqual(p) ELSE listed
  /\ registered' = registered \ {p}
  /\ UNCHANGED <<chunkOf, live, mapOpen>>

UnmapPointer(p) ==
  /\ IF p \in registered
     THEN /\ registered' = registered \ {p}
          /\ listed' = listed \ FirstEqual(p)
          /\ live' = live \ {p}
     ELSE UNCHANGED <<registered, listed, live>>
  /\ UNCHANGED <<chunkOf, mapOpen>>

\* On its way to the first equal element, remove() compares the bytes of every
\* element of the same size: it reads the memory of those buffers.
UnmapReadsDead(p) ==
  /\ p \in registered
  /\ \E a \in listed : /\ Span[chunkOf[a]] = Span[chunkOf[p]]
                       /\ a \notin live
                       /\ \A d \in listed : SameBytes(d, p) => a =< d

\* close() unmaps what is in the list (the cleaner of an unmapped buffer does
\* nothing) and closes the channel; it leaves pointerToBuffer as it is.
CloseMmap ==
  /\ live' = live \ listed
  /\ listed' = {}
  /\ mapOpen' = FALSE
  /\ UNCHANGED <<chunkOf, registered>>

-----------------------------------------------------------------------------
\* While the registry is open its list names exactly the views that exist and
\* every registered pointer leads to one of them (remove() took the element it
\* was asked to take); once it is closed no view exists.
RegistryExact ==
  /\ mapOpen => listed = live /\ registered \subseteq live
  /\ ~mapOpen => live = {}

\* Buffers are numbered without gaps and every set names buffers that were made.
MmapTypeOK ==
  /\ chunkOf \in Seq(Chunks)
  /\ live \subseteq Buffers
  /\ listed \subseteq Buffers
  /\ registered \subseteq Buffers
  /\ mapOpen \in BOOLEAN
=============================================================================
