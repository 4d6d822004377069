---------------------------- MODULE PlainReader ----------------------------
(***************************************************************************)
(* What reading a GGUF header means, after GgufTensorIndexer: every read   *)
(* takes its bytes at the channel's position, every skip moves the         *)
(* position, nothing is kept in between.  BufferedReader, the reader of    *)
(* the tokenizer, implements it.                                           *)
(*                                                                         *)
(* A byte is named by its offset, counted from 1.  The file is well formed *)
(* but may end anywhere.  An item is what the parser asks of a reader: a   *)
(* number, a string, or a value it skips by its GGUF type; the lengths the *)
(* file holds in front of strings and arrays come with the item.           *)
(***************************************************************************)
EXTENDS Naturals, Sequences

VARIABLES
  size,   \* bytes of the file
  items,  \* what the parser will still ask for
  todo,   \* requests of the current item that are left
  pos,    \* bytes before the next one to read
  got,    \* offsets of the bytes the last finished read delivered
  failed  \* a read has thrown

vars == <<size, items, todo, pos, got, failed>>

IntBytes == 4

LongBytes == 8

Get(n) == [op |-> "get", bytes |-> n]     \* a number of n bytes

Body(n) == [op |-> "body", bytes |-> n]   \* the characters of a string

Skip(n) == [op |-> "skip", bytes |-> n]

\* Bytes of a scalar of a GGUF value type; other types are skipped as nothing.
ScalarBytes(type) ==
  CASE type \in {0, 1, 7}    -> 1
    [] type \in {2, 3}       -> 2
    [] type \in {4, 5, 6}    -> 4
    [] type \in {10, 11, 12} -> 8
    [] OTHER                 -> 0

SkipScalar(type) == <<Skip(ScalarBytes(type))>>

SkipString(length) == <<Get(LongBytes), Skip(length)>>

SkipStrings(lengths) ==
  <<Get(IntBytes), Get(LongBytes)>>
    \o [i \in 1..2 * Len(lengths) |->
          IF i % 2 = 1 THEN Get(LongBytes) ELSE Skip(lengths[i \div 2])]

SkipArray(type, count) ==
  <<Get(IntBytes), Get(LongBytes), Skip(count * ScalarBytes(type))>>

ReadString(length) == <<Get(LongBytes), Body(length)>>

Requests(item) ==
  CASE item.kind = "number"  -> <<Get(item.bytes)>>
    [] item.kind = "string"  -> ReadString(item.length)
    [] item.kind = "scalar"  -> SkipScalar(item.type)
    [] item.kind = "text"    -> SkipString(item.length)
    [] item.kind = "texts"   -> SkipStrings(item.lengths)
    [] item.kind = "scalars" -> SkipArray(item.type, item.count)

-----------------------------------------------------------------------------
Bytes(first, n) == [i \in 1..n |-> first + i]

Rest == IF pos < size THEN size - pos ELSE 0

Init ==
  /\ todo = <<>>
  /\ pos = 0
  /\ got = <<>>
  /\ failed = FALSE

NextItem ==
  /\ todo = <<>> /\ items # <<>>
  /\ todo' = Requests(Head(items))
  /\ items' = Tail(items)
  /\ UNCHANGED <<pos, got, failed>>

\* readFully: all the bytes, or an exception (the position no longer matters).
Read ==
  /\ todo # <<>> /\ Head(todo).op = "get"
  /\ UNCHANGED items
  /\ \/ /\ Head(todo).bytes <= Rest
        /\ got' = Bytes(pos, Head(todo).bytes)
        /\ pos' = pos + Head(todo).bytes
        /\ todo' = Tail(todo)
        /\ UNCHANGED failed
     \/ /\ Head(todo).bytes > Rest
        /\ failed' = TRUE
        /\ UNCHANGED <<todo, pos, got>>

\* The characters of a string, or what is left of them where the file ends.
ReadBody ==
  /\ todo # <<>> /\ Head(todo).op = "body"
  /\ LET n == IF Head(todo).bytes <= Rest THEN Head(todo).bytes ELSE Rest IN
     /\ got' = Bytes(pos, n)
     /\ pos' = pos + n
  /\ todo' = Tail(todo)
  /\ UNCHANGED <<items, failed>>

\* A skip moves the position, past the end of the file as well.
SkipBytes ==
  /\ todo # <<>> /\ Head(todo).op = "skip"
  /\ pos' = pos + Head(todo).bytes
  /\ todo' = Tail(todo)
  /\ UNCHANGED <<items, got, failed>>

Next == /\ ~failed
        /\ UNCHANGED size
        /\ NextItem \/ Read \/ ReadBody \/ SkipBytes

Spec == Init /\ [][Next]_vars
=============================================================================
