---------------------------- MODULE BlockKernels ----------------------------
(***************************************************************************)
(* What the kernels of the engine compute, native (AVX2) and Java, from    *)
(* the rows of a quantized matrix, and what GgufDequantizer makes of the   *)
(* same bytes.  No number is computed: a kernel is followed down to which  *)
(* stored bits it multiplies with which input.                             *)
(*                                                                         *)
(*   value    a set of fields <<byte, first bit, bits, shift>> put together *)
(*   weight   (product of scale) * (quant - zero) - (product of less)      *)
(*   term     <<weight, index of an input float>>, a product               *)
(*   sum      the sequence of its terms, in the order they are added       *)
(*   vector   a sequence of lanes; an accumulator has a sum in each lane   *)
(*                                                                         *)
(* Two sums of the same terms are the same up to rounding.                 *)
(***************************************************************************)
EXTENDS Integers, Sequences, FiniteSets, SequencesExt

Formats == {"F16", "Q4_0", "Q8_0", "Q4_K", "Q6_K"}

\* The structs of the kernels: columns and bytes of a block.
BlockColumns == [F16 |-> 1, Q4_0 |-> 32, Q8_0 |-> 32, Q4_K |-> 256, Q6_K |-> 256]
BlockBytes == [F16 |-> 2, Q4_0 |-> 18, Q8_0 |-> 34, Q4_K |-> 144, Q6_K |-> 210]

Blocks(format, cols) == cols \div BlockColumns[format]
RowBytes(format, cols) == Blocks(format, cols) * BlockBytes[format]

Weight(scale, quant, zero, less) ==
  [scale |-> scale, quant |-> quant, zero |-> zero, less |-> less]

Low(a) == {<<a, 0, 4, 0>>}
High(a) == {<<a, 4, 4, 0>>}
Byte(a) == {<<a, 0, 8, 0>>}
Half(a) == {<<a, 0, 8, 0>>, <<a + 1, 0, 8, 8>>}

\* Sequences of the same length, one after the other.
Joined(parts, length) ==
  [k \in 1..Len(parts) * length |-> parts[1 + (k - 1) \div length][1 + ((k - 1) % length)]]

\* n of them.
Concat(n, length, part(_)) == Joined([i \in 1..n |-> part(i - 1)], length)

\* The members of a set of numbers, the smallest first.
Ascending(S) ==
  [k \in 1..Cardinality(S) |-> CHOOSE n \in S : Cardinality({m \in S : m < n}) = k - 1]

-----------------------------------------------------------------------------
(* The 6-bit scales and minima of a Q4_K block, packed into 12 bytes.       *)

\* The upper two bits of both are taken from the same byte.
ScaleBitsOfMin(s, j) ==
  IF j < 4 THEN {<<s + j, 0, 6, 0>>} ELSE {<<s + j + 4, 0, 4, 0>>, <<s + j, 6, 2, 4>>}

ScaleBits(s, j) ==
  IF j < 4 THEN {<<s + j, 0, 6, 0>>} ELSE {<<s + j + 4, 0, 4, 0>>, <<s + j - 4, 6, 2, 4>>}

MinBits(s, j) ==
  IF j < 4 THEN {<<s + j + 4, 0, 6, 0>>} ELSE {<<s + j + 4, 4, 4, 0>>, <<s + j, 6, 2, 4>>}

\* Group g of 64 columns shares 32 bytes: low nibbles for the first 32 columns,
\* high nibbles for the others, each half with the next scale and minimum.
Q4KWeight(blk, g, half, l) ==
  Weight({Half(blk), ScaleBits(blk + 4, 2 * g + half)},
         LET a == blk + 16 + 32 * g + l IN IF half = 0 THEN Low(a) ELSE High(a),
         0, {Half(blk + 2), MinBits(blk + 4, 2 * g + half)})

Q4_0Weight(blk, quant) == Weight({Half(blk)}, quant, 8, {})
Q8_0Weight(blk, i) == Weight({Half(blk)}, Byte(blk + 2 + i), 0, {})

-----------------------------------------------------------------------------
(* GgufDequantizer: the weight of column c of a row at address a.           *)

DecodedQ4_0(blk, k) ==
  Q4_0Weight(blk, IF k < 16 THEN Low(blk + 2 + k) ELSE High(blk + 2 + k - 16))

DecodedQ6_K(blk, k) ==
  LET n == k \div 128   quarter == (k % 128) \div 32   l == k % 32
      ql == blk + 64 * n + l + (IF quarter % 2 = 1 THEN 32 ELSE 0)
      low == IF quarter < 2 THEN Low(ql) ELSE High(ql)
  IN Weight({Half(blk + 208), Byte(blk + 192 + 8 * n + l \div 16 + 2 * quarter)},
            low \cup {<<blk + 128 + 32 * n + l, 2 * quarter, 2, 4>>}, 32, {})

Decoded(format, a, c) ==
  LET k == c % BlockColumns[format]
      blk == a + BlockBytes[format] * (c \div BlockColumns[format])
  IN CASE format = "F16" -> Weight({}, Half(blk), 0, {})
       [] format = "Q4_0" -> DecodedQ4_0(blk, k)
       [] format = "Q8_0" -> Q8_0Weight(blk, k)
       [] format = "Q4_K" -> Q4KWeight(blk, k \div 64, (k % 64) \div 32, k % 32)
       [] format = "Q6_K" -> DecodedQ6_K(blk, k)

-----------------------------------------------------------------------------
(* AVX2.                                                                    *)

Load16(a) == [i \in 1..16 |-> a + i - 1]
UnpackLo(v, w) == [i \in 1..16 |-> IF i % 2 = 1 THEN v[(i + 1) \div 2] ELSE w[i \div 2]]
UnpackHi(v, w) == [i \in 1..16 |-> IF i % 2 = 1 THEN v[8 + (i + 1) \div 2] ELSE w[8 + i \div 2]]

\* set_m128i of two cvtepu8_epi32, of the bytes shifted down by n + 4 and by n.
Eight(v, n) == SubSeq(v, n + 1, n + 4) \o SubSeq(v, n + 5, n + 8)

\* Lane l of an accumulator that is fed the vectors of products fmas, in order.
Accumulate(fmas) == [l \in 1..8 |-> [k \in DOMAIN fmas |-> fmas[k][l]]]
AddVectors(v, w) == [l \in DOMAIN v |-> v[l] \o w[l]]

\* Upper onto lower half, then movehl, then shuffle.
HorizontalSum(acc) ==
  LET sum128 == [l \in 1..4 |-> acc[l] \o acc[l + 4]]
      pair == [l \in 1..2 |-> sum128[l] \o sum128[l + 2]]
  IN pair[1] \o pair[2]

\* The products of eight weights with eight floats from x on.
Multiply8(ws, x) == [l \in 1..8 |-> <<ws[l], x + l - 1>>]

-----------------------------------------------------------------------------
(* Native kernels for one row at address a and the floats from x on.        *)

\* The 32 weights of a block as four vectors, in the order of the floats.
VectorsQ4_0(blk) ==
  LET raw == Load16(blk + 2)
      low == [i \in 1..16 |-> Q4_0Weight(blk, Low(raw[i]))]
      high == [i \in 1..16 |-> Q4_0Weight(blk, High(raw[i]))]
      lo == UnpackLo(low, high)
      hi == UnpackHi(low, high)
  IN <<Eight(lo, 0), Eight(lo, 8), Eight(hi, 0), Eight(hi, 8)>>

VectorsQ8_0(blk) ==
  LET qs0 == [i \in 1..16 |-> Q8_0Weight(blk, i - 1)]
      qs1 == [i \in 1..16 |-> Q8_0Weight(blk, 16 + i - 1)]
  IN <<Eight(qs0, 0), Eight(qs0, 8), Eight(qs1, 0), Eight(qs1, 8)>>

Vectors(format, blk) == IF format = "Q4_0" THEN VectorsQ4_0(blk) ELSE VectorsQ8_0(blk)

\* Two accumulators over all blocks, one horizontal sum at the end.
DotOf(format, a, cols, x) ==
  LET products(b, k) ==
        Multiply8(Vectors(format, a + b * BlockBytes[format])[k], x + 32 * b + 8 * (k - 1))
      acc0 == Accumulate(Concat(Blocks(format, cols), 2, LAMBDA b : <<products(b, 1), products(b, 3)>>))
      acc1 == Accumulate(Concat(Blocks(format, cols), 2, LAMBDA b : <<products(b, 2), products(b, 4)>>))
  IN HorizontalSum(AddVectors(acc0, acc1))

DotQ4_0(a, cols, x) == DotOf("Q4_0", a, cols, x)
DotQ8_0(a, cols, x) == DotOf("Q8_0", a, cols, x)

\* Per group of 64 columns: one accumulator, a low and a high product in turn.
DotQ4_K(a, cols, x) ==
  LET group(blk, g, x0) ==
        LET products(l, half) ==
              Multiply8([k \in 1..8 |-> Q4KWeight(blk, g, half, l + k - 1)], x0 + 32 * half + l)
        IN HorizontalSum(Accumulate(
             Concat(4, 2, LAMBDA i : <<products(8 * i, 0), products(8 * i, 1)>>)))
  IN Concat(Blocks("Q4_K", cols), 256,
            LAMBDA b : Concat(4, 64, LAMBDA g : group(a + 144 * b, g, x + 256 * b + 64 * g)))

\* Batched kernels: a block is unpacked once, by index, and summed for each input.
UnpackedQ4_0(blk) ==
  [k \in 0..31 |-> Q4_0Weight(blk, LET byte == blk + 2 + k \div 2
                                   IN IF k % 2 = 0 THEN Low(byte) ELSE High(byte))]

UnpackedQ8_0(blk) == [k \in 0..31 |-> Q8_0Weight(blk, k)]

UnpackedQ4_K(blk) ==
  [k \in 0..255 |-> Q4KWeight(blk, k \div 64, (k % 64) \div 32, k % 32)]

Unpacked(format, blk) ==
  CASE format = "Q4_0" -> UnpackedQ4_0(blk)
    [] format = "Q8_0" -> UnpackedQ8_0(blk)
    [] format = "Q4_K" -> UnpackedQ4_K(blk)

\* One accumulator and one horizontal sum per block.
GemmOf(format, a, cols, x) ==
  LET n == BlockColumns[format]
      sum(b) == LET q == Unpacked(format, a + b * BlockBytes[format])
                IN HorizontalSum(Accumulate([i \in 1..n \div 8 |->
                     Multiply8([l \in 1..8 |-> q[8 * (i - 1) + l - 1]], x + n * b + 8 * (i - 1))]))
  IN Concat(Blocks(format, cols), n, sum)

GemmQ4_0(a, cols, x) == GemmOf("Q4_0", a, cols, x)
GemmQ8_0(a, cols, x) == GemmOf("Q8_0", a, cols, x)
GemmQ4_K(a, cols, x) == GemmOf("Q4_K", a, cols, x)

NativeRow(op, format, a, cols, x) ==
  CASE op = "gemv" /\ format = "Q4_0" -> DotQ4_0(a, cols, x)
    [] op = "gemv" /\ format = "Q8_0" -> DotQ8_0(a, cols, x)
    [] op = "gemv" /\ format = "Q4_K" -> DotQ4_K(a, cols, x)
    [] op = "gemm" /\ format = "Q4_0" -> GemmQ4_0(a, cols, x)
    [] op = "gemm" /\ format = "Q8_0" -> GemmQ8_0(a, cols, x)
    [] op = "gemm" /\ format = "Q4_K" -> GemmQ4_K(a, cols, x)

-----------------------------------------------------------------------------
(* Java kernels for one row at address a; heap: from a byte array, else     *)
(* through the pointer, eight bytes at a time.                              *)

\* Byte i of the little-endian long at address a, (packed >>> 8 * i) & 0xFF.
LongByte(a, i) == a + i

\* One byte: its low nibble with float x, its high nibble with the next.
NibblePair(blk, byte, x) ==
  <<<<Q4_0Weight(blk, Low(byte)), x>>, <<Q4_0Weight(blk, High(byte)), x + 1>>>>

FusedDotQ4_0(a, cols, heap) ==
  LET block(b) ==
        LET blk == a + 18 * b   off == blk + 2   x == 32 * b
        IN IF heap
           THEN Concat(16, 2, LAMBDA i : NibblePair(blk, off + i, x + 2 * i))
           ELSE Concat(8, 2, LAMBDA i : NibblePair(blk, LongByte(off, i), x + 2 * i))
                \o Concat(8, 2, LAMBDA i : NibblePair(blk, LongByte(off + 8, i), x + 16 + 2 * i))
  IN Concat(Blocks("Q4_0", cols), 32, block)

FusedDotQ8_0(a, cols, heap) ==
  LET block(b) ==
        LET blk == a + 34 * b   x == 32 * b
            byte(k) == IF heap THEN blk + 2 + k
                       ELSE LongByte(blk + 2 + 8 * (k \div 8), k % 8)
        IN [k \in 1..32 |-> <<Weight({Half(blk)}, Byte(byte(k - 1)), 0, {}), x + k - 1>>]
  IN Concat(Blocks("Q8_0", cols), 32, block)

\* Through the pointer four at a time, as long as four are left.
FusedDotF16(a, cols, heap) ==
  LET packed == IF heap THEN 0 ELSE 4 * (cols \div 4)
      half(i) == IF i < packed
                 THEN LET p == a + 2 * 4 * (i \div 4)  j == i % 4
                      IN {<<LongByte(p, 2 * j), 0, 8, 0>>, <<LongByte(p, 2 * j + 1), 0, 8, 8>>}
                 ELSE Half(a + 2 * i)
  IN [i \in 1..cols |-> <<Weight({}, half(i - 1), 0, {}), i - 1>>]

\* Any other format is dequantized into a row and multiplied eight at a time.
DotProductUnrolled(row, cols) ==
  LET full == cols \div 8
      lane(s) == [i \in 1..full |-> <<row[8 * (i - 1) + s], 8 * (i - 1) + s>>]
  IN Concat(8, full, lane) \o [i \in 1..cols % 8 |-> <<row[8 * full + i - 1], 8 * full + i - 1>>]

\* The batched Java kernels unpack like the native ones.
FusedDotBatch(format, a, cols) ==
  LET block(b) ==
        LET q == Unpacked(format, a + b * BlockBytes[format])
        IN [i \in 1..32 |-> <<q[i - 1], 32 * b + i - 1>>]
  IN Concat(Blocks(format, cols), 32, block)

JavaRow(op, format, a, cols, heap) ==
  CASE format = "Q4_0" /\ op = "gemv" -> FusedDotQ4_0(a, cols, heap)
    [] format = "Q8_0" /\ op = "gemv" -> FusedDotQ8_0(a, cols, heap)
    [] format \in {"Q4_0", "Q8_0"} /\ op = "gemm" -> FusedDotBatch(format, a, cols)
    [] format = "F16" -> FusedDotF16(a, cols, heap)
    [] OTHER -> DotProductUnrolled([c \in 0..cols - 1 |-> Decoded(format, a, c)], cols)

-----------------------------------------------------------------------------
(* Attention of one head.  q and k (and v) are the indices of the first of  *)
(* n floats of the head; the sums have terms <<index of q, index of k>>.     *)

\* The kernel without its last loop, as if heads always had a multiple of 8.
NativeScoreNoTail(q, k, n) ==
  LET n16 == n \div 16
      n8 == (n - 16 * n16) \div 8
      products(d) == [l \in 1..8 |-> <<q + d + l - 1, k + d + l - 1>>]
      acc0 == Accumulate([i \in 1..n16 |-> products(16 * (i - 1))]
                         \o [i \in 1..n8 |-> products(16 * n16 + 8 * (i - 1))])
      acc1 == Accumulate([i \in 1..n16 |-> products(16 * (i - 1) + 8)])
  IN HorizontalSum(AddVectors(acc0, acc1))

\* Steps of 16 with two accumulators, of 8 with one, then one by one.
NativeScore(q, k, n) ==
  LET n16 == n \div 16
      n8 == (n - 16 * n16) \div 8
      rest == 16 * n16 + 8 * n8
      products(d) == [l \in 1..8 |-> <<q + d + l - 1, k + d + l - 1>>]
      acc0 == Accumulate([i \in 1..n16 |-> products(16 * (i - 1))]
                         \o [i \in 1..n8 |-> products(16 * n16 + 8 * (i - 1))])
      acc1 == Accumulate([i \in 1..n16 |-> products(16 * (i - 1) + 8)])
  IN HorizontalSum(AddVectors(acc0, acc1))
     \o [i \in 1..n - rest |-> <<q + rest + i - 1, k + rest + i - 1>>]

\* Four at a time, then one by one.
JavaScore(q, k, n) ==
  LET full == n \div 4
  IN Concat(full, 4, LAMBDA i : [j \in 1..4 |-> <<q + 4 * i + j - 1, k + 4 * i + j - 1>>])
     \o [i \in 1..n % 4 |-> <<q + 4 * full + i - 1, k + 4 * full + i - 1>>]

\* The places of a head's output that the loop over a value vector adds to, in
\* its order: full steps of the given width, then one by one.
Visited(n, width) ==
  LET full == n \div width
  IN Concat(full, width, LAMBDA i : [j \in 1..width |-> width * i + j - 1])
     \o [i \in 1..n % width |-> width * full + i - 1]

\* The KV head of a query head.
KvHead(heads, kvHeads, h) == h \div (IF heads \div kvHeads > 1 THEN heads \div kvHeads ELSE 1)

\* Index of the K (and V) vector of a position and KV head in its layer.
CacheIndex(kvHeads, headDim, t, kvH) == (t * kvHeads + kvH) * headDim

-----------------------------------------------------------------------------
(* parallel_for: the ranges of rows its threads are given.                  *)
ParallelFor(total, threads, serial) ==
  IF total =< serial \/ threads =< 1
  THEN {<<0, total>>}
  ELSE LET chunk == (total + threads - 1) \div threads
           end(s) == IF total < s + chunk THEN total ELSE s + chunk
       IN {<<t * chunk, end(t * chunk)>> : t \in {u \in 0..threads - 1 : u * chunk < end(u * chunk)}}

-----------------------------------------------------------------------------
(* Vocabulary of the properties.                                            *)

\* s adds up exactly these terms, each of them once.
IsSumOf(s, terms) == Len(s) = Cardinality(terms) /\ ToSet(s) = terms

\* The column whose decoded weight the Q4_0 kernels multiply with column c: a
\* byte holds columns 2i and 2i + 1 for them, columns i and i + 16 for the
\* dequantizer (and for ggml).
KernelColumn(format, c) ==
  IF format # "Q4_0" THEN c
  ELSE 32 * (c \div 32) + (IF c % 2 = 0 THEN 0 ELSE 16) + (c % 32) \div 2

StoredBits(value) == UNION {{<<f[1], f[2] + i>> : i \in 0..f[3] - 1} : f \in value}

\* The fields of a value lie side by side.
IsWhole(value, width) ==
  /\ UNION {f[4]..f[4] + f[3] - 1 : f \in value} = 0..width - 1
  /\ Cardinality(StoredBits(value)) = width
=============================================================================
