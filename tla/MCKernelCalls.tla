---------------------------- MODULE MCKernelCalls ----------------------------
(* Constants of the run of KernelCalls. *)
EXTENDS KernelCalls

Product(op, format, rows, cols, batch, place, base) ==
  [op |-> op, format |-> format, rows |-> rows, cols |-> cols, batch |-> batch,
   place |-> place, base |-> base]

Attentive(heads, kvHeads, headDim, maxTokens, pos, faint) ==
  [op |-> "attention", heads |-> heads, kvHeads |-> kvHeads, headDim |-> headDim,
   maxTokens |-> maxTokens, pos |-> pos, faint |-> faint]

\* Products of every format by every path, of one block and of two, and heads whose
\* dimension needs the steps of 16, of 8, of 4 and of 1, in groups of 1, 2 and 3: in
\* the context and behind it, and without whole groups before its end and at it.
AllCalls ==
  {Product("gemv", "Q4_0", 1, 64, 1, "mapped", 7),
   Product("gemv", "Q4_0", 3, 32, 1, "mapped", 0),
   Product("gemv", "Q8_0", 3, 64, 1, "mapped", 5),
   Product("gemv", "Q4_K", 2, 256, 1, "mapped", 3),
   Product("gemv", "F16", 2, 6, 1, "mapped", 2),
   Product("gemv", "Q6_K", 2, 256, 1, "mapped", 2),
   Product("gemv", "Q4_0", 2, 64, 1, "direct", 0),
   Product("gemv", "Q8_0", 2, 32, 1, "heap", 0),
   Product("gemm", "Q4_0", 3, 32, 2, "mapped", 9),
   Product("gemm", "Q8_0", 2, 64, 2, "heap", 0),
   Product("gemm", "Q4_K", 2, 256, 2, "mapped", 1),
   Product("gemm", "F16", 1, 6, 2, "heap", 0),
   Attentive(4, 2, 12, 2, 1, {}),
   Attentive(3, 1, 30, 2, 2, {1}),
   Attentive(2, 2, 7, 1, 0, {}),
   Attentive(5, 2, 8, 3, 1, {}),
   Attentive(3, 2, 4, 2, 1, {0})}

\* After any two calls, one that may find GPU buffers an earlier failure left behind.
MCCalls == <<AllCalls, AllCalls, {Product("gemv", "Q4_0", 1, 64, 1, "mapped", 7),
                                  Product("gemv", "Q8_0", 2, 32, 1, "mapped", 0)}>>
=============================================================================
