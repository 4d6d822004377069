---------------------------- MODULE MCLlamaModel ----------------------------
(* Two threads, a prompt of no chunk, of one and of two, a context that    *)
(* two calls fill, and callbacks that call the model again.                *)
EXTENDS LlamaModel, TLC

CONSTANTS t1, t2, a, w

ThreadsValue == {t1, t2}

WordsValue == {a}

WideValue == {w}

PromptsValue == {<<>>, <<a>>, <<a, w, w>>}

ThreadSymmetry == Permutations(ThreadsValue)
=============================================================================
