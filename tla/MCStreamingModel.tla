-------------------------- MODULE MCStreamingModel --------------------------
(* Constants of the runs of StreamingModel. *)
EXTENDS StreamingModel

\* Chunks of one size, every chunk with bytes of its own.
MCSpan == [c \in Chunks |-> 1]
MCDistinct == [c \in Chunks |-> c]
=============================================================================
