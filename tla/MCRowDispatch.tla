--------------------------- MODULE MCRowDispatch ---------------------------
(* Constants of the run of RowDispatch. *)
EXTENDS RowDispatch

\* The pool and the native threads, their numbers scaled down.
MCUsers == {[inlineRows |-> 2, rowsPerTask |-> 2, pool |-> TRUE],
            [inlineRows |-> 4, rowsPerTask |-> 1, pool |-> FALSE]}
=============================================================================
