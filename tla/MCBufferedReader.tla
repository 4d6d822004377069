-------------------------- MODULE MCBufferedReader --------------------------
(* Headers that between them hold every item, with strings shorter and     *)
(* longer than a buffer of ten bytes, ending at every byte.                *)
EXTENDS BufferedReader

Number(n) == [kind |-> "number", bytes |-> n]

String(n) == [kind |-> "string", length |-> n]

Scalar(type) == [kind |-> "scalar", type |-> type]

Text(n) == [kind |-> "text", length |-> n]

Texts(lengths) == [kind |-> "texts", lengths |-> lengths]

Scalars(type, count) == [kind |-> "scalars", type |-> type, count |-> count]

FilesValue ==
  { <<Number(4), String(3), Number(4), Texts(<<0, 11, 2>>), String(23), Scalar(7)>>,
    <<Number(8), Scalar(10), Scalars(6, 3), String(0), Text(14), Scalar(3), Number(4)>>,
    <<String(10), Scalars(0, 2), Scalars(3, 3), Scalars(12, 1), Scalar(5), Number(4)>> }
=============================================================================
