------------------------------ MODULE MCKeySet ------------------------------
(* Values of the constants of MsgKeySet for TLC. *)
EXTENDS MsgKeySet

\* Nothing, neighbours that are not merged, ranges, one number.
SomeLines == {<<>>, <<<<1, 1>>, <<2, 2>>, <<3, 3>>>>, <<<<0, 3>>, <<5, 6>>>>, <<<<4, 4>>>>}
=============================================================================
