--------------------------- MODULE MCOutputStream ---------------------------
(* OutputStream for TLC: writes of up to two bytes of two kinds. *)
EXTENDS OutputStream

MCWrites == {<<>>, <<7>>, <<8, 7>>}
=============================================================================
