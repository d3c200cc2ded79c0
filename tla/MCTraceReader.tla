--------------------------- MODULE MCTraceReader ----------------------------
(* TraceReader for TLC: two general purpose registers, which nothing in    *)
(* the model tells apart, and one vector register.                         *)
EXTENDS TraceReader, TLC

CONSTANTS x0, x1, v0

Interchangeable == Permutations({x0, x1})
=============================================================================
