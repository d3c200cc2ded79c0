--------------------------- MODULE MCTraceBundle ----------------------------
(* TraceBundle for TLC: two images of one base name, whose digests begin   *)
(* alike, and a JIT region that is a copy of one of them.                  *)
EXTENDS TraceBundle, TLC

CONSTANTS t1, t2

Img1 == [base |-> 1, name |-> "lib", content |-> "A"]
Img2 == [base |-> 4, name |-> "lib", content |-> "B"]
Jit  == [base |-> 2, name |-> "jit0", content |-> "A"]

Mapped == {Img1, Img2, Jit}
ShortPrefix(c) == "AB"
ThreadSymmetry == Permutations(Threads)
=============================================================================
