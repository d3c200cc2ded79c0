------------------------------ MODULE MCMphMap ------------------------------
(* MphMap for TLC: the threads are interchangeable model values.           *)
EXTENDS MphMap, PermuteInPlace, TLC

CONSTANTS t1, t2, t3, t4

\* The loop of permute has the effect MphMap gives it, on any permutation of at most
\* five entries.
ASSUME LoopPermutes ==
  \A n \in 0 .. 5 : \A idx \in Permutations(1 .. n) :
    LET es == [i \in 1 .. n |-> i] IN PermuteLoop(es, idx) = Permute(es, idx)

ThreadSymmetry == Permutations(Threads)
=============================================================================
