---------------------------- MODULE MCThreadPool ----------------------------
(* ThreadPool for TLC: one caller with two tasks and one with one.         *)
EXTENDS ThreadPool, TLC

CONSTANTS c1, c2, w1, w2

TwoAndOne == (c1 :> 2) @@ (c2 :> 1)
=============================================================================
