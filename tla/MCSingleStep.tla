---------------------------- MODULE MCSingleStep ----------------------------
(* SingleStep for TLC: the threads are model values.  t1 is the first      *)
(* thread and the controller, so there is no symmetry to use.              *)
EXTENDS SingleStep, TLC

CONSTANTS t1, t2
=============================================================================
