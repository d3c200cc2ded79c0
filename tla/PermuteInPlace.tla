--------------------------- MODULE PermuteInPlace ---------------------------
(***************************************************************************)
(* mph_map::permute (include/xnu-trace/MinimalPerfectHash.h) as the code   *)
(* has it: the cycles of the permutation are followed in place.            *)
(***************************************************************************)
EXTENDS Naturals, Sequences, SequencesExt

\* The inner loop, at `cur' of the cycle that starts at i, whose entry is held in t.
RECURSIVE Cycle(_, _, _, _, _)
Cycle(es, idx, t, i, cur) ==
  IF idx[cur] = i
  THEN [es |-> [es EXCEPT ![cur] = t], idx |-> [idx EXCEPT ![cur] = cur]]
  ELSE Cycle([es EXCEPT ![cur] = es[idx[cur]]], [idx EXCEPT ![cur] = cur], t, i, idx[cur])

\* permute
PermuteLoop(es, idx) ==
  FoldLeft(LAMBDA s, i : Cycle(s.es, s.idx, s.es[i], i, i),
           [es |-> es, idx |-> idx], [i \in 1 .. Len(es) |-> i]).es
=============================================================================
