---------------------------- MODULE BasicBlocks -----------------------------
(***************************************************************************)
(* extract_bbs_from_pc_trace (lib/xnu-trace/TraceLog.cpp), used by the log *)
(* utility and the tests on the program counters of one thread: runs of    *)
(* consecutive instructions.                                               *)
(***************************************************************************)
EXTENDS Naturals, Sequences, SequencesExt

\* bbs, bb_start and last_pc after the loop's first round, which only sets last_pc
FirstRound(pcs) == [bbs |-> <<>>, start |-> pcs[1], last |-> pcs[1]]

\* Slip: a block ends at the start of its last instruction.
Round_Short(acc, pc) ==
  IF acc.last + 4 # pc
  THEN [bbs |-> Append(acc.bbs, [pc |-> acc.start, sz |-> acc.last - acc.start]),
        start |-> pc, last |-> pc]
  ELSE [acc EXCEPT !.last = pc]

\* Every other round
Round(acc, pc) ==
  IF acc.last + 4 # pc
  THEN [bbs |-> Append(acc.bbs, [pc |-> acc.start, sz |-> acc.last + 4 - acc.start]),
        start |-> pc, last |-> pc]
  ELSE [acc EXCEPT !.last = pc]

\* What follows the loop
AfterLoop(acc) ==
  IF acc.start # acc.last
  THEN Append(acc.bbs, [pc |-> acc.start, sz |-> acc.last + 4 - acc.start])
  ELSE acc.bbs

ExtractBbs(pcs) == AfterLoop(FoldLeft(Round, FirstRound(pcs), Tail(pcs)))
=============================================================================
