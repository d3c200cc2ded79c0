----------------------------- MODULE LoopBlocks -----------------------------
(***************************************************************************)
(* BS::blocks, by which the thread pool divides a loop of `size' rounds    *)
(* among k threads.                                                        *)
(***************************************************************************)
EXTENDS Naturals

BlockSize(size, k) == IF size \div k = 0 THEN 1 ELSE size \div k
NumBlocks(size, k) == IF size \div k = 0 THEN size ELSE k

\* Block i, counted from 0, is the rounds from Start up to, not including, End.
Start(size, k, i) == i * BlockSize(size, k)
End(size, k, i) == IF i = NumBlocks(size, k) - 1 THEN size ELSE Start(size, k, i + 1)
=============================================================================
