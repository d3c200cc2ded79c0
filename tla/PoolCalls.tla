----------------------------- MODULE PoolCalls ------------------------------
(***************************************************************************)
(* What XNUTraceThreadPool::wait_on_n_tasks promises its callers           *)
(* (include/xnu-trace/ThreadPool.h), without waiter, queue or pool: while  *)
(* a call lasts each of its blocks runs exactly once, no block runs at any *)
(* other time, and the call returns once all of them have run.             *)
(***************************************************************************)
EXTENDS Naturals

CONSTANTS
  Callers,  \* threads that call into the pool
  NTasks    \* NTasks[c]: n of caller c's calls

VARIABLES
  calling,  \* calling[c]: c is inside wait_on_n_tasks
  ran       \* the blocks of c's current or last call that have run

vars == <<calling, ran>>

Init == calling = [c \in Callers |-> FALSE] /\ ran = [c \in Callers |-> {}]

Begin(c) ==
  /\ ~calling[c]
  /\ calling' = [calling EXCEPT ![c] = TRUE]
  /\ ran' = [ran EXCEPT ![c] = {}]

RunTask(c, i) ==
  /\ calling[c] /\ i \notin ran[c]
  /\ ran' = [ran EXCEPT ![c] = @ \union {i}]
  /\ UNCHANGED calling

Return(c) ==
  /\ calling[c] /\ ran[c] = 0 .. NTasks[c] - 1
  /\ calling' = [calling EXCEPT ![c] = FALSE]
  /\ UNCHANGED ran

Next ==
  \E c \in Callers :
    Begin(c) \/ Return(c) \/ \E i \in 0 .. NTasks[c] - 1 : RunTask(c, i)

Safety == Init /\ [][Next]_vars

\* Every call returns.
Returns == \A c \in Callers : calling[c] ~> ~calling[c]

Spec == Safety /\ Returns
=============================================================================
