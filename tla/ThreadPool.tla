----------------------------- MODULE ThreadPool -----------------------------
(***************************************************************************)
(* XNUTraceThreadPool::wait_on_n_tasks and parallelize_indexed_loop        *)
(* (include/xnu-trace/ThreadPool.h) over AtomicWaiter (Atomic.h).          *)
(*                                                                         *)
(* A caller puts an AtomicWaiter on its stack, pushes n tasks and waits;   *)
(* a task runs its block and then releases the waiter: it decrements the   *)
(* counter and notifies, two separate accesses.  The caller may return     *)
(* between them, so the notification can reach memory that the caller's    *)
(* next call has already reused for its own waiter.  Calls of one caller   *)
(* are numbered by rounds and share one cell of memory here.               *)
(***************************************************************************)
EXTENDS Naturals, Sequences, FiniteSets

CONSTANTS
  Callers,   \* threads that call into the pool (none is a pool thread)
  Pool,      \* the pool's threads
  NTasks,    \* NTasks[c]: n of caller c's calls
  MaxRounds  \* bound: calls each caller makes

ASSUME ConstantsAssumption ==
  /\ NTasks \in [Callers -> Nat]
  /\ MaxRounds \in Nat

VARIABLES
  cpc,       \* where a caller is
  round,     \* the number of its current or last call
  pushed,    \* tasks it has pushed in this call: 0 .. pushed[c]-1
  cnt,       \* m_cnt of the waiter in its stack slot
  cur,       \* the local `cur` of AtomicWaiter::wait
  done,      \* tasks of this call whose block has returned
  released,  \* tasks of this call that have decremented m_cnt
  queue,     \* the pool's task queue
  wpc, task  \* where a pool thread is, and with which task

callerVars == <<cpc, round, pushed, cur>>
waitVars   == <<cnt, done, released>>
poolVars   == <<queue, wpc, task>>
vars == <<callerVars, waitVars, poolVars>>

Tasks(c) == 0 .. NTasks[c] - 1
Task     == [caller : Callers, round : 1 .. MaxRounds, index : Nat]

None     == [caller |-> "none"]

TypeOK ==
  /\ cpc \in [Callers -> {"idle", "push", "load", "compare", "asleep"}]
  /\ round \in [Callers -> 0 .. MaxRounds]
  /\ pushed \in [Callers -> Nat]
  /\ cnt \in [Callers -> Nat] /\ cur \in [Callers -> Nat]
  /\ done \in [Callers -> SUBSET Nat]
  /\ released \in [Callers -> SUBSET Nat]
  /\ queue \in Seq(Task)
  /\ wpc \in [Pool -> {"idle", "block", "release", "notify"}]
  /\ task \in [Pool -> Task \union {None}]
  /\ \A w \in Pool : wpc[w] # "idle" => task[w] \in Task

Init ==
  /\ cpc = [c \in Callers |-> "idle"]
  /\ round = [c \in Callers |-> 0]
  /\ pushed = [c \in Callers |-> 0]
  /\ cnt = [c \in Callers |-> 0] /\ cur = [c \in Callers |-> 0]
  /\ done = [c \in Callers |-> {}] /\ released = [c \in Callers |-> {}]
  /\ queue = <<>>
  /\ wpc = [w \in Pool |-> "idle"] /\ task = [w \in Pool |-> None]

-----------------------------------------------------------------------------
(* The caller.                                                             *)

\* Slip: the waiter counts one task too few.
Call_OneLess(c) ==
  /\ cpc[c] = "idle" /\ round[c] < MaxRounds
  /\ cpc' = [cpc EXCEPT ![c] = "push"]
  /\ round' = [round EXCEPT ![c] = @ + 1]
  /\ pushed' = [pushed EXCEPT ![c] = 0]
  /\ cnt' = [cnt EXCEPT ![c] = IF NTasks[c] = 0 THEN 0 ELSE NTasks[c] - 1]
  /\ done' = [done EXCEPT ![c] = {}]
  /\ released' = [released EXCEPT ![c] = {}]
  /\ UNCHANGED <<cur, poolVars>>

\* AtomicWaiter waiter(n)
Call(c) ==
  /\ cpc[c] = "idle" /\ round[c] < MaxRounds
  /\ cpc' = [cpc EXCEPT ![c] = "push"]
  /\ round' = [round EXCEPT ![c] = @ + 1]
  /\ pushed' = [pushed EXCEPT ![c] = 0]
  /\ cnt' = [cnt EXCEPT ![c] = NTasks[c]]
  /\ done' = [done EXCEPT ![c] = {}]
  /\ released' = [released EXCEPT ![c] = {}]
  /\ UNCHANGED <<cur, poolVars>>

\* push_task([&, i] { block(i); waiter.release(); })
PushTask(c) ==
  /\ cpc[c] = "push" /\ pushed[c] < NTasks[c]
  /\ queue' = Append(queue, [caller |-> c, round |-> round[c], index |-> pushed[c]])
  /\ pushed' = [pushed EXCEPT ![c] = @ + 1]
  /\ UNCHANGED <<cpc, round, cur, waitVars, wpc, task>>

\* wait(): T cur = m_cnt
StartWait(c) ==
  /\ cpc[c] = "push" /\ pushed[c] = NTasks[c]
  /\ cpc' = [cpc EXCEPT ![c] = "load"]
  /\ UNCHANGED <<round, pushed, cur, waitVars, poolVars>>

\* cur = m_cnt, and the loop condition: return when it is zero
Load(c) ==
  /\ cpc[c] = "load"
  /\ cur' = [cur EXCEPT ![c] = cnt[c]]
  /\ cpc' = [cpc EXCEPT ![c] = IF cnt[c] = 0 THEN "idle" ELSE "compare"]
  /\ UNCHANGED <<round, pushed, waitVars, poolVars>>

\* Slip: `if (cur)` for `while (cur)`: a changed counter is taken for zero.
Compare_Once(c) ==
  /\ cpc[c] = "compare"
  /\ cpc' = [cpc EXCEPT ![c] = IF cnt[c] = cur[c] THEN "asleep" ELSE "idle"]
  /\ UNCHANGED <<round, pushed, cur, waitVars, poolVars>>

\* m_cnt.wait(cur): sleep unless the value differs from cur, as one step
Compare(c) ==
  /\ cpc[c] = "compare"
  /\ cpc' = [cpc EXCEPT ![c] = IF cnt[c] = cur[c] THEN "asleep" ELSE "load"]
  /\ UNCHANGED <<round, pushed, cur, waitVars, poolVars>>

-----------------------------------------------------------------------------
(* The pool.                                                               *)

TakeTask(w) ==
  /\ wpc[w] = "idle" /\ queue # <<>>
  /\ task' = [task EXCEPT ![w] = Head(queue)]
  /\ queue' = Tail(queue)
  /\ wpc' = [wpc EXCEPT ![w] = "block"]
  /\ UNCHANGED <<callerVars, waitVars>>

\* block(i) writes slot i of the caller's results
RunBlock(w) ==
  /\ wpc[w] = "block"
  /\ done' = [done EXCEPT ![task[w].caller] = @ \union {task[w].index}]
  /\ wpc' = [wpc EXCEPT ![w] = "release"]
  /\ UNCHANGED <<callerVars, cnt, released, queue, task>>

\* Slip: a task releases twice.
Release_Twice(w) ==
  /\ wpc[w] = "release"
  /\ cnt' = [cnt EXCEPT ![task[w].caller] = @ - 2]
  /\ released' = [released EXCEPT ![task[w].caller] = @ \union {task[w].index}]
  /\ wpc' = [wpc EXCEPT ![w] = "notify"]
  /\ UNCHANGED <<callerVars, done, queue, task>>

\* m_cnt -= 1 (unsigned: below zero it wraps, which `cnt \in Nat` would show)
Release(w) ==
  /\ wpc[w] = "release"
  /\ cnt' = [cnt EXCEPT ![task[w].caller] = @ - 1]
  /\ released' = [released EXCEPT ![task[w].caller] = @ \union {task[w].index}]
  /\ wpc' = [wpc EXCEPT ![w] = "notify"]
  /\ UNCHANGED <<callerVars, done, queue, task>>

\* Slip: the counter is lowered but nobody is notified.
Notify_Nobody(w) ==
  /\ wpc[w] = "notify"
  /\ wpc' = [wpc EXCEPT ![w] = "idle"]
  /\ UNCHANGED <<callerVars, waitVars, queue, task>>

\* m_cnt.notify_all(): whoever sleeps on that address compares again
Notify(w) ==
  /\ wpc[w] = "notify"
  /\ cpc' = [cpc EXCEPT ![task[w].caller] = IF @ = "asleep" THEN "compare" ELSE @]
  /\ wpc' = [wpc EXCEPT ![w] = "idle"]
  /\ UNCHANGED <<round, pushed, cur, waitVars, queue, task>>

CallerStep(c) == PushTask(c) \/ StartWait(c) \/ Load(c) \/ Compare(c)
PoolStep(w)   == TakeTask(w) \/ RunBlock(w) \/ Release(w) \/ Notify(w)

Next ==
  \/ \E c \in Callers : Call(c) \/ CallerStep(c)
  \/ \E w \in Pool : PoolStep(w)

\* Every thread that can run does; nobody has to call again.
Spec ==
  /\ Init /\ [][Next]_vars
  /\ \A c \in Callers : WF_vars(CallerStep(c))
  /\ \A w \in Pool : WF_vars(PoolStep(w))

-----------------------------------------------------------------------------
(* Properties.                                                             *)

Returned(c) == cpc[c] = "idle" /\ round[c] > 0

\* When wait_on_n_tasks returns, every block of that call has returned: the
\* reader's vectors are complete when they are used, whatever older tasks still
\* do to the reused stack slot.
WaitMeansDone == \A c \in Callers : Returned(c) => done[c] = Tasks(c)

\* A task that has not yet decremented its waiter belongs to a call that has not
\* returned: neither the block's captures nor the decrement (only the
\* notification) can touch a dead or reused stack frame.
CapturesInScope ==
  /\ \A w \in Pool : wpc[w] \in {"block", "release"} =>
       cpc[task[w].caller] # "idle" /\ task[w].round = round[task[w].caller]
  /\ \A i \in DOMAIN queue :
       cpc[queue[i].caller] # "idle" /\ queue[i].round = round[queue[i].caller]

Calls == INSTANCE PoolCalls WITH calling <- [c \in Callers |-> cpc[c] # "idle"],
                                 ran <- done

\* The pool's calls are those of PoolCalls: every block runs exactly once, during its
\* call and with its own index, a call returns after the last of them, and, no
\* wake-up being lost, it does return.
ImplementsCalls == Calls!Spec
=============================================================================
