-------------------------- MODULE ThreadPoolProofs --------------------------
(***************************************************************************)
(* Proofs about ThreadPool, for any callers, pool and numbers of tasks.    *)
(* The counter in a caller's stack slot equals the tasks of its current    *)
(* call that have not released; what makes this inductive is that every    *)
(* task in flight is of the current call, has not released, and is in      *)
(* flight once.                                                            *)
(***************************************************************************)
EXTENDS ThreadPool, FiniteSetTheorems, TLAPS

\* Pool thread w has a task that has not decremented its waiter yet.
Pending(w) == wpc[w] \in {"block", "release"}

\* Task k is of a call in progress and has been pushed but not released.
Live(k) ==
  /\ cpc[k.caller] # "idle" /\ k.round = round[k.caller]
  /\ k.index < pushed[k.caller] /\ k.index \notin released[k.caller]

Same(k, m) == k.caller = m.caller /\ k.index = m.index

InFlight ==
  /\ \A w \in Pool : Pending(w) => Live(task[w])
  /\ \A i \in DOMAIN queue : Live(queue[i])

Once ==
  /\ \A v, w \in Pool : v # w /\ Pending(v) /\ Pending(w) => ~Same(task[v], task[w])
  /\ \A w \in Pool : \A i \in DOMAIN queue : Pending(w) => ~Same(task[w], queue[i])
  /\ \A i, j \in DOMAIN queue : i # j => ~Same(queue[i], queue[j])

Recorded ==
  /\ \A c \in Callers : released[c] \subseteq done[c] /\ done[c] \subseteq 0 .. pushed[c] - 1
  /\ \A w \in Pool : wpc[w] = "release" => task[w].index \in done[task[w].caller]

Counted ==
  \A c \in Callers :
    /\ pushed[c] <= NTasks[c]
    /\ round[c] = 0 => cpc[c] = "idle"
    /\ round[c] > 0 => cnt[c] + Cardinality(released[c]) = NTasks[c]

Inv == TypeOK /\ InFlight /\ Once /\ Recorded /\ Counted /\ WaitMeansDone

-----------------------------------------------------------------------------
\* The indices released by a call are finitely many, at most one per task, and
\* all of them when there are as many as tasks.
LEMMA ReleasedFinite ==
  ASSUME Inv, NEW c \in Callers
  PROVE  /\ IsFiniteSet(released[c]) /\ Cardinality(released[c]) \in Nat
         /\ released[c] \subseteq Tasks(c)
         /\ Cardinality(released[c]) = NTasks[c] => released[c] = Tasks(c)
<1>1. NTasks[c] \in Nat /\ pushed[c] \in Nat /\ pushed[c] <= NTasks[c]
  BY ConstantsAssumption DEF ConstantsAssumption, Inv, TypeOK, Counted
<1>2. released[c] \subseteq Tasks(c)
  BY <1>1 DEF Inv, Recorded, Tasks
<1>3. IsFiniteSet(Tasks(c)) /\ Cardinality(Tasks(c)) = NTasks[c]
  <2>1. 0 \in Int /\ NTasks[c] - 1 \in Int
    BY <1>1
  <2>2. /\ IsFiniteSet(0 .. NTasks[c] - 1)
        /\ Cardinality(0 .. NTasks[c] - 1)
             = IF 0 > NTasks[c] - 1 THEN 0 ELSE NTasks[c] - 1 - 0 + 1
    BY <2>1, FS_Interval
  <2> QED
    BY <1>1, <2>2 DEF Tasks
<1>4. IsFiniteSet(released[c]) /\ (Cardinality(Tasks(c)) = Cardinality(released[c])
                                   => Tasks(c) = released[c])
  BY <1>2, <1>3, FS_Subset
<1>5. Cardinality(released[c]) \in Nat
  BY <1>4, FS_CardinalityType
<1> QED
  BY <1>2, <1>3, <1>4, <1>5

\* Before the first call every part of the invariant holds.
LEMMA InitInv == Init => Inv
<1> SUFFICES ASSUME Init PROVE Inv
  OBVIOUS
<1> USE ConstantsAssumption DEF ConstantsAssumption
<1>1. TypeOK
  BY DEF Init, TypeOK
<1>2. InFlight /\ Once
  BY DEF Init, InFlight, Once, Pending
<1>3. Recorded /\ Counted
  BY DEF Init, Recorded, Counted
<1>4. WaitMeansDone
  BY DEF Init, WaitMeansDone, Returned
<1> QED
  BY <1>1, <1>2, <1>3, <1>4 DEF Inv

\* A new call finds no task of its caller in flight.
LEMMA CallInv == ASSUME Inv, NEW c \in Callers, Call(c) PROVE Inv'
<1> USE ConstantsAssumption DEF ConstantsAssumption, callerVars, waitVars, poolVars
<1>1. TypeOK'
  <2>1. cpc' \in [Callers -> {"idle", "push", "load", "compare", "asleep"}]
    BY DEF Inv, TypeOK, Call
  <2>2. round' \in [Callers -> 0 .. MaxRounds]
    BY DEF Inv, TypeOK, Call
  <2>3. pushed' \in [Callers -> Nat] /\ cnt' \in [Callers -> Nat]
    BY DEF Inv, TypeOK, Call
  <2>4. done' \in [Callers -> SUBSET Nat] /\ released' \in [Callers -> SUBSET Nat]
    BY DEF Inv, TypeOK, Call
  <2> QED
    BY <2>1, <2>2, <2>3, <2>4 DEF Inv, TypeOK, Call
<1>2. \A k \in Task : Live(k) => Live(k)'
  BY DEF Inv, TypeOK, Call, Live, Task
<1>3. InFlight'
  <2>1. \A i \in DOMAIN queue : queue[i] \in Task
    BY DEF Inv, TypeOK
  <2>2. \A w \in Pool : Pending(w) => task[w] \in Task
    BY DEF Inv, TypeOK, Pending
  <2> QED
    BY <1>2, <2>1, <2>2 DEF Inv, InFlight, Call, Pending, Live
<1>4. Once'
  BY DEF Inv, Once, Call, Pending, Same
<1>5. Recorded'
  <2>1. \A w \in Pool : wpc[w] = "release" => task[w].caller \in Callers \ {c}
    BY DEF Inv, TypeOK, InFlight, Pending, Live, Call, Task
  <2>2. \A w \in Pool : wpc[w] = "release" => task[w].index \in done[task[w].caller]
    BY DEF Inv, Recorded
  <2> QED
    BY <2>1, <2>2 DEF Inv, TypeOK, Recorded, Call
<1>6. Counted'
  <2>1. /\ cnt'[c] = NTasks[c] /\ released'[c] = {} /\ pushed'[c] = 0
        /\ cpc'[c] = "push" /\ round'[c] > 0 /\ NTasks[c] \in Nat
    <3>1. round[c] \in 0 .. MaxRounds /\ round'[c] = round[c] + 1
      BY DEF Inv, TypeOK, Call
    <3>2. round'[c] > 0
      BY <3>1
    <3> QED
      BY <3>2 DEF Inv, TypeOK, Call
  <2>2. Cardinality(released'[c]) = 0
    BY <2>1, FS_EmptySet
  <2>3. \A d \in Callers \ {c} :
          /\ cnt'[d] = cnt[d] /\ released'[d] = released[d] /\ pushed'[d] = pushed[d]
          /\ cpc'[d] = cpc[d] /\ round'[d] = round[d]
    BY DEF Inv, TypeOK, Call
  <2>4. \A d \in Callers \ {c} :
          /\ pushed'[d] <= NTasks[d] /\ (round'[d] = 0 => cpc'[d] = "idle")
          /\ round'[d] > 0 => cnt'[d] + Cardinality(released'[d]) = NTasks[d]
    <3> TAKE d \in Callers \ {c}
    <3>1. /\ pushed[d] <= NTasks[d] /\ (round[d] = 0 => cpc[d] = "idle")
          /\ round[d] > 0 => cnt[d] + Cardinality(released[d]) = NTasks[d]
      BY DEF Inv, Counted
    <3> QED
      BY <2>3, <3>1
  <2>5. /\ pushed'[c] <= NTasks[c] /\ round'[c] # 0
        /\ cnt'[c] + Cardinality(released'[c]) = NTasks[c]
    BY <2>1, <2>2
  <2> QED
    BY <2>4, <2>5 DEF Counted
<1>7. WaitMeansDone'
  BY DEF Inv, TypeOK, WaitMeansDone, Returned, Tasks, Call
<1> QED
  BY <1>1, <1>3, <1>4, <1>5, <1>6, <1>7 DEF Inv

\* A pushed task is of the current call and new.
LEMMA PushInv == ASSUME Inv, NEW c \in Callers, PushTask(c) PROVE Inv'
<1> USE ConstantsAssumption DEF ConstantsAssumption, callerVars, waitVars, poolVars
<1>0. PICK new \in Task : new = [caller |-> c, round |-> round[c], index |-> pushed[c]]
  <2>1. round[c] \in 1 .. MaxRounds
    BY DEF Inv, TypeOK, Counted, PushTask
  <2> QED
    BY <2>1 DEF Inv, TypeOK, PushTask, Task
<1>1. /\ queue \in Seq(Task) /\ queue' = Append(queue, new)
      /\ pushed' = [pushed EXCEPT ![c] = @ + 1] /\ cpc[c] = "push"
      /\ UNCHANGED <<cpc, round, cur, cnt, done, released, wpc, task>>
      /\ pushed \in [Callers -> Nat]
  BY <1>0 DEF Inv, TypeOK, PushTask
<1>2. new \in Task /\ pushed[c] < NTasks[c]
  BY DEF PushTask
<1>3. TypeOK'
  <2>1. queue' \in Seq(Task)
    BY <1>1, <1>2
  <2>2. pushed' \in [Callers -> Nat]
    BY <1>1
  <2> QED
    BY <1>1, <2>1, <2>2 DEF Inv, TypeOK
<1>4. \A k \in Task : Live(k) => Live(k)'
  BY <1>1 DEF Live, Task
<1>5. Live(new)' /\ \A k \in Task : Live(k) => ~Same(k, new)
  <2>1. pushed[c] \notin released[c]
    BY <1>1 DEF Inv, Recorded
  <2>2. Live(new)'
    BY <1>0, <1>1, <2>1 DEF Live
  <2>3. \A k \in Task : Live(k) => ~Same(k, new)
    BY <1>0, <1>1 DEF Live, Same, Task
  <2> QED
    BY <2>2, <2>3
<1>6. /\ \A i \in DOMAIN queue : queue[i] \in Task /\ Live(queue[i])
      /\ \A w \in Pool : Pending(w) => task[w] \in Task /\ Live(task[w])
  BY <1>1 DEF Inv, TypeOK, InFlight, Pending
<1>7. \A i \in DOMAIN queue' : \/ i \in DOMAIN queue /\ queue'[i] = queue[i]
                               \/ i = Len(queue) + 1 /\ queue'[i] = new
  BY <1>1, <1>2
<1>8. InFlight'
  <2>1. \A i \in DOMAIN queue' : Live(queue[i])'
    <3> SUFFICES ASSUME NEW i \in DOMAIN queue' PROVE Live(queue[i])'
      OBVIOUS
    <3>1. CASE i \in DOMAIN queue /\ queue'[i] = queue[i]
      BY <1>4, <1>6, <3>1 DEF Live
    <3>2. CASE queue'[i] = new
      BY <1>5, <3>2 DEF Live
    <3> QED
      BY <1>7, <3>1, <3>2
  <2>2. \A w \in Pool : Pending(w)' => Live(task[w])'
    BY <1>1, <1>4, <1>6 DEF Pending, Live
  <2> QED
    BY <2>1, <2>2 DEF InFlight
<1>9. Once'
  <2>1. \A w \in Pool : \A i \in DOMAIN queue' : Pending(w) => ~Same(task[w], queue'[i])
    BY <1>5, <1>6, <1>7 DEF Inv, Once, Same
  <2>2. \A i, j \in DOMAIN queue' : i # j => ~Same(queue'[i], queue'[j])
    BY <1>5, <1>6, <1>7 DEF Inv, Once, Same
  <2> QED
    BY <1>1, <2>1, <2>2 DEF Inv, Once, Pending, Same
<1>10. Recorded' /\ Counted'
  BY <1>1, <1>2 DEF Inv, TypeOK, Recorded, Counted
<1>11. WaitMeansDone'
  BY <1>1 DEF Inv, WaitMeansDone, Returned, Tasks
<1> QED
  BY <1>3, <1>8, <1>9, <1>10, <1>11 DEF Inv

\* Steps of the caller that only move it within its call.
LEMMA MoveInv ==
  ASSUME Inv, NEW c \in Callers, NEW l \in {"push", "load", "compare", "asleep"},
         cpc[c] # "idle", cpc' = [cpc EXCEPT ![c] = l], cur' \in [Callers -> Nat],
         UNCHANGED <<round, pushed, waitVars, poolVars>>
  PROVE  Inv'
<1> USE DEF waitVars, poolVars
<1>1. TypeOK' /\ \A d \in Callers : cpc'[d] = "idle" <=> cpc[d] = "idle"
  BY DEF Inv, TypeOK
<1>2. InFlight'
  <2>1. \A k \in Task : Live(k) => Live(k)'
    BY <1>1 DEF Live, Task
  <2>2. /\ \A i \in DOMAIN queue : queue[i] \in Task /\ Live(queue[i])
        /\ \A w \in Pool : Pending(w) => task[w] \in Task /\ Live(task[w])
    BY DEF Inv, TypeOK, InFlight, Pending
  <2> QED
    BY <2>1, <2>2 DEF InFlight, Pending, Live
<1>3. Once' /\ Recorded'
  BY DEF Inv, Once, Recorded, Pending, Same
<1>4. Counted'
  BY <1>1 DEF Inv, Counted
<1>5. WaitMeansDone'
  BY <1>1 DEF Inv, WaitMeansDone, Returned, Tasks
<1> QED
  BY <1>1, <1>2, <1>3, <1>4, <1>5 DEF Inv

\* wait() returns only with a counter of zero, when every task has released.
LEMMA LoadInv == ASSUME Inv, NEW c \in Callers, Load(c) PROVE Inv'
<1> USE ConstantsAssumption DEF ConstantsAssumption, callerVars, waitVars, poolVars
<1>1. cur' \in [Callers -> Nat]
  BY DEF Inv, TypeOK, Load
<1>2. CASE cnt[c] # 0
  BY <1>1, <1>2, MoveInv DEF Load
<1>3. CASE cnt[c] = 0
  <2>1. /\ cpc[c] = "load" /\ cpc' = [cpc EXCEPT ![c] = "idle"]
        /\ UNCHANGED <<round, pushed, cnt, done, released, queue, wpc, task>>
    BY <1>3 DEF Load
  <2>2. cpc'[c] = "idle" /\ \A d \in Callers \ {c} : cpc'[d] = cpc[d]
    BY <2>1 DEF Inv, TypeOK
  <2>3. released[c] = Tasks(c) /\ done[c] = Tasks(c)
    <3>1. round[c] > 0 /\ NTasks[c] \in Nat /\ pushed[c] \in Nat /\ pushed[c] <= NTasks[c]
      BY <2>1 DEF Inv, TypeOK, Counted
    <3>2. Cardinality(released[c]) \in Nat /\ cnt[c] + Cardinality(released[c]) = NTasks[c]
      BY <3>1, ReleasedFinite DEF Inv, Counted
    <3>3. released[c] = Tasks(c)
      BY <1>3, <3>2, ReleasedFinite
    <3>4. done[c] \subseteq Tasks(c) /\ released[c] \subseteq done[c]
      BY <3>1 DEF Inv, Recorded, Tasks
    <3> QED
      BY <3>3, <3>4
  <2>4. \A k \in Task : Live(k) => k.caller # c
    <3> SUFFICES ASSUME NEW k \in Task, Live(k), k.caller = c PROVE FALSE
      OBVIOUS
    <3>1. /\ k.index \in Nat /\ k.index < pushed[c] /\ k.index \notin Tasks(c)
          /\ pushed[c] \in Nat /\ NTasks[c] \in Nat /\ pushed[c] <= NTasks[c]
      BY <2>3 DEF Live, Task, Inv, TypeOK, Counted
    <3> QED
      BY <3>1 DEF Tasks
  <2>5. TypeOK'
    BY <1>1, <2>1 DEF Inv, TypeOK
  <2>6. InFlight'
    <3>1. \A k \in Task : Live(k) => Live(k)'
      BY <2>1, <2>2, <2>4 DEF Live, Task
    <3>2. /\ \A i \in DOMAIN queue : queue[i] \in Task /\ Live(queue[i])
          /\ \A w \in Pool : Pending(w) => task[w] \in Task /\ Live(task[w])
      BY DEF Inv, TypeOK, InFlight, Pending
    <3> QED
      BY <2>1, <3>1, <3>2 DEF InFlight, Pending, Live
  <2>7. Once' /\ Recorded'
    BY <2>1 DEF Inv, Once, Recorded, Pending, Same
  <2>8. Counted'
    BY <2>1, <2>2 DEF Inv, Counted
  <2>9. WaitMeansDone'
    BY <2>1, <2>2, <2>3 DEF Inv, WaitMeansDone, Returned, Tasks
  <2> QED
    BY <2>5, <2>6, <2>7, <2>8, <2>9 DEF Inv
<1> QED
  BY <1>2, <1>3

\* Taking a task moves it from the queue to one pool thread.
LEMMA TakeInv == ASSUME Inv, NEW w \in Pool, TakeTask(w) PROVE Inv'
<1> USE DEF callerVars, waitVars, poolVars
<1>1. /\ queue \in Seq(Task) /\ queue # <<>> /\ queue' = Tail(queue)
      /\ task' = [task EXCEPT ![w] = Head(queue)] /\ wpc' = [wpc EXCEPT ![w] = "block"]
      /\ UNCHANGED <<cpc, round, pushed, cur, cnt, done, released>> /\ wpc[w] = "idle"
  BY DEF Inv, TypeOK, TakeTask
<1>2. /\ Head(queue) \in Task /\ Head(queue) = queue[1] /\ 1 \in DOMAIN queue
      /\ queue' \in Seq(Task)
  BY <1>1
<1>3. \A i \in DOMAIN queue' : i + 1 \in DOMAIN queue /\ i + 1 # 1 /\ queue'[i] = queue[i + 1]
  BY <1>1
<1>4. /\ task'[w] = queue[1] /\ wpc'[w] = "block"
      /\ \A v \in Pool \ {w} : task'[v] = task[v] /\ wpc'[v] = wpc[v]
  BY <1>1, <1>2 DEF Inv, TypeOK
<1>5. TypeOK'
  <2>1. wpc' \in [Pool -> {"idle", "block", "release", "notify"}]
    BY <1>1 DEF Inv, TypeOK
  <2>2. task' \in [Pool -> Task \union {None}]
    BY <1>1, <1>2 DEF Inv, TypeOK
  <2>3. \A v \in Pool : wpc'[v] # "idle" => task'[v] \in Task
    BY <1>2, <1>4 DEF Inv, TypeOK
  <2> QED
    BY <1>1, <1>2, <2>1, <2>2, <2>3 DEF Inv, TypeOK
<1>6. InFlight'
  <2>1. \A i \in DOMAIN queue' : Live(queue[i])'
    BY <1>1, <1>3 DEF Inv, InFlight, Live
  <2>2. \A v \in Pool : Pending(v)' => Live(task[v])'
    BY <1>1, <1>2, <1>4 DEF Inv, InFlight, Live, Pending
  <2> QED
    BY <2>1, <2>2 DEF InFlight
<1>7. Once'
  <2>1. \A u, v \in Pool : u # v /\ Pending(u)' /\ Pending(v)' => ~Same(task[u], task[v])'
    BY <1>2, <1>4 DEF Inv, Once, Pending, Same
  <2>2. \A v \in Pool : \A i \in DOMAIN queue' : Pending(v)' => ~Same(task[v], queue[i])'
    BY <1>2, <1>3, <1>4 DEF Inv, Once, Pending, Same
  <2>3. \A i, j \in DOMAIN queue' : i # j => ~Same(queue[i], queue[j])'
    BY <1>1, <1>3 DEF Inv, Once, Same
  <2> QED
    BY <2>1, <2>2, <2>3 DEF Once
<1>8. Recorded' /\ Counted'
  BY <1>1, <1>4 DEF Inv, Recorded, Counted
<1>9. WaitMeansDone'
  BY <1>1 DEF Inv, WaitMeansDone, Returned, Tasks
<1> QED
  BY <1>5, <1>6, <1>7, <1>8, <1>9 DEF Inv

\* A block that returns is of a call in progress, whose result it completes.
LEMMA RunBlockInv == ASSUME Inv, NEW w \in Pool, RunBlock(w) PROVE Inv'
<1> USE DEF callerVars
<1>1. PICK c \in Callers : c = task[w].caller
  BY DEF Inv, TypeOK, RunBlock, Task
<1>2. /\ wpc[w] = "block" /\ wpc' = [wpc EXCEPT ![w] = "release"]
      /\ done' = [done EXCEPT ![c] = @ \union {task[w].index}]
      /\ UNCHANGED <<cpc, round, pushed, cur, cnt, released, queue, task>>
  BY <1>1 DEF RunBlock
<1>3. /\ task[w] \in Task /\ task[w].index \in Nat /\ cpc[c] # "idle"
      /\ task[w].index < pushed[c] /\ pushed[c] \in Nat
  BY <1>1, <1>2 DEF Inv, TypeOK, InFlight, Pending, Live, Task
<1>4. /\ wpc'[w] = "release" /\ \A v \in Pool \ {w} : wpc'[v] = wpc[v]
      /\ done'[c] = done[c] \union {task[w].index}
      /\ \A d \in Callers \ {c} : done'[d] = done[d]
  BY <1>2 DEF Inv, TypeOK
<1>5. TypeOK'
  <2>1. done' \in [Callers -> SUBSET Nat]
    BY <1>2, <1>3 DEF Inv, TypeOK
  <2>2. wpc' \in [Pool -> {"idle", "block", "release", "notify"}]
    BY <1>2 DEF Inv, TypeOK
  <2>3. \A v \in Pool : wpc'[v] # "idle" => task'[v] \in Task
    BY <1>2, <1>3, <1>4 DEF Inv, TypeOK
  <2> QED
    BY <1>2, <2>1, <2>2, <2>3 DEF Inv, TypeOK
<1>6. \A v \in Pool : Pending(v)' <=> Pending(v)
  BY <1>2, <1>4 DEF Pending
<1>7. InFlight' /\ Once'
  BY <1>2, <1>6 DEF Inv, InFlight, Once, Live, Same
<1>8. Recorded'
  <2>1. \A d \in Callers : released'[d] \subseteq done'[d] /\ done'[d] \subseteq 0 .. pushed'[d] - 1
    BY <1>2, <1>3, <1>4 DEF Inv, Recorded
  <2>2. \A v \in Pool : wpc'[v] = "release" => task'[v].index \in done'[task'[v].caller]
    <3> SUFFICES ASSUME NEW v \in Pool, wpc'[v] = "release"
                 PROVE  task[v].index \in done'[task[v].caller]
      BY <1>2
    <3>1. CASE v = w
      BY <1>1, <1>4, <3>1
    <3>2. CASE v # w
      <4>1. wpc[v] = "release" /\ task[v] \in Task
        BY <1>4, <3>2 DEF Inv, TypeOK
      <4>2. task[v].index \in done[task[v].caller] /\ task[v].caller \in Callers
        BY <4>1 DEF Inv, Recorded, Task
      <4> QED
        BY <1>4, <4>2
    <3> QED
      BY <3>1, <3>2
  <2> QED
    BY <2>1, <2>2 DEF Recorded
<1>9. Counted'
  BY <1>2 DEF Inv, Counted
<1>10. WaitMeansDone'
  BY <1>2, <1>3, <1>4 DEF Inv, WaitMeansDone, Returned, Tasks
<1> QED
  BY <1>5, <1>7, <1>8, <1>9, <1>10 DEF Inv

\* The decrement is of the waiter of a call in progress, and never below zero.
LEMMA ReleaseInv == ASSUME Inv, NEW w \in Pool, Release(w) PROVE Inv'
<1> USE DEF callerVars
<1>1. PICK c \in Callers : c = task[w].caller
  BY DEF Inv, TypeOK, Release, Task
<1>2. /\ wpc[w] = "release" /\ wpc' = [wpc EXCEPT ![w] = "notify"]
      /\ cnt' = [cnt EXCEPT ![c] = @ - 1]
      /\ released' = [released EXCEPT ![c] = @ \union {task[w].index}]
      /\ UNCHANGED <<cpc, round, pushed, cur, done, queue, task>>
  BY <1>1 DEF Release
<1>3. /\ task[w] \in Task /\ task[w].index \in Nat /\ cpc[c] # "idle"
      /\ task[w].index \notin released[c] /\ task[w].index \in done[c]
  BY <1>1, <1>2 DEF Inv, TypeOK, InFlight, Recorded, Pending, Live, Task
<1>4. /\ wpc'[w] = "notify" /\ \A v \in Pool \ {w} : wpc'[v] = wpc[v]
      /\ released'[c] = released[c] \union {task[w].index} /\ cnt'[c] = cnt[c] - 1
      /\ \A d \in Callers \ {c} : released'[d] = released[d] /\ cnt'[d] = cnt[d]
  BY <1>2 DEF Inv, TypeOK
<1>5. /\ cnt[c] + Cardinality(released[c]) = NTasks[c] /\ cnt[c] > 0
      /\ Cardinality(released'[c]) = Cardinality(released[c]) + 1
      /\ Cardinality(released[c]) \in Nat /\ cnt[c] \in Nat
  <2>1. /\ IsFiniteSet(released[c]) /\ Cardinality(released[c]) \in Nat
        /\ Cardinality(released[c]) = NTasks[c] => released[c] = Tasks(c)
    BY ReleasedFinite
  <2>2. Cardinality(released'[c]) = Cardinality(released[c]) + 1
    BY <1>3, <1>4, <2>1, FS_AddElement
  <2>3. round[c] \in Nat /\ round[c] # 0 /\ cnt[c] \in Nat
    BY <1>3, ConstantsAssumption DEF ConstantsAssumption, Inv, TypeOK, Counted
  <2>4. cnt[c] + Cardinality(released[c]) = NTasks[c]
    BY <2>3 DEF Inv, Counted
  <2>5. task[w].index \in Tasks(c)
    <3>1. /\ task[w].index \in 0 .. pushed[c] - 1
          /\ pushed[c] <= NTasks[c] /\ pushed[c] \in Nat /\ NTasks[c] \in Nat
      BY <1>3, ConstantsAssumption DEF ConstantsAssumption, Inv, TypeOK, Recorded, Counted
    <3> QED
      BY <3>1 DEF Tasks
  <2>6. Cardinality(released[c]) # NTasks[c]
    BY <1>3, <2>1, <2>5
  <2> QED
    BY <2>1, <2>2, <2>3, <2>4, <2>6
<1>6. TypeOK'
  <2>1. released' \in [Callers -> SUBSET Nat]
    BY <1>2, <1>3 DEF Inv, TypeOK
  <2>2. cnt' \in [Callers -> Nat]
    <3>1. cnt[c] - 1 \in Nat
      BY <1>5
    <3> QED
      BY <1>2, <3>1 DEF Inv, TypeOK
  <2>3. wpc' \in [Pool -> {"idle", "block", "release", "notify"}]
    BY <1>2 DEF Inv, TypeOK
  <2>4. \A v \in Pool : wpc'[v] # "idle" => task'[v] \in Task
    BY <1>2, <1>3, <1>4 DEF Inv, TypeOK
  <2> QED
    BY <1>2, <2>1, <2>2, <2>3, <2>4 DEF Inv, TypeOK
<1>7. /\ ~Pending(w)' /\ \A v \in Pool \ {w} : Pending(v)' <=> Pending(v)
  BY <1>2, <1>4 DEF Pending
<1>8. Once'
  BY <1>2, <1>7 DEF Inv, Once, Same
<1>9. InFlight'
  <2>1. \A k \in Task : Live(k) /\ ~Same(k, task[w]) => Live(k)'
    BY <1>1, <1>2, <1>4 DEF Live, Same, Task
  <2>2. Pending(w)
    BY <1>2 DEF Pending
  <2>3. \A i \in DOMAIN queue : queue[i] \in Task /\ Live(queue[i]) /\ ~Same(queue[i], task[w])
    BY <2>2 DEF Inv, TypeOK, InFlight, Once, Same
  <2>4. \A v \in Pool \ {w} :
          Pending(v) => task[v] \in Task /\ Live(task[v]) /\ ~Same(task[v], task[w])
    BY <2>2 DEF Inv, TypeOK, InFlight, Once, Same, Pending
  <2>5. \A i \in DOMAIN queue' : Live(queue[i])'
    BY <1>2, <2>1, <2>3 DEF Live
  <2>6. \A v \in Pool : Pending(v)' => Live(task[v])'
    BY <1>2, <1>7, <2>1, <2>4 DEF Live
  <2> QED
    BY <2>5, <2>6 DEF InFlight
<1>10. Recorded'
  BY <1>2, <1>3, <1>4 DEF Inv, Recorded
<1>11. Counted'
  <2>1. \A d \in Callers \ {c} :
          /\ pushed[d] <= NTasks[d] /\ (round[d] = 0 => cpc[d] = "idle")
          /\ round[d] > 0 => cnt[d] + Cardinality(released[d]) = NTasks[d]
    BY DEF Inv, Counted
  <2>2. pushed[c] <= NTasks[c] /\ (round[c] = 0 => cpc[c] = "idle")
    BY DEF Inv, Counted
  <2>3. cnt'[c] + Cardinality(released'[c]) = NTasks[c]
    BY <1>4, <1>5
  <2>4. \A d \in Callers \ {c} :
          cnt'[d] + Cardinality(released'[d]) = cnt[d] + Cardinality(released[d])
    BY <1>4
  <2> QED
    BY <1>2, <2>1, <2>2, <2>3, <2>4 DEF Counted
<1>12. WaitMeansDone'
  BY <1>2 DEF Inv, WaitMeansDone, Returned, Tasks
<1> QED
  BY <1>6, <1>8, <1>9, <1>10, <1>11, <1>12 DEF Inv

\* A notification, late or not, only makes a sleeper look again.
LEMMA NotifyInv == ASSUME Inv, NEW w \in Pool, Notify(w) PROVE Inv'
<1> USE DEF waitVars
<1>1. PICK c \in Callers : c = task[w].caller
  BY DEF Inv, TypeOK, Notify, Task
<1>2. /\ wpc[w] = "notify" /\ wpc' = [wpc EXCEPT ![w] = "idle"]
      /\ cpc' = [cpc EXCEPT ![c] = IF @ = "asleep" THEN "compare" ELSE @]
      /\ UNCHANGED <<round, pushed, cur, cnt, done, released, queue, task>>
  BY <1>1 DEF Notify
<1>3. /\ wpc'[w] = "idle" /\ \A v \in Pool \ {w} : wpc'[v] = wpc[v]
      /\ \A d \in Callers : cpc'[d] = "idle" <=> cpc[d] = "idle"
  BY <1>2 DEF Inv, TypeOK
<1>4. TypeOK'
  <2>1. cpc' \in [Callers -> {"idle", "push", "load", "compare", "asleep"}]
    BY <1>2 DEF Inv, TypeOK
  <2>2. wpc' \in [Pool -> {"idle", "block", "release", "notify"}]
    BY <1>2 DEF Inv, TypeOK
  <2> QED
    BY <1>2, <1>3, <2>1, <2>2 DEF Inv, TypeOK
<1>5. \A v \in Pool : Pending(v)' <=> Pending(v)
  BY <1>2, <1>3 DEF Pending
<1>6. InFlight'
  <2>1. \A k \in Task : Live(k) => Live(k)'
    BY <1>2, <1>3 DEF Live, Task
  <2>2. /\ \A i \in DOMAIN queue : queue[i] \in Task /\ Live(queue[i])
        /\ \A v \in Pool : Pending(v) => task[v] \in Task /\ Live(task[v])
    BY DEF Inv, TypeOK, InFlight, Pending
  <2> QED
    BY <1>2, <1>5, <2>1, <2>2 DEF InFlight, Live
<1>7. Once' /\ Recorded'
  BY <1>2, <1>3, <1>5 DEF Inv, Once, Recorded, Same
<1>8. Counted'
  BY <1>2, <1>3 DEF Inv, Counted
<1>9. WaitMeansDone'
  BY <1>2, <1>3 DEF Inv, WaitMeansDone, Returned, Tasks
<1> QED
  BY <1>4, <1>6, <1>7, <1>8, <1>9 DEF Inv

\* Every step keeps the invariant.
LEMMA NextInv == Inv /\ [Next]_vars => Inv'
<1> SUFFICES ASSUME Inv, [Next]_vars PROVE Inv'
  OBVIOUS
<1> USE DEF callerVars, waitVars, poolVars
<1>1. ASSUME NEW c \in Callers, CallerStep(c) PROVE Inv'
  <2>1. CASE StartWait(c) \/ Compare(c)
    <3>1. cur' \in [Callers -> Nat]
      BY <2>1 DEF Inv, TypeOK, StartWait, Compare
    <3> QED
      BY <2>1, <3>1, MoveInv DEF StartWait, Compare
  <2> QED
    BY <1>1, <2>1, PushInv, LoadInv DEF CallerStep
<1>2. ASSUME NEW w \in Pool, PoolStep(w) PROVE Inv'
  BY <1>2, TakeInv, RunBlockInv, ReleaseInv, NotifyInv DEF PoolStep
<1>3. CASE UNCHANGED vars
  <2>1. TypeOK' /\ InFlight' /\ Once'
    BY <1>3 DEF vars, Inv, TypeOK, InFlight, Once, Pending, Live, Same
  <2>2. Recorded' /\ Counted' /\ WaitMeansDone'
    BY <1>3 DEF vars, Inv, Recorded, Counted, WaitMeansDone, Returned, Tasks
  <2> QED
    BY <2>1, <2>2 DEF Inv
<1> QED
  BY <1>1, <1>2, <1>3, CallInv DEF Next

\* Inv holds in every reachable state.
LEMMA AlwaysInv == Spec => []Inv
<1>1. Init => Inv
  BY InitInv
<1>2. Inv /\ [Next]_vars => Inv'
  BY NextInv
<1> QED
  BY <1>1, <1>2, PTL DEF Spec

\* Well-typed state; the unsigned counter of a waiter never wraps below zero.
THEOREM TypeCorrect == Spec => []TypeOK
<1>1. Inv => TypeOK
  BY DEF Inv
<1> QED
  BY <1>1, AlwaysInv, PTL

\* wait_on_n_tasks returns only after all of its blocks, for any number of
\* callers, pool threads, tasks and calls.
THEOREM WaitIsComplete == Spec => []WaitMeansDone
<1>1. Inv => WaitMeansDone
  BY DEF Inv
<1> QED
  BY <1>1, AlwaysInv, PTL

\* No block runs and no counter is decremented on behalf of a call that has
\* returned.
THEOREM CapturesStayInScope == Spec => []CapturesInScope
<1>1. Inv => CapturesInScope
  BY DEF Inv, InFlight, Pending, Live, CapturesInScope
<1> QED
  BY <1>1, AlwaysInv, PTL

-----------------------------------------------------------------------------
(* ThreadPool implements PoolCalls.                                        *)

\* A task whose block has not started has not run: its index is free for it.
Fresh ==
  /\ \A w \in Pool : wpc[w] = "block" => task[w].index \notin done[task[w].caller]
  /\ \A i \in DOMAIN queue : queue[i].index \notin done[queue[i].caller]

\* Fresh needs of the other parts of the invariant that no task is in flight twice.
LEMMA NextFresh == Inv /\ Fresh /\ [Next]_vars => Fresh'
<1> SUFFICES ASSUME Inv, Fresh, [Next]_vars PROVE Fresh'
  OBVIOUS
<1> USE DEF callerVars, waitVars, poolVars
<1>1. /\ \A i \in DOMAIN queue : queue[i] \in Task
      /\ \A w \in Pool : wpc[w] # "idle" => task[w] \in Task
  BY DEF Inv, TypeOK
<1>2. ASSUME NEW c \in Callers, Call(c) PROVE Fresh'
  <2>1. done'[c] = {} /\ \A d \in Callers \ {c} : done'[d] = done[d]
    BY <1>2 DEF Call, Inv, TypeOK
  <2>2. UNCHANGED <<queue, wpc, task>>
    BY <1>2 DEF Call
  <2> QED
    BY <1>1, <2>1, <2>2 DEF Fresh, Task
<1>3. ASSUME NEW c \in Callers, PushTask(c) PROVE Fresh'
  <2>1. pushed[c] \in Nat /\ pushed[c] \notin done[c]
    BY <1>3 DEF Inv, TypeOK, Recorded
  <2>2. /\ UNCHANGED <<done, wpc, task>>
        /\ queue' = Append(queue, [caller |-> c, round |-> round[c], index |-> pushed[c]])
        /\ queue \in Seq(Task)
    BY <1>3 DEF PushTask, Inv, TypeOK
  <2>3. \A i \in DOMAIN queue' :
          \/ i \in DOMAIN queue /\ queue'[i] = queue[i]
          \/ queue'[i] = [caller |-> c, round |-> round[c], index |-> pushed[c]]
    BY <2>2
  <2> QED
    BY <2>1, <2>2, <2>3 DEF Fresh
<1>4. ASSUME NEW c \in Callers, StartWait(c) \/ Load(c) \/ Compare(c) PROVE Fresh'
  BY <1>4 DEF StartWait, Load, Compare, Fresh
<1>5. ASSUME NEW w \in Pool, TakeTask(w) PROVE Fresh'
  <2>1. /\ queue \in Seq(Task) /\ queue # <<>> /\ queue' = Tail(queue)
        /\ task' = [task EXCEPT ![w] = Head(queue)] /\ wpc' = [wpc EXCEPT ![w] = "block"]
        /\ UNCHANGED done
    BY <1>5 DEF Inv, TypeOK, TakeTask
  <2>2. /\ Head(queue) = queue[1] /\ 1 \in DOMAIN queue
        /\ \A i \in DOMAIN queue' : i + 1 \in DOMAIN queue /\ queue'[i] = queue[i + 1]
    BY <2>1
  <2>3. /\ task'[w] = queue[1]
        /\ \A v \in Pool \ {w} : task'[v] = task[v] /\ wpc'[v] = wpc[v]
    BY <2>1, <2>2 DEF Inv, TypeOK
  <2> QED
    BY <2>1, <2>2, <2>3 DEF Fresh
<1>6. ASSUME NEW w \in Pool, RunBlock(w) PROVE Fresh'
  <2>1. /\ wpc[w] = "block" /\ task[w] \in Task
        /\ wpc' = [wpc EXCEPT ![w] = "release"] /\ UNCHANGED <<queue, task>>
        /\ done' = [done EXCEPT ![task[w].caller] = @ \union {task[w].index}]
    BY <1>1, <1>6 DEF RunBlock
  <2>2. \A k \in Task : k.index \notin done[k.caller] /\ ~Same(k, task[w])
                         => k.index \notin done'[k.caller]
    BY <2>1 DEF Inv, TypeOK, Same, Task
  <2>3. \A i \in DOMAIN queue : ~Same(queue[i], task[w])
    BY <2>1 DEF Inv, Once, Pending, Same
  <2>4. \A v \in Pool : wpc'[v] = "block" =>
          v # w /\ wpc[v] = "block" /\ ~Same(task[v], task[w])
    BY <2>1 DEF Inv, TypeOK, Once, Pending, Same
  <2> QED
    BY <1>1, <2>1, <2>2, <2>3, <2>4 DEF Fresh
<1>7. ASSUME NEW w \in Pool, Release(w) \/ Notify(w) PROVE Fresh'
  <2>1. /\ UNCHANGED <<queue, task, done>>
        /\ \A v \in Pool : wpc'[v] = "block" => wpc[v] = "block"
    BY <1>7 DEF Release, Notify, Inv, TypeOK
  <2> QED
    BY <2>1 DEF Fresh
<1>8. CASE UNCHANGED vars
  BY <1>8 DEF vars, Fresh
<1> QED
  BY <1>2, <1>3, <1>4, <1>5, <1>6, <1>7, <1>8 DEF Next, CallerStep, PoolStep

\* Every step of the pool is a step of PoolCalls or leaves its variables alone.
LEMMA NextCalls == Inv /\ Fresh /\ [Next]_vars => [Calls!Next]_(Calls!vars)
<1> SUFFICES ASSUME Inv, Fresh, [Next]_vars PROVE [Calls!Next]_(Calls!vars)
  OBVIOUS
<1> USE ConstantsAssumption DEF ConstantsAssumption, callerVars, waitVars, poolVars
<1> DEFINE calling == [c \in Callers |-> cpc[c] # "idle"]
<1>0. /\ cpc \in [Callers -> {"idle", "push", "load", "compare", "asleep"}]
      /\ done \in [Callers -> SUBSET Nat]
  BY DEF Inv, TypeOK
<1>1. ASSUME NEW c \in Callers, Call(c) PROVE Calls!Begin(c)
  <2>1. calling' = [calling EXCEPT ![c] = TRUE] /\ ~calling[c]
    BY <1>0, <1>1 DEF Call
  <2>2. done' = [done EXCEPT ![c] = {}]
    BY <1>1 DEF Call
  <2> QED
    BY <2>1, <2>2 DEF Calls!Begin
<1>2. ASSUME NEW c \in Callers, PushTask(c) \/ StartWait(c) \/ Compare(c)
      PROVE  UNCHANGED Calls!vars
  <2>1. calling' = calling
    BY <1>0, <1>2 DEF PushTask, StartWait, Compare
  <2> QED
    BY <1>2, <2>1 DEF PushTask, StartWait, Compare, Calls!vars
<1>3. ASSUME NEW c \in Callers, Load(c)
      PROVE  Calls!Return(c) \/ UNCHANGED Calls!vars
  <2>1. CASE cnt[c] # 0
    <3>1. calling' = calling
      BY <1>0, <1>3, <2>1 DEF Load
    <3> QED
      BY <1>3, <3>1 DEF Load, Calls!vars
  <2>2. CASE cnt[c] = 0
    <3>1. Inv'
      BY NextInv
    <3>2. /\ cpc'[c] = "idle" /\ cpc[c] = "load" /\ UNCHANGED <<round, done>>
          /\ calling' = [calling EXCEPT ![c] = FALSE] /\ calling[c]
      BY <1>0, <1>3, <2>2 DEF Load
    <3>3. round[c] > 0
      BY <3>2 DEF Inv, TypeOK, Counted
    <3>4. done[c] = 0 .. NTasks[c] - 1
      BY <3>1, <3>2, <3>3 DEF Inv, WaitMeansDone, Returned, Tasks
    <3> QED
      BY <3>2, <3>4 DEF Calls!Return
  <2> QED
    BY <2>1, <2>2
<1>4. ASSUME NEW w \in Pool, RunBlock(w)
      PROVE  \E c \in Callers : \E i \in 0 .. NTasks[c] - 1 : Calls!RunTask(c, i)
  <2>1. PICK c \in Callers : c = task[w].caller
    BY <1>4 DEF Inv, TypeOK, RunBlock, Task
  <2>2. PICK i \in Nat : i = task[w].index
    BY <1>4 DEF Inv, TypeOK, RunBlock, Task
  <2>3. /\ wpc[w] = "block" /\ UNCHANGED cpc
        /\ done' = [done EXCEPT ![c] = @ \union {i}]
    BY <1>4, <2>1, <2>2 DEF RunBlock
  <2>4. Live(task[w])
    BY <2>3 DEF Inv, InFlight, Pending
  <2>5. cpc[c] # "idle" /\ i < pushed[c] /\ pushed[c] <= NTasks[c] /\ i \notin done[c]
    BY <2>1, <2>2, <2>3, <2>4 DEF Live, Fresh, Inv, Counted
  <2>6. i \in 0 .. NTasks[c] - 1
    BY <2>5 DEF Inv, TypeOK
  <2>7. calling[c] /\ calling' = calling
    BY <2>3, <2>5
  <2>8. Calls!RunTask(c, i)
    BY <2>3, <2>5, <2>7 DEF Calls!RunTask
  <2> QED
    BY <2>6, <2>8
<1>5. ASSUME NEW w \in Pool, TakeTask(w) \/ Release(w) \/ Notify(w)
      PROVE  UNCHANGED Calls!vars
  <2>1. calling' = calling
    BY <1>0, <1>5 DEF TakeTask, Release, Notify
  <2> QED
    BY <1>5, <2>1 DEF TakeTask, Release, Notify, Calls!vars
<1>6. CASE UNCHANGED vars
  BY <1>6 DEF vars, Calls!vars
<1> QED
  BY <1>1, <1>2, <1>3, <1>4, <1>5, <1>6 DEF Next, CallerStep, PoolStep, Calls!Next

\* Whatever the interleaving of callers and pool, what a caller sees is a sequence of
\* calls during which each block runs exactly once (the safety part of
\* ImplementsCalls, which adds that calls return).
THEOREM Refinement == Spec => Calls!Safety
<1>1. Init => Calls!Init
  BY DEF Init, Calls!Init
<1>2. Init => Fresh
  BY DEF Init, Fresh
<1>3. Inv /\ Fresh /\ [Next]_vars => Fresh'
  BY NextFresh
<1>4. Inv /\ Fresh /\ [Next]_vars => [Calls!Next]_(Calls!vars)
  BY NextCalls
<1> QED
  BY <1>1, <1>2, <1>3, <1>4, AlwaysInv, PTL DEF Spec, Calls!Safety
=============================================================================
