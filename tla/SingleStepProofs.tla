-------------------------- MODULE SingleStepProofs --------------------------
(***************************************************************************)
(* Proofs about SingleStep, for any set of threads, any bounds and every   *)
(* combination of pipe, interrupt and exit.                                *)
(***************************************************************************)
EXTENDS SingleStep, TLAPS

\* Nothing appears in a queue by taking its head off.
LEMMA TailHas ==
  ASSUME NEW S, NEW q \in Seq(S), q # <<>>, NEW e, Has(Tail(q), e)
  PROVE  Has(q, e)
<1>1. PICK i \in DOMAIN Tail(q) : Tail(q)[i] = e
  BY DEF Has
<1>2. i + 1 \in DOMAIN q /\ q[i + 1] = e
  BY <1>1
<1> QED
  BY <1>2 DEF Has

\* Appending adds only what is appended.
LEMMA AppendHas ==
  ASSUME NEW S, NEW q \in Seq(S), NEW e \in S, NEW f, Has(Append(q, f), e), f \in S
  PROVE  Has(q, e) \/ e = f
<1>1. PICK i \in DOMAIN Append(q, f) : Append(q, f)[i] = e
  BY DEF Has
<1>2. CASE i = Len(q) + 1
  BY <1>1, <1>2
<1>3. CASE i # Len(q) + 1
  <2>1. i \in DOMAIN q /\ q[i] = e
    BY <1>1, <1>3
  <2> QED
    BY <2>1 DEF Has
<1> QED
  BY <1>2, <1>3

-----------------------------------------------------------------------------
(* Types.                                                                  *)

\* The variables SingleStep starts with have their types.
LEMMA InitType == Init => TypeOK
<1> SUFFICES ASSUME Init PROVE TypeOK
  OBVIOUS
<1> USE ConstantsAssumption DEF ConstantsAssumption
<1>1. /\ taskArmed \in BOOLEAN /\ armed \in [Threads -> BOOLEAN]
      /\ stepping \in BOOLEAN /\ logs \in BOOLEAN
  <2>1. taskArmed \in BOOLEAN /\ stepping \in BOOLEAN /\ logs \in BOOLEAN
    BY Zenon DEF Init
  <2>2. armed \in [Threads -> BOOLEAN]
    BY Zenon DEF Init
  <2> QED
    BY <2>1, <2>2
<1>2. /\ pc \in [Workers -> Labels] /\ arg \in [Workers -> BOOLEAN]
      /\ job \in [Workers -> {"main", "block", "dtor"}]
  BY DEF Init, Workers, Labels
<1>3. port \in Seq(Threads) /\ request \in Seq(Bytes) /\ mq \in Seq(Events)
  BY DEF Init
<1>4. /\ alive \in BOOLEAN /\ susp \in Nat /\ live \in SUBSET Threads
      /\ blocked \in SUBSET Threads /\ handler \in {"tracer", "orig"}
      /\ steps \in Nat /\ acks \in Nat /\ requests \in Nat
  BY DEF Init, InitialSuspendCount
<1>5. /\ asked \in [Controllers -> Bytes] /\ waiting \in SUBSET Controllers
      /\ measuring \in BOOLEAN /\ gtracer \in BOOLEAN /\ written \in BOOLEAN
      /\ tracer \in Outcomes
  BY DEF Init, Bytes, Outcomes
<1>6. pipe \in BOOLEAN /\ stream \in BOOLEAN
  BY Zenon, ConstantsAssumption DEF Init, ConstantsAssumption
<1> QED
  BY <1>1, <1>2, <1>3, <1>4, <1>5, <1>6 DEF TypeOK

\* A process that ends where it is changes only its outcome.
LEMMA DieType ==
  ASSUME TypeOK, NEW how \in Outcomes, Die(how)
  PROVE  TypeOK'
BY DEF TypeOK, Die, targetVars, pipeVars, logVars, flowVars

\* Every step of set_single_step, suspend(), resume() and the destructor keeps
\* the types.
LEMMA WorkerType ==
  ASSUME TypeOK, NEW w \in Workers, WorkerStep(w)
  PROVE  TypeOK'
<1> USE DEF targetVars, pipeVars, tracerVars, logVars, flowVars
<1>1. CASE SuspendCheck(w)
  BY <1>1 DEF SuspendCheck, Goto, TypeOK, Labels
<1>2. CASE Suspend(w)
  <2>1. CASE alive
    <3>1. measuring' \in BOOLEAN
      BY <1>2, <2>1 DEF Suspend, Measure, TypeOK
    <3>2. susp' \in Nat
      BY <1>2, <2>1 DEF Suspend, TypeOK
    <3> QED
      BY <1>2, <2>1, <3>1, <3>2 DEF Suspend, Goto, TypeOK, Labels
  <2> QED
    BY <1>2, <2>1, DieType DEF Suspend, Outcomes
<1>3. CASE Config(w)
  <2>1. CASE InstallHandler(w)
    BY <2>1, DieType DEF InstallHandler, Goto, TypeOK, Labels, Outcomes
  <2>2. CASE SetSingleStepTask(w)
    <3>1. CASE alive
      <4>1. /\ taskArmed' = arg[w]
            /\ armed' = [t \in Threads |-> IF t \in live THEN arg[w] ELSE armed[t]]
            /\ Goto(w, IF arg[w] THEN "resumeCheck" ELSE "config2")
            /\ UNCHANGED <<alive, susp, live, blocked, handler, steps, port, pipeVars,
                           mq, tracerVars>>
        BY <2>2, <3>1 DEF SetSingleStepTask, SetSingleStepThreads
      <4>2. taskArmed' \in BOOLEAN /\ armed' \in [Threads -> BOOLEAN]
        BY <4>1, Zenon DEF TypeOK
      <4>3. pc' \in [Workers -> Labels] /\ UNCHANGED <<arg, job>>
        BY <4>1 DEF Goto, TypeOK, Labels
      <4> QED
        BY <4>1, <4>2, <4>3 DEF TypeOK
    <3> QED
      BY <2>2, <3>1, DieType DEF SetSingleStepTask, Outcomes
  <2>3. CASE UninstallHandler(w)
    BY <2>3, DieType DEF UninstallHandler, Goto, TypeOK, Labels, Outcomes
  <2> QED
    BY <1>3, <2>1, <2>2, <2>3 DEF Config
<1>4. CASE ResumeCheck(w)
  BY <1>4 DEF ResumeCheck, AfterResume, Goto, TypeOK, Labels
<1>5. CASE Resume(w)
  <2>1. CASE alive /\ susp # 0
    <3>1. /\ IF stepping /\ susp = 1 THEN measuring' = TRUE ELSE UNCHANGED measuring
          /\ susp' = susp - 1
          /\ Goto(w, AfterResume(w))
          /\ UNCHANGED <<alive, live, taskArmed, armed, blocked, handler, steps,
                         port, pipeVars, mq, logVars, stepping, gtracer, written, tracer>>
      BY <1>5, <2>1, Zenon DEF Resume, Measure
    <3>2. measuring' \in BOOLEAN
      BY <3>1 DEF TypeOK
    <3>3. susp' \in Nat
      BY <3>1, <2>1 DEF TypeOK
    <3>4. AfterResume(w) \in Labels
      BY DEF AfterResume, Labels
    <3> QED
      BY <3>1, <3>2, <3>3, <3>4 DEF Goto, TypeOK
  <2> QED
    BY <1>5, <2>1, DieType DEF Resume, TypeOK, Outcomes
<1>6. CASE SetFlag(w)
  BY <1>6 DEF SetFlag, Goto, TypeOK, Labels
<1>7. CASE DtorCheck(w)
  BY <1>7 DEF DtorCheck, Goto, TypeOK, Labels
<1>8. CASE StopStats(w)
  BY <1>8 DEF StopStats, Measure, Goto, TypeOK, Labels
<1>9. CASE Write(w)
  <2>1. CASE stream \/ ~logs
    BY <1>9, <2>1 DEF Write, Goto, TypeOK, Labels
  <2> QED
    BY <1>9, <2>1, DieType DEF Write, Outcomes
<1>10. CASE Destroy(w)
  BY <1>10, DieType DEF Destroy, Outcomes
<1> QED
  BY <1>1, <1>2, <1>3, <1>4, <1>5, <1>6, <1>7, <1>8, <1>9, <1>10 DEF WorkerStep

\* An event put on the queue keeps it a queue of events.
LEMMA FireType ==
  ASSUME mq \in Seq(Events), NEW e \in Events
  PROVE  Fire(e) \in Seq(Events)
BY DEF Fire

\* Every job of the serial queue keeps the types.
LEMMA QueueType ==
  ASSUME TypeOK, QueueStep
  PROVE  TypeOK'
<1> USE DEF targetVars, pipeVars, tracerVars, logVars, flowVars
<1>1. CASE HandleException
  <2>1. CASE gtracer /\ alive
    <3>1. Head(port) \in Threads /\ Tail(port) \in Seq(Threads)
      BY <1>1 DEF HandleException, TypeOK
    <3>2. mq' \in Seq(Events)
      <4>1. mq' \in Drained(mq) /\ mq # <<>> /\ mq \in Seq(Events)
        BY <1>1, <2>1, Zenon DEF HandleException, NextEvent, TypeOK
      <4>2. Tail(mq) \in Seq(Events) /\ Append(Tail(mq), "exc") \in Seq(Events)
        BY <4>1 DEF Events
      <4> QED
        BY <4>1, <4>2 DEF Drained
    <3>3. /\ armed' = [t \in Threads |-> IF t \in {Head(port)} THEN TRUE ELSE armed[t]]
          /\ blocked' = blocked \ {Head(port)} /\ port' = Tail(port)
          /\ logs' = TRUE
          /\ UNCHANGED <<alive, susp, live, taskArmed, handler, steps, pipeVars, stream,
                         stepping, measuring, gtracer, written, tracer, flowVars>>
      BY <1>1, <2>1 DEF HandleException, SetSingleStepThreads
    <3>4. armed' \in [Threads -> BOOLEAN] /\ blocked' \in SUBSET Threads
      BY <3>1, <3>3 DEF TypeOK
    <3> QED
      BY <3>1, <3>2, <3>3, <3>4 DEF TypeOK
  <2> QED
    BY <1>1, <2>1, DieType DEF HandleException, Outcomes
<1>2. CASE ReadRequest
  <2>1. Tail(mq) \in Seq(Events) /\ Tail(request) \in Seq(Bytes)
    BY <1>2 DEF ReadRequest, NextEvent, TypeOK
  <2>2. mq' \in Seq(Events)
    <3> DEFINE more == IF Tail(request) = <<>> THEN <<>> ELSE <<"pipe">>
    <3>1. mq' = Append(Tail(mq), Head(request)) \o more
      BY <1>2 DEF ReadRequest
    <3>2. Head(request) \in Events
      BY <1>2 DEF ReadRequest, TypeOK, Bytes, Events
    <3>3. more \in Seq(Events)
      <4>1. <<>> \in Seq(Events) /\ <<"pipe">> \in Seq(Events)
        BY DEF Events
      <4> QED
        BY <4>1
    <3>4. Append(Tail(mq), Head(request)) \in Seq(Events)
      BY <2>1, <3>2
    <3> HIDE DEF more
    <3> QED
      BY <3>1, <3>3, <3>4
  <2>3. /\ request' = Tail(request)
        /\ UNCHANGED <<targetVars, port, pipe, acks, asked, waiting, requests,
                       tracerVars, flowVars>>
    BY <1>2 DEF ReadRequest
  <2> QED
    BY <2>1, <2>2, <2>3 DEF TypeOK
<1>3. CASE RunBlock
  <2>1. Tail(mq) \in Seq(Events)
    BY <1>3 DEF RunBlock, NextEvent, TypeOK
  <2> QED
    BY <1>3, <2>1 DEF RunBlock, TypeOK, Labels, Workers
<1>4. CASE BlockStats
  BY <1>4, DieType DEF BlockStats, Measure, Goto, TypeOK, Labels, Workers, Outcomes
<1>5. CASE BlockAck
  BY <1>5 DEF BlockAck, Goto, TypeOK, Labels, Workers
<1>6. CASE ProcExit
  <2>1. Tail(mq) \in Seq(Events)
    BY <1>6 DEF ProcExit, NextEvent, TypeOK
  <2> QED
    BY <1>6, <2>1 DEF ProcExit, TypeOK, Labels, Workers
<1> QED
  BY <1>1, <1>2, <1>3, <1>4, <1>5, <1>6 DEF QueueStep

\* Every step of the target keeps the types.
LEMMA TargetType ==
  ASSUME TypeOK, TargetStep
  PROVE  TypeOK'
<1> USE ConstantsAssumption DEF ConstantsAssumption, targetVars, pipeVars, tracerVars, logVars, flowVars
<1>1. ASSUME NEW t \in Threads, Step(t) PROVE TypeOK'
  <2>1. mq' \in Seq(Events)
    BY <1>1, FireType DEF Step, TypeOK, Events
  <2>2. armed' \in [Threads -> BOOLEAN] /\ steps' \in Nat
    BY <1>1 DEF Step, TypeOK
  <2>3. blocked' \in SUBSET Threads /\ alive' \in BOOLEAN
    BY <1>1 DEF Step, TypeOK
  <2>4. port' \in Seq(Threads)
    <3>1. port' = Append(port, t) \/ port' = port
      BY <1>1 DEF Step
    <3>2. port \in Seq(Threads)
      BY DEF TypeOK
    <3> QED
      BY <3>1, <3>2
  <2>5. UNCHANGED <<susp, live, taskArmed, handler, pipeVars, tracerVars, flowVars>>
    BY <1>1 DEF Step
  <2> QED
    BY <2>1, <2>2, <2>3, <2>4, <2>5 DEF TypeOK
<1>2. ASSUME NEW t \in Threads, Exit(t) PROVE TypeOK'
  <2>1. mq' \in Seq(Events)
    BY <1>2, FireType DEF Exit, TypeOK, Events
  <2> QED
    BY <1>2, <2>1 DEF Exit, TypeOK
<1>3. ASSUME NEW t \in Threads, NEW u \in Threads, NewThread(t, u) PROVE TypeOK'
  BY <1>3 DEF NewThread, TypeOK
<1>4. ASSUME NEW c \in Controllers, PipeRead(c) PROVE TypeOK'
  BY <1>4 DEF PipeRead, TypeOK
<1>5. ASSUME NEW c \in Controllers, NEW b \in Bytes, PipeWrite(c, b) PROVE TypeOK'
  <2>1. mq' \in Seq(Events)
    BY <1>5, FireType DEF PipeWrite, TypeOK, Events
  <2> QED
    BY <1>5, <2>1 DEF PipeWrite, TypeOK
<1> QED
  BY <1>1, <1>2, <1>3, <1>4, <1>5 DEF TargetStep

\* Every step keeps the types.
LEMMA NextType == TypeOK /\ [Next]_vars => TypeOK'
<1> SUFFICES ASSUME TypeOK, [Next]_vars PROVE TypeOK'
  OBVIOUS
<1> USE DEF targetVars, pipeVars, tracerVars, logVars, flowVars
<1>1. CASE Sigint
  BY <1>1 DEF Sigint, Goto, TypeOK, Labels, Workers
<1>2. CASE UNCHANGED vars
  BY <1>2 DEF vars, TypeOK
<1> QED
  BY <1>1, <1>2, WorkerType, QueueType, TargetType DEF Next

\* The state of tracer, target and channels is always well formed: in particular
\* the suspend count, a kernel counter that resume() lowers, never goes below zero.
THEOREM TypeCorrect == Spec => []TypeOK
<1>1. Init => TypeOK
  BY InitType
<1>2. TypeOK /\ [Next]_vars => TypeOK'
  BY NextType
<1> QED
  BY <1>1, <1>2, PTL DEF Spec

-----------------------------------------------------------------------------
(* Balance: suspend() and resume() cancel out on every path.               *)

Setting == {"suspendCheck", "suspend", "config", "config2", "resumeCheck", "resume", "setFlag"}

\* Where each thread of the tracer can be, given what it is there to do.
Places ==
  /\ job["main"] = "main" /\ job["sig"] = "dtor" /\ job["mq"] \in {"block", "dtor"}
  /\ pc["main"] \in Setting \union {"idle", "lastCheck", "lastResume"}
  /\ pc["sig"] \notin {"stats", "ack"}
  /\ job["mq"] = "block" => pc["mq"] \in Setting \union {"idle", "stats", "ack"}

\* m_queue runs the destructor only for a target that is gone, whose suspend
\* count no longer matters.
GoneFirst == job["mq"] = "dtor" \/ Has(mq, "proc") => ~alive

\* The destructor run by SIGINT reaches its resume() after TraceLog::write.
WrittenFirst == pc["sig"] \in {"lastCheck", "lastResume", "destroy"} => written

Balanced ==
  /\ Places /\ GoneFirst /\ WrittenFirst
  /\ SuspendBalance /\ ResumeFailsOnlyAfterWrite

\* The initial state is balanced.
LEMMA InitBalanced == Init => Balanced
<1> SUFFICES ASSUME Init PROVE Balanced
  OBVIOUS
<1>1. /\ pc["main"] \in {"suspendCheck", "lastCheck"} /\ pc["mq"] = "idle"
      /\ pc["sig"] = "idle" /\ susp = 1 /\ tracer = "up"
      /\ job["main"] = "main" /\ job["mq"] = "block" /\ job["sig"] = "dtor"
  BY DEF Init, InitialSuspendCount, Workers
<1>2. Places
  BY <1>1 DEF Places, Setting
<1>3. GoneFirst
  BY <1>1 DEF GoneFirst, Has, Init
<1> QED
  BY <1>1, <1>2, <1>3 DEF Balanced, WrittenFirst, SuspendBalance, ExtraResume,
     InitialHold, Holding, ResumeFailsOnlyAfterWrite

\* mach_check and the asserts end the process and keep everything else; resume()'s
\* mach_check is allowed only once the trace is written.
LEMMA DieBalanced ==
  ASSUME Balanced, NEW how \in Outcomes, Die(how), how # "up",
         how = "resume_failed" => written
  PROVE  Balanced'
<1>1. UNCHANGED <<alive, mq, pc, job, written>> /\ tracer' = how
  BY DEF Die, targetVars, flowVars
<1>2. Places' /\ GoneFirst' /\ WrittenFirst'
  BY <1>1 DEF Balanced, Places, GoneFirst, WrittenFirst, Has
<1>3. SuspendBalance' /\ ResumeFailsOnlyAfterWrite'
  BY <1>1 DEF SuspendBalance, ResumeFailsOnlyAfterWrite
<1> QED
  BY <1>2, <1>3 DEF Balanced

\* A step of a worker that leaves task, queue and jobs alone keeps the queue's
\* part of the invariant.
LEMMA WorkerGoneFirst ==
  ASSUME Balanced, UNCHANGED <<alive, mq, job>>
  PROVE  GoneFirst'
BY DEF Balanced, GoneFirst, Has

\* Every step of set_single_step, suspend(), resume() and the destructor keeps
\* the balance.
LEMMA WorkerBalanced ==
  ASSUME TypeOK, Balanced, tracer = "up", NEW w \in Workers, WorkerStep(w)
  PROVE  Balanced'
<1> USE DEF targetVars, pipeVars, tracerVars, logVars, flowVars
<1> DEFINE Moves(label) ==
      pc' = [pc EXCEPT ![w] = label] /\ UNCHANGED <<alive, mq, job, tracer>>
<1>1. CASE SuspendCheck(w)
  <2>1. /\ pc[w] = "suspendCheck"
        /\ Moves(IF alive THEN "suspend" ELSE "config") /\ UNCHANGED <<susp, written>>
    BY <1>1 DEF SuspendCheck, Goto
  <2>2. Places' /\ WrittenFirst'
    BY <2>1 DEF TypeOK, Balanced, Places, WrittenFirst, Workers, Setting
  <2>3. SuspendBalance' /\ ResumeFailsOnlyAfterWrite'
    BY <2>1 DEF TypeOK, Balanced, SuspendBalance, ExtraResume, InitialHold, Holding,
       ResumeFailsOnlyAfterWrite, Workers
  <2> QED
    BY <2>1, <2>2, <2>3, WorkerGoneFirst DEF Balanced
<1>2. CASE Suspend(w)
  <2>1. CASE alive
    <3>1. pc[w] = "suspend" /\ Moves("config") /\ susp' = susp + 1 /\ written' = written
      BY <1>2, <2>1 DEF Suspend, Goto
    <3>2. Places' /\ WrittenFirst'
      BY <3>1 DEF TypeOK, Balanced, Places, WrittenFirst, Workers, Setting
    <3>3. SuspendBalance' /\ ResumeFailsOnlyAfterWrite'
      BY <2>1, <3>1 DEF TypeOK, Balanced, SuspendBalance, ExtraResume, InitialHold,
         Holding, ResumeFailsOnlyAfterWrite, Workers
    <3> QED
      BY <3>1, <3>2, <3>3, WorkerGoneFirst DEF Balanced
  <2> QED
    BY <1>2, <2>1, DieBalanced DEF Suspend, Outcomes
<1>3. CASE Config(w)
  <2>1. \/ /\ pc[w] = "config" /\ Moves("config2") /\ UNCHANGED <<susp, written>>
        \/ /\ pc[w] = "config2" /\ Moves("resumeCheck") /\ UNCHANGED <<susp, written>>
        \/ Die("mach_failed")
    BY <1>3 DEF Config, InstallHandler, SetSingleStepTask, UninstallHandler, Goto
  <2>2. ASSUME NEW l \in {"config2", "resumeCheck"}, pc[w] \in {"config", "config2"}, Moves(l),
               UNCHANGED <<susp, written>>
        PROVE  Balanced'
    <3>1. Places' /\ WrittenFirst'
      BY <2>2 DEF TypeOK, Balanced, Places, WrittenFirst, Workers, Setting
    <3>2. SuspendBalance' /\ ResumeFailsOnlyAfterWrite'
      BY <2>2 DEF TypeOK, Balanced, SuspendBalance, ExtraResume, InitialHold,
         Holding, ResumeFailsOnlyAfterWrite, Workers
    <3> QED
      BY <2>2, <3>1, <3>2, WorkerGoneFirst DEF Balanced
  <2> QED
    BY <2>1, <2>2, DieBalanced DEF Outcomes
<1>4. CASE ResumeCheck(w)
  <2>1. /\ pc[w] \in {"resumeCheck", "lastCheck"} /\ UNCHANGED <<susp, written>>
        /\ Moves(IF ~alive THEN AfterResume(w)
                 ELSE IF pc[w] = "resumeCheck" THEN "resume" ELSE "lastResume")
    BY <1>4 DEF ResumeCheck, Goto
  <2>2. Places' /\ WrittenFirst'
    BY <2>1 DEF TypeOK, Balanced, Places, WrittenFirst, Workers, Setting, AfterResume
  <2>3. SuspendBalance' /\ ResumeFailsOnlyAfterWrite'
    BY <2>1 DEF TypeOK, Balanced, SuspendBalance, ExtraResume, InitialHold, Holding,
       ResumeFailsOnlyAfterWrite, Workers
  <2> QED
    BY <2>1, <2>2, <2>3, WorkerGoneFirst DEF Balanced
<1>5. CASE Resume(w)
  <2>1. CASE alive /\ susp # 0
    <3>1. /\ pc[w] \in {"resume", "lastResume"} /\ susp' = susp - 1
          /\ Moves(AfterResume(w)) /\ written' = written
      BY <1>5, <2>1, Zenon DEF Resume, Goto
    <3>2. Places' /\ WrittenFirst'
      BY <3>1 DEF TypeOK, Balanced, Places, WrittenFirst, Workers, Setting, AfterResume
    <3>3. pc \in [Workers -> Labels] /\ susp \in Nat /\ susp' \in Nat
      BY <2>1, <3>1 DEF TypeOK
    <3>4. susp + ExtraResume
            = InitialHold + Holding("main") + Holding("mq") + Holding("sig")
      BY <2>1 DEF Balanced, SuspendBalance
    <3>5. ASSUME w = "main" PROVE SuspendBalance'
      BY <2>1, <3>1, <3>3, <3>4, <3>5 DEF Balanced, SuspendBalance, ExtraResume,
         InitialHold, Holding, Workers, AfterResume, Places
    <3>6. ASSUME w = "mq" PROVE SuspendBalance'
      <4>1. pc["mq"] = "resume" /\ pc' = [pc EXCEPT !["mq"] = "setFlag"]
        BY <2>1, <3>1, <3>6
           DEF Balanced, Places, GoneFirst, Setting, AfterResume
      <4> QED
        BY <4>1, <3>1, <3>3, <3>4 DEF SuspendBalance, ExtraResume,
           InitialHold, Holding, Workers
    <3>7. ASSUME w = "sig" PROVE SuspendBalance'
      BY <2>1, <3>1, <3>3, <3>4, <3>7 DEF Balanced, SuspendBalance, ExtraResume,
         InitialHold, Holding, Workers, AfterResume, Places
    <3>8. SuspendBalance' /\ ResumeFailsOnlyAfterWrite'
      BY <3>1, <3>5, <3>6, <3>7 DEF Balanced, ResumeFailsOnlyAfterWrite, Workers
    <3> QED
      BY <3>1, <3>2, <3>8, WorkerGoneFirst DEF Balanced
  <2>2. CASE alive /\ susp = 0
    <3>1. written
      BY <1>5, <2>2 DEF Resume, TypeOK, Balanced, SuspendBalance, ExtraResume,
         InitialHold, Holding, WrittenFirst, Places, GoneFirst, Workers, Setting
    <3> QED
      BY <1>5, <2>2, <3>1, DieBalanced DEF Resume, Outcomes
  <2> QED
    BY <1>5, <2>1, <2>2, DieBalanced DEF Resume, TypeOK, Outcomes
<1>6. CASE SetFlag(w)
  <2>1. /\ pc[w] = "setFlag" /\ UNCHANGED <<susp, written>>
        /\ Moves(CASE job[w] = "main"  -> "lastCheck"
                   [] job[w] = "block" -> "stats"
                   [] job[w] = "dtor"  -> "stopStats")
    BY <1>6 DEF SetFlag, Goto
  <2>2. Places' /\ WrittenFirst'
    BY <2>1 DEF TypeOK, Balanced, Places, WrittenFirst, Workers, Setting
  <2>3. SuspendBalance' /\ ResumeFailsOnlyAfterWrite'
    BY <2>1 DEF TypeOK, Balanced, SuspendBalance, ExtraResume, InitialHold, Holding,
       ResumeFailsOnlyAfterWrite, Workers, Places
  <2> QED
    BY <2>1, <2>2, <2>3, WorkerGoneFirst DEF Balanced
<1>7. CASE DtorCheck(w)
  <2>1. /\ pc[w] = "dtorCheck" /\ UNCHANGED <<susp, written>>
        /\ Moves(IF alive THEN "suspendCheck" ELSE "stopStats")
    BY <1>7 DEF DtorCheck, Goto
  <2>2. Places' /\ WrittenFirst'
    BY <2>1 DEF TypeOK, Balanced, Places, WrittenFirst, Workers, Setting
  <2>3. SuspendBalance' /\ ResumeFailsOnlyAfterWrite'
    BY <2>1 DEF TypeOK, Balanced, SuspendBalance, ExtraResume, InitialHold, Holding,
       ResumeFailsOnlyAfterWrite, Workers
  <2> QED
    BY <2>1, <2>2, <2>3, WorkerGoneFirst DEF Balanced
<1>8. CASE StopStats(w)
  <2>1. pc[w] = "stopStats" /\ UNCHANGED <<susp, written>> /\ Moves("write")
    BY <1>8 DEF StopStats, Goto
  <2>2. Places' /\ WrittenFirst'
    BY <2>1 DEF TypeOK, Balanced, Places, WrittenFirst, Workers, Setting
  <2>3. SuspendBalance' /\ ResumeFailsOnlyAfterWrite'
    BY <2>1 DEF TypeOK, Balanced, SuspendBalance, ExtraResume, InitialHold, Holding,
       ResumeFailsOnlyAfterWrite, Workers
  <2> QED
    BY <2>1, <2>2, <2>3, WorkerGoneFirst DEF Balanced
<1>9. CASE Write(w)
  <2>1. CASE stream \/ ~logs
    <3>1. pc[w] = "write" /\ susp' = susp /\ written' = TRUE /\ Moves("lastCheck")
      BY <1>9, <2>1 DEF Write, Goto
    <3>2. Places' /\ WrittenFirst'
      BY <3>1 DEF TypeOK, Balanced, Places, WrittenFirst, Workers, Setting
    <3>3. SuspendBalance' /\ ResumeFailsOnlyAfterWrite'
      BY <3>1 DEF TypeOK, Balanced, SuspendBalance, ExtraResume, InitialHold, Holding,
         ResumeFailsOnlyAfterWrite, Workers
    <3> QED
      BY <3>1, <3>2, <3>3, WorkerGoneFirst DEF Balanced
  <2> QED
    BY <1>9, <2>1, DieBalanced DEF Write, Outcomes
<1>10. CASE Destroy(w)
  BY <1>10, DieBalanced DEF Destroy, Outcomes
<1> QED
  BY <1>1, <1>2, <1>3, <1>4, <1>5, <1>6, <1>7, <1>8, <1>9, <1>10 DEF WorkerStep

\* An event other than process exit leaves "proc" as it was on the queue.
LEMMA FireHas ==
  ASSUME mq \in Seq(Events), NEW e \in Events, e # "proc", Has(Fire(e), "proc")
  PROVE  Has(mq, "proc")
<1>1. CASE Has(mq, e)
  BY <1>1 DEF Fire
<1>2. CASE ~Has(mq, e)
  BY <1>2, AppendHas DEF Fire, Events
<1> QED
  BY <1>1, <1>2

\* Draining the exception port puts no process exit on the queue.
LEMMA DrainedHas ==
  ASSUME mq \in Seq(Events), mq # <<>>, NEW q \in Drained(mq), Has(q, "proc")
  PROVE  Has(mq, "proc")
<1>1. q = Tail(mq) \/ q = mq \/ q = Append(Tail(mq), "exc")
  BY DEF Drained
<1>2. Tail(mq) \in Seq(Events)
  OBVIOUS
<1>3. CASE q = Append(Tail(mq), "exc")
  <2>1. "proc" \in Events /\ "exc" \in Events /\ "proc" # "exc"
    BY DEF Events
  <2>2. Has(Tail(mq), "proc")
    BY <1>2, <1>3, <2>1, AppendHas
  <2> QED
    BY <2>2, TailHas
<1> QED
  BY <1>1, <1>3, TailHas

\* Reading a control byte puts no process exit on the queue.
LEMMA ReadHas ==
  ASSUME TypeOK, ReadRequest, Has(mq', "proc")
  PROVE  Has(mq, "proc")
<1> DEFINE q == Append(Tail(mq), Head(request))
<1>1. mq # <<>> /\ mq \in Seq(Events) /\ Tail(mq) \in Seq(Events)
  BY DEF ReadRequest, NextEvent, TypeOK
<1>2. Head(request) \in Events /\ Head(request) # "proc"
  BY DEF ReadRequest, TypeOK, Bytes, Events
<1>3. q \in Seq(Events)
  BY <1>1, <1>2
<1>4. mq' = q \/ mq' = Append(q, "pipe")
  <2>1. mq' = q \o (IF Tail(request) = <<>> THEN <<>> ELSE <<"pipe">>)
    BY DEF ReadRequest
  <2>2. q \o <<>> = q /\ q \o <<"pipe">> = Append(q, "pipe")
    BY <1>3
  <2> HIDE DEF q
  <2> QED
    BY <2>1, <2>2
<1>5. Has(q, "proc")
  <2>1. "proc" \in Events /\ "pipe" \in Events /\ "proc" # "pipe"
    BY DEF Events
  <2> HIDE DEF q
  <2>2. CASE mq' = q
    BY <2>2
  <2>3. CASE mq' = Append(q, "pipe")
    <3>1. Has(Append(q, "pipe"), "proc")
      BY <2>3
    <3>2. Has(q, "proc") \/ "proc" = "pipe"
      BY <1>3, <2>1, <3>1, AppendHas
    <3> QED
      BY <2>1, <3>2
  <2> QED
    BY <1>4, <2>2, <2>3
<1>6. Has(Tail(mq), "proc")
  <2>1. "proc" \in Events
    BY DEF Events
  <2>2. Has(Append(Tail(mq), Head(request)), "proc")
    BY <1>5
  <2>3. Has(Tail(mq), "proc") \/ "proc" = Head(request)
    BY <1>1, <1>2, <2>1, <2>2, AppendHas
  <2> QED
    BY <1>2, <2>3
<1> QED
  BY <1>1, <1>6, TailHas

\* Every job of the serial queue keeps the balance.
LEMMA QueueBalanced ==
  ASSUME TypeOK, Balanced, tracer = "up", QueueStep
  PROVE  Balanced'
<1> USE DEF targetVars, pipeVars, tracerVars, logVars, flowVars
<1>1. ASSUME UNCHANGED <<alive, susp, written, tracer, pc, job>>,
             Has(mq', "proc") => Has(mq, "proc")
      PROVE  Balanced'
  <2>1. Places' /\ WrittenFirst'
    BY <1>1 DEF Balanced, Places, WrittenFirst
  <2>2. GoneFirst'
    BY <1>1 DEF Balanced, GoneFirst, Has
  <2>3. SuspendBalance' /\ ResumeFailsOnlyAfterWrite'
    BY <1>1 DEF Balanced, SuspendBalance, ExtraResume, InitialHold, Holding,
       ResumeFailsOnlyAfterWrite
  <2> QED
    BY <2>1, <2>2, <2>3 DEF Balanced
<1>2. CASE HandleException
  <2>1. CASE gtracer /\ alive
    <3>1. /\ mq' \in Drained(mq) /\ mq # <<>> /\ mq \in Seq(Events)
          /\ UNCHANGED <<alive, susp, written, tracer, pc, job>>
      BY <1>2, <2>1, Zenon DEF HandleException, NextEvent, TypeOK
    <3> QED
      BY <1>1, <3>1, DrainedHas
  <2> QED
    BY <1>2, <2>1, DieBalanced DEF HandleException, Outcomes
<1>3. CASE ReadRequest
  BY <1>1, <1>3, ReadHas DEF ReadRequest
<1>4. CASE RunBlock
  <2>1. /\ mq # <<>> /\ mq \in Seq(Events) /\ mq' = Tail(mq) /\ pc["mq"] = "idle"
        /\ pc' = [pc EXCEPT !["mq"] = "suspendCheck"]
        /\ UNCHANGED <<alive, susp, written, tracer, job>>
    BY <1>4 DEF RunBlock, NextEvent, TypeOK
  <2>2. Places' /\ WrittenFirst'
    BY <2>1 DEF TypeOK, Balanced, Places, WrittenFirst, Workers, Setting
  <2>3. GoneFirst'
    BY <2>1, TailHas DEF Balanced, GoneFirst
  <2>4. SuspendBalance' /\ ResumeFailsOnlyAfterWrite'
    BY <2>1 DEF TypeOK, Balanced, SuspendBalance, ExtraResume, InitialHold, Holding,
       ResumeFailsOnlyAfterWrite, Workers
  <2> QED
    BY <2>2, <2>3, <2>4 DEF Balanced
<1>5. CASE BlockStats
  <2>1. CASE alive
    <3>1. /\ pc["mq"] = "stats" /\ pc' = [pc EXCEPT !["mq"] = "ack"]
          /\ UNCHANGED <<alive, susp, written, tracer, job, mq>>
      BY <1>5, <2>1 DEF BlockStats, Goto
    <3>2. Places' /\ WrittenFirst'
      BY <3>1 DEF TypeOK, Balanced, Places, WrittenFirst, Workers, Setting
    <3>3. SuspendBalance' /\ ResumeFailsOnlyAfterWrite'
      BY <3>1 DEF TypeOK, Balanced, SuspendBalance, ExtraResume, InitialHold, Holding,
         ResumeFailsOnlyAfterWrite, Workers
    <3> QED
      BY <3>1, <3>2, <3>3, WorkerGoneFirst DEF Balanced
  <2> QED
    BY <1>5, <2>1, DieBalanced DEF BlockStats, Outcomes
<1>6. CASE BlockAck
  <2>1. /\ pc["mq"] = "ack" /\ pc' = [pc EXCEPT !["mq"] = "idle"]
        /\ UNCHANGED <<alive, susp, written, tracer, job, mq>>
    BY <1>6 DEF BlockAck, Goto
  <2>2. Places' /\ WrittenFirst'
    BY <2>1 DEF TypeOK, Balanced, Places, WrittenFirst, Workers, Setting
  <2>3. SuspendBalance' /\ ResumeFailsOnlyAfterWrite'
    BY <2>1 DEF TypeOK, Balanced, SuspendBalance, ExtraResume, InitialHold, Holding,
       ResumeFailsOnlyAfterWrite, Workers
  <2> QED
    BY <2>1, <2>2, <2>3, WorkerGoneFirst DEF Balanced
<1>7. CASE ProcExit
  <2>1. /\ mq # <<>> /\ mq \in Seq(Events) /\ Head(mq) = "proc"
        /\ pc' = [pc EXCEPT !["mq"] = "dtorCheck"] /\ job' = [job EXCEPT !["mq"] = "dtor"]
        /\ UNCHANGED <<alive, susp, written, tracer>>
    BY <1>7 DEF ProcExit, NextEvent, TypeOK
  <2>2. Has(mq, "proc")
    BY <2>1 DEF Has
  <2>3. ~alive
    BY <2>2 DEF Balanced, GoneFirst
  <2>4. Places' /\ WrittenFirst'
    BY <2>1 DEF TypeOK, Balanced, Places, WrittenFirst, Workers, Setting
  <2>5. GoneFirst' /\ SuspendBalance' /\ ResumeFailsOnlyAfterWrite'
    BY <2>1, <2>3 DEF Balanced, GoneFirst, SuspendBalance, ResumeFailsOnlyAfterWrite
  <2> QED
    BY <2>4, <2>5 DEF Balanced
<1> QED
  BY <1>2, <1>3, <1>4, <1>5, <1>6, <1>7 DEF QueueStep

\* Every step of the target keeps the balance.
LEMMA TargetBalanced ==
  ASSUME TypeOK, Balanced, tracer = "up", TargetStep
  PROVE  Balanced'
<1> USE DEF targetVars, pipeVars, tracerVars, logVars, flowVars
<1>1. /\ UNCHANGED <<susp, written, tracer, pc, job>>
      /\ alive' = alive \/ alive' = FALSE
  BY DEF TargetStep, Step, Exit, NewThread, PipeRead, PipeWrite
<1>2. Has(mq', "proc") => Has(mq, "proc") \/ ~alive'
  <2>1. mq \in Seq(Events)
    BY DEF TypeOK
  <2>2. mq' = mq \/ ~alive' \/ mq' = Fire("exc") \/ mq' = Fire("pipe")
    BY DEF TargetStep, Step, Exit, NewThread, PipeRead, PipeWrite
  <2> QED
    BY <2>1, <2>2, FireHas DEF Events
<1>3. Places' /\ WrittenFirst' /\ GoneFirst'
  BY <1>1, <1>2 DEF Balanced, Places, WrittenFirst, GoneFirst
<1>4. SuspendBalance' /\ ResumeFailsOnlyAfterWrite'
  BY <1>1 DEF Balanced, SuspendBalance, ExtraResume, InitialHold, Holding,
     ResumeFailsOnlyAfterWrite
<1> QED
  BY <1>3, <1>4 DEF Balanced

\* Every step keeps the balance.
LEMMA NextBalanced == TypeOK /\ Balanced /\ [Next]_vars => Balanced'
<1> SUFFICES ASSUME TypeOK, Balanced, [Next]_vars PROVE Balanced'
  OBVIOUS
<1> USE DEF targetVars, pipeVars, tracerVars, logVars, flowVars
<1>1. CASE Sigint
  <2>1. /\ pc["sig"] = "idle" /\ pc' = [pc EXCEPT !["sig"] = "dtorCheck"]
        /\ UNCHANGED <<alive, susp, written, tracer, job, mq>>
    BY <1>1 DEF Sigint, Goto
  <2>2. Places' /\ WrittenFirst'
    BY <2>1 DEF TypeOK, Balanced, Places, WrittenFirst, Workers, Setting
  <2>3. SuspendBalance' /\ ResumeFailsOnlyAfterWrite'
    BY <2>1 DEF TypeOK, Balanced, SuspendBalance, ExtraResume, InitialHold, Holding,
       ResumeFailsOnlyAfterWrite, Workers
  <2> QED
    BY <2>1, <2>2, <2>3, WorkerGoneFirst DEF Balanced
<1>2. CASE UNCHANGED vars
  <2>1. UNCHANGED <<alive, susp, written, tracer, pc, job, mq>>
    BY <1>2 DEF vars
  <2> QED
    BY <2>1 DEF Balanced, Places, WrittenFirst, GoneFirst, Has, SuspendBalance,
       ExtraResume, InitialHold, Holding, ResumeFailsOnlyAfterWrite
<1> QED
  BY <1>1, <1>2, WorkerBalanced, QueueBalanced, TargetBalanced DEF Next

\* Balanced holds in every reachable state.
LEMMA AlwaysBalanced == Spec => []Balanced
<1>1. Init => Balanced
  BY InitBalanced
<1>2. TypeOK /\ Balanced /\ [Next]_vars => Balanced'
  BY NextBalanced
<1> QED
  BY <1>1, <1>2, TypeCorrect, PTL DEF Spec

\* suspend() and resume() balance on every path: three threads of the tracer may
\* suspend and resume the target concurrently and it is neither left frozen nor
\* resumed early, the destructor's extra resume() aside.
THEOREM Balance == Spec => []SuspendBalance
<1>1. Balanced => SuspendBalance
  BY DEF Balanced
<1> QED
  BY <1>1, AlwaysBalanced, PTL

\* task_resume fails, and with it the process, only after TraceLog::write.
THEOREM TraceWrittenFirst == Spec => []ResumeFailsOnlyAfterWrite
<1>1. Balanced => ResumeFailsOnlyAfterWrite
  BY DEF Balanced
<1> QED
  BY <1>1, AlwaysBalanced, PTL

-----------------------------------------------------------------------------
(* Coverage: no instruction goes untraced.                                 *)

\* Some worker is between the two calls of set_single_step's body.
Switching == \E w \in Workers : pc[w] = "config2"

\* Every thread is armed or waits for the reply that arms it, and the task-wide debug
\* state, which a new thread inherits, is armed.
Stepped == taskArmed /\ \A t \in live : armed[t] \/ t \in blocked

\* What StepCoverage rests on besides the balance: a live target whose exceptions come
\* to the tracer is stepped, unless a switch is half done.
Covered == alive /\ handler = "tracer" => Stepped \/ Switching

\* Installing, arming, disarming and uninstalling in any interleaving of the workers:
\* the one who leaves last leaves the target stepped or its exceptions elsewhere.
LEMMA ConfigCovered ==
  ASSUME TypeOK, Covered, NEW w \in Workers, Config(w)
  PROVE  Covered'
<1> USE DEF targetVars, pipeVars, tracerVars, logVars, flowVars
<1>1. ASSUME Die("mach_failed") PROVE Covered'
  BY <1>1 DEF Die, Covered, Stepped, Switching
<1>2. ASSUME pc' = [pc EXCEPT ![w] = "config2"] PROVE Covered'
  BY <1>2 DEF TypeOK, Covered, Switching
<1>3. CASE InstallHandler(w)
  BY <1>1, <1>2, <1>3 DEF InstallHandler, Goto
<1>4. CASE SetSingleStepTask(w)
  <2>1. CASE alive /\ arg[w]
    <3>1. /\ taskArmed' = TRUE /\ live' = live
          /\ armed' = [t \in Threads |-> IF t \in live THEN TRUE ELSE armed[t]]
      <4>1. arg[w] = TRUE
        BY <2>1 DEF TypeOK
      <4> QED
        BY <1>4, <2>1, <4>1 DEF SetSingleStepTask, SetSingleStepThreads
    <3>2. Stepped'
      BY <3>1 DEF TypeOK, Stepped
    <3> QED
      BY <3>2 DEF Covered
  <2>2. CASE alive /\ ~arg[w]
    BY <1>2, <1>4, <2>2 DEF SetSingleStepTask, Goto
  <2> QED
    BY <1>1, <1>4, <2>1, <2>2 DEF SetSingleStepTask
<1>5. CASE UninstallHandler(w)
  BY <1>1, <1>5 DEF UninstallHandler, Covered
<1> QED
  BY <1>3, <1>4, <1>5 DEF Config

\* Every step keeps every thread armed or waiting for the tracer's reply.
LEMMA NextCovered == TypeOK /\ Covered /\ [Next]_vars => Covered'
<1> SUFFICES ASSUME TypeOK, Covered, [Next]_vars PROVE Covered'
  OBVIOUS
<1> USE DEF targetVars, pipeVars, tracerVars, logVars, flowVars
<1> DEFINE KeepsSwitching ==
      \A w \in Workers : pc[w] = "config2" => pc'[w] = "config2"
<1>0. ASSUME KeepsSwitching, Switching PROVE Covered'
  BY <1>0 DEF Covered, Switching
<1>1. ASSUME UNCHANGED <<handler, live, armed, blocked, taskArmed>>, KeepsSwitching,
             alive' => alive
      PROVE  Covered'
  BY <1>0, <1>1 DEF Covered, Stepped
<1>2. ASSUME NEW w \in Workers, WorkerStep(w) PROVE Covered'
  <2>1. CASE ~Config(w)
    <3>1. UNCHANGED <<alive, handler, live, armed, blocked, taskArmed>>
      BY <1>2, <2>1
         DEF WorkerStep, SuspendCheck, Suspend, ResumeCheck, Resume, SetFlag,
             DtorCheck, StopStats, Write, Destroy, Die
    <3>2. pc' = pc \/ (pc[w] # "config2" /\ \E l : pc' = [pc EXCEPT ![w] = l])
      BY <1>2, <2>1
         DEF WorkerStep, SuspendCheck, Suspend, ResumeCheck, Resume, SetFlag,
             DtorCheck, StopStats, Write, Destroy, Die, Goto
    <3>3. KeepsSwitching
      BY <3>2 DEF TypeOK
    <3> QED
      BY <1>1, <3>1, <3>3
  <2> QED
    BY <1>2, <2>1, ConfigCovered
<1>3. CASE QueueStep
  <2>1. CASE HandleException
    <3>1. CASE gtracer /\ alive
      <4>1. /\ armed' = [t \in Threads |-> IF t \in {Head(port)} THEN TRUE ELSE armed[t]]
            /\ blocked' = blocked \ {Head(port)}
            /\ UNCHANGED <<alive, live, taskArmed, handler, pc>>
        BY <2>1, <3>1 DEF HandleException, SetSingleStepThreads
      <4>2. Head(port) \in Threads
        BY <2>1 DEF HandleException, TypeOK
      <4>3. Stepped => Stepped'
        BY <4>1, <4>2 DEF TypeOK, Stepped
      <4> QED
        BY <1>0, <4>1, <4>3 DEF Covered
    <3>2. CASE ~(gtracer /\ alive)
      <4>1. UNCHANGED <<alive, handler, live, armed, blocked, taskArmed, pc>>
        BY <2>1, <3>2 DEF HandleException, Die
      <4> QED
        BY <1>1, <4>1
    <3> QED
      BY <3>1, <3>2
  <2>2. CASE ~HandleException
    <3>1. UNCHANGED <<alive, handler, live, armed, blocked, taskArmed>>
      BY <1>3, <2>2
         DEF QueueStep, ReadRequest, RunBlock, BlockStats, BlockAck, ProcExit, Die
    <3>2. pc' = pc \/ (pc["mq"] # "config2" /\ \E l : pc' = [pc EXCEPT !["mq"] = l])
      BY <1>3, <2>2
         DEF QueueStep, ReadRequest, RunBlock, BlockStats, BlockAck, ProcExit, Die, Goto,
             NextEvent
    <3>3. KeepsSwitching
      BY <3>2 DEF TypeOK, Workers
    <3> QED
      BY <1>1, <3>1, <3>3
  <2> QED
    BY <2>1, <2>2
<1>4. CASE Sigint
  BY <1>1, <1>4 DEF Sigint, Goto, TypeOK, Workers
<1>5. CASE TargetStep
  <2>0. pc' = pc
    BY <1>5 DEF TargetStep, Step, Exit, NewThread, PipeRead, PipeWrite
  <2>1. ASSUME NEW t \in Threads, Step(t) PROVE Covered'
    <3>1. /\ armed' = [armed EXCEPT ![t] = FALSE] /\ alive
          /\ UNCHANGED <<live, taskArmed, handler>>
          /\ handler = "tracer" => blocked' = blocked \union {t}
      BY <2>1 DEF Step, Runs
    <3>2. handler = "tracer" /\ Stepped => Stepped'
      BY <3>1 DEF TypeOK, Stepped
    <3> QED
      BY <1>0, <2>0, <3>1, <3>2 DEF Covered
  <2>2. ASSUME NEW t \in Threads, NEW u \in Threads, NewThread(t, u) PROVE Covered'
    <3>1. /\ armed' = [armed EXCEPT ![u] = taskArmed] /\ live' = live \union {u}
          /\ UNCHANGED <<alive, blocked, taskArmed, handler>>
      BY <2>2 DEF NewThread
    <3>2. Stepped => Stepped'
      BY <3>1 DEF TypeOK, Stepped
    <3> QED
      BY <1>0, <2>0, <3>1, <3>2 DEF Covered
  <2> QED
    BY <1>1, <1>5, <2>0, <2>1, <2>2 DEF TargetStep, Exit, PipeRead, PipeWrite
<1>6. CASE UNCHANGED vars
  BY <1>1, <1>6 DEF vars
<1> QED
  BY <1>2, <1>3, <1>4, <1>5, <1>6 DEF Next

\* Whatever the threads of target and tracer do, while the tracer's handler is
\* installed no thread of the target runs an instruction the tracer does not see: a
\* target that runs is not suspended, so by the balance nobody is inside a switch.
THEOREM Coverage == Spec => []StepCoverage
<1>1. Init => Covered
  <2> SUFFICES ASSUME Init PROVE Covered
    OBVIOUS
  <2>1. CASE pipe
    BY <2>1 DEF Init, Covered
  <2>2. CASE ~pipe
    BY <2>2, ConstantsAssumption DEF ConstantsAssumption, Init, Covered, Stepped
  <2> QED
    BY <2>1, <2>2
<1>2. TypeOK /\ Covered /\ [Next]_vars => Covered'
  BY NextCovered
<1>3. TypeOK /\ Balanced /\ Covered => StepCoverage
  <2> SUFFICES ASSUME TypeOK, Balanced, Covered, tracer = "up", handler = "tracer",
                      pc["sig"] # "destroy", NEW t \in Threads, Runs(t)
               PROVE  armed[t]
    BY DEF StepCoverage
  <2>1. InitialHold + Holding("main") + Holding("mq") + Holding("sig") = 0
    BY DEF Balanced, SuspendBalance, ExtraResume, Runs
  <2>2. ~Switching
    BY <2>1 DEF Switching, InitialHold, Holding, Workers
  <2> QED
    BY <2>2 DEF Covered, Stepped, Runs
<1> QED
  BY <1>1, <1>2, <1>3, TypeCorrect, AlwaysBalanced, PTL DEF Spec

-----------------------------------------------------------------------------
(* Measuring and stepping.                                                 *)

\* Target and tracer live, and SIGINT has not come: no destructor runs.
Undisturbed == alive /\ tracer = "up" /\ pc["sig"] = "idle"

\* The queue is idle until main() has resumed the target, and measuring starts with
\* that resume() or with a block's; a block leaves both flags as its byte says.
Measured ==
  Undisturbed =>
    /\ pc["main"] # "idle" => mq = <<>> /\ pc["mq"] = "idle" /\ ~measuring
    /\ pc["main"] = "idle" /\ pc["mq"] \in {"idle", "ack"} => (measuring <=> stepping)
    /\ pc["mq"] = "stats" => (stepping <=> arg["mq"])

\* A dead target, an ended tracer and a destructor begun by SIGINT stay that way.
LEMMA StaysDisturbed ==
  ASSUME TypeOK, Balanced, [Next]_vars, Undisturbed'
  PROVE  Undisturbed
<1> USE DEF targetVars, pipeVars, tracerVars, logVars, flowVars
<1>1. ASSUME NEW w \in Workers, WorkerStep(w), tracer = "up" PROVE Undisturbed
  <2>1. alive' = alive
    BY <1>1 DEF WorkerStep, SuspendCheck, Suspend, Config, InstallHandler, SetSingleStepTask,
     UninstallHandler, ResumeCheck, Resume, SetFlag, DtorCheck,
       StopStats, Write, Destroy, Die
  <2>2. ASSUME w = "sig", pc["sig"] # "idle" PROVE pc'["sig"] # "idle"
    BY <1>1, <2>2 DEF WorkerStep, SuspendCheck, Suspend, Config, InstallHandler, SetSingleStepTask,
     UninstallHandler, ResumeCheck, Resume, SetFlag, DtorCheck,
       StopStats, Write, Destroy, Die, Goto, AfterResume, Balanced, Places, TypeOK, Workers
  <2>3. w # "sig" => pc'["sig"] = pc["sig"]
    BY <1>1 DEF WorkerStep, SuspendCheck, Suspend, Config, InstallHandler, SetSingleStepTask,
     UninstallHandler, ResumeCheck, Resume, SetFlag, DtorCheck,
       StopStats, Write, Destroy, Die, Goto, TypeOK, Workers
  <2> QED BY <1>1, <2>1, <2>2, <2>3 DEF Undisturbed
<1>2. ASSUME QueueStep, tracer = "up" PROVE Undisturbed
  BY <1>2 DEF QueueStep, HandleException, ReadRequest, RunBlock, BlockStats, BlockAck, ProcExit, Die,
     Goto, TypeOK, Workers, Undisturbed
<1>3. ASSUME TargetStep, tracer = "up" PROVE Undisturbed
  BY <1>3 DEF TargetStep, Step, Exit, NewThread, PipeRead, PipeWrite, Runs, Undisturbed
<1>4. ASSUME Sigint PROVE Undisturbed
  BY <1>4 DEF Sigint, Goto, TypeOK, Workers, Undisturbed
<1>5. ASSUME UNCHANGED vars PROVE Undisturbed
  BY <1>5 DEF vars, Undisturbed
<1> QED BY <1>1, <1>2, <1>3, <1>4, <1>5 DEF Next

\* What Balanced says of an undisturbed tracer.
LEMMA UndisturbedPlaces ==
  ASSUME TypeOK, Balanced, Undisturbed
  PROVE  /\ susp = InitialHold + Holding("main") + Holding("mq")
         /\ job["main"] = "main" /\ job["mq"] = "block"
         /\ pc["main"] \in Setting \union {"idle", "lastCheck", "lastResume"}
         /\ pc["mq"] \in Setting \union {"idle", "stats", "ack"}
  BY DEF TypeOK, Balanced, Undisturbed, Places, GoneFirst, SuspendBalance, ExtraResume,
     InitialHold, Holding

\* Only main and m_queue are at work.
LEMMA UndisturbedWorker ==
  ASSUME TypeOK, Balanced, Undisturbed, NEW w \in Workers, WorkerStep(w), Undisturbed'
  PROVE  /\ w \in {"main", "mq"}
         /\ SuspendCheck(w) \/ Suspend(w) \/ Config(w) \/ ResumeCheck(w) \/ Resume(w) \/ SetFlag(w)
<1>1. w # "sig"
  BY DEF WorkerStep, SuspendCheck, Suspend, Config, InstallHandler, SetSingleStepTask,
     UninstallHandler, ResumeCheck, Resume, SetFlag, DtorCheck,
     StopStats, Write, Destroy, Undisturbed
<1>2. ~DtorCheck(w) /\ ~StopStats(w) /\ ~Write(w) /\ ~Destroy(w)
  BY <1>1, UndisturbedPlaces DEF DtorCheck, StopStats, Write, Destroy, Workers, Setting
<1> QED BY <1>1, <1>2 DEF WorkerStep, Workers

\* main() keeps the queue waiting, and its last resume() starts the measurement.
LEMMA MainMeasured ==
  ASSUME TypeOK, Balanced, Measured, Undisturbed, Undisturbed', WorkerStep("main")
  PROVE  /\ pc["main"] # "idle" /\ mq' = mq /\ pc'["mq"] = pc["mq"]
         /\ pc'["main"] # "idle" => ~measuring'
         /\ pc'["main"] = "idle" => (measuring' <=> stepping')
<1> USE DEF targetVars, pipeVars, tracerVars, logVars, flowVars
<1>1. /\ susp = InitialHold + Holding("main") + Holding("mq")
      /\ job["main"] = "main"
      /\ "main" \in Workers /\ pc \in [Workers -> Labels]
  BY UndisturbedPlaces DEF Workers, TypeOK
<1>2. \/ SuspendCheck("main") \/ Suspend("main") \/ Config("main")
      \/ ResumeCheck("main") \/ Resume("main") \/ SetFlag("main")
  BY <1>1, UndisturbedWorker
<1>3. pc["main"] # "idle"
  BY <1>2 DEF SuspendCheck, Suspend, Config, InstallHandler, SetSingleStepTask,
     UninstallHandler, ResumeCheck, Resume, SetFlag
<1>4. pc["mq"] = "idle" /\ ~measuring
  BY <1>3 DEF Measured
<1>5. mq' = mq /\ pc'["mq"] = pc["mq"]
  <2>1. pc' = pc \/ \E l : pc' = [pc EXCEPT !["main"] = l]
    BY <1>2 DEF SuspendCheck, Suspend, Config, InstallHandler, SetSingleStepTask,
     UninstallHandler, ResumeCheck, Resume, SetFlag, Goto, Die
  <2>2. mq' = mq
    BY <1>2 DEF SuspendCheck, Suspend, Config, InstallHandler, SetSingleStepTask,
     UninstallHandler, ResumeCheck, Resume, SetFlag, Die
  <2> QED BY <1>1, <2>1, <2>2 DEF Workers
<1>6. CASE SuspendCheck("main") \/ Config("main") \/ SetFlag("main") \/ ResumeCheck("main")
  <2>1. pc'["main"] # "idle" /\ measuring' = measuring
    BY <1>1, <1>6 DEF SuspendCheck, Config, InstallHandler, SetSingleStepTask, UninstallHandler, SetFlag,
       ResumeCheck, AfterResume, Goto, Die, Undisturbed
  <2> QED BY <1>3, <1>4, <1>5, <2>1
<1>7. CASE Suspend("main")
  <2>1. pc'["main"] = "config" /\ measuring' = FALSE
    BY <1>1, <1>4, <1>7 DEF Suspend, Goto, Die, Measure, Undisturbed, TypeOK
  <2> QED BY <1>3, <1>5, <2>1
<1>8. CASE Resume("main")
  <2>1. /\ IF stepping /\ susp = 1 THEN measuring' = TRUE ELSE measuring' = measuring
        /\ stepping' = stepping /\ pc' = [pc EXCEPT !["main"] = AfterResume("main")]
    BY <1>8 DEF Resume, Goto, Die, Measure, Undisturbed
  <2>2. CASE pc["main"] = "resume"
    <3>1. susp = 2 /\ pc'["main"] = "setFlag"
      BY <1>1, <1>4, <2>1, <2>2 DEF InitialHold, Holding, AfterResume
    <3> QED BY <1>3, <1>4, <1>5, <2>1, <3>1
  <2>3. CASE pc["main"] = "lastResume"
    <3>1. susp = 1 /\ pc'["main"] = "idle"
      BY <1>1, <1>4, <2>1, <2>3 DEF InitialHold, Holding, AfterResume
    <3> QED BY <1>3, <1>4, <1>5, <2>1, <3>1
  <2> QED BY <1>8, <2>2, <2>3 DEF Resume
<1> QED BY <1>2, <1>6, <1>7, <1>8

\* While m_queue runs a block up to SetFlag, nothing is claimed of the flags.
LEMMA BlockMeasured ==
  ASSUME TypeOK, Balanced, Measured, Undisturbed, Undisturbed', WorkerStep("mq")
  PROVE  /\ pc["main"] = "idle" /\ pc'["main"] = "idle"
         /\ pc'["mq"] \in Setting \union {"stats"}
         /\ pc'["mq"] = "stats" => (stepping' <=> arg'["mq"])
<1> USE DEF targetVars, pipeVars, tracerVars, logVars, flowVars
<1>1. /\ job["mq"] = "block" /\ "mq" \in Workers /\ pc \in [Workers -> Labels]
      /\ arg \in [Workers -> BOOLEAN]
  BY UndisturbedPlaces DEF Workers, TypeOK
<1>2. \/ SuspendCheck("mq") \/ Suspend("mq") \/ Config("mq")
      \/ ResumeCheck("mq") \/ Resume("mq") \/ SetFlag("mq")
  BY <1>1, UndisturbedWorker
<1>3. pc["mq"] \in Setting
  BY <1>2, UndisturbedPlaces
  DEF SuspendCheck, Suspend, Config, InstallHandler, SetSingleStepTask,
     UninstallHandler, ResumeCheck, Resume, SetFlag, Setting
<1>4. pc["main"] = "idle"
  BY <1>3 DEF Measured, Setting
<1>5. pc'["main"] = "idle"
  <2>1. pc' = pc \/ \E l : pc' = [pc EXCEPT !["mq"] = l]
    BY <1>2 DEF SuspendCheck, Suspend, Config, InstallHandler, SetSingleStepTask,
     UninstallHandler, ResumeCheck, Resume, SetFlag, Goto, Die
  <2> QED BY <1>1, <1>4, <2>1 DEF Workers
<1>6. CASE SetFlag("mq")
  <2>1. pc'["mq"] = "stats" /\ stepping' = arg["mq"] /\ arg' = arg
    BY <1>1, <1>6 DEF SetFlag, Goto
  <2> QED BY <1>4, <1>5, <2>1
<1>7. CASE ~SetFlag("mq")
  <2>1. pc'["mq"] \in Setting
    BY <1>1, <1>2, <1>3, <1>7
    DEF SuspendCheck, Suspend, Config, InstallHandler, SetSingleStepTask,
     UninstallHandler, ResumeCheck, Resume, Goto, Die, AfterResume, Setting, Undisturbed
  <2> QED BY <1>4, <1>5, <2>1 DEF Setting
<1> QED BY <1>6, <1>7

\* The queue has nothing to do, and the target does nothing, before main() is done.
LEMMA MainIdleFirst ==
  ASSUME TypeOK, Balanced, Measured, Undisturbed, QueueStep \/ TargetStep
  PROVE  pc["main"] = "idle"
<1>1. ASSUME pc["main"] # "idle", QueueStep PROVE FALSE
  <2>1. mq = <<>> /\ pc["mq"] = "idle"
    BY <1>1 DEF Measured
  <2> QED BY <1>1, <2>1 DEF QueueStep, HandleException, ReadRequest, RunBlock, BlockStats, BlockAck,
             ProcExit, NextEvent
<1>2. ASSUME TargetStep PROVE pc["main"] = "idle"
  <2>1. susp = 0
    BY <1>2 DEF TargetStep, Step, Exit, NewThread, PipeRead, PipeWrite, Runs
  <2> QED BY <2>1, UndisturbedPlaces DEF InitialHold, Holding
<1> QED BY <1>1, <1>2

\* m_queue does not run the destructor while the target lives.
LEMMA NoProcExit ==
  ASSUME TypeOK, Balanced, Undisturbed
  PROVE  ~ProcExit
<1> SUFFICES ASSUME ProcExit PROVE FALSE
  OBVIOUS
<1>1. Has(mq, "proc")
  BY DEF ProcExit, NextEvent, Has, TypeOK
<1> QED BY <1>1 DEF Balanced, GoneFirst, Undisturbed

LEMMA QueueMeasured ==
  ASSUME TypeOK, Balanced, Measured, Undisturbed, Undisturbed', QueueStep
  PROVE  Measured'
<1> USE DEF targetVars, pipeVars, tracerVars, logVars, flowVars
<1>1. pc["main"] = "idle" /\ "mq" \in Workers /\ pc \in [Workers -> Labels]
  BY MainIdleFirst DEF TypeOK, Workers
<1>2. CASE HandleException \/ ReadRequest
  <2>1. UNCHANGED <<pc, arg, measuring, stepping>>
    BY <1>2, Zenon DEF HandleException, ReadRequest, Undisturbed, Die
  <2> QED BY <1>1, <2>1 DEF Measured
<1>3. CASE RunBlock
  BY <1>1, <1>3 DEF RunBlock, Measured, Workers
<1>4. CASE BlockStats
  <2>1. susp = 0
    BY <1>1, <1>4, UndisturbedPlaces DEF BlockStats, InitialHold, Holding
  <2>2. /\ pc["mq"] = "stats" /\ measuring' = arg["mq"] /\ stepping' = stepping
        /\ pc' = [pc EXCEPT !["mq"] = "ack"]
    BY <1>4, <2>1 DEF BlockStats, Measure, Goto, Die, Undisturbed
  <2> QED BY <1>1, <2>2 DEF Measured, Workers
<1>5. CASE BlockAck
  <2>1. /\ pc["mq"] = "ack" /\ measuring' = measuring /\ stepping' = stepping
        /\ pc' = [pc EXCEPT !["mq"] = "idle"]
    BY <1>5 DEF BlockAck, Goto
  <2> QED BY <1>1, <2>1 DEF Measured, Workers
<1> QED BY <1>2, <1>3, <1>4, <1>5, NoProcExit DEF QueueStep

LEMMA NextMeasured == TypeOK /\ Balanced /\ Measured /\ [Next]_vars => Measured'
<1> USE DEF targetVars, pipeVars, tracerVars, logVars, flowVars
<1> SUFFICES ASSUME TypeOK, Balanced, Measured, [Next]_vars, Undisturbed' PROVE Measured'
  BY DEF Measured
<1>0. Undisturbed
  BY StaysDisturbed
<1>1. ASSUME NEW w \in Workers, WorkerStep(w) PROVE Measured'
  <2>1. w \in {"main", "mq"}
    BY <1>0, <1>1, UndisturbedWorker
  <2>2. CASE w = "main"
    <3>1. /\ pc["main"] # "idle" /\ mq' = mq /\ pc'["mq"] = pc["mq"]
          /\ pc'["main"] # "idle" => ~measuring'
          /\ pc'["main"] = "idle" => (measuring' <=> stepping')
      BY <1>0, <1>1, <2>2, MainMeasured
    <3> QED BY <1>0, <3>1 DEF Measured
  <2>3. CASE w = "mq"
    <3>1. /\ pc'["main"] = "idle" /\ pc'["mq"] \in Setting \union {"stats"}
          /\ pc'["mq"] = "stats" => (stepping' <=> arg'["mq"])
      BY <1>0, <1>1, <2>3, BlockMeasured
    <3> QED BY <3>1 DEF Measured, Setting
  <2> QED BY <2>1, <2>2, <2>3
<1>2. ASSUME TargetStep PROVE Measured'
  <2>1. pc["main"] = "idle"
    BY <1>0, <1>2, MainIdleFirst
  <2>2. UNCHANGED <<pc, arg, measuring, stepping>>
    BY <1>2 DEF TargetStep, Step, Exit, NewThread, PipeRead, PipeWrite
  <2> QED BY <1>0, <2>1, <2>2 DEF Measured
<1>3. ASSUME Sigint PROVE Measured'
  BY <1>3 DEF Sigint, Goto, Undisturbed, TypeOK, Workers
<1>4. ASSUME UNCHANGED vars PROVE Measured'
  BY <1>0, <1>4 DEF vars, Measured
<1> QED BY <1>0, <1>1, <1>2, <1>3, <1>4, QueueMeasured DEF Next

LEMMA AlwaysMeasured == Spec => []Measured
<1>1. Init => Measured
  BY DEF Init, Measured, Workers
<1>2. TypeOK /\ Balanced /\ Measured /\ [Next]_vars => Measured'
  BY NextMeasured
<1> QED BY <1>1, <1>2, TypeCorrect, AlwaysBalanced, PTL DEF Spec

\* Between two jobs of the tracer, on a live target, statistics are measured exactly
\* when the target is single-stepped: a switch over the pipe never leaves the counters
\* running on an untraced target, or stopped on a traced one.
THEOREM StatsMatch == Spec => []StatsMatchStepping
<1>1. Measured => StatsMatchStepping
  BY DEF Measured, Undisturbed, StatsMatchStepping, Workers
<1> QED BY <1>1, AlwaysMeasured, PTL

-----------------------------------------------------------------------------
(* The handshake over the pipe.                                            *)

\* Control bytes on their way through m_queue: none, or one
NoByte(q) == \A i \in DOMAIN q : q[i] \notin Bytes
OneByte(q, b) == \E i \in DOMAIN q : q[i] = b /\ \A j \in DOMAIN q : q[j] \in Bytes => j = i

\* The tracer is in the mode of controller c's last byte.
HandlerAsked(c) == handler = (IF asked[c] = "y" THEN "tracer" ELSE "orig")
FlagAsked(c) == stepping <=> asked[c] = "y"

\* Where the one request of a waiting controller can be: in the pipe, on the queue,
\* in the block that applies it, or answered.
InPipe(c) == request = <<asked[c]>> /\ acks = 0 /\ NoByte(mq) /\ pc["mq"] = "idle"
OnQueue(c) == request = <<>> /\ acks = 0 /\ OneByte(mq, asked[c]) /\ pc["mq"] = "idle"
InBlock(c) ==
  /\ request = <<>> /\ acks = 0 /\ NoByte(mq)
  /\ pc["mq"] \in Setting \union {"stats", "ack"}
  /\ arg["mq"] <=> asked[c] = "y"
  /\ pc["mq"] = "config2" /\ arg["mq"] => HandlerAsked(c)
  /\ pc["mq"] \in {"resumeCheck", "resume", "setFlag", "stats", "ack"} => HandlerAsked(c)
  /\ pc["mq"] \in {"stats", "ack"} => FlagAsked(c)
Answered(c) ==
  request = <<>> /\ acks = 1 /\ NoByte(mq) /\ pc["mq"] = "idle" /\ HandlerAsked(c) /\ FlagAsked(c)
AtRest(c) ==
  request = <<>> /\ acks = 0 /\ NoByte(mq) /\ pc["mq"] = "idle" /\ HandlerAsked(c) /\ FlagAsked(c)

\* The handshake of the only controller c with the tracer; until main() has resumed
\* the target nothing is asked, and set_single_step(false) changes nothing.
Handshake(c) ==
  pipe /\ Undisturbed =>
    /\ c \notin waiting => AtRest(c)
    /\ c \in waiting => InPipe(c) \/ OnQueue(c) \/ InBlock(c) \/ Answered(c)
    /\ pc["main"] # "idle" => c \notin waiting /\ asked[c] = "n" /\ ~arg["main"]

\* Control bytes and the operations on the queue.
LEMMA TailNoByte ==
  ASSUME NEW q \in Seq(Events), q # <<>>, NoByte(q)
  PROVE  NoByte(Tail(q))
  BY DEF NoByte

LEMMA AppendNoByte ==
  ASSUME NEW q \in Seq(Events), NoByte(q), NEW e, e \notin Bytes
  PROVE  NoByte(Append(q, e))
  BY DEF NoByte

LEMMA AppendOneByte ==
  ASSUME NEW q \in Seq(Events), NEW b \in Bytes, OneByte(q, b), NEW e, e \notin Bytes
  PROVE  OneByte(Append(q, e), b)
<1>1. PICK i \in DOMAIN q : q[i] = b /\ \A j \in DOMAIN q : q[j] \in Bytes => j = i
  BY DEF OneByte
<1>2. i \in DOMAIN Append(q, e) /\ Append(q, e)[i] = b
  BY <1>1
<1>3. \A j \in DOMAIN Append(q, e) : Append(q, e)[j] \in Bytes => j = i
  BY <1>1
<1> QED BY <1>2, <1>3 DEF OneByte

LEMMA NewOneByte ==
  ASSUME NEW q \in Seq(Events), NoByte(q), NEW b \in Bytes
  PROVE  OneByte(Append(q, b), b)
<1>1. /\ Len(q) + 1 \in DOMAIN Append(q, b) /\ Append(q, b)[Len(q) + 1] = b
      /\ \A j \in DOMAIN Append(q, b) : Append(q, b)[j] \in Bytes => j = Len(q) + 1
  BY DEF NoByte
<1> QED BY <1>1 DEF OneByte

LEMMA TailOneByte ==
  ASSUME NEW q \in Seq(Events), q # <<>>, NEW b \in Bytes, OneByte(q, b)
  PROVE  /\ Head(q) \notin Bytes => OneByte(Tail(q), b)
         /\ Head(q) \in Bytes => Head(q) = b /\ NoByte(Tail(q))
<1>1. PICK i \in DOMAIN q : q[i] = b /\ \A j \in DOMAIN q : q[j] \in Bytes => j = i
  BY DEF OneByte
<1>2. ASSUME Head(q) \notin Bytes PROVE OneByte(Tail(q), b)
  <2>1. i - 1 \in DOMAIN Tail(q) /\ Tail(q)[i - 1] = b
    BY <1>1, <1>2
  <2>2. \A j \in DOMAIN Tail(q) : Tail(q)[j] \in Bytes => j = i - 1
    BY <1>1, <1>2
  <2> QED BY <2>1, <2>2 DEF OneByte
<1>3. ASSUME Head(q) \in Bytes PROVE Head(q) = b /\ NoByte(Tail(q))
  <2>1. i = 1
    BY <1>1, <1>3
  <2> QED BY <1>1, <2>1 DEF NoByte
<1> QED BY <1>2, <1>3

\* A source's event is no control byte.
LEMMA FireBytes ==
  ASSUME mq \in Seq(Events), NEW e \in {"exc", "pipe", "proc"}
  PROVE  /\ NoByte(mq) => NoByte(Fire(e))
         /\ \A b \in Bytes : OneByte(mq, b) => OneByte(Fire(e), b)
  BY AppendNoByte, AppendOneByte DEF Fire, Bytes

\* set_single_step(false) at the end of main() finds the tracer as it leaves it.
LEMMA MainHandshake ==
  ASSUME TypeOK, Balanced, Measured, NEW c \in Controllers, Handshake(c), pipe,
         Undisturbed, Undisturbed', WorkerStep("main")
  PROVE  Handshake(c)'
<1> USE DEF targetVars, pipeVars, tracerVars, logVars, flowVars
<1>1. pc["main"] # "idle" /\ mq' = mq /\ pc'["mq"] = pc["mq"]
  BY MainMeasured
<1>2. AtRest(c) /\ c \notin waiting /\ asked[c] = "n" /\ ~arg["main"]
  BY <1>1 DEF Handshake
<1>3. \/ SuspendCheck("main") \/ Suspend("main") \/ Config("main")
      \/ ResumeCheck("main") \/ Resume("main") \/ SetFlag("main")
  BY UndisturbedWorker DEF Workers
<1>4. UNCHANGED <<request, acks, asked, waiting, arg>>
  BY <1>3 DEF SuspendCheck, Suspend, Config, InstallHandler, SetSingleStepTask,
     UninstallHandler, ResumeCheck, Resume, SetFlag, Goto, Die
<1>5. handler' = "orig" /\ stepping' = FALSE
  <2>1. handler = "orig" /\ stepping = FALSE
    BY <1>2 DEF AtRest, HandlerAsked, FlagAsked, TypeOK
  <2>0. arg["main"] = FALSE
    BY <1>2 DEF TypeOK, Workers
  <2>2. CASE SetFlag("main")
    BY <2>0, <2>1, <2>2 DEF SetFlag
  <2>3. CASE Config("main")
    BY <2>0, <2>1, <2>3 DEF Config, InstallHandler, SetSingleStepTask, UninstallHandler, Die
  <2>4. CASE SuspendCheck("main") \/ Suspend("main") \/ ResumeCheck("main") \/ Resume("main")
    BY <2>1, <2>4 DEF SuspendCheck, Suspend, ResumeCheck, Resume, Die
  <2> QED BY <1>3, <2>2, <2>3, <2>4
<1>6. AtRest(c)'
  BY <1>1, <1>2, <1>4, <1>5 DEF AtRest, HandlerAsked, FlagAsked
<1> QED BY <1>2, <1>4, <1>6 DEF Handshake

\* The block for a byte sets the handler, then the flag.
LEMMA BlockHandshake ==
  ASSUME TypeOK, Balanced, Measured, NEW c \in Controllers, Handshake(c), pipe,
         Undisturbed, Undisturbed', WorkerStep("mq")
  PROVE  Handshake(c)'
<1> USE DEF targetVars, pipeVars, tracerVars, logVars, flowVars
<1>1. pc["main"] = "idle" /\ pc'["main"] = "idle"
  BY BlockMeasured
<1>2. \/ SuspendCheck("mq") \/ Suspend("mq") \/ Config("mq")
      \/ ResumeCheck("mq") \/ Resume("mq") \/ SetFlag("mq")
  BY UndisturbedWorker DEF Workers
<1>3. pc["mq"] \in Setting /\ job["mq"] = "block" /\ "mq" \in Workers /\ pc \in [Workers -> Labels]
  BY <1>2, UndisturbedPlaces
  DEF SuspendCheck, Suspend, Config, InstallHandler, SetSingleStepTask,
     UninstallHandler, ResumeCheck, Resume, SetFlag, Setting, TypeOK, Workers
<1>4. InBlock(c) /\ c \in waiting
  BY <1>3 DEF Handshake, AtRest, InPipe, OnQueue, Answered, Setting
<1>5. UNCHANGED <<request, acks, asked, waiting, arg, mq>>
  BY <1>2 DEF SuspendCheck, Suspend, Config, InstallHandler, SetSingleStepTask,
     UninstallHandler, ResumeCheck, Resume, SetFlag, Goto, Die
<1>6. InBlock(c)'
  <2>1. CASE SetFlag("mq")
    <3>1. /\ pc'["mq"] = "stats" /\ pc["mq"] = "setFlag" /\ handler' = handler
          /\ stepping' = arg["mq"]
      BY <1>3, <2>1 DEF SetFlag, Goto
    <3> QED BY <1>4, <1>5, <3>1 DEF InBlock, HandlerAsked, FlagAsked
  <2>2. CASE Config("mq")
    <3>1. CASE InstallHandler("mq")
      <4>1. arg["mq"] /\ pc'["mq"] = "config2" /\ handler' = "tracer"
        BY <1>3, <3>1 DEF InstallHandler, Goto, Undisturbed, Die
      <4> QED BY <1>4, <1>5, <4>1 DEF InBlock, HandlerAsked, Setting
    <3>2. CASE SetSingleStepTask("mq")
      <4>1. /\ pc["mq"] = (IF arg["mq"] THEN "config2" ELSE "config")
            /\ pc'["mq"] = (IF arg["mq"] THEN "resumeCheck" ELSE "config2") /\ handler' = handler
        BY <1>3, <3>2 DEF SetSingleStepTask, Goto, Undisturbed, Die
      <4> QED BY <1>4, <1>5, <4>1 DEF InBlock, HandlerAsked, Setting
    <3>3. CASE UninstallHandler("mq")
      <4>1. ~arg["mq"] /\ pc'["mq"] = "resumeCheck" /\ handler' = "orig"
        BY <1>3, <3>3 DEF UninstallHandler, Goto, Undisturbed, Die
      <4> QED BY <1>4, <1>5, <4>1 DEF InBlock, HandlerAsked, Setting
    <3> QED BY <2>2, <3>1, <3>2, <3>3 DEF Config
  <2>3. CASE SuspendCheck("mq") \/ Suspend("mq")
    <3>1. pc'["mq"] \in {"suspend", "config"}
      BY <1>3, <2>3 DEF SuspendCheck, Suspend, Goto, Undisturbed, Die
    <3> QED BY <1>4, <1>5, <3>1 DEF InBlock, Setting
  <2>4. CASE ResumeCheck("mq") \/ Resume("mq")
    <3>1. /\ pc["mq"] \in {"resumeCheck", "resume"} /\ pc'["mq"] \in {"resume", "setFlag"}
      BY <1>3, <2>4 DEF ResumeCheck, Resume, Goto, Undisturbed, Die, AfterResume, Setting
    <3>2. handler' = handler
      BY <2>4 DEF ResumeCheck, Resume, Die
    <3> QED BY <1>4, <1>5, <3>1, <3>2 DEF InBlock, HandlerAsked, Setting
  <2> QED BY <1>2, <2>1, <2>2, <2>3, <2>4
<1> QED BY <1>1, <1>4, <1>5, <1>6 DEF Handshake

\* The queue passes the request on, step by step.
LEMMA QueueHandshake ==
  ASSUME TypeOK, Balanced, Measured, NEW c \in Controllers, Handshake(c), pipe,
         Undisturbed, Undisturbed', QueueStep
  PROVE  Handshake(c)'
<1> USE DEF targetVars, pipeVars, tracerVars, logVars, flowVars
<1>1. /\ pc["main"] = "idle" /\ "mq" \in Workers /\ pc \in [Workers -> Labels]
      /\ mq \in Seq(Events) /\ asked[c] \in Bytes /\ arg \in [Workers -> BOOLEAN]
  BY MainIdleFirst DEF TypeOK, Workers
<1>2. CASE HandleException
  <2>1. /\ UNCHANGED <<request, acks, asked, waiting, arg, pc, handler, stepping>>
        /\ mq' \in Drained(mq)
    BY <1>2, Zenon DEF HandleException, Undisturbed, Die
  <2>2. mq # <<>> /\ Head(mq) = "exc" /\ "exc" \notin Bytes /\ Tail(mq) \in Seq(Events)
    BY <1>1, <1>2 DEF HandleException, NextEvent, Bytes
  <2>3. mq' = Tail(mq) \/ mq' = mq \/ mq' = Append(Tail(mq), "exc")
    BY <2>1 DEF Drained
  <2>4. NoByte(mq) => NoByte(mq')
    BY <1>1, <2>2, <2>3, TailNoByte, AppendNoByte
  <2>5. OneByte(mq, asked[c]) => OneByte(mq', asked[c])
    <3>1. OneByte(mq, asked[c]) => OneByte(Tail(mq), asked[c])
      BY <1>1, <2>2, TailOneByte
    <3>2. OneByte(Tail(mq), asked[c]) => OneByte(Append(Tail(mq), "exc"), asked[c])
      BY <1>1, <2>2, AppendOneByte
    <3> QED BY <2>3, <3>1, <3>2
  <2> QED BY <1>1, <2>1, <2>4, <2>5 DEF Handshake, AtRest, InPipe, OnQueue, InBlock, Answered,
             HandlerAsked, FlagAsked
<1>3. CASE ReadRequest
  <2>1. /\ request # <<>> /\ Head(mq) = "pipe" /\ mq # <<>> /\ request' = Tail(request)
        /\ UNCHANGED <<acks, asked, waiting, arg, pc, handler, stepping>>
    BY <1>3 DEF ReadRequest, NextEvent
  <2>2. c \in waiting /\ InPipe(c)
    BY <2>1 DEF Handshake, AtRest, InPipe, OnQueue, InBlock, Answered
  <2>3. request' = <<>> /\ Head(request) = asked[c]
    BY <2>1, <2>2 DEF InPipe
  <2>4. Tail(mq) \in Seq(Events) /\ NoByte(Tail(mq))
    BY <1>1, <2>1, <2>2, TailNoByte DEF InPipe
  <2>5. Append(Tail(mq), asked[c]) \in Seq(Events)
    BY <1>1, <2>4 DEF Bytes, Events
  <2>6. mq' = Append(Tail(mq), asked[c]) \o <<>>
    BY <1>3, <2>1, <2>3 DEF ReadRequest
  <2>7. mq' = Append(Tail(mq), asked[c])
    BY <2>5, <2>6
  <2>8. OneByte(mq', asked[c])
    BY <1>1, <2>4, <2>7, NewOneByte
  <2>9. OnQueue(c)'
    BY <2>1, <2>2, <2>3, <2>8 DEF OnQueue, InPipe
  <2> QED BY <1>1, <2>1, <2>2, <2>9 DEF Handshake
<1>4. CASE RunBlock
  <2>1. PICK b \in Bytes : NextEvent(b) /\ arg' = [arg EXCEPT !["mq"] = (b = "y")]
    BY <1>4 DEF RunBlock
  <2>2. /\ mq # <<>> /\ Head(mq) = b /\ mq' = Tail(mq)
        /\ pc' = [pc EXCEPT !["mq"] = "suspendCheck"] /\ UNCHANGED <<request, acks, asked, waiting>>
    BY <1>4, <2>1 DEF RunBlock, NextEvent
  <2>3. ~NoByte(mq)
    <3>1. 1 \in DOMAIN mq /\ mq[1] = b
      BY <1>1, <2>2
    <3> QED BY <3>1 DEF NoByte
  <2>4. c \in waiting /\ OnQueue(c)
    BY <2>3 DEF Handshake, AtRest, InPipe, InBlock, Answered
  <2>5. b = asked[c] /\ NoByte(mq')
    BY <1>1, <2>2, <2>4, TailOneByte DEF OnQueue
  <2>6. pc'["mq"] = "suspendCheck" /\ pc'["main"] = "idle"
    BY <1>1, <2>2 DEF Workers
  <2>7. arg'["mq"] <=> asked'[c] = "y"
    BY <1>1, <2>1, <2>2, <2>5
  <2>8. InBlock(c)'
    BY <2>2, <2>4, <2>5, <2>6, <2>7 DEF InBlock, OnQueue, Setting
  <2> QED BY <2>2, <2>4, <2>6, <2>8 DEF Handshake
<1>5. CASE BlockStats
  <2>1. /\ pc["mq"] = "stats" /\ pc' = [pc EXCEPT !["mq"] = "ack"]
        /\ UNCHANGED <<request, acks, asked, waiting, arg, handler, stepping, mq>>
    BY <1>5, Zenon DEF BlockStats, Goto, Undisturbed, Die
  <2>2. pc'["mq"] = "ack" /\ pc'["main"] = "idle"
    BY <1>1, <2>1 DEF Workers
  <2>3. c \in waiting /\ InBlock(c)
    BY <2>1 DEF Handshake, AtRest, InPipe, OnQueue, Answered
  <2>4. InBlock(c)'
    BY <2>1, <2>2, <2>3 DEF InBlock, HandlerAsked, FlagAsked
  <2> QED BY <2>1, <2>2, <2>3, <2>4 DEF Handshake
<1>6. CASE BlockAck
  <2>1. /\ pc["mq"] = "ack" /\ pc' = [pc EXCEPT !["mq"] = "idle"] /\ acks' = acks + 1
        /\ UNCHANGED <<request, asked, waiting, arg, handler, stepping, mq>>
    BY <1>6 DEF BlockAck, Goto
  <2>2. pc'["mq"] = "idle" /\ pc'["main"] = "idle"
    BY <1>1, <2>1 DEF Workers
  <2>3. c \in waiting /\ InBlock(c)
    BY <2>1 DEF Handshake, AtRest, InPipe, OnQueue, Answered
  <2>4. Answered(c)'
    BY <2>1, <2>2, <2>3 DEF InBlock, Answered, HandlerAsked, FlagAsked
  <2> QED BY <2>1, <2>2, <2>3, <2>4 DEF Handshake
<1> QED BY <1>2, <1>3, <1>4, <1>5, <1>6, NoProcExit DEF QueueStep

\* The target writes a byte when the tracer is at rest, and reads its answer.
LEMMA TargetHandshake ==
  ASSUME TypeOK, Balanced, Measured, NEW c \in Controllers, \A d \in Controllers : d = c,
         Handshake(c), pipe, Undisturbed, Undisturbed', TargetStep
  PROVE  Handshake(c)'
<1> USE DEF targetVars, pipeVars, tracerVars, logVars, flowVars
<1>1. /\ pc["main"] = "idle" /\ mq \in Seq(Events) /\ asked[c] \in Bytes
      /\ asked \in [Controllers -> Bytes] /\ UNCHANGED <<pc, arg, handler, stepping>>
  BY MainIdleFirst DEF TypeOK, TargetStep, Step, Exit, NewThread, PipeRead, PipeWrite
<1>2. CASE \E t, u \in Threads : Step(t) \/ Exit(t) \/ NewThread(t, u)
  <2>1. UNCHANGED <<request, acks, asked, waiting>>
    BY <1>2 DEF Step, Exit, NewThread
  <2>2. mq' \in {mq, Fire("exc"), Fire("proc")}
    BY <1>2 DEF Step, Exit, NewThread
  <2>3. /\ NoByte(mq) => NoByte(mq')
        /\ OneByte(mq, asked[c]) => OneByte(mq', asked[c])
    BY <1>1, <2>2, FireBytes
  <2> QED BY <1>1, <2>1, <2>3 DEF Handshake, AtRest, InPipe, OnQueue, InBlock, Answered,
             HandlerAsked, FlagAsked
<1>3. CASE PipeRead(c)
  <2>1. /\ c \in waiting /\ acks > 0 /\ acks' = acks - 1 /\ waiting' = waiting \ {c}
        /\ UNCHANGED <<request, asked, mq>>
    BY <1>3 DEF PipeRead
  <2>2. Answered(c)
    BY <2>1 DEF Handshake, InPipe, OnQueue, InBlock
  <2>3. AtRest(c)'
    BY <1>1, <2>1, <2>2 DEF Answered, AtRest, HandlerAsked, FlagAsked
  <2> QED BY <1>1, <2>1, <2>3 DEF Handshake
<1>4. ASSUME NEW b \in Bytes, PipeWrite(c, b) PROVE Handshake(c)'
  <2>1. /\ c \notin waiting /\ waiting' = waiting \union {c} /\ request' = Append(request, b)
        /\ asked' = [asked EXCEPT ![c] = b] /\ mq' = Fire("pipe") /\ acks' = acks
    BY <1>4 DEF PipeWrite
  <2>2. AtRest(c)
    BY <2>1 DEF Handshake
  <2>3. asked'[c] = b /\ request' = <<b>> /\ NoByte(mq')
    BY <1>1, <2>1, <2>2, FireBytes DEF AtRest
  <2>4. InPipe(c)'
    BY <1>1, <2>1, <2>2, <2>3 DEF AtRest, InPipe
  <2> QED BY <1>1, <2>1, <2>4 DEF Handshake
<1> QED BY <1>2, <1>3, <1>4 DEF TargetStep

LEMMA NextHandshake ==
  ASSUME NEW c \in Controllers, \A d \in Controllers : d = c
  PROVE  TypeOK /\ Balanced /\ Measured /\ Handshake(c) /\ [Next]_vars => Handshake(c)'
<1> USE DEF targetVars, pipeVars, tracerVars, logVars, flowVars
<1> SUFFICES ASSUME TypeOK, Balanced, Measured, Handshake(c), [Next]_vars, pipe', Undisturbed'
             PROVE  Handshake(c)'
  BY DEF Handshake
<1>0. Undisturbed
  BY StaysDisturbed
<1>1. pipe
  BY DEF Next, WorkerStep, SuspendCheck, Suspend, Config, InstallHandler, SetSingleStepTask,
     UninstallHandler, ResumeCheck, Resume, SetFlag, DtorCheck,
     StopStats, Write, Destroy, Die, QueueStep, HandleException, ReadRequest, RunBlock, BlockStats,
     BlockAck, ProcExit, Sigint, TargetStep, Step, Exit, NewThread, PipeRead, PipeWrite, vars
<1>2. ASSUME NEW w \in Workers, WorkerStep(w) PROVE Handshake(c)'
  <2>1. w \in {"main", "mq"}
    BY <1>0, <1>2, UndisturbedWorker
  <2>2. CASE w = "main"
    BY <1>0, <1>1, <1>2, <2>2, MainHandshake
  <2>3. CASE w = "mq"
    BY <1>0, <1>1, <1>2, <2>3, BlockHandshake
  <2> QED BY <2>1, <2>2, <2>3
<1>3. ASSUME QueueStep PROVE Handshake(c)'
  BY <1>0, <1>1, <1>3, QueueHandshake
<1>4. ASSUME TargetStep PROVE Handshake(c)'
  BY <1>0, <1>1, <1>4, TargetHandshake
<1>5. ASSUME Sigint PROVE Handshake(c)'
  BY <1>5 DEF Sigint, Goto, Undisturbed, TypeOK, Workers
<1>6. ASSUME UNCHANGED vars PROVE Handshake(c)'
  BY <1>0, <1>1, <1>6 DEF vars, Handshake, AtRest, InPipe, OnQueue, InBlock, Answered,
     HandlerAsked, FlagAsked, NoByte, OneByte
<1> QED BY <1>2, <1>3, <1>4, <1>5, <1>6 DEF Next

\* With one controller, pipe_set_single_step is a switch one can rely on: when it has
\* returned the tracer is in the mode asked for, no byte is left in either pipe, and it
\* stays so until the next call or SIGINT, whatever exceptions arrive meanwhile.
THEOREM AckApplied ==
  ASSUME \A c, d \in Controllers : c = d
  PROVE  Spec => []AckMeansApplied
<1>1. ASSUME NEW c \in Controllers PROVE Spec => []Handshake(c)
  <2>1. Init => Handshake(c)
    <3> SUFFICES ASSUME Init, pipe PROVE Handshake(c)
      BY DEF Handshake
    <3>1. /\ request = <<>> /\ acks = 0 /\ mq = <<>> /\ waiting = {} /\ asked[c] = "n"
          /\ handler = "orig" /\ pc["mq"] = "idle" /\ arg["main"] = FALSE
      BY <1>1 DEF Init, Workers
    <3>2. ~stepping
      BY Zenon DEF Init
    <3>3. AtRest(c)
      BY <3>1, <3>2 DEF AtRest, HandlerAsked, FlagAsked, NoByte
    <3> QED BY <3>1, <3>3 DEF Handshake
  <2>2. TypeOK /\ Balanced /\ Measured /\ Handshake(c) /\ [Next]_vars => Handshake(c)'
    BY <1>1, NextHandshake
  <2> QED BY <2>1, <2>2, TypeCorrect, AlwaysBalanced, AlwaysMeasured, PTL DEF Spec
<1>2. Spec => \A c \in Controllers : []Handshake(c)
  BY <1>1
<1>3. (\A c \in Controllers : []Handshake(c)) <=> [](\A c \in Controllers : Handshake(c))
  OBVIOUS
<1>4. TypeOK /\ (\A c \in Controllers : Handshake(c)) => AckMeansApplied
  <2> SUFFICES ASSUME TypeOK, NEW c \in Controllers, Handshake(c), pipe, alive, tracer = "up",
                      c \notin waiting, pc["main"] = "idle", pc["sig"] = "idle"
               PROVE  /\ stepping = (asked[c] = "y")
                      /\ handler = (IF asked[c] = "y" THEN "tracer" ELSE "orig")
                      /\ request = <<>> /\ acks = 0
    BY DEF AckMeansApplied
  <2>1. AtRest(c)
    BY DEF Handshake, Undisturbed
  <2>2. stepping <=> asked[c] = "y"
    BY <2>1 DEF AtRest, FlagAsked
  <2>3. stepping \in BOOLEAN
    BY DEF TypeOK
  <2>4. stepping = (asked[c] = "y")
    BY <2>2, <2>3, Zenon
  <2> QED BY <2>1, <2>4 DEF AtRest, HandlerAsked
<1> QED BY <1>2, <1>3, <1>4, TypeCorrect, PTL
=============================================================================
