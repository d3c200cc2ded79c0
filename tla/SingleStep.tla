----------------------------- MODULE SingleStep -----------------------------
(***************************************************************************)
(* The control part of XNUTracer (lib/xnu-trace/XNUTracer.cpp), the Mach   *)
(* exception handler it installs (exception_handlers.cpp), the debug-state *)
(* helpers (mach.cpp) and the main program that drives it                  *)
(* (tools/xnu-trace-single-step-runner).                                   *)
(*                                                                         *)
(* Three threads of the tracer act on one target task:                     *)
(*   "main"  the end of main(): set_single_step(false) in pipe mode, then  *)
(*           resume();                                                     *)
(*   "mq"    the serial dispatch queue m_queue: step exceptions, control   *)
(*           bytes of the pipe, the blocks they dispatch, process exit;    *)
(*   "sig"   a global queue that deletes the tracer on SIGINT.             *)
(* The target's threads run, are created, raise step exceptions, ask for   *)
(* tracing over the pipe (pipe_set_single_step) and exit.                  *)
(*                                                                         *)
(* TraceLog::log is taken to return; MphMap and MinimalPerfectHash are     *)
(* about its asserts.  Of TraceLog::write only the assert of front() is    *)
(* modelled; TraceBundle is about its files.                               *)
(***************************************************************************)
EXTENDS Naturals, Sequences

CONSTANTS
  Threads,         \* the threads the target may have
  InitialThreads,  \* those it has when main() reaches dispatch_resume
  Controllers,     \* the threads that call pipe_set_single_step
  Modes,           \* the values --pipe may have
  Streams,         \* the values --stream may have
  Interrupt,       \* BOOLEAN: the user may press Ctrl-C
  MayExit,         \* BOOLEAN: a thread of the target may call exit()
  MaxSteps,        \* bound: step exceptions raised
  MaxRequests      \* bound: calls of pipe_set_single_step

ASSUME ConstantsAssumption ==
  /\ InitialThreads \subseteq Threads
  /\ InitialThreads # {}
  /\ Controllers \subseteq Threads
  /\ Modes \subseteq BOOLEAN /\ Streams \subseteq BOOLEAN /\ Interrupt \in BOOLEAN /\ MayExit \in BOOLEAN
  /\ MaxSteps \in Nat /\ MaxRequests \in Nat

VARIABLES
  \* the target task, as the kernel keeps it
  alive,      \* the task port is valid
  susp,       \* the task's suspend count
  live,       \* the threads that exist
  taskArmed,  \* the SS bit in the task-wide debug state (new threads inherit it)
  armed,      \* armed[t]: the SS bit (MDSCR_EL1) of thread t
  blocked,    \* threads waiting for the reply to an exception message
  handler,    \* who receives EXC_BREAKPOINT: "tracer" or the "orig"inal port
  steps,      \* step exceptions raised so far
  \* messages
  port,       \* m_breakpoint_exc_port: threads whose exception is unhandled
  pipe,       \* --pipe: the target controls tracing over the pipes
  request,    \* bytes in the target-to-tracer pipe: 'y' to step, 'n' to stop
  acks,       \* number of 'c' bytes in the tracer-to-target pipe
  asked,      \* asked[c]: the last byte c wrote
  waiting,    \* controllers between their write and the end of their read
  requests,   \* calls of pipe_set_single_step so far
  \* the tracer
  mq,         \* m_queue: source events and blocks, first in first out
  stream,     \* --stream: m_stream of the log
  logs,       \* m_thread_ctxs of the log is not empty
  stepping,   \* m_single_stepping
  measuring,  \* m_measuring_stats
  gtracer,    \* g_tracer # nullptr
  written,    \* TraceLog::write has returned
  tracer,     \* "up", or how the tracer's process ended
  pc, arg, job  \* per thread of the tracer: where it is and for whom

targetVars == <<alive, susp, live, taskArmed, armed, blocked, handler, steps>>
pipeVars   == <<pipe, request, acks, asked, waiting, requests>>
logVars    == <<stream, logs>>
tracerVars == <<logVars, stepping, measuring, gtracer, written, tracer>>
flowVars   == <<pc, arg, job>>
vars == <<targetVars, port, pipeVars, mq, tracerVars, flowVars>>

Workers  == {"main", "mq", "sig"}
Bytes    == {"y", "n"}
Events   == {"exc", "pipe", "proc", "y", "n"}
Labels   == {"idle", "dtorCheck", "suspendCheck", "suspend", "config",
             "config2", "resumeCheck", "resume", "setFlag", "stats", "ack", "stopStats",
             "write", "lastCheck", "lastResume", "destroy"}
Outcomes == {"up", "exit0", "mach_failed", "resume_failed", "assert_failed",
             "crashed"}

TypeOK ==
  /\ alive \in BOOLEAN /\ susp \in Nat /\ live \in SUBSET Threads
  /\ taskArmed \in BOOLEAN /\ armed \in [Threads -> BOOLEAN]
  /\ blocked \in SUBSET Threads /\ handler \in {"tracer", "orig"}
  /\ steps \in Nat /\ port \in Seq(Threads)
  /\ pipe \in BOOLEAN /\ request \in Seq(Bytes) /\ acks \in Nat
  /\ asked \in [Controllers -> Bytes] /\ waiting \in SUBSET Controllers
  /\ requests \in Nat /\ mq \in Seq(Events)
  /\ stream \in BOOLEAN /\ logs \in BOOLEAN
  /\ stepping \in BOOLEAN /\ measuring \in BOOLEAN /\ gtracer \in BOOLEAN
  /\ written \in BOOLEAN /\ tracer \in Outcomes
  /\ pc \in [Workers -> Labels] /\ arg \in [Workers -> BOOLEAN]
  /\ job \in [Workers -> {"main", "block", "dtor"}]

\* The constructors suspend() an attached target; a spawned one starts suspended
\* (POSIX_SPAWN_START_SUSPENDED).
InitialSuspendCount == 1

(***************************************************************************)
(* State after the constructor and common_ctor: the target is suspended    *)
(* once; unless it is controlled over the pipe, set_single_step(true) has  *)
(* run.  main() continues with set_single_step(false) (pipe) and resume(). *)
(***************************************************************************)
Init ==
  /\ alive = TRUE /\ susp = InitialSuspendCount /\ live = InitialThreads
  /\ pipe \in Modes /\ taskArmed = ~pipe
  /\ armed = [t \in Threads |-> ~pipe /\ t \in InitialThreads]
  /\ blocked = {} /\ steps = 0 /\ port = <<>>
  /\ handler = IF pipe THEN "orig" ELSE "tracer"
  /\ request = <<>> /\ acks = 0 /\ requests = 0
  /\ asked = [c \in Controllers |-> "n"] /\ waiting = {}
  /\ mq = <<>> /\ stream \in Streams /\ logs = FALSE
  /\ stepping = ~pipe /\ measuring = FALSE
  /\ gtracer = TRUE /\ written = FALSE /\ tracer = "up"
  /\ pc = [w \in Workers |-> IF w # "main" THEN "idle"
                             ELSE IF pipe THEN "suspendCheck" ELSE "lastCheck"]
  /\ arg = [w \in Workers |-> FALSE]
  /\ job = [w \in Workers |-> IF w = "main" THEN "main"
                              ELSE IF w = "mq" THEN "block" ELSE "dtor"]

Goto(w, label) == pc' = [pc EXCEPT ![w] = label] /\ UNCHANGED <<arg, job>>

\* A dispatch source has at most one event outstanding on its queue.
Has(q, event) == \E i \in DOMAIN q : q[i] = event
Fire(event) == IF Has(mq, event) THEN mq ELSE Append(mq, event)

\* mach_check or an assert failed: the process ends where it is.
Die(how) ==
  /\ tracer' = how
  /\ UNCHANGED <<targetVars, port, pipeVars, mq, logVars, stepping, measuring, gtracer,
                 written, flowVars>>

-----------------------------------------------------------------------------
(* set_single_step(do_single_step), suspend() and resume().                *)

\* start_measuring_stats or stop_measuring_stats, of which a second has no effect
Measure(on) == measuring' = on

\* suspend(): `if (!task_is_valid(m_target_task)) return`
SuspendCheck(w) ==
  /\ pc[w] = "suspendCheck"
  /\ Goto(w, IF alive THEN "suspend" ELSE "config")
  /\ UNCHANGED <<targetVars, port, pipeVars, mq, tracerVars>>

\* get_suspend_count, task_suspend, stop_measuring_stats
Suspend(w) ==
  /\ pc[w] = "suspend"
  /\ \/ /\ alive
        /\ susp' = susp + 1
        /\ IF stepping /\ susp = 1 THEN Measure(FALSE) ELSE UNCHANGED measuring
        /\ Goto(w, "config")
        /\ UNCHANGED <<alive, live, taskArmed, armed, blocked, handler, steps,
                       port, pipeVars, mq, logVars, stepping, gtracer, written, tracer>>
     \/ ~alive /\ Die("mach_failed")

\* set_single_step_thread for each of ts
SetSingleStepThreads(ts, on) == armed' = [t \in Threads |-> IF t \in ts THEN on ELSE armed[t]]

(* The body of set_single_step: two calls, in an order that depends on     *)
(* do_single_step.  The resets of the regions and symbols before the first *)
(* suspend and resume the target within their own calls.                   *)

InstallHandler(w) ==
  /\ pc[w] = "config" /\ arg[w]
  /\ \/ /\ alive
        /\ handler' = "tracer"
        /\ Goto(w, "config2")
        /\ UNCHANGED <<alive, susp, live, taskArmed, armed, blocked, steps, port,
                       pipeVars, mq, tracerVars>>
     \/ ~alive /\ Die("mach_failed")

\* Slip: the task-wide debug state is forgotten.
SetSingleStepTask_ThreadsOnly(w) ==
  /\ pc[w] = IF arg[w] THEN "config2" ELSE "config"
  /\ alive
  /\ SetSingleStepThreads(live, arg[w])
  /\ Goto(w, IF arg[w] THEN "resumeCheck" ELSE "config2")
  /\ UNCHANGED <<alive, susp, live, taskArmed, blocked, handler, steps, port,
                 pipeVars, mq, tracerVars>>

\* set_single_step_task: the state new threads inherit, then every thread there is
SetSingleStepTask(w) ==
  /\ pc[w] = IF arg[w] THEN "config2" ELSE "config"
  /\ \/ /\ alive
        /\ taskArmed' = arg[w]
        /\ SetSingleStepThreads(live, arg[w])
        /\ Goto(w, IF arg[w] THEN "resumeCheck" ELSE "config2")
        /\ UNCHANGED <<alive, susp, live, blocked, handler, steps, port, pipeVars,
                       mq, tracerVars>>
     \/ ~alive /\ Die("mach_failed")

\* `if (!task_is_valid(m_target_task)) return`, and a target may also end between
\* that test and task_set_exception_ports
UninstallHandler(w) ==
  /\ pc[w] = "config2" /\ ~arg[w]
  /\ \/ /\ handler' = IF alive THEN "orig" ELSE handler
        /\ Goto(w, "resumeCheck")
        /\ UNCHANGED <<alive, susp, live, taskArmed, armed, blocked, steps, port,
                       pipeVars, mq, tracerVars>>
     \/ ~alive /\ Die("mach_failed")

Config(w) == InstallHandler(w) \/ SetSingleStepTask(w) \/ UninstallHandler(w)

\* What follows a resume(): the end of set_single_step, of main, of the dtor.
AfterResume(w) ==
  IF pc[w] \in {"resumeCheck", "resume"} THEN "setFlag"
  ELSE IF job[w] = "main" THEN "idle" ELSE "destroy"

\* Slip: resume() no longer asks whether the task still exists.
ResumeCheck_Missing(w) ==
  /\ pc[w] \in {"resumeCheck", "lastCheck"}
  /\ Goto(w, IF pc[w] = "resumeCheck" THEN "resume" ELSE "lastResume")
  /\ UNCHANGED <<targetVars, port, pipeVars, mq, tracerVars>>

\* Slip: resume() does nothing unless the target is being stepped.
ResumeCheck_IfStepping(w) ==
  /\ pc[w] \in {"resumeCheck", "lastCheck"}
  /\ Goto(w, IF ~alive \/ ~stepping THEN AfterResume(w)
             ELSE IF pc[w] = "resumeCheck" THEN "resume" ELSE "lastResume")
  /\ UNCHANGED <<targetVars, port, pipeVars, mq, tracerVars>>

\* resume(): `if (!task_is_valid(m_target_task)) return`
ResumeCheck(w) ==
  /\ pc[w] \in {"resumeCheck", "lastCheck"}
  /\ Goto(w, IF ~alive THEN AfterResume(w)
             ELSE IF pc[w] = "resumeCheck" THEN "resume" ELSE "lastResume")
  /\ UNCHANGED <<targetVars, port, pipeVars, mq, tracerVars>>

\* Slip: the count is lowered whatever it is.
Resume_Unchecked(w) ==
  /\ pc[w] \in {"resume", "lastResume"} /\ alive
  /\ susp' = susp - 1
  /\ Goto(w, AfterResume(w))
  /\ UNCHANGED <<alive, live, taskArmed, armed, blocked, handler, steps, port,
                 pipeVars, mq, tracerVars>>

\* get_suspend_count, start_measuring_stats, task_resume (which fails on a task
\* that is not suspended)
Resume(w) ==
  /\ pc[w] \in {"resume", "lastResume"}
  /\ \/ /\ alive /\ susp # 0
        /\ IF stepping /\ susp = 1 THEN Measure(TRUE) ELSE UNCHANGED measuring
        /\ susp' = susp - 1
        /\ Goto(w, AfterResume(w))
        /\ UNCHANGED <<alive, live, taskArmed, armed, blocked, handler, steps,
                       port, pipeVars, mq, logVars, stepping, gtracer, written, tracer>>
     \/ alive /\ susp = 0 /\ Die("resume_failed")
     \/ ~alive /\ Die("mach_failed")

\* m_single_stepping = do_single_step; return to the caller
SetFlag(w) ==
  /\ pc[w] = "setFlag"
  /\ stepping' = arg[w]
  /\ Goto(w, CASE job[w] = "main"  -> "lastCheck"
               [] job[w] = "block" -> "stats"
               [] job[w] = "dtor"  -> "stopStats")
  /\ UNCHANGED <<targetVars, port, pipeVars, mq, logVars, measuring, gtracer, written,
                 tracer>>

-----------------------------------------------------------------------------
(* The destructor, run by "sig" after SIGINT or by "mq" after process exit. *)

DtorCheck(w) ==
  /\ pc[w] = "dtorCheck"
  /\ Goto(w, IF alive THEN "suspendCheck" ELSE "stopStats")
  /\ UNCHANGED <<targetVars, port, pipeVars, mq, tracerVars>>

\* Slip: the destructor resumes the target before it writes the trace.
StopStats_ResumeFirst(w) ==
  /\ pc[w] = "stopStats"
  /\ Measure(FALSE)
  /\ gtracer' = FALSE
  /\ Goto(w, "lastCheck")
  /\ UNCHANGED <<targetVars, port, pipeVars, mq, logVars, stepping, written, tracer>>

\* stop_measuring_stats(); g_tracer = nullptr
StopStats(w) ==
  /\ pc[w] = "stopStats"
  /\ Measure(FALSE)
  /\ gtracer' = FALSE
  /\ Goto(w, "write")
  /\ UNCHANGED <<targetVars, port, pipeVars, mq, logVars, stepping, written, tracer>>

\* logger().write(...).  Unless they have been streamed it reads the logs of the
\* threads back, and front() asserts that each begins with a sync frame, which
\* log(thread, pc) never writes (TraceStream!LogPc).
Write(w) ==
  /\ pc[w] = "write"
  /\ \/ /\ stream \/ ~logs
        /\ written' = TRUE
        /\ Goto(w, "lastCheck")
        /\ UNCHANGED <<targetVars, port, pipeVars, mq, logVars, stepping, measuring,
                       gtracer, tracer>>
     \/ ~stream /\ logs /\ Die("assert_failed")

\* The members go (the log's streams are closed), then exit(0).  If another
\* thread is inside the destructor of the same object, anything may happen.
Destroy(w) ==
  /\ pc[w] = "destroy"
  /\ \/ Die("exit0")
     \/ /\ \E v \in Workers \ {w} : job[v] = "dtor" /\ pc[v] # "idle"
        /\ Die("crashed")

\* the signal source's handler: `delete tracer_raw; exit(0)`
Sigint ==
  /\ Interrupt
  /\ pc["sig"] = "idle"
  /\ Goto("sig", "dtorCheck")
  /\ UNCHANGED <<targetVars, port, pipeVars, mq, tracerVars>>

-----------------------------------------------------------------------------
(* The serial queue m_queue.                                               *)

NextEvent(event) == pc["mq"] = "idle" /\ mq # <<>> /\ Head(mq) = event

\* Slip: one message is handled per event and the rest is forgotten.
Drained_OnlyOne(q) == {Tail(q)}

\* dispatch_mig_server receives messages until the port is empty, or until it
\* has received its fill and leaves the rest to a later event.
Drained(q) == IF Tail(port) = <<>> THEN {Tail(q)} ELSE {q, Append(Tail(q), "exc")}

\* trace_catch_mach_exception_raise_state_identity
HandleException ==
  /\ NextEvent("exc")
  /\ port # <<>>
  /\ \/ /\ gtracer /\ alive
        /\ SetSingleStepThreads({Head(port)}, TRUE)
        /\ blocked' = blocked \ {Head(port)}
        /\ port' = Tail(port)
        /\ mq' \in Drained(mq)
        /\ logs' = TRUE
        /\ UNCHANGED <<alive, susp, live, taskArmed, handler, steps, pipeVars, stream,
                       stepping, measuring, gtracer, written, tracer, flowVars>>
     \/ ~gtracer /\ Die("crashed")                  \* g_tracer->logger()
     \/ gtracer /\ ~alive /\ Die("assert_failed")   \* thread_set_state

\* Slip: the byte is acknowledged as soon as it has been read.
ReadRequest_AckNow ==
  /\ NextEvent("pipe")
  /\ request # <<>>
  /\ request' = Tail(request)
  /\ acks' = acks + 1
  /\ mq' = Append(Tail(mq), Head(request))
  /\ UNCHANGED <<targetVars, port, pipe, asked, waiting, requests, tracerVars, flowVars>>

\* the pipe source's handler: read one byte, dispatch its block
ReadRequest ==
  /\ NextEvent("pipe")
  /\ request # <<>>
  /\ request' = Tail(request)
  /\ mq' = Append(Tail(mq), Head(request))
           \o (IF Tail(request) = <<>> THEN <<>> ELSE <<"pipe">>)
  /\ UNCHANGED <<targetVars, port, pipe, acks, asked, waiting, requests, tracerVars,
                 flowVars>>

\* the block dispatched for a byte starts
RunBlock ==
  /\ \E b \in Bytes :
       /\ NextEvent(b)
       /\ arg' = [arg EXCEPT !["mq"] = (b = "y")]
  /\ mq' = Tail(mq)
  /\ pc' = [pc EXCEPT !["mq"] = "suspendCheck"]
  /\ UNCHANGED <<targetVars, port, pipeVars, tracerVars, job>>

\* Slip: the block for 'n' does not stop the measurement.
BlockStats_OnlyStart ==
  /\ pc["mq"] = "stats" /\ alive
  /\ measuring' = (measuring \/ (susp = 0 /\ arg["mq"]))
  /\ Goto("mq", "ack")
  /\ UNCHANGED <<targetVars, port, pipeVars, mq, logVars, stepping, gtracer, written, tracer>>

\* `if (get_suspend_count(...) == 0 && [!]m_measuring_stats) start/stop`
BlockStats ==
  /\ pc["mq"] = "stats"
  /\ \/ /\ alive
        /\ IF susp = 0 THEN Measure(arg["mq"]) ELSE UNCHANGED measuring
        /\ Goto("mq", "ack")
        /\ UNCHANGED <<targetVars, port, pipeVars, mq, logVars, stepping, gtracer,
                       written, tracer>>
     \/ ~alive /\ Die("mach_failed")

\* Slip: no 'c' is written.
BlockAck_Silent ==
  /\ pc["mq"] = "ack"
  /\ Goto("mq", "idle")
  /\ UNCHANGED <<targetVars, port, pipeVars, mq, tracerVars>>

\* write(*m_tracer2target_fd, "c", 1)
BlockAck ==
  /\ pc["mq"] = "ack"
  /\ acks' = acks + 1
  /\ Goto("mq", "idle")
  /\ UNCHANGED <<targetVars, port, pipe, request, asked, waiting, requests, mq,
                 tracerVars>>

\* the process source's handler: `delete tracer_raw; exit(0)`
ProcExit ==
  /\ NextEvent("proc")
  /\ mq' = Tail(mq)
  /\ pc' = [pc EXCEPT !["mq"] = "dtorCheck"]
  /\ arg' = [arg EXCEPT !["mq"] = FALSE]
  /\ job' = [job EXCEPT !["mq"] = "dtor"]
  /\ UNCHANGED <<targetVars, port, pipeVars, tracerVars>>

-----------------------------------------------------------------------------
(* The target.                                                             *)

Runs(t) == alive /\ susp = 0 /\ t \in live /\ t \notin blocked

\* An armed thread completes one instruction: the kernel disarms it and sends
\* the exception to the port installed for EXC_BREAKPOINT.  The original port
\* of a process that is not debugged ends it with SIGTRAP.
Step(t) ==
  /\ Runs(t) /\ armed[t] /\ steps < MaxSteps
  /\ armed' = [armed EXCEPT ![t] = FALSE]
  /\ steps' = steps + 1
  /\ \/ /\ handler = "tracer"
        /\ blocked' = blocked \union {t}
        /\ port' = Append(port, t)
        /\ mq' = Fire("exc")
        /\ UNCHANGED alive
     \/ /\ handler = "orig"
        /\ alive' = FALSE
        /\ mq' = Fire("proc")
        /\ UNCHANGED <<blocked, port>>
  /\ UNCHANGED <<susp, live, taskArmed, handler, pipeVars, tracerVars, flowVars>>

\* pipe_set_single_step, up to the end of its write
PipeWrite(c, b) ==
  /\ pipe /\ Runs(c) /\ c \notin waiting /\ requests < MaxRequests
  /\ requests' = requests + 1
  /\ request' = Append(request, b)
  /\ asked' = [asked EXCEPT ![c] = b]
  /\ waiting' = waiting \union {c}
  /\ mq' = Fire("pipe")
  /\ UNCHANGED <<targetVars, port, pipe, acks, tracerVars, flowVars>>

\* pipe_set_single_step: read returns the 'c'
PipeRead(c) ==
  /\ Runs(c) /\ c \in waiting /\ acks > 0
  /\ acks' = acks - 1
  /\ waiting' = waiting \ {c}
  /\ UNCHANGED <<targetVars, port, pipe, request, asked, requests, mq, tracerVars,
                 flowVars>>

NewThread(t, u) ==
  /\ Runs(t) /\ t \notin waiting /\ u \notin live
  /\ live' = live \union {u}
  /\ armed' = [armed EXCEPT ![u] = taskArmed]
  /\ UNCHANGED <<alive, susp, taskArmed, blocked, handler, steps, port,
                 pipeVars, mq, tracerVars, flowVars>>

Exit(t) ==
  /\ MayExit /\ Runs(t) /\ t \notin waiting
  /\ alive' = FALSE
  /\ mq' = Fire("proc")
  /\ UNCHANGED <<susp, live, taskArmed, armed, blocked, handler, steps, port,
                 pipeVars, tracerVars, flowVars>>

-----------------------------------------------------------------------------
WorkerStep(w) ==
  \/ SuspendCheck(w) \/ Suspend(w) \/ Config(w) \/ ResumeCheck(w) \/ Resume(w)
  \/ SetFlag(w) \/ DtorCheck(w) \/ StopStats(w) \/ Write(w) \/ Destroy(w)

QueueStep ==
  \/ HandleException \/ ReadRequest \/ RunBlock \/ BlockStats \/ BlockAck
  \/ ProcExit

TargetStep ==
  \/ \E t \in Threads : Step(t) \/ Exit(t)
  \/ \E t, u \in Threads : NewThread(t, u)
  \/ \E c \in Controllers : PipeRead(c) \/ \E b \in Bytes : PipeWrite(c, b)

Next ==
  /\ tracer = "up"
  /\ \/ \E w \in Workers : WorkerStep(w)
     \/ QueueStep
     \/ Sigint
     \/ TargetStep

(***************************************************************************)
(* Fairness: the threads of the tracer are scheduled, its serial queue     *)
(* runs what it holds, and a read whose byte has arrived returns.  Nothing *)
(* is assumed of the target's own progress or of the user.                 *)
(***************************************************************************)
Fairness ==
  /\ \A w \in Workers : WF_vars(tracer = "up" /\ WorkerStep(w))
  /\ WF_vars(tracer = "up" /\ QueueStep)
  /\ \A c \in Controllers : WF_vars(tracer = "up" /\ PipeRead(c))

Spec == Init /\ [][Next]_vars /\ Fairness

-----------------------------------------------------------------------------
(* Properties.                                                             *)

\* Worker w is between the task_suspend and the task_resume of set_single_step.
Holding(w) == IF pc[w] \in {"config", "config2", "resumeCheck", "resume"} THEN 1 ELSE 0
\* The suspension the target starts with, which main's last resume() ends.
InitialHold == IF pc["main"] = "idle" THEN 0 ELSE 1
\* The destructor's resume() after SIGINT has no suspend() to match it.
ExtraResume == IF pc["sig"] = "destroy" THEN 1 ELSE 0

\* While tracer and target live, the target's suspend count is one for each
\* worker inside set_single_step, one until main's resume(), and one less after
\* the destructor's unmatched resume(): suspend() and resume() balance on every
\* path, so tracing never leaves the target frozen.
SuspendBalance ==
  alive /\ tracer = "up" =>
    susp + ExtraResume = InitialHold + Holding("main") + Holding("mq") + Holding("sig")

\* While the tracer receives the target's breakpoint exceptions, every thread that can
\* run, one created meanwhile included, is armed: no instruction goes untraced, although
\* two workers may be switching tracing on and off at the same time.  After SIGINT the
\* destructor's unmatched resume() may set the target going in the middle of a switch.
StepCoverage ==
  tracer = "up" /\ handler = "tracer" /\ pc["sig"] # "destroy" =>
    \A t \in Threads : Runs(t) => armed[t]

\* resume()'s mach_check (XNUTracer.cpp:317) fails only after TraceLog::write has
\* returned: no suspension or resumption of ordinary tracing ends the tracer without
\* meta.bin and the regions on disk.
ResumeFailsOnlyAfterWrite == tracer = "resume_failed" => written

\* Between two jobs of the tracer, on a live target, time and context switches
\* are being measured exactly when the target is being single-stepped.
StatsMatchStepping ==
  alive /\ tracer = "up" /\ (\A w \in Workers : pc[w] = "idle")
    => (measuring <=> stepping)

\* With one controller: after pipe_set_single_step returns, the tracer is in the
\* mode last asked for, and stays in it until the controller asks again or SIGINT
\* tears the tracer down.
AckMeansApplied ==
  \A c \in Controllers :
    pipe /\ alive /\ tracer = "up" /\ c \notin waiting
      /\ pc["main"] = "idle" /\ pc["sig"] = "idle" =>
      /\ stepping = (asked[c] = "y")
      /\ handler = (IF asked[c] = "y" THEN "tracer" ELSE "orig")
      /\ request = <<>> /\ acks = 0

\* A controller blocked in pipe_set_single_step is released, unless target or
\* tracer ends.
RequestAnswered ==
  \A c \in Controllers : c \in waiting ~> (c \notin waiting \/ ~alive \/ tracer # "up")

\* A thread that raised a step exception is resumed, unless target or tracer ends.
ExceptionAnswered ==
  \A t \in Threads : t \in blocked ~> (t \notin blocked \/ ~alive \/ tracer # "up")

\* When the target is gone, and not in the middle of a switch asked for over the
\* pipe, the tracer writes and closes its trace and exits 0.  There are three ways out:
\* SIGINT was deleting it at the same time; a step exception of one of the target's
\* threads was still queued, and arming that dead thread has failed the assert of
\* set_single_step_thread (mach.cpp:95); or the trace was not streamed and not empty, and
\* write() has failed the assert of front() (TraceLog.h:133) before writing anything.
ExitClosesTrace ==
  /\ ~alive /\ request = <<>> /\ ~Has(mq, "y") /\ ~Has(mq, "n")
  /\ \A w \in Workers : pc[w] = "idle"
  ~> \/ tracer = "exit0" /\ written
     \/ tracer = "assert_failed" /\ port # <<>>
     \/ tracer = "assert_failed" /\ ~stream /\ logs /\ ~written
     \/ pc["sig"] # "idle"

\* XNUTracer.cpp:200-202: dispatching the block "ensures we have handled all the
\* single-step exceptions before we uninstall our exception handler": once the
\* original handler is back, no step exception waits at the tracer's port (its
\* handling would arm the thread again, and the next step kill the target).
NoStrayStep ==
  alive /\ tracer = "up" /\ handler = "orig" => port = <<>>
=============================================================================
