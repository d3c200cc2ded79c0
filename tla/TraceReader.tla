---------------------------- MODULE TraceReader -----------------------------
(***************************************************************************)
(* Reading back the log of a thread that TraceStream writes:               *)
(* extract_pcs_from_trace over log_thread_buf's iterators, and             *)
(* extract_bbs_from_pc_trace over what it returns                          *)
(* (lib/xnu-trace/TraceLog.cpp, TraceLog.h, log_structs.cpp).  A step is   *)
(* one turn of their loops.                                                *)
(*                                                                         *)
(* The program reads from the front, and nothing but a log that begins     *)
(* with a sync frame.  A sync frame is where reading may also begin, which *)
(* chunk_into_bins looks for, so any of them is taken.                     *)
(***************************************************************************)
EXTENDS TraceStream, BasicBlocks

CONSTANT
  Junk    \* what lies on the stack above a parameter: no value of a register

ASSUME JunkAssumption == Junk \notin Vals /\ Junk \notin Nat

VARIABLES
  phase,  \* "log"; "pcs" and "bbs" inside the two functions; "done"; "failed"
  from,   \* the sync frame reading begins at
  it,     \* the iterator: m_ptr as a position, m_pc and m_ctx
  pcs,    \* extract_pcs_from_trace's pcs
  acc,    \* extract_bbs_from_pc_trace's bbs, bb_start and last_pc
  taken   \* the pcs it has looked at

readerVars == <<phase, from, it, pcs, acc, taken>>
allVars == <<vars, readerVars>>

ReaderInit ==
  /\ Init
  /\ phase = "log" /\ from = 0 /\ it = <<>> /\ pcs = <<>> /\ acc = <<>> /\ taken = 0

\* The tracer logs.
Log == phase = "log" /\ Next /\ UNCHANGED readerVars

-----------------------------------------------------------------------------
(* The iterators.  Len(buf) + 1 is end().                                  *)

\* log_arm64_cpu_context::update
Update(ctx, m) ==
  IF m.sync THEN m.ctx
  ELSE [pc   |-> IF m.pc # <<>> THEN m.pc[1] ELSE ctx.pc,
        sp   |-> IF m.sp # <<>> THEN m.sp[1] ELSE ctx.sp,
        nzcv |-> ctx.nzcv,
        x    |-> [r \in X |-> IF r \in DOMAIN m.x THEN m.x[r] ELSE ctx.x[r]],
        v    |-> [r \in V |-> IF r \in DOMAIN m.v THEN m.v[r] ELSE ctx.v[r]]]

\* iterator::operator++
Advance(i) == IF i + 1 <= Len(buf) /\ buf[i + 1].sync THEN i + 2 ELSE i + 1

\* operator++ of pc_iterator and ctx_iterator.  The step onto end() also reads a message
\* there, past the buffer; what it makes of it is never used.
Increment ==
  LET j == Advance(it.at) IN
  IF j > Len(buf) THEN [it EXCEPT !.at = j]
  ELSE [at   |-> j,
        pc   |-> IF buf[j].pc # <<>> THEN buf[j].pc[1] ELSE it.pc + 4,
        ctx  |-> Update(it.ctx, buf[j])]

\* The constructors of ctx_iterator copy from &ctx, the address of their parameter and
\* not the context it points to.  The iterator only copies values, so one stands for
\* whatever is there.
StackJunk ==
  [pc |-> Junk, sp |-> Junk, nzcv |-> Junk, x |-> [r \in X |-> Junk], v |-> [r \in V |-> Junk]]

\* pcs_begin and ctx_begin, with front() for i = 1.  The log of a tracer that has failed
\* an assert is not read (TraceBundle).
Begin(i) ==
  /\ phase = "log" /\ ~failed /\ i \in SyncPoints
  /\ phase' = "pcs" /\ from' = i
  /\ it' = [at |-> i, pc |-> buf[i].ctx.pc, ctx |-> StackJunk]
  /\ UNCHANGED <<vars, pcs, acc, taken>>

\* front() fails its assert.
FrontFails ==
  /\ phase = "log" /\ ~failed /\ buf # <<>> /\ ~buf[1].sync
  /\ phase' = "failed"
  /\ UNCHANGED <<vars, from, it, pcs, acc, taken>>

-----------------------------------------------------------------------------
(* The two functions.                                                      *)

\* A turn of extract_pcs_from_trace
ReadPc ==
  /\ phase = "pcs" /\ it.at <= Len(buf)
  /\ pcs' = Append(pcs, it.pc) /\ it' = Increment
  /\ UNCHANGED <<vars, phase, from, acc, taken>>

\* Its end, and the first round of extract_bbs_from_pc_trace
StartBlocks ==
  /\ phase = "pcs" /\ it.at > Len(buf)
  /\ phase' = "bbs" /\ acc' = FirstRound(pcs) /\ taken' = 1
  /\ UNCHANGED <<vars, from, it, pcs>>

\* A turn of extract_bbs_from_pc_trace
ExtendBlocks ==
  /\ phase = "bbs" /\ taken < Len(pcs)
  /\ acc' = Round(acc, pcs[taken + 1]) /\ taken' = taken + 1
  /\ UNCHANGED <<vars, phase, from, it, pcs>>

FinishBlocks ==
  /\ phase = "bbs" /\ taken = Len(pcs)
  /\ acc' = [acc EXCEPT !.bbs = AfterLoop(acc)] /\ phase' = "done"
  /\ UNCHANGED <<vars, from, it, pcs, taken>>

ReaderNext ==
  \/ Log \/ FrontFails \/ \E i \in DOMAIN buf : Begin(i)
  \/ ReadPc \/ StartBlocks \/ ExtendBlocks \/ FinishBlocks

ReaderSpec == ReaderInit /\ [][ReaderNext]_allVars

-----------------------------------------------------------------------------
(* Properties.                                                             *)

LoggedPcs == [k \in DOMAIN logged |-> logged[k].pc]
\* The iterator stands on a message.
OnMessage == phase = "pcs" /\ it.at <= Len(buf)
\* The instructions whose messages it has been moved onto
Visited == buf[from].n + 1 .. Ordinary(it.at)

\* Reading a log of contexts gives the logged program counters in order.  From the front,
\* the first of them comes twice (the sync frame repeats it); from any other sync frame,
\* the instruction before the frame and then exactly the rest of the trace.
PcsReadBack ==
  phase \in {"pcs", "bbs", "done"} =>
    LET n == buf[from].n
        all == <<Prior(n + 1).pc>> \o SubSeq(LoggedPcs, n + 1, Len(logged))
    IN pcs = IF OnMessage THEN SubSeq(all, 1, Len(pcs)) ELSE all

\* What a ctx_iterator shows on a message: a register that has changed since the start
\* has the value it had at the instruction this message stands for, although each message
\* holds only differences, later sync frames are passed over and an unfollowed stretch
\* may lie between two messages.  All others, and always nzcv, are what the constructor
\* found on the stack: the context of the sync frame is not used.
RegistersReadBack ==
  OnMessage =>
    LET now == logged[Ordinary(it.at)]
    IN /\ it.ctx.sp = IF \E k \in Visited : logged[k].sp # Prior(k).sp THEN now.sp ELSE Junk
       /\ it.ctx.nzcv = Junk
       /\ \A r \in X : it.ctx.x[r] =
            IF \E k \in Visited : logged[k].x[r] # Prior(k).x[r] THEN now.x[r] ELSE Junk
       /\ \A r \in V : it.ctx.v[r] =
            IF \E k \in Visited : logged[k].v[r] # Prior(k).v[r] THEN now.v[r] ELSE Junk

\* The basic blocks of a trace cover no address that was not executed, and miss
\* none but the last instruction when that is a block of its own.
BlocksCoverTrace ==
  phase = "done" =>
    LET covered == UNION {{acc.bbs[k].pc + 4 * n : n \in 0 .. (acc.bbs[k].sz \div 4) - 1}
                           : k \in DOMAIN acc.bbs}
    IN /\ covered \subseteq ToSet(pcs)
       /\ ToSet(pcs) \ covered \subseteq {pcs[Len(pcs)]}
=============================================================================
