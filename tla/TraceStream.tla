---------------------------- MODULE TraceStream -----------------------------
(***************************************************************************)
(* The log of one traced thread: TraceLog::log and thread_ctx, which write *)
(* an instruction as the difference from the one before and, every         *)
(* sync_every bytes, a sync frame with a full context                      *)
(* (lib/xnu-trace/TraceLog.cpp, TraceLog.h, log_structs.h).  TraceReader   *)
(* reads it back.                                                          *)
(*                                                                         *)
(* A message is a record instead of bytes; its size in bytes is kept       *)
(* because the sync frames depend on it.  Registers that changed are a     *)
(* partial function.  Frida logs whole contexts, the single-stepper only   *)
(* program counters.                                                       *)
(***************************************************************************)
EXTENDS Naturals, Sequences, FiniteSets

CONSTANTS
  Pcs,         \* program counters that occur (multiples of 4)
  X, V,        \* the general purpose registers, the vector registers
  Vals,        \* values of registers
  MaxChanged,  \* rpc_num_changed_max
  SyncEvery,   \* TraceLog::sync_every
  MaxInst,     \* bound: instructions logged with their contexts
  MaxPcs       \* bound: instructions logged as program counters

ASSUME ConstantsAssumption ==
  /\ Pcs \subseteq Nat /\ Vals # {} /\ IsFiniteSet(X) /\ IsFiniteSet(V)
  /\ MaxChanged \in Nat /\ SyncEvery \in Nat /\ MaxInst \in Nat /\ MaxPcs \in Nat

VARIABLES
  whole,     \* the tracer logs by log(thread, context, insn), else log(thread, pc)
  buf,       \* log_buf: the messages in order
  last,      \* last_cpu_ctx
  numInst,   \* num_inst
  sinceSync, \* sz_since_last_sync
  failed,    \* an assert of write_log_msg has failed
  gap,       \* the thread has run untraced since the last message
  logged     \* what the caller passed to log(), for the properties

vars == <<whole, buf, last, numInst, sinceSync, failed, gap, logged>>

\* log_arm64_cpu_context.  No message has a place for nzcv; only sync frames hold it.
Context == [pc : Pcs, sp : Vals, nzcv : Vals, x : [X -> Vals], v : [V -> Vals]]

TypeOK ==
  /\ logged \in Seq(Context) /\ numInst \in Nat /\ sinceSync \in Nat
  /\ logged # <<>> => last \in Context
  /\ whole \in BOOLEAN /\ failed \in BOOLEAN /\ gap \in BOOLEAN

Init ==
  /\ whole \in BOOLEAN
  /\ buf = <<>> /\ numInst = 0 /\ failed = FALSE /\ gap = TRUE
  /\ last = <<>>                       \* no thread_ctx yet
  /\ sinceSync = SyncEvery + 1
  /\ logged = <<>>

-----------------------------------------------------------------------------
(* Messages.                                                               *)

Changed(new, old) == {r \in DOMAIN new : new[r] # old[r]}

\* Slip: an instruction that branches to itself is taken for an unchanged pc.
DeltaMsg_SamePc(old, new) ==
  [sync |-> FALSE,
   pc   |-> IF new.pc \in {old.pc, old.pc + 4} THEN <<>> ELSE <<new.pc>>,
   sp   |-> IF new.sp = old.sp THEN <<>> ELSE <<new.sp>>,
   x    |-> [r \in Changed(new.x, old.x) |-> new.x[r]],
   v    |-> [r \in Changed(new.v, old.v) |-> new.v[r]]]

\* Slip: changed vector registers are not written.
DeltaMsg_NoVectors(old, new) ==
  [sync |-> FALSE,
   pc   |-> IF new.pc = old.pc + 4 THEN <<>> ELSE <<new.pc>>,
   sp   |-> IF new.sp = old.sp THEN <<>> ELSE <<new.sp>>,
   x    |-> [r \in Changed(new.x, old.x) |-> new.x[r]],
   v    |-> [r \in {} |-> new.v[r]]]

\* The message write_log_msg(ctx) builds from the context before.
DeltaMsg(old, new) ==
  [sync |-> FALSE,
   pc   |-> IF new.pc = old.pc + 4 THEN <<>> ELSE <<new.pc>>,
   sp   |-> IF new.sp = old.sp THEN <<>> ELSE <<new.sp>>,
   x    |-> [r \in Changed(new.x, old.x) |-> new.x[r]],
   v    |-> [r \in Changed(new.v, old.v) |-> new.v[r]]]

SyncMsg(n, ctx) == [sync |-> TRUE, n |-> n, ctx |-> ctx]

\* log_msg::size of a message that is not a sync frame
Size(m) == 8 + 8 * Len(m.pc) + 8 * Len(m.sp) + 8 * Cardinality(DOMAIN m.x)
             + 16 * Cardinality(DOMAIN m.v)

-----------------------------------------------------------------------------
(* The writer.                                                             *)

\* A new thread_ctx starts from the context being logged.
Before(ctx) == IF last = <<>> THEN ctx ELSE last

Fits(ctx) ==
  /\ Cardinality(Changed(ctx.x, Before(ctx).x)) <= MaxChanged
  /\ Cardinality(Changed(ctx.v, Before(ctx).v)) <= MaxChanged

\* Slip: the frame holds the context being logged, not the one before.
Synced_New(ctx) ==
  IF sinceSync >= SyncEvery THEN <<SyncMsg(numInst, ctx)>> ELSE <<>>

\* write_sync, when it is due
Synced(ctx) ==
  IF sinceSync >= SyncEvery THEN <<SyncMsg(numInst, Before(ctx))>> ELSE <<>>

\* Slip: last_cpu_ctx is not set.
LogContext_Forget(ctx) ==
  /\ whole /\ ~failed /\ numInst < MaxInst
  /\ buf' = buf \o Synced(ctx) \o <<DeltaMsg(Before(ctx), ctx)>>
  /\ numInst' = numInst + 1
  /\ logged' = Append(logged, ctx)
  /\ gap' = FALSE
  /\ UNCHANGED <<whole, last, sinceSync, failed>>

\* log(thread, context, insn).  An instruction changes at most MaxChanged
\* registers of a kind; what ran while the thread was not followed, any number.
LogContext(ctx) ==
  /\ whole /\ ~failed /\ numInst < MaxInst
  /\ ~gap => Fits(ctx)
  /\ gap' = FALSE /\ UNCHANGED whole
  /\ LET msg == DeltaMsg(Before(ctx), ctx) IN
     \/ /\ Fits(ctx)
        /\ buf' = buf \o Synced(ctx) \o <<msg>>
        /\ sinceSync' = (IF sinceSync >= SyncEvery THEN 0 ELSE sinceSync) + Size(msg)
        /\ last' = ctx
        /\ numInst' = numInst + 1
        /\ logged' = Append(logged, ctx)
        /\ UNCHANGED failed
     \/ /\ ~Fits(ctx)
        /\ failed' = TRUE
        /\ buf' = buf \o Synced(ctx)
        /\ sinceSync' = IF sinceSync >= SyncEvery THEN 0 ELSE sinceSync
        /\ UNCHANGED <<last, numInst, logged>>

\* log_arm64_cpu_context{.pc = pc}: the other registers are zero, and stay so.
PcOnly(pc) ==
  LET zero == CHOOSE z \in Vals : TRUE
  IN [pc |-> pc, sp |-> zero, nzcv |-> zero, x |-> [r \in X |-> zero], v |-> [r \in V |-> zero]]

\* log(thread, pc).  No sync frame is ever written.
LogPc(pc) ==
  /\ ~whole /\ numInst < MaxPcs
  /\ LET ctx == PcOnly(pc) IN
        /\ buf' = Append(buf, DeltaMsg(Before(ctx), ctx))
        /\ last' = ctx
        /\ logged' = Append(logged, ctx)
  /\ numInst' = numInst + 1
  /\ UNCHANGED <<whole, sinceSync, failed, gap>>

\* FridaStalker::unfollow, some untraced execution, FridaStalker::follow
Unfollow ==
  /\ whole /\ ~failed /\ ~gap
  /\ gap' = TRUE
  /\ UNCHANGED <<whole, buf, last, numInst, sinceSync, failed, logged>>

Next ==
  \/ \E ctx \in Context : LogContext(ctx)
  \/ \E pc \in Pcs : LogPc(pc)
  \/ Unfollow

Spec == Init /\ [][Next]_vars

-----------------------------------------------------------------------------
(* Properties.                                                             *)

SyncPoints == {i \in DOMAIN buf : buf[i].sync}
\* The messages up to position i that stand for an instruction
Ordinary(i) == Cardinality({j \in 1 .. i : ~buf[j].sync})
\* The context that the k-th such message is a difference from
Prior(k) == logged[IF k <= 1 THEN 1 ELSE k - 1]

\* The log of a stalker's thread begins with a sync frame, which front() asserts
\* (TraceLog.h:133), and reading may begin at any of them: it is followed by an ordinary
\* message, its num_inst counts the instructions before it, and the whole context in it
\* is the one the next message is a difference from, also where a stretch ran untraced.
SyncPointsAreEntries ==
  /\ whole /\ buf # <<>> => 1 \in SyncPoints
  /\ \A i \in SyncPoints :
       /\ ~failed => i < Len(buf) /\ ~buf[i + 1].sync
       /\ buf[i].n = Ordinary(i)
       /\ buf[i].ctx = Prior(buf[i].n + 1)
=============================================================================
