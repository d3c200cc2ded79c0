------------------------------- MODULE MphMap -------------------------------
(***************************************************************************)
(* TraceLog::log(thread, context, insn) as FridaStalker's callbacks call   *)
(* it, from every followed thread and without a lock, and the mph_map      *)
(* (include/xnu-trace/MinimalPerfectHash.h) in which it keeps the threads' *)
(* contexts.  Every insertion rebuilds the perfect hash and permutes the   *)
(* entries in place.  The single-stepper calls log() from one queue, so    *)
(* its behaviours are those in which no two threads are inside.            *)
(*                                                                         *)
(* The hash is what MinimalPerfectHash promises and no more: any function  *)
(* that gives the present keys different slots, and any other key some     *)
(* slot.  The value of an entry is the set of messages written into its    *)
(* log buffer; a message is a thread and its number.  An access to the map *)
(* while another thread inserts is a data race, after which anything may   *)
(* happen: raced is then set and the behaviour is not followed further.    *)
(***************************************************************************)
EXTENDS Naturals, Sequences, FiniteSets

CONSTANTS
  Threads,
  MaxMsgs,  \* bound: messages a thread logs
  MaxTotal  \* bound: messages logged before the last one begins

ASSUME ConstantsAssumption == IsFiniteSet(Threads) /\ MaxMsgs \in Nat /\ MaxTotal \in Nat

VARIABLES
  kvs,     \* m_key_vals: entries [key, val], slot i at position i + 1
  mph,     \* m_mph, as the function it computes
  num_inst,  \* m_num_inst
  tpc,     \* where each thread is in log(), "out" if it is not inside
  tctx,    \* its local tctx, as a position of kvs
  tmp,     \* what it has read of m_num_inst in ++m_num_inst
  count,   \* messages each thread has logged
  crossed, \* history: some rebuild had a cycle of three or more entries
  shared,  \* history: two threads have been inside log() at the same time
  raced,   \* history: the map was used while a thread was inserting into it
  failed   \* "keys for MPH are not unique"

mapVars == <<kvs, mph, crossed, failed>>
vars == <<mapVars, num_inst, tpc, tctx, tmp, count, shared, raced>>

Entry == [key : Threads, val : SUBSET (Threads \X (1 .. MaxMsgs))]

TypeOK ==
  /\ kvs \in Seq(Entry)
  /\ kvs # <<>> => mph \in [Threads -> 1 .. Len(kvs)]
  /\ num_inst \in Nat /\ tmp \in [Threads -> Nat] /\ tctx \in [Threads -> Nat]
  /\ tpc \in [Threads -> {"out", "insert", "inserting", "write", "load", "store"}]
  /\ \A t \in Threads : tpc[t] = "write" => tctx[t] \in DOMAIN kvs
  /\ count \in [Threads -> 0 .. MaxMsgs]
  /\ crossed \in BOOLEAN /\ shared \in BOOLEAN /\ raced \in BOOLEAN /\ failed \in BOOLEAN

Init ==
  /\ kvs = <<>> /\ mph = <<>> /\ num_inst = 0 /\ count = [t \in Threads |-> 0]
  /\ tpc = [t \in Threads |-> "out"]
  /\ tctx = [t \in Threads |-> 0] /\ tmp = [t \in Threads |-> 0]
  /\ crossed = FALSE /\ shared = FALSE /\ raced = FALSE /\ failed = FALSE

-----------------------------------------------------------------------------
Keys(es) == {es[i].key : i \in DOMAIN es}

\* The hash functions build may leave for the keys of es (external contract:
\* MinimalPerfectHash!IsPerfect and StrangersInRange); positions are slots + 1.
Perfect(es) ==
  {f \in [Threads -> 1 .. Len(es)] :
     \A j, k \in Keys(es) : f[j] = f[k] => j = k}

\* contains
contains(t) == kvs # <<>> /\ kvs[mph[t]].key = t

\* permute follows each cycle of idx in place, holding the entry it started with: every
\* place i ends up with the entry that was at idx[i] (PermuteInPlace).
Permute(es, idx) == [i \in DOMAIN es |-> es[idx[i]]]

\* Slip: an entry whose place is taken before it has moved on is lost.
Rebuilt_NoHold(es, f) ==
  LET idx == [i \in DOMAIN es |-> f[es[i].key]] IN
  [i \in DOMAIN es |-> IF idx[i] < i THEN es[idx[idx[i]]] ELSE es[idx[i]]]

\* rebuild, with the hash f for the keys of es
Rebuilt(es, f) == Permute(es, [i \in DOMAIN es |-> f[es[i].key]])

\* Slip: the hash is the one from before the insertion.
Insert_OldHash(t, f) ==
  LET es == Append(kvs, [key |-> t, val |-> {}]) IN
  /\ kvs' = es
  /\ tctx' = [tctx EXCEPT ![t] = f[t]]
  /\ UNCHANGED <<mph, crossed>>

\* Slip: the entries stay where they were.
Insert_NoRebuild(t, f) ==
  LET es == Append(kvs, [key |-> t, val |-> {}]) IN
  /\ kvs' = es
  /\ mph' = f
  /\ tctx' = [tctx EXCEPT ![t] = f[t]]
  /\ UNCHANGED crossed

\* try_emplace of a thread that contains() does not find, with the hash f that build
\* arrives at
Insert(t, f) ==
  LET es == Append(kvs, [key |-> t, val |-> {}]) IN
  /\ kvs' = Rebuilt(es, f)
  /\ mph' = f
  /\ tctx' = [tctx EXCEPT ![t] = f[t]]
  /\ crossed' = (crossed \/ \E i \in DOMAIN es : f[es[f[es[i].key]].key] # i)

-----------------------------------------------------------------------------
(* log(thread, context, insn).                                             *)

Goto(t, label) == tpc' = [tpc EXCEPT ![t] = label]
Others(t, labels) == \E u \in Threads \ {t} : tpc[u] \in labels
Running == ~failed /\ ~raced
\* The messages logged so far, and their number
Logged == {m \in Threads \X (1 .. MaxMsgs) : m[2] <= count[m[1]]}
Total == Cardinality(Logged)

\* instruction_cb calls log(), which looks the thread up; a thread that is found
\* keeps a pointer to its entry.
Find(t) ==
  /\ Running /\ tpc[t] = "out" /\ count[t] < MaxMsgs /\ Total < MaxTotal
  /\ \/ /\ contains(t) /\ tctx' = [tctx EXCEPT ![t] = mph[t]]
        /\ Goto(t, "write")
     \/ ~contains(t) /\ Goto(t, "insert") /\ UNCHANGED tctx
  /\ shared' = (shared \/ \E u \in Threads : tpc[u] # "out")
  /\ raced' = Others(t, {"inserting"})
  /\ UNCHANGED <<mapVars, num_inst, tmp, count>>

\* try_emplace begins to change the map.
BeginInsert(t) ==
  /\ Running /\ tpc[t] = "insert"
  /\ Goto(t, "inserting")
  /\ raced' = Others(t, {"inserting", "write"})
  /\ UNCHANGED <<mapVars, num_inst, tctx, tmp, count, shared>>

\* try_emplace returns, or the assert in build fails.
EndInsert(t) ==
  /\ Running /\ tpc[t] = "inserting"
  /\ \/ /\ t \notin Keys(kvs)
        /\ \E f \in Perfect(Append(kvs, [key |-> t, val |-> {}])) : Insert(t, f)
        /\ Goto(t, "write")
        /\ UNCHANGED failed
     \/ /\ t \in Keys(kvs)
        /\ failed' = TRUE
        /\ kvs' = Append(kvs, [key |-> t, val |-> {}])
        /\ UNCHANGED <<mph, tctx, crossed, tpc>>
  /\ UNCHANGED <<num_inst, tmp, count, shared, raced>>

\* tctx->write_log_msg(context, insn)
WriteMsg(t) ==
  /\ Running /\ tpc[t] = "write"
  /\ kvs' = [kvs EXCEPT ![tctx[t]].val = @ \union {<<t, count[t] + 1>>}]
  /\ count' = [count EXCEPT ![t] = @ + 1]
  /\ Goto(t, "load")
  /\ UNCHANGED <<mph, crossed, failed, num_inst, tctx, tmp, shared, raced>>

\* ++m_num_inst reads ...
LoadCount(t) ==
  /\ Running /\ tpc[t] = "load"
  /\ tmp' = [tmp EXCEPT ![t] = num_inst]
  /\ Goto(t, "store")
  /\ UNCHANGED <<mapVars, num_inst, tctx, count, shared, raced>>

\* ... and writes, and log() returns.
StoreCount(t) ==
  /\ Running /\ tpc[t] = "store"
  /\ num_inst' = tmp[t] + 1
  /\ Goto(t, "out")
  /\ tmp' = [tmp EXCEPT ![t] = 0] /\ tctx' = [tctx EXCEPT ![t] = 0]
  /\ UNCHANGED <<mapVars, count, shared, raced>>

Next ==
  \E t \in Threads :
    \/ Find(t) \/ BeginInsert(t) \/ EndInsert(t) \/ WriteMsg(t)
    \/ LoadCount(t) \/ StoreCount(t)

Spec == Init /\ [][Next]_vars

-----------------------------------------------------------------------------
(* Properties.                                                             *)

\* No rebuild and no concurrent call of log() loses, repeats or splits a log: however
\* often the entries were permuted, there is one entry per thread and every message
\* is in exactly one of them.  m_num_inst, which is not atomic, never counts too many,
\* and counts all when no two threads were ever inside.
MessagesKept ==
  Running =>
    /\ Cardinality(Keys(kvs)) = Len(kvs)
    /\ \A t \in Threads : count[t] > 0 => t \in Keys(kvs)
    /\ \A t \in Threads, c \in 1 .. MaxMsgs :
         Cardinality({i \in DOMAIN kvs : <<t, c>> \in kvs[i].val})
           = IF c <= count[t] THEN 1 ELSE 0
    /\ num_inst <= Total
    /\ ~shared /\ (\A t \in Threads : tpc[t] = "out") => num_inst = Total

\* As long as every rebuild only had to exchange pairs of entries, and no insertion
\* overlapped another use of the map, each thread that has logged is found and its
\* entry holds its own messages, all of them and no other thread's, although other
\* threads log at the same time and have moved it in between.
OwnLog ==
  ~crossed /\ ~raced =>
    \A t \in Threads : count[t] > 0 =>
      contains(t) /\ kvs[mph[t]].val = {t} \X (1 .. count[t])

\* MinimalPerfectHash.cpp:74: assert(... && "keys for MPH are not unique").
\* permute takes new_idx[i] for the place entry i comes from, rebuild fills it with
\* the place entry i goes to.
KeysAreUnique == ~failed
=============================================================================
