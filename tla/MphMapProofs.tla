---------------------------- MODULE MphMapProofs ----------------------------
(***************************************************************************)
(* Proofs about MphMap, for any threads and numbers of messages.  A        *)
(* perfect hash on the keys of the entries is a permutation of their       *)
(* places, so no rebuild loses or doubles an entry; one that is its own    *)
(* inverse also brings every entry where the hash looks for it.            *)
(***************************************************************************)
EXTENDS MphMap, FiniteSetTheorems, TLAPS

\* No two entries have the same key.
Distinct(es) == \A i, j \in DOMAIN es : es[i].key = es[j].key => i = j

\* A thread that is about to write a message has one left to write.
Starting == \A t \in Threads : tpc[t] \in {"insert", "inserting", "write"} => count[t] < MaxMsgs

\* While a thread inserts, no other one inserts or holds a pointer into the map.
Alone ==
  ~raced => \A t, u \in Threads :
              t # u /\ tpc[t] = "inserting" => tpc[u] \notin {"inserting", "write"}

\* Message c of t is in exactly one entry once it is logged, and in none before.
InOneEntry(t, c) ==
  /\ c <= count[t] => \E i \in DOMAIN kvs : <<t, c>> \in kvs[i].val
  /\ c > count[t] => \A i \in DOMAIN kvs : <<t, c>> \notin kvs[i].val
  /\ \A i, j \in DOMAIN kvs : <<t, c>> \in kvs[i].val /\ <<t, c>> \in kvs[j].val => i = j

LogsKept ==
  Running =>
    /\ Distinct(kvs)
    /\ \A t \in Threads : count[t] > 0 \/ tpc[t] = "write" => t \in Keys(kvs)
    /\ \A t \in Threads, c \in 1 .. MaxMsgs : InOneEntry(t, c)

\* The threads that have written a message m_num_inst does not count yet
Uncounted == {t \in Threads : tpc[t] \in {"load", "store"}}

\* What a thread has read of m_num_inst allows for every thread that has not counted.
Counting ==
  /\ num_inst + Cardinality(Uncounted) <= Total
  /\ \A t \in Threads : tpc[t] = "store" => tmp[t] + Cardinality(Uncounted) <= Total

CountingAlone ==
  ~shared =>
    /\ \A t, u \in Threads : tpc[t] # "out" /\ tpc[u] # "out" => t = u
    /\ num_inst + Cardinality(Uncounted) = Total
    /\ \A t \in Threads : tpc[t] = "store" => tmp[t] = num_inst

\* While rebuilds only exchange pairs, every entry is where the hash looks for it and
\* holds its own thread's messages, and no thread is inserted twice.
Owned ==
  ~crossed /\ ~raced =>
    /\ ~failed
    /\ \A i \in DOMAIN kvs : /\ mph[kvs[i].key] = i
                             /\ kvs[i].val = {kvs[i].key} \X (1 .. count[kvs[i].key])
    /\ \A t \in Threads :
         /\ tpc[t] \in {"insert", "inserting"} => t \notin Keys(kvs)
         /\ count[t] > 0 \/ tpc[t] = "write" => t \in Keys(kvs)
         /\ tpc[t] = "write" => tctx[t] = mph[t]

Inv == TypeOK /\ Starting /\ Alone

-----------------------------------------------------------------------------
(* Rebuilding.                                                             *)

\* The entries with a new one for t at the end
Grown(t) == Append(kvs, [key |-> t, val |-> {}])

\* An entry of a sequence of entries has a thread for its key.
LEMMA EntryKey ==
  ASSUME NEW es \in Seq(Entry), NEW i \in DOMAIN es
  PROVE  es[i] \in Entry /\ es[i].key \in Threads /\ es[i].key \in Keys(es)
<1>1. es[i] \in Entry
  OBVIOUS
<1> QED BY <1>1 DEF Entry, Keys

LEMMA GrownBy ==
  ASSUME TypeOK, NEW t \in Threads
  PROVE  /\ Grown(t) \in Seq(Entry) /\ Len(Grown(t)) = Len(kvs) + 1
         /\ Len(kvs) \in Nat /\ DOMAIN kvs = 1 .. Len(kvs) /\ DOMAIN Grown(t) = 1 .. Len(kvs) + 1
         /\ \A i \in DOMAIN kvs : Grown(t)[i] = kvs[i]
         /\ Grown(t)[Len(kvs) + 1].key = t /\ Grown(t)[Len(kvs) + 1].val = {}
         /\ \A i \in DOMAIN kvs : kvs[i] \in Entry /\ kvs[i].key \in Threads
<1>1. [key |-> t, val |-> {}] \in Entry
  BY DEF Entry
<1>2. kvs \in Seq(Entry)
  BY DEF TypeOK
<1>3. \A i \in DOMAIN kvs : kvs[i] \in Entry /\ kvs[i].key \in Threads
  BY <1>2, EntryKey
<1> QED BY <1>1, <1>2, <1>3 DEF Grown

LEMMA GrownKeys ==
  ASSUME TypeOK, NEW t \in Threads
  PROVE  /\ Keys(Grown(t)) = Keys(kvs) \union {t}
         /\ Distinct(kvs) /\ t \notin Keys(kvs) => Distinct(Grown(t))
<1>1. Keys(Grown(t)) = Keys(kvs) \union {t}
  <2>1. ASSUME NEW k \in Keys(Grown(t)) PROVE k \in Keys(kvs) \union {t}
    <3>1. PICK i \in DOMAIN Grown(t) : k = Grown(t)[i].key
      BY <2>1 DEF Keys
    <3>2. i \in DOMAIN kvs \/ i = Len(kvs) + 1
      BY GrownBy
    <3> QED BY <3>1, <3>2, GrownBy DEF Keys
  <2>2. ASSUME NEW k \in Keys(kvs) PROVE k \in Keys(Grown(t))
    <3>1. PICK i \in DOMAIN kvs : k = kvs[i].key
      BY <2>2 DEF Keys
    <3>2. i \in DOMAIN Grown(t) /\ Grown(t)[i].key = k
      BY <3>1, GrownBy
    <3> QED BY <3>2 DEF Keys
  <2>3. t \in Keys(Grown(t))
    <3>1. Len(kvs) + 1 \in DOMAIN Grown(t)
      BY GrownBy
    <3> QED BY <3>1, GrownBy DEF Keys
  <2> QED BY <2>1, <2>2, <2>3
<1>2. ASSUME Distinct(kvs), t \notin Keys(kvs), NEW i \in DOMAIN Grown(t), NEW j \in DOMAIN Grown(t),
             Grown(t)[i].key = Grown(t)[j].key
      PROVE  i = j
  <2>1. /\ i \in DOMAIN kvs \/ i = Len(kvs) + 1
        /\ j \in DOMAIN kvs \/ j = Len(kvs) + 1
    BY GrownBy
  <2>2. \A k \in DOMAIN kvs : kvs[k].key # t
    BY <1>2 DEF Keys
  <2> QED BY <1>2, <2>1, <2>2, GrownBy DEF Distinct
<1> QED BY <1>1, <1>2 DEF Distinct

\* The places rebuild computes for the entries are a permutation, and the entries
\* afterwards are those before.
LEMMA Permutes ==
  ASSUME NEW es \in Seq(Entry), NEW f \in Perfect(es), Distinct(es)
  PROVE  /\ \A i \in DOMAIN es : f[es[i].key] \in DOMAIN es
         /\ \A i, j \in DOMAIN es : f[es[i].key] = f[es[j].key] => i = j
         /\ \A j \in DOMAIN es : \E i \in DOMAIN es : f[es[i].key] = j
<1> DEFINE D == DOMAIN es
           g == [i \in D |-> f[es[i].key]]
<1>0. D = 1 .. Len(es) /\ Len(es) \in Nat
  OBVIOUS
<1>1. \A i \in D : es[i].key \in Threads /\ es[i].key \in Keys(es)
  BY EntryKey
<1>2. /\ f \in [Threads -> D]
      /\ \A j, k \in Keys(es) : f[j] = f[k] => j = k
  BY <1>0 DEF Perfect
<1>3. \A i, j \in D : f[es[i].key] = f[es[j].key] => i = j
  BY <1>1, <1>2 DEF Distinct
<1>4. g \in Injection(D, D)
  BY <1>1, <1>2, <1>3 DEF Injection, IsInjective
<1>5. IsFiniteSet(D)
  BY <1>0, FS_Interval
<1>6. g \in Surjection(D, D)
  BY <1>4, <1>5, FS_Injection
<1> QED BY <1>1, <1>2, <1>3, <1>6 DEF Surjection

LEMMA RebuiltEntries ==
  ASSUME NEW es \in Seq(Entry), NEW f \in Perfect(es)
  PROVE  /\ Rebuilt(es, f) \in Seq(Entry) /\ Len(Rebuilt(es, f)) = Len(es)
         /\ DOMAIN Rebuilt(es, f) = DOMAIN es
         /\ \A i \in DOMAIN es : Rebuilt(es, f)[i] = es[f[es[i].key]]
<1>1. DOMAIN es = 1 .. Len(es) /\ Len(es) \in Nat
  OBVIOUS
<1>2. \A i \in DOMAIN es : es[i] \in Entry /\ es[i].key \in Threads
  BY EntryKey
<1>3. \A i \in DOMAIN es : f[es[i].key] \in DOMAIN es
  BY <1>1, <1>2 DEF Perfect
<1>4. Rebuilt(es, f) = [i \in 1 .. Len(es) |-> es[f[es[i].key]]]
  BY <1>1 DEF Rebuilt, Permute
<1> QED BY <1>1, <1>2, <1>3, <1>4

\* Every entry is still there, once.
LEMMA RebuiltKeeps ==
  ASSUME NEW es \in Seq(Entry), NEW f \in Perfect(es), Distinct(es)
  PROVE  Distinct(Rebuilt(es, f)) /\ Keys(Rebuilt(es, f)) = Keys(es)
<1> DEFINE g(i) == f[es[i].key]
           rs == Rebuilt(es, f)
<1>1. DOMAIN rs = DOMAIN es /\ \A i \in DOMAIN es : rs[i] = es[g(i)]
  BY RebuiltEntries
<1>2. /\ \A i \in DOMAIN es : g(i) \in DOMAIN es
      /\ \A i, j \in DOMAIN es : g(i) = g(j) => i = j
      /\ \A j \in DOMAIN es : \E i \in DOMAIN es : g(i) = j
  BY Permutes
<1> HIDE DEF g, rs
<1>3. Distinct(rs)
  <2> SUFFICES ASSUME NEW i \in DOMAIN es, NEW j \in DOMAIN es, es[g(i)].key = es[g(j)].key
               PROVE  i = j
    BY <1>1 DEF Distinct
  <2>1. g(i) \in DOMAIN es /\ g(j) \in DOMAIN es
    BY <1>2
  <2>2. g(i) = g(j)
    BY <2>1 DEF Distinct
  <2> QED BY <1>2, <2>2
<1>4. Keys(rs) = Keys(es)
  BY <1>1, <1>2 DEF Keys
<1> QED BY <1>3, <1>4 DEF rs

-----------------------------------------------------------------------------
(* Types, and who may be inside the map together.                          *)

LEMMA InitInv == Init => Inv
<1> SUFFICES ASSUME Init PROVE Inv
  OBVIOUS
<1>1. /\ crossed \in BOOLEAN /\ shared \in BOOLEAN /\ raced \in BOOLEAN /\ failed \in BOOLEAN
  BY Zenon DEF Init
<1>2. /\ kvs \in Seq(Entry) /\ kvs = <<>> /\ num_inst \in Nat /\ tmp \in [Threads -> Nat]
      /\ tctx \in [Threads -> Nat]
      /\ tpc \in [Threads -> {"out", "insert", "inserting", "write", "load", "store"}]
      /\ count \in [Threads -> 0 .. MaxMsgs] /\ \A t \in Threads : tpc[t] = "out"
  BY ConstantsAssumption DEF ConstantsAssumption, Init
<1> QED BY <1>1, <1>2 DEF Inv, TypeOK, Starting, Alone

LEMMA FindInv == ASSUME Inv, NEW t \in Threads, Find(t) PROVE Inv'
<1>1. shared' \in BOOLEAN /\ raced' \in BOOLEAN
  BY Zenon DEF Find, Others
<1>2. CASE contains(t) /\ tctx' = [tctx EXCEPT ![t] = mph[t]] /\ Goto(t, "write")
  <2>1. mph[t] \in DOMAIN kvs /\ mph[t] \in Nat
    BY <1>2 DEF contains, Inv, TypeOK
  <2>2. TypeOK'
    <3>1. ASSUME NEW u \in Threads, tpc'[u] = "write" PROVE tctx'[u] \in DOMAIN kvs
      BY <1>2, <2>1, <3>1 DEF Goto, Inv, TypeOK
    <3> QED BY <1>1, <1>2, <2>1, <3>1 DEF Find, Goto, Inv, TypeOK, mapVars
  <2> QED BY <1>2, <2>2 DEF Inv, TypeOK, Starting, Alone, Find, Goto, Others, mapVars
<1>3. CASE ~contains(t) /\ Goto(t, "insert") /\ UNCHANGED tctx
  <2>1. TypeOK'
    BY <1>1, <1>3 DEF Find, Goto, Inv, TypeOK, mapVars
  <2> QED BY <1>3, <2>1 DEF Inv, TypeOK, Starting, Alone, Find, Goto, Others, mapVars
<1> QED BY <1>2, <1>3 DEF Find

LEMMA EndInsertInv == ASSUME Inv, NEW t \in Threads, EndInsert(t) PROVE Inv'
<1>0. TypeOK /\ tpc[t] = "inserting" /\ UNCHANGED <<num_inst, tmp, count, shared, raced>>
  BY DEF EndInsert, Inv
<1>1. ASSUME t \notin Keys(kvs), NEW f \in Perfect(Grown(t)), Insert(t, f), Goto(t, "write"),
             UNCHANGED failed
      PROVE  Inv'
  <2>1. /\ kvs' = Rebuilt(Grown(t), f) /\ mph' = f /\ tctx' = [tctx EXCEPT ![t] = f[t]]
        /\ tpc' = [tpc EXCEPT ![t] = "write"]
    BY <1>1 DEF Insert, Grown, Goto
  <2>2. crossed' \in BOOLEAN
    BY <1>1, Zenon DEF Insert, Inv, TypeOK
  <2>3. /\ kvs' \in Seq(Entry) /\ Len(kvs') = Len(kvs) + 1 /\ Len(kvs) \in Nat
        /\ DOMAIN kvs' = 1 .. Len(kvs) + 1 /\ DOMAIN kvs = 1 .. Len(kvs)
    BY <1>0, <2>1, GrownBy, RebuiltEntries
  <2>4. f \in [Threads -> 1 .. Len(kvs')]
    BY <1>0, <2>3, GrownBy DEF Perfect
  <2>5. f[t] \in DOMAIN kvs' /\ f[t] \in Nat
    BY <2>3, <2>4
  <2>6. ASSUME NEW u \in Threads, tpc'[u] = "write" PROVE tctx'[u] \in DOMAIN kvs'
    <3>1. CASE u = t
      BY <1>0, <2>1, <2>5, <3>1 DEF TypeOK
    <3>2. CASE u # t
      BY <1>0, <2>1, <2>3, <2>6, <3>2 DEF TypeOK
    <3> QED BY <3>1, <3>2
  <2>7. TypeOK'
    BY <1>0, <1>1, <2>1, <2>2, <2>3, <2>4, <2>5, <2>6 DEF TypeOK
  <2>8. Starting' /\ Alone'
    BY <1>0, <2>1 DEF TypeOK, Inv, Starting, Alone
  <2> QED BY <2>7, <2>8 DEF Inv
<1>2. ASSUME t \in Keys(kvs), failed' = TRUE, kvs' = Grown(t), UNCHANGED <<mph, tctx, crossed, tpc>>
      PROVE  Inv'
  <2>1. /\ kvs' \in Seq(Entry) /\ Len(kvs') = Len(kvs) + 1 /\ Len(kvs) \in Nat
        /\ DOMAIN kvs' = 1 .. Len(kvs) + 1 /\ DOMAIN kvs = 1 .. Len(kvs)
    BY <1>0, <1>2, GrownBy
  <2>2. mph' \in [Threads -> 1 .. Len(kvs')]
    <3>1. kvs # <<>>
      BY <1>2 DEF Keys
    <3> QED BY <1>0, <1>2, <2>1, <3>1 DEF TypeOK
  <2>3. ASSUME NEW u \in Threads, tpc'[u] = "write" PROVE tctx'[u] \in DOMAIN kvs'
    BY <1>0, <1>2, <2>1, <2>3 DEF TypeOK
  <2>4. TypeOK'
    BY <1>0, <1>2, <2>1, <2>2, <2>3 DEF TypeOK
  <2> QED BY <1>0, <1>2, <2>4 DEF Inv, Starting, Alone
<1> QED BY <1>1, <1>2 DEF EndInsert, Grown

LEMMA WriteInv == ASSUME Inv, NEW t \in Threads, WriteMsg(t) PROVE Inv'
<1> DEFINE x == tctx[t]
           e == [kvs[x] EXCEPT !.val = @ \union {<<t, count[t] + 1>>}]
<1>0. /\ TypeOK /\ tpc[t] = "write" /\ tpc' = [tpc EXCEPT ![t] = "load"]
      /\ kvs' = [kvs EXCEPT ![x] = e] /\ count' = [count EXCEPT ![t] = @ + 1]
      /\ UNCHANGED <<mph, crossed, failed, num_inst, tctx, tmp, shared, raced>>
  BY DEF WriteMsg, Inv, Goto
<1>1. x \in DOMAIN kvs /\ count[t] + 1 \in 1 .. MaxMsgs
  BY <1>0, ConstantsAssumption DEF ConstantsAssumption, TypeOK, Inv, Starting
<1>2. kvs \in Seq(Entry) /\ kvs[x] \in Entry
  BY <1>0, <1>1, EntryKey DEF TypeOK
<1>3. e \in Entry
  BY <1>1, <1>2 DEF Entry
<1> HIDE DEF e
<1>4. kvs' \in Seq(Entry) /\ Len(kvs') = Len(kvs) /\ DOMAIN kvs' = DOMAIN kvs
  BY <1>0, <1>1, <1>2, <1>3
<1>5. count' \in [Threads -> 0 .. MaxMsgs]
  BY <1>0, <1>1 DEF TypeOK
<1>6. kvs' # <<>> => kvs # <<>>
  BY <1>1
<1>7. ASSUME NEW u \in Threads, tpc'[u] = "write" PROVE tctx'[u] \in DOMAIN kvs'
  BY <1>0, <1>4, <1>7 DEF TypeOK
<1>8. mph' \in [Threads -> 1 .. Len(kvs')]
  BY <1>0, <1>1, <1>4 DEF TypeOK
<1>9. TypeOK'
  BY <1>0, <1>4, <1>5, <1>7, <1>8 DEF TypeOK
<1>10. Starting' /\ Alone'
  BY <1>0 DEF TypeOK, Inv, Starting, Alone
<1> QED BY <1>9, <1>10 DEF Inv

LEMMA MoveInv ==
  ASSUME Inv, NEW t \in Threads, BeginInsert(t) \/ LoadCount(t) \/ StoreCount(t)
  PROVE  Inv'
<1>1. CASE BeginInsert(t)
  <2>1. raced' \in BOOLEAN
    BY <1>1, Zenon DEF BeginInsert, Others
  <2>2. TypeOK'
    BY <1>1, <2>1 DEF BeginInsert, Inv, TypeOK, Goto, mapVars
  <2> QED BY <1>1, <2>2 DEF BeginInsert, Inv, TypeOK, Starting, Alone, Others, Goto, mapVars
<1>2. CASE LoadCount(t)
  <2>1. TypeOK'
    BY <1>2 DEF LoadCount, Inv, TypeOK, Goto, mapVars
  <2> QED BY <1>2, <2>1 DEF LoadCount, Inv, TypeOK, Starting, Alone, Goto, mapVars
<1>3. CASE StoreCount(t)
  <2>1. TypeOK'
    BY <1>3 DEF StoreCount, Inv, TypeOK, Goto, mapVars
  <2> QED BY <1>3, <2>1 DEF StoreCount, Inv, TypeOK, Starting, Alone, Goto, mapVars
<1> QED BY <1>1, <1>2, <1>3

LEMMA NextInv == Inv /\ [Next]_vars => Inv'
<1> SUFFICES ASSUME Inv, [Next]_vars PROVE Inv'
  OBVIOUS
<1>1. CASE UNCHANGED vars
  BY <1>1 DEF vars, mapVars, Inv, TypeOK, Starting, Alone
<1> QED BY <1>1, FindInv, EndInsertInv, WriteInv, MoveInv DEF Next

LEMMA AlwaysInv == Spec => []Inv
  BY InitInv, NextInv, PTL DEF Spec

\* The map and the threads inside log() keep their types; in particular the place a
\* thread keeps for its entry, and the one the hash gives any thread, are in the map.
THEOREM TypeCorrect == Spec => []TypeOK
<1>1. Inv => TypeOK
  BY DEF Inv
<1> QED BY <1>1, AlwaysInv, PTL

-----------------------------------------------------------------------------
(* No log is lost, repeated or split.                                      *)

\* The entries hold the same messages after a step as before it.
LEMMA SameLogs ==
  ASSUME UNCHANGED <<kvs, count>>
  PROVE  /\ Distinct(kvs') <=> Distinct(kvs)
         /\ Keys(kvs') = Keys(kvs)
         /\ \A t \in Threads, c \in 1 .. MaxMsgs : InOneEntry(t, c)' <=> InOneEntry(t, c)
  BY DEF Distinct, Keys, InOneEntry

LEMMA EndInsertKeeps ==
  ASSUME Inv, LogsKept, NEW t \in Threads, EndInsert(t)
  PROVE  LogsKept'
<1>0. TypeOK /\ Running /\ UNCHANGED count
  BY DEF EndInsert, Inv
<1> SUFFICES ASSUME Running' PROVE LogsKept'
  BY DEF LogsKept
<1>1. /\ Distinct(kvs) /\ \A u \in Threads, c \in 1 .. MaxMsgs : InOneEntry(u, c)
      /\ \A u \in Threads : count[u] > 0 \/ tpc[u] = "write" => u \in Keys(kvs)
  BY <1>0 DEF LogsKept
<1>2. t \notin Keys(kvs) /\ tpc' = [tpc EXCEPT ![t] = "write"]
  BY DEF EndInsert, Running, Goto
<1>3. PICK f \in Perfect(Grown(t)) : kvs' = Rebuilt(Grown(t), f)
  BY DEF EndInsert, Running, Insert, Grown
<1> DEFINE es == Grown(t)
           g(i) == f[es[i].key]
<1>4. /\ es \in Seq(Entry) /\ DOMAIN es = 1 .. Len(kvs) + 1 /\ DOMAIN kvs = 1 .. Len(kvs)
      /\ Len(kvs) \in Nat /\ \A i \in DOMAIN kvs : es[i] = kvs[i]
      /\ es[Len(kvs) + 1].val = {}
  BY <1>0, GrownBy
<1>5. Keys(es) = Keys(kvs) \union {t} /\ Distinct(es)
  BY <1>0, <1>1, <1>2, GrownKeys
<1>6. Distinct(kvs') /\ Keys(kvs') = Keys(kvs) \union {t}
  BY <1>3, <1>4, <1>5, RebuiltKeeps
<1>7. /\ \A i \in DOMAIN es : g(i) \in DOMAIN es
      /\ \A i, j \in DOMAIN es : g(i) = g(j) => i = j
      /\ \A j \in DOMAIN es : \E i \in DOMAIN es : g(i) = j
  BY <1>4, <1>5, Permutes
<1>8. DOMAIN kvs' = DOMAIN es /\ \A i \in DOMAIN es : kvs'[i] = es[g(i)]
  BY <1>3, <1>4, RebuiltEntries
<1> HIDE DEF es, g
<1>9. ASSUME NEW u \in Threads, NEW c \in 1 .. MaxMsgs PROVE InOneEntry(u, c)'
  <2> DEFINE m == <<u, c>>
  <2> HIDE DEF m
  <2>1. InOneEntry(u, c)
    BY <1>1
  <2>2. \A j \in DOMAIN es : m \in es[j].val => j \in DOMAIN kvs /\ m \in kvs[j].val
    BY <1>4
  <2>3. c <= count'[u] => \E i \in DOMAIN kvs' : m \in kvs'[i].val
    <3> SUFFICES ASSUME c <= count[u] PROVE \E i \in DOMAIN es : m \in es[g(i)].val
      BY <1>0, <1>8
    <3>1. PICK j \in DOMAIN kvs : m \in kvs[j].val
      BY <2>1 DEF InOneEntry, m
    <3>2. j \in DOMAIN es /\ m \in es[j].val
      BY <1>4, <3>1
    <3> QED BY <1>7, <3>2
  <2>4. c > count'[u] => \A i \in DOMAIN kvs' : m \notin kvs'[i].val
    BY <1>0, <1>7, <1>8, <2>1, <2>2 DEF InOneEntry, m
  <2>5. ASSUME NEW i \in DOMAIN kvs', NEW j \in DOMAIN kvs', m \in kvs'[i].val, m \in kvs'[j].val
        PROVE  i = j
    <3>1. g(i) \in DOMAIN es /\ g(j) \in DOMAIN es /\ m \in es[g(i)].val /\ m \in es[g(j)].val
      BY <1>7, <1>8, <2>5
    <3>2. g(i) = g(j)
      BY <2>1, <2>2, <3>1 DEF InOneEntry, m
    <3> QED BY <1>7, <1>8, <3>2
  <2> QED BY <2>3, <2>4, <2>5 DEF InOneEntry, m
<1>10. \A u \in Threads : count'[u] > 0 \/ tpc'[u] = "write" => u \in Keys(kvs')
  BY <1>0, <1>1, <1>2, <1>6 DEF TypeOK
<1> QED BY <1>6, <1>9, <1>10 DEF LogsKept

\* What writing a message does to the entries
LEMMA WriteEntries ==
  ASSUME Inv, NEW t \in Threads, WriteMsg(t)
  PROVE  /\ DOMAIN kvs' = DOMAIN kvs /\ tctx[t] \in DOMAIN kvs
         /\ \A i \in DOMAIN kvs :
              /\ kvs'[i].key = kvs[i].key
              /\ kvs'[i].val = IF i = tctx[t] THEN kvs[i].val \union {<<t, count[t] + 1>>}
                                              ELSE kvs[i].val
         /\ Keys(kvs') = Keys(kvs)
         /\ Distinct(kvs') <=> Distinct(kvs)
<1>1. /\ kvs \in Seq(Entry) /\ tctx[t] \in DOMAIN kvs
      /\ kvs' = [kvs EXCEPT ![tctx[t]].val = @ \union {<<t, count[t] + 1>>}]
  BY DEF WriteMsg, Inv, TypeOK
<1>2. \A i \in DOMAIN kvs : kvs[i] \in Entry
  BY <1>1
<1>3. DOMAIN kvs' = DOMAIN kvs
  BY <1>1
<1>4. \A i \in DOMAIN kvs :
              /\ kvs'[i].key = kvs[i].key
              /\ kvs'[i].val = IF i = tctx[t] THEN kvs[i].val \union {<<t, count[t] + 1>>}
                                              ELSE kvs[i].val
  BY <1>1, <1>2 DEF Entry
<1>5. Keys(kvs') = Keys(kvs)
  <2>1. ASSUME NEW k \in Keys(kvs') PROVE k \in Keys(kvs)
    <3>1. PICK i \in DOMAIN kvs' : k = kvs'[i].key
      BY <2>1 DEF Keys
    <3>2. i \in DOMAIN kvs /\ k = kvs[i].key
      BY <1>3, <1>4, <3>1
    <3> QED BY <3>2 DEF Keys
  <2>2. ASSUME NEW k \in Keys(kvs) PROVE k \in Keys(kvs')
    <3>1. PICK i \in DOMAIN kvs : k = kvs[i].key
      BY <2>2 DEF Keys
    <3>2. i \in DOMAIN kvs' /\ k = kvs'[i].key
      BY <1>3, <1>4, <3>1
    <3> QED BY <3>2 DEF Keys
  <2> QED BY <2>1, <2>2
<1>6. Distinct(kvs') <=> Distinct(kvs)
  BY <1>3, <1>4 DEF Distinct
<1> QED BY <1>1, <1>3, <1>4, <1>5, <1>6

LEMMA WriteKeeps ==
  ASSUME Inv, LogsKept, NEW t \in Threads, WriteMsg(t)
  PROVE  LogsKept'
<1>0. /\ TypeOK /\ Running /\ tpc[t] = "write" /\ tpc' = [tpc EXCEPT ![t] = "load"]
      /\ count' = [count EXCEPT ![t] = @ + 1]
  BY DEF WriteMsg, Inv, Goto
<1>1. /\ Distinct(kvs) /\ \A u \in Threads, c \in 1 .. MaxMsgs : InOneEntry(u, c)
      /\ \A u \in Threads : count[u] > 0 \/ tpc[u] = "write" => u \in Keys(kvs)
  BY <1>0 DEF LogsKept
<1>2. ASSUME NEW u \in Threads, NEW c \in 1 .. MaxMsgs PROVE InOneEntry(u, c)'
  <2>1. count[t] \in Nat /\ count[u] \in Nat /\ c \in Nat
    BY <1>0, ConstantsAssumption DEF ConstantsAssumption, TypeOK
  <2>2. CASE <<u, c>> = <<t, count[t] + 1>>
    <3>0. u = t /\ c = count[t] + 1 /\ count'[t] = count[t] + 1
      BY <1>0, <2>2 DEF TypeOK
    <3>1. c = count'[u] /\ \A i \in DOMAIN kvs : <<u, c>> \notin kvs[i].val
      <4>1. c > count[u] /\ InOneEntry(u, c)
        BY <1>1, <2>1, <3>0
      <4> QED BY <3>0, <4>1 DEF InOneEntry
    <3>2. \A i \in DOMAIN kvs : <<u, c>> \in kvs'[i].val <=> i = tctx[t]
      BY <2>2, <3>1, WriteEntries
    <3> QED BY <2>1, <3>1, <3>2, WriteEntries DEF InOneEntry
  <2>3. CASE <<u, c>> # <<t, count[t] + 1>>
    <3>1. c <= count'[u] <=> c <= count[u]
      <4>1. CASE u = t
        <5>1. c # count[t] + 1 /\ count'[u] = count[t] + 1
          BY <1>0, <2>3, <4>1 DEF TypeOK
        <5> QED BY <2>1, <4>1, <5>1
      <4>2. CASE u # t
        BY <1>0, <4>2 DEF TypeOK
      <4> QED BY <4>1, <4>2
    <3>2. ASSUME NEW i \in DOMAIN kvs PROVE <<u, c>> \in kvs'[i].val <=> <<u, c>> \in kvs[i].val
      <4>1. kvs'[i].val = kvs[i].val \/ kvs'[i].val = kvs[i].val \union {<<t, count[t] + 1>>}
        BY WriteEntries
      <4> QED BY <2>3, <4>1, Zenon
    <3>3. count'[u] \in Nat
      BY <1>0, <2>1 DEF TypeOK
    <3> QED BY <1>1, <2>1, <3>1, <3>2, <3>3, WriteEntries DEF InOneEntry
  <2> QED BY <2>2, <2>3
<1>3. \A u \in Threads : count'[u] > 0 \/ tpc'[u] = "write" => u \in Keys(kvs')
  BY <1>0, <1>1, WriteEntries DEF TypeOK
<1> QED BY <1>1, <1>2, <1>3, WriteEntries DEF LogsKept

LEMMA NextKeeps ==
  ASSUME Inv, LogsKept, [Next]_vars
  PROVE  LogsKept'
<1>1. CASE UNCHANGED vars
  BY <1>1, SameLogs DEF vars, mapVars, LogsKept, Running
<1>2. ASSUME NEW t \in Threads, Find(t) PROVE LogsKept'
  <2>1. /\ Running /\ UNCHANGED <<kvs, count>> /\ failed' = failed
        /\ \/ contains(t) /\ tpc' = [tpc EXCEPT ![t] = "write"]
           \/ tpc' = [tpc EXCEPT ![t] = "insert"]
    BY <1>2 DEF Find, Goto, mapVars
  <2>2. contains(t) => t \in Keys(kvs)
    BY DEF contains, Keys, Inv, TypeOK
  <2>3. \A u \in Threads : count'[u] > 0 \/ tpc'[u] = "write" => u \in Keys(kvs')
    BY <2>1, <2>2, SameLogs DEF LogsKept, Inv, TypeOK
  <2> QED BY <2>1, <2>3, SameLogs DEF LogsKept
<1>3. ASSUME NEW t \in Threads, BeginInsert(t) \/ LoadCount(t) \/ StoreCount(t) PROVE LogsKept'
  <2>1. /\ Running /\ UNCHANGED <<kvs, count>>
        /\ \E l \in {"inserting", "store", "out"} : tpc' = [tpc EXCEPT ![t] = l]
    BY <1>3 DEF BeginInsert, LoadCount, StoreCount, Goto, mapVars
  <2>2. \A u \in Threads : count'[u] > 0 \/ tpc'[u] = "write" => u \in Keys(kvs')
    BY <2>1, SameLogs DEF LogsKept, Inv, TypeOK
  <2> QED BY <2>1, <2>2, SameLogs DEF LogsKept
<1> QED BY <1>1, <1>2, <1>3, EndInsertKeeps, WriteKeeps DEF Next

LEMMA InitKeeps == Init => LogsKept
<1> SUFFICES ASSUME Init PROVE LogsKept
  OBVIOUS
<1>1. /\ kvs = <<>> /\ DOMAIN kvs = {} /\ \A t \in Threads : count[t] = 0 /\ tpc[t] = "out"
  BY DEF Init
<1>2. \A c \in 1 .. MaxMsgs : c > 0 /\ ~(c <= 0)
  BY ConstantsAssumption DEF ConstantsAssumption
<1> QED BY <1>1, <1>2 DEF LogsKept, Distinct, InOneEntry

LEMMA AlwaysKept == Spec => [](Inv /\ LogsKept)
<1>1. Inv /\ LogsKept /\ [Next]_vars => LogsKept'
  BY NextKeeps
<1> QED BY <1>1, InitInv, NextInv, InitKeeps, PTL DEF Spec

-----------------------------------------------------------------------------
(* Counting.                                                               *)

LEMMA LoggedFinite ==
  ASSUME TypeOK
  PROVE  IsFiniteSet(Logged) /\ Total \in Nat /\ IsFiniteSet(Uncounted)
         /\ Cardinality(Uncounted) \in Nat
<1>1. IsFiniteSet(Threads) /\ IsFiniteSet(1 .. MaxMsgs)
  BY FS_Interval, ConstantsAssumption DEF ConstantsAssumption
<1>2. IsFiniteSet(Threads \X (1 .. MaxMsgs))
  BY <1>1, FS_Product
<1>3. Logged \subseteq Threads \X (1 .. MaxMsgs) /\ Uncounted \subseteq Threads
  BY DEF Logged, Uncounted
<1>4. IsFiniteSet(Logged) /\ IsFiniteSet(Uncounted)
  BY <1>1, <1>2, <1>3, FS_Subset
<1> QED BY <1>4, FS_CardinalityType DEF Total

\* A written message is one more, and not yet counted.
LEMMA WriteCounts ==
  ASSUME Inv, NEW t \in Threads, WriteMsg(t)
  PROVE  Total' = Total + 1 /\ Cardinality(Uncounted)' = Cardinality(Uncounted) + 1
<1> DEFINE m == <<t, count[t] + 1>>
<1>0. /\ TypeOK /\ tpc[t] = "write" /\ tpc' = [tpc EXCEPT ![t] = "load"]
      /\ count' = [count EXCEPT ![t] = @ + 1] /\ count[t] < MaxMsgs
  BY DEF WriteMsg, Inv, Goto, Starting
<1>1. count[t] + 1 \in 1 .. MaxMsgs /\ count[t] \in Nat
  BY <1>0, ConstantsAssumption DEF TypeOK, ConstantsAssumption
<1>2. m \in Threads \X (1 .. MaxMsgs) /\ m \notin Logged
  BY <1>1 DEF Logged
<1>3. Logged' = Logged \union {m}
  <2>1. ASSUME NEW u \in Threads, NEW c \in 1 .. MaxMsgs
        PROVE  <<u, c>> \in Logged' <=> <<u, c>> \in Logged \union {m}
    <3>1. /\ <<u, c>> \in Logged' <=> c <= count'[u]
          /\ <<u, c>> \in Logged <=> c <= count[u]
          /\ <<u, c>> = m <=> u = t /\ c = count[t] + 1
      BY DEF Logged
    <3>2. c <= count'[u] <=> (c <= count[u] \/ (u = t /\ c = count[t] + 1))
      <4>1. c \in Nat /\ count[u] \in Nat
        BY <1>0, ConstantsAssumption DEF TypeOK, ConstantsAssumption
      <4>2. CASE u = t
        <5>1. count'[u] = count[t] + 1
          BY <1>0, <4>2 DEF TypeOK
        <5> QED BY <1>1, <4>1, <4>2, <5>1
      <4>3. CASE u # t
        BY <1>0, <4>3 DEF TypeOK
      <4> QED BY <4>2, <4>3
    <3> QED BY <3>1, <3>2
  <2>2. Logged \subseteq Threads \X (1 .. MaxMsgs) /\ Logged' \subseteq Threads \X (1 .. MaxMsgs)
    BY DEF Logged
  <2> QED BY <1>2, <2>1, <2>2
<1>4. Uncounted' = Uncounted \union {t} /\ t \notin Uncounted
  BY <1>0 DEF Uncounted, TypeOK
<1> QED BY <1>0, <1>2, <1>3, <1>4, LoggedFinite, FS_AddElement DEF Total

LEMMA InitCounting == Init => Counting /\ CountingAlone
<1> SUFFICES ASSUME Init PROVE Counting /\ CountingAlone
  OBVIOUS
<1>1. \A t \in Threads : tpc[t] = "out" /\ count[t] = 0
  BY DEF Init
<1>2. Uncounted = {} /\ Cardinality(Uncounted) = 0
  BY <1>1, FS_EmptySet DEF Uncounted
<1>3. Logged = {}
  <2>1. \A m \in Threads \X (1 .. MaxMsgs) : m[1] \in Threads /\ m[2] \in 1 .. MaxMsgs
    OBVIOUS
  <2>2. \A c \in 1 .. MaxMsgs : ~(c <= 0)
    BY ConstantsAssumption DEF ConstantsAssumption
  <2> QED BY <1>1, <2>1, <2>2 DEF Logged
<1>4. Total = 0 /\ num_inst = 0
  BY <1>3, FS_EmptySet DEF Total, Init
<1> QED BY <1>1, <1>2, <1>4 DEF Counting, CountingAlone

LEMMA NextCounting ==
  ASSUME Inv, Counting, CountingAlone, [Next]_vars
  PROVE  Counting' /\ CountingAlone'
<1> DEFINE n == Cardinality(Uncounted)
<1>0. TypeOK /\ Total \in Nat /\ n \in Nat /\ IsFiniteSet(Uncounted) /\ num_inst \in Nat
  BY LoggedFinite DEF Inv, TypeOK
<1>1. CASE UNCHANGED vars
  <2>1. Logged' = Logged /\ Uncounted' = Uncounted
    BY <1>1 DEF Logged, Uncounted, vars
  <2> QED BY <1>1, <2>1 DEF Counting, CountingAlone, Total, vars
<1>2. ASSUME NEW t \in Threads, Find(t) \/ BeginInsert(t) \/ EndInsert(t)
      PROVE  Counting' /\ CountingAlone'
  <2>1. /\ UNCHANGED <<count, num_inst, tmp>> /\ tpc[t] \in {"out", "insert", "inserting"}
        /\ \E l \in {"insert", "inserting", "write"} : tpc' = [tpc EXCEPT ![t] = l]
    BY <1>0, <1>2 DEF Find, BeginInsert, EndInsert, Goto, mapVars, TypeOK
  <2>2. Logged' = Logged
    BY <2>1 DEF Logged
  <2>3. Uncounted' = Uncounted
    BY <1>0, <2>1 DEF Uncounted, TypeOK
  <2>4. \A u \in Threads : tpc'[u] = "store" => tpc[u] = "store"
    BY <1>0, <2>1 DEF TypeOK
  <2>5. Counting'
    BY <2>1, <2>2, <2>3, <2>4 DEF Counting, Total
  <2>6. shared' = FALSE => shared = FALSE /\ (tpc[t] = "out" => \A u \in Threads : tpc[u] = "out")
    BY <1>0, <1>2 DEF Find, BeginInsert, EndInsert, TypeOK
  <2>7. ASSUME shared' = FALSE, NEW u \in Threads, NEW v \in Threads, tpc'[u] # "out", tpc'[v] # "out"
        PROVE  u = v
    BY <1>0, <2>1, <2>6, <2>7 DEF CountingAlone, TypeOK
  <2>8. TypeOK'
    BY NextInv DEF Inv
  <2>9. CountingAlone'
    BY <1>0, <2>1, <2>2, <2>3, <2>4, <2>6, <2>7, <2>8 DEF CountingAlone, Total, TypeOK
  <2> QED BY <2>5, <2>9
<1>3. ASSUME NEW t \in Threads, WriteMsg(t) PROVE Counting' /\ CountingAlone'
  <2>1. /\ UNCHANGED <<num_inst, tmp, shared>> /\ tpc[t] = "write" /\ tpc' = [tpc EXCEPT ![t] = "load"]
        /\ Total' = Total + 1 /\ Cardinality(Uncounted)' = n + 1
    BY <1>3, WriteCounts DEF WriteMsg, Goto
  <2>2. \A u \in Threads : /\ tpc'[u] = "store" => tpc[u] = "store"
                           /\ tpc'[u] # "out" => tpc[u] # "out"
                           /\ tmp'[u] = tmp[u] /\ tmp[u] \in Nat
    BY <1>0, <2>1 DEF TypeOK
  <2>3. /\ num_inst + n <= Total => num_inst' + Cardinality(Uncounted)' <= Total'
        /\ num_inst + n = Total => num_inst' + Cardinality(Uncounted)' = Total'
    BY <1>0, <2>1
  <2>4. \A u \in Threads : tmp[u] + n <= Total => tmp'[u] + Cardinality(Uncounted)' <= Total'
    BY <1>0, <2>1, <2>2
  <2>5. Counting'
    BY <2>2, <2>3, <2>4 DEF Counting
  <2>6. CountingAlone'
    BY <2>1, <2>2, <2>3 DEF CountingAlone
  <2> QED BY <2>5, <2>6
<1>4. ASSUME NEW t \in Threads, LoadCount(t) PROVE Counting' /\ CountingAlone'
  <2>1. /\ UNCHANGED <<num_inst, shared, count>> /\ tpc[t] = "load" /\ tpc' = [tpc EXCEPT ![t] = "store"]
        /\ tmp' = [tmp EXCEPT ![t] = num_inst]
    BY <1>4 DEF LoadCount, Goto
  <2>2. Logged' = Logged
    BY <2>1 DEF Logged
  <2>3. Uncounted' = Uncounted
    BY <1>0, <2>1 DEF Uncounted, TypeOK
  <2>4. Counting'
    BY <1>0, <2>1, <2>2, <2>3 DEF Counting, Total, TypeOK
  <2>5. CountingAlone'
    BY <1>0, <2>1, <2>2, <2>3 DEF CountingAlone, Total, TypeOK
  <2> QED BY <2>4, <2>5
<1>5. ASSUME NEW t \in Threads, StoreCount(t) PROVE Counting' /\ CountingAlone'
  <2>1. /\ UNCHANGED <<count, shared>> /\ tpc[t] = "store" /\ tpc' = [tpc EXCEPT ![t] = "out"]
        /\ tmp' = [tmp EXCEPT ![t] = 0] /\ num_inst' = tmp[t] + 1
    BY <1>5 DEF StoreCount, Goto
  <2>2. Logged' = Logged
    BY <2>1 DEF Logged
  <2>3. Uncounted' = Uncounted \ {t} /\ t \in Uncounted
    BY <1>0, <2>1 DEF Uncounted, TypeOK
  <2>4. Cardinality(Uncounted)' = n - 1
    BY <1>0, <2>3, FS_RemoveElement
  <2>5. tmp[t] \in Nat /\ tmp[t] + n <= Total
    BY <1>0, <2>1 DEF Counting, TypeOK
  <2>6. Counting'
    <3>1. num_inst' + Cardinality(Uncounted)' <= Total'
      BY <1>0, <2>1, <2>2, <2>4, <2>5 DEF Total
    <3>2. ASSUME NEW u \in Threads, tpc'[u] = "store"
          PROVE  tmp'[u] + Cardinality(Uncounted)' <= Total'
      <4>1. u # t /\ tpc[u] = "store" /\ tmp'[u] = tmp[u] /\ tmp[u] \in Nat
        BY <1>0, <2>1, <3>2 DEF TypeOK
      <4>2. tmp[u] + n <= Total
        BY <4>1 DEF Counting
      <4> QED BY <1>0, <2>2, <2>4, <4>1, <4>2 DEF Total
    <3> QED BY <3>1, <3>2 DEF Counting
  <2>7. CountingAlone'
    <3> SUFFICES ASSUME ~shared' PROVE CountingAlone'
      BY DEF CountingAlone
    <3>1. /\ \A u, v \in Threads : tpc[u] # "out" /\ tpc[v] # "out" => u = v
          /\ num_inst + n = Total /\ tmp[t] = num_inst
      BY <2>1 DEF CountingAlone
    <3>2. num_inst' + Cardinality(Uncounted)' = Total'
      BY <1>0, <2>1, <2>2, <2>4, <3>1 DEF Total
    <3>3. \A u \in Threads : tpc'[u] = "out"
      BY <1>0, <2>1, <3>1 DEF TypeOK
    <3> QED BY <3>2, <3>3 DEF CountingAlone
  <2> QED BY <2>6, <2>7
<1> QED BY <1>1, <1>2, <1>3, <1>4, <1>5 DEF Next

\* However many threads are inside log() and however the rebuilds permute the entries,
\* every thread has one entry, every message is in exactly one entry, and m_num_inst
\* never counts a message that was not logged, nor misses one if no two threads met.
THEOREM AllKept == Spec => []MessagesKept
<1>1. Inv /\ LogsKept /\ Counting /\ CountingAlone => MessagesKept
  <2> SUFFICES ASSUME Inv, LogsKept, Counting, CountingAlone, Running PROVE MessagesKept
    BY DEF MessagesKept
  <2> DEFINE D == DOMAIN kvs
  <2>0. /\ TypeOK /\ kvs \in Seq(Entry) /\ D = 1 .. Len(kvs) /\ Len(kvs) \in Nat
        /\ Distinct(kvs) /\ IsFiniteSet(D) /\ Cardinality(D) = Len(kvs)
    <3>1. kvs \in Seq(Entry) /\ TypeOK /\ Distinct(kvs)
      BY DEF Inv, TypeOK, LogsKept
    <3>2. D = 1 .. Len(kvs) /\ Len(kvs) \in Nat
      BY <3>1
    <3>3. IsFiniteSet(1 .. Len(kvs)) /\ Cardinality(1 .. Len(kvs)) = Len(kvs)
      <4>1. /\ IsFiniteSet(1 .. Len(kvs))
            /\ Cardinality(1 .. Len(kvs)) = IF 1 > Len(kvs) THEN 0 ELSE Len(kvs) - 1 + 1
        BY <3>2, FS_Interval
      <4> QED BY <3>2, <4>1
    <3> QED BY <3>1, <3>2, <3>3
  <2>1. Cardinality(Keys(kvs)) = Len(kvs)
    <3> DEFINE h == [i \in D |-> kvs[i].key]
    <3>1. h \in Surjection(D, Keys(kvs))
      BY DEF Keys, Surjection
    <3>2. h \in Injection(D, Keys(kvs))
      BY <2>0, <3>1 DEF Surjection, Injection, IsInjective, Distinct
    <3> QED BY <2>0, <3>1, <3>2, FS_Surjection
  <2>2. \A t \in Threads : count[t] > 0 => t \in Keys(kvs)
    BY DEF LogsKept
  <2>3. ASSUME NEW t \in Threads, NEW c \in 1 .. MaxMsgs
        PROVE  Cardinality({i \in D : <<t, c>> \in kvs[i].val}) = IF c <= count[t] THEN 1 ELSE 0
    <3> DEFINE S == {i \in D : <<t, c>> \in kvs[i].val}
    <3>1. InOneEntry(t, c) /\ c \in Nat /\ count[t] \in Nat
      BY <2>0, ConstantsAssumption DEF LogsKept, TypeOK, ConstantsAssumption
    <3>2. CASE c <= count[t]
      <4>1. PICK i \in D : <<t, c>> \in kvs[i].val
        BY <3>1, <3>2 DEF InOneEntry
      <4>2. S = {i}
        BY <3>1, <4>1 DEF InOneEntry
      <4> QED BY <3>2, <4>2, FS_Singleton
    <3>3. CASE c > count[t]
      <4>1. S = {}
        BY <3>1, <3>3 DEF InOneEntry
      <4>2. ~(c <= count[t])
        BY <3>1, <3>3
      <4> QED BY <4>1, <4>2, FS_EmptySet
    <3> QED BY <3>1, <3>2, <3>3
  <2>4. Total \in Nat /\ num_inst \in Nat /\ Cardinality(Uncounted) \in Nat
    BY <2>0, LoggedFinite DEF TypeOK
  <2>5. num_inst <= Total
    BY <2>4 DEF Counting
  <2>6. ~shared /\ (\A t \in Threads : tpc[t] = "out") => num_inst = Total
    <3> SUFFICES ASSUME ~shared, \A t \in Threads : tpc[t] = "out" PROVE num_inst = Total
      OBVIOUS
    <3>1. Uncounted = {}
      BY DEF Uncounted
    <3>2. Cardinality(Uncounted) = 0 /\ num_inst + Cardinality(Uncounted) = Total
      BY <3>1, FS_EmptySet DEF CountingAlone
    <3> QED BY <2>4, <3>2
  <2> QED BY <2>1, <2>2, <2>3, <2>5, <2>6 DEF MessagesKept
<1>2. Inv /\ Counting /\ CountingAlone /\ [Next]_vars => Counting' /\ CountingAlone'
  BY NextCounting
<1> QED BY <1>1, <1>2, InitInv, NextInv, AlwaysKept, InitCounting, PTL DEF Spec

-----------------------------------------------------------------------------
(* Whose log it is, as long as rebuilds exchange pairs.                    *)

LEMMA EndInsertOwned ==
  ASSUME Inv, Owned, NEW t \in Threads, EndInsert(t)
  PROVE  Owned'
<1>0. TypeOK /\ Running /\ tpc[t] = "inserting" /\ UNCHANGED <<count, raced>>
  BY DEF EndInsert, Inv
<1> SUFFICES ASSUME ~crossed', ~raced' PROVE Owned'
  BY DEF Owned
<1>1. ~crossed /\ ~raced
  BY <1>0 DEF EndInsert, Insert, TypeOK, Running
<1>2. /\ \A i \in DOMAIN kvs : /\ mph[kvs[i].key] = i
                               /\ kvs[i].val = {kvs[i].key} \X (1 .. count[kvs[i].key])
      /\ \A u \in Threads :
           /\ tpc[u] \in {"insert", "inserting"} => u \notin Keys(kvs)
           /\ count[u] > 0 \/ tpc[u] = "write" => u \in Keys(kvs)
  BY <1>1 DEF Owned
<1>3. t \notin Keys(kvs)
  BY <1>0, <1>2
<1>4. tpc' = [tpc EXCEPT ![t] = "write"] /\ failed' = failed
  BY <1>3 DEF EndInsert, Goto
<1>5. PICK f \in Perfect(Grown(t)) : Insert(t, f)
  BY <1>3, Zenon DEF EndInsert, Grown
<1> DEFINE es == Grown(t)
           g(i) == f[es[i].key]
<1>6. /\ kvs' = Rebuilt(es, f) /\ mph' = f /\ tctx' = [tctx EXCEPT ![t] = f[t]]
      /\ \A i \in DOMAIN es : f[es[g(i)].key] = i
  BY <1>5, Zenon DEF Insert, Grown
<1>7. /\ es \in Seq(Entry) /\ DOMAIN es = 1 .. Len(kvs) + 1 /\ DOMAIN kvs = 1 .. Len(kvs)
      /\ Len(kvs) \in Nat /\ \A i \in DOMAIN kvs : es[i] = kvs[i]
      /\ es[Len(kvs) + 1].val = {} /\ es[Len(kvs) + 1].key = t
  BY <1>0, GrownBy
<1>8. Distinct(kvs)
  BY <1>2 DEF Distinct
<1>9. Keys(es) = Keys(kvs) \union {t} /\ Distinct(es)
  BY <1>0, <1>3, <1>8, GrownKeys
<1>10. Keys(kvs') = Keys(kvs) \union {t}
  BY <1>6, <1>7, <1>9, RebuiltKeeps
<1>11. \A i \in DOMAIN es : g(i) \in DOMAIN es
  BY <1>7, <1>9, Permutes
<1>12. DOMAIN kvs' = DOMAIN es /\ \A i \in DOMAIN es : kvs'[i] = es[g(i)]
  BY <1>6, <1>7, RebuiltEntries
<1>13. \A j \in DOMAIN es : es[j].val = {es[j].key} \X (1 .. count[es[j].key])
  <2>1. count[t] = 0
    BY <1>0, <1>2, <1>3, ConstantsAssumption DEF TypeOK, ConstantsAssumption
  <2>2. {t} \X (1 .. count[t]) = {}
    BY <2>1
  <2> QED BY <1>2, <1>7, <2>2
<1> HIDE DEF es, g
<1>14. \A i \in DOMAIN kvs' :
         /\ mph'[kvs'[i].key] = i
         /\ kvs'[i].val = {kvs'[i].key} \X (1 .. count'[kvs'[i].key])
  BY <1>0, <1>6, <1>11, <1>12, <1>13
<1>15. ASSUME NEW u \in Threads
       PROVE  /\ tpc'[u] \in {"insert", "inserting"} => u \notin Keys(kvs')
              /\ count'[u] > 0 \/ tpc'[u] = "write" => u \in Keys(kvs')
              /\ tpc'[u] = "write" => tctx'[u] = mph'[u]
  <2>1. CASE u = t
    BY <1>0, <1>4, <1>6, <1>10, <2>1 DEF TypeOK
  <2>2. CASE u # t
    <3>1. tpc[u] # "write" /\ tpc'[u] = tpc[u]
      BY <1>0, <1>1, <1>4, <2>2 DEF TypeOK, Inv, Alone
    <3> QED BY <1>0, <1>2, <1>10, <2>2, <3>1
  <2> QED BY <2>1, <2>2
<1>16. ~failed'
  BY <1>0, <1>4 DEF Running
<1> QED BY <1>14, <1>15, <1>16 DEF Owned

LEMMA WriteOwned ==
  ASSUME Inv, Owned, NEW t \in Threads, WriteMsg(t)
  PROVE  Owned'
<1>0. /\ TypeOK /\ Running /\ tpc[t] = "write" /\ tpc' = [tpc EXCEPT ![t] = "load"]
      /\ count' = [count EXCEPT ![t] = @ + 1] /\ UNCHANGED <<mph, crossed, failed, tctx, raced>>
  BY DEF WriteMsg, Inv, Goto
<1> SUFFICES ASSUME ~crossed, ~raced PROVE Owned'
  BY <1>0 DEF Owned
<1>1. /\ \A i \in DOMAIN kvs : /\ mph[kvs[i].key] = i
                               /\ kvs[i].val = {kvs[i].key} \X (1 .. count[kvs[i].key])
      /\ \A u \in Threads :
           /\ tpc[u] \in {"insert", "inserting"} => u \notin Keys(kvs)
           /\ count[u] > 0 \/ tpc[u] = "write" => u \in Keys(kvs)
           /\ tpc[u] = "write" => tctx[u] = mph[u]
      /\ ~failed
  BY DEF Owned
<1>2. PICK x \in DOMAIN kvs : kvs[x].key = t
  BY <1>0, <1>1 DEF Keys
<1>3. x = tctx[t] /\ \A i \in DOMAIN kvs : kvs[i].key = t => i = x
  BY <1>0, <1>1, <1>2
<1>4. kvs \in Seq(Entry) /\ \A i \in DOMAIN kvs : kvs[i].key \in Threads
  BY <1>0, EntryKey DEF TypeOK
<1>5. ASSUME NEW i \in DOMAIN kvs'
      PROVE  /\ mph'[kvs'[i].key] = i
             /\ kvs'[i].val = {kvs'[i].key} \X (1 .. count'[kvs'[i].key])
  <2>1. i \in DOMAIN kvs /\ kvs'[i].key = kvs[i].key
    BY WriteEntries
  <2>2. CASE i = x
    <3>1. count'[t] = count[t] + 1 /\ count[t] \in Nat
      BY <1>0, ConstantsAssumption DEF TypeOK, ConstantsAssumption
    <3>2. 1 .. count[t] + 1 = (1 .. count[t]) \union {count[t] + 1}
      BY <3>1
    <3>3. kvs'[i].val = ({t} \X (1 .. count[t])) \union {<<t, count[t] + 1>>}
      <4>1. kvs[x].val = {t} \X (1 .. count[t])
        BY <1>1, <1>2
      <4>2. kvs'[x].val = kvs[x].val \union {<<t, count[t] + 1>>}
        BY <1>3, WriteEntries
      <4> QED BY <2>2, <4>1, <4>2
    <3>4. ({t} \X (1 .. count[t])) \union {<<t, count[t] + 1>>} = {t} \X (1 .. count[t] + 1)
      BY <3>2
    <3> QED BY <1>0, <1>1, <1>2, <2>1, <2>2, <3>1, <3>3, <3>4
  <2>3. CASE i # x
    <3>1. kvs[i].key # t /\ count'[kvs[i].key] = count[kvs[i].key] /\ kvs'[i].val = kvs[i].val
      BY <1>0, <1>3, <1>4, <2>1, <2>3, WriteEntries DEF TypeOK
    <3> QED BY <1>0, <1>1, <2>1, <3>1
  <2> QED BY <2>2, <2>3
<1>6. \A u \in Threads :
        /\ tpc'[u] \in {"insert", "inserting"} => u \notin Keys(kvs')
        /\ count'[u] > 0 \/ tpc'[u] = "write" => u \in Keys(kvs')
        /\ tpc'[u] = "write" => tctx'[u] = mph'[u]
  BY <1>0, <1>1, WriteEntries DEF TypeOK
<1> QED BY <1>0, <1>1, <1>5, <1>6 DEF Owned

LEMMA NextOwned ==
  ASSUME Inv, Owned, [Next]_vars
  PROVE  Owned'
<1>1. CASE UNCHANGED vars
  BY <1>1 DEF vars, mapVars, Owned, Keys
<1>2. ASSUME NEW t \in Threads, Find(t) PROVE Owned'
  <2>1. /\ TypeOK /\ Running /\ UNCHANGED <<kvs, mph, crossed, failed, count>>
        /\ \/ /\ contains(t) /\ tpc' = [tpc EXCEPT ![t] = "write"]
              /\ tctx' = [tctx EXCEPT ![t] = mph[t]]
           \/ /\ ~contains(t) /\ tpc' = [tpc EXCEPT ![t] = "insert"]
              /\ UNCHANGED tctx
    BY <1>2 DEF Find, Goto, mapVars, Inv
  <2> SUFFICES ASSUME ~crossed PROVE Owned'
    BY <2>1 DEF Owned
  <2>2. /\ ~failed /\ Owned
        /\ \A i \in DOMAIN kvs : mph[kvs[i].key] = i
    BY <2>1 DEF Owned, Running
  <2>3. contains(t) <=> t \in Keys(kvs)
    <3>1. contains(t) => t \in Keys(kvs)
      BY <2>1 DEF contains, Keys, TypeOK
    <3>2. ASSUME NEW i \in DOMAIN kvs, kvs[i].key = t PROVE contains(t)
      <4>1. kvs # <<>>
        BY <3>2
      <4> QED BY <2>2, <3>2, <4>1 DEF contains
    <3> QED BY <3>1, <3>2 DEF Keys
  <2>4. ASSUME NEW u \in Threads
        PROVE  /\ tpc'[u] \in {"insert", "inserting"} => u \notin Keys(kvs)
               /\ count[u] > 0 \/ tpc'[u] = "write" => u \in Keys(kvs)
               /\ tpc'[u] = "write" => tctx'[u] = mph[u]
    BY <2>1, <2>2, <2>3 DEF TypeOK, Owned, Running
  <2> QED BY <2>1, <2>2, <2>4 DEF Owned, Keys, Running
<1>3. ASSUME NEW t \in Threads, BeginInsert(t) \/ LoadCount(t) \/ StoreCount(t) PROVE Owned'
  <2>1. /\ TypeOK /\ Running /\ UNCHANGED <<kvs, mph, crossed, failed, count>>
        /\ \/ /\ tpc[t] = "insert" /\ tpc' = [tpc EXCEPT ![t] = "inserting"] /\ UNCHANGED tctx
           \/ /\ tpc' = [tpc EXCEPT ![t] = "store"] /\ UNCHANGED tctx
           \/ /\ tpc' = [tpc EXCEPT ![t] = "out"] /\ tctx' = [tctx EXCEPT ![t] = 0]
    BY <1>3 DEF BeginInsert, LoadCount, StoreCount, Goto, mapVars, Inv
  <2> SUFFICES ASSUME ~crossed PROVE Owned'
    BY <2>1 DEF Owned
  <2>2. ASSUME NEW u \in Threads
        PROVE  /\ tpc'[u] \in {"insert", "inserting"} => u \notin Keys(kvs)
               /\ count[u] > 0 \/ tpc'[u] = "write" => u \in Keys(kvs)
               /\ tpc'[u] = "write" => tctx'[u] = mph[u]
    BY <2>1 DEF TypeOK, Owned, Running
  <2> QED BY <2>1, <2>2 DEF Owned, Keys, Running
<1> QED BY <1>1, <1>2, <1>3, EndInsertOwned, WriteOwned DEF Next

LEMMA InitOwned == Init => Owned
<1> SUFFICES ASSUME Init PROVE Owned
  OBVIOUS
<1>1. /\ DOMAIN kvs = {} /\ failed = FALSE /\ \A t \in Threads : count[t] = 0 /\ tpc[t] = "out"
  BY DEF Init
<1> QED BY <1>1 DEF Owned

\* As long as rebuilds only exchange pairs of entries and no insertion overlaps another
\* use of the map, the hash finds every thread that has logged, in an entry that holds
\* all of its messages and no one else's, with any number of threads logging.
THEOREM OwnLogs == Spec => []OwnLog
<1>1. Inv /\ Owned => OwnLog
  <2> SUFFICES ASSUME Inv, Owned, ~crossed, ~raced, NEW t \in Threads, count[t] > 0
               PROVE  contains(t) /\ kvs[mph[t]].val = {t} \X (1 .. count[t])
    BY DEF OwnLog
  <2>1. PICK i \in DOMAIN kvs : kvs[i].key = t
    BY DEF Owned, Keys
  <2>2. mph[t] = i /\ kvs[i].val = {t} \X (1 .. count[t])
    BY <2>1 DEF Owned
  <2>3. kvs # <<>>
    BY <2>1
  <2> QED BY <2>1, <2>2, <2>3 DEF contains
<1>2. Inv /\ Owned /\ [Next]_vars => Owned'
  BY NextOwned
<1> QED BY <1>1, <1>2, InitInv, NextInv, InitOwned, PTL DEF Spec
=============================================================================
