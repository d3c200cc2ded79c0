------------------------- MODULE MinimalPerfectHash -------------------------
(***************************************************************************)
(* MinimalPerfectHash::build and operator()                                *)
(* (lib/xnu-trace/MinimalPerfectHash.cpp): keys that share a first hash    *)
(* form a bucket; the buckets, largest first, get a salt whose hashes fall *)
(* into free slots, and a bucket of one key gets the first free slot.      *)
(*                                                                         *)
(* The hash function is any member of Hashers: hash[k][d] stands for       *)
(* Hasher::hash(k, d).  One object may be built again, as mph_map::rebuild *)
(* and MachORegions::create_hash do; m_salts then keeps its old entries.   *)
(***************************************************************************)
EXTENDS Integers, FiniteSets

CONSTANTS
  Key,      \* every key that may be asked for, member or not
  MaxKeys,  \* bound: the size of a key set
  MaxSalt,  \* bound: the salts the five seconds before the timeout suffice for
  Hashers   \* the hash functions

Slots(n) == 0 .. n - 1

ASSUME KeyAssumption == IsFiniteSet(Key)
ASSUME BoundAssumption == MaxKeys \in Nat /\ MaxSalt \in Nat
ASSUME HashersAssumption == Hashers \subseteq [Key -> [0 .. MaxSalt -> Nat]]

VARIABLES
  hash,    \* the Hasher of this object
  keys,    \* the keys of the last build
  n,       \* m_nkeys
  salts,   \* m_salts
  used,    \* slot_used
  todo,    \* the buckets build has not placed yet
  result,  \* "none", "building", "built", "timeout", or "noslot" (an assert failed)
  shrunk   \* some build had fewer keys than the one before

vars == <<hash, keys, n, salts, used, todo, result, shrunk>>

TypeOK ==
  /\ hash \in Hashers
  /\ keys \in SUBSET Key /\ n = Cardinality(keys) /\ n \in 0 .. MaxKeys
  /\ salts \in [Slots(n) -> Int]
  /\ \A b \in Slots(n) : salts[b] <= MaxSalt
  /\ used \in SUBSET Slots(n)
  /\ todo \in SUBSET Slots(n)
  /\ result \in {"none", "building", "built", "timeout", "noslot"}
  /\ shrunk \in BOOLEAN

Init ==
  /\ hash \in Hashers
  /\ keys = {} /\ n = 0 /\ salts = [b \in Slots(0) |-> 0]
  /\ used = {} /\ todo = {} /\ result = "none" /\ shrunk = FALSE

-----------------------------------------------------------------------------
(* build.                                                                  *)

\* Slip: empty buckets are marked with a number operator() takes for a slot.
Resized_Marked(s, m) == [b \in Slots(m) |-> -m - 1]

\* Slip: m_salts only ever grows.
Resized_GrowOnly(s, m) ==
  [b \in Slots(m) \union DOMAIN s |-> IF b \in DOMAIN s THEN s[b] ELSE 0]

\* m_salts.resize
Resized(s, m) == [b \in Slots(m) |-> IF b \in DOMAIN s THEN s[b] ELSE 0]

\* build(K) up to its loop.  mph_map hands it K with one key more than before,
\* mph_map_static any other set.  The uniqueness assert is mph_map's concern.
Build(K) ==
  /\ result \in {"none", "built"}
  /\ K # {} /\ Cardinality(K) <= MaxKeys
  /\ keys' = K
  /\ n' = Cardinality(K)
  /\ salts' = Resized(salts, Cardinality(K))
  /\ used' = {}
  /\ todo' = Slots(Cardinality(K))
  /\ result' = "building"
  /\ shrunk' = (shrunk \/ Cardinality(K) < n)
  /\ UNCHANGED hash

\* mod(Hasher::hash(k, d))
HashMod(k, d) == hash[k][d] % n

Bucket(b) == {k \in keys : HashMod(k, 0) = b}

\* The slots that salt d gives the keys of bucket b
Salted(b, d) == {HashMod(k, d) : k \in Bucket(b)}

\* Slip: two keys of the bucket may fall into one slot.
AllFree_Collide(b, d) == Salted(b, d) \cap used = {}

AllFree(b, d) ==
  /\ \A j, k \in Bucket(b) : HashMod(j, d) = HashMod(k, d) => j = k
  /\ Salted(b, d) \cap used = {}

\* std::sort is not stable: any of the largest buckets may be the next.
Largest(b) ==
  /\ result = "building" /\ b \in todo
  /\ \A c \in todo : Cardinality(Bucket(c)) <= Cardinality(Bucket(b))

\* Slip: the slots of the salts that did not suit stay marked.
PlaceMany_Marks(b, d) ==
  /\ Largest(b) /\ Cardinality(Bucket(b)) > 1
  /\ AllFree(b, d)
  /\ \A e \in 1 .. d - 1 : ~AllFree(b, e)
  /\ used' = used \union UNION {Salted(b, e) : e \in 1 .. d}
  /\ salts' = [salts EXCEPT ![b] = d]
  /\ todo' = todo \ {b}
  /\ UNCHANGED <<hash, keys, n, result, shrunk>>

\* A bucket of several keys and the first salt that suits it
PlaceMany(b, d) ==
  /\ Largest(b) /\ Cardinality(Bucket(b)) > 1
  /\ AllFree(b, d)
  /\ \A e \in 1 .. d - 1 : ~AllFree(b, e)
  /\ used' = used \union Salted(b, d)
  /\ salts' = [salts EXCEPT ![b] = d]
  /\ todo' = todo \ {b}
  /\ UNCHANGED <<hash, keys, n, result, shrunk>>

\* XNUFastTimeout's callback: assert(!"mph construction timed out")
TimeOut(b) ==
  /\ Largest(b) /\ Cardinality(Bucket(b)) > 1
  /\ \A d \in 1 .. MaxSalt : ~AllFree(b, d)
  /\ result' = "timeout"
  /\ UNCHANGED <<hash, keys, n, salts, used, todo, shrunk>>

FirstFree(slot) ==
  /\ slot \in Slots(n) \ used
  /\ \A s \in Slots(n) \ used : slot <= s

\* A bucket of one key
PlaceOne(b) ==
  /\ Largest(b) /\ Cardinality(Bucket(b)) = 1
  /\ \/ \E slot \in Slots(n) :
          /\ FirstFree(slot)
          /\ used' = used \union {slot}
          /\ salts' = [salts EXCEPT ![b] = -slot - 1]
          /\ UNCHANGED result
     \/ /\ used = Slots(n)
        /\ result' = "noslot"
        /\ UNCHANGED <<used, salts>>
  /\ todo' = todo \ {b}
  /\ UNCHANGED <<hash, keys, n, shrunk>>

\* What is left are empty buckets, which keep the salt they had.
Finish ==
  /\ result = "building"
  /\ \A b \in todo : Bucket(b) = {}
  /\ result' = "built"
  /\ todo' = {}
  /\ UNCHANGED <<hash, keys, n, salts, used, shrunk>>

Next ==
  \/ \E K \in SUBSET Key : Build(K)
  \/ \E b \in todo : \/ \E d \in 1 .. MaxSalt : PlaceMany(b, d)
                     \/ TimeOut(b)
                     \/ PlaceOne(b)
  \/ Finish

Spec == Init /\ [][Next]_vars

-----------------------------------------------------------------------------
\* operator()
Lookup(k) ==
  LET salt == salts[HashMod(k, 0)]
  IN IF salt < 0 THEN -salt - 1 ELSE HashMod(k, salt)

\* What build promises to its callers: a slot for every key of K, below |K|, and
\* no slot twice.
IsPerfect(f, K) ==
  /\ \A k \in K : f[k] \in Slots(Cardinality(K))
  /\ \A j, k \in K : f[j] = f[k] => j = k

\* unit-tests/MinimalPerfectHash.cpp:13-25 (check_mph) for every hash function, set
\* of keys and sequence of rebuilds: the keys get all the slots 0 .. m_nkeys - 1,
\* each exactly one.
BuiltIsPerfect == result = "built" => IsPerfect([k \in keys |-> Lookup(k)], keys)

\* assert(it != slot_used.end()): however the larger buckets were placed, a bucket
\* of one key finds a free slot.
SlotIsFree == result # "noslot"

\* mph_map indexes m_key_vals with the slot of a key that may not be a member
\* (contains, operator[], try_emplace): it is a valid index even though an empty
\* bucket still has its salt from an earlier, smaller build.
StrangersInRange ==
  result = "built" /\ ~shrunk => \A k \in Key : Lookup(k) \in Slots(n)

\* Two keys whose hashes agree modulo 2 under every salt never become a map of two:
\* build can only run into its timeout.  jevhash_32 makes every two keys below 2^19
\* such a pair, for its lowest bit is bit 19 of the key, changed by the salt alone.
InseparablePair ==
  \A j, k \in Key :
    (j # k /\ \A d \in 0 .. MaxSalt : hash[j][d] % 2 = hash[k][d] % 2)
      => ~(keys = {j, k} /\ result = "built")

\* MinimalPerfectHash.cpp:93: assert(!"mph construction timed out")
NeverTimesOut == result # "timeout"
=============================================================================
