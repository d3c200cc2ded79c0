---------------------- MODULE MinimalPerfectHashProofs ----------------------
(***************************************************************************)
(* For every hash function, every finite set of keys and every sequence of *)
(* builds: a build that ends is perfect and minimal, its assert about a    *)
(* free slot holds, and stale salts stay in range while builds only grow.  *)
(***************************************************************************)
EXTENDS MinimalPerfectHash, FiniteSetTheorems, TLAPS

\* The keys whose bucket has been placed
Placed == {k \in keys : HashMod(k, 0) \notin todo}

\* The slots used are those of the placed keys, which have one each.
Taken ==
  /\ \A k \in Placed : Lookup(k) \in used
  /\ \A s \in used : \E k \in Placed : Lookup(k) = s
  /\ \A j, k \in Placed : Lookup(j) = Lookup(k) => j = k

\* Every salt that names a slot names one below m_nkeys, older ones included.
SaltsInRange == ~shrunk => \A b \in Slots(n) : salts[b] >= -n

Phases ==
  /\ result = "none" => keys = {}
  /\ result # "none" => keys # {}
  /\ result \in {"none", "built"} => todo = {}
  /\ SlotIsFree

Inv == TypeOK /\ Taken /\ SaltsInRange /\ Phases

-----------------------------------------------------------------------------
\* A hash reduced modulo m_nkeys is a bucket and a slot.
LEMMA HashModInSlots ==
  ASSUME TypeOK, n # 0, NEW k \in Key, NEW d \in 0 .. MaxSalt
  PROVE  HashMod(k, d) \in Slots(n)
<1>1. hash \in [Key -> [0 .. MaxSalt -> Nat]]
  BY HashersAssumption DEF TypeOK
<1>2. hash[k][d] \in Nat
  BY <1>1
<1>3. n \in Nat
  BY DEF TypeOK
<1> QED
  BY <1>2, <1>3 DEF HashMod, Slots

\* m_nkeys is 0 only before the first build.
LEMMA NoKeys ==
  ASSUME TypeOK, keys # {}
  PROVE  n # 0 /\ n \in Nat
<1>1. IsFiniteSet(keys)
  BY KeyAssumption, FS_Subset DEF TypeOK
<1>2. Cardinality(keys) # 0
  BY <1>1, FS_EmptySet
<1> QED
  BY <1>2 DEF TypeOK

\* operator() reads the salt of the key's bucket, so a step that changes neither
\* that salt nor the hash function leaves the key's slot alone.
LEMMA LookupUnchanged ==
  ASSUME NEW k, hash' = hash, n' = n, salts'[HashMod(k, 0)] = salts[HashMod(k, 0)]
  PROVE  Lookup(k)' = Lookup(k)
BY DEF Lookup, HashMod

\* While a key is not placed, fewer slots are used than there are.
LEMMA FreeSlot ==
  ASSUME TypeOK, Taken, NEW k \in keys, HashMod(k, 0) \in todo
  PROVE  used # Slots(n)
<1> DEFINE f == [j \in Placed |-> Lookup(j)]
<1>1. IsFiniteSet(keys) /\ Placed \in SUBSET keys /\ k \notin Placed
  BY KeyAssumption, FS_Subset DEF TypeOK, Placed
<1>2. /\ IsFiniteSet(Placed)
      /\ Cardinality(Placed) <= Cardinality(keys)
      /\ Cardinality(keys) # Cardinality(Placed)
  BY <1>1, FS_Subset
<1>3. f \in Surjection(Placed, used)
  BY DEF Taken, Surjection
<1>4. Cardinality(used) <= Cardinality(Placed)
  BY <1>2, <1>3, FS_Surjection
<1>5. IsFiniteSet(used)
  BY <1>2, <1>3, FS_Surjection
<1>6. n \in Nat /\ n = Cardinality(keys)
  BY DEF TypeOK
<1>7. Cardinality(Slots(n)) = n
  BY <1>6, FS_Interval DEF Slots
<1>8. Cardinality(used) \in Nat /\ Cardinality(Placed) \in Nat
  BY <1>2, <1>5, FS_CardinalityType
<1> QED
  BY <1>2, <1>4, <1>6, <1>7, <1>8

-----------------------------------------------------------------------------
(* The steps.                                                              *)

\* Before the first build nothing is placed.
LEMMA InvInit == Init => Inv
<1> SUFFICES ASSUME Init PROVE Inv
  OBVIOUS
<1>1. Cardinality(keys) = 0
  BY FS_EmptySet DEF Init
<1>2. TypeOK
  <2>1. n = 0 /\ 0 \in 0 .. MaxKeys
    BY BoundAssumption DEF Init
  <2>2. salts \in [Slots(n) -> Int] /\ \A b \in Slots(n) : salts[b] <= MaxSalt
    BY BoundAssumption, <2>1 DEF Init
  <2>3. shrunk \in BOOLEAN
    BY DEF Init
  <2> QED
    BY <1>1, <2>1, <2>2, <2>3 DEF Init, TypeOK
<1>3. Taken /\ SaltsInRange /\ Phases
  BY DEF Init, Taken, Placed, SaltsInRange, Slots, Phases, SlotIsFree
<1> QED
  BY <1>2, <1>3 DEF Inv

\* A build begins with no bucket placed and keeps old salts, none out of range.
LEMMA InvBuild ==
  ASSUME Inv, NEW K \in SUBSET Key, Build(K)
  PROVE  Inv'
<1> DEFINE m == Cardinality(K)
<1>1. IsFiniteSet(K)
  BY KeyAssumption, FS_Subset
<1>2. m \in Nat /\ m # 0 /\ m \in 0 .. MaxKeys /\ m <= MaxKeys
  BY <1>1, FS_CardinalityType, FS_EmptySet, BoundAssumption DEF Build
<1>3. /\ salts' = Resized(salts, m) /\ n' = m /\ keys' = K /\ used' = {}
      /\ todo' = Slots(m) /\ result' = "building" /\ hash' = hash
      /\ shrunk' = (shrunk \/ m < n)
  BY DEF Build
<1>4. n \in Nat /\ salts \in [Slots(n) -> Int] /\ \A b \in Slots(n) : salts[b] <= MaxSalt
  BY DEF Inv, TypeOK
<1>5. TypeOK'
  <2>1. Resized(salts, m) \in [Slots(m) -> Int]
    BY <1>4 DEF Resized
  <2>2. \A b \in Slots(m) : Resized(salts, m)[b] <= MaxSalt
    BY <1>4, BoundAssumption DEF Resized
  <2>3. shrunk' \in BOOLEAN
    BY <1>3 DEF Inv, TypeOK
  <2> QED
    BY <1>2, <1>3, <2>1, <2>2, <2>3 DEF Inv, TypeOK
<1>6. Taken'
  <2>1. ASSUME NEW k \in K PROVE HashMod(k, 0)' \in Slots(m)
    <3>1. hash'[k][0] \in Nat
      BY <1>3, HashersAssumption, BoundAssumption DEF Inv, TypeOK
    <3> QED
      BY <3>1, <1>2, <1>3 DEF HashMod, Slots
  <2>2. Placed' = {}
    BY <1>3, <2>1 DEF Placed
  <2> QED
    BY <1>3, <2>2 DEF Taken
<1>7. SaltsInRange'
  <2> SUFFICES ASSUME ~shrunk', NEW b \in Slots(m)
               PROVE  salts'[b] >= -m
    BY <1>3 DEF SaltsInRange
  <2>1. ~shrunk /\ n <= m
    <3>1. ~shrunk /\ ~(m < n)
      BY <1>3, Zenon
    <3> QED
      BY <3>1, <1>2, <1>4
  <2>2. CASE b \in Slots(n)
    <3>1. salts[b] >= -n /\ salts[b] \in Int
      BY <2>1, <2>2, <1>4 DEF Inv, SaltsInRange
    <3>2. salts'[b] = salts[b]
      BY <1>3, <1>4, <2>2 DEF Resized
    <3> QED
      BY <2>1, <3>1, <3>2, <1>2, <1>4
  <2>3. CASE b \notin Slots(n)
    <3>1. salts'[b] = 0
      BY <1>3, <1>4, <2>3 DEF Resized
    <3> QED
      BY <3>1, <1>2
  <2> QED
    BY <2>2, <2>3
<1>8. Phases'
  BY <1>3 DEF Phases, SlotIsFree, Build
<1> QED
  BY <1>5, <1>6, <1>7, <1>8 DEF Inv

\* What PlaceMany and PlaceOne share: bucket b is placed, its keys get slots that
\* were free, one each, and no other salt changes.
LEMMA PlacedOneMore ==
  ASSUME TypeOK, Taken, NEW b \in todo, NEW S, keys # {},
         UNCHANGED <<hash, keys, n>>, todo' = todo \ {b}, used' = used \union S,
         S \cap used = {},
         \A c \in Slots(n) : c # b => salts'[c] = salts[c],
         \A k \in Bucket(b) : Lookup(k)' \in S,
         \A s \in S : \E k \in Bucket(b) : Lookup(k)' = s,
         \A j, k \in Bucket(b) : Lookup(j)' = Lookup(k)' => j = k
  PROVE  Taken'
<1>1. \A k \in keys : HashMod(k, 0)' = HashMod(k, 0) /\ HashMod(k, 0) \in Slots(n)
  BY HashModInSlots, NoKeys, BoundAssumption DEF HashMod, TypeOK
<1>2. /\ Placed' = Placed \union Bucket(b)
      /\ \A k \in Placed : k \in keys /\ HashMod(k, 0) # b
  BY <1>1 DEF Placed, Bucket
<1>3. \A k \in Placed : Lookup(k)' = Lookup(k)
  BY <1>1, <1>2, LookupUnchanged
<1>4. \A k \in Placed : Lookup(k)' \in used
  BY <1>3 DEF Taken
<1>5. \A s \in used : \E k \in Placed : Lookup(k)' = s
  BY <1>3 DEF Taken
<1>6. \A j, k \in Placed : Lookup(j)' = Lookup(k)' => j = k
  BY <1>3 DEF Taken
<1>7. \A k \in Placed' : Lookup(k)' \in used'
  BY <1>2, <1>4
<1>8. \A s \in used' : \E k \in Placed' : Lookup(k)' = s
  BY <1>2, <1>5
<1>9. \A j, k \in Placed' : Lookup(j)' = Lookup(k)' => j = k
  BY <1>2, <1>4, <1>6
<1> QED
  BY <1>7, <1>8, <1>9 DEF Taken

\* The first salt that suits a bucket gives its keys free slots of their own.
LEMMA InvPlaceMany ==
  ASSUME Inv, NEW b \in todo, NEW d \in 1 .. MaxSalt, PlaceMany(b, d)
  PROVE  Inv'
<1>1. keys # {} /\ n # 0 /\ n \in Nat /\ b \in Slots(n) /\ d \in 0 .. MaxSalt /\ d \in Int
  BY NoKeys, BoundAssumption DEF Inv, TypeOK, Phases, PlaceMany, Largest
<1>2. /\ UNCHANGED <<hash, keys, n, result, shrunk>> /\ todo' = todo \ {b}
      /\ used' = used \union Salted(b, d) /\ salts' = [salts EXCEPT ![b] = d]
  BY DEF PlaceMany
<1>3. salts'[b] = d /\ \A c \in Slots(n) : c # b => salts'[c] = salts[c]
  BY <1>1, <1>2 DEF Inv, TypeOK
<1>4. \A k \in Bucket(b) : k \in keys /\ Lookup(k)' = HashMod(k, d)
  BY <1>1, <1>2, <1>3 DEF Lookup, HashMod, Bucket
<1>5. Salted(b, d) \subseteq Slots(n)
  BY <1>1, HashModInSlots DEF Salted, Bucket, Inv, TypeOK
<1>6. TypeOK'
  <2>1. salts' \in [Slots(n) -> Int] /\ \A c \in Slots(n) : salts'[c] <= MaxSalt
    BY <1>1, <1>2, <1>3, BoundAssumption DEF Inv, TypeOK
  <2> QED
    BY <1>2, <1>5, <2>1 DEF Inv, TypeOK
<1>7. Taken'
  <2>1. AllFree(b, d)
    BY DEF PlaceMany
  <2>2. \A k \in Bucket(b) : Lookup(k)' \in Salted(b, d)
    BY <1>4 DEF Salted
  <2>3. \A s \in Salted(b, d) : \E k \in Bucket(b) : Lookup(k)' = s
    BY <1>4 DEF Salted
  <2>4. \A j, k \in Bucket(b) : Lookup(j)' = Lookup(k)' => j = k
    BY <1>4, <2>1 DEF AllFree
  <2>5. Salted(b, d) \cap used = {}
    BY <2>1 DEF AllFree
  <2> QED
    BY <1>1, <1>2, <1>3, <2>2, <2>3, <2>4, <2>5, PlacedOneMore DEF Inv
<1>8. SaltsInRange'
  BY <1>1, <1>2, <1>3 DEF Inv, SaltsInRange
<1>9. Phases'
  BY <1>2 DEF Inv, Phases, SlotIsFree, PlaceMany, Largest
<1> QED
  BY <1>6, <1>7, <1>8, <1>9 DEF Inv

\* A bucket of one key finds a free slot and takes it.
LEMMA InvPlaceOne ==
  ASSUME Inv, NEW b \in todo, PlaceOne(b)
  PROVE  Inv'
<1>1. keys # {} /\ n # 0 /\ n \in Nat /\ b \in Slots(n) /\ result = "building"
  BY NoKeys DEF Inv, TypeOK, Phases, PlaceOne, Largest
<1>2. UNCHANGED <<hash, keys, n, shrunk>> /\ todo' = todo \ {b}
  BY DEF PlaceOne
<1>3. IsFiniteSet(Bucket(b)) /\ Cardinality(Bucket(b)) = 1
  BY KeyAssumption, FS_Subset DEF PlaceOne, Bucket, Inv, TypeOK
<1>4. PICK k : Bucket(b) = {k}
  BY <1>3, FS_Singleton
<1>5. k \in keys /\ k \in Key /\ HashMod(k, 0) = b
  BY <1>4 DEF Bucket, Inv, TypeOK
<1>6. used # Slots(n)
  BY <1>5, FreeSlot DEF Inv
<1>7. PICK slot \in Slots(n) :
        /\ FirstFree(slot) /\ used' = used \union {slot}
        /\ salts' = [salts EXCEPT ![b] = -slot - 1] /\ UNCHANGED result
  BY <1>6 DEF PlaceOne
<1>8. slot \in Int /\ slot >= 0 /\ slot < n /\ slot \notin used
  BY <1>1, <1>7 DEF FirstFree, Slots
<1>9. salts'[b] = -slot - 1 /\ \A c \in Slots(n) : c # b => salts'[c] = salts[c]
  BY <1>1, <1>7 DEF Inv, TypeOK
<1>10. Lookup(k)' = slot
  <2>1. HashMod(k, 0)' = b
    BY <1>2, <1>5 DEF HashMod
  <2>2. -slot - 1 < 0 /\ -(-slot - 1) - 1 = slot
    BY <1>8
  <2> QED
    BY <1>9, <2>1, <2>2 DEF Lookup
<1>11. TypeOK'
  <2>1. -slot - 1 \in Int /\ -slot - 1 <= MaxSalt
    BY <1>8, BoundAssumption
  <2>2. salts' \in [Slots(n) -> Int] /\ \A c \in Slots(n) : salts'[c] <= MaxSalt
    BY <1>1, <1>7, <1>9, <2>1 DEF Inv, TypeOK
  <2> QED
    BY <1>2, <1>7, <2>2 DEF Inv, TypeOK
<1>12. Taken'
  <2>1. /\ \A j \in Bucket(b) : Lookup(j)' \in {slot}
        /\ \A s \in {slot} : \E j \in Bucket(b) : Lookup(j)' = s
        /\ \A i, j \in Bucket(b) : Lookup(i)' = Lookup(j)' => i = j
    BY <1>4, <1>10
  <2>2. {slot} \cap used = {}
    BY <1>8
  <2> QED
    BY <1>1, <1>2, <1>7, <1>9, <2>1, <2>2, PlacedOneMore DEF Inv
<1>13. SaltsInRange'
  BY <1>1, <1>2, <1>8, <1>9 DEF Inv, SaltsInRange
<1>14. Phases'
  BY <1>1, <1>2, <1>7 DEF Inv, Phases, SlotIsFree
<1> QED
  BY <1>11, <1>12, <1>13, <1>14 DEF Inv

\* Once only empty buckets are left, every key has been placed.
LEMMA InvFinish == Inv /\ Finish => Inv'
<1> SUFFICES ASSUME Inv, Finish PROVE Inv'
  OBVIOUS
<1>1. UNCHANGED <<hash, keys, n, salts, used, shrunk>> /\ result' = "built" /\ todo' = {}
  BY DEF Finish
<1>2. \A k \in keys : HashMod(k, 0) \notin todo
  BY DEF Finish, Bucket
<1>3. Placed' = Placed
  BY <1>1, <1>2 DEF Placed, HashMod
<1>4. \A k : Lookup(k)' = Lookup(k)
  BY <1>1 DEF Lookup, HashMod
<1>5. TypeOK'
  BY <1>1 DEF Inv, TypeOK
<1>6. Taken'
  BY <1>1, <1>3, <1>4 DEF Inv, Taken
<1>7. SaltsInRange' /\ Phases'
  BY <1>1 DEF Inv, SaltsInRange, Phases, SlotIsFree, Finish
<1> QED
  BY <1>5, <1>6, <1>7 DEF Inv

\* A step that changes only the result, or nothing
LEMMA InvQuiet ==
  ASSUME Inv, UNCHANGED <<hash, keys, n, salts, used, todo, shrunk>>,
         result' = result \/ (result = "building" /\ result' = "timeout")
  PROVE  Inv'
<1>1. \A k : Lookup(k)' = Lookup(k) /\ HashMod(k, 0)' = HashMod(k, 0)
  BY DEF Lookup, HashMod
<1>2. Placed' = Placed
  BY <1>1 DEF Placed
<1>3. Taken'
  BY <1>1, <1>2 DEF Inv, Taken
<1>4. TypeOK'
  BY DEF Inv, TypeOK
<1>5. SaltsInRange' /\ Phases'
  BY DEF Inv, SaltsInRange, Phases, SlotIsFree
<1> QED
  BY <1>3, <1>4, <1>5 DEF Inv

\* Inv holds throughout: build and operator() keep slots and keys matched.
THEOREM Invariance == Spec => []Inv
<1>1. Inv /\ [Next]_vars => Inv'
  <2> SUFFICES ASSUME Inv, [Next]_vars PROVE Inv'
    OBVIOUS
  <2>1. ASSUME NEW K \in SUBSET Key, Build(K) PROVE Inv'
    BY <2>1, InvBuild
  <2>2. ASSUME NEW b \in todo, NEW d \in 1 .. MaxSalt, PlaceMany(b, d) PROVE Inv'
    BY <2>2, InvPlaceMany
  <2>3. ASSUME NEW b \in todo, TimeOut(b) PROVE Inv'
    BY <2>3, InvQuiet DEF TimeOut, Largest
  <2>4. ASSUME NEW b \in todo, PlaceOne(b) PROVE Inv'
    BY <2>4, InvPlaceOne
  <2>5. CASE Finish
    BY <2>5, InvFinish
  <2>6. CASE UNCHANGED vars
    BY <2>6, InvQuiet DEF vars
  <2> QED
    BY <2>1, <2>2, <2>3, <2>4, <2>5, <2>6 DEF Next
<1> QED
  BY <1>1, InvInit, PTL DEF Spec

\* build and operator() keep their types: m_salts has an entry per key, no salt is
\* larger than those tried, and no slot is marked that the keys do not have.
THEOREM TypeCorrect == Spec => []TypeOK
<1>1. Inv => TypeOK
  BY DEF Inv
<1> QED BY <1>1, Invariance, PTL

-----------------------------------------------------------------------------
\* A build that ends gives every key of its set a slot below m_nkeys of its own
\* (check_mph in unit-tests/MinimalPerfectHash.cpp).
THEOREM PerfectWhenBuilt == Spec => []BuiltIsPerfect
<1>1. Inv => BuiltIsPerfect
  <2> SUFFICES ASSUME Inv, result = "built"
               PROVE  IsPerfect([k \in keys |-> Lookup(k)], keys)
    BY DEF BuiltIsPerfect
  <2>1. Placed = keys
    BY DEF Inv, Phases, Placed
  <2>2. n = Cardinality(keys) /\ used \subseteq Slots(n)
    BY DEF Inv, TypeOK
  <2> QED
    BY <2>1, <2>2 DEF Inv, Taken, IsPerfect
<1> QED
  BY <1>1, Invariance, PTL

\* build's assert(it != slot_used.end()) never fails.
THEOREM SlotAlwaysFree == Spec => []SlotIsFree
<1>1. Inv => SlotIsFree
  BY DEF Inv, Phases
<1> QED
  BY <1>1, Invariance, PTL

\* operator() of any key is a valid index into a vector of m_nkeys entries, as
\* mph_map relies on, whatever salts earlier and smaller builds left behind.
THEOREM StrangersStayInRange == Spec => []StrangersInRange
<1>1. Inv => StrangersInRange
  <2> SUFFICES ASSUME Inv, result = "built", ~shrunk, NEW k \in Key
               PROVE  Lookup(k) \in Slots(n)
    BY DEF StrangersInRange
  <2>1. n # 0 /\ n \in Nat
    BY NoKeys DEF Inv, Phases
  <2> DEFINE b == HashMod(k, 0)
             salt == salts[b]
  <2>2. b \in Slots(n)
    BY <2>1, HashModInSlots, BoundAssumption DEF Inv
  <2>3. salt \in Int /\ salt >= -n /\ salt <= MaxSalt
    BY <2>2 DEF Inv, TypeOK, SaltsInRange
  <2>4. CASE salt < 0
    <3>1. Lookup(k) = -salt - 1
      BY <2>4 DEF Lookup
    <3> QED
      BY <2>1, <2>3, <2>4, <3>1 DEF Slots
  <2>5. CASE salt >= 0
    <3>1. Lookup(k) = HashMod(k, salt)
      BY <2>3, <2>5 DEF Lookup
    <3>2. salt \in 0 .. MaxSalt
      BY <2>3, <2>5, BoundAssumption
    <3> QED
      BY <2>1, <3>1, <3>2, HashModInSlots DEF Inv
  <2> QED
    BY <2>3, <2>4, <2>5
<1> QED
  BY <1>1, Invariance, PTL

\* However long build searches, it finds no salt for two keys that every salt sends
\* to slots of one parity.
THEOREM InseparableNeverBuilt == Spec => []InseparablePair
<1>1. Inv => InseparablePair
  <2> SUFFICES ASSUME Inv, NEW j \in Key, NEW k \in Key, j # k,
                      \A d \in 0 .. MaxSalt : hash[j][d] % 2 = hash[k][d] % 2,
                      keys = {j, k}, result = "built"
               PROVE  FALSE
    BY DEF InseparablePair
  <2>1. n = 2
    <3>1. IsFiniteSet({j}) /\ Cardinality({j}) = 1
      BY FS_Singleton
    <3>2. Cardinality({j} \union {k}) = 2
      BY <3>1, FS_AddElement
    <3>3. keys = {j} \union {k}
      OBVIOUS
    <3> QED
      BY <3>2, <3>3 DEF Inv, TypeOK
  <2>2. Lookup(j) # Lookup(k)
    BY DEF Inv, Taken, Placed, Phases
  <2>3. \A d \in 0 .. MaxSalt : HashMod(j, d) = HashMod(k, d)
    BY <2>1 DEF HashMod
  <2> DEFINE b == HashMod(j, 0)
             salt == salts[b]
  <2>4. HashMod(k, 0) = b /\ b \in Slots(n)
    BY <2>1, <2>3, HashModInSlots, BoundAssumption DEF Inv
  <2>5. salt \in Int /\ salt <= MaxSalt
    BY <2>4 DEF Inv, TypeOK
  <2>6. CASE salt < 0
    BY <2>2, <2>4, <2>6 DEF Lookup
  <2>7. CASE salt >= 0
    <3>1. salt \in 0 .. MaxSalt
      BY <2>5, <2>7, BoundAssumption
    <3>2. Lookup(j) = HashMod(j, salt) /\ Lookup(k) = HashMod(k, salt)
      BY <2>4, <2>5, <2>7 DEF Lookup
    <3> QED
      BY <2>2, <2>3, <3>1, <3>2
  <2> QED
    BY <2>5, <2>6, <2>7
<1> QED
  BY <1>1, Invariance, PTL
=============================================================================
