--------------------------- MODULE BitVectorProofs ---------------------------
(***************************************************************************)
(* Proofs about BitVector, for any width of values and words, any sizes    *)
(* and any writers.  Element i owns the Width bits from bit_idx(i) on; a   *)
(* set() writes those bits of i, and of the elements the properties speak  *)
(* about changes no other.                                                 *)
(***************************************************************************)
EXTENDS BitVector, TLAPS

Calls == [idx : Indices, val : SUBSET {0}, seen : SUBSET {0}]

\* Only an atomic vector has writers inside set().
CallsOK ==
  /\ call \in [Writers -> {None} \union Calls]
  /\ \A w \in Writers : call[w] # None => kind = "atomic"

Pending(i) == \E w \in Writers : call[w] # None /\ call[w].idx = i

\* The bits of element i are those of the value last stored.
Holds(i) == \A k \in 0 .. Width - 1 : bit_idx(i) + k \in buf <=> k \in vals[i]

Sound == \A i \in Indices \ suspect : ~Pending(i) => Holds(i)

\* What a writer has seen of a bit is still there when it flips it, unless another
\* writer was setting that bit too.
InFlight ==
  \A w \in Writers : call[w] # None =>
    /\ call[w].idx \notin suspect => (0 \in call[w].seen <=> call[w].idx \in buf)
    /\ \A u \in Writers \ {w} : call[u] # None /\ call[u].idx = call[w].idx
                                  => call[w].idx \in suspect

Inv == TypeOK /\ CallsOK /\ StaysInBuffer

-----------------------------------------------------------------------------
(* Arithmetic.                                                             *)

LEMMA Quotient ==
  ASSUME NEW a \in Nat, NEW m \in Nat \ {0}
  PROVE  /\ a \div m \in Nat /\ m * (a \div m) \in Nat /\ (a \div m) * m = m * (a \div m)
         /\ m * (a \div m) <= a /\ a < m * (a \div m) + m
  OBVIOUS

LEMMA Divides ==
  ASSUME NEW a \in Nat, NEW m \in Nat \ {0}, a % m = 0
  PROVE  \E q \in Nat : a = m * q
<1>1. a \div m \in Nat
  BY Quotient
<1>2. a = m * (a \div m)
  OBVIOUS
<1> QED BY <1>1, <1>2

LEMMA Multiples ==
  ASSUME NEW m \in Nat, NEW i \in Nat, NEW j \in Nat
  PROVE  m * i \in Nat /\ m * (i + 1) = m * i + m /\ (i < j => m * i + m <= m * j)
  OBVIOUS

\* A multiple below another is at least one step below it.
LEMMA MultipleBelow ==
  ASSUME NEW m \in Nat \ {0}, NEW i \in Nat, NEW j \in Nat, m * i < m * j
  PROVE  m * i + m <= m * j
<1>1. i < j
  OBVIOUS
<1> QED BY <1>1, Multiples

LEMMA RoundedUp ==
  ASSUME NEW n \in Nat, NEW m \in Nat \ {0}
  PROVE  /\ RoundUp(n, m) \in Nat /\ n <= RoundUp(n, m)
         /\ \E q \in Nat : RoundUp(n, m) = m * q
<1> DEFINE a == n + m - 1
           q == a \div m
<1>1. a \in Nat /\ n = a - m + 1
  OBVIOUS
<1>2. q \in Nat /\ m * q \in Nat /\ q * m = m * q /\ a < m * q + m
  BY <1>1, Quotient
<1>3. RoundUp(n, m) = m * q
  BY <1>2 DEF RoundUp
<1> HIDE DEF q, a
<1> QED BY <1>1, <1>2, <1>3

-----------------------------------------------------------------------------
(* Where the elements are.                                                 *)

LEMMA Widths ==
  ASSUME kind \in Kinds
  PROVE  /\ Width \in 1 .. TBits /\ Width \in Nat \ {0} /\ TBits \in Nat \ {0} /\ Width <= TBits
         /\ kind = "exact" => Width = TBits
         /\ kind \in {"bit", "atomic"} => Width = 1
         /\ kind \in {"packed", "split"} => Width = NBits /\ Width < TBits
<1>1. TBits \in Nat \ {0} /\ NBits \in Nat \ {0} /\ NBits < TBits
  BY ConstantsAssumption DEF ConstantsAssumption
<1> QED BY <1>1 DEF Width, Kinds

\* The buffer has room for the elements, and ends with a word.
LEMMA Room ==
  ASSUME kind \in Kinds, size \in Nat
  PROVE  /\ BufBits \in Nat /\ bit_idx(size) \in Nat /\ bit_idx(size) <= BufBits
         /\ \E q \in Nat : BufBits = TBits * q
         /\ kind = "packed" => bit_idx(size) + TBits <= BufBits
<1> DEFINE bs == ByteSz(kind, Width, size)
<1>0. /\ TBits \in Nat \ {0} /\ PadBits \in Nat \ {0} /\ PadBits % TBits = 0
  BY Widths, ConstantsAssumption DEF ConstantsAssumption
<1>1. bit_idx(size) = Width * size /\ Width * size \in Nat
  BY Widths, Multiples DEF bit_idx
<1>2. bs \in Nat /\ Width * size <= bs /\ (kind = "packed" => Width * size + TBits <= bs)
  <2>1. CASE kind = "exact"
    BY <1>1, <2>1 DEF ByteSz
  <2>2. CASE kind \in {"bit", "atomic"}
    <3>1. bs = RoundUp(size, TBits) /\ Width * size = size
      BY <2>2, Widths DEF ByteSz
    <3> QED BY <1>0, <2>2, <3>1, RoundedUp
  <2>3. CASE kind = "packed"
    <3>1. bs = RoundUp(Width * size + TBits, 2 * TBits)
      BY <2>3 DEF ByteSz
    <3>2. Width * size + TBits \in Nat /\ 2 * TBits \in Nat \ {0}
      BY <1>0, <1>1
    <3>3. bs \in Nat /\ Width * size + TBits <= bs
      BY <3>1, <3>2, RoundedUp
    <3> QED BY <1>0, <1>1, <3>3
  <2>4. CASE kind = "split"
    <3>1. bs = RoundUp(Width * size, TBits)
      BY <2>4 DEF ByteSz
    <3> QED BY <1>0, <1>1, <2>4, <3>1, RoundedUp
  <2> QED BY <2>1, <2>2, <2>3, <2>4 DEF Kinds
<1>3. BufBits = RoundUp(bs, PadBits)
  BY DEF BufBits
<1> HIDE DEF bs
<1>4. BufBits \in Nat /\ bs <= BufBits
  BY <1>0, <1>2, <1>3, RoundedUp
<1>5. \E q \in Nat : BufBits = TBits * q
  <2>1. PICK r \in Nat : BufBits = PadBits * r
    BY <1>0, <1>2, <1>3, RoundedUp
  <2>2. PICK p \in Nat : PadBits = TBits * p
    BY <1>0, Divides
  <2>3. p * r \in Nat /\ (TBits * p) * r = TBits * (p * r)
    BY <1>0
  <2> QED BY <2>1, <2>2, <2>3
<1> QED BY <1>0, <1>1, <1>2, <1>4, <1>5

\* The bits of an element, and those of the elements below and above it
LEMMA Layout ==
  ASSUME kind \in Kinds, size \in Nat, NEW i \in Indices
  PROVE  /\ i \in Nat /\ bit_idx(i) \in Nat /\ bit_idx(i + 1) = bit_idx(i) + Width
         /\ bit_idx(i) + Width <= bit_idx(size) /\ bit_idx(size) <= BufBits /\ BufBits \in Nat
         /\ \A j \in Indices : j < i => bit_idx(j) + Width <= bit_idx(i)
         /\ \A j \in Indices : i < j => bit_idx(i) + Width <= bit_idx(j)
         /\ \A j \in Indices : j \in Nat /\ bit_idx(j) \in Nat
<1>1. \A j \in Indices : j \in Nat /\ j < size
  BY DEF Indices
<1>2. Width \in Nat
  BY Widths
<1>3. \A j \in Indices : bit_idx(j) \in Nat
  BY <1>1, <1>2, Multiples DEF bit_idx
<1>4. \A j \in Indices : (j < i => bit_idx(j) + Width <= bit_idx(i)) /\ (i < j => bit_idx(i) + Width <= bit_idx(j))
  BY <1>1, <1>2, Multiples DEF bit_idx
<1>5. bit_idx(i + 1) = bit_idx(i) + Width /\ bit_idx(i) + Width <= bit_idx(size)
  BY <1>1, <1>2, Multiples DEF bit_idx
<1> QED BY <1>1, <1>3, <1>4, <1>5, Room

LEMMA WordOf ==
  ASSUME kind \in Kinds, NEW b \in Nat
  PROVE  /\ word_idx(b) \in Nat /\ word_idx(b) * TBits \in Nat
         /\ inner_bit_idx(b) \in 0 .. TBits - 1 /\ word_idx(b) * TBits + inner_bit_idx(b) = b
         /\ word_idx(b) * TBits = TBits * word_idx(b)
<1> DEFINE q == word_idx(b)
<1>1. TBits \in Nat \ {0}
  BY Widths
<1>2. q \in Nat /\ TBits * q \in Nat /\ q * TBits = TBits * q /\ TBits * q <= b /\ b < TBits * q + TBits
  BY <1>1, Quotient DEF word_idx
<1>3. inner_bit_idx(b) = b - q * TBits
  BY DEF inner_bit_idx
<1> HIDE DEF q
<1>4. q * TBits \in Nat /\ inner_bit_idx(b) \in 0 .. TBits - 1 /\ q * TBits + inner_bit_idx(b) = b
  BY <1>1, <1>2, <1>3
<1> QED BY <1>2, <1>4 DEF q

\* A word that begins before a bit of the buffer is in the buffer.
LEMMA WordInBuffer ==
  ASSUME kind \in Kinds, size \in Nat, NEW b \in Nat, b < BufBits
  PROVE  word_idx(b) * TBits + TBits <= BufBits
<1>1. TBits \in Nat \ {0} /\ BufBits \in Nat
  BY Widths, Room
<1>2. PICK q \in Nat : BufBits = TBits * q
  BY Room
<1>3. word_idx(b) \in Nat /\ word_idx(b) * TBits = TBits * word_idx(b) /\ TBits * word_idx(b) <= b
  BY <1>1, Quotient DEF word_idx
<1>4. TBits * word_idx(b) \in Nat
  BY <1>1, <1>3, Multiples
<1>5. TBits * word_idx(b) < TBits * q
  BY <1>1, <1>2, <1>3, <1>4
<1>6. TBits * word_idx(b) + TBits <= TBits * q
  BY <1>1, <1>3, <1>5, MultipleBelow
<1> QED BY <1>2, <1>3, <1>6

-----------------------------------------------------------------------------
(* What set() does to the bits.                                            *)

\* Bit p of the buffer after word w, with ins in place of nb of its bits, was stored
LEMMA Written ==
  ASSUME BufBits \in Nat, NEW b, NEW at \in Nat, NEW w \in Nat, NEW sb \in Nat,
         NEW ins \in SUBSET Nat, NEW mask, NEW p \in Nat, p < BufBits
  PROVE  p \in Store(b, at, w, InsertBits(Load(at, w), ins, sb, mask, w))
           <=> IF at <= p /\ p < at + w
               THEN (p - at >= sb /\ p - at - sb \in ins) \/ (p \in buf /\ p - at \notin mask)
               ELSE p \in b
<1> DEFINE word == InsertBits(Load(at, w), ins, sb, mask, w)
<1>1. ASSUME NEW k \in 0 .. w - 1
      PROVE  k \in word <=> (k >= sb /\ k - sb \in ins) \/ (at + k \in buf /\ k \notin mask)
  <2>1. k \in {j + sb : j \in ins} <=> k >= sb /\ k - sb \in ins
    <3>1. ASSUME NEW j \in ins, k = j + sb PROVE k >= sb /\ k - sb = j
      BY <3>1
    <3>2. ASSUME k >= sb, k - sb \in ins PROVE k = (k - sb) + sb
      OBVIOUS
    <3> QED BY <3>1, <3>2
  <2>2. k \in Load(at, w) <=> at + k \in buf
    BY DEF Load
  <2> QED BY <2>1, <2>2 DEF InsertBits
<1>2. word \subseteq 0 .. w - 1
  BY DEF InsertBits, Load
<1> HIDE DEF word
<1>3. p \in {at + k : k \in word} <=> at <= p /\ p < at + w /\ p - at \in word
  <2>1. ASSUME NEW k \in word, p = at + k PROVE at <= p /\ p < at + w /\ p - at = k
    BY <1>2, <2>1
  <2>2. at <= p => p = at + (p - at)
    OBVIOUS
  <2> QED BY <2>1, <2>2
<1>4. p \in Store(b, at, w, word)
        <=> ((p \in b /\ ~(at <= p /\ p < at + w)) \/ p \in {at + k : k \in word})
  <2>1. p \in at .. at + w - 1 <=> at <= p /\ p < at + w
    OBVIOUS
  <2>2. p \in 0 .. BufBits - 1
    OBVIOUS
  <2> QED BY <2>1, <2>2 DEF Store
<1>5. CASE at <= p /\ p < at + w
  <2>1. p - at \in 0 .. w - 1 /\ at + (p - at) = p
    BY <1>5
  <2> QED BY <1>1, <1>3, <1>4, <1>5, <2>1 DEF word
<1>6. CASE ~(at <= p /\ p < at + w)
  BY <1>3, <1>4, <1>6 DEF word
<1> QED BY <1>5, <1>6

\* A set() of element i that writes its bits, and of the other elements only disturbs
\* those it makes suspect, leaves the vector sound.
LEMMA SoundAfterSet ==
  ASSUME Inv, Sound, kind # "atomic", NEW i \in Indices, NEW v \in SUBSET (0 .. Width - 1),
         UNCHANGED <<kind, signed, size, call>>, vals' = [vals EXCEPT ![i] = v],
         suspect \ {i} \subseteq suspect',
         \A k \in 0 .. Width - 1 : bit_idx(i) + k \in buf' <=> k \in v,
         \A j \in Indices \ suspect' : j # i =>
           \A k \in 0 .. Width - 1 : bit_idx(j) + k \in buf' <=> bit_idx(j) + k \in buf
  PROVE  Sound'
<1>1. Width' = Width /\ Indices' = Indices
  BY DEF Width, Indices
<1>2. ASSUME NEW j \in Indices, j \notin suspect' PROVE Holds(j)'
  <2>1. vals' = [vals EXCEPT ![i] = v] /\ vals \in [Indices -> SUBSET (0 .. Width - 1)]
    BY DEF Inv, TypeOK
  <2>2. bit_idx(j)' = bit_idx(j)
    BY <1>1 DEF bit_idx
  <2>3. CASE j = i
    <3>1. vals'[j] = v
      BY <2>1, <2>3
    <3> QED BY <1>1, <2>2, <2>3, <3>1 DEF Holds
  <2>4. CASE j # i
    <3>1. vals'[j] = vals[j] /\ j \notin suspect
      BY <1>2, <2>1, <2>4
    <3>2. ~Pending(j)
      BY DEF Pending, Inv, CallsOK
    <3>3. Holds(j)
      BY <3>1, <3>2 DEF Sound
    <3> QED BY <1>1, <1>2, <2>2, <2>4, <3>1, <3>3 DEF Holds
  <2> QED BY <2>3, <2>4
<1> QED BY <1>1, <1>2 DEF Sound

\* A bit of another element is not one of those from bit_idx(i) on.
LEMMA OtherBits ==
  ASSUME kind \in Kinds, size \in Nat, NEW i \in Indices, NEW j \in Indices, i # j,
         NEW k \in 0 .. Width - 1
  PROVE  /\ bit_idx(j) + k \in Nat /\ bit_idx(j) + k < BufBits
         /\ j < i => bit_idx(j) + k < bit_idx(i)
         /\ i < j => bit_idx(i) + Width <= bit_idx(j) + k
         /\ j < i \/ i < j
<1>1. Width \in Nat \ {0} /\ k \in Nat /\ k < Width
  BY Widths
<1>2. /\ bit_idx(j) \in Nat /\ bit_idx(i) \in Nat /\ bit_idx(j) + Width <= BufBits /\ BufBits \in Nat
      /\ i \in Nat /\ j \in Nat
  BY <1>1, Layout, Room
<1>3. j < i \/ i < j
  BY <1>2
<1>4. /\ j < i => bit_idx(j) + Width <= bit_idx(i)
      /\ i < j => bit_idx(i) + Width <= bit_idx(j)
  BY Layout
<1> QED BY <1>1, <1>2, <1>3, <1>4

-----------------------------------------------------------------------------
(* The setters keep the vector sound.                                      *)

LEMMA SampleTypes ==
  ASSUME kind \in Kinds, NEW v \in Samples(Width)
  PROVE  v \in SUBSET (0 .. Width - 1)
<1>1. Width \in 1 .. TBits
  BY Widths
<1> QED BY <1>1, ConstantsAssumption DEF ConstantsAssumption

LEMMA SoundExact ==
  ASSUME Inv, Sound, NEW i \in Indices, NEW v \in Samples(Width), SetExact(i, v)
  PROVE  Sound'
<1>0. /\ kind \in Kinds /\ size \in Nat /\ kind = "exact" /\ Width = TBits /\ TBits \in Nat \ {0}
      /\ v \in SUBSET (0 .. Width - 1) /\ UNCHANGED <<kind, signed, size, call, suspect>>
      /\ vals' = [vals EXCEPT ![i] = v] /\ buf' = Store(buf, TBits * i, TBits, v)
  BY Widths, SampleTypes, ConstantsAssumption DEF Inv, TypeOK, SetExact, fixed, ConstantsAssumption
<1> DEFINE x == bit_idx(i)
<1>1. x \in Nat /\ x + Width <= BufBits /\ BufBits \in Nat /\ buf' = Store(buf, x, Width, v)
  <2>1. x = TBits * i
    BY <1>0 DEF bit_idx
  <2>2. x \in Nat /\ x + Width <= bit_idx(size) /\ bit_idx(size) <= BufBits /\ BufBits \in Nat /\ bit_idx(size) \in Nat
    BY <1>0, Layout, Room
  <2> QED BY <1>0, <2>1, <2>2
<1> HIDE DEF x
<1>2. ASSUME NEW p \in Nat, p < BufBits
      PROVE  p \in buf' <=> IF x <= p /\ p < x + Width THEN p - x \in v ELSE p \in buf
  <2>1. p \in {x + k : k \in v} <=> x <= p /\ p - x \in v
    <3>1. ASSUME NEW k \in v, p = x + k PROVE x <= p /\ p - x = k
      BY <1>0, <1>1, <3>1
    <3>2. x <= p => p = x + (p - x)
      BY <1>1
    <3> QED BY <3>1, <3>2
  <2>2. p - x \in v => p < x + Width
    BY <1>0, <1>1
  <2>3. p \in x .. x + Width - 1 <=> x <= p /\ p < x + Width
    BY <1>0, <1>1
  <2>4. p \in 0 .. BufBits - 1
    BY <1>1, <1>2
  <2> QED BY <1>1, <2>1, <2>2, <2>3, <2>4 DEF Store
<1>3. ASSUME NEW k \in 0 .. Width - 1 PROVE x + k \in buf' <=> k \in v
  <2>1. x + k \in Nat /\ x + k < BufBits /\ x <= x + k /\ x + k < x + Width /\ (x + k) - x = k
    BY <1>0, <1>1
  <2> QED BY <1>2, <2>1
<1>4. ASSUME NEW j \in Indices, j # i, NEW k \in 0 .. Width - 1
      PROVE  bit_idx(j) + k \in buf' <=> bit_idx(j) + k \in buf
  <2>1. /\ bit_idx(j) + k \in Nat /\ bit_idx(j) + k < BufBits
        /\ bit_idx(j) + k < x \/ x + Width <= bit_idx(j) + k
    BY <1>0, <1>4, OtherBits DEF x
  <2>2. ~(x <= bit_idx(j) + k /\ bit_idx(j) + k < x + Width)
    BY <1>0, <1>1, <2>1
  <2> QED BY <1>2, <2>1, <2>2
<1> QED BY <1>0, <1>3, <1>4, SoundAfterSet DEF x

LEMMA SoundBit ==
  ASSUME Inv, Sound, NEW i \in Indices, NEW v \in Samples(Width), SetBit(i, v)
  PROVE  Sound'
<1> DEFINE at == word_idx(i) * TBits
           sb == inner_bit_idx(i)
<1>0. /\ kind \in Kinds /\ size \in Nat /\ kind = "bit" /\ Width = 1 /\ TBits \in Nat \ {0}
      /\ v \in SUBSET (0 .. Width - 1) /\ UNCHANGED <<kind, signed, size, call, suspect>>
      /\ vals' = [vals EXCEPT ![i] = v]
  BY Widths, SampleTypes, ConstantsAssumption DEF Inv, TypeOK, SetBit, fixed, ConstantsAssumption
<1>1. PICK mask \in BitMasks(sb, 1, TBits) :
        buf' = Store(buf, at, TBits, InsertBits(Load(at, TBits), v, sb, mask, TBits))
  BY DEF SetBit
<1>2. mask = (sb .. sb + 1 - 1) \intersect (0 .. TBits - 1)
  BY <1>1 DEF BitMasks
<1>3. /\ i \in Nat /\ at \in Nat /\ sb \in 0 .. TBits - 1 /\ at + sb = i
      /\ \A j \in Indices : j \in Nat /\ bit_idx(j) = j
  <2>1. \A j \in Indices : j \in Nat
    BY <1>0 DEF Indices
  <2>2. \A j \in Indices : bit_idx(j) = j
    BY <1>0, <2>1 DEF bit_idx
  <2> QED BY <1>0, <2>1, <2>2, WordOf
<1>4. BufBits \in Nat /\ \A j \in Indices : j < BufBits
  <2>1. ASSUME NEW j \in Indices PROVE j < BufBits
    <3>1. /\ bit_idx(j) + Width <= bit_idx(size) /\ bit_idx(size) <= BufBits
          /\ bit_idx(size) \in Nat /\ BufBits \in Nat
      BY <1>0, Layout, Room
    <3>2. bit_idx(j) = j /\ j \in Nat /\ Width = 1
      BY <1>0, <1>3
    <3> QED BY <3>1, <3>2
  <2> QED BY <1>0, <2>1, Room
<1> HIDE DEF at, sb
<1>5. ASSUME NEW j \in Indices PROVE j \in buf' <=> IF j = i THEN 0 \in v ELSE j \in buf
  <2>1. /\ j \in Nat /\ j < BufBits /\ v \in SUBSET Nat /\ sb \in Nat
    BY <1>0, <1>3, <1>4
  <2>2. j \in buf' <=> IF at <= j /\ j < at + TBits
                       THEN (j - at >= sb /\ j - at - sb \in v) \/ (j \in buf /\ j - at \notin mask)
                       ELSE j \in buf
    BY <1>0, <1>1, <1>3, <1>4, <2>1, Written
  <2>3. CASE j = i
    <3>1. at <= j /\ j < at + TBits /\ j - at >= sb /\ j - at - sb = 0 /\ j - at \in mask
      BY <1>0, <1>2, <1>3, <2>3
    <3> QED BY <2>2, <2>3, <3>1
  <2>4. CASE j # i
    <3>1. at <= j => j - at \notin mask /\ j - at - sb # 0
      BY <1>0, <1>2, <1>3, <2>1, <2>4
    <3>2. at <= j => j - at - sb \notin v
      <4>1. v \subseteq {0}
        BY <1>0
      <4> QED BY <3>1, <4>1
    <3> QED BY <2>2, <2>4, <3>1, <3>2
  <2> QED BY <2>3, <2>4
<1>6. \A j \in Indices : \A k \in 0 .. Width - 1 : k = 0 /\ bit_idx(j) + k = j
  BY <1>0, <1>3
<1>7. \A k \in 0 .. Width - 1 : bit_idx(i) + k \in buf' <=> k \in v
  BY <1>5, <1>6
<1>8. \A j \in Indices \ suspect' : j # i =>
        \A k \in 0 .. Width - 1 : bit_idx(j) + k \in buf' <=> bit_idx(j) + k \in buf
  BY <1>5, <1>6
<1> QED BY <1>0, <1>7, <1>8, SoundAfterSet

\* The bits of element i that a store into words at .. at + w - 1 changes, when its
\* own are among them and ins begins with its value
LEMMA ElementWritten ==
  ASSUME kind \in Kinds, size \in Nat, NEW i \in Indices, NEW at \in Nat, NEW w \in Nat,
         NEW sb \in Nat, at + sb = bit_idx(i), sb + Width <= w,
         NEW ins \in SUBSET Nat, NEW mask \in BitMasks(sb, Width, w), NEW j \in Indices,
         NEW k \in 0 .. Width - 1,
         buf' = Store(buf, at, w, InsertBits(Load(at, w), ins, sb, mask, w))
  PROVE  /\ bit_idx(i) + k \in buf' <=> k \in ins
         /\ j < i \/ at + w <= bit_idx(j) \/ (i < j /\ ins \subseteq 0 .. Width - 1)
              => (bit_idx(j) + k \in buf' <=> bit_idx(j) + k \in buf)
<1> DEFINE x == bit_idx(i)
           y == bit_idx(j)
<1>0. /\ Width \in Nat \ {0} /\ BufBits \in Nat /\ x \in Nat /\ y \in Nat /\ x + Width <= BufBits
      /\ k \in Nat /\ k < Width /\ x = at + sb /\ i \in Nat /\ j \in Nat /\ y + k < BufBits
  <2>1. Width \in Nat \ {0} /\ BufBits \in Nat /\ x \in Nat /\ y \in Nat /\ i \in Nat /\ j \in Nat
    BY Widths, Layout, Room
  <2>2. x + Width <= BufBits /\ y + Width <= BufBits
    <3>1. /\ x + Width <= bit_idx(size) /\ y + Width <= bit_idx(size)
          /\ bit_idx(size) <= BufBits /\ bit_idx(size) \in Nat
      BY Layout, Room
    <3> QED BY <2>1, <3>1
  <2> QED BY <2>1, <2>2
<1>1. /\ j < i => y + k < x
      /\ i < j => x + Width <= y + k
  BY <1>0, OtherBits
<1>2. mask = (sb .. sb + Width - 1) \intersect (0 .. w - 1)
  BY <1>0 DEF BitMasks
<1> HIDE DEF x, y
<1>3. ASSUME NEW p \in Nat, p < BufBits
      PROVE  p \in buf' <=> IF at <= p /\ p < at + w
                            THEN (p - at >= sb /\ p - at - sb \in ins) \/ (p \in buf /\ p - at \notin mask)
                            ELSE p \in buf
  <2>1. p \in Store(buf, at, w, InsertBits(Load(at, w), ins, sb, mask, w))
          <=> IF at <= p /\ p < at + w
              THEN (p - at >= sb /\ p - at - sb \in ins) \/ (p \in buf /\ p - at \notin mask)
              ELSE p \in buf
    BY <1>0, <1>3, Written
  <2> QED BY <2>1, Zenon
<1>4. x + k \in buf' <=> k \in ins
  <2> DEFINE p == x + k
  <2>1. /\ p \in Nat /\ p < BufBits /\ at <= p /\ p < at + w
        /\ p - at >= sb /\ p - at - sb = k /\ p - at \in mask
    BY <1>0, <1>2
  <2> HIDE DEF p
  <2>2. p \in buf' <=> (p - at >= sb /\ p - at - sb \in ins) \/ (p \in buf /\ p - at \notin mask)
    BY <1>3, <2>1
  <2>3. p \in buf' <=> k \in ins
    BY <2>1, <2>2
  <2> QED BY <2>3 DEF p
<1>5. ASSUME j < i \/ at + w <= y \/ (i < j /\ ins \subseteq 0 .. Width - 1)
      PROVE  y + k \in buf' <=> y + k \in buf
  <2>1. y + k \in Nat
    BY <1>0
  <2>2. CASE j < i
    <3>1. ~(y + k - at >= sb) /\ (at <= y + k => y + k - at \notin mask)
      BY <1>0, <1>1, <1>2, <2>1, <2>2
    <3> QED BY <1>0, <1>3, <2>1, <3>1
  <2>3. CASE at + w <= y
    <3>1. ~(y + k < at + w)
      BY <1>0, <2>3
    <3> QED BY <1>0, <1>3, <2>1, <3>1
  <2>4. CASE i < j /\ ins \subseteq 0 .. Width - 1
    <3>1. y + k - at - sb \notin 0 .. Width - 1 /\ y + k - at \notin mask
      BY <1>0, <1>1, <1>2, <2>1, <2>4
    <3> QED BY <1>0, <1>3, <2>1, <2>4, <3>1
  <2> QED BY <1>5, <2>2, <2>3, <2>4
<1> QED BY <1>4, <1>5 DEF x, y

LEMMA SoundPacked ==
  ASSUME Inv, Sound, NEW i \in Indices, NEW v \in Samples(Width), SetPacked(i, v)
  PROVE  Sound'
<1> DEFINE at == word_idx(bit_idx(i)) * TBits
           sb == inner_bit_idx(bit_idx(i))
           w  == 2 * TBits
           above == {j \in Indices : i < j /\ bit_idx(j) < at + w}
           ins == Extend(v, w)
<1>0. /\ kind \in Kinds /\ size \in Nat /\ kind = "packed" /\ Width < TBits /\ Width \in Nat \ {0}
      /\ TBits \in Nat \ {0} /\ v \in SUBSET (0 .. Width - 1)
      /\ UNCHANGED <<kind, signed, size, call>> /\ vals' = [vals EXCEPT ![i] = v]
  BY Widths, SampleTypes, ConstantsAssumption DEF Inv, TypeOK, SetPacked, fixed, ConstantsAssumption
<1>1. PICK mask \in BitMasks(sb, Width, w) : buf' = Store(buf, at, w, InsertBits(Load(at, w), ins, sb, mask, w))
  BY DEF SetPacked
<1>2. suspect' = (suspect \ {i}) \union (IF ins = v THEN {} ELSE above)
  BY DEF SetPacked
<1>3. at \in Nat /\ sb \in 0 .. TBits - 1 /\ at + sb = bit_idx(i) /\ bit_idx(i) \in Nat
  BY <1>0, WordOf, Layout
<1>4. sb \in Nat /\ w \in Nat /\ sb + Width <= w
  BY <1>0, <1>3
<1>5. ins \in SUBSET Nat /\ \A k \in 0 .. Width - 1 : k \in ins <=> k \in v
  BY <1>0, <1>4 DEF Extend
<1> HIDE DEF at, sb, w, ins
<1>6. ASSUME NEW k \in 0 .. Width - 1 PROVE bit_idx(i) + k \in buf' <=> k \in v
  <2>1. bit_idx(i) + k \in buf' <=> k \in ins
    BY <1>0, <1>1, <1>3, <1>4, <1>5, ElementWritten
  <2> QED BY <1>5, <2>1
<1>7. ASSUME NEW j \in Indices, j \notin suspect', j # i, NEW k \in 0 .. Width - 1
      PROVE  bit_idx(j) + k \in buf' <=> bit_idx(j) + k \in buf
  <2>1. j \in Nat /\ i \in Nat /\ bit_idx(j) \in Nat
    BY <1>0, Layout
  <2>2. j < i \/ at + w <= bit_idx(j) \/ (i < j /\ ins \subseteq 0 .. Width - 1)
    <3>1. CASE ins = v
      BY <1>0, <1>7, <2>1, <3>1
    <3>2. CASE ins # v
      <4>1. ~(i < j /\ bit_idx(j) < at + w)
        BY <1>2, <1>7, <3>2
      <4> QED BY <1>3, <1>4, <1>7, <2>1, <4>1
    <3> QED BY <3>1, <3>2
  <2> QED BY <1>0, <1>1, <1>3, <1>4, <1>5, <2>2, ElementWritten
<1> QED BY <1>0, <1>2, <1>6, <1>7, SoundAfterSet

\* An element that does not end in the word it begins in ends in the next one, r bits
\* into it.
LEMMA NextWord ==
  ASSUME kind \in Kinds, size \in Nat, Width < TBits, NEW i \in Indices,
         word_idx(bit_idx(i)) # word_idx(bit_idx(i + 1))
  PROVE  LET lw == word_idx(bit_idx(i))
             hw == word_idx(bit_idx(i + 1))
             sb == inner_bit_idx(bit_idx(i))
         IN /\ hw * TBits = lw * TBits + TBits
            /\ inner_bit_idx(bit_idx(i + 1)) = Width - (TBits - sb)
            /\ Width - (TBits - sb) \in Nat /\ TBits - sb \in Nat \ {0}
<1> DEFINE lw == word_idx(bit_idx(i))
           hw == word_idx(bit_idx(i + 1))
           sb == inner_bit_idx(bit_idx(i))
           r == inner_bit_idx(bit_idx(i + 1))
           x == bit_idx(i)
<1>1. /\ x \in Nat /\ bit_idx(i + 1) = x + Width /\ Width \in Nat \ {0} /\ TBits \in Nat \ {0}
  BY Layout, Widths
<1>2. /\ lw \in Nat /\ lw * TBits \in Nat /\ sb \in 0 .. TBits - 1 /\ lw * TBits + sb = x
      /\ lw * TBits = TBits * lw
  BY <1>1, WordOf
<1>3. /\ hw \in Nat /\ hw * TBits \in Nat /\ r \in 0 .. TBits - 1 /\ hw * TBits + r = x + Width
      /\ hw * TBits = TBits * hw
  <2>1. x + Width \in Nat
    BY <1>1
  <2> QED BY <1>1, <2>1, WordOf
<1>4. lw # hw
  OBVIOUS
<1> HIDE DEF lw, hw, sb, r, x
<1>5. hw < lw => hw * TBits + TBits <= lw * TBits
  BY <1>1, <1>2, <1>3, Multiples
<1>6. lw < hw
  BY <1>1, <1>2, <1>3, <1>4, <1>5
<1>7. lw * TBits + TBits <= hw * TBits
  BY <1>1, <1>2, <1>3, <1>6, Multiples
<1>8. lw + 1 < hw => lw * TBits + TBits + TBits <= hw * TBits
  <2>1. lw + 1 \in Nat /\ TBits * (lw + 1) = TBits * lw + TBits
    BY <1>1, <1>2, Multiples
  <2> QED BY <1>1, <1>2, <1>3, <2>1, Multiples
<1>9. hw = lw + 1
  BY <1>1, <1>2, <1>3, <1>6, <1>8
<1>10. hw * TBits = lw * TBits + TBits
  BY <1>1, <1>2, <1>3, <1>9, Multiples
<1> QED BY <1>1, <1>2, <1>3, <1>10 DEF lw, hw, sb, r, x

LEMMA SoundSplitOne ==
  ASSUME Inv, Sound, NEW i \in Indices, NEW v \in Samples(Width), SetSplit(i, v),
         word_idx(bit_idx(i)) = word_idx(bit_idx(i + 1))
  PROVE  Sound'
<1> DEFINE at == word_idx(bit_idx(i)) * TBits
           sb == inner_bit_idx(bit_idx(i))
<1>0. /\ kind \in Kinds /\ size \in Nat /\ kind = "split" /\ Width < TBits /\ Width \in Nat \ {0}
      /\ TBits \in Nat \ {0} /\ v \in SUBSET (0 .. Width - 1)
      /\ UNCHANGED <<kind, signed, size, call>> /\ vals' = [vals EXCEPT ![i] = v]
  BY Widths, SampleTypes, ConstantsAssumption DEF Inv, TypeOK, SetSplit, fixed, ConstantsAssumption
<1>1. PICK mask \in BitMasks(sb, Width, TBits) :
        buf' = Store(buf, at, TBits, InsertBits(Load(at, TBits), v, sb, mask, TBits))
  BY DEF SetSplit
<1>2. suspect' = suspect \ {i}
  BY DEF SetSplit
<1>3. at \in Nat /\ sb \in 0 .. TBits - 1 /\ at + sb = bit_idx(i) /\ bit_idx(i) \in Nat
  BY <1>0, WordOf, Layout
<1>4. sb \in Nat /\ sb + Width <= TBits
  <2>1. bit_idx(i + 1) = bit_idx(i) + Width /\ bit_idx(i) + Width \in Nat
    BY <1>0, <1>3, Layout
  <2>2. /\ inner_bit_idx(bit_idx(i + 1)) \in 0 .. TBits - 1
        /\ at + inner_bit_idx(bit_idx(i + 1)) = bit_idx(i) + Width
    BY <1>0, <2>1, WordOf
  <2> QED BY <1>0, <1>3, <2>2
<1> HIDE DEF at, sb
<1>5. v \in SUBSET Nat
  BY <1>0
<1>6. ASSUME NEW k \in 0 .. Width - 1 PROVE bit_idx(i) + k \in buf' <=> k \in v
  BY <1>0, <1>1, <1>3, <1>4, <1>5, ElementWritten
<1>7. ASSUME NEW j \in Indices, j # i, NEW k \in 0 .. Width - 1
      PROVE  bit_idx(j) + k \in buf' <=> bit_idx(j) + k \in buf
  <2>1. j < i \/ (i < j /\ v \subseteq 0 .. Width - 1)
    <3>1. j \in Nat /\ i \in Nat
      BY <1>0, Layout
    <3> QED BY <1>0, <1>7, <3>1
  <2> QED BY <1>0, <1>1, <1>3, <1>4, <1>5, <2>1, ElementWritten
<1> QED BY <1>0, <1>2, <1>6, <1>7, SoundAfterSet

LEMMA SoundSplitTwo ==
  ASSUME Inv, Sound, NEW i \in Indices, NEW v \in Samples(Width), SetSplit(i, v),
         word_idx(bit_idx(i)) # word_idx(bit_idx(i + 1))
  PROVE  Sound'
<1> DEFINE x == bit_idx(i)
           lw == word_idx(x)
           hw == word_idx(bit_idx(i + 1))
           sb == inner_bit_idx(x)
           nlo == TBits - sb
           r == Width - nlo
           at == lw * TBits
           hat == hw * TBits
           above == {j \in Indices : i < j /\ word_idx(bit_idx(j)) = hw}
           lo == v \intersect (0 .. nlo - 1)
           hi == {k - nlo : k \in v \ (0 .. nlo - 1)}
<1>0. /\ kind \in Kinds /\ size \in Nat /\ kind = "split" /\ Width < TBits /\ Width \in Nat \ {0}
      /\ TBits \in Nat \ {0} /\ v \in SUBSET (0 .. Width - 1)
      /\ UNCHANGED <<kind, signed, size, call>> /\ vals' = [vals EXCEPT ![i] = v]
  BY Widths, SampleTypes, ConstantsAssumption DEF Inv, TypeOK, SetSplit, fixed, ConstantsAssumption
<1>1. PICK lmask \in BitMasks(sb, nlo, TBits), hmask \in BitMasks(0, r, TBits) :
        buf' = Store(Store(buf, at, TBits, InsertBits(Load(at, TBits), lo, sb, lmask, TBits)),
                     hat, TBits, InsertBits(Load(hat, TBits), hi, 0, hmask, TBits))
  BY DEF SetSplit
<1>2. suspect' = (suspect \ {i}) \union (IF EndsWord(i) THEN above ELSE {})
  BY DEF SetSplit
<1>3. /\ at \in Nat /\ sb \in 0 .. TBits - 1 /\ at + sb = x /\ x \in Nat /\ nlo \in Nat \ {0}
      /\ hat = at + TBits /\ r \in Nat /\ hat \in Nat /\ EndsWord(i) = (r = 0)
      /\ x + Width <= BufBits /\ BufBits \in Nat
  <2>1. at \in Nat /\ sb \in 0 .. TBits - 1 /\ at + sb = x /\ x \in Nat
    BY <1>0, WordOf, Layout
  <2>2. nlo \in Nat \ {0} /\ hat = at + TBits /\ r \in Nat /\ inner_bit_idx(bit_idx(i + 1)) = r
    BY <1>0, NextWord
  <2>3. x + Width <= bit_idx(size) /\ bit_idx(size) <= BufBits /\ BufBits \in Nat /\ bit_idx(size) \in Nat
    BY <1>0, Layout, Room
  <2> HIDE DEF x, at, hat, sb, r, nlo
  <2>4. hat \in Nat /\ x + Width <= BufBits
    BY <1>0, <2>1, <2>2, <2>3
  <2> QED BY <2>1, <2>2, <2>3, <2>4 DEF EndsWord
<1>4. lmask = (sb .. sb + nlo - 1) \intersect (0 .. TBits - 1)
  BY <1>1, <1>3 DEF BitMasks
<1>5. r # 0 => hmask = (0 .. 0 + r - 1) \intersect (0 .. TBits - 1)
  BY <1>1 DEF BitMasks
<1> HIDE DEF lw, hw, at, hat
<1>6. lo \in SUBSET Nat /\ hi \in SUBSET (0 .. r - 1) /\ hi \in SUBSET Nat
  <2>1. ASSUME NEW k \in v, k \notin 0 .. nlo - 1 PROVE k - nlo \in 0 .. r - 1
    <3>1. k \in 0 .. Width - 1 /\ k >= nlo
      BY <1>0, <1>3, <2>1
    <3> QED BY <1>0, <1>3, <3>1
  <2>2. lo \in SUBSET Nat
    BY <1>0
  <2> QED BY <1>3, <2>1, <2>2
<1>7. ASSUME NEW k \in 0 .. Width - 1
      PROVE  /\ k < nlo => (k \in lo <=> k \in v)
             /\ k >= nlo => (k - nlo \in hi <=> k \in v)
  <2>1. k < nlo => (k \in lo <=> k \in v)
    BY <1>0, <1>3
  <2>2. ASSUME k >= nlo, k \in v PROVE k - nlo \in hi
    <3>1. k \notin 0 .. nlo - 1
      BY <1>0, <1>3, <2>2
    <3> QED BY <2>2, <3>1
  <2>3. ASSUME k >= nlo, k - nlo \in hi PROVE k \in v
    <3>1. PICK m \in v : k - nlo = m - nlo
      BY <2>3
    <3>2. m = k
      BY <1>0, <1>3, <3>1
    <3> QED BY <3>2
  <2> QED BY <2>1, <2>2, <2>3
<1> HIDE DEF lo, hi, x, sb, nlo, r
<1>8. ASSUME NEW p \in Nat, p < BufBits
      PROVE  p \in buf' <=>
               IF hat <= p /\ p < hat + TBits
               THEN p - hat \in hi \/ (p \in buf /\ p - hat \notin hmask)
               ELSE IF at <= p /\ p < at + TBits
               THEN (p - at >= sb /\ p - at - sb \in lo) \/ (p \in buf /\ p - at \notin lmask)
               ELSE p \in buf
  <2> DEFINE b == Store(buf, at, TBits, InsertBits(Load(at, TBits), lo, sb, lmask, TBits))
  <2>0. sb \in Nat /\ 0 \in Nat
    BY <1>0, <1>3
  <2>1. p \in b <=> IF at <= p /\ p < at + TBits
                    THEN (p - at >= sb /\ p - at - sb \in lo) \/ (p \in buf /\ p - at \notin lmask)
                    ELSE p \in buf
    BY <1>0, <1>3, <1>6, <1>8, <2>0, Written
  <2>2. buf' = Store(b, hat, TBits, InsertBits(Load(hat, TBits), hi, 0, hmask, TBits))
    BY <1>1
  <2> HIDE DEF b
  <2>3. p \in Store(b, hat, TBits, InsertBits(Load(hat, TBits), hi, 0, hmask, TBits)) <=>
          IF hat <= p /\ p < hat + TBits
          THEN (p - hat >= 0 /\ p - hat - 0 \in hi) \/ (p \in buf /\ p - hat \notin hmask)
          ELSE p \in b
    BY <1>0, <1>3, <1>6, <1>8, <2>0, Written
  <2>4. hat <= p => p - hat >= 0 /\ p - hat - 0 = p - hat
    BY <1>3
  <2>5. p \in buf' <=> p \in Store(b, hat, TBits, InsertBits(Load(hat, TBits), hi, 0, hmask, TBits))
    BY <2>2, Zenon
  <2> QED BY <2>1, <2>3, <2>4, <2>5
<1>9. ASSUME NEW k \in 0 .. Width - 1 PROVE x + k \in buf' <=> k \in v
  <2> DEFINE p == x + k
  <2>0. p \in Nat /\ p < BufBits /\ p = at + sb + k /\ r = Width - nlo /\ nlo = TBits - sb
    BY <1>0, <1>3 DEF r, nlo
  <2> HIDE DEF p
  <2>1. CASE k < nlo
    <3>1. /\ ~(hat <= p) /\ at <= p /\ p < at + TBits /\ p - at >= sb /\ p - at - sb = k
          /\ p - at \in lmask
      BY <1>0, <1>3, <1>4, <2>0, <2>1
    <3>2. p \in buf' <=> k \in lo
      BY <1>8, <2>0, <3>1
    <3> QED BY <1>7, <2>1, <3>2 DEF p
  <2>2. CASE k >= nlo
    <3>1. hat <= p /\ p < hat + TBits /\ p - hat = k - nlo /\ r # 0 /\ p - hat \in 0 .. r - 1
      BY <1>0, <1>3, <2>0, <2>2
    <3>2. p - hat \in hmask
      BY <1>0, <1>3, <1>5, <2>0, <3>1
    <3>3. p \in buf' <=> k - nlo \in hi
      BY <1>8, <2>0, <3>1, <3>2
    <3> QED BY <1>7, <2>2, <3>3 DEF p
  <2> QED BY <1>0, <1>3, <2>1, <2>2
<1>10. ASSUME NEW j \in Indices, j \notin suspect', j # i, NEW k \in 0 .. Width - 1
       PROVE  bit_idx(j) + k \in buf' <=> bit_idx(j) + k \in buf
  <2> DEFINE p == bit_idx(j) + k
  <2>0. /\ p \in Nat /\ p < BufBits
        /\ j < i \/ i < j
        /\ j < i => p < x
        /\ i < j => x + Width <= p
    BY <1>0, <1>10, OtherBits DEF x
  <2>1. r = Width - nlo /\ nlo = TBits - sb
    BY DEF r, nlo
  <2>2. CASE j < i
    <3> HIDE DEF p
    <3>1. ~(hat <= p) /\ ~(p - at >= sb) /\ (at <= p => p - at \notin lmask)
      BY <1>0, <1>3, <1>4, <2>0, <2>1, <2>2
    <3>2. p \in buf' <=> p \in buf
      BY <1>8, <2>0, <3>1
    <3> QED BY <3>2 DEF p
  <2>3. CASE i < j /\ r = 0
    <3>1. /\ word_idx(bit_idx(j)) # hw /\ bit_idx(j) \in Nat /\ x + Width <= bit_idx(j)
          /\ bit_idx(j) <= p
      <4>1. j \notin above
        BY <1>2, <1>3, <1>10, <2>3
      <4>2. bit_idx(j) \in Nat /\ x + Width <= bit_idx(j)
        BY <1>0, <2>3, Layout DEF x
      <4>3. bit_idx(j) <= bit_idx(j) + k
        BY <4>2
      <4> QED BY <2>3, <4>1, <4>2, <4>3
    <3>2. hat + TBits <= bit_idx(j)
      <4> DEFINE y == bit_idx(j)
                 q == word_idx(y)
      <4>1. /\ q \in Nat /\ q * TBits = TBits * q /\ q * TBits \in Nat
            /\ inner_bit_idx(y) \in 0 .. TBits - 1 /\ q * TBits + inner_bit_idx(y) = y
        BY <1>0, <3>1, WordOf
      <4>2. /\ hw \in Nat /\ hat = TBits * hw
        <5>1. bit_idx(i + 1) \in Nat
          BY <1>0, <1>3, Layout DEF x
        <5> QED BY <1>0, <5>1, WordOf DEF hw, hat
      <4>3. hat <= y /\ q # hw
        BY <1>0, <1>3, <2>1, <2>3, <3>1
      <4> HIDE DEF q, y
      <4>4. hw < q => TBits * hw + TBits <= TBits * q
        BY <1>0, <4>1, <4>2, Multiples
      <4>5. q < hw => TBits * q + TBits <= TBits * hw
        BY <1>0, <4>1, <4>2, Multiples
      <4>6. hat + TBits <= y
        BY <1>0, <1>3, <3>1, <4>1, <4>2, <4>3, <4>4, <4>5 DEF y
      <4> QED BY <4>6 DEF y
    <3> HIDE DEF p
    <3>3. ~(p < hat + TBits) /\ ~(p < at + TBits)
      BY <1>0, <1>3, <2>0, <3>1, <3>2
    <3>4. p \in buf' <=> p \in buf
      BY <1>8, <2>0, <3>3
    <3> QED BY <3>4 DEF p
  <2>4. CASE i < j /\ r # 0
    <3> HIDE DEF p
    <3>1. ~(p < at + TBits) /\ hat <= p /\ p - hat \notin 0 .. r - 1
      BY <1>0, <1>3, <2>0, <2>1, <2>4
    <3>2. p - hat \notin hi /\ p - hat \notin hmask
      BY <1>0, <1>3, <1>5, <1>6, <2>0, <2>4, <3>1
    <3>3. p \in buf' <=> p \in buf
      BY <1>8, <2>0, <3>1, <3>2
    <3> QED BY <3>3 DEF p
  <2> QED BY <2>0, <2>2, <2>3, <2>4
<1> QED BY <1>0, <1>2, <1>9, <1>10, SoundAfterSet DEF x

-----------------------------------------------------------------------------
(* Types, and which accesses may leave the buffer.                         *)

\* What depends only on the kind and the size stays the same.
LEMMA Fixed ==
  ASSUME UNCHANGED <<kind, signed, size>>
  PROVE  /\ Width' = Width /\ Indices' = Indices /\ BufBits' = BufBits /\ Calls' = Calls
         /\ bit_idx(size)' = bit_idx(size)
<1>1. Width' = Width /\ Indices' = Indices
  BY DEF Width, Indices
<1> QED BY <1>1 DEF BufBits, Calls, bit_idx

LEMMA StoreInBuffer ==
  ASSUME NEW b, NEW at, NEW w, NEW word
  PROVE  Store(b, at, w, word) \subseteq 0 .. BufBits - 1
  BY DEF Store

\* A set() that is one step keeps the types.
LEMMA InvAfterSet ==
  ASSUME Inv, kind # "atomic", NEW i \in Indices, NEW v \in Samples(Width),
         UNCHANGED <<kind, signed, size, call>>, vals' = [vals EXCEPT ![i] = v],
         buf' \subseteq 0 .. BufBits - 1, suspect' \subseteq Indices, oob' \in BOOLEAN,
         oob' = TRUE => oob = TRUE \/ (kind = "split" /\ bit_idx(size) = BufBits)
  PROVE  Inv'
<1>1. v \in SUBSET (0 .. Width - 1)
  BY SampleTypes DEF Inv, TypeOK
<1>2. vals' \in [Indices -> SUBSET (0 .. Width - 1)]
  BY <1>1 DEF Inv, TypeOK
<1>3. TypeOK'
  BY <1>2, Fixed DEF Inv, TypeOK
<1>4. CallsOK'
  BY Fixed DEF Inv, CallsOK
<1>5. StaysInBuffer'
  BY <1>3, Fixed DEF Inv, TypeOK, StaysInBuffer
<1> QED BY <1>3, <1>4, <1>5 DEF Inv

LEMMA InvExact ==
  ASSUME Inv, NEW i \in Indices, NEW v \in Samples(Width), SetExact(i, v)
  PROVE  Inv'
<1>0. /\ kind \in Kinds /\ size \in Nat /\ kind = "exact" /\ Width = TBits /\ TBits \in Nat
      /\ suspect \subseteq Indices
      /\ oob \in BOOLEAN /\ UNCHANGED <<kind, signed, size, call, suspect>>
  BY Widths, ConstantsAssumption DEF Inv, TypeOK, SetExact, fixed, ConstantsAssumption
<1>1. TBits * i + TBits <= BufBits
  <2>1. TBits * i = bit_idx(i)
    BY <1>0 DEF bit_idx
  <2>2. /\ bit_idx(i) \in Nat /\ bit_idx(i) + Width <= bit_idx(size) /\ bit_idx(size) <= BufBits
        /\ bit_idx(size) \in Nat /\ BufBits \in Nat
    BY <1>0, Layout, Room
  <2> QED BY <1>0, <2>1, <2>2
<1>2. ~(TBits * i + TBits > BufBits)
  <2>1. TBits * i \in Nat /\ BufBits \in Nat
    BY <1>0, Multiples, Room, Layout
  <2> QED BY <1>0, <1>1, <2>1
<1>3. oob' = oob
  BY <1>0, <1>2 DEF SetExact
<1>4. buf' \subseteq 0 .. BufBits - 1 /\ vals' = [vals EXCEPT ![i] = v]
  BY StoreInBuffer DEF SetExact
<1> QED BY <1>0, <1>3, <1>4, InvAfterSet

LEMMA InvBit ==
  ASSUME Inv, NEW i \in Indices, NEW v \in Samples(Width), SetBit(i, v)
  PROVE  Inv'
<1> DEFINE at == word_idx(i) * TBits
<1>0. /\ kind \in Kinds /\ size \in Nat /\ kind = "bit" /\ Width = 1 /\ TBits \in Nat \ {0}
      /\ suspect \subseteq Indices /\ oob \in BOOLEAN
      /\ UNCHANGED <<kind, signed, size, call, suspect>>
  BY Widths, ConstantsAssumption DEF Inv, TypeOK, SetBit, fixed, ConstantsAssumption
<1>1. i \in Nat /\ i < BufBits /\ BufBits \in Nat
  <2>1. /\ i \in Nat /\ bit_idx(i) + Width <= bit_idx(size) /\ bit_idx(size) <= BufBits
        /\ bit_idx(size) \in Nat /\ BufBits \in Nat
    BY <1>0, Layout, Room
  <2>2. bit_idx(i) = i
    BY <1>0, <2>1 DEF bit_idx
  <2> QED BY <1>0, <2>1, <2>2
<1>2. at \in Nat /\ at + TBits <= BufBits
  BY <1>0, <1>1, WordOf, WordInBuffer
<1> HIDE DEF at
<1>3. ~(at + TBits > BufBits)
  BY <1>0, <1>1, <1>2
<1>4. oob' = oob
  BY <1>0, <1>3 DEF SetBit, at
<1>5. buf' \subseteq 0 .. BufBits - 1 /\ vals' = [vals EXCEPT ![i] = v]
  BY StoreInBuffer DEF SetBit
<1> QED BY <1>0, <1>4, <1>5, InvAfterSet

LEMMA InvPacked ==
  ASSUME Inv, NEW i \in Indices, NEW v \in Samples(Width), SetPacked(i, v)
  PROVE  Inv'
<1> DEFINE at == word_idx(bit_idx(i)) * TBits
<1>0. /\ kind \in Kinds /\ size \in Nat /\ kind = "packed" /\ Width \in Nat \ {0} /\ TBits \in Nat \ {0}
      /\ suspect \subseteq Indices /\ oob \in BOOLEAN /\ UNCHANGED <<kind, signed, size, call>>
  BY Widths, ConstantsAssumption DEF Inv, TypeOK, SetPacked, fixed, ConstantsAssumption
<1>1. at \in Nat /\ at + 2 * TBits <= BufBits /\ BufBits \in Nat
  <2> DEFINE x == bit_idx(i)
             q == word_idx(x)
  <2>1. /\ x \in Nat /\ x + Width <= bit_idx(size) /\ bit_idx(size) + TBits <= BufBits
        /\ bit_idx(size) \in Nat /\ BufBits \in Nat
    BY <1>0, Layout, Room
  <2>2. q \in Nat /\ at \in Nat /\ at = TBits * q /\ at <= x
    <3>1. /\ q \in Nat /\ at \in Nat /\ at = TBits * q /\ at + inner_bit_idx(x) = x
          /\ inner_bit_idx(x) \in 0 .. TBits - 1
      BY <1>0, <2>1, WordOf
    <3> HIDE DEF x, at
    <3> QED BY <1>0, <2>1, <3>1
  <2>3. PICK m \in Nat : BufBits = TBits * m
    BY <1>0, Room
  <2> HIDE DEF x, at, q
  <2>4. TBits * (q + 1) = at + TBits /\ q + 1 \in Nat
    BY <1>0, <2>2, Multiples
  <2>5. TBits * (q + 1) < TBits * m
    BY <1>0, <2>1, <2>2, <2>3, <2>4
  <2>6. TBits * (q + 1) + TBits <= TBits * m
    BY <1>0, <2>4, <2>5, MultipleBelow
  <2> QED BY <1>0, <2>1, <2>2, <2>3, <2>4, <2>6
<1> HIDE DEF at
<1>2. ~(at + 2 * TBits > BufBits)
  BY <1>0, <1>1
<1>3. oob' = oob
  BY <1>0, <1>2 DEF SetPacked, at
<1>4. buf' \subseteq 0 .. BufBits - 1 /\ vals' = [vals EXCEPT ![i] = v] /\ suspect' \subseteq Indices
  BY <1>0, StoreInBuffer DEF SetPacked
<1> QED BY <1>0, <1>3, <1>4, InvAfterSet

LEMMA InvSplit ==
  ASSUME Inv, NEW i \in Indices, NEW v \in Samples(Width), SetSplit(i, v)
  PROVE  Inv'
<1> DEFINE b == bit_idx(i + 1)
           hat == word_idx(b) * TBits
<1>0. /\ kind \in Kinds /\ size \in Nat /\ kind = "split" /\ Width \in Nat \ {0} /\ TBits \in Nat \ {0}
      /\ suspect \subseteq Indices /\ oob \in BOOLEAN /\ UNCHANGED <<kind, signed, size, call>>
      /\ vals' = [vals EXCEPT ![i] = v]
  BY Widths, ConstantsAssumption DEF Inv, TypeOK, SetSplit, fixed, ConstantsAssumption
<1>1. /\ b \in Nat /\ b <= bit_idx(size) /\ bit_idx(size) <= BufBits /\ bit_idx(size) \in Nat
      /\ BufBits \in Nat
  <2>1. /\ bit_idx(i) \in Nat /\ b = bit_idx(i) + Width /\ bit_idx(i) + Width <= bit_idx(size)
        /\ bit_idx(size) <= BufBits /\ bit_idx(size) \in Nat /\ BufBits \in Nat
    BY <1>0, Layout, Room
  <2> HIDE DEF b
  <2> QED BY <1>0, <2>1
<1>2. hat \in Nat /\ (b < BufBits => hat + TBits <= BufBits)
  BY <1>0, <1>1, WordOf, WordInBuffer
<1> HIDE DEF b, hat
<1>3. hat + TBits > BufBits => bit_idx(size) = BufBits
  BY <1>0, <1>1, <1>2
<1>4. oob' \in BOOLEAN
  BY <1>0, Zenon DEF SetSplit
<1>5. oob' = oob \/ oob' = (oob \/ hat + TBits > BufBits)
  BY DEF SetSplit, hat, b
<1>6. oob' = TRUE => oob = TRUE \/ (kind = "split" /\ bit_idx(size) = BufBits)
  BY <1>0, <1>3, <1>5
<1>7. buf' \subseteq 0 .. BufBits - 1
  <2>1. PICK c, at, w, word : buf' = Store(c, at, w, word)
    BY Zenon DEF SetSplit
  <2> QED BY <2>1, StoreInBuffer, Zenon
<1>8. suspect' \subseteq Indices
  BY <1>0 DEF SetSplit
<1> QED BY <1>0, <1>4, <1>6, <1>7, <1>8, InvAfterSet

LEMMA InvAtomic ==
  ASSUME Inv, NEW w \in Writers, NEW i \in Indices, NEW v \in Samples(Width), SetAtomic(w, i, v)
  PROVE  Inv'
<1>0. /\ kind \in Kinds /\ kind = "atomic" /\ Width = 1
      /\ UNCHANGED <<kind, signed, size, buf, oob, vals>> /\ suspect \subseteq Indices
      /\ call' = [call EXCEPT ![w] = [idx |-> i, val |-> v, seen |-> Load(i, 1)]]
  BY Widths DEF Inv, TypeOK, SetAtomic, fixed
<1>1. v \in SUBSET {0} /\ Load(i, 1) \in SUBSET {0}
  <2>1. v \in SUBSET (0 .. Width - 1)
    BY <1>0, SampleTypes
  <2>2. 0 .. Width - 1 = {0} /\ 0 .. 1 - 1 = {0}
    BY <1>0
  <2> QED BY <2>1, <2>2 DEF Load
<1>2. [idx |-> i, val |-> v, seen |-> Load(i, 1)] \in Calls
  BY <1>1 DEF Calls
<1>3. call' \in [Writers -> {None} \union Calls]
  BY <1>0, <1>2 DEF Inv, CallsOK
<1>4. CallsOK'
  BY <1>0, <1>3, Fixed DEF CallsOK
<1>5. \A u \in Writers : call'[u] # None => call'[u].idx \in Indices
  BY <1>3 DEF Calls
<1>6. suspect' \subseteq Indices
  BY <1>0 DEF SetAtomic
<1>7. DOMAIN call' = Writers
  BY <1>3
<1>8. TypeOK'
  BY <1>0, <1>5, <1>6, <1>7, Fixed DEF Inv, TypeOK
<1> QED BY <1>0, <1>4, <1>8, Fixed DEF Inv, StaysInBuffer

LEMMA InvXor ==
  ASSUME Inv, NEW w \in Writers, FetchXor(w)
  PROVE  Inv'
<1> DEFINE i == call[w].idx
<1>0. /\ kind \in Kinds /\ kind = "atomic" /\ Width = 1 /\ size \in Nat /\ i \in Indices
      /\ UNCHANGED <<kind, signed, size, oob, suspect>> /\ call' = [call EXCEPT ![w] = None]
      /\ buf' \subseteq buf \union {i} /\ vals' = [vals EXCEPT ![i] = call[w].val]
      /\ call[w] \in Calls
  BY Widths, ConstantsAssumption
  DEF Inv, TypeOK, CallsOK, FetchXor, fixed, ConstantsAssumption
<1>1. i \in 0 .. BufBits - 1
  <2>1. /\ i \in Nat /\ bit_idx(i) + Width <= bit_idx(size) /\ bit_idx(size) <= BufBits
        /\ bit_idx(size) \in Nat /\ BufBits \in Nat
    BY <1>0, Layout, Room
  <2>2. bit_idx(i) = i
    BY <1>0, <2>1 DEF bit_idx
  <2> QED BY <1>0, <2>1, <2>2
<1>2. vals' \in [Indices -> SUBSET (0 .. Width - 1)]
  <2>1. call[w].val \in SUBSET {0}
    BY <1>0 DEF Calls
  <2>2. 0 .. Width - 1 = {0}
    BY <1>0
  <2> QED BY <1>0, <2>1, <2>2 DEF Inv, TypeOK
<1>3. call' \in [Writers -> {None} \union Calls]
  BY <1>0 DEF Inv, CallsOK
<1>4. CallsOK'
  BY <1>0, <1>3, Fixed DEF CallsOK
<1>5. \A u \in Writers : call'[u] # None => call'[u].idx \in Indices
  BY <1>3 DEF Calls
<1>6. DOMAIN call' = Writers /\ buf' \subseteq 0 .. BufBits - 1
  BY <1>0, <1>1, <1>3 DEF Inv, TypeOK
<1>7. TypeOK'
  BY <1>0, <1>2, <1>5, <1>6, Fixed DEF Inv, TypeOK
<1> QED BY <1>0, <1>4, <1>7, Fixed DEF Inv, StaysInBuffer

LEMMA InitInv == Init => Inv /\ Sound /\ InFlight
<1> SUFFICES ASSUME Init PROVE Inv /\ Sound /\ InFlight
  OBVIOUS
<1>1. /\ kind \in Kinds /\ size \in Sizes /\ buf = {} /\ oob = FALSE /\ suspect = {}
      /\ vals = [i \in Indices |-> {}] /\ \A w \in Writers : call[w] = None
      /\ DOMAIN call = Writers /\ call \in [Writers -> {None} \union Calls]
  BY DEF Init
<1>2. signed \in BOOLEAN /\ oob \in BOOLEAN
  BY Zenon DEF Init
<1>3. Inv
  BY <1>1, <1>2 DEF Inv, TypeOK, CallsOK, StaysInBuffer
<1>4. \A i \in Indices : Holds(i)
  BY <1>1 DEF Holds
<1> QED BY <1>1, <1>3, <1>4 DEF Sound, InFlight

LEMMA NextInv == Inv /\ [Next]_vars => Inv'
<1> SUFFICES ASSUME Inv, [Next]_vars PROVE Inv'
  OBVIOUS
<1>1. CASE UNCHANGED vars
  BY <1>1, Fixed DEF vars, Inv, TypeOK, CallsOK, StaysInBuffer
<1> QED BY <1>1, InvExact, InvBit, InvPacked, InvSplit, InvAtomic, InvXor DEF Next

-----------------------------------------------------------------------------
(* Writers that share an atomic vector.                                    *)

LEMMA SharedAtomic ==
  ASSUME Inv, Sound, InFlight, NEW w \in Writers, NEW i \in Indices, NEW v \in Samples(Width),
         SetAtomic(w, i, v)
  PROVE  Sound' /\ InFlight'
<1> DEFINE rec == [idx |-> i, val |-> v, seen |-> Load(i, 1)]
<1>0. /\ call[w] = None /\ call' = [call EXCEPT ![w] = rec] /\ DOMAIN call = Writers
      /\ UNCHANGED <<kind, signed, size, buf, vals>> /\ suspect \subseteq suspect'
      /\ \A u \in Writers : call[u] # None /\ call[u].idx = i => i \in suspect'
  BY DEF SetAtomic, fixed, Inv, TypeOK
<1>1. call'[w] = rec /\ \A u \in Writers \ {w} : call'[u] = call[u]
  BY <1>0
<1>2. Sound'
  <2>1. ASSUME NEW j \in Indices, j \notin suspect', ~Pending(j)' PROVE Holds(j)'
    <3>1. j \notin suspect /\ ~Pending(j)
      BY <1>0, <1>1, <2>1 DEF Pending
    <3>2. Holds(j)
      BY <3>1 DEF Sound
    <3> QED BY <1>0, <3>2, Fixed DEF Holds, bit_idx
  <2> QED BY <1>0, <2>1, Fixed DEF Sound
<1>3. InFlight'
  <2>1. rec.idx = i /\ (0 \in rec.seen <=> i \in buf)
    <3>1. 0 \in 0 .. 1 - 1 /\ i + 0 = i
      <4>1. i \in Nat
        BY ConstantsAssumption DEF Inv, TypeOK, Indices, ConstantsAssumption
      <4> QED BY <4>1
    <3> QED BY <3>1 DEF Load
  <2> HIDE DEF rec
  <2>2. ASSUME NEW u \in Writers, call'[u] # None
        PROVE  /\ call'[u].idx \notin suspect' => (0 \in call'[u].seen <=> call'[u].idx \in buf')
               /\ \A z \in Writers \ {u} : call'[z] # None /\ call'[z].idx = call'[u].idx
                                             => call'[u].idx \in suspect'
    <3>1. CASE u = w
      BY <1>0, <1>1, <2>1, <3>1
    <3>2. CASE u # w
      <4>1. call'[u] = call[u] /\ call[u] # None
        BY <1>1, <2>2, <3>2
      <4>2. /\ call[u].idx \notin suspect => (0 \in call[u].seen <=> call[u].idx \in buf)
            /\ \A z \in Writers \ {u} : call[z] # None /\ call[z].idx = call[u].idx
                                          => call[u].idx \in suspect
        BY <4>1 DEF InFlight
      <4>3. ASSUME NEW z \in Writers \ {u}, call'[z] # None, call'[z].idx = call[u].idx
            PROVE  call[u].idx \in suspect'
        <5>1. CASE z = w
          BY <1>0, <1>1, <2>1, <4>1, <4>3, <5>1
        <5>2. CASE z # w
          BY <1>0, <1>1, <4>2, <4>3, <5>2
        <5> QED BY <5>1, <5>2
      <4> QED BY <1>0, <4>1, <4>2, <4>3
    <3> QED BY <3>1, <3>2
  <2> QED BY <2>2 DEF InFlight
<1> QED BY <1>2, <1>3

LEMMA SharedXor ==
  ASSUME Inv, Sound, InFlight, NEW w \in Writers, FetchXor(w)
  PROVE  Sound' /\ InFlight'
<1> DEFINE i == call[w].idx
           v == call[w].val
<1>0. /\ kind \in Kinds /\ size \in Nat /\ kind = "atomic" /\ Width = 1 /\ i \in Indices
      /\ UNCHANGED <<kind, signed, size, suspect>> /\ call' = [call EXCEPT ![w] = None]
      /\ DOMAIN call = Writers /\ vals' = [vals EXCEPT ![i] = v] /\ DOMAIN vals = Indices
      /\ call[w] # None /\ call[w] \in Calls
      /\ buf' = IF call[w].seen = v THEN buf ELSE (buf \ {i}) \union ({i} \ buf)
  BY Widths, ConstantsAssumption
  DEF Inv, TypeOK, CallsOK, FetchXor, fixed, ConstantsAssumption
<1>1. call'[w] = None /\ \A u \in Writers \ {w} : call'[u] = call[u]
  BY <1>0
<1>2. \A j : j # i => (j \in buf' <=> j \in buf)
  BY <1>0
<1>3. i \notin suspect => (i \in buf' <=> 0 \in v)
  <2>1. v \in SUBSET {0} /\ call[w].seen \in SUBSET {0}
    BY <1>0 DEF Calls
  <2>2. i \notin suspect => (0 \in call[w].seen <=> i \in buf)
    BY <1>0 DEF InFlight
  <2>3. call[w].seen = v <=> (0 \in call[w].seen <=> 0 \in v)
    BY <2>1
  <2> QED BY <1>0, <2>2, <2>3
<1>4. ASSUME NEW j \in Indices PROVE j \in Nat /\ bit_idx(j) = j
  BY <1>0 DEF bit_idx, Indices
<1>5. ASSUME NEW j \in Indices PROVE Holds(j) <=> (j \in buf <=> 0 \in vals[j])
  <2>1. 0 .. Width - 1 = {0} /\ bit_idx(j) + 0 = j
    BY <1>0, <1>4
  <2> QED BY <2>1 DEF Holds
<1>6. ASSUME NEW j \in Indices PROVE Holds(j)' <=> (j \in buf' <=> 0 \in vals'[j])
  <2>1. 0 .. Width' - 1 = {0} /\ bit_idx(j)' + 0 = j
    BY <1>0, <1>4, Fixed DEF bit_idx
  <2> QED BY <2>1 DEF Holds
<1>7. Sound'
  <2>1. ASSUME NEW j \in Indices, j \notin suspect, ~Pending(j)' PROVE Holds(j)'
    <3>1. CASE j = i
      BY <1>0, <1>3, <1>6, <2>1, <3>1
    <3>2. CASE j # i
      <4>1. ~Pending(j)
        BY <1>1, <2>1, <3>2 DEF Pending
      <4>2. Holds(j)
        BY <2>1, <4>1 DEF Sound
      <4>3. vals'[j] = vals[j]
        BY <1>0, <3>2
      <4> QED BY <1>2, <1>5, <1>6, <3>2, <4>2, <4>3
    <3> QED BY <3>1, <3>2
  <2> QED BY <1>0, <2>1, Fixed DEF Sound
<1>8. InFlight'
  <2>1. ASSUME NEW u \in Writers, call'[u] # None
        PROVE  /\ call'[u].idx \notin suspect => (0 \in call'[u].seen <=> call'[u].idx \in buf')
               /\ \A z \in Writers \ {u} : call'[z] # None /\ call'[z].idx = call'[u].idx
                                             => call'[u].idx \in suspect
    <3>1. u # w /\ call'[u] = call[u] /\ call[u] # None
      BY <1>1, <2>1
    <3>2. /\ call[u].idx \notin suspect => (0 \in call[u].seen <=> call[u].idx \in buf)
          /\ \A z \in Writers \ {u} : call[z] # None /\ call[z].idx = call[u].idx
                                        => call[u].idx \in suspect
      BY <3>1 DEF InFlight
    <3>3. call[u].idx = i => i \in suspect
      BY <1>0, <3>1, <3>2
    <3> QED BY <1>1, <1>2, <3>1, <3>2, <3>3
  <2> QED BY <1>0, <2>1 DEF InFlight
<1> QED BY <1>7, <1>8

LEMMA NextSound ==
  ASSUME Inv, Sound, InFlight, [Next]_vars
  PROVE  Sound' /\ InFlight'
<1>1. CASE UNCHANGED vars
  <2>1. \A i : Pending(i)' <=> Pending(i)
    BY <1>1 DEF vars, Pending
  <2>2. \A i : Holds(i)' <=> Holds(i)
    BY <1>1, Fixed DEF vars, Holds, bit_idx
  <2>3. InFlight'
    BY <1>1 DEF vars, InFlight
  <2> QED BY <1>1, <2>1, <2>2, <2>3, Fixed DEF vars, Sound
<1>2. ASSUME kind # "atomic", UNCHANGED call PROVE InFlight'
  BY <1>2 DEF InFlight, Inv, CallsOK
<1>3. ASSUME NEW i \in Indices, NEW v \in Samples(Width),
             SetExact(i, v) \/ SetBit(i, v) \/ SetPacked(i, v) \/ SetSplit(i, v)
      PROVE  Sound' /\ InFlight'
  <2>1. InFlight'
    BY <1>2, <1>3 DEF SetExact, SetBit, SetPacked, SetSplit
  <2> QED BY <1>3, <2>1, SoundExact, SoundBit, SoundPacked, SoundSplitOne, SoundSplitTwo
<1> QED BY <1>1, <1>3, SharedAtomic, SharedXor DEF Next

-----------------------------------------------------------------------------
(* get().                                                                  *)

\* The w bits from the word of element i on contain the element.
LEMMA GetBits ==
  ASSUME kind \in Kinds, size \in Nat, NEW i \in Indices, NEW w \in Nat,
         inner_bit_idx(bit_idx(i)) + Width <= w, Holds(i), vals[i] \in SUBSET (0 .. Width - 1)
  PROVE  GetWords(i, w) = vals[i]
<1> DEFINE x == bit_idx(i)
           at == word_idx(x) * TBits
           sb == inner_bit_idx(x)
<1>1. /\ x \in Nat /\ at \in Nat /\ sb \in 0 .. TBits - 1 /\ at + sb = x
      /\ Width \in Nat \ {0} /\ TBits \in Nat \ {0} /\ sb + Width <= w
  BY Layout, WordOf, Widths
<1> HIDE DEF x, at, sb
<1>2. GetWords(i, w) = {k \in 0 .. Width - 1 : k + sb \in {m \in 0 .. w - 1 : at + m \in buf}}
  BY DEF GetWords, ExtractBits, Load, at, sb, x
<1>3. ASSUME NEW k \in 0 .. Width - 1
      PROVE  k + sb \in {m \in 0 .. w - 1 : at + m \in buf} <=> x + k \in buf
  <2>1. k + sb \in 0 .. w - 1 /\ at + (k + sb) = x + k
    BY <1>1
  <2> QED BY <2>1
<1>4. \A k \in 0 .. Width - 1 : x + k \in buf <=> k \in vals[i]
  BY DEF Holds, x
<1> QED BY <1>2, <1>3, <1>4

\* An element in two words of a split vector is put together from both.
LEMMA GetHalves ==
  ASSUME kind \in Kinds, size \in Nat, Width < TBits, NEW i \in Indices, Holds(i),
         vals[i] \in SUBSET (0 .. Width - 1), word_idx(bit_idx(i)) # word_idx(bit_idx(i + 1))
  PROVE  GetSplit(i) = vals[i]
<1> DEFINE x == bit_idx(i)
           lw == word_idx(x)
           hw == word_idx(bit_idx(i + 1))
           sb == inner_bit_idx(x)
           nlo == TBits - sb
           at == lw * TBits
           hat == hw * TBits
           low == {k \in 0 .. nlo - 1 : k + sb \in Load(at, TBits)}
           high == ExtractBits(Load(hat, TBits), 0, 0 .. Width - nlo - 1)
           both == {k + nlo : k \in high} \union low
<1>1. /\ x \in Nat /\ at \in Nat /\ sb \in 0 .. TBits - 1 /\ at + sb = x
      /\ Width \in Nat \ {0} /\ TBits \in Nat \ {0}
  BY Layout, WordOf, Widths
<1>2. hat = at + TBits /\ Width - nlo \in Nat /\ nlo \in Nat \ {0}
  BY NextWord
<1>3. GetSplit(i) = both
  BY DEF GetSplit
<1>4. \A k \in 0 .. Width - 1 : x + k \in buf <=> k \in vals[i]
  BY DEF Holds
<1>5. nlo = TBits - sb
  OBVIOUS
<1> HIDE DEF x, lw, hw, sb, at, hat, nlo
<1>6. \A k \in 0 .. nlo - 1 : k \in low <=> x + k \in buf
  <2> TAKE k \in 0 .. nlo - 1
  <2>1. k + sb \in 0 .. TBits - 1 /\ at + (k + sb) = x + k
    BY <1>1, <1>2, <1>5
  <2> QED BY <2>1 DEF Load
<1>7. \A m \in 0 .. Width - nlo - 1 : m \in high <=> x + (m + nlo) \in buf
  <2> TAKE m \in 0 .. Width - nlo - 1
  <2>1. m + 0 \in 0 .. TBits - 1 /\ m + 0 = m /\ hat + m = x + (m + nlo)
    BY <1>1, <1>2, <1>5
  <2> QED BY <2>1 DEF Load, ExtractBits
<1>8. low \subseteq 0 .. nlo - 1 /\ high \subseteq 0 .. Width - nlo - 1
  BY DEF ExtractBits
<1> HIDE DEF low, high
<1>9. ASSUME NEW k \in both PROVE k \in vals[i]
  <2>1. CASE k \in low
    <3>1. k \in 0 .. nlo - 1 /\ k \in 0 .. Width - 1
      BY <1>1, <1>2, <1>8, <2>1
    <3> QED BY <1>4, <1>6, <2>1, <3>1
  <2>2. CASE k \notin low
    <3>1. PICK m \in high : k = m + nlo
      BY <1>9, <2>2
    <3>2. m \in 0 .. Width - nlo - 1 /\ k \in 0 .. Width - 1
      BY <1>1, <1>2, <1>8, <3>1
    <3> QED BY <1>4, <1>7, <3>1, <3>2
  <2> QED BY <2>1, <2>2
<1>10. ASSUME NEW k \in vals[i] PROVE k \in both
  <2>1. k \in 0 .. Width - 1 /\ x + k \in buf
    BY <1>4
  <2>2. CASE k < nlo
    <3>1. k \in 0 .. nlo - 1
      BY <1>1, <1>2, <2>1, <2>2
    <3> QED BY <1>6, <2>1, <3>1
  <2>3. CASE k >= nlo
    <3>1. k - nlo \in 0 .. Width - nlo - 1 /\ (k - nlo) + nlo = k
      BY <1>1, <1>2, <2>1, <2>3
    <3>2. k - nlo \in high
      BY <1>7, <2>1, <3>1
    <3> QED BY <3>1, <3>2
  <2> QED BY <1>1, <1>2, <2>1, <2>2, <2>3
<1> QED BY <1>3, <1>9, <1>10

LEMMA GetReads ==
  ASSUME Inv, NEW i \in Indices, Holds(i)
  PROVE  Get(i) = vals[i]
<1> DEFINE sb == inner_bit_idx(bit_idx(i))
<1>0. /\ kind \in Kinds /\ size \in Nat /\ vals[i] \in SUBSET (0 .. Width - 1)
      /\ Width \in Nat \ {0} /\ TBits \in Nat \ {0} /\ i \in Nat
  BY Widths, ConstantsAssumption DEF Inv, TypeOK, Indices, ConstantsAssumption
<1>1. /\ bit_idx(i) \in Nat /\ sb \in 0 .. TBits - 1
      /\ word_idx(bit_idx(i)) * TBits + sb = bit_idx(i)
  BY <1>0, Layout, WordOf
<1>2. CASE kind = "packed"
  <2>1. Width < TBits
    BY <1>0, <1>2, Widths
  <2>2. sb + Width <= 2 * TBits /\ 2 * TBits \in Nat
    BY <1>0, <1>1, <2>1
  <2>3. Get(i) = GetWords(i, 2 * TBits)
    BY <1>2 DEF Get
  <2> QED BY <1>0, <2>2, <2>3, GetBits
<1>3. CASE kind = "split"
  <2>0. Width < TBits
    BY <1>0, <1>3, Widths
  <2>1. Get(i) = GetSplit(i)
    BY <1>3 DEF Get
  <2>2. CASE word_idx(bit_idx(i)) = word_idx(bit_idx(i + 1))
    <3>1. GetSplit(i) = GetWords(i, TBits)
      BY <2>2 DEF GetSplit
    <3>2. sb + Width <= TBits
      <4> DEFINE b == bit_idx(i + 1)
                 at == word_idx(bit_idx(i)) * TBits
      <4>1. b = bit_idx(i) + Width /\ bit_idx(i) + Width \in Nat
        BY <1>0, <1>1, Layout
      <4>2. at + inner_bit_idx(b) = b /\ inner_bit_idx(b) \in 0 .. TBits - 1 /\ at \in Nat
        BY <1>0, <2>2, <4>1, WordOf
      <4>3. at + sb = bit_idx(i)
        BY <1>1
      <4> HIDE DEF at, b
      <4> QED BY <1>0, <1>1, <4>1, <4>2, <4>3
    <3> QED BY <1>0, <2>1, <3>1, <3>2, GetBits
  <2>3. CASE word_idx(bit_idx(i)) # word_idx(bit_idx(i + 1))
    BY <1>0, <2>0, <2>1, <2>3, GetHalves
  <2> QED BY <2>2, <2>3
<1>4. CASE kind \in {"bit", "atomic"}
  <2>1. Get(i) = GetWords(i, TBits) /\ Width = 1
    BY <1>0, <1>4, Widths DEF Get
  <2>2. sb + Width <= TBits
    BY <1>0, <1>1, <2>1
  <2> QED BY <1>0, <2>1, <2>2, GetBits
<1>5. CASE kind = "exact"
  <2>1. Get(i) = GetWords(i, TBits) /\ Width = TBits
    BY <1>0, <1>5, Widths DEF Get
  <2> DEFINE q == word_idx(bit_idx(i))
  <2>2. bit_idx(i) = TBits * i /\ q \in Nat /\ q * TBits = TBits * q
    BY <1>0, <1>1, <2>1, WordOf DEF bit_idx
  <2>3. TBits * q + sb = TBits * i
    BY <1>1, <2>2
  <2> HIDE DEF q, sb
  <2>4. sb = 0
    <3>1. q < i => TBits * q + TBits <= TBits * i
      BY <1>0, <2>2, Multiples
    <3>2. i < q => TBits * i + TBits <= TBits * q
      BY <1>0, <2>2, Multiples
    <3>3. TBits * q \in Nat /\ TBits * i \in Nat /\ q \in Nat
      BY <1>0, <2>2, Multiples
    <3>4. q = i
      BY <1>0, <1>1, <2>3, <3>1, <3>2, <3>3
    <3> QED BY <1>1, <2>3, <3>3, <3>4
  <2>5. sb + Width <= TBits
    BY <1>0, <2>1, <2>4
  <2> QED BY <1>0, <2>1, <2>5, GetBits DEF sb
<1> QED BY <1>0, <1>2, <1>3, <1>4, <1>5 DEF Kinds

-----------------------------------------------------------------------------
(* Theorems.                                                               *)

LEMMA AlwaysInv == Spec => [](Inv /\ Sound /\ InFlight)
<1>1. Inv /\ Sound /\ InFlight /\ [Next]_vars => Sound' /\ InFlight'
  BY NextSound
<1> QED BY <1>1, InitInv, NextInv, PTL DEF Spec

\* The buffer keeps its size and the elements their widths, for every implementation.
THEOREM TypeCorrect == Spec => []TypeOK
<1>1. Inv => TypeOK
  BY DEF Inv
<1> QED BY <1>1, AlwaysInv, PTL

\* No set() touches memory outside m_buf, whatever the width, the word and the size; the
\* one exception is the word behind the buffer that a split vector reads and writes when
\* its elements fill the buffer exactly.
THEOREM InBuffer == Spec => []StaysInBuffer
<1>1. Inv => StaysInBuffer
  BY DEF Inv
<1> QED BY <1>1, AlwaysInv, PTL

\* Every implementation is an array: get() returns what was last set, although elements
\* share words and straddle them and writers share the atomic vector, for all but the
\* elements ReadsBack names.
THEOREM ReadsBackAlways == Spec => []ReadsBack
<1>1. Inv /\ Sound => ReadsBack
  <2> SUFFICES ASSUME Inv, Sound, NEW i \in Indices \ suspect,
                      \A w \in Writers : call[w] # None => call[w].idx # i
               PROVE  Get(i) = vals[i]
    BY DEF ReadsBack
  <2>1. Holds(i)
    BY DEF Sound, Pending
  <2> QED BY <2>1, GetReads
<1> QED BY <1>1, AlwaysInv, PTL
=============================================================================
