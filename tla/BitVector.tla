----------------------------- MODULE BitVector ------------------------------
(***************************************************************************)
(* The bit vectors of include/xnu-trace/BitVector.h: an array of values    *)
(* of a few bits each, packed into words of a buffer.                      *)
(*                                                                         *)
(* A word, a value and the buffer are the sets of their bits that are 1.   *)
(* BitVectorFactory chooses the implementation; TBits is the size of the   *)
(* word type T, and a value of the packed ones has NBits < TBits bits.     *)
(* Only the atomic vector may be shared by threads: its set() is a load    *)
(* and, if the bit differs, an atomic exclusive or.                        *)
(***************************************************************************)
EXTENDS Naturals

CONSTANTS
  NBits,     \* bits of a value of a packed vector
  TBits,     \* bits of T
  PadBits,   \* the buffer is padded to a multiple of this (16 bytes)
  Sizes,     \* numbers of elements
  Writers,   \* threads that share an atomic vector
  Samples(_) \* the values of so many bits that are stored

ASSUME ConstantsAssumption ==
  /\ NBits \in Nat \ {0} /\ TBits \in Nat /\ NBits < TBits
  /\ PadBits \in Nat \ {0} /\ PadBits % TBits = 0 /\ Sizes \subseteq Nat
  /\ \A w \in 1 .. TBits : Samples(w) \subseteq SUBSET (0 .. w - 1)

VARIABLES
  kind,     \* "exact", "bit", "atomic", "packed" or "split"
  signed,   \* the vector's Signed
  size,     \* m_sz
  buf,      \* m_buf
  oob,      \* some access was outside m_buf
  vals,     \* the value last stored in each element, for the properties
  suspect,  \* elements of which the properties say nothing
  call      \* call[w]: the set() a writer is in

vars == <<kind, signed, size, buf, oob, vals, suspect, call>>
fixed == <<kind, signed, size>>

Kinds == {"exact", "bit", "atomic", "packed", "split"}
Indices == 0 .. size - 1
None == [idx |-> "none"]

Width == CASE kind = "exact" -> TBits
           [] kind \in {"bit", "atomic"} -> 1
           [] OTHER -> NBits

RoundUp(n, m) == ((n + m - 1) \div m) * m

\* Slip: no room for the upper half of the last double word.
ByteSz_NoSlack(k, width, sz) ==
  CASE k = "exact"            -> width * sz
    [] k \in {"bit", "atomic"} -> RoundUp(sz, TBits)
    [] k = "packed"           -> RoundUp(width * sz, 2 * TBits)
    [] k = "split"            -> RoundUp(width * sz, TBits)

\* byte_sz of each implementation, in bits
ByteSz(k, width, sz) ==
  CASE k = "exact"            -> width * sz
    [] k \in {"bit", "atomic"} -> RoundUp(sz, TBits)
    [] k = "packed"           -> RoundUp(width * sz + TBits, 2 * TBits)
    [] k = "split"            -> RoundUp(width * sz, TBits)

\* BitVectorBase's constructor
BufBits == RoundUp(ByteSz(kind, Width, size), PadBits)

TypeOK ==
  /\ kind \in Kinds /\ signed \in BOOLEAN /\ size \in Sizes
  /\ buf \subseteq 0 .. BufBits - 1 /\ oob \in BOOLEAN
  /\ vals \in [Indices -> SUBSET (0 .. Width - 1)]
  /\ suspect \subseteq Indices
  /\ DOMAIN call = Writers
  /\ \A w \in Writers : call[w] # None => call[w].idx \in Indices

\* BitVectorFactory.  Signed is modelled where the conversions are defined: the
\* exact vector and the packed one of at most 32 bits.
Init ==
  /\ kind \in Kinds
  /\ signed \in (IF kind \in {"exact", "packed"} THEN BOOLEAN ELSE {FALSE})
  /\ size \in Sizes
  /\ buf = {} /\ oob = FALSE
  /\ vals = [i \in Indices |-> {}]
  /\ suspect = {}
  /\ call = [w \in Writers |-> None]

-----------------------------------------------------------------------------
(* Words.                                                                  *)

\* The w bits from position `at`, as a word, and the buffer with them replaced.
Load(at, w) == {k \in 0 .. w - 1 : at + k \in buf}
Store(b, at, w, word) ==
  ((b \ (at .. at + w - 1)) \union {at + k : k \in word}) \intersect (0 .. BufBits - 1)

\* bit_mask: nbits = 0 shifts by the width of T, which is undefined; a build yields
\* no bits (folded) or all of them (a shift by a register, taken modulo the width).
BitMasks(sb, nbits, w) ==
  IF nbits = 0 THEN {{}, 0 .. w - 1}
  ELSE {(sb .. sb + nbits - 1) \intersect (0 .. w - 1)}

\* insert_bits: the inserted value is shifted but not masked.
InsertBits(orig, ins, sb, mask, w) ==
  (orig \ mask) \union ({k + sb : k \in ins} \intersect (0 .. w - 1))

ExtractBits(word, sb, mask) == {k \in mask : k + sb \in word}

\* T(val) and then DT(val): a negative value is extended with ones.
Extend(v, w) == IF signed /\ Width - 1 \in v THEN v \union (Width .. w - 1) ELSE v

bit_idx(i)       == Width * i
word_idx(b)      == b \div TBits
inner_bit_idx(b) == b - word_idx(b) * TBits

-----------------------------------------------------------------------------
(* set().                                                                  *)

\* ExactBitVectorImpl
SetExact(i, v) ==
  /\ kind = "exact"
  /\ buf' = Store(buf, TBits * i, TBits, v)
  /\ oob' = (oob \/ TBits * i + TBits > BufBits)
  /\ vals' = [vals EXCEPT ![i] = v]
  /\ UNCHANGED <<fixed, suspect, call>>

\* NonAtomicSingleBitVectorImpl
SetBit(i, v) ==
  /\ kind = "bit"
  /\ LET at == word_idx(i) * TBits
         sb == inner_bit_idx(i)
     IN \E mask \in BitMasks(sb, 1, TBits) :
          /\ buf' = Store(buf, at, TBits, InsertBits(Load(at, TBits), v, sb, mask, TBits))
          /\ oob' = (oob \/ at + TBits > BufBits)
  /\ vals' = [vals EXCEPT ![i] = v]
  /\ UNCHANGED <<fixed, suspect, call>>

\* NonAtomicBitVectorImpl: read, change and write a double word.  A negative
\* value's upper bits go over the elements above it in that double word.
SetPacked(i, v) ==
  /\ kind = "packed"
  /\ LET at == word_idx(bit_idx(i)) * TBits
         sb == inner_bit_idx(bit_idx(i))
         w  == 2 * TBits
         above == {j \in Indices : i < j /\ bit_idx(j) < at + w}
     IN /\ \E mask \in BitMasks(sb, Width, w) :
             buf' = Store(buf, at, w, InsertBits(Load(at, w), Extend(v, w), sb, mask, w))
        /\ oob' = (oob \/ at + w > BufBits)
        /\ suspect' = (suspect \ {i}) \union (IF Extend(v, w) = v THEN {} ELSE above)
  /\ vals' = [vals EXCEPT ![i] = v]
  /\ UNCHANGED <<fixed, call>>

\* The element ends where a word ends, so hi_word_idx is that of the next word.
EndsWord(i) == inner_bit_idx(bit_idx(i + 1)) = 0

\* NonAtomicSplitBitVectorImpl.  For an element that ends a word num_hi_bits is 0,
\* and the next word is changed all the same.
SetSplit(i, v) ==
  /\ kind = "split"
  /\ LET lw == word_idx(bit_idx(i))
         hw == word_idx(bit_idx(i + 1))
         sb == inner_bit_idx(bit_idx(i))
         nlo == TBits - sb
         above == {j \in Indices : i < j /\ word_idx(bit_idx(j)) = hw}
     IN \/ /\ lw = hw
           /\ \E mask \in BitMasks(sb, Width, TBits) :
                buf' = Store(buf, lw * TBits, TBits,
                             InsertBits(Load(lw * TBits, TBits), v, sb, mask, TBits))
           /\ suspect' = suspect \ {i}
           /\ UNCHANGED oob
        \/ /\ lw # hw
           /\ \E lmask \in BitMasks(sb, nlo, TBits), hmask \in BitMasks(0, Width - nlo, TBits) :
                LET low == InsertBits(Load(lw * TBits, TBits), v \intersect (0 .. nlo - 1),
                                      sb, lmask, TBits)
                    high == InsertBits(Load(hw * TBits, TBits), {k - nlo : k \in v \ (0 .. nlo - 1)},
                                       0, hmask, TBits)
                IN buf' = Store(Store(buf, lw * TBits, TBits, low), hw * TBits, TBits, high)
           /\ suspect' = (suspect \ {i}) \union (IF EndsWord(i) THEN above ELSE {})
           /\ oob' = (oob \/ hw * TBits + TBits > BufBits)
  /\ vals' = [vals EXCEPT ![i] = v]
  /\ UNCHANGED <<fixed, call>>

\* AtomicSingleBitVectorImpl::set reads the bit ...
SetAtomic(w, i, v) ==
  /\ kind = "atomic" /\ call[w] = None
  /\ call' = [call EXCEPT ![w] = [idx |-> i, val |-> v, seen |-> Load(i, 1)]]
  /\ suspect' = suspect \union
       {j \in {i} : \E u \in Writers : call[u] # None /\ call[u].idx = i}
  /\ UNCHANGED <<fixed, buf, oob, vals>>

\* Slip: fetch_or for fetch_xor.
FetchXor_Or(w) ==
  /\ call[w] # None
  /\ LET i == call[w].idx
     IN /\ buf' = IF call[w].seen = call[w].val THEN buf ELSE buf \union {i}
        /\ vals' = [vals EXCEPT ![i] = call[w].val]
  /\ call' = [call EXCEPT ![w] = None]
  /\ UNCHANGED <<fixed, oob, suspect>>

\* Slip: the mask is applied to the word after.
FetchXor_NextWord(w) ==
  /\ call[w] # None
  /\ LET i == call[w].idx
     IN /\ buf' = IF call[w].seen = call[w].val THEN buf
                  ELSE (buf \ {i + TBits}) \union ({i + TBits} \ buf)
        /\ vals' = [vals EXCEPT ![i] = call[w].val]
  /\ call' = [call EXCEPT ![w] = None]
  /\ UNCHANGED <<fixed, oob, suspect>>

\* ... and if it differs from val flips it, atomically for the word.
FetchXor(w) ==
  /\ call[w] # None
  /\ LET i == call[w].idx
     IN /\ buf' = IF call[w].seen = call[w].val THEN buf
                  ELSE (buf \ {i}) \union ({i} \ buf)
        /\ vals' = [vals EXCEPT ![i] = call[w].val]
  /\ call' = [call EXCEPT ![w] = None]
  /\ UNCHANGED <<fixed, oob, suspect>>

Next ==
  \/ \E i \in Indices, v \in Samples(Width) :
       \/ SetExact(i, v) \/ SetBit(i, v) \/ SetPacked(i, v) \/ SetSplit(i, v)
       \/ \E w \in Writers : SetAtomic(w, i, v)
  \/ \E w \in Writers : FetchXor(w)

Spec == Init /\ [][Next]_vars

-----------------------------------------------------------------------------
(* get().                                                                  *)

\* The packed and the split vector differ in what they load; where no mask is empty
\* both get the element's bits.
GetWords(i, w) ==
  LET at == word_idx(bit_idx(i)) * TBits
      sb == inner_bit_idx(bit_idx(i))
  IN ExtractBits(Load(at, w), sb, 0 .. Width - 1)

GetSplit(i) ==
  LET lw == word_idx(bit_idx(i))
      hw == word_idx(bit_idx(i + 1))
      sb == inner_bit_idx(bit_idx(i))
      nlo == TBits - sb
      high == ExtractBits(Load(hw * TBits, TBits), 0, 0 .. Width - nlo - 1)
  IN IF lw = hw THEN GetWords(i, TBits)
     ELSE {k + nlo : k \in high} \union {k \in 0 .. nlo - 1 : k + sb \in Load(lw * TBits, TBits)}

\* The value as its bits; sign_extend adds no information.
Get(i) == CASE kind = "packed" -> GetWords(i, 2 * TBits)
            [] kind = "split"  -> GetSplit(i)
            [] OTHER           -> GetWords(i, TBits)

-----------------------------------------------------------------------------
(* Properties.                                                             *)

\* A vector is an array: in whatever order elements were set, each reads as the value
\* last stored in it, although neighbours share words and straddle them.  Excepted
\* are exactly: elements above a negative value stored in the same double word since
\* they were set themselves; elements that end a word of a split vector, and those in
\* the word after one stored later; and bits two threads have been setting at the same time.
ReadsBack ==
  \A i \in Indices \ suspect :
    (\A w \in Writers : call[w] # None => call[w].idx # i) /\ ~(kind = "split" /\ EndsWord(i))
      => Get(i) = vals[i]

\* No access leaves the buffer, except that of a split vector whose last element ends
\* the buffer: hi_word_idx then names the word behind it.
StaysInBuffer == oob => kind = "split" /\ bit_idx(size) = BufBits
=============================================================================
