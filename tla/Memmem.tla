------------------------------- MODULE Memmem -------------------------------
(***************************************************************************)
(* chunk_into_bins_by_needle and the search it runs in every chunk of the  *)
(* haystack, horspool_memmem with its two-way string matching              *)
(* (lib/xnu-trace/utils.cpp).                                              *)
(*                                                                         *)
(* Pointers are offsets into the haystack.  The chunks are searched one    *)
(* after the other: the tasks share nothing but their inputs and write     *)
(* different slots, and ThreadPool has their scheduling.  A step is one    *)
(* turn of one of the three loops: the two that prepare the needle and the *)
(* one that searches.                                                      *)
(***************************************************************************)
EXTENDS Integers, Sequences, FiniteSets, FiniteSetsExt, LoopBlocks

CONSTANTS
  Bytes,       \* the values of a byte, naturals
  MaxHaystack, \* bound: length of the haystack
  MaxNeedle,   \* bound: length of the needle
  MaxBins,     \* bound: number of bins
  SizeRange    \* the number of values of size_t

ASSUME ConstantsAssumption ==
  /\ Bytes \subseteq Nat /\ MaxBins \in Nat
  /\ MaxHaystack \in Nat /\ MaxNeedle \in Nat
  /\ SizeRange \in Nat /\ MaxHaystack < SizeRange /\ MaxNeedle < SizeRange

VARIABLES
  hay, needle, n,  \* the arguments
  pc,              \* "next" chunk, "suffix", "opposite", "search", "done"
  bin,             \* the chunk being searched
  h,               \* twoway_memmem's h: where the window begins
  mem,             \* its mem: bytes of the window known to match
  suf,             \* its ip, jp, k and p in the loop for a maximal suffix
  first,           \* what they were at the end of the first such loop
  prep,            \* its ms, p and mem0
  res              \* the pointers returned

args == <<hay, needle, n>>
vars == <<args, pc, bin, h, mem, suf, first, prep, res>>

NULL == -1
Wrap(x) == x % SizeRange
l == Len(needle)
H(o) == hay[o + 1]         \* the byte at offset o of the haystack
N(o) == needle[o + 1]      \* and of the needle

-----------------------------------------------------------------------------
(* The chunk that is searched.                                             *)

ChunkStart(i) == Start(Len(hay), n, i)
ChunkEnd(i) == End(Len(hay), n, i)
z == ChunkEnd(bin)

-----------------------------------------------------------------------------
(* Preparing the needle.                                                   *)

\* One turn of a loop of "compute maximal suffix", with the comparison > (sign = 1) or <
\* (sign = -1) of bytes
Turn(s, sign) ==
  LET diff == sign * (N(Wrap(s.ip + s.k)) - N(s.jp + s.k)) IN
  CASE diff = 0 /\ s.k = s.p -> [s EXCEPT !.jp = s.jp + s.p, !.k = 1]
    [] diff = 0 /\ s.k # s.p -> [s EXCEPT !.k = s.k + 1]
    [] diff > 0 -> [s EXCEPT !.jp = s.jp + s.k, !.k = 1, !.p = Wrap(s.jp + s.k - s.ip)]
    [] diff < 0 -> [ip |-> s.jp, jp |-> s.jp + 1, k |-> 1, p |-> 1]

\* ip, jp, k and p before a loop
Fresh == [ip |-> Wrap(-1), jp |-> 0, k |-> 1, p |-> 1]

\* Slip: of the two suffixes the earlier is taken.
Critical_Earlier ==
  IF Wrap(suf.ip + 1) > Wrap(first.ip + 1) THEN first ELSE suf

\* "And with the opposite comparison": the later of the two suffixes
Critical == IF Wrap(suf.ip + 1) > Wrap(first.ip + 1) THEN suf ELSE first

\* Slip: every needle is taken for one without a period.
Prepared_NeverPeriodic(c) ==
  [ms |-> c.ip, p |-> Wrap(Max({c.ip, Wrap(l - c.ip - 1)}) + 1), mem0 |-> 0]

\* "Periodic needle?": memcmp of the needle's left half with itself p further on
Prepared(c) ==
  IF \A i \in 0 .. Wrap(c.ip + 1) - 1 : N(i) = N(i + c.p)
  THEN [ms |-> c.ip, p |-> c.p, mem0 |-> Wrap(l - c.p)]
  ELSE [ms |-> c.ip, p |-> Wrap(Max({c.ip, Wrap(l - c.ip - 1)}) + 1), mem0 |-> 0]

\* shift[c], if byteset has c
InNeedle(c) == \E i \in 0 .. l - 1 : N(i) = c
Shift(c) == Max({i \in 0 .. l - 1 : N(i) = c}) + 1

-----------------------------------------------------------------------------
Strings(max) == UNION {[1 .. len -> Bytes] : len \in 0 .. max}

Init ==
  /\ hay \in Strings(MaxHaystack) /\ needle \in Strings(MaxNeedle) /\ n \in 1 .. MaxBins
  /\ pc = IF hay = <<>> THEN "done" ELSE "next"
  /\ bin = 0 /\ h = 0 /\ mem = 0 /\ suf = Fresh /\ first = Fresh
  /\ prep = [ms |-> 0, p |-> 0, mem0 |-> 0]
  /\ res = [i \in 0 .. n - 1 |-> NULL]

\* A search ends: its pointer goes into the bin, and the next chunk is due.
Return(ptr) ==
  /\ res' = [res EXCEPT ![bin] = ptr]
  /\ bin' = IF bin + 1 < NumBlocks(Len(hay), n) THEN bin + 1 ELSE bin
  /\ pc' = IF bin + 1 < NumBlocks(Len(hay), n) THEN "next" ELSE "done"
  /\ h' = 0 /\ mem' = 0 /\ prep' = [ms |-> 0, p |-> 0, mem0 |-> 0]
  /\ UNCHANGED <<args, suf, first>>

\* memchr of the needle's first byte
FirstByte == {o \in ChunkStart(bin) .. z - 1 : H(o) = N(0)}

\* horspool_memmem when it decides by itself
SearchShort ==
  /\ pc = "next"
  /\ \/ l = 0 /\ Return(ChunkStart(bin))
     \/ /\ l > 0
        /\ z - ChunkStart(bin) < l \/ FirstByte = {}
        /\ Return(NULL)
     \/ /\ l > 0 /\ z - ChunkStart(bin) >= l /\ FirstByte # {}
        /\ \/ l = 1 /\ Return(Min(FirstByte))
           \/ l > 1 /\ z - Min(FirstByte) < l /\ Return(NULL)

\* horspool_memmem when it calls twoway_memmem
SearchLong ==
  /\ pc = "next" /\ l > 1 /\ FirstByte # {} /\ z - Min(FirstByte) >= l
  /\ pc' = "suffix" /\ h' = Min(FirstByte)
  /\ UNCHANGED <<args, bin, mem, suf, first, prep, res>>

\* "Compute maximal suffix"
MaximalSuffix ==
  /\ pc = "suffix"
  /\ \/ /\ suf.jp + suf.k < l /\ suf' = Turn(suf, 1)
        /\ UNCHANGED <<pc, first>>
     \/ /\ suf.jp + suf.k >= l /\ suf' = Fresh /\ first' = suf
        /\ pc' = "opposite"
  /\ UNCHANGED <<args, bin, h, mem, prep, res>>

\* "And with the opposite comparison", and what follows up to the search loop
OppositeSuffix ==
  /\ pc = "opposite"
  /\ \/ /\ suf.jp + suf.k < l /\ suf' = Turn(suf, -1)
        /\ UNCHANGED <<pc, first, prep>>
     \/ /\ suf.jp + suf.k >= l /\ suf' = Fresh /\ first' = Fresh
        /\ prep' = Prepared(Critical) /\ pc' = "search"
  /\ UNCHANGED <<args, bin, h, mem, res>>

\* "advance by ...": to the next turn of the search loop
Advance(by, m) ==
  /\ h' = h + by /\ mem' = m
  /\ UNCHANGED <<args, pc, bin, suf, first, prep, res>>

\* (size_t)(z - h)
Remainder == Wrap(z - h)
WindowEnd == H(h + l - 1)

\* "If remainder of haystack is shorter than needle, done"
Exhausted == pc = "search" /\ Remainder < l /\ Return(NULL)

\* "Check last byte first; advance by shift on mismatch"
LastByte ==
  /\ pc = "search" /\ Remainder >= l /\ WindowEnd # N(l - 1)
  /\ \/ InNeedle(WindowEnd) /\ Advance(Max({l - Shift(WindowEnd), mem}), 0)
     \/ ~InNeedle(WindowEnd) /\ Advance(l, 0)

\* The first position of the right half that differs, l if none does
RightEnd ==
  Min({l} \union {k \in Max({Wrap(prep.ms + 1), mem}) .. l - 1 : N(k) # H(h + k)})

\* "Compare right half"
RightHalf ==
  /\ pc = "search" /\ Remainder >= l /\ WindowEnd = N(l - 1)
  /\ RightEnd < l
  /\ Advance(Wrap(RightEnd - prep.ms), 0)

\* "Compare left half": it matches down to what is known to match
LeftMatches == \A k \in mem .. Wrap(prep.ms + 1) - 1 : N(k) = H(h + k)

\* Slip: what is known to match is kept for needles that have no period.
LeftHalf_KeepsMem ==
  /\ pc = "search" /\ Remainder >= l /\ WindowEnd = N(l - 1) /\ RightEnd = l
  /\ \/ LeftMatches /\ Return(h)
     \/ ~LeftMatches /\ Advance(prep.p, Wrap(l - prep.p))

LeftHalf ==
  /\ pc = "search" /\ Remainder >= l /\ WindowEnd = N(l - 1) /\ RightEnd = l
  /\ \/ LeftMatches /\ Return(h)
     \/ ~LeftMatches /\ Advance(prep.p, prep.mem0)

Next ==
  \/ SearchShort \/ SearchLong \/ MaximalSuffix \/ OppositeSuffix
  \/ Exhausted \/ LastByte \/ RightHalf \/ LeftHalf

\* A search is never given up.
Spec == Init /\ [][Next]_vars /\ WF_vars(Next)

-----------------------------------------------------------------------------
(* Properties.                                                             *)

\* The needle is at offset o of the haystack.
At(o) == \A i \in 0 .. l - 1 : o + i < Len(hay) /\ H(o + i) = N(i)

\* Where the needle lies wholly inside chunk i, and the first such place
Whole(i) ==
  {o \in ChunkStart(i) .. ChunkEnd(i) :
     i < NumBlocks(Len(hay), n) /\ o + l <= ChunkEnd(i) /\ At(o)}
FirstIn(i) == IF Whole(i) = {} THEN NULL ELSE Min(Whole(i))

\* The loops that prepare the needle read inside it, also with ip = -1, and so does the
\* comparison with the needle shifted by its period; the window never begins beyond the
\* end of its chunk, where what remains would wrap around; a shift by the period moves it
\* on, and what is remembered is never a whole needle (utils.cpp, twoway_memmem).
InBounds ==
  /\ bin \in 0 .. n - 1
  /\ \A i \in DOMAIN res : res[i] \in {NULL} \union (0 .. Len(hay) - 1)
  /\ pc \in {"suffix", "opposite"} =>
       /\ suf.jp + suf.k <= l /\ Wrap(suf.ip + suf.k) < suf.jp + suf.k /\ suf.k \in 1 .. suf.p
       /\ pc = "opposite" => Wrap(Critical.ip + 1) + Critical.p <= l
  /\ pc = "search" =>
       /\ h \in ChunkStart(bin) .. z
       /\ Wrap(prep.ms + 1) < l /\ prep.p \in 1 .. l
       /\ mem < l

\* No shift, by the table, by the right half or by the period, passes over an
\* occurrence of the needle in the chunk, and the bytes remembered across a shift by
\* the period do match; so a chunk that has been searched has its first occurrence.
NothingSkipped ==
  /\ pc \in {"suffix", "opposite", "search"} =>
       /\ \A o \in ChunkStart(bin) .. h - 1 : o + l <= z => ~At(o)
       /\ z - h >= l => \A i \in 0 .. mem - 1 : H(h + i) = N(i)
  /\ \A i \in 0 .. n - 1 : i < bin \/ pc = "done" => res[i] = FirstIn(i)

\* Every search ends, and then each bin has the first occurrence that lies wholly in
\* its chunk; bins beyond the bytes of the haystack and chunks that hold only a part
\* of the needle, such as two that share one, have none.
BinsAreFirst == <>(pc = "done" /\ \A i \in 0 .. n - 1 : res[i] = FirstIn(i))
=============================================================================
