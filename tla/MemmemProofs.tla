---------------------------- MODULE MemmemProofs ----------------------------
(***************************************************************************)
(* Proofs about Memmem, for all haystacks, needles, bytes, numbers of bins *)
(* and sizes of size_t: the two-way search passes over no occurrence.      *)
(*                                                                         *)
(* The first part is about needles alone.  A needle is a function x on     *)
(* 0 .. L - 1; sgn is the order of bytes a loop for a maximal suffix uses. *)
(***************************************************************************)
EXTENDS Memmem, SequenceTheorems, WellFoundedInduction, TLAPS

\* The order of bytes under which one of the two loops looks for a maximal suffix
Below(sgn, a, b) == IF sgn = 1 THEN a < b ELSE b < a

\* x has L bytes.
Word(x, L) == L \in Nat /\ \A i \in 0 .. L - 1 : x[i] \in Nat

\* The m bytes from a on and those from b on are the same.
Agree(x, a, b, m) == \A i \in 0 .. m - 1 : x[a + i] = x[b + i]

\* Every suffix that begins before c is less than the one at c, at a byte both have.
Dominates(x, L, sgn, c) ==
  \A s \in 0 .. c - 1 : \E m \in 0 .. L - 1 - c :
    Agree(x, s, c, m) /\ Below(sgn, x[s + m], x[c + m])

\* As far as position e, every suffix that begins after c and differs is less.
LaterLess(x, sgn, c, e) ==
  \A s \in c + 1 .. e : \A m \in 0 .. e - s :
    Agree(x, s, c, m) => x[s + m] = x[c + m] \/ Below(sgn, x[s + m], x[c + m])

\* From c to e the needle has the period p, and no shorter one.
Periodic(x, c, p, e) == \A i \in c .. e - p : x[i] = x[i + p]
Shortest(x, c, p, e) == \A d \in 1 .. p - 1 : \E j \in c + d .. e : x[j] # x[j - d]

\* Where a loop for a maximal suffix stands; c is ip + 1
Shape(L, c, jp, k, p) ==
  /\ c \in Nat /\ jp \in Nat /\ k \in Nat /\ p \in Nat
  /\ c < L /\ 1 <= k /\ k <= p /\ c + p <= jp + 1 /\ jp + k <= L

\* The invariant of a loop for a maximal suffix
Scan(x, L, sgn, c, jp, k, p) ==
  /\ Word(x, L) /\ sgn \in {1, -1} /\ Shape(L, c, jp, k, p)
  /\ Dominates(x, L, sgn, c) /\ LaterLess(x, sgn, c, jp + k - 1)
  /\ Periodic(x, c, p, jp + k - 1) /\ Shortest(x, c, p, jp + k - 1)
  /\ Agree(x, c, jp + 1 - p, p) /\ Agree(x, c, jp + 1, k - 1)

-----------------------------------------------------------------------------
(* Least elements.                                                         *)

Smaller == {ss \in Nat \X Nat : ss[1] < ss[2]}

LEMMA Least ==
  ASSUME NEW T \in SUBSET Nat, T # {}
  PROVE  \E m \in T : \A i \in T : m <= i
<1>1. IsWellFoundedOn(Smaller, Nat)
  BY NatLessThanWellFounded DEF OpToRel, Smaller
<1>2. PICK m \in T : \A i \in T : <<i, m>> \notin Smaller
  BY <1>1, WFMin
<1>3. ASSUME NEW i \in T PROVE m <= i
  <2>1. i \in Nat /\ m \in Nat
    OBVIOUS
  <2>2. i < m => <<i, m>> \in Smaller
    BY <2>1 DEF Smaller
  <2> QED BY <1>2, <2>1, <2>2
<1> QED BY <1>3

LEMMA MinLeast ==
  ASSUME NEW T \in SUBSET Nat, T # {}
  PROVE  Min(T) \in T /\ \A i \in T : Min(T) <= i
  BY Least DEF Min

LEMMA MaxGreatest ==
  ASSUME NEW T \in SUBSET Nat, T # {}, NEW b \in Nat, \A i \in T : i <= b
  PROVE  Max(T) \in T /\ \A i \in T : i <= Max(T)
<1> DEFINE U == {k \in Nat : k <= b /\ b - k \in T}
<1>1. PICK m \in U : \A i \in U : m <= i
  <2>1. PICK t \in T : TRUE
    OBVIOUS
  <2>2. b - t \in U
    OBVIOUS
  <2> QED BY <2>2, Least
<1>2. ASSUME NEW i \in T PROVE i <= b - m
  <2>1. b - i \in U
    OBVIOUS
  <2> QED BY <1>1, <2>1
<1>3. \E t \in T : \A i \in T : t >= i
  BY <1>1, <1>2
<1> QED BY <1>3 DEF Max

\* Where two stretches differ they differ at a first place.
LEMMA FirstDifference ==
  ASSUME NEW x, NEW a \in Int, NEW b \in Int, NEW k \in Nat, x[a + k] # x[b + k]
  PROVE  \E m \in 0 .. k : Agree(x, a, b, m) /\ x[a + m] # x[b + m]
<1> DEFINE T == {m \in 0 .. k : x[a + m] # x[b + m]}
<1>1. PICK m \in T : \A i \in T : m <= i
  <2>1. k \in T /\ T \in SUBSET Nat
    OBVIOUS
  <2> HIDE DEF T
  <2> QED BY <2>1, Least
<1>2. Agree(x, a, b, m)
  BY <1>1 DEF Agree
<1> QED BY <1>1, <1>2

-----------------------------------------------------------------------------
(* What the definitions give, at one place of the needle.                  *)

LEMMA WordAt ==
  ASSUME NEW x, NEW L, Word(x, L), NEW i \in Int, 0 <= i, i < L
  PROVE  x[i] \in Nat
  BY DEF Word

LEMMA AgreeAt ==
  ASSUME NEW x, NEW a \in Int, NEW b \in Int, NEW m \in Int, Agree(x, a, b, m), NEW i \in 0 .. m - 1
  PROVE  x[a + i] = x[b + i]
  BY DEF Agree

LEMMA AgreePlaces ==
  ASSUME NEW x, NEW a \in Int, NEW b \in Int, NEW m \in Int, Agree(x, a, b, m),
         NEW u \in Int, NEW v \in Int, a <= u, u < a + m, u - a = v - b
  PROVE  x[u] = x[v]
<1>1. PICK i \in 0 .. m - 1 : u = a + i /\ v = b + i
  <2> WITNESS u - a \in 0 .. m - 1
  <2> QED OBVIOUS
<1>2. x[a + i] = x[b + i]
  BY DEF Agree
<1> QED BY <1>1, <1>2

LEMMA AgreeShorter ==
  ASSUME NEW x, NEW a \in Int, NEW b \in Int, NEW m \in Int, Agree(x, a, b, m), NEW i \in Int, i <= m
  PROVE  Agree(x, a, b, i)
  BY DEF Agree

LEMMA LaterLessAt ==
  ASSUME NEW x, NEW sgn, NEW c \in Int, NEW e \in Int, LaterLess(x, sgn, c, e),
         NEW s \in Int, NEW m \in Int, c < s, 0 <= m, s + m <= e, Agree(x, s, c, m)
  PROVE  x[s + m] = x[c + m] \/ Below(sgn, x[s + m], x[c + m])
<1>1. s \in c + 1 .. e /\ m \in 0 .. e - s
  OBVIOUS
<1> QED BY <1>1 DEF LaterLess

LEMMA PeriodicAt ==
  ASSUME NEW x, NEW c \in Int, NEW p \in Int, NEW e \in Int, Periodic(x, c, p, e),
         NEW i \in Int, c <= i, i + p <= e
  PROVE  x[i] = x[i + p]
<1>1. i \in c .. e - p
  OBVIOUS
<1> QED BY <1>1 DEF Periodic

LEMMA ShortestAt ==
  ASSUME NEW x, NEW c \in Int, NEW p \in Int, NEW e \in Int, Shortest(x, c, p, e),
         NEW d \in 1 .. p - 1
  PROVE  \E j \in c + d .. e : x[j] # x[j - d]
  BY DEF Shortest

LEMMA BelowOrder ==
  ASSUME NEW sgn, NEW a \in Int, NEW b \in Int, NEW c \in Int,
         Below(sgn, a, b)
  PROVE  /\ ~Below(sgn, b, a) /\ a # b
         /\ Below(sgn, b, c) \/ b = c => Below(sgn, a, c)
  BY DEF Below

-----------------------------------------------------------------------------
(* Maximal suffixes.                                                       *)

LEMMA ScanFresh ==
  ASSUME NEW x, NEW L, Word(x, L), L > 1, NEW sgn \in {1, -1}
  PROVE  Scan(x, L, sgn, 0, 0, 1, 1)
<1>1. L \in Nat
  BY DEF Word
<1>2. Dominates(x, L, sgn, 0) /\ LaterLess(x, sgn, 0, 0 + 1 - 1)
  BY <1>1 DEF Dominates, LaterLess
<1>3. Periodic(x, 0, 1, 0 + 1 - 1) /\ Shortest(x, 0, 1, 0 + 1 - 1)
  BY DEF Periodic, Shortest
<1>4. Agree(x, 0, 0 + 1, 1 - 1)
  BY DEF Agree
<1>5. Agree(x, 0, 0 + 1 - 1, 1)
  BY DEF Agree
<1>6. Shape(L, 0, 0, 1, 1)
  BY <1>1 DEF Shape
<1> QED BY <1>2, <1>3, <1>4, <1>5, <1>6 DEF Scan

\* The byte compared is the one that would continue the period.
LEMMA Compared ==
  ASSUME NEW x, NEW L, NEW sgn, NEW c, NEW jp, NEW k, NEW p,
         Scan(x, L, sgn, c, jp, k, p)
  PROVE  x[c + k - 1] = x[jp + k - p]
<1>1. Agree(x, c, jp + 1 - p, p) /\ Shape(L, c, jp, k, p)
  BY DEF Scan
<1>2. /\ c \in Int /\ jp + 1 - p \in Int /\ p \in Int
      /\ c + k - 1 \in Int /\ jp + k - p \in Int
      /\ c <= c + k - 1 /\ c + k - 1 < c + p /\ (c + k - 1) - c = (jp + k - p) - (jp + 1 - p)
  BY <1>1 DEF Shape
<1> QED BY <1>1, <1>2, AgreePlaces

\* A stretch that repeats what begins at c, up to the byte before the one compared,
\* begins at least a period later.
LEMMA RepeatsLater ==
  ASSUME NEW x, NEW L, NEW sgn, NEW c, NEW jp, NEW k, NEW p,
         Scan(x, L, sgn, c, jp, k, p),
         NEW s \in Int, c < s, s <= jp + k, Agree(x, s, c, jp + k - s)
  PROVE  /\ s >= c + p
         /\ Agree(x, s - p, c, jp + k - s)
<1>1. /\ c \in Nat /\ jp \in Nat /\ k \in Nat /\ p \in Nat
      /\ c < L /\ 1 <= k /\ k <= p /\ c + p <= jp + 1 /\ jp + k <= L
  BY DEF Scan, Shape
<1>2. Shortest(x, c, p, jp + k - 1) /\ Periodic(x, c, p, jp + k - 1)
  BY DEF Scan
<1>3. s >= c + p
  <2> SUFFICES ASSUME s < c + p PROVE FALSE
    BY <1>1
  <2>1. PICK d \in 1 .. p - 1 : d = s - c
    BY <1>1
  <2>2. PICK j \in c + d .. jp + k - 1 : x[j] # x[j - d]
    BY <1>1, <1>2, ShortestAt
  <2>3. j \in Int /\ j - d \in Int /\ s <= j /\ j < s + (jp + k - s) /\ j - s = (j - d) - c
    BY <1>1, <2>1
  <2>4. x[j] = x[j - d]
    BY <1>1, <2>3, AgreePlaces
  <2> QED BY <2>2, <2>4
<1>4. ASSUME NEW i \in 0 .. (jp + k - s) - 1 PROVE x[(s - p) + i] = x[c + i]
  <2>1. /\ c <= s - p + i /\ (s - p + i) + p <= jp + k - 1
        /\ (s - p + i) + p = s + i /\ s - p + i \in Int
    BY <1>1, <1>3
  <2>2. x[s - p + i] = x[(s - p + i) + p]
    BY <1>1, <1>2, <2>1, PeriodicAt
  <2>3. x[s + i] = x[c + i]
    BY <1>1, AgreeAt
  <2> QED BY <2>1, <2>2, <2>3
<1> QED BY <1>3, <1>4 DEF Agree

\* Where such a stretch is continued by the byte compared
LEMMA RepeatsAt ==
  ASSUME NEW x, NEW L, NEW sgn, NEW c, NEW jp, NEW k, NEW p,
         Scan(x, L, sgn, c, jp, k, p),
         NEW s \in Int, c < s, s <= jp + k, Agree(x, s, c, jp + k - s)
  PROVE  \/ x[c + k - 1] = x[c + (jp + k - s)]
         \/ Below(sgn, x[c + k - 1], x[c + (jp + k - s)])
<1>1. /\ c \in Nat /\ jp \in Nat /\ k \in Nat /\ p \in Nat
      /\ c < L /\ 1 <= k /\ k <= p /\ c + p <= jp + 1 /\ jp + k <= L
  BY DEF Scan, Shape
<1>2. x[c + k - 1] = x[jp + k - p] /\ LaterLess(x, sgn, c, jp + k - 1)
  BY Compared DEF Scan
<1>3. s >= c + p /\ Agree(x, s - p, c, jp + k - s)
  BY RepeatsLater
<1>4. CASE s - p = c
  <2>1. c + (jp + k - s) = jp + k - p
    BY <1>1, <1>4
  <2> QED BY <1>2, <2>1
<1>5. CASE s - p # c
  <2>1. /\ s - p \in Int /\ jp + k - s \in Int /\ c < s - p /\ 0 <= jp + k - s
        /\ (s - p) + (jp + k - s) <= jp + k - 1
    BY <1>1, <1>3, <1>5
  <2>2. \/ x[(s - p) + (jp + k - s)] = x[c + (jp + k - s)]
        \/ Below(sgn, x[(s - p) + (jp + k - s)], x[c + (jp + k - s)])
    BY <1>1, <1>2, <1>3, <2>1, LaterLessAt
  <2>3. (s - p) + (jp + k - s) = jp + k - p
    BY <1>1
  <2> QED BY <1>2, <2>2, <2>3
<1> QED BY <1>4, <1>5

\* What the suffixes after c become when the next byte is not above the one compared
LEMMA LaterLonger ==
  ASSUME NEW x, NEW L, NEW sgn, NEW c, NEW jp, NEW k, NEW p,
         Scan(x, L, sgn, c, jp, k, p), jp + k < L,
         x[jp + k] = x[c + k - 1] \/ Below(sgn, x[jp + k], x[c + k - 1])
  PROVE  LaterLess(x, sgn, c, jp + k)
<1>1. /\ c \in Nat /\ jp \in Nat /\ k \in Nat /\ p \in Nat /\ L \in Nat
      /\ c < L /\ 1 <= k /\ k <= p /\ c + p <= jp + 1 /\ jp + k <= L
  BY DEF Scan, Shape, Word
<1>2. Word(x, L) /\ LaterLess(x, sgn, c, jp + k - 1)
  BY DEF Scan
<1>3. ASSUME NEW s \in c + 1 .. jp + k, NEW m \in 0 .. (jp + k) - s, Agree(x, s, c, m)
      PROVE  x[s + m] = x[c + m] \/ Below(sgn, x[s + m], x[c + m])
  <2>1. s \in Int /\ m \in Int /\ c < s /\ s <= jp + k /\ 0 <= m /\ s + m <= jp + k
    BY <1>1
  <2>2. CASE s + m < jp + k
    <3>1. s + m <= jp + k - 1 /\ jp + k - 1 \in Int /\ c \in Int
      BY <1>1, <2>1, <2>2
    <3> QED BY <1>2, <1>3, <2>1, <3>1, LaterLessAt
  <2>3. CASE s + m = jp + k
    <3>1. m = jp + k - s
      BY <1>1, <2>1, <2>3
    <3>2. x[c + k - 1] = x[c + m] \/ Below(sgn, x[c + k - 1], x[c + m])
      BY <1>3, <2>1, <3>1, RepeatsAt
    <3>3. x[jp + k] \in Int /\ x[c + k - 1] \in Int /\ x[c + m] \in Int
      <4>1. /\ jp + k \in Int /\ c + k - 1 \in Int /\ c + m \in Int /\ 0 <= c + m /\ c + m < L
            /\ 0 <= jp + k /\ 0 <= c + k - 1 /\ c + k - 1 < L
        BY <1>1, <2>1, <2>3
      <4> QED BY <1>2, <4>1, WordAt
    <3> QED BY <2>3, <3>2, <3>3, BelowOrder
  <2> QED BY <1>1, <2>1, <2>2, <2>3
<1> QED BY <1>3 DEF LaterLess

LEMMA ShortestLonger ==
  ASSUME NEW x, NEW c \in Int, NEW p \in Int, NEW e \in Int, Shortest(x, c, p, e)
  PROVE  Shortest(x, c, p, e + 1)
<1>1. ASSUME NEW d \in 1 .. p - 1 PROVE \E j \in c + d .. e + 1 : x[j] # x[j - d]
  <2>1. PICK j \in c + d .. e : x[j] # x[j - d]
    BY ShortestAt
  <2>2. j \in c + d .. e + 1
    OBVIOUS
  <2> QED BY <2>1, <2>2
<1> QED BY <1>1 DEF Shortest

\* A turn that finds equal bytes
LEMMA ScanEqual ==
  ASSUME NEW x, NEW L, NEW sgn, NEW c, NEW jp, NEW k, NEW p,
         Scan(x, L, sgn, c, jp, k, p), jp + k < L, x[jp + k] = x[c + k - 1]
  PROVE  /\ k = p => Scan(x, L, sgn, c, jp + p, 1, p)
         /\ k # p => Scan(x, L, sgn, c, jp, k + 1, p)
<1>1. /\ c \in Nat /\ jp \in Nat /\ k \in Nat /\ p \in Nat /\ L \in Nat
      /\ c < L /\ 1 <= k /\ k <= p /\ c + p <= jp + 1 /\ jp + k <= L
  BY DEF Scan, Shape, Word
<1>2. /\ Word(x, L) /\ sgn \in {1, -1} /\ Dominates(x, L, sgn, c)
      /\ Agree(x, c, jp + 1 - p, p) /\ Agree(x, c, jp + 1, k - 1)
      /\ Periodic(x, c, p, jp + k - 1) /\ Shortest(x, c, p, jp + k - 1)
      /\ x[c + k - 1] = x[jp + k - p]
  BY Compared DEF Scan
<1>3. LaterLess(x, sgn, c, jp + k)
  BY LaterLonger
<1>4. Periodic(x, c, p, jp + k)
  <2>1. ASSUME NEW i \in c .. (jp + k) - p PROVE x[i] = x[i + p]
    <3>1. CASE i = jp + k - p
      <4>1. i + p = jp + k
        BY <1>1, <3>1
      <4> QED BY <1>2, <3>1, <4>1
    <3>2. CASE i # jp + k - p
      <4>1. i \in Int /\ c <= i /\ i + p <= jp + k - 1 /\ jp + k - 1 \in Int
        BY <1>1, <3>2
      <4> QED BY <1>1, <1>2, <4>1, PeriodicAt
    <3> QED BY <3>1, <3>2
  <2> QED BY <2>1 DEF Periodic
<1>5. Shortest(x, c, p, jp + k)
  <2>1. jp + k - 1 \in Int /\ (jp + k - 1) + 1 = jp + k
    BY <1>1
  <2>2. Shortest(x, c, p, (jp + k - 1) + 1)
    BY <1>1, <1>2, <2>1, ShortestLonger
  <2> QED BY <2>1, <2>2
<1>6. Agree(x, c, jp + 1, k)
  <2>1. ASSUME NEW i \in 0 .. k - 1 PROVE x[c + i] = x[jp + 1 + i]
    <3>1. CASE i = k - 1
      <4>1. c + i = c + k - 1 /\ jp + 1 + i = jp + k
        BY <1>1, <3>1
      <4> QED BY <4>1
    <3>2. CASE i # k - 1
      <4>1. i \in 0 .. (k - 1) - 1 /\ k - 1 \in Int /\ c \in Int /\ jp + 1 \in Int
        BY <1>1, <3>2
      <4> QED BY <1>2, <4>1, AgreeAt
    <3> QED BY <3>1, <3>2
  <2> QED BY <2>1 DEF Agree
<1>7. ASSUME k = p PROVE Scan(x, L, sgn, c, jp + p, 1, p)
  <2>1. (jp + p) + 1 - 1 = jp + k /\ 1 - 1 = 0 /\ (jp + p) + 1 - p = jp + 1
    BY <1>1, <1>7
  <2>2. Agree(x, c, (jp + p) + 1, 0)
    BY DEF Agree
  <2>3. Shape(L, c, jp + p, 1, p)
    BY <1>1, <1>7 DEF Shape
  <2> QED BY <1>2, <1>3, <1>4, <1>5, <1>6, <1>7, <2>1, <2>2, <2>3 DEF Scan
<1>8. ASSUME k # p PROVE Scan(x, L, sgn, c, jp, k + 1, p)
  <2>1. jp + (k + 1) - 1 = jp + k /\ (k + 1) - 1 = k
    BY <1>1
  <2>2. Shape(L, c, jp, k + 1, p)
    BY <1>1, <1>8 DEF Shape
  <2> QED BY <1>2, <1>3, <1>4, <1>5, <1>6, <2>1, <2>2 DEF Scan
<1> QED BY <1>7, <1>8

\* A turn that finds a lesser byte: what was seen from c on has become the period.
LEMMA ScanLess ==
  ASSUME NEW x, NEW L, NEW sgn, NEW c, NEW jp, NEW k, NEW p,
         Scan(x, L, sgn, c, jp, k, p), jp + k < L, Below(sgn, x[jp + k], x[c + k - 1])
  PROVE  Scan(x, L, sgn, c, jp + k, 1, jp + k - c + 1)
<1>1. /\ c \in Nat /\ jp \in Nat /\ k \in Nat /\ p \in Nat /\ L \in Nat
      /\ c < L /\ 1 <= k /\ k <= p /\ c + p <= jp + 1 /\ jp + k <= L
  BY DEF Scan, Shape, Word
<1>2. Word(x, L) /\ sgn \in {1, -1} /\ Dominates(x, L, sgn, c)
  BY DEF Scan
<1>3. LaterLess(x, sgn, c, jp + k)
  BY LaterLonger
<1>4. PICK q \in Nat : q = jp + k - c + 1
  BY <1>1
<1>5. Periodic(x, c, q, jp + k)
  BY <1>1, <1>4 DEF Periodic
<1>6. Shortest(x, c, q, jp + k)
  <2>1. ASSUME NEW d \in 1 .. q - 1, \A j \in c + d .. jp + k : x[j] = x[j - d]
        PROVE  FALSE
    <3>1. PICK s \in Int : s = c + d
      BY <1>1
    <3>2. c < s /\ s <= jp + k
      BY <1>1, <1>4, <3>1
    <3>3. ASSUME NEW i \in 0 .. jp + k - s PROVE x[s + i] = x[c + i]
      <4>1. s + i \in c + d .. jp + k /\ (s + i) - d = c + i
        BY <1>1, <3>1
      <4> QED BY <2>1, <4>1
    <3>4. Agree(x, s, c, jp + k - s)
      BY <1>1, <3>3 DEF Agree
    <3>5. PICK m \in Int : m = jp + k - s
      BY <1>1
    <3>6. x[c + k - 1] = x[c + m] \/ Below(sgn, x[c + k - 1], x[c + m])
      BY <3>2, <3>4, <3>5, RepeatsAt
    <3>7. s + m = jp + k /\ m \in 0 .. jp + k - s
      BY <1>1, <3>2, <3>5
    <3>8. x[jp + k] = x[c + m]
      BY <3>3, <3>7
    <3>9. x[jp + k] \in Int /\ x[c + k - 1] \in Int
      <4>1. /\ jp + k \in Int /\ c + k - 1 \in Int
            /\ 0 <= jp + k /\ 0 <= c + k - 1 /\ c + k - 1 < L
        BY <1>1
      <4> QED BY <1>2, <4>1, WordAt
    <3> QED BY <3>6, <3>8, <3>9, BelowOrder
  <2> QED BY <2>1 DEF Shortest
<1>7. (jp + k) + 1 - 1 = jp + k /\ 1 - 1 = 0 /\ (jp + k) + 1 - q = c
  BY <1>1, <1>4
<1>8. Agree(x, c, c, q) /\ Agree(x, c, (jp + k) + 1, 0)
  BY DEF Agree
<1>9. Shape(L, c, jp + k, 1, q)
  BY <1>1, <1>4 DEF Shape
<1>10. Scan(x, L, sgn, c, jp + k, 1, q)
  BY <1>2, <1>3, <1>5, <1>6, <1>7, <1>8, <1>9 DEF Scan
<1> QED BY <1>4, <1>10

\* If what begins at s is not above what begins at c, and that is below what begins at b
\* within K bytes, so is what begins at s.
LEMMA Chain ==
  ASSUME NEW x, NEW L, Word(x, L), NEW sgn,
         NEW s \in Nat, NEW c \in Nat, NEW b \in Nat, NEW m \in Nat, NEW K \in Nat,
         s + m < L, s + K < L, c + m < L, c + K < L, b + K < L,
         Agree(x, s, c, m), m > K \/ Below(sgn, x[s + m], x[c + m]),
         Agree(x, c, b, K), Below(sgn, x[c + K], x[b + K])
  PROVE  \E i \in 0 .. K : Agree(x, s, b, i) /\ Below(sgn, x[s + i], x[b + i])
<1>1. ASSUME NEW i \in Nat, i <= m, i <= K PROVE Agree(x, s, b, i)
  <2>1. ASSUME NEW j \in 0 .. i - 1 PROVE x[s + j] = x[b + j]
    <3>1. j \in 0 .. m - 1 /\ j \in 0 .. K - 1
      BY <1>1
    <3>2. x[s + j] = x[c + j] /\ x[c + j] = x[b + j]
      BY <3>1, AgreeAt
    <3> QED BY <3>2
  <2> QED BY <2>1 DEF Agree
<1>2. ASSUME NEW i \in Nat, i <= m, i <= K
      PROVE  x[s + i] \in Int /\ x[c + i] \in Int /\ x[b + i] \in Int
  <2>1. L \in Nat
    BY DEF Word
  <2>2. /\ s + i \in Int /\ c + i \in Int /\ b + i \in Int
        /\ 0 <= s + i /\ 0 <= c + i /\ 0 <= b + i /\ s + i < L /\ c + i < L /\ b + i < L
    BY <1>2, <2>1
  <2> QED BY <2>2, WordAt
<1>3. CASE m < K
  <2>1. x[c + m] = x[b + m]
    <3>1. m \in 0 .. K - 1
      BY <1>3
    <3> QED BY <3>1, AgreeAt
  <2>2. Agree(x, s, b, m) /\ Below(sgn, x[s + m], x[b + m]) /\ m \in 0 .. K
    BY <1>1, <1>3, <2>1
  <2> QED BY <2>2
<1>4. CASE m = K
  <2>1. Below(sgn, x[s + K], x[c + K]) /\ Agree(x, s, b, K) /\ K \in 0 .. K
    BY <1>1, <1>4
  <2>2. x[s + K] \in Int /\ x[c + K] \in Int /\ x[b + K] \in Int
    BY <1>2, <1>4
  <2>3. Below(sgn, x[s + K], x[b + K])
    BY <2>1, <2>2, BelowOrder
  <2> QED BY <2>1, <2>3
<1>5. CASE m > K
  <2>1. K \in 0 .. m - 1 /\ K \in 0 .. K
    BY <1>5
  <2>2. x[s + K] = x[c + K]
    BY <2>1, AgreeAt
  <2>3. Agree(x, s, b, K)
    BY <1>1, <1>5
  <2>4. Below(sgn, x[s + K], x[b + K])
    BY <2>2
  <2> QED BY <2>1, <2>3, <2>4
<1> QED BY <1>3, <1>4, <1>5

\* A turn that finds a greater byte: the maximal suffix begins later.
LEMMA ScanRestart ==
  ASSUME NEW x, NEW L, NEW sgn, NEW c, NEW jp, NEW k, NEW p,
         Scan(x, L, sgn, c, jp, k, p), jp + k < L, Below(sgn, x[c + k - 1], x[jp + k])
  PROVE  Scan(x, L, sgn, jp + 1, jp + 1, 1, 1)
<1>1. /\ c \in Nat /\ jp \in Nat /\ k \in Nat /\ p \in Nat /\ L \in Nat
      /\ c < L /\ 1 <= k /\ k <= p /\ c + p <= jp + 1 /\ jp + k <= L
  BY DEF Scan, Shape, Word
<1>2. /\ Word(x, L) /\ sgn \in {1, -1} /\ Dominates(x, L, sgn, c)
      /\ LaterLess(x, sgn, c, jp + k - 1) /\ Agree(x, c, jp + 1, k - 1)
  BY DEF Scan
<1>3. PICK b \in Nat, K \in Nat : b = jp + 1 /\ K = k - 1
  BY <1>1
<1>4. /\ c + k - 1 = c + K /\ jp + k = b + K /\ b + K < L /\ c + K < L /\ c < b
      /\ jp + k - 1 = b + K - 1
  BY <1>1, <1>3
<1>5. Agree(x, c, b, K) /\ Below(sgn, x[c + K], x[b + K]) /\ LaterLess(x, sgn, c, b + K - 1)
  BY <1>2, <1>3, <1>4
<1>6. ASSUME NEW s \in 0 .. b - 1
      PROVE  \E m \in 0 .. K : Agree(x, s, b, m) /\ Below(sgn, x[s + m], x[b + m])
  <2>1. s \in Nat /\ s + K < L
    BY <1>1, <1>4
  <2>2. CASE s = c
    <3>1. K \in 0 .. K
      OBVIOUS
    <3> QED BY <1>5, <2>2, <3>1
  <2>3. CASE s < c
    <3>1. s \in 0 .. c - 1
      BY <1>1, <2>3
    <3>2. PICK m \in 0 .. L - 1 - c : Agree(x, s, c, m) /\ Below(sgn, x[s + m], x[c + m])
      BY <1>2, <3>1 DEF Dominates
    <3>3. m \in Nat /\ s + m < L /\ c + m < L
      BY <1>1, <2>3
    <3> QED BY <1>1, <1>2, <1>4, <1>5, <2>1, <3>2, <3>3, Chain
  <2>4. CASE c < s
    <3>1. CASE Agree(x, s, c, K + 1)
      <4>1. K + 1 \in Nat /\ K + 1 > K
        OBVIOUS
      <4>2. CASE s + (K + 1) < L
        <5>1. c + (K + 1) < L
          BY <1>1, <2>4, <4>2
        <5> QED BY <1>1, <1>2, <1>4, <1>5, <2>1, <3>1, <4>1, <4>2, <5>1, Chain
      <4>3. CASE s + (K + 1) >= L
        BY <1>1, <1>4, <2>1, <4>3
      <4> QED BY <1>1, <2>1, <4>2, <4>3
    <3>2. CASE ~Agree(x, s, c, K + 1)
      <4>1. PICK j \in 0 .. (K + 1) - 1 : x[s + j] # x[c + j]
        BY <3>2 DEF Agree
      <4>2. PICK m \in 0 .. j : Agree(x, s, c, m) /\ x[s + m] # x[c + m]
        <5>1. j \in Nat /\ s \in Int /\ c \in Int
          BY <1>1
        <5> QED BY <4>1, <5>1, FirstDifference
      <4>3. /\ m \in Nat /\ m <= K /\ s + m < L /\ c + m < L /\ s + m <= b + K - 1
            /\ b + K - 1 \in Int /\ c \in Int /\ s \in Int /\ m \in Int
        BY <1>1, <1>4, <2>1
      <4>4. Below(sgn, x[s + m], x[c + m])
        BY <1>5, <2>4, <4>2, <4>3, LaterLessAt
      <4> QED BY <1>1, <1>2, <1>4, <1>5, <2>1, <4>2, <4>3, <4>4, Chain
    <3> QED BY <3>1, <3>2
  <2> QED BY <1>1, <2>1, <2>2, <2>3, <2>4
<1>7. Dominates(x, L, sgn, b)
  <2>1. K <= L - 1 - b
    BY <1>1, <1>4
  <2>2. ASSUME NEW s \in 0 .. b - 1
        PROVE  \E m \in 0 .. L - 1 - b : Agree(x, s, b, m) /\ Below(sgn, x[s + m], x[b + m])
    <3>1. PICK m \in 0 .. K : Agree(x, s, b, m) /\ Below(sgn, x[s + m], x[b + m])
      BY <1>6
    <3>2. m \in 0 .. L - 1 - b
      BY <1>1, <2>1
    <3> QED BY <3>1, <3>2
  <2> QED BY <2>2 DEF Dominates
<1>8. LaterLess(x, sgn, b, b + 1 - 1) /\ Periodic(x, b, 1, b + 1 - 1)
  BY DEF LaterLess, Periodic
<1>9. Shortest(x, b, 1, b + 1 - 1) /\ Agree(x, b, b + 1 - 1, 1) /\ Agree(x, b, b + 1, 1 - 1)
  BY DEF Shortest, Agree
<1>10. Shape(L, b, b, 1, 1)
  BY <1>1, <1>3 DEF Shape
<1>11. Scan(x, L, sgn, b, b, 1, 1)
  BY <1>2, <1>7, <1>8, <1>9, <1>10 DEF Scan
<1> QED BY <1>3, <1>11

-----------------------------------------------------------------------------
(* Shifts of a needle cut before its later maximal suffix.                 *)

\* The needle is cut at c, where the later of its two maximal suffixes begins; the other
\* one begins at b, and p is the shortest period of the right half.
Factored(x, L, sgn, c, b, p) ==
  /\ Word(x, L) /\ sgn \in {1, -1} /\ c \in Nat /\ b \in Nat /\ p \in Nat
  /\ b <= c /\ c < L /\ 1 <= p /\ c + p <= L
  /\ Dominates(x, L, sgn, c) /\ LaterLess(x, sgn, c, L - 1) /\ LaterLess(x, -sgn, b, L - 1)
  /\ Periodic(x, c, p, L - 1) /\ Shortest(x, c, p, L - 1)

\* The positions of lo .. hi hold the needle's bytes also when it is moved on by d.
Shifted(x, lo, hi, d) == \A j \in lo .. hi : j >= d => x[j] = x[j - d]

LEMMA ShiftedAt ==
  ASSUME NEW x, NEW lo \in Int, NEW hi \in Int, NEW d \in Int, Shifted(x, lo, hi, d),
         NEW j \in Int, lo <= j, j <= hi, d <= j
  PROVE  x[j] = x[j - d]
  BY DEF Shifted

LEMMA Factoring ==
  ASSUME NEW x, NEW L, NEW sgn, NEW c, NEW jp, NEW k, NEW p, Scan(x, L, sgn, c, jp, k, p),
         NEW b, NEW j2, NEW k2, NEW p2, NEW opp \in Int, Scan(x, L, opp, b, j2, k2, p2),
         sgn + opp = 0,
         jp + k = L, j2 + k2 = L, b <= c
  PROVE  Factored(x, L, sgn, c, b, p)
<1>1. Word(x, L) /\ L \in Nat /\ Shape(L, c, jp, k, p) /\ Shape(L, b, j2, k2, p2)
  BY DEF Scan, Word
<1>2. jp + k - 1 = L - 1 /\ j2 + k2 - 1 = L - 1
  BY <1>1 DEF Shape
<1>3. /\ sgn \in {1, -1} /\ Dominates(x, L, sgn, c) /\ LaterLess(x, sgn, c, L - 1)
      /\ LaterLess(x, opp, b, L - 1) /\ Periodic(x, c, p, L - 1) /\ Shortest(x, c, p, L - 1)
  BY <1>2 DEF Scan
<1>4. opp = -sgn
  BY <1>3
<1>5. c \in Nat /\ b \in Nat /\ p \in Nat /\ c < L /\ 1 <= p /\ c + p <= L
  BY <1>1 DEF Shape
<1> QED BY <1>1, <1>3, <1>4, <1>5 DEF Factored

\* Where the right half, moved on by d, first differs from itself, it is at a lesser byte:
\* the suffix at c is maximal.
LEMMA MovedLess ==
  ASSUME NEW x, NEW L, NEW sgn, NEW c, NEW e, LaterLess(x, sgn, c, e), c \in Nat, e \in Int,
         NEW lo \in Int, NEW k \in Int, NEW d \in Int, 1 <= d, k <= e, c + d <= k,
         lo <= c + d, Shifted(x, lo, k - 1, d), x[k] # x[k - d]
  PROVE  Below(sgn, x[k], x[k - d])
<1>1. PICK s \in Int, m \in Int : s = c + d /\ m = k - s
  OBVIOUS
<1>2. c < s /\ 0 <= m /\ s + m <= e /\ s + m = k /\ c + m = k - d /\ c \in Int
  BY <1>1
<1>3. Agree(x, s, c, m)
  <2>1. ASSUME NEW i \in 0 .. m - 1 PROVE x[s + i] = x[c + i]
    <3>1. /\ s + i \in Int /\ lo <= s + i /\ s + i <= k - 1 /\ d <= s + i /\ k - 1 \in Int
          /\ (s + i) - d = c + i
      BY <1>1, <1>2
    <3>2. x[s + i] = x[(s + i) - d]
      BY <3>1, ShiftedAt
    <3> QED BY <3>1, <3>2
  <2> QED BY <2>1 DEF Agree
<1>4. x[s + m] = x[c + m] \/ Below(sgn, x[s + m], x[c + m])
  BY <1>2, <1>3, LaterLessAt
<1> QED BY <1>2, <1>4

\* The suffix at c is above the one d before it, so the needle moved on by d differs from
\* itself, first at a greater byte.
LEMMA MovedGreater ==
  ASSUME NEW x, NEW L, Word(x, L), NEW sgn, NEW c \in Nat, c < L, Dominates(x, L, sgn, c),
         NEW d \in Int, 1 <= d, d <= c
  PROVE  \E k \in c .. L - 1 : Below(sgn, x[k - d], x[k]) /\ Shifted(x, c, k - 1, d)
<1>1. PICK s \in 0 .. c - 1 : s = c - d
  OBVIOUS
<1>2. PICK m \in 0 .. L - 1 - c : Agree(x, s, c, m) /\ Below(sgn, x[s + m], x[c + m])
  BY DEF Dominates
<1>3. L \in Nat
  BY DEF Word
<1>4. PICK k \in c .. L - 1 : k = c + m
  BY <1>3
<1>5. k - d = s + m
  BY <1>1, <1>4
<1>6. Shifted(x, c, k - 1, d)
  <2>1. ASSUME NEW j \in c .. k - 1 PROVE x[j] = x[j - d]
    <3>1. /\ j \in Int /\ j - d \in Int /\ s \in Int /\ c \in Int /\ m \in Int
          /\ s <= j - d /\ j - d < s + m /\ (j - d) - s = j - c
      BY <1>1, <1>4
    <3>2. x[j - d] = x[j]
      BY <1>2, <3>1, AgreePlaces
    <3> QED BY <3>2
  <2> QED BY <2>1 DEF Shifted
<1> QED BY <1>2, <1>4, <1>5, <1>6

\* A mismatch at k of the right half rules out every shift by at most k - c.
LEMMA RightShift ==
  ASSUME NEW x, NEW L, NEW sgn, NEW c, NEW b, NEW p, Factored(x, L, sgn, c, b, p),
         NEW k \in Int, k < L, NEW d \in Int, 1 <= d, c + d <= k, Shifted(x, c, k - 1, d)
  PROVE  x[k] = x[k - d]
<1> SUFFICES ASSUME x[k] # x[k - d] PROVE FALSE
  OBVIOUS
<1>1. /\ Word(x, L) /\ sgn \in {1, -1} /\ c \in Nat /\ b \in Nat /\ p \in Nat /\ L \in Nat
      /\ b <= c /\ c < L /\ 1 <= p /\ c + p <= L
      /\ Dominates(x, L, sgn, c) /\ LaterLess(x, sgn, c, L - 1) /\ LaterLess(x, -sgn, b, L - 1)
  BY DEF Factored, Word
<1>2. L - 1 \in Int /\ k <= L - 1 /\ c <= c + d /\ c \in Int
  BY <1>1
<1>3. Below(sgn, x[k], x[k - d])
  BY <1>1, <1>2, MovedLess
<1>4. x[k] \in Int /\ x[k - d] \in Int
  <2>1. k - d \in Int /\ 0 <= k /\ 0 <= k - d /\ k - d < L
    BY <1>1
  <2> QED BY <1>1, <2>1, WordAt
<1>5. CASE d <= c
  <2>1. PICK j \in c .. L - 1 : Below(sgn, x[j - d], x[j]) /\ Shifted(x, c, j - 1, d)
    BY <1>1, <1>5, MovedGreater
  <2>2. x[j] \in Int /\ x[j - d] \in Int /\ j \in Int /\ c <= j
    <3>1. j \in Int /\ j - d \in Int /\ 0 <= j /\ j < L /\ 0 <= j - d /\ j - d < L /\ c <= j
      BY <1>1, <1>5
    <3> QED BY <1>1, <3>1, WordAt
  <2>3. CASE j < k
    <3>1. j <= k - 1 /\ d <= j /\ k - 1 \in Int
      BY <1>1, <1>5, <2>2, <2>3
    <3>2. x[j] = x[j - d]
      BY <1>2, <2>2, <3>1, ShiftedAt
    <3> QED BY <2>1, <2>2, <3>2, BelowOrder
  <2>4. CASE k < j
    <3>1. k <= j - 1 /\ d <= k /\ j - 1 \in Int /\ c <= k
      BY <1>1, <2>2, <2>4
    <3> QED BY <1>2, <2>1, <3>1, ShiftedAt
  <2>5. CASE j = k
    BY <1>3, <1>4, <2>1, <2>5, BelowOrder
  <2> QED BY <2>2, <2>3, <2>4, <2>5
<1>6. CASE d > c
  <2>1. b + d <= k /\ c <= b + d
    BY <1>1, <1>6
  <2>2. Below(-sgn, x[k], x[k - d])
    BY <1>1, <1>2, <2>1, MovedLess
  <2> QED BY <1>1, <1>3, <1>4, <2>2 DEF Below
<1> QED BY <1>1, <1>5, <1>6

\* A right half that matches rules out every shift shorter than its period.
LEMMA PeriodShift ==
  ASSUME NEW x, NEW L, NEW sgn, NEW c, NEW b, NEW p, Factored(x, L, sgn, c, b, p),
         NEW d \in 1 .. p - 1
  PROVE  ~Shifted(x, c, L - 1, d)
<1>1. c \in Nat /\ p \in Nat /\ L \in Nat /\ Shortest(x, c, p, L - 1)
  BY DEF Factored, Word
<1>2. PICK j \in c + d .. L - 1 : x[j] # x[j - d]
  BY <1>1, ShortestAt
<1>3. j \in c .. L - 1 /\ j >= d
  BY <1>1
<1> QED BY <1>2, <1>3 DEF Shifted

\* A needle whose left half continues the period of the right half has that period, which
\* is longer than the left half.
LEMMA WholePeriod ==
  ASSUME NEW x, NEW L, NEW sgn, NEW c, NEW b, NEW p, Factored(x, L, sgn, c, b, p),
         \A i \in 0 .. c - 1 : x[i] = x[i + p]
  PROVE  /\ c < p
         /\ \A i \in 0 .. L - 1 - p : x[i] = x[i + p]
<1>1. /\ Word(x, L) /\ sgn \in {1, -1} /\ c \in Nat /\ p \in Nat /\ L \in Nat
      /\ c < L /\ 1 <= p /\ c + p <= L /\ Dominates(x, L, sgn, c) /\ Periodic(x, c, p, L - 1)
  BY DEF Factored, Word
<1>2. ASSUME NEW i \in 0 .. L - 1 - p PROVE x[i] = x[i + p]
  <2>1. CASE i < c
    <3>1. i \in 0 .. c - 1
      BY <1>1, <2>1
    <3> QED BY <3>1
  <2>2. CASE i >= c
    <3>1. i \in Int /\ i + p <= L - 1 /\ L - 1 \in Int
      BY <1>1
    <3> QED BY <1>1, <2>2, <3>1, PeriodicAt
  <2> QED BY <1>1, <2>1, <2>2
<1>3. c < p
  <2> SUFFICES ASSUME p <= c PROVE FALSE
    BY <1>1
  <2>1. PICK k \in c .. L - 1 : Below(sgn, x[k - p], x[k]) /\ Shifted(x, c, k - 1, p)
    BY <1>1, MovedGreater
  <2>2. k - p \in 0 .. L - 1 - p /\ (k - p) + p = k
    BY <1>1
  <2>3. x[k - p] = x[k]
    BY <1>2, <2>2
  <2>4. x[k] \in Int
    <3>1. k \in Int /\ 0 <= k /\ k < L
      BY <1>1
    <3> QED BY <1>1, <3>1, WordAt
  <2> QED BY <2>1, <2>3, <2>4, BelowOrder
<1> QED BY <1>2, <1>3

\* Under a shift by d, r bytes of the right half are again at its beginning; the least
\* such r is not above the period.
LEMMA LeastOverlap ==
  ASSUME NEW x, NEW L, NEW sgn, NEW c, NEW b, NEW p, Factored(x, L, sgn, c, b, p),
         NEW d \in Int, p < d, c + d <= L
  PROVE  \E r \in 1 .. p : Agree(x, c + d - r, c, r)
<1>1. c \in Nat /\ p \in Nat /\ L \in Nat /\ 1 <= p /\ c + p <= L /\ Periodic(x, c, p, L - 1)
  BY DEF Factored, Word
<1> DEFINE T == {r \in 1 .. d - 1 : Agree(x, c + d - r, c, r)}
<1>2. T \in SUBSET Nat
  OBVIOUS
<1>3. d - p \in T
  <2>1. PICK r \in 1 .. d - 1 : r = d - p
    BY <1>1
  <2>2. ASSUME NEW i \in 0 .. r - 1 PROVE x[c + d - r + i] = x[c + i]
    <3>1. /\ c + i \in Int /\ c <= c + i /\ (c + i) + p <= L - 1 /\ L - 1 \in Int
          /\ c + d - r + i = (c + i) + p
      BY <1>1, <2>1
    <3>2. x[c + i] = x[(c + i) + p]
      BY <1>1, <3>1, PeriodicAt
    <3> QED BY <3>1, <3>2
  <2>3. Agree(x, c + d - r, c, r)
    BY <2>2 DEF Agree
  <2> QED BY <2>1, <2>3
<1>4. PICK r \in T : \A i \in T : r <= i
  <2> HIDE DEF T
  <2> QED BY <1>2, <1>3, Least
<1>5. r \in 1 .. d - 1 /\ Agree(x, c + d - r, c, r)
  BY <1>4
<1>6. r <= p
  <2> SUFFICES ASSUME p < r PROVE FALSE
    BY <1>1, <1>5
  <2>1. PICK q \in 1 .. d - 1 : q = r - p
    BY <1>1, <1>5
  <2>2. ASSUME NEW i \in 0 .. q - 1 PROVE x[c + d - q + i] = x[c + i]
    <3>1. PICK u \in Int : u = c + d - r + i
      BY <1>1, <1>5
    <3>2. c <= u /\ u + p <= L - 1 /\ L - 1 \in Int /\ c + d - q + i = u + p
      BY <1>1, <1>5, <2>1, <3>1
    <3>3. x[u] = x[u + p]
      BY <1>1, <3>2, PeriodicAt
    <3>4. x[c + d - r + i] = x[c + i]
      <4>1. i \in 0 .. r - 1 /\ c + d - r \in Int /\ c \in Int /\ r \in Int
        BY <1>1, <1>5, <2>1
      <4> QED BY <1>5, <4>1, AgreeAt
    <3> QED BY <3>1, <3>2, <3>3, <3>4
  <2>3. Agree(x, c + d - q, c, q)
    BY <2>2 DEF Agree
  <2>4. q \in T
    BY <2>3
  <2>5. q < r
    BY <1>1, <1>5, <2>1
  <2> HIDE DEF T
  <2> QED BY <1>4, <1>5, <2>1, <2>4, <2>5
<1> QED BY <1>5, <1>6

\* If the left half does not continue the period, a right half that matches rules out
\* every shift no longer than the longer half.
LEMMA NonPeriodShift ==
  ASSUME NEW x, NEW L, NEW sgn, NEW c, NEW b, NEW p, Factored(x, L, sgn, c, b, p),
         NEW o \in 0 .. c - 1, x[o] # x[o + p],
         NEW d \in Int, 1 <= d, d < c \/ c + d <= L
  PROVE  ~Shifted(x, c, L - 1, d)
<1> SUFFICES ASSUME Shifted(x, c, L - 1, d) PROVE FALSE
  OBVIOUS
<1>1. /\ Word(x, L) /\ c \in Nat /\ p \in Nat /\ L \in Nat
      /\ c < L /\ 1 <= p /\ c + p <= L /\ Dominates(x, L, sgn, c) /\ Periodic(x, c, p, L - 1)
      /\ Shortest(x, c, p, L - 1) /\ c \in Int /\ L - 1 \in Int
  BY DEF Factored, Word
<1>2. ASSUME NEW q \in Int, 1 <= q, q <= c, Shifted(x, c, L - 1, q) PROVE FALSE
  <2>1. PICK k \in c .. L - 1 : Below(sgn, x[k - q], x[k]) /\ Shifted(x, c, k - 1, q)
    BY <1>1, <1>2, MovedGreater
  <2>2. k \in Int /\ c <= k /\ k <= L - 1 /\ q <= k /\ 0 <= k /\ k < L
    BY <1>1, <1>2
  <2>3. x[k] = x[k - q]
    BY <1>1, <1>2, <2>2, ShiftedAt
  <2>4. x[k] \in Int
    BY <1>1, <2>2, WordAt
  <2> QED BY <2>1, <2>3, <2>4, BelowOrder
<1>3. c < d /\ c + d <= L
  BY <1>1, <1>2
<1>4. ASSUME NEW j \in Int, 0 <= j, j + d < L PROVE x[j] = x[j + d]
  <2>1. PICK u \in Int : u = j + d /\ j = u - d
    OBVIOUS
  <2>2. c <= u /\ u <= L - 1 /\ d <= u
    BY <1>1, <1>3, <1>4, <2>1
  <2>3. x[u] = x[u - d]
    BY <1>1, <2>2, ShiftedAt
  <2> QED BY <2>1, <2>3
<1>5. d > p
  <2>1. ~(d \in 1 .. p - 1)
    BY PeriodShift
  <2>2. d # p
    <3>1. o \in Int /\ 0 <= o /\ o + p < L
      BY <1>1
    <3> QED BY <1>4, <3>1
  <2> QED BY <1>1, <2>1, <2>2
<1>6. PICK r \in 1 .. p : Agree(x, c + d - r, c, r)
  BY <1>3, <1>5, LeastOverlap
<1>7. ASSUME NEW j \in Int, c <= j, j < c + r, r <= j PROVE x[j] = x[j - r]
  <2>1. PICK u \in Int : u = j - r + d
    OBVIOUS
  <2>2. /\ c + d - r <= u /\ u < (c + d - r) + r /\ u - (c + d - r) = j - c
        /\ c + d - r \in Int /\ r \in Int
    BY <1>1, <1>7, <2>1
  <2>3. x[u] = x[j]
    BY <1>1, <1>6, <2>2, AgreePlaces
  <2>4. j - r \in Int /\ 0 <= j - r /\ (j - r) + d < L /\ (j - r) + d = u
    BY <1>1, <1>3, <1>7, <2>1
  <2>5. x[j - r] = x[u]
    BY <1>4, <2>4
  <2> QED BY <2>3, <2>5
<1>8. CASE r = p
  <2>1. Shifted(x, c, L - 1, p)
    <3>1. ASSUME NEW j \in c .. L - 1, j >= p PROVE x[j] = x[j - p]
      <4>1. CASE j < c + p
        BY <1>1, <1>7, <1>8, <3>1, <4>1
      <4>2. CASE j >= c + p
        <5>1. PICK u \in Int : u = j - p
          BY <1>1
        <5>2. c <= u /\ u + p <= L - 1 /\ j = u + p
          BY <1>1, <4>2, <5>1
        <5>3. x[u] = x[u + p]
          BY <1>1, <5>2, PeriodicAt
        <5> QED BY <5>1, <5>2, <5>3
      <4> QED BY <1>1, <4>1, <4>2
    <3> QED BY <3>1 DEF Shifted
  <2>2. CASE p <= c
    BY <1>1, <1>2, <2>1, <2>2
  <2>3. CASE c < p
    <3>1. PICK u \in Int : u = o + p
      BY <1>1
    <3>2. c <= u /\ u <= L - 1 /\ p <= u /\ u - p = o
      BY <1>1, <2>3, <3>1
    <3>3. x[u] = x[u - p]
      BY <1>1, <2>1, <3>2, ShiftedAt
    <3> QED BY <3>1, <3>2, <3>3
  <2> QED BY <1>1, <2>2, <2>3
<1>9. CASE r # p
  <2>1. r \in 1 .. p - 1
    BY <1>1, <1>9
  <2>2. PICK j \in c + r .. L - 1 : x[j] # x[j - r]
    BY <1>1, <2>1, ShortestAt
  <2>3. PICK q \in Nat : j = (c + r) + q
    <3>1. j - (c + r) \in Nat /\ j = (c + r) + (j - (c + r))
      BY <1>1
    <3> QED BY <3>1
  <2>4. x[(c + r) + q] # x[c + q] /\ c + r \in Int
    <3>1. j - r = c + q
      BY <1>1, <2>3
    <3> QED BY <1>1, <2>2, <2>3, <3>1
  <2>5. PICK m \in 0 .. q : Agree(x, c + r, c, m) /\ x[(c + r) + m] # x[c + m]
    <3>1. PICK a \in Int : a = c + r
      BY <2>4
    <3>2. x[a + q] # x[c + q] /\ c \in Int
      BY <1>1, <2>4, <3>1
    <3>3. \E m \in 0 .. q : Agree(x, a, c, m) /\ x[a + m] # x[c + m]
      BY <3>2, FirstDifference
    <3> QED BY <3>1, <3>3
  <2>6. PICK k \in Int : k = (c + r) + m
    BY <1>1
  <2>7. k < L /\ c + r <= k /\ k - r = c + m /\ 1 <= r /\ r \in Int
    BY <1>1, <2>3, <2>6
  <2>8. Shifted(x, c, k - 1, r)
    <3>1. ASSUME NEW i \in c .. k - 1, i >= r PROVE x[i] = x[i - r]
      <4>1. CASE i < c + r
        BY <1>1, <1>7, <3>1, <4>1
      <4>2. CASE i >= c + r
        <5>1. /\ i \in Int /\ i - r \in Int /\ c + r \in Int /\ c \in Int /\ m \in Int
              /\ c + r <= i /\ i < (c + r) + m /\ i - (c + r) = (i - r) - c
          BY <1>1, <2>6, <2>7, <4>2
        <5> QED BY <2>5, <5>1, AgreePlaces
      <4> QED BY <1>1, <4>1, <4>2
    <3> QED BY <3>1 DEF Shifted
  <2>9. x[k] = x[k - r]
    BY <2>7, <2>8, RightShift
  <2> QED BY <2>5, <2>6, <2>7, <2>9
<1> QED BY <1>8, <1>9

\* If all but the last period of a window is known to match and its last byte does not, the
\* needle cannot begin at one of the bytes known.
LEMMA LastShift ==
  ASSUME NEW x, NEW L \in Nat, NEW p \in Nat, \A i \in 0 .. L - 1 - p : x[i] = x[i + p],
         NEW d \in Nat, d < L - p, Shifted(x, 0, L - p - 1, d)
  PROVE  x[L - 1 - d] = x[L - 1]
<1>1. PICK u \in Int : u = L - 1 - p
  OBVIOUS
<1>2. /\ 0 <= u /\ u <= L - p - 1 /\ d <= u /\ L - p - 1 \in Int /\ u + p = L - 1
      /\ u \in 0 .. L - 1 - p /\ u - d \in 0 .. L - 1 - p /\ (u - d) + p = L - 1 - d
  BY <1>1
<1>3. x[u] = x[u - d]
  BY <1>2, ShiftedAt
<1>4. x[u] = x[u + p] /\ x[u - d] = x[(u - d) + p]
  BY <1>2
<1> QED BY <1>2, <1>3, <1>4

-----------------------------------------------------------------------------
(* Chunks of the haystack.                                                 *)

LEMMA Products ==
  ASSUME NEW i \in Nat, NEW j \in Nat, NEW B \in Nat, i <= j
  PROVE  /\ i * B \in Nat /\ j * B \in Nat /\ i * B <= j * B
         /\ (i + 1) * B = i * B + B
<1>1. i * B \in Nat /\ j * B \in Nat /\ (i + 1) * B = i * B + B
  OBVIOUS
<1>2. PICK q \in Nat : j = i + q
  <2> WITNESS j - i \in Nat
  <2> QED OBVIOUS
<1>3. q * B \in Nat /\ j * B = i * B + q * B
  BY <1>2
<1> QED BY <1>1, <1>3

LEMMA Blocks ==
  ASSUME NEW S \in Nat, NEW k \in Nat, S > 0, k > 0
  PROVE  /\ BlockSize(S, k) \in Nat /\ BlockSize(S, k) > 0
         /\ NumBlocks(S, k) \in Nat /\ NumBlocks(S, k) > 0 /\ NumBlocks(S, k) <= k
         /\ NumBlocks(S, k) * BlockSize(S, k) <= S
<1>1. PICK q \in Nat : q = S \div k
  OBVIOUS
<1>2. PICK r \in Nat : S = k * q + r /\ r < k
  <2>1. S % k \in Nat /\ S = k * (S \div k) + (S % k) /\ S % k < k
    OBVIOUS
  <2> QED BY <1>1, <2>1
<1>3. CASE q = 0
  BY <1>1, <1>2, <1>3 DEF BlockSize, NumBlocks
<1>4. CASE q # 0
  <2>1. BlockSize(S, k) = q /\ NumBlocks(S, k) = k
    BY <1>1, <1>4 DEF BlockSize, NumBlocks
  <2>2. k * q \in Nat
    OBVIOUS
  <2> QED BY <1>2, <1>4, <2>1, <2>2
<1> QED BY <1>3, <1>4

\* Every chunk holds a byte and lies in the haystack.
LEMMA Chunks ==
  ASSUME NEW S \in Nat, NEW k \in Nat, S > 0, k > 0, NEW i \in 0 .. NumBlocks(S, k) - 1
  PROVE  /\ Start(S, k, i) \in Nat /\ End(S, k, i) \in Nat
         /\ Start(S, k, i) < End(S, k, i) /\ End(S, k, i) <= S
<1>1. PICK B \in Nat, m \in Nat : B = BlockSize(S, k) /\ m = NumBlocks(S, k)
  BY Blocks
<1>2. B > 0 /\ m > 0 /\ m * B <= S /\ i \in Nat /\ i <= m - 1
  BY <1>1, Blocks
<1>3. Start(S, k, i) = i * B /\ End(S, k, i) = IF i = m - 1 THEN S ELSE (i + 1) * B
  BY <1>1 DEF Start, End
<1>4. /\ i * B \in Nat /\ (i + 1) * B = i * B + B /\ (i + 1) * B <= m * B
      /\ (i + 1) * B \in Nat /\ m * B \in Nat
  <2>1. i + 1 \in Nat /\ i + 1 <= m /\ i <= i + 1
    BY <1>2
  <2>2. i * B \in Nat /\ (i + 1) * B = i * B + B
    BY <1>2, <2>1, Products
  <2>3. (i + 1) * B \in Nat /\ m * B \in Nat /\ (i + 1) * B <= m * B
    BY <1>2, <2>1, Products
  <2> QED BY <2>2, <2>3
<1> QED BY <1>2, <1>3, <1>4

-----------------------------------------------------------------------------
(* Windows on the haystack, a function g of offsets.                       *)

Occurs(g, x, L, o) == \A i \in 0 .. L - 1 : g[o + i] = x[i]

\* The bytes lo .. hi of the needle are those of a window at w.
Matches(g, x, lo, hi, w) == \A j \in lo .. hi : x[j] = g[w + j]

LEMMA OccursAt ==
  ASSUME NEW g, NEW x, NEW L \in Nat, NEW o \in Int, Occurs(g, x, L, o),
         NEW u \in Int, NEW i \in Int, 0 <= i, i < L, u = o + i
  PROVE  g[u] = x[i]
<1>1. i \in 0 .. L - 1
  OBVIOUS
<1>2. g[o + i] = x[i]
  BY <1>1 DEF Occurs
<1> QED BY <1>2

\* Matching bytes of a window at w, lo .. hi, and the needle d further on: the needle moved
\* on by d repeats itself there.
LEMMA MatchShifted ==
  ASSUME NEW g, NEW x, NEW L \in Nat, NEW w \in Nat, NEW d \in Nat, Occurs(g, x, L, w + d),
         NEW lo \in Nat, NEW hi \in Int, hi < L, Matches(g, x, lo, hi, w)
  PROVE  Shifted(x, lo, hi, d)
<1>1. ASSUME NEW j \in lo .. hi, j >= d PROVE x[j] = x[j - d]
  <2>1. PICK u \in Int, i \in Int : u = w + j /\ i = j - d
    OBVIOUS
  <2>2. w + d \in Int /\ 0 <= i /\ i < L /\ u = (w + d) + i
    BY <1>1, <2>1
  <2>3. g[u] = x[i]
    BY <2>2, OccursAt
  <2>4. x[j] = g[w + j]
    BY DEF Matches
  <2> QED BY <2>1, <2>3, <2>4
<1> QED BY <1>1 DEF Shifted

\* The table: bytes of the needle from t on are not the window's last byte.
LEMMA TableShift ==
  ASSUME NEW g, NEW x, NEW L \in Nat, NEW w \in Nat, NEW t \in Nat,
         \A i \in t .. L - 1 : x[i] # g[w + L - 1],
         NEW d \in Nat, d < L - t
  PROVE  ~Occurs(g, x, L, w + d)
<1> SUFFICES ASSUME Occurs(g, x, L, w + d) PROVE FALSE
  OBVIOUS
<1>1. PICK u \in Int, i \in Int : u = w + L - 1 /\ i = L - 1 - d
  OBVIOUS
<1>2. w + d \in Int /\ 0 <= i /\ i < L /\ u = (w + d) + i /\ i \in t .. L - 1
  BY <1>1
<1>3. g[u] = x[i]
  BY <1>2, OccursAt
<1> QED BY <1>1, <1>2, <1>3

\* What is remembered across a shift by the period
LEMMA KnownShift ==
  ASSUME NEW g, NEW x, NEW L \in Nat, NEW w \in Nat, NEW p \in Nat, 1 <= p, p <= L,
         \A i \in 0 .. L - 1 - p : x[i] = x[i + p],
         Matches(g, x, 0, L - p - 1, w),
         x[L - 1] # g[w + L - 1],
         NEW d \in Nat, d < L - p
  PROVE  ~Occurs(g, x, L, w + d)
<1> SUFFICES ASSUME Occurs(g, x, L, w + d) PROVE FALSE
  OBVIOUS
<1>1. Shifted(x, 0, L - p - 1, d)
  <2>1. 0 \in Nat /\ L - p - 1 \in Int /\ L - p - 1 < L
    OBVIOUS
  <2> QED BY <2>1, MatchShifted
<1>2. x[L - 1 - d] = x[L - 1]
  BY <1>1, LastShift
<1>3. PICK u \in Int, i \in Int : u = w + L - 1 /\ i = L - 1 - d
  OBVIOUS
<1>4. w + d \in Int /\ 0 <= i /\ i < L /\ u = (w + d) + i
  BY <1>3
<1>5. g[u] = x[i]
  BY <1>4, OccursAt
<1> QED BY <1>2, <1>3, <1>5

\* A mismatch in the right half
LEMMA MismatchShift ==
  ASSUME NEW g, NEW x, NEW L, NEW sgn, NEW c, NEW b, NEW p, Factored(x, L, sgn, c, b, p),
         NEW w \in Nat, NEW k \in Int, c <= k, k < L,
         Matches(g, x, c, k - 1, w), x[k] # g[w + k],
         NEW d \in Nat, d <= k - c
  PROVE  ~Occurs(g, x, L, w + d)
<1> SUFFICES ASSUME Occurs(g, x, L, w + d) PROVE FALSE
  OBVIOUS
<1>1. L \in Nat /\ c \in Nat
  BY DEF Factored, Word
<1>2. PICK u \in Int, i \in Int : u = w + k /\ i = k - d
  OBVIOUS
<1>3. w + d \in Int /\ 0 <= i /\ i < L /\ u = (w + d) + i
  BY <1>1, <1>2
<1>4. g[u] = x[i]
  BY <1>1, <1>3, OccursAt
<1>5. CASE d = 0
  <2>1. i = k
    BY <1>2, <1>5
  <2> QED BY <1>2, <1>4, <2>1
<1>6. CASE d # 0
  <2>1. 1 <= d /\ c + d <= k /\ d \in Int /\ k - 1 \in Int /\ k - 1 < L
    BY <1>1, <1>6
  <2>2. Shifted(x, c, k - 1, d)
    BY <1>1, <2>1, MatchShifted
  <2>3. x[k] = x[k - d]
    BY <2>1, <2>2, RightShift
  <2> QED BY <1>2, <1>4, <2>3
<1> QED BY <1>5, <1>6

\* The right half matches and the left half does not.
LEMMA MatchedShift ==
  ASSUME NEW g, NEW x, NEW L, NEW sgn, NEW c, NEW b, NEW p, Factored(x, L, sgn, c, b, p),
         NEW w \in Nat, Matches(g, x, c, L - 1, w), ~Occurs(g, x, L, w),
         NEW d \in Nat
  PROVE  /\ d < p => ~Occurs(g, x, L, w + d)
         /\ \A o \in 0 .. c - 1 :
              x[o] # x[o + p] /\ (d < c \/ c + d <= L) => ~Occurs(g, x, L, w + d)
<1> SUFFICES ASSUME Occurs(g, x, L, w + d)
             PROVE  ~(d < p) /\ \A o \in 0 .. c - 1 : ~(x[o] # x[o + p] /\ (d < c \/ c + d <= L))
  OBVIOUS
<1>1. L \in Nat /\ c \in Nat /\ p \in Nat
  BY DEF Factored, Word
<1>2. d # 0
  <2>1. d = 0 => w + d = w
    OBVIOUS
  <2> QED BY <2>1
<1>3. Shifted(x, c, L - 1, d)
  <2>1. L - 1 \in Int /\ L - 1 < L
    BY <1>1
  <2> QED BY <1>1, <2>1, MatchShifted
<1>4. ASSUME d < p PROVE FALSE
  <2>1. d \in 1 .. p - 1
    BY <1>1, <1>2, <1>4
  <2> QED BY <1>3, <2>1, PeriodShift
<1>5. ASSUME NEW o \in 0 .. c - 1, x[o] # x[o + p], d < c \/ c + d <= L PROVE FALSE
  <2>1. 1 <= d /\ d \in Int
    BY <1>2
  <2> QED BY <1>3, <1>5, <2>1, NonPeriodShift
<1> QED BY <1>4, <1>5

\* After a shift by the period, all but the last period of the new window matches.
LEMMA Remembered ==
  ASSUME NEW g, NEW x, NEW L, NEW sgn, NEW c, NEW b, NEW p, Factored(x, L, sgn, c, b, p),
         NEW w \in Nat, Matches(g, x, c, L - 1, w),
         \A i \in 0 .. c - 1 : x[i] = x[i + p]
  PROVE  Matches(g, x, 0, L - p - 1, w + p)
<1>1. L \in Nat /\ c \in Nat /\ p \in Nat
  BY DEF Factored, Word
<1>2. c < p /\ \A j \in 0 .. L - 1 - p : x[j] = x[j + p]
  BY WholePeriod
<1>3. ASSUME NEW i \in 0 .. L - p - 1 PROVE x[i] = g[(w + p) + i]
  <2>1. i \in 0 .. L - 1 - p /\ i + p \in c .. L - 1 /\ (w + p) + i = w + (i + p)
    BY <1>1, <1>2
  <2> QED BY <1>2, <2>1 DEF Matches
<1> QED BY <1>3 DEF Matches

-----------------------------------------------------------------------------
(* size_t.                                                                 *)

LEMMA Wraps ==
  ASSUME NEW a \in Int
  PROVE  /\ 0 <= a /\ a < SizeRange => Wrap(a) = a
         /\ SizeRange <= a /\ a < 2 * SizeRange => Wrap(a) = a - SizeRange
         /\ -SizeRange <= a /\ a < 0 => Wrap(a) = a + SizeRange
<1>1. SizeRange \in Nat /\ SizeRange > 0
  BY ConstantsAssumption
<1>2. 0 <= a /\ a < SizeRange => Wrap(a) = a
  BY <1>1 DEF Wrap
<1>3. SizeRange <= a /\ a < 2 * SizeRange => Wrap(a) = a - SizeRange
  BY <1>1 DEF Wrap
<1>4. -SizeRange <= a /\ a < 0 => Wrap(a) = a + SizeRange
  BY <1>1 DEF Wrap
<1> QED BY <1>2, <1>3, <1>4

-----------------------------------------------------------------------------
(* The inductive invariant.                                                *)

\* The needle and the haystack as functions of offsets
W == [o \in 0 .. l - 1 |-> N(o)]
Y == [o \in 0 .. Len(hay) - 1 |-> H(o)]

\* ip, or ms, of a suffix that begins at c
Before(c) == IF c = 0 THEN SizeRange - 1 ELSE c - 1

Places == [ip : Nat, jp : Nat, k : Nat, p : Nat]

\* Where a loop for a maximal suffix stands satisfies the loop's invariant.
Looping(s, sgn) ==
  s \in Places /\ \E c \in Nat : s.ip = Before(c) /\ Scan(W, l, sgn, c, s.jp, s.k, s.p)

\* The needle is cut at ms + 1, and p and mem0 are what its period allows.
Ready ==
  \E sgn \in {1, -1}, c \in Nat, b \in Nat, p \in Nat :
    /\ Factored(W, l, sgn, c, b, p) /\ prep.ms = Before(c)
    /\ \/ /\ \A i \in 0 .. c - 1 : W[i] = W[i + p]
          /\ prep.p = p /\ prep.mem0 = l - p /\ mem \in {0, l - p}
       \/ /\ \E o \in 0 .. c - 1 : W[o] # W[o + p]
          /\ prep.p = (IF l - c <= c - 1 THEN c ELSE l - c + 1) /\ prep.mem0 = 0 /\ mem = 0

Arguments ==
  hay \in Strings(MaxHaystack) /\ needle \in Strings(MaxNeedle) /\ n \in 1 .. MaxBins

\* Bins not yet searched are empty.
Bins ==
  /\ bin \in 0 .. n - 1 /\ res \in [0 .. n - 1 -> {NULL} \union (0 .. Len(hay) - 1)]
  /\ pc # "done" => /\ Len(hay) > 0 /\ bin < NumBlocks(Len(hay), n)
                    /\ \A i \in bin + 1 .. n - 1 : res[i] = NULL

Phases ==
  /\ h \in Nat /\ mem \in Nat
  /\ pc \in {"next", "suffix", "opposite", "search", "done"}
  /\ pc \in {"next", "search", "done"} => suf = Fresh
  /\ pc \in {"next", "suffix", "opposite"} => mem = 0
  /\ pc \in {"suffix", "opposite", "search"} => l > 1 /\ h \in ChunkStart(bin) .. z
  /\ pc = "suffix" => Looping(suf, 1)
  /\ pc = "opposite" => Looping(suf, -1) /\ Looping(first, 1) /\ first.jp + first.k = l
  /\ pc = "search" => Ready

Inv == Arguments /\ Bins /\ Phases /\ NothingSkipped

-----------------------------------------------------------------------------
(* The arguments.                                                          *)

LEMMA StringFacts ==
  ASSUME NEW max \in Nat, NEW s \in Strings(max)
  PROVE  Len(s) \in Nat /\ Len(s) <= max /\ \A i \in 1 .. Len(s) : s[i] \in Nat
<1>1. PICK len \in 0 .. max : s \in [1 .. len -> Bytes]
  BY DEF Strings
<1>2. s \in Seq(Bytes)
  BY <1>1, SeqDef
<1>3. Len(s) = len
  BY <1>1, <1>2
<1>4. ASSUME NEW i \in 1 .. Len(s) PROVE s[i] \in Nat
  <2>1. s[i] \in Bytes
    BY <1>1, <1>3
  <2> QED BY <2>1, ConstantsAssumption
<1> QED BY <1>3, <1>4

LEMMA ArgumentFacts ==
  ASSUME Arguments
  PROVE  /\ Len(hay) \in Nat /\ l \in Nat /\ n \in Nat /\ n > 0
         /\ SizeRange \in Nat /\ Len(hay) < SizeRange /\ l < SizeRange
         /\ \A o \in 0 .. l - 1 : W[o] = N(o)
         /\ \A o \in 0 .. Len(hay) - 1 : Y[o] = H(o)
         /\ Word(W, l)
<1>1. /\ Len(hay) \in Nat /\ Len(hay) <= MaxHaystack
      /\ \A i \in 1 .. Len(hay) : hay[i] \in Nat
  BY StringFacts, ConstantsAssumption DEF Arguments
<1>2. /\ Len(needle) \in Nat /\ Len(needle) <= MaxNeedle
      /\ \A i \in 1 .. Len(needle) : needle[i] \in Nat
  BY StringFacts, ConstantsAssumption DEF Arguments
<1>3. \A o \in 0 .. l - 1 : W[o] = N(o)
  BY DEF W
<1>4. \A o \in 0 .. Len(hay) - 1 : Y[o] = H(o)
  BY DEF Y
<1>5. Word(W, l)
  <2>1. ASSUME NEW o \in 0 .. l - 1 PROVE W[o] \in Nat
    <3>1. o + 1 \in 1 .. Len(needle)
      BY <1>2 DEF l
    <3> QED BY <1>2, <1>3, <3>1 DEF N
  <2> QED BY <1>2, <2>1 DEF Word, l
<1> QED BY <1>1, <1>2, <1>3, <1>4, <1>5, ConstantsAssumption DEF Arguments, l

LEMMA ArgumentsStay ==
  ASSUME UNCHANGED args
  PROVE  /\ hay' = hay /\ needle' = needle /\ n' = n /\ l' = l /\ W' = W /\ Y' = Y
         /\ \A i : ChunkStart(i)' = ChunkStart(i) /\ ChunkEnd(i)' = ChunkEnd(i)
         /\ \A o : At(o)' = At(o)
         /\ \A i : FirstIn(i)' = FirstIn(i)
         /\ Arguments' = Arguments
<1>1. hay' = hay /\ needle' = needle /\ n' = n
  BY DEF args
<1>2. l' = l
  BY <1>1 DEF l
<1>3. W' = W /\ Y' = Y
  BY <1>1, <1>2 DEF W, Y, N, H
<1>4. ASSUME NEW i PROVE ChunkStart(i)' = ChunkStart(i) /\ ChunkEnd(i)' = ChunkEnd(i)
  BY <1>1 DEF ChunkStart, ChunkEnd
<1>5. ASSUME NEW o PROVE At(o)' = At(o)
  BY <1>1, <1>2 DEF At, H, N
<1>6. ASSUME NEW i PROVE FirstIn(i)' = FirstIn(i)
  <2>1. Whole(i)' = Whole(i)
    BY <1>1, <1>2, <1>4, <1>5 DEF Whole
  <2> QED BY <2>1 DEF FirstIn
<1> QED BY <1>1, <1>2, <1>3, <1>4, <1>5, <1>6 DEF Arguments

LEMMA ChunkFacts ==
  ASSUME Arguments, Len(hay) > 0, NEW i \in Nat, i < NumBlocks(Len(hay), n)
  PROVE  /\ ChunkStart(i) \in Nat /\ ChunkEnd(i) \in Nat
         /\ ChunkStart(i) < ChunkEnd(i) /\ ChunkEnd(i) <= Len(hay)
         /\ NumBlocks(Len(hay), n) \in Nat /\ NumBlocks(Len(hay), n) <= n
<1>1. Len(hay) \in Nat /\ n \in Nat /\ n > 0
  BY ArgumentFacts
<1>2. NumBlocks(Len(hay), n) \in Nat /\ NumBlocks(Len(hay), n) <= n
  BY <1>1, Blocks
<1>3. i \in 0 .. NumBlocks(Len(hay), n) - 1
  BY <1>2
<1> QED BY <1>1, <1>2, <1>3, Chunks DEF ChunkStart, ChunkEnd

LEMMA AtOccurs ==
  ASSUME Arguments, NEW o \in Nat, o + l <= Len(hay)
  PROVE  At(o) <=> Occurs(Y, W, l, o)
<1>1. Len(hay) \in Nat /\ l \in Nat
  BY ArgumentFacts
<1>2. ASSUME NEW i \in 0 .. l - 1
      PROVE  o + i < Len(hay) /\ Y[o + i] = H(o + i) /\ W[i] = N(i)
  <2>1. o + i \in 0 .. Len(hay) - 1
    BY <1>1
  <2> QED BY <1>1, <2>1, ArgumentFacts
<1> QED BY <1>2 DEF At, Occurs

\* The bin of a chunk without the needle, and of one with it
LEMMA NoneIn ==
  ASSUME NEW i, \A o \in ChunkStart(i) .. ChunkEnd(i) :
                  i < NumBlocks(Len(hay), n) /\ o + l <= ChunkEnd(i) => ~At(o)
  PROVE  FirstIn(i) = NULL
<1>1. Whole(i) = {}
  BY DEF Whole
<1> QED BY <1>1 DEF FirstIn

LEMMA FoundIn ==
  ASSUME NEW i, ChunkStart(i) \in Nat, ChunkEnd(i) \in Nat, l \in Nat,
         i < NumBlocks(Len(hay), n),
         NEW o \in ChunkStart(i) .. ChunkEnd(i), o + l <= ChunkEnd(i), At(o),
         \A u \in ChunkStart(i) .. o - 1 : u + l <= ChunkEnd(i) => ~At(u)
  PROVE  FirstIn(i) = o
<1>1. o \in Whole(i) /\ Whole(i) \in SUBSET Nat
  BY DEF Whole
<1>2. ASSUME NEW u \in Whole(i) PROVE o <= u
  <2>1. u \in ChunkStart(i) .. ChunkEnd(i) /\ u + l <= ChunkEnd(i) /\ At(u)
    BY DEF Whole
  <2>2. u < o => u \in ChunkStart(i) .. o - 1
    BY <2>1
  <2> QED BY <2>1, <2>2
<1>3. Min(Whole(i)) \in Whole(i) /\ \A u \in Whole(i) : Min(Whole(i)) <= u
  BY <1>1, MinLeast
<1>4. Min(Whole(i)) = o
  BY <1>1, <1>2, <1>3
<1> QED BY <1>1, <1>4 DEF FirstIn

-----------------------------------------------------------------------------
(* Steps.                                                                  *)

LEMMA InitInv == Init => Inv
<1> SUFFICES ASSUME Init PROVE Inv
  OBVIOUS
<1>1. Arguments
  BY DEF Init, Arguments
<1>2. Len(hay) \in Nat /\ n \in Nat /\ n > 0
  BY <1>1, ArgumentFacts
<1>3. Len(hay) = 0 <=> hay = <<>>
  <2>1. hay \in Seq(Bytes)
    <3>1. PICK len \in 0 .. MaxHaystack : hay \in [1 .. len -> Bytes]
      BY <1>1 DEF Arguments, Strings
    <3> QED BY <3>1, SeqDef, ConstantsAssumption
  <2> QED BY <2>1
<1>4. pc # "done" => Len(hay) > 0 /\ 0 < NumBlocks(Len(hay), n)
  BY <1>2, <1>3, Blocks DEF Init
<1>5. Bins
  BY <1>2, <1>4 DEF Init, Bins
<1>6. Phases
  BY DEF Init, Phases
<1>7. ASSUME NEW i \in 0 .. n - 1, pc = "done" PROVE res[i] = FirstIn(i)
  <2>1. Len(hay) = 0
    BY <1>3, <1>7 DEF Init
  <2>2. 0 \div n = 0
    BY <1>2
  <2>3. NumBlocks(Len(hay), n) = 0
    BY <2>1, <2>2 DEF NumBlocks
  <2>4. FirstIn(i) = NULL
    BY <2>3, NoneIn
  <2> QED BY <2>4 DEF Init
<1>8. NothingSkipped
  BY <1>7 DEF Init, NothingSkipped
<1> QED BY <1>1, <1>5, <1>6, <1>8 DEF Inv

LEMMA BinFacts ==
  ASSUME Inv, pc # "done"
  PROVE  /\ Len(hay) \in Nat /\ l \in Nat /\ n \in Nat /\ n > 0 /\ bin \in Nat
         /\ SizeRange \in Nat /\ Len(hay) < SizeRange /\ l < SizeRange
         /\ ChunkStart(bin) \in Nat /\ z \in Nat /\ ChunkStart(bin) < z /\ z <= Len(hay)
         /\ bin < NumBlocks(Len(hay), n) /\ NumBlocks(Len(hay), n) \in Nat
         /\ NumBlocks(Len(hay), n) <= n /\ bin \in 0 .. n - 1
         /\ Word(W, l)
<1>1. Arguments /\ bin \in 0 .. n - 1 /\ Len(hay) > 0 /\ bin < NumBlocks(Len(hay), n)
  BY DEF Inv, Bins
<1>2. bin \in Nat
  BY <1>1
<1> QED BY <1>1, <1>2, ArgumentFacts, ChunkFacts DEF z

\* The search of a chunk ends with its first occurrence, if it has one.
LEMMA ReturnStep ==
  ASSUME Inv, pc \in {"next", "search"}, NEW ptr, ptr = FirstIn(bin),
         ptr \in {NULL} \union (0 .. Len(hay) - 1), Return(ptr)
  PROVE  Inv'
<1>1. pc # "done" /\ Arguments /\ Bins /\ Phases /\ NothingSkipped
  BY DEF Inv
<1>2. UNCHANGED args /\ suf' = suf
  BY DEF Return
<1>3. /\ n' = n /\ hay' = hay /\ Arguments' /\ \A i : FirstIn(i)' = FirstIn(i)
  BY <1>1, <1>2, ArgumentsStay
<1>4. /\ bin \in Nat /\ n \in Nat /\ bin < NumBlocks(Len(hay), n) /\ Len(hay) > 0
      /\ NumBlocks(Len(hay), n) \in Nat /\ NumBlocks(Len(hay), n) <= n
      /\ bin \in 0 .. n - 1 /\ \A i \in bin + 1 .. n - 1 : res[i] = NULL
      /\ res \in [0 .. n - 1 -> {NULL} \union (0 .. Len(hay) - 1)]
  BY <1>1, BinFacts DEF Bins
<1>5. /\ res' \in [0 .. n - 1 -> {NULL} \union (0 .. Len(hay) - 1)] /\ res'[bin] = ptr
      /\ \A i \in 0 .. n - 1 : i # bin => res'[i] = res[i]
  BY <1>4 DEF Return
<1>6. \/ bin + 1 < NumBlocks(Len(hay), n) /\ bin' = bin + 1 /\ pc' = "next"
      \/ bin + 1 = NumBlocks(Len(hay), n) /\ bin' = bin /\ pc' = "done"
  BY <1>4 DEF Return
<1>7. Bins'
  <2>1. bin' \in 0 .. n - 1
    BY <1>4, <1>6
  <2>2. ASSUME pc' # "done" PROVE bin' < NumBlocks(Len(hay), n)
    BY <1>6, <2>2
  <2>3. ASSUME pc' # "done", NEW i \in bin' + 1 .. n - 1 PROVE res'[i] = NULL
    <3>1. i \in bin + 1 .. n - 1 /\ i # bin /\ i \in 0 .. n - 1
      BY <1>4, <1>6, <2>3
    <3> QED BY <1>4, <1>5, <3>1
  <2> QED BY <1>3, <1>4, <1>5, <2>1, <2>2, <2>3 DEF Bins, NULL
<1>8. Phases'
  <2>1. h' = 0 /\ mem' = 0 /\ pc' \in {"next", "done"}
    BY <1>6 DEF Return
  <2>2. suf' = Fresh
    BY <1>1, <1>2 DEF Phases
  <2> QED BY <2>1, <2>2 DEF Phases, Fresh, Wrap
<1>9. ASSUME NEW i \in 0 .. n - 1, i < bin' \/ pc' = "done" PROVE res'[i] = FirstIn(i)
  <2>1. CASE i = bin
    BY <1>5, <2>1
  <2>2. CASE i < bin
    <3>1. res[i] = FirstIn(i) /\ i # bin
      BY <1>1, <1>4, <2>2 DEF NothingSkipped
    <3> QED BY <1>5, <3>1
  <2>3. CASE i > bin
    <3>1. ~(i < NumBlocks(Len(hay), n)) /\ i \in bin + 1 .. n - 1 /\ i # bin
      BY <1>4, <1>6, <1>9, <2>3
    <3>2. FirstIn(i) = NULL
      BY <3>1, NoneIn
    <3>3. res[i] = NULL
      BY <1>4, <3>1
    <3> QED BY <1>5, <3>1, <3>2, <3>3
  <2> QED BY <1>4, <2>1, <2>2, <2>3
<1>10. NothingSkipped'
  <2>1. pc' \notin {"suffix", "opposite", "search"}
    BY <1>6
  <2> QED BY <1>3, <1>9, <2>1 DEF NothingSkipped
<1> QED BY <1>3, <1>7, <1>8, <1>10 DEF Inv

\* What memchr of the needle's first byte tells
LEMMA FirstByteFacts ==
  ASSUME Inv, pc # "done", l > 0
  PROVE  /\ FirstByte \in SUBSET Nat
         /\ \A o \in ChunkStart(bin) .. z : o + l <= z /\ At(o) => o \in FirstByte
         /\ FirstByte # {} => /\ Min(FirstByte) \in ChunkStart(bin) .. z - 1
                              /\ Min(FirstByte) \in FirstByte
                              /\ \A o \in FirstByte : Min(FirstByte) <= o
<1>1. l \in Nat /\ ChunkStart(bin) \in Nat /\ z \in Nat
  BY BinFacts
<1>2. FirstByte \in SUBSET Nat
  BY <1>1 DEF FirstByte
<1>3. ASSUME NEW o \in ChunkStart(bin) .. z, o + l <= z, At(o) PROVE o \in FirstByte
  <2>1. o \in ChunkStart(bin) .. z - 1 /\ 0 \in 0 .. l - 1 /\ o + 0 = o
    BY <1>1, <1>3
  <2>2. H(o + 0) = N(0)
    BY <1>3, <2>1 DEF At
  <2> QED BY <2>1, <2>2 DEF FirstByte
<1>4. ASSUME FirstByte # {}
      PROVE  Min(FirstByte) \in FirstByte /\ \A o \in FirstByte : Min(FirstByte) <= o
  BY <1>2, <1>4, MinLeast
<1>5. ASSUME FirstByte # {} PROVE Min(FirstByte) \in ChunkStart(bin) .. z - 1
  BY <1>4, <1>5 DEF FirstByte
<1> QED BY <1>2, <1>3, <1>4, <1>5

LEMMA SearchShortStep ==
  ASSUME Inv, SearchShort
  PROVE  Inv'
<1>1. pc = "next" /\ pc # "done"
  BY DEF SearchShort
<1>2. /\ l \in Nat /\ ChunkStart(bin) \in Nat /\ z \in Nat /\ ChunkStart(bin) < z
      /\ z <= Len(hay) /\ Len(hay) \in Nat /\ bin < NumBlocks(Len(hay), n)
      /\ z = ChunkEnd(bin)
  BY <1>1, BinFacts DEF z
<1>3. CASE l = 0 /\ Return(ChunkStart(bin))
  <2>1. At(ChunkStart(bin))
    BY <1>3 DEF At
  <2>2. FirstIn(bin) = ChunkStart(bin)
    <3>1. PICK o \in Nat : o = ChunkStart(bin)
      BY <1>2
    <3>2. /\ o \in ChunkStart(bin) .. ChunkEnd(bin) /\ o + l <= ChunkEnd(bin)
          /\ ChunkStart(bin) .. o - 1 = {}
      BY <1>2, <1>3, <3>1
    <3>3. \A u \in ChunkStart(bin) .. o - 1 : u + l <= ChunkEnd(bin) => ~At(u)
      BY <3>2
    <3>4. ChunkEnd(bin) \in Nat
      BY <1>2
    <3> QED BY <1>2, <2>1, <3>1, <3>2, <3>3, <3>4, FoundIn
  <2>3. ChunkStart(bin) \in 0 .. Len(hay) - 1
    BY <1>2
  <2> QED BY <1>1, <1>3, <2>2, <2>3, ReturnStep
<1>4. CASE l > 0 /\ (z - ChunkStart(bin) < l \/ FirstByte = {}) /\ Return(NULL)
  <2>1. ASSUME NEW o \in ChunkStart(bin) .. z, o + l <= z PROVE ~At(o)
    <3>1. CASE z - ChunkStart(bin) < l
      BY <1>2, <1>4, <2>1, <3>1
    <3>2. CASE FirstByte = {}
      BY <1>1, <1>4, <2>1, <3>2, FirstByteFacts
    <3> QED BY <1>4, <3>1, <3>2
  <2>2. FirstIn(bin) = NULL
    BY <1>2, <2>1, NoneIn
  <2> QED BY <1>1, <1>4, <2>2, ReturnStep
<1>5. CASE l = 1 /\ FirstByte # {} /\ Return(Min(FirstByte))
  <2>1. PICK o \in FirstByte : o = Min(FirstByte) /\ \A u \in FirstByte : o <= u
    BY <1>1, <1>5, FirstByteFacts
  <2>2. o \in ChunkStart(bin) .. z - 1 /\ H(o) = N(0)
    BY DEF FirstByte
  <2>3. At(o)
    <3>1. ASSUME NEW i \in 0 .. l - 1 PROVE o + i < Len(hay) /\ H(o + i) = N(i)
      <4>1. i = 0 /\ o + i = o /\ o < Len(hay)
        BY <1>2, <1>5, <2>2
      <4> QED BY <2>2, <4>1
    <3> QED BY <3>1 DEF At
  <2>4. ASSUME NEW u \in ChunkStart(bin) .. o - 1, u + l <= ChunkEnd(bin) PROVE ~At(u)
    <3>1. u \in ChunkStart(bin) .. z /\ u < o /\ u \in Nat /\ o \in Nat /\ u + l <= z
      BY <1>2, <2>2, <2>4
    <3>2. At(u) => u \in FirstByte
      BY <1>1, <1>5, <3>1, FirstByteFacts
    <3> QED BY <2>1, <3>1, <3>2
  <2>5. o \in ChunkStart(bin) .. ChunkEnd(bin) /\ o + l <= ChunkEnd(bin) /\ ChunkEnd(bin) \in Nat
    BY <1>2, <1>5, <2>2
  <2>6. FirstIn(bin) = o
    BY <1>2, <2>3, <2>4, <2>5, FoundIn
  <2>7. o \in 0 .. Len(hay) - 1
    BY <1>2, <2>2
  <2> QED BY <1>1, <1>5, <2>1, <2>6, <2>7, ReturnStep
<1>6. CASE l > 1 /\ FirstByte # {} /\ z - Min(FirstByte) < l /\ Return(NULL)
  <2>1. PICK m \in Nat : m = Min(FirstByte) /\ \A u \in FirstByte : m <= u
    <3>1. l > 0
      BY <1>2, <1>6
    <3> QED BY <1>1, <1>6, <3>1, FirstByteFacts
  <2>2. ASSUME NEW o \in ChunkStart(bin) .. z, o + l <= z PROVE ~At(o)
    <3>1. At(o) => o \in FirstByte
      BY <1>1, <1>2, <1>6, <2>2, FirstByteFacts
    <3>2. o < m
      BY <1>2, <1>6, <2>1, <2>2
    <3> QED BY <1>2, <2>1, <3>1, <3>2
  <2>3. FirstIn(bin) = NULL
    BY <1>2, <2>2, NoneIn
  <2> QED BY <1>1, <1>6, <2>3, ReturnStep
<1> QED BY <1>3, <1>4, <1>5, <1>6 DEF SearchShort

\* What the steps of preparation leave alone
LEMMA PreparationStep ==
  ASSUME Inv, pc # "done", UNCHANGED <<args, bin, res>>, pc' # "done"
  PROVE  /\ Arguments' /\ Bins' /\ z' = z /\ ChunkStart(bin)' = ChunkStart(bin)
         /\ l' = l /\ W' = W /\ \A o : At(o)' = At(o)
         /\ \A i \in 0 .. n' - 1 : i < bin' \/ pc' = "done" => res'[i] = FirstIn(i)'
<1>1. Arguments /\ Bins /\ NothingSkipped /\ UNCHANGED args /\ bin' = bin /\ res' = res
  BY DEF Inv
<1>2. /\ hay' = hay /\ n' = n /\ l' = l /\ W' = W /\ Arguments'
      /\ \A i : ChunkStart(i)' = ChunkStart(i) /\ ChunkEnd(i)' = ChunkEnd(i)
      /\ \A o : At(o)' = At(o)
      /\ \A i : FirstIn(i)' = FirstIn(i)
  BY <1>1, ArgumentsStay
<1>3. z' = z /\ ChunkStart(bin)' = ChunkStart(bin)
  BY <1>1, <1>2 DEF z, ChunkStart, ChunkEnd
<1>4. Bins'
  BY <1>1, <1>2 DEF Bins, NULL
<1>5. \A i \in 0 .. n - 1 : i < bin => res[i] = FirstIn(i)
  BY <1>1 DEF NothingSkipped
<1> QED BY <1>1, <1>2, <1>3, <1>4, <1>5

LEMMA FreshLoops ==
  ASSUME Arguments, l > 1, NEW sgn \in {1, -1}
  PROVE  Looping(Fresh, sgn)
<1>1. Scan(W, l, sgn, 0, 0, 1, 1)
  BY ScanFresh, ArgumentFacts
<1>2. Wrap(-1) = SizeRange - 1 /\ SizeRange - 1 \in Nat
  BY Wraps, ConstantsAssumption
<1>3. Fresh \in Places /\ Fresh.ip = Before(0) /\ Fresh.jp = 0 /\ Fresh.k = 1 /\ Fresh.p = 1
  BY <1>2 DEF Fresh, Places, Before
<1> QED BY <1>1, <1>3 DEF Looping

LEMMA SearchLongStep ==
  ASSUME Inv, SearchLong
  PROVE  Inv'
<1>1. pc = "next" /\ pc # "done" /\ l > 1 /\ FirstByte # {} /\ z - Min(FirstByte) >= l
  BY DEF SearchLong
<1>2. /\ pc' = "suffix" /\ pc' # "done" /\ h' = Min(FirstByte)
      /\ UNCHANGED <<args, bin, res>> /\ mem' = mem /\ suf' = suf
  BY DEF SearchLong
<1>3. /\ Arguments' /\ Bins' /\ z' = z /\ ChunkStart(bin)' = ChunkStart(bin)
      /\ l' = l /\ W' = W /\ \A o : At(o)' = At(o)
      /\ \A i \in 0 .. n' - 1 : i < bin' \/ pc' = "done" => res'[i] = FirstIn(i)'
  BY <1>1, <1>2, PreparationStep
<1>4. l \in Nat /\ ChunkStart(bin) \in Nat /\ z \in Nat /\ Word(W, l)
  BY <1>1, BinFacts
<1>5. PICK m \in ChunkStart(bin) .. z - 1 : m = Min(FirstByte) /\ \A u \in FirstByte : m <= u
  BY <1>1, <1>4, FirstByteFacts
<1>6. mem = 0 /\ suf = Fresh
  BY <1>1 DEF Inv, Phases
<1>7. Looping(Fresh, 1)
  BY <1>1, FreshLoops DEF Inv
<1>8. Looping(suf, 1)'
  BY <1>2, <1>3, <1>6, <1>7 DEF Looping, Fresh, Before, Places
<1>9. Phases'
  <2>1. h' \in Nat /\ h' \in ChunkStart(bin) .. z
    BY <1>2, <1>4, <1>5
  <2> QED BY <1>1, <1>2, <1>3, <1>6, <1>8, <2>1 DEF Phases
<1>10. ASSUME NEW o \in ChunkStart(bin) .. m - 1, o + l <= z PROVE ~At(o)
  <2>1. o \in ChunkStart(bin) .. z /\ o < m /\ o \in Nat /\ m \in Nat /\ l > 0
    BY <1>1, <1>4
  <2>2. At(o) => o \in FirstByte
    BY <1>1, <1>10, <2>1, FirstByteFacts
  <2> QED BY <1>5, <2>1, <2>2
<1>11. NothingSkipped'
  <2>1. \A o \in ChunkStart(bin)' .. h' - 1 : o + l' <= z' => ~At(o)'
    BY <1>2, <1>3, <1>5, <1>10
  <2>2. 0 .. mem' - 1 = {}
    BY <1>2, <1>6
  <2> QED BY <1>3, <2>1, <2>2 DEF NothingSkipped
<1> QED BY <1>3, <1>9, <1>11 DEF Inv

\* Where the maximal suffix begins, and which byte is compared, with ip as a size_t
LEMMA SuffixFacts ==
  ASSUME Arguments, NEW s, NEW c \in Nat, NEW sgn,
         s \in Places, s.ip = Before(c), Scan(W, l, sgn, c, s.jp, s.k, s.p)
  PROVE  /\ Wrap(s.ip + 1) = c /\ Wrap(s.ip + s.k) = c + s.k - 1
         /\ s.jp \in Nat /\ s.k \in Nat /\ s.p \in Nat
         /\ c < l /\ 1 <= s.k /\ s.k <= s.p /\ c + s.p <= s.jp + 1 /\ s.jp + s.k <= l
         /\ s.jp + s.k < l => Wrap(s.jp + s.k - s.ip) = s.jp + s.k - c + 1
<1>1. l \in Nat /\ SizeRange \in Nat /\ l < SizeRange
  BY ArgumentFacts
<1>2. Shape(l, c, s.jp, s.k, s.p)
  BY DEF Scan
<1>3. PICK ip \in Nat, jp \in Nat, k \in Nat, p \in Nat :
        ip = s.ip /\ jp = s.jp /\ k = s.k /\ p = s.p
  BY DEF Places
<1>4. c < l /\ 1 <= k /\ k <= p /\ c + p <= jp + 1 /\ jp + k <= l
  BY <1>2, <1>3 DEF Shape
<1>5. ip = IF c = 0 THEN SizeRange - 1 ELSE c - 1
  BY <1>3 DEF Before
<1>6. ip + 1 \in Int /\ ip + k \in Int /\ jp + k - ip \in Int
  OBVIOUS
<1>7. Wrap(ip + 1) = c
  BY <1>1, <1>4, <1>5, <1>6, Wraps
<1>8. Wrap(ip + k) = c + k - 1
  BY <1>1, <1>4, <1>5, <1>6, Wraps
<1>9. jp + k < l => Wrap(jp + k - ip) = jp + k - c + 1
  BY <1>1, <1>4, <1>5, <1>6, Wraps
<1> QED BY <1>3, <1>4, <1>7, <1>8, <1>9

\* A turn of a loop for a maximal suffix keeps the loop's invariant.
LEMMA TurnLoops ==
  ASSUME Arguments, NEW s, NEW sgn \in {1, -1}, Looping(s, sgn), s.jp + s.k < l
  PROVE  Looping(Turn(s, sgn), sgn)
<1>1. PICK c \in Nat : s.ip = Before(c) /\ Scan(W, l, sgn, c, s.jp, s.k, s.p)
  BY DEF Looping
<1>2. s \in Places
  BY DEF Looping
<1>3. PICK jp \in Nat, k \in Nat, p \in Nat : jp = s.jp /\ k = s.k /\ p = s.p
  BY <1>2 DEF Places
<1>4. /\ Wrap(s.ip + k) = c + k - 1 /\ c < l /\ 1 <= k /\ k <= p /\ c + p <= jp + 1
      /\ Wrap(jp + k - s.ip) = jp + k - c + 1 /\ jp + k < l
  BY <1>1, <1>2, <1>3, SuffixFacts
<1>5. Scan(W, l, sgn, c, jp, k, p) /\ l \in Nat
  BY <1>1, <1>3, ArgumentFacts
<1>6. PICK u \in Nat, v \in Nat : u = W[c + k - 1] /\ v = W[jp + k]
  <2>1. /\ c + k - 1 \in Int /\ 0 <= c + k - 1 /\ c + k - 1 < l
        /\ jp + k \in Int /\ 0 <= jp + k
    BY <1>4, <1>5
  <2> QED BY <1>4, <2>1, WordAt, ArgumentFacts
<1>7. u = N(Wrap(s.ip + s.k)) /\ v = N(s.jp + s.k)
  <2>1. c + k - 1 \in 0 .. l - 1 /\ jp + k \in 0 .. l - 1
    BY <1>4, <1>5
  <2> QED BY <1>3, <1>4, <1>6, <2>1, ArgumentFacts
<1>8. CASE sgn * (u - v) = 0
  <2>1. u = v
    BY <1>8
  <2>2. CASE k = p
    <3>1. Turn(s, sgn) = [s EXCEPT !.jp = s.jp + s.p, !.k = 1]
      BY <1>3, <1>7, <1>8, <2>2 DEF Turn
    <3>2. PICK t : t = [s EXCEPT !.jp = s.jp + s.p, !.k = 1]
      OBVIOUS
    <3>3. t \in Places /\ t.ip = s.ip /\ t.jp = jp + p /\ t.k = 1 /\ t.p = p
      <4>1. jp + p \in Nat /\ t = [s EXCEPT !.jp = jp + p, !.k = 1]
        BY <1>3, <3>2
      <4>2. t \in Places
        BY <1>2, <4>1 DEF Places
      <4>3. t.ip = s.ip
        BY <1>2, <4>1 DEF Places
      <4>4. t.jp = jp + p
        BY <1>2, <4>1 DEF Places
      <4>5. t.k = 1
        BY <1>2, <4>1 DEF Places
      <4>6. t.p = p
        BY <1>2, <1>3, <4>1 DEF Places
      <4> QED BY <4>2, <4>3, <4>4, <4>5, <4>6
    <3>4. Scan(W, l, sgn, c, jp + p, 1, p)
      BY <1>4, <1>5, <1>6, <2>1, <2>2, ScanEqual
    <3>5. Looping(t, sgn)
      BY <1>1, <3>3, <3>4 DEF Looping
    <3> QED BY <3>1, <3>2, <3>5
  <2>3. CASE k # p
    <3>1. Turn(s, sgn) = [s EXCEPT !.k = s.k + 1]
      BY <1>3, <1>7, <1>8, <2>3 DEF Turn
    <3>2. PICK t : t = [s EXCEPT !.k = s.k + 1]
      OBVIOUS
    <3>3. t \in Places /\ t.ip = s.ip /\ t.jp = jp /\ t.k = k + 1 /\ t.p = p
      BY <1>2, <1>3, <3>2 DEF Places
    <3>4. Scan(W, l, sgn, c, jp, k + 1, p)
      BY <1>4, <1>5, <1>6, <2>1, <2>3, ScanEqual
    <3>5. Looping(t, sgn)
      BY <1>1, <3>3, <3>4 DEF Looping
    <3> QED BY <3>1, <3>2, <3>5
  <2> QED BY <2>2, <2>3
<1>9. CASE sgn * (u - v) > 0
  <2>1. Below(sgn, v, u)
    BY <1>9 DEF Below
  <2>2. Turn(s, sgn) = [s EXCEPT !.jp = s.jp + s.k, !.k = 1, !.p = Wrap(s.jp + s.k - s.ip)]
    BY <1>3, <1>7, <1>9 DEF Turn
  <2>3. PICK t : t = [s EXCEPT !.jp = s.jp + s.k, !.k = 1, !.p = Wrap(s.jp + s.k - s.ip)]
    OBVIOUS
  <2>4. jp + k - c + 1 \in Nat
    BY <1>4, <1>5
  <2>5. t \in Places /\ t.ip = s.ip /\ t.jp = jp + k /\ t.k = 1 /\ t.p = jp + k - c + 1
    <3>1. jp + k \in Nat /\ t = [s EXCEPT !.jp = jp + k, !.k = 1, !.p = jp + k - c + 1]
      <4>1. s.jp + s.k = jp + k /\ Wrap(s.jp + s.k - s.ip) = jp + k - c + 1
        BY <1>3, <1>4
      <4>2. t = [s EXCEPT !.jp = jp + k, !.k = 1, !.p = jp + k - c + 1]
        BY <2>3, <4>1, Zenon
      <4> QED BY <4>2
    <3>2. t \in Places
      BY <1>2, <2>4, <3>1 DEF Places
    <3>3. t.ip = s.ip
      BY <1>2, <3>1 DEF Places
    <3>4. t.jp = jp + k
      BY <1>2, <3>1 DEF Places
    <3>5. t.k = 1
      BY <1>2, <3>1 DEF Places
    <3>6. t.p = jp + k - c + 1
      BY <1>2, <3>1 DEF Places
    <3> QED BY <3>2, <3>3, <3>4, <3>5, <3>6
  <2>6. Scan(W, l, sgn, c, jp + k, 1, jp + k - c + 1)
    BY <1>4, <1>5, <1>6, <2>1, ScanLess
  <2>7. Looping(t, sgn)
    BY <1>1, <2>5, <2>6 DEF Looping
  <2> QED BY <2>2, <2>3, <2>7
<1>10. CASE sgn * (u - v) < 0
  <2>1. Below(sgn, u, v)
    BY <1>10 DEF Below
  <2>2. Turn(s, sgn) = [ip |-> s.jp, jp |-> s.jp + 1, k |-> 1, p |-> 1]
    BY <1>3, <1>7, <1>10 DEF Turn
  <2>3. PICK t : t = [ip |-> s.jp, jp |-> s.jp + 1, k |-> 1, p |-> 1]
    OBVIOUS
  <2>4. t \in Places /\ t.ip = Before(jp + 1) /\ t.jp = jp + 1 /\ t.k = 1 /\ t.p = 1
    BY <1>3, <2>3 DEF Places, Before
  <2>5. Scan(W, l, sgn, jp + 1, jp + 1, 1, 1)
    BY <1>4, <1>5, <1>6, <2>1, ScanRestart
  <2>6. Looping(t, sgn)
    BY <2>4, <2>5 DEF Looping
  <2> QED BY <2>2, <2>3, <2>6
<1>11. sgn * (u - v) \in Int
  OBVIOUS
<1> QED BY <1>8, <1>9, <1>10, <1>11


LEMMA PreparationKeeps ==
  ASSUME Inv, pc \in {"suffix", "opposite"}, UNCHANGED <<args, bin, h, mem, res>>,
         pc' \in {"suffix", "opposite", "search"}
  PROVE  /\ Arguments' /\ Bins' /\ NothingSkipped' /\ l' = l /\ W' = W /\ l > 1
         /\ h' \in Nat /\ h' \in ChunkStart(bin)' .. z' /\ mem' = 0
<1>1. pc # "done" /\ pc' # "done" /\ Phases /\ NothingSkipped
  BY DEF Inv
<1>2. UNCHANGED <<args, bin, res>> /\ h' = h /\ mem' = mem
  OBVIOUS
<1>3. /\ Arguments' /\ Bins' /\ z' = z /\ ChunkStart(bin)' = ChunkStart(bin)
      /\ l' = l /\ W' = W /\ \A o : At(o)' = At(o)
      /\ \A i \in 0 .. n' - 1 : i < bin' \/ pc' = "done" => res'[i] = FirstIn(i)'
  BY <1>1, <1>2, PreparationStep
<1>4. mem = 0 /\ l > 1 /\ h \in Nat /\ h \in ChunkStart(bin) .. z
  BY <1>1 DEF Phases
<1>5. \A o \in ChunkStart(bin) .. h - 1 : o + l <= z => ~At(o)
  BY <1>1 DEF NothingSkipped
<1>6. \A o \in ChunkStart(bin)' .. h' - 1 : o + l' <= z' => ~At(o)'
  BY <1>2, <1>3, <1>5
<1>7. 0 .. mem' - 1 = {}
  BY <1>2, <1>4
<1>8. NothingSkipped'
  BY <1>3, <1>6, <1>7 DEF NothingSkipped
<1> QED BY <1>2, <1>3, <1>4, <1>8

LEMMA MaximalSuffixStep ==
  ASSUME Inv, MaximalSuffix
  PROVE  Inv'
<1>1. pc = "suffix" /\ UNCHANGED <<args, bin, h, mem, res>> /\ Arguments /\ Phases
  BY DEF MaximalSuffix, Inv
<1>2. Looping(suf, 1)
  BY <1>1 DEF Phases
<1>3. pc' \in {"suffix", "opposite", "search"}
  BY <1>1 DEF MaximalSuffix
<1>4. /\ Arguments' /\ Bins' /\ NothingSkipped' /\ l' = l /\ W' = W /\ l > 1
      /\ h' \in Nat /\ h' \in ChunkStart(bin)' .. z' /\ mem' = 0
  BY <1>1, <1>3, PreparationKeeps
<1>5. CASE suf.jp + suf.k < l /\ suf' = Turn(suf, 1) /\ UNCHANGED <<pc, first>>
  <2>1. Looping(Turn(suf, 1), 1)
    BY <1>1, <1>2, <1>5, TurnLoops
  <2>2. Looping(suf, 1)'
    <3>1. PICK t : t = Turn(suf, 1)
      OBVIOUS
    <3>2. Looping(t, 1) /\ suf' = t
      BY <1>5, <2>1, <3>1
    <3> QED BY <1>4, <3>2 DEF Looping, Before, Places
  <2>3. Phases'
    BY <1>1, <1>4, <1>5, <2>2 DEF Phases
  <2> QED BY <1>4, <2>3 DEF Inv
<1>6. CASE suf.jp + suf.k >= l /\ suf' = Fresh /\ first' = suf /\ pc' = "opposite"
  <2>1. Looping(Fresh, -1)
    BY <1>1, <1>4, FreshLoops
  <2>2. Looping(suf, -1)'
    BY <1>4, <1>6, <2>1 DEF Looping, Before, Places, Fresh
  <2>3. Looping(first, 1)'
    BY <1>2, <1>4, <1>6 DEF Looping, Before, Places
  <2>4. suf.jp + suf.k = l
    <3>1. PICK c \in Nat : suf.ip = Before(c) /\ Scan(W, l, 1, c, suf.jp, suf.k, suf.p)
      BY <1>2 DEF Looping
    <3>2. suf \in Places
      BY <1>2 DEF Looping
    <3>3. suf.jp \in Nat /\ suf.k \in Nat /\ suf.jp + suf.k <= l /\ l \in Nat
      BY <1>1, <3>1, <3>2, SuffixFacts, ArgumentFacts
    <3> QED BY <1>6, <3>3
  <2>5. first'.jp + first'.k = l'
    BY <1>4, <1>6, <2>4
  <2>6. Phases'
    BY <1>4, <1>6, <2>2, <2>3, <2>5 DEF Phases
  <2> QED BY <1>4, <2>6 DEF Inv
<1> QED BY <1>5, <1>6 DEF MaximalSuffix

LEMMA MaxOfTwo ==
  ASSUME NEW a \in Nat, NEW b \in Nat
  PROVE  Max({a, b}) = IF b <= a THEN a ELSE b
<1>1. {a, b} \in SUBSET Nat /\ {a, b} # {} /\ a + b \in Nat /\ \A i \in {a, b} : i <= a + b
  OBVIOUS
<1>2. Max({a, b}) \in {a, b} /\ \A i \in {a, b} : i <= Max({a, b})
  BY <1>1, MaxGreatest
<1> QED BY <1>2

\* "Periodic needle?"
LEMMA PreparedFacts ==
  ASSUME Arguments, NEW s \in Places, NEW c \in Nat, NEW sgn,
         s.ip = Before(c), Scan(W, l, sgn, c, s.jp, s.k, s.p)
  PROVE  /\ Prepared(s).ms = Before(c)
         /\ \/ /\ \A i \in 0 .. c - 1 : W[i] = W[i + s.p]
               /\ Prepared(s).p = s.p /\ Prepared(s).mem0 = l - s.p
            \/ /\ \E o \in 0 .. c - 1 : W[o] # W[o + s.p]
               /\ Prepared(s).p = (IF l - c <= c - 1 THEN c ELSE l - c + 1)
               /\ Prepared(s).mem0 = 0
<1>1. PICK p \in Nat : p = s.p
  BY DEF Places
<1>2. /\ Wrap(s.ip + 1) = c /\ c < l /\ 1 <= p /\ c + p <= l
      /\ l \in Nat /\ SizeRange \in Nat /\ l < SizeRange
  <2>1. /\ Wrap(s.ip + 1) = c /\ s.jp \in Nat /\ s.k \in Nat
        /\ c < l /\ 1 <= s.k /\ s.k <= s.p /\ c + s.p <= s.jp + 1 /\ s.jp + s.k <= l
    BY SuffixFacts
  <2>2. l \in Nat /\ SizeRange \in Nat /\ l < SizeRange
    BY ArgumentFacts
  <2> QED BY <1>1, <2>1, <2>2
<1>3. ASSUME NEW i \in 0 .. c - 1 PROVE N(i) = W[i] /\ N(i + s.p) = W[i + s.p]
  <2>1. i \in 0 .. l - 1 /\ i + s.p \in 0 .. l - 1
    BY <1>1, <1>2
  <2> QED BY <2>1, ArgumentFacts
<1>4. CASE \A i \in 0 .. c - 1 : W[i] = W[i + s.p]
  <2>1. \A i \in 0 .. Wrap(s.ip + 1) - 1 : N(i) = N(i + s.p)
    BY <1>2, <1>3, <1>4
  <2>2. Prepared(s) = [ms |-> s.ip, p |-> s.p, mem0 |-> Wrap(l - s.p)]
    BY <2>1 DEF Prepared
  <2>3. Wrap(l - s.p) = l - s.p
    <3>1. l - p \in Int /\ 0 <= l - p /\ l - p < SizeRange
      BY <1>2
    <3> QED BY <1>1, <3>1, Wraps
  <2> QED BY <1>4, <2>2, <2>3
<1>5. CASE \E o \in 0 .. c - 1 : W[o] # W[o + s.p]
  <2>1. PICK o \in 0 .. c - 1 : W[o] # W[o + s.p]
    BY <1>5
  <2>2. ~(\A i \in 0 .. Wrap(s.ip + 1) - 1 : N(i) = N(i + s.p))
    BY <1>2, <1>3, <2>1
  <2>3. Prepared(s) = [ms |-> s.ip, p |-> Wrap(Max({s.ip, Wrap(l - s.ip - 1)}) + 1),
                       mem0 |-> 0]
    BY <2>2 DEF Prepared
  <2>4. s.ip = c - 1 /\ c - 1 \in Nat /\ l - c \in Nat
    BY <1>2 DEF Before
  <2>5. Wrap(l - s.ip - 1) = l - c
    <3>1. l - s.ip - 1 = l - c /\ l - c \in Int /\ 0 <= l - c /\ l - c < SizeRange
      BY <1>2, <2>4
    <3> QED BY <3>1, Wraps
  <2>6. PICK m \in Nat : /\ m = Max({s.ip, Wrap(l - s.ip - 1)})
                         /\ m = IF l - c <= c - 1 THEN c - 1 ELSE l - c
    BY <2>4, <2>5, MaxOfTwo
  <2>7. Wrap(m + 1) = m + 1
    <3>1. m + 1 \in Int /\ 0 <= m + 1 /\ m + 1 < SizeRange
      BY <1>2, <2>4, <2>6
    <3> QED BY <3>1, Wraps
  <2>8. m + 1 = IF l - c <= c - 1 THEN c ELSE l - c + 1
    BY <1>2, <2>6
  <2>9. Prepared(s).p = Wrap(m + 1) /\ Prepared(s).ms = s.ip /\ Prepared(s).mem0 = 0
    BY <2>3, <2>6
  <2> QED BY <1>5, <2>7, <2>8, <2>9
<1> QED BY <1>4, <1>5

LEMMA OppositeSuffixStep ==
  ASSUME Inv, OppositeSuffix
  PROVE  Inv'
<1>1. pc = "opposite" /\ UNCHANGED <<args, bin, h, mem, res>> /\ Arguments /\ Phases
  BY DEF OppositeSuffix, Inv
<1>2. Looping(suf, -1) /\ Looping(first, 1) /\ first.jp + first.k = l
  BY <1>1 DEF Phases
<1>3. pc' \in {"suffix", "opposite", "search"}
  BY <1>1 DEF OppositeSuffix
<1>4. /\ Arguments' /\ Bins' /\ NothingSkipped' /\ l' = l /\ W' = W /\ l > 1
      /\ h' \in Nat /\ h' \in ChunkStart(bin)' .. z' /\ mem' = 0
  BY <1>1, <1>3, PreparationKeeps
<1>5. CASE suf.jp + suf.k < l /\ suf' = Turn(suf, -1) /\ UNCHANGED <<pc, first, prep>>
  <2>1. Looping(Turn(suf, -1), -1)
    BY <1>1, <1>2, <1>5, TurnLoops
  <2>2. Looping(suf, -1)'
    <3>1. PICK t : t = Turn(suf, -1)
      OBVIOUS
    <3>2. Looping(t, -1) /\ suf' = t
      BY <1>5, <2>1, <3>1
    <3> QED BY <1>4, <3>2 DEF Looping, Before, Places
  <2>3. Looping(first, 1)' /\ first'.jp + first'.k = l'
    BY <1>2, <1>4, <1>5 DEF Looping, Before, Places
  <2>4. Phases'
    BY <1>1, <1>4, <1>5, <2>2, <2>3 DEF Phases
  <2> QED BY <1>4, <2>4 DEF Inv
<1>6. CASE suf.jp + suf.k >= l /\ suf' = Fresh /\ prep' = Prepared(Critical) /\ pc' = "search"
  <2>1. PICK c1 \in Nat : /\ first.ip = Before(c1)
                          /\ Scan(W, l, 1, c1, first.jp, first.k, first.p)
    BY <1>2 DEF Looping
  <2>2. PICK c2 \in Nat : suf.ip = Before(c2) /\ Scan(W, l, -1, c2, suf.jp, suf.k, suf.p)
    BY <1>2 DEF Looping
  <2>3. first \in Places /\ suf \in Places
    BY <1>2 DEF Looping
  <2>4. /\ Wrap(first.ip + 1) = c1 /\ Wrap(suf.ip + 1) = c2 /\ suf.jp + suf.k = l
        /\ first.p \in Nat /\ suf.p \in Nat
    <3>1. /\ Wrap(suf.ip + 1) = c2 /\ suf.jp \in Nat /\ suf.k \in Nat /\ suf.jp + suf.k <= l
          /\ suf.p \in Nat
      BY <1>1, <2>2, <2>3, SuffixFacts
    <3>2. Wrap(first.ip + 1) = c1 /\ first.p \in Nat
      BY <1>1, <2>1, <2>3, SuffixFacts
    <3>3. l \in Nat
      BY <1>1, ArgumentFacts
    <3> QED BY <1>6, <3>1, <3>2, <3>3
  <2>5. \E sgn \in {1, -1}, c \in Nat, b \in Nat, p \in Nat :
          /\ Factored(W, l, sgn, c, b, p) /\ prep'.ms = Before(c)
          /\ \/ /\ \A i \in 0 .. c - 1 : W[i] = W[i + p]
                /\ prep'.p = p /\ prep'.mem0 = l - p
             \/ /\ \E o \in 0 .. c - 1 : W[o] # W[o + p]
                /\ prep'.p = (IF l - c <= c - 1 THEN c ELSE l - c + 1) /\ prep'.mem0 = 0
    <3>1. CASE c2 > c1
      <4>1. prep' = Prepared(suf)
        BY <1>6, <2>4, <3>1 DEF Critical
      <4>2. -1 + 1 = 0 /\ c1 <= c2 /\ 1 \in Int
        BY <3>1
      <4>3. Factored(W, l, -1, c2, c1, suf.p)
        BY <1>2, <2>1, <2>2, <2>4, <4>2, Factoring
      <4>4. /\ Prepared(suf).ms = Before(c2)
            /\ \/ /\ \A i \in 0 .. c2 - 1 : W[i] = W[i + suf.p]
                  /\ Prepared(suf).p = suf.p /\ Prepared(suf).mem0 = l - suf.p
               \/ /\ \E o \in 0 .. c2 - 1 : W[o] # W[o + suf.p]
                  /\ Prepared(suf).p = (IF l - c2 <= c2 - 1 THEN c2 ELSE l - c2 + 1)
                  /\ Prepared(suf).mem0 = 0
        BY <1>1, <2>2, <2>3, PreparedFacts
      <4>5. PICK q \in Nat : q = suf.p
        BY <2>4
      <4> WITNESS -1 \in {1, -1}, c2 \in Nat, c1 \in Nat, q \in Nat
      <4> QED BY <4>1, <4>3, <4>4, <4>5
    <3>2. CASE c2 <= c1
      <4>1. prep' = Prepared(first)
        BY <1>6, <2>4, <3>2 DEF Critical
      <4>2. Factored(W, l, 1, c1, c2, first.p)
        <5>1. 1 + (-1) = 0 /\ -1 \in Int
          OBVIOUS
        <5> QED BY <1>2, <2>1, <2>2, <2>4, <3>2, <5>1, Factoring
      <4>3. /\ Prepared(first).ms = Before(c1)
            /\ \/ /\ \A i \in 0 .. c1 - 1 : W[i] = W[i + first.p]
                  /\ Prepared(first).p = first.p /\ Prepared(first).mem0 = l - first.p
               \/ /\ \E o \in 0 .. c1 - 1 : W[o] # W[o + first.p]
                  /\ Prepared(first).p = (IF l - c1 <= c1 - 1 THEN c1 ELSE l - c1 + 1)
                  /\ Prepared(first).mem0 = 0
        BY <1>1, <2>1, <2>3, PreparedFacts
      <4>4. PICK q \in Nat : q = first.p
        BY <2>4
      <4> WITNESS 1 \in {1, -1}, c1 \in Nat, c2 \in Nat, q \in Nat
      <4> QED BY <4>1, <4>2, <4>3, <4>4
    <3> QED BY <3>1, <3>2
  <2>6. Ready'
    BY <1>4, <2>5 DEF Ready, Before
  <2>7. suf' = Fresh'
    BY <1>6 DEF Fresh, Wrap
  <2>8. Phases'
    BY <1>4, <1>6, <2>6, <2>7 DEF Phases
  <2> QED BY <1>4, <2>8 DEF Inv
<1> QED BY <1>5, <1>6 DEF OppositeSuffix

\* The window that is searched
LEMMA WindowFacts ==
  ASSUME Inv, pc = "search"
  PROVE  /\ Remainder = z - h /\ h \in Nat /\ mem \in Nat /\ ChunkStart(bin) <= h /\ h <= z
         /\ l > 1 /\ Ready
         /\ \A o \in ChunkStart(bin) .. h - 1 : o + l <= z => ~At(o)
         /\ h + l <= z =>
              /\ \A i \in 0 .. l - 1 : W[i] = N(i) /\ Y[h + i] = H(h + i)
              /\ \A i \in 0 .. mem - 1 : i < l => W[i] = Y[h + i]
<1>1. pc # "done"
  OBVIOUS
<1>2. /\ Len(hay) \in Nat /\ l \in Nat /\ SizeRange \in Nat /\ Len(hay) < SizeRange
      /\ ChunkStart(bin) \in Nat /\ z \in Nat /\ z <= Len(hay)
  BY <1>1, BinFacts
<1>3. h \in Nat /\ mem \in Nat /\ l > 1 /\ h \in ChunkStart(bin) .. z /\ Ready
  BY DEF Inv, Phases
<1>4. Remainder = z - h
  <2>1. z - h \in Int /\ 0 <= z - h /\ z - h < SizeRange
    BY <1>2, <1>3
  <2> QED BY <2>1, Wraps DEF Remainder
<1>5. /\ \A o \in ChunkStart(bin) .. h - 1 : o + l <= z => ~At(o)
      /\ z - h >= l => \A i \in 0 .. mem - 1 : H(h + i) = N(i)
  BY DEF Inv, NothingSkipped
<1>6. ASSUME h + l <= z, NEW i \in 0 .. l - 1 PROVE W[i] = N(i) /\ Y[h + i] = H(h + i)
  <2>1. h + i \in 0 .. Len(hay) - 1
    BY <1>2, <1>3, <1>6
  <2> QED BY <1>6, <2>1, ArgumentFacts DEF Inv
<1>7. ASSUME h + l <= z, NEW i \in 0 .. mem - 1, i < l PROVE W[i] = Y[h + i]
  <2>1. i \in 0 .. l - 1 /\ z - h >= l
    BY <1>2, <1>3, <1>7
  <2> QED BY <1>5, <1>6, <1>7, <2>1
<1> QED BY <1>2, <1>3, <1>4, <1>5, <1>6, <1>7

LEMMA ExhaustedStep ==
  ASSUME Inv, Exhausted
  PROVE  Inv'
<1>1. pc = "search" /\ pc # "done" /\ Remainder < l /\ Return(NULL)
  BY DEF Exhausted
<1>2. /\ Remainder = z - h /\ h \in Nat
      /\ \A o \in ChunkStart(bin) .. h - 1 : o + l <= z => ~At(o)
  BY <1>1, WindowFacts
<1>3. z \in Nat /\ ChunkStart(bin) \in Nat /\ z = ChunkEnd(bin) /\ l \in Nat
  BY <1>1, BinFacts DEF z
<1>4. ASSUME NEW o \in ChunkStart(bin) .. z, o + l <= z PROVE ~At(o)
  <2>1. o \in ChunkStart(bin) .. h - 1
    BY <1>1, <1>2, <1>3, <1>4
  <2> QED BY <1>2, <1>4, <2>1
<1>5. FirstIn(bin) = NULL
  BY <1>3, <1>4, NoneIn
<1> QED BY <1>1, <1>5, ReturnStep

\* The window moves on by no more than itself, over no occurrence.
LEMMA AdvanceStep ==
  ASSUME Inv, pc = "search", Remainder >= l, NEW by \in Nat, NEW m, Advance(by, m), by <= l,
         \A d \in 0 .. by - 1 : ~Occurs(Y, W, l, h + d),
         m \in {0, prep.mem0}, m = 0 \/ Matches(Y, W, 0, m - 1, h + by)
  PROVE  Inv'
<1>1. /\ h' = h + by /\ mem' = m /\ pc' = "search" /\ pc' # "done" /\ suf' = suf /\ prep' = prep
      /\ UNCHANGED <<args, bin, res>>
  BY DEF Advance
<1>2. pc # "done" /\ Arguments
  BY DEF Inv
<1>3. /\ Arguments' /\ Bins' /\ z' = z /\ ChunkStart(bin)' = ChunkStart(bin)
      /\ l' = l /\ W' = W /\ \A o : At(o)' = At(o)
      /\ \A i \in 0 .. n' - 1 : i < bin' \/ pc' = "done" => res'[i] = FirstIn(i)'
  BY <1>1, <1>2, PreparationStep
<1>4. /\ Remainder = z - h /\ h \in Nat /\ ChunkStart(bin) <= h /\ h <= z
      /\ l > 1 /\ Ready /\ \A o \in ChunkStart(bin) .. h - 1 : o + l <= z => ~At(o)
  BY WindowFacts
<1>5. /\ Len(hay) \in Nat /\ l \in Nat /\ ChunkStart(bin) \in Nat /\ z \in Nat /\ z <= Len(hay)
  BY <1>2, BinFacts
<1>6. h' \in Nat /\ h' \in ChunkStart(bin) .. z
  BY <1>1, <1>4, <1>5
<1>7. PICK sgn \in {1, -1}, c \in Nat, b \in Nat, p \in Nat :
        /\ Factored(W, l, sgn, c, b, p) /\ prep.ms = Before(c)
        /\ \/ /\ \A i \in 0 .. c - 1 : W[i] = W[i + p]
              /\ prep.p = p /\ prep.mem0 = l - p /\ mem \in {0, l - p}
           \/ /\ \E o \in 0 .. c - 1 : W[o] # W[o + p]
              /\ prep.p = (IF l - c <= c - 1 THEN c ELSE l - c + 1) /\ prep.mem0 = 0 /\ mem = 0
  BY <1>4 DEF Ready
<1>8. c + p <= l
  BY <1>7 DEF Factored
<1>9. m \in Nat /\ m <= l
  BY <1>5, <1>7, <1>8
<1>10. Ready'
  <2>1. \/ /\ \A i \in 0 .. c - 1 : W[i] = W[i + p]
           /\ prep.p = p /\ prep.mem0 = l - p /\ m \in {0, l - p}
        \/ /\ \E o \in 0 .. c - 1 : W[o] # W[o + p]
           /\ prep.p = (IF l - c <= c - 1 THEN c ELSE l - c + 1) /\ prep.mem0 = 0 /\ m = 0
    BY <1>7
  <2> QED BY <1>1, <1>3, <1>7, <2>1 DEF Ready, Before
<1>11. suf' = Fresh'
  BY <1>1 DEF Inv, Phases, Fresh, Wrap
<1>12. Phases'
  BY <1>1, <1>3, <1>4, <1>6, <1>9, <1>10, <1>11 DEF Phases
<1>13. ASSUME NEW o \in ChunkStart(bin) .. h' - 1, o + l <= z PROVE ~At(o)
  <2>1. CASE o < h
    <3>1. o \in ChunkStart(bin) .. h - 1
      BY <1>4, <1>5, <2>1
    <3> QED BY <1>4, <1>13, <3>1
  <2>2. CASE o >= h
    <3>1. PICK d \in 0 .. by - 1 : o = h + d
      <4>1. o - h \in 0 .. by - 1 /\ o = h + (o - h)
        BY <1>1, <1>4, <1>5, <2>2
      <4> QED BY <4>1
    <3>2. ~Occurs(Y, W, l, o)
      BY <3>1
    <3>3. o \in Nat /\ o + l <= Len(hay)
      BY <1>4, <1>5, <1>13, <3>1
    <3> QED BY <1>2, <3>2, <3>3, AtOccurs
  <2> QED BY <1>4, <1>5, <2>1, <2>2
<1>14. ASSUME z - (h + by) >= l, NEW i \in 0 .. m - 1 PROVE H(h + by + i) = N(i)
  <2>1. PICK w \in Nat : w = h + by
    BY <1>4
  <2>2. i \in 0 .. l - 1 /\ w + i \in 0 .. Len(hay) - 1
    BY <1>5, <1>9, <1>14, <2>1
  <2>3. W[i] = N(i) /\ Y[w + i] = H(w + i)
    BY <1>2, <2>2, ArgumentFacts
  <2>4. W[i] = Y[(h + by) + i]
    BY <1>9, <1>14 DEF Matches
  <2> QED BY <2>1, <2>3, <2>4
<1>15. NothingSkipped'
  <2>1. \A o \in ChunkStart(bin)' .. h' - 1 : o + l' <= z' => ~At(o)'
    BY <1>3, <1>13
  <2>2. z' - h' >= l' => \A i \in 0 .. mem' - 1 : H(h + i)' = N(i)'
    <3>1. hay' = hay /\ needle' = needle
      BY <1>1 DEF args
    <3>2. ASSUME NEW i PROVE H(h + i)' = H(h + by + i) /\ N(i)' = N(i)
      BY <1>1, <3>1 DEF H, N
    <3> QED BY <1>1, <1>3, <1>14, <3>2
  <2> QED BY <1>3, <2>1, <2>2 DEF NothingSkipped
<1> QED BY <1>3, <1>12, <1>15 DEF Inv

LEMMA LastByteStep ==
  ASSUME Inv, LastByte
  PROVE  Inv'
<1>1. pc = "search" /\ pc # "done" /\ Remainder >= l /\ WindowEnd # N(l - 1)
  BY DEF LastByte
<1>2. /\ h \in Nat /\ mem \in Nat /\ l > 1 /\ Ready /\ Remainder = z - h
      /\ l \in Nat /\ z \in Nat
  BY <1>1, WindowFacts, BinFacts
<1>3. h + l <= z
  BY <1>1, <1>2
<1>4. /\ \A i \in 0 .. l - 1 : W[i] = N(i) /\ Y[h + i] = H(h + i)
      /\ \A i \in 0 .. mem - 1 : i < l => W[i] = Y[h + i]
  BY <1>1, <1>3, WindowFacts
<1>5. l - 1 \in 0 .. l - 1 /\ h + (l - 1) = h + l - 1
  BY <1>2
<1>6. WindowEnd = Y[h + l - 1] /\ W[l - 1] # Y[h + l - 1]
  BY <1>1, <1>4, <1>5 DEF WindowEnd
<1>7. CASE ~InNeedle(WindowEnd) /\ Advance(l, 0)
  <2>1. \A i \in 0 .. l - 1 : W[i] # Y[h + l - 1]
    BY <1>4, <1>6, <1>7 DEF InNeedle
  <2>2. ASSUME NEW d \in 0 .. l - 1 PROVE ~Occurs(Y, W, l, h + d)
    <3>1. 0 \in Nat /\ d \in Nat /\ d < l - 0
      BY <1>2
    <3> QED BY <1>2, <2>1, <3>1, TableShift
  <2> QED BY <1>1, <1>2, <1>7, <2>2, AdvanceStep
<1>8. CASE InNeedle(WindowEnd) /\ Advance(Max({l - Shift(WindowEnd), mem}), 0)
  <2> DEFINE T == {i \in 0 .. l - 1 : N(i) = WindowEnd}
  <2>1. PICK t \in Nat : t = Shift(WindowEnd) /\ t <= l /\ \A i \in T : i < t
    <3>1. T # {} /\ T \in SUBSET Nat /\ \A i \in T : i <= l
      BY <1>2, <1>8 DEF InNeedle
    <3>2. Max(T) \in T /\ \A i \in T : i <= Max(T)
      <4> HIDE DEF T
      <4> QED BY <1>2, <3>1, MaxGreatest
    <3>3. Max(T) \in 0 .. l - 1 /\ Shift(WindowEnd) = Max(T) + 1
      BY <3>2 DEF Shift
    <3>4. PICK m \in 0 .. l - 1 : m = Max(T)
      BY <3>3
    <3>5. m + 1 \in Nat /\ m + 1 <= l /\ \A i \in T : i < m + 1
      BY <1>2, <3>2, <3>4
    <3> HIDE DEF T
    <3> WITNESS m + 1 \in Nat
    <3> QED BY <3>3, <3>4, <3>5
  <2>2. ASSUME NEW i \in t .. l - 1 PROVE W[i] # Y[h + l - 1]
    <3>1. i \in 0 .. l - 1 /\ ~(i < t)
      BY <1>2
    <3>2. i \notin T
      BY <2>1, <3>1
    <3> QED BY <1>4, <1>6, <3>1, <3>2
  <2>3. mem <= l /\ \A d \in 0 .. mem - 1 : ~Occurs(Y, W, l, h + d)
    <3>1. PICK sgn \in {1, -1}, c \in Nat, b \in Nat, p \in Nat :
            /\ Factored(W, l, sgn, c, b, p)
            /\ \/ (\A i \in 0 .. c - 1 : W[i] = W[i + p]) /\ mem \in {0, l - p}
               \/ mem = 0
      BY <1>2 DEF Ready
    <3>2. 1 <= p /\ p <= l
      BY <1>2, <3>1 DEF Factored
    <3>3. CASE mem = 0
      BY <1>2, <3>3
    <3>4. CASE (\A i \in 0 .. c - 1 : W[i] = W[i + p]) /\ mem = l - p
      <4>1. \A i \in 0 .. l - 1 - p : W[i] = W[i + p]
        BY <3>1, <3>4, WholePeriod
      <4>2. Matches(Y, W, 0, l - p - 1, h)
        BY <1>2, <1>4, <3>2, <3>4 DEF Matches
      <4>3. ASSUME NEW d \in 0 .. mem - 1 PROVE ~Occurs(Y, W, l, h + d)
        <5>1. d \in Nat /\ d < l - p
          BY <1>2, <3>2, <3>4
        <5> QED BY <1>2, <1>6, <3>2, <4>1, <4>2, <5>1, KnownShift
      <4> QED BY <1>2, <3>2, <3>4, <4>3
    <3> QED BY <3>1, <3>3, <3>4
  <2>4. PICK by \in Nat : /\ by = Max({l - Shift(WindowEnd), mem})
                          /\ by = IF mem <= l - t THEN l - t ELSE mem
    BY <1>2, <2>1, MaxOfTwo
  <2>5. by <= l
    BY <1>2, <2>3, <2>4
  <2>6. ASSUME NEW d \in 0 .. by - 1 PROVE ~Occurs(Y, W, l, h + d)
    <3>1. CASE d < l - t
      <4>1. d \in Nat
        OBVIOUS
      <4> QED BY <1>2, <2>2, <3>1, <4>1, TableShift
    <3>2. CASE d >= l - t
      <4>1. d \in 0 .. mem - 1
        BY <1>2, <2>4, <3>2
      <4> QED BY <2>3, <4>1
    <3> QED BY <1>2, <3>1, <3>2
  <2>7. Advance(by, 0)
    BY <1>8, <2>4
  <2> QED BY <1>1, <2>5, <2>6, <2>7, AdvanceStep
<1> QED BY <1>7, <1>8 DEF LastByte

\* The right half matches up to RightEnd, where it differs if that is in the needle.
LEMMA RightEndFacts ==
  ASSUME Inv, pc = "search", h + l <= z, NEW c \in Nat, c < l, prep.ms = Before(c)
  PROVE  /\ RightEnd \in c .. l
         /\ Matches(Y, W, c, RightEnd - 1, h)
         /\ RightEnd < l => W[RightEnd] # Y[h + RightEnd]
         /\ Wrap(prep.ms + 1) = c
<1>1. pc # "done"
  OBVIOUS
<1>2. /\ h \in Nat /\ mem \in Nat /\ l \in Nat /\ SizeRange \in Nat /\ l < SizeRange
      /\ \A i \in 0 .. l - 1 : W[i] = N(i) /\ Y[h + i] = H(h + i)
      /\ \A i \in 0 .. mem - 1 : i < l => W[i] = Y[h + i]
  BY <1>1, WindowFacts, BinFacts
<1>3. Wrap(prep.ms + 1) = c
  <2>1. PICK ms \in Int : ms = prep.ms /\ ms = IF c = 0 THEN SizeRange - 1 ELSE c - 1
    BY <1>2 DEF Before
  <2>2. ms + 1 \in Int /\ (ms + 1 = c \/ (ms + 1 = SizeRange /\ c = 0))
    BY <1>2, <2>1
  <2> QED BY <1>2, <2>1, <2>2, Wraps
<1>4. PICK a \in Nat : /\ a = Max({Wrap(prep.ms + 1), mem})
                       /\ a = IF mem <= c THEN c ELSE mem
  BY <1>2, <1>3, MaxOfTwo
<1> DEFINE T == {l} \union {k \in a .. l - 1 : N(k) # H(h + k)}
<1>5. T \in SUBSET Nat /\ T # {}
  BY <1>2, <1>4
<1>6. RightEnd = Min(T)
  BY <1>4 DEF RightEnd
<1>7. Min(T) \in T /\ \A i \in T : Min(T) <= i
  <2> HIDE DEF T
  <2> QED BY <1>5, MinLeast
<1>8. PICK k \in T : k = RightEnd /\ \A i \in T : k <= i
  BY <1>6, <1>7
<1>9. k \in Nat /\ c <= k /\ k <= l
  <2>1. mem <= l
    <3>1. PICK cc \in Nat, b \in Nat, p \in Nat, sgn \in {1, -1} :
            Factored(W, l, sgn, cc, b, p) /\ mem \in {0, l - p}
      BY WindowFacts DEF Ready
    <3> QED BY <1>2, <3>1 DEF Factored
  <2> QED BY <1>2, <1>4, <2>1
<1>10. ASSUME NEW j \in c .. k - 1 PROVE W[j] = Y[h + j]
  <2>1. j \in Nat /\ j < l /\ j \in 0 .. l - 1 /\ j < k
    BY <1>2, <1>9
  <2>2. CASE j < mem
    <3>1. j \in 0 .. mem - 1
      BY <1>2, <2>1, <2>2
    <3> QED BY <1>2, <2>1, <3>1
  <2>3. CASE j >= mem
    <3>1. j \in a .. l - 1
      BY <1>2, <1>4, <2>1, <2>3
    <3>2. j \notin T
      BY <1>8, <1>9, <2>1
    <3> QED BY <1>2, <2>1, <3>1, <3>2
  <2> QED BY <1>2, <2>1, <2>2, <2>3
<1>11. ASSUME k < l PROVE W[k] # Y[h + k]
  <2>1. k \in a .. l - 1 /\ N(k) # H(h + k) /\ k \in 0 .. l - 1
    BY <1>2, <1>4, <1>9, <1>11
  <2> QED BY <1>2, <2>1
<1>12. Matches(Y, W, c, k - 1, h)
  BY <1>10 DEF Matches
<1> QED BY <1>3, <1>8, <1>9, <1>11, <1>12

LEMMA RightHalfStep ==
  ASSUME Inv, RightHalf
  PROVE  Inv'
<1>1. /\ pc = "search" /\ pc # "done" /\ Remainder >= l /\ RightEnd < l
      /\ Advance(Wrap(RightEnd - prep.ms), 0)
  BY DEF RightHalf
<1>2. /\ h \in Nat /\ l > 1 /\ Ready /\ Remainder = z - h /\ l \in Nat /\ z \in Nat
      /\ SizeRange \in Nat /\ l < SizeRange
  BY <1>1, WindowFacts, BinFacts
<1>3. h + l <= z
  BY <1>1, <1>2
<1>4. PICK sgn \in {1, -1}, c \in Nat, b \in Nat, p \in Nat :
        Factored(W, l, sgn, c, b, p) /\ prep.ms = Before(c)
  BY <1>2 DEF Ready
<1>5. c < l
  BY <1>4 DEF Factored
<1>6. PICK k \in c .. l : k = RightEnd /\ Matches(Y, W, c, k - 1, h) /\ W[k] # Y[h + k]
  BY <1>1, <1>3, <1>4, <1>5, RightEndFacts
<1>7. k \in Int /\ c <= k /\ k < l
  BY <1>1, <1>2, <1>6
<1>8. PICK by \in Nat : by = k - c + 1
  BY <1>7
<1>9. Wrap(RightEnd - prep.ms) = by
  <2>1. PICK ms \in Int : ms = prep.ms /\ ms = IF c = 0 THEN SizeRange - 1 ELSE c - 1
    BY <1>2, <1>4 DEF Before
  <2>2. k - ms \in Int /\ (k - ms = by \/ (k - ms = by - SizeRange /\ by < SizeRange))
    BY <1>2, <1>7, <1>8, <2>1
  <2>3. 0 <= by /\ by < SizeRange
    BY <1>2, <1>7, <1>8
  <2>4. Wrap(k - ms) = by
    BY <1>2, <2>2, <2>3, Wraps
  <2> QED BY <1>6, <2>1, <2>4
<1>10. ASSUME NEW d \in 0 .. by - 1 PROVE ~Occurs(Y, W, l, h + d)
  <2>1. d \in Nat /\ d <= k - c
    BY <1>7, <1>8
  <2> QED BY <1>2, <1>4, <1>6, <1>7, <2>1, MismatchShift
<1>11. by <= l /\ Advance(by, 0)
  BY <1>1, <1>2, <1>7, <1>8, <1>9
<1> QED BY <1>1, <1>10, <1>11, AdvanceStep

LEMMA LeftHalfStep ==
  ASSUME Inv, LeftHalf
  PROVE  Inv'
<1>1. pc = "search" /\ pc # "done" /\ Remainder >= l /\ RightEnd = l
  BY DEF LeftHalf
<1>2. /\ h \in Nat /\ mem \in Nat /\ l > 1 /\ Ready /\ Remainder = z - h /\ l \in Nat /\ z \in Nat
      /\ ChunkStart(bin) <= h /\ h <= z
      /\ \A o \in ChunkStart(bin) .. h - 1 : o + l <= z => ~At(o)
  BY <1>1, WindowFacts, BinFacts
<1>3. /\ Arguments /\ ChunkStart(bin) \in Nat /\ z = ChunkEnd(bin) /\ z <= Len(hay)
      /\ Len(hay) \in Nat /\ bin < NumBlocks(Len(hay), n)
  BY <1>1, BinFacts DEF Inv, z
<1>4. h + l <= z
  BY <1>1, <1>2
<1>5. /\ \A i \in 0 .. l - 1 : W[i] = N(i) /\ Y[h + i] = H(h + i)
      /\ \A i \in 0 .. mem - 1 : i < l => W[i] = Y[h + i]
  BY <1>1, <1>4, WindowFacts
<1>6. PICK sgn \in {1, -1}, c \in Nat, b \in Nat, p \in Nat :
        /\ Factored(W, l, sgn, c, b, p) /\ prep.ms = Before(c)
        /\ \/ /\ \A i \in 0 .. c - 1 : W[i] = W[i + p]
              /\ prep.p = p /\ prep.mem0 = l - p
           \/ /\ \E o \in 0 .. c - 1 : W[o] # W[o + p]
              /\ prep.p = (IF l - c <= c - 1 THEN c ELSE l - c + 1) /\ prep.mem0 = 0
  BY <1>2 DEF Ready
<1>7. c < l /\ 1 <= p /\ c + p <= l
  BY <1>6 DEF Factored
<1>8. Matches(Y, W, c, l - 1, h) /\ Wrap(prep.ms + 1) = c
  BY <1>1, <1>4, <1>6, <1>7, RightEndFacts
<1>9. LeftMatches <=> Occurs(Y, W, l, h)
  <2>1. ASSUME LeftMatches, NEW i \in 0 .. l - 1 PROVE Y[h + i] = W[i]
    <3>1. CASE i < mem
      BY <1>2, <1>5, <3>1
    <3>2. CASE i >= mem /\ i < c
      <4>1. i \in mem .. Wrap(prep.ms + 1) - 1
        BY <1>2, <1>8, <3>2
      <4> QED BY <1>5, <2>1, <4>1 DEF LeftMatches
    <3>3. CASE i >= c
      <4>1. i \in c .. l - 1
        BY <1>2, <3>3
      <4> QED BY <1>8, <4>1 DEF Matches
    <3> QED BY <1>2, <3>1, <3>2, <3>3
  <2>2. ASSUME Occurs(Y, W, l, h), NEW i \in mem .. Wrap(prep.ms + 1) - 1 PROVE N(i) = H(h + i)
    <3>1. i \in 0 .. l - 1
      BY <1>2, <1>7, <1>8
    <3> QED BY <1>5, <2>2, <3>1 DEF Occurs
  <2> QED BY <2>1, <2>2 DEF LeftMatches, Occurs
<1>10. CASE LeftMatches /\ Return(h)
  <2>1. At(h)
    <3>1. h + l <= Len(hay)
      BY <1>2, <1>3, <1>4
    <3> QED BY <1>2, <1>3, <1>9, <1>10, <3>1, AtOccurs
  <2>2. /\ h \in ChunkStart(bin) .. ChunkEnd(bin) /\ h + l <= ChunkEnd(bin)
        /\ ChunkEnd(bin) \in Nat /\ h \in 0 .. Len(hay) - 1
    BY <1>2, <1>3, <1>4
  <2>3. \A u \in ChunkStart(bin) .. h - 1 : u + l <= ChunkEnd(bin) => ~At(u)
    BY <1>2, <1>3
  <2>4. FirstIn(bin) = h
    BY <1>2, <1>3, <2>1, <2>2, <2>3, FoundIn
  <2> QED BY <1>1, <1>10, <2>2, <2>4, ReturnStep
<1>11. CASE ~LeftMatches /\ Advance(prep.p, prep.mem0)
  <2>1. ~Occurs(Y, W, l, h)
    BY <1>9, <1>11
  <2>2. Factored(W, l, sgn, c, b, p)
    BY <1>6
  <2>3. CASE (\A i \in 0 .. c - 1 : W[i] = W[i + p]) /\ prep.p = p /\ prep.mem0 = l - p
    <3>1. ASSUME NEW d \in 0 .. p - 1 PROVE ~Occurs(Y, W, l, h + d)
      <4>1. d \in Nat /\ d < p
        OBVIOUS
      <4> QED BY <1>2, <1>8, <2>1, <2>2, <4>1, MatchedShift
    <3>2. Matches(Y, W, 0, l - p - 1, h + p)
      BY <1>2, <1>8, <2>2, <2>3, Remembered
    <3>3. p <= l /\ Advance(p, l - p) /\ l - p \in {0, prep.mem0}
      BY <1>2, <1>7, <1>11, <2>3
    <3> QED BY <1>1, <3>1, <3>2, <3>3, AdvanceStep
  <2>4. CASE /\ \E o \in 0 .. c - 1 : W[o] # W[o + p]
             /\ prep.p = (IF l - c <= c - 1 THEN c ELSE l - c + 1) /\ prep.mem0 = 0
    <3>1. PICK by \in Nat : by = prep.p /\ by = IF l - c <= c - 1 THEN c ELSE l - c + 1
      BY <1>2, <1>7, <2>4
    <3>2. by <= l
      <4>1. c >= 1
        BY <2>4
      <4> QED BY <1>2, <1>7, <3>1, <4>1
    <3>3. ASSUME NEW d \in 0 .. by - 1 PROVE ~Occurs(Y, W, l, h + d)
      <4>1. d \in Nat /\ (d < c \/ c + d <= l)
        BY <1>2, <1>7, <3>1
      <4>2. PICK o \in 0 .. c - 1 : W[o] # W[o + p]
        BY <2>4
      <4>3. W[o] # W[o + p] /\ (d < c \/ c + d <= l) => ~Occurs(Y, W, l, h + d)
        BY <1>2, <1>8, <2>1, <2>2, <4>1, MatchedShift
      <4> QED BY <4>1, <4>2, <4>3
    <3>4. Advance(by, 0)
      BY <1>11, <2>4, <3>1
    <3> QED BY <1>1, <3>2, <3>3, <3>4, AdvanceStep
  <2> QED BY <1>6, <2>3, <2>4
<1> QED BY <1>10, <1>11 DEF LeftHalf

LEMMA NextInv == Inv /\ [Next]_vars => Inv'
<1> SUFFICES ASSUME Inv, [Next]_vars PROVE Inv'
  OBVIOUS
<1>1. CASE SearchShort
  BY <1>1, SearchShortStep
<1>2. CASE SearchLong
  BY <1>2, SearchLongStep
<1>3. CASE MaximalSuffix
  BY <1>3, MaximalSuffixStep
<1>4. CASE OppositeSuffix
  BY <1>4, OppositeSuffixStep
<1>5. CASE Exhausted
  BY <1>5, ExhaustedStep
<1>6. CASE LastByte
  BY <1>6, LastByteStep
<1>7. CASE RightHalf
  BY <1>7, RightHalfStep
<1>8. CASE LeftHalf
  BY <1>8, LeftHalfStep
<1>9. CASE UNCHANGED vars
  <2>1. /\ UNCHANGED args /\ pc' = pc /\ bin' = bin /\ h' = h /\ mem' = mem /\ suf' = suf
        /\ first' = first /\ prep' = prep /\ res' = res
    BY <1>9 DEF vars
  <2>2. /\ hay' = hay /\ needle' = needle /\ n' = n /\ l' = l /\ W' = W /\ Y' = Y /\ Arguments'
        /\ \A i : ChunkStart(i)' = ChunkStart(i) /\ ChunkEnd(i)' = ChunkEnd(i)
        /\ \A o : At(o)' = At(o)
        /\ \A i : FirstIn(i)' = FirstIn(i)
    BY <2>1, ArgumentsStay DEF Inv
  <2>3. z' = z /\ ChunkStart(bin)' = ChunkStart(bin)
    BY <2>1, <2>2 DEF z, ChunkStart, ChunkEnd
  <2>4. Bins'
    BY <2>1, <2>2 DEF Inv, Bins, NULL
  <2>5. Phases'
    <3>1. Phases /\ (Looping(suf, 1)' <=> Looping(suf, 1)) /\ (Ready' <=> Ready)
      BY <2>1, <2>2 DEF Inv, Looping, Ready, Before, Places
    <3>2. /\ Looping(suf, -1)' <=> Looping(suf, -1)
          /\ Looping(first, 1)' <=> Looping(first, 1)
      BY <2>1, <2>2 DEF Looping, Before, Places
    <3>3. Fresh' = Fresh
      BY DEF Fresh, Wrap
    <3> QED BY <2>1, <2>2, <2>3, <3>1, <3>2, <3>3 DEF Phases
  <2>6. NothingSkipped'
    <3>1. ASSUME NEW i PROVE H(h + i)' = H(h + i) /\ N(i)' = N(i)
      BY <2>1, <2>2 DEF H, N
    <3> QED BY <2>1, <2>2, <2>3, <3>1 DEF Inv, NothingSkipped
  <2> QED BY <2>2, <2>4, <2>5, <2>6 DEF Inv
<1> QED BY <1>1, <1>2, <1>3, <1>4, <1>5, <1>6, <1>7, <1>8, <1>9 DEF Next

LEMMA Invariance == Spec => []Inv
<1>1. Init => Inv
  BY InitInv
<1>2. Inv /\ [Next]_vars => Inv'
  BY NextInv
<1> QED BY <1>1, <1>2, PTL DEF Spec

LEMMA InvInBounds == Inv => InBounds
<1> SUFFICES ASSUME Inv PROVE InBounds
  OBVIOUS
<1>1. Arguments /\ Bins /\ Phases
  BY DEF Inv
<1>2. l \in Nat /\ Len(hay) \in Nat
  BY <1>1, ArgumentFacts
<1>3. bin \in 0 .. n - 1 /\ \A i \in DOMAIN res : res[i] \in {NULL} \union (0 .. Len(hay) - 1)
  BY <1>1 DEF Bins
<1>4. ASSUME NEW s, NEW sgn, Looping(s, sgn)
      PROVE  /\ s.jp + s.k <= l /\ Wrap(s.ip + s.k) < s.jp + s.k /\ s.k \in 1 .. s.p
             /\ Wrap(s.ip + 1) + s.p <= l
  <2>1. PICK c \in Nat : s.ip = Before(c) /\ Scan(W, l, sgn, c, s.jp, s.k, s.p)
    BY <1>4 DEF Looping
  <2>2. s \in Places
    BY <1>4 DEF Looping
  <2>3. /\ Wrap(s.ip + 1) = c /\ Wrap(s.ip + s.k) = c + s.k - 1
        /\ s.jp \in Nat /\ s.k \in Nat /\ s.p \in Nat
        /\ c < l /\ 1 <= s.k /\ s.k <= s.p /\ c + s.p <= s.jp + 1 /\ s.jp + s.k <= l
    BY <1>1, <2>1, <2>2, SuffixFacts
  <2> QED BY <1>2, <2>3
<1>5. ASSUME pc \in {"suffix", "opposite"}
      PROVE  /\ suf.jp + suf.k <= l /\ Wrap(suf.ip + suf.k) < suf.jp + suf.k
             /\ suf.k \in 1 .. suf.p
  <2>1. Looping(suf, 1) \/ Looping(suf, -1)
    BY <1>1, <1>5 DEF Phases
  <2> QED BY <1>4, <2>1
<1>6. ASSUME pc = "opposite" PROVE Wrap(Critical.ip + 1) + Critical.p <= l
  <2>1. Looping(suf, -1) /\ Looping(first, 1) /\ Critical \in {suf, first}
    BY <1>1, <1>6 DEF Phases, Critical
  <2> QED BY <1>4, <2>1
<1>7. ASSUME pc = "search"
      PROVE  /\ h \in ChunkStart(bin) .. z /\ Wrap(prep.ms + 1) < l
             /\ prep.p \in 1 .. l /\ mem < l
  <2>1. h \in ChunkStart(bin) .. z /\ Ready /\ l > 1
    BY <1>1, <1>7 DEF Phases
  <2>2. PICK sgn \in {1, -1}, c \in Nat, b \in Nat, p \in Nat :
          /\ Factored(W, l, sgn, c, b, p) /\ prep.ms = Before(c)
          /\ \/ prep.p = p /\ mem \in {0, l - p}
             \/ /\ \E o \in 0 .. c - 1 : W[o] # W[o + p]
                /\ prep.p = (IF l - c <= c - 1 THEN c ELSE l - c + 1) /\ mem = 0
    BY <2>1 DEF Ready
  <2>3. c < l /\ 1 <= p /\ c + p <= l
    BY <2>2 DEF Factored
  <2>4. Wrap(prep.ms + 1) = c
    <3>1. PICK ms \in Int : ms = prep.ms /\ ms = IF c = 0 THEN SizeRange - 1 ELSE c - 1
      BY <1>1, <2>2, ArgumentFacts DEF Before
    <3>2. /\ ms + 1 \in Int /\ (ms + 1 = c \/ (ms + 1 = SizeRange /\ c = 0))
          /\ SizeRange \in Nat /\ l < SizeRange
      BY <1>1, <3>1, ArgumentFacts
    <3> QED BY <1>2, <2>3, <3>1, <3>2, Wraps
  <2>5. prep.p \in 1 .. l /\ mem < l
    <3>1. CASE prep.p = p /\ mem \in {0, l - p}
      BY <1>2, <2>1, <2>3, <3>1
    <3>2. CASE /\ \E o \in 0 .. c - 1 : W[o] # W[o + p]
               /\ prep.p = (IF l - c <= c - 1 THEN c ELSE l - c + 1) /\ mem = 0
      <4>1. c >= 1
        BY <3>2
      <4> QED BY <1>2, <2>1, <2>3, <3>2, <4>1
    <3> QED BY <2>2, <3>1, <3>2
  <2> QED BY <2>1, <2>3, <2>4, <2>5
<1> QED BY <1>3, <1>5, <1>6, <1>7 DEF InBounds

-----------------------------------------------------------------------------
(* Theorems.                                                               *)

\* For every needle and haystack the loops of twoway_memmem read inside the needle, also
\* with ip = -1, the window never begins beyond the end of its chunk, and every shift
\* moves it on.
THEOREM Bounded == Spec => []InBounds
<1>1. Spec => []Inv
  BY Invariance
<1>2. Inv => InBounds
  BY InvInBounds
<1> QED BY <1>1, <1>2, PTL

\* For every needle and haystack no shift of twoway_memmem passes over an occurrence, what
\* it remembers of the window does match, and chunk_into_bins_by_needle leaves in every
\* bin searched the first occurrence that lies wholly in its chunk.
THEOREM NoneSkipped == Spec => []NothingSkipped
<1>1. Spec => []Inv
  BY Invariance
<1>2. Inv => NothingSkipped
  BY DEF Inv
<1> QED BY <1>1, <1>2, PTL
=============================================================================
