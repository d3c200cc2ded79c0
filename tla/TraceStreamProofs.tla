------------------------- MODULE TraceStreamProofs -------------------------
(***************************************************************************)
(* Proofs about TraceStream and TraceReader, for any registers, values,    *)
(* sync distances and numbers of instructions: every message decodes from  *)
(* the context logged before it, every sync frame holds that context, and  *)
(* reading gives back what was logged.                                     *)
(***************************************************************************)
EXTENDS TraceReader, FiniteSetTheorems, TLAPS

Message == {SyncMsg(n, c) : n \in Nat, c \in Context} \union {DeltaMsg(o, c) : o, c \in Context}

\* Ordinary and Prior, of any buffer and any contexts
OrdinaryIn(b, i) == Cardinality({j \in 1 .. i : ~b[j].sync})
PriorIn(lg, k) == lg[IF k <= 1 THEN 1 ELSE k - 1]

\* Message m takes the reader from context old to context new, in all but nzcv, and
\* carries what differs between them and nothing else.
Decodes(m, old, new) ==
  /\ new.pc = IF m.pc # <<>> THEN m.pc[1] ELSE old.pc + 4
  /\ new.sp = IF m.sp # <<>> THEN m.sp[1] ELSE old.sp
  /\ \A r \in X : new.x[r] = IF r \in DOMAIN m.x THEN m.x[r] ELSE old.x[r]
  /\ \A r \in V : new.v[r] = IF r \in DOMAIN m.v THEN m.v[r] ELSE old.v[r]
  /\ m.sp # <<>> <=> new.sp # old.sp
  /\ \A r \in X : r \in DOMAIN m.x <=> new.x[r] # old.x[r]
  /\ \A r \in V : r \in DOMAIN m.v <=> new.v[r] # old.v[r]

\* Frame i of b says how many instructions were logged before it, and their last context.
GoodFrame(b, lg, i) ==
  /\ b[i].n \in Nat /\ b[i].n = OrdinaryIn(b, i) /\ b[i].n <= Len(lg)
  /\ b[i].ctx = PriorIn(lg, b[i].n + 1)

\* Message i of b decodes to the context it was logged with.
GoodDelta(b, lg, i) ==
  /\ OrdinaryIn(b, i) \in DOMAIN lg
  /\ Decodes(b[i], PriorIn(lg, OrdinaryIn(b, i)), lg[OrdinaryIn(b, i)])

Good(b, lg) ==
  \A i \in DOMAIN b : (b[i].sync => GoodFrame(b, lg, i)) /\ (~b[i].sync => GoodDelta(b, lg, i))

\* No sync frame is followed by another one or by nothing.
Followed(b) == \A i \in DOMAIN b : b[i].sync => i < Len(b) /\ ~b[i + 1].sync

Inv ==
  /\ TypeOK
  /\ buf \in Seq(Message)
  /\ numInst = Len(logged) /\ OrdinaryIn(buf, Len(buf)) = numInst
  /\ logged = <<>> => buf = <<>> /\ last = <<>> /\ failed = FALSE
  /\ logged # <<>> => last # <<>> /\ last = logged[Len(logged)]
  /\ Good(buf, logged)
  /\ failed = FALSE => Followed(buf)
  /\ whole = FALSE => failed = FALSE

-----------------------------------------------------------------------------
(* Messages.                                                               *)

LEMMA NotEmpty == ASSUME NEW c \in Context PROVE c # <<>>
<1>1. DOMAIN c = {"pc", "sp", "nzcv", "x", "v"}
  BY DEF Context
<1>2. DOMAIN <<>> = {}
  OBVIOUS
<1> QED BY <1>1, <1>2, Zenon

\* A message decodes from the context it was made from.
LEMMA DeltaDecodes ==
  ASSUME NEW old \in Context, NEW new \in Context
  PROVE  Decodes(DeltaMsg(old, new), old, new)
<1> DEFINE m == DeltaMsg(old, new)
<1>1. /\ old.pc \in Pcs /\ new.pc \in Pcs /\ new.x \in [X -> Vals] /\ old.x \in [X -> Vals]
      /\ new.v \in [V -> Vals] /\ old.v \in [V -> Vals]
  BY DEF Context
<1>2. /\ m.sync = FALSE
      /\ m.pc = (IF new.pc = old.pc + 4 THEN <<>> ELSE <<new.pc>>)
      /\ m.sp = (IF new.sp = old.sp THEN <<>> ELSE <<new.sp>>)
      /\ m.x = [r \in Changed(new.x, old.x) |-> new.x[r]]
      /\ m.v = [r \in Changed(new.v, old.v) |-> new.v[r]]
  BY DEF DeltaMsg
<1> HIDE DEF m
<1>3. new.pc = IF m.pc # <<>> THEN m.pc[1] ELSE old.pc + 4
  BY <1>2
<1>4. new.sp = IF m.sp # <<>> THEN m.sp[1] ELSE old.sp
  BY <1>2
<1>5. \A r \in X : new.x[r] = IF r \in DOMAIN m.x THEN m.x[r] ELSE old.x[r]
  BY <1>1, <1>2 DEF Changed
<1>6. \A r \in V : new.v[r] = IF r \in DOMAIN m.v THEN m.v[r] ELSE old.v[r]
  BY <1>1, <1>2 DEF Changed
<1>7. m.sp # <<>> <=> new.sp # old.sp
  BY <1>2
<1>8. \A r \in X : r \in DOMAIN m.x <=> new.x[r] # old.x[r]
  BY <1>1, <1>2 DEF Changed
<1>9. \A r \in V : r \in DOMAIN m.v <=> new.v[r] # old.v[r]
  BY <1>1, <1>2 DEF Changed
<1> QED BY <1>3, <1>4, <1>5, <1>6, <1>7, <1>8, <1>9 DEF Decodes, m

-----------------------------------------------------------------------------
(* Appending.                                                              *)

LEMMA Appended ==
  ASSUME NEW b \in Seq(Message), NEW m \in Message
  PROVE  /\ Append(b, m) \in Seq(Message) /\ Len(Append(b, m)) = Len(b) + 1 /\ Len(b) \in Nat
         /\ DOMAIN b = 1 .. Len(b) /\ DOMAIN Append(b, m) = 1 .. Len(b) + 1
         /\ Append(b, m)[Len(b) + 1] = m /\ \A i \in DOMAIN b : Append(b, m)[i] = b[i]
  OBVIOUS

\* One more message counts if it is not a sync frame; earlier counts stay.
LEMMA OrdinaryAppended ==
  ASSUME NEW b \in Seq(Message), NEW m \in Message, m.sync \in BOOLEAN
  PROVE  /\ \A i \in DOMAIN b : OrdinaryIn(Append(b, m), i) = OrdinaryIn(b, i)
         /\ OrdinaryIn(b, Len(b)) \in Nat
         /\ OrdinaryIn(Append(b, m), Len(b) + 1)
              = OrdinaryIn(b, Len(b)) + (IF m.sync THEN 0 ELSE 1)
<1> DEFINE bm == Append(b, m)
           S == {j \in 1 .. Len(b) : ~b[j].sync}
           T == {j \in 1 .. Len(b) + 1 : ~bm[j].sync}
<1>1. /\ Len(b) \in Nat /\ DOMAIN b = 1 .. Len(b) /\ bm[Len(b) + 1] = m
      /\ \A i \in DOMAIN b : bm[i] = b[i]
  BY Appended
<1>2. ASSUME NEW i \in DOMAIN b PROVE OrdinaryIn(bm, i) = OrdinaryIn(b, i)
  <2>1. \A j \in 1 .. i : bm[j] = b[j]
    BY <1>1
  <2>2. {j \in 1 .. i : ~bm[j].sync} = {j \in 1 .. i : ~b[j].sync}
    BY <2>1
  <2> QED BY <2>2 DEF OrdinaryIn
<1>3. IsFiniteSet(S) /\ Cardinality(S) \in Nat
  <2>1. IsFiniteSet(1 .. Len(b)) /\ S \subseteq 1 .. Len(b)
    BY <1>1, FS_Interval
  <2> QED BY <2>1, FS_Subset, FS_CardinalityType
<1>4. T = IF m.sync THEN S ELSE S \union {Len(b) + 1}
  <2>1. 1 .. Len(b) + 1 = (1 .. Len(b)) \union {Len(b) + 1}
    BY <1>1
  <2>2. \A j \in 1 .. Len(b) : bm[j].sync = b[j].sync
    BY <1>1
  <2>3. bm[Len(b) + 1] = m
    BY <1>1
  <2> HIDE DEF bm
  <2>4. CASE m.sync
    <3>1. \A j : j \in T <=> j \in S
      BY <2>1, <2>2, <2>3, <2>4
    <3> HIDE DEF S, T
    <3> QED BY <2>4, <3>1
  <2>5. CASE ~m.sync
    <3>1. \A j : j \in T <=> j \in S \/ j = Len(b) + 1
      BY <2>1, <2>2, <2>3, <2>5
    <3> HIDE DEF S, T
    <3> QED BY <2>5, <3>1
  <2> QED BY <2>4, <2>5
<1>5. Len(b) + 1 \notin S
  BY <1>1
<1>6. Cardinality(T) = Cardinality(S) + (IF m.sync THEN 0 ELSE 1)
  <2> HIDE DEF S, T
  <2>1. CASE m.sync
    BY <1>3, <1>4, <2>1
  <2>2. CASE ~m.sync
    BY <1>3, <1>4, <1>5, <2>2, FS_AddElement
  <2> QED BY <2>1, <2>2
<1> QED BY <1>2, <1>3, <1>6 DEF OrdinaryIn

LEMMA MessageFields ==
  ASSUME NEW m \in Message
  PROVE  /\ m.sync \in BOOLEAN
         /\ m.sync = TRUE => \E n \in Nat, c \in Context : m = SyncMsg(n, c)
         /\ m.sync = FALSE => \E o, c \in Context : m = DeltaMsg(o, c)
<1>1. \A n, c : SyncMsg(n, c).sync = TRUE
  BY DEF SyncMsg
<1>2. \A o, c : DeltaMsg(o, c).sync = FALSE
  BY DEF DeltaMsg
<1>3. \/ \E n \in Nat, c \in Context : m = SyncMsg(n, c)
      \/ \E o, c \in Context : m = DeltaMsg(o, c)
  BY DEF Message
<1> QED BY <1>1, <1>2, <1>3

\* Logging one more context leaves what was logged before as it was.
LEMMA GoodLonger ==
  ASSUME NEW b \in Seq(Message), NEW lg \in Seq(Context), NEW c \in Context,
         Good(b, lg), lg # <<>>
  PROVE  Good(b, Append(lg, c))
<1> DEFINE lc == Append(lg, c)
<1>1. /\ Len(lg) \in Nat /\ Len(lg) > 0 /\ DOMAIN lg = 1 .. Len(lg)
      /\ Len(lc) = Len(lg) + 1 /\ DOMAIN lc = 1 .. Len(lg) + 1
      /\ \A i \in 1 .. Len(lg) : lc[i] = lg[i]
  OBVIOUS
<1> HIDE DEF lc
<1>2. \A k \in Nat : k <= Len(lg) + 1 => PriorIn(lc, k) = PriorIn(lg, k)
  BY <1>1 DEF PriorIn
<1>3. ASSUME NEW i \in DOMAIN b, b[i].sync PROVE GoodFrame(b, lc, i)
  <2>1. GoodFrame(b, lg, i)
    BY <1>3 DEF Good
  <2> QED BY <1>1, <1>2, <2>1 DEF GoodFrame
<1>4. ASSUME NEW i \in DOMAIN b, ~b[i].sync PROVE GoodDelta(b, lc, i)
  <2>1. GoodDelta(b, lg, i)
    BY <1>4 DEF Good
  <2> DEFINE k == OrdinaryIn(b, i)
  <2>2. k \in 1 .. Len(lg) /\ Decodes(b[i], PriorIn(lg, k), lg[k])
    BY <1>1, <2>1 DEF GoodDelta
  <2> HIDE DEF k
  <2>3. k \in DOMAIN lc /\ PriorIn(lc, k) = PriorIn(lg, k) /\ lc[k] = lg[k]
    BY <1>1, <1>2, <2>2
  <2> QED BY <2>2, <2>3 DEF GoodDelta, k
<1> QED BY <1>3, <1>4 DEF Good, lc

\* A message that is good where it stands may be appended.
LEMMA GoodAppended ==
  ASSUME NEW b \in Seq(Message), NEW m \in Message, NEW lg \in Seq(Context), Good(b, lg),
         m.sync => GoodFrame(Append(b, m), lg, Len(b) + 1),
         ~m.sync => GoodDelta(Append(b, m), lg, Len(b) + 1)
  PROVE  Good(Append(b, m), lg)
<1> DEFINE bm == Append(b, m)
<1>1. /\ Len(b) \in Nat /\ DOMAIN b = 1 .. Len(b) /\ bm[Len(b) + 1] = m
      /\ DOMAIN bm = 1 .. Len(b) + 1 /\ \A i \in DOMAIN b : bm[i] = b[i]
  BY Appended
<1>2. m.sync \in BOOLEAN
  BY MessageFields
<1>3. \A i \in DOMAIN b : OrdinaryIn(bm, i) = OrdinaryIn(b, i)
  BY <1>2, OrdinaryAppended
<1>4. ASSUME NEW i \in DOMAIN bm
      PROVE  (bm[i].sync => GoodFrame(bm, lg, i)) /\ (~bm[i].sync => GoodDelta(bm, lg, i))
  <2>1. CASE i = Len(b) + 1
    BY <1>1, <2>1
  <2>2. CASE i \in DOMAIN b
    <3>1. bm[i] = b[i] /\ OrdinaryIn(bm, i) = OrdinaryIn(b, i)
      BY <1>1, <1>3, <2>2
    <3>2. (b[i].sync => GoodFrame(b, lg, i)) /\ (~b[i].sync => GoodDelta(b, lg, i))
      BY <2>2 DEF Good
    <3> HIDE DEF bm
    <3> QED BY <3>1, <3>2 DEF GoodFrame, GoodDelta
  <2> QED BY <1>1, <2>1, <2>2
<1> HIDE DEF bm
<1>5. Good(bm, lg)
  BY <1>4 DEF Good
<1> QED BY <1>5 DEF bm

\* A sync frame with the number and the last of the instructions so far.
LEMMA FrameAppended ==
  ASSUME NEW b \in Seq(Message), NEW lg \in Seq(Context), Good(b, lg), NEW c \in Context,
         OrdinaryIn(b, Len(b)) <= Len(lg), c = PriorIn(lg, OrdinaryIn(b, Len(b)) + 1)
  PROVE  LET bm == Append(b, SyncMsg(OrdinaryIn(b, Len(b)), c))
         IN  /\ bm \in Seq(Message) /\ Good(bm, lg)
             /\ OrdinaryIn(bm, Len(bm)) = OrdinaryIn(b, Len(b))
<1> DEFINE n == OrdinaryIn(b, Len(b))
           m == SyncMsg(n, c)
           bm == Append(b, m)
<1>1. n \in Nat
  <2>1. DeltaMsg(c, c) \in Message
    BY DEF Message
  <2> QED BY <2>1, OrdinaryAppended, MessageFields
<1> HIDE DEF n
<1>2. m \in Message /\ m.sync = TRUE /\ m.n = n /\ m.ctx = c
  <2>1. m \in Message
    BY <1>1 DEF Message
  <2> QED BY <2>1 DEF SyncMsg
<1> HIDE DEF m
<1>3. OrdinaryIn(bm, Len(b) + 1) = n
  <2>1. OrdinaryIn(bm, Len(b) + 1) = OrdinaryIn(b, Len(b)) + 0
    BY <1>2, OrdinaryAppended
  <2> HIDE DEF bm
  <2> QED BY <1>1, <2>1 DEF n
<1>4. bm \in Seq(Message) /\ Len(bm) = Len(b) + 1 /\ bm[Len(b) + 1] = m
  BY <1>2, Appended
<1>5. GoodFrame(bm, lg, Len(b) + 1)
  <2>1. n <= Len(lg) /\ c = PriorIn(lg, n + 1)
    BY DEF n
  <2> HIDE DEF bm
  <2> QED BY <1>1, <1>2, <1>3, <1>4, <2>1 DEF GoodFrame
<1>6. Good(bm, lg)
  BY <1>2, <1>5, GoodAppended
<1> QED BY <1>3, <1>4, <1>6 DEF bm, m, n

\* The message of the instruction logged last.
LEMMA DeltaAppended ==
  ASSUME NEW b \in Seq(Message), NEW lg \in Seq(Context), Good(b, lg),
         NEW old \in Context, NEW new \in Context,
         OrdinaryIn(b, Len(b)) + 1 = Len(lg), new = lg[Len(lg)], old = PriorIn(lg, Len(lg))
  PROVE  LET bm == Append(b, DeltaMsg(old, new))
         IN  /\ bm \in Seq(Message) /\ Good(bm, lg)
             /\ OrdinaryIn(bm, Len(bm)) = Len(lg)
<1> DEFINE m == DeltaMsg(old, new)
           bm == Append(b, m)
<1>1. m \in Message /\ m.sync = FALSE
  <2>1. m \in Message
    BY DEF Message
  <2> QED BY <2>1 DEF DeltaMsg
<1>2. Decodes(m, old, new)
  BY DeltaDecodes
<1> HIDE DEF m
<1>3. OrdinaryIn(bm, Len(b) + 1) = Len(lg) /\ OrdinaryIn(b, Len(b)) \in Nat
  BY <1>1, OrdinaryAppended
<1>4. bm \in Seq(Message) /\ Len(bm) = Len(b) + 1 /\ bm[Len(b) + 1] = m
  BY <1>1, Appended
<1>5. GoodDelta(bm, lg, Len(b) + 1)
  <2>1. Len(lg) \in DOMAIN lg
    BY <1>3
  <2> HIDE DEF bm
  <2> QED BY <1>2, <1>3, <1>4, <2>1 DEF GoodDelta
<1>6. Good(bm, lg)
  BY <1>1, <1>5, GoodAppended
<1> QED BY <1>3, <1>4, <1>6 DEF bm, m

\* A message that is no sync frame ends the log well, also after one.
LEMMA FollowedAppended ==
  ASSUME NEW b \in Seq(Message), NEW s \in Message, NEW m \in Message, m.sync = FALSE, Followed(b)
  PROVE  Followed(Append(b, m)) /\ Followed(Append(Append(b, s), m))
<1> DEFINE bs == Append(b, s)
           bm == Append(b, m)
           bsm == Append(bs, m)
<1>1. /\ Len(b) \in Nat /\ DOMAIN b = 1 .. Len(b) /\ bs \in Seq(Message) /\ Len(bs) = Len(b) + 1
      /\ \A i \in 1 .. Len(b) : bs[i] = b[i] /\ bm[i] = b[i]
      /\ Len(bm) = Len(b) + 1 /\ bm[Len(b) + 1] = m /\ DOMAIN bm = 1 .. Len(b) + 1
  BY Appended
<1>2. /\ Len(bsm) = Len(b) + 2 /\ bsm[Len(b) + 2] = m /\ DOMAIN bsm = 1 .. Len(b) + 2
      /\ \A i \in 1 .. Len(b) : bsm[i] = b[i]
  BY Appended
<1> HIDE DEF bs, bm, bsm
<1>3. Followed(bm)
  BY <1>1 DEF Followed
<1>4. Followed(bsm)
  BY <1>1, <1>2 DEF Followed
<1> QED BY <1>3, <1>4 DEF bs, bm, bsm

LEMMA Concatenated ==
  ASSUME NEW b \in Seq(Message), NEW s \in Message, NEW m \in Message
  PROVE  /\ b \o <<>> = b /\ b \o <<s>> = Append(b, s)
         /\ b \o <<>> \o <<m>> = Append(b, m)
         /\ b \o <<s>> \o <<m>> = Append(Append(b, s), m)
<1>1. \A c \in Seq(Message), e \in Message : c \o <<>> = c /\ c \o <<e>> = Append(c, e)
  OBVIOUS
<1>2. Append(b, s) \in Seq(Message)
  BY Appended
<1> QED BY <1>1, <1>2

-----------------------------------------------------------------------------
(* The writer.                                                             *)

LEMMA InitInv == Init => Inv
<1> SUFFICES ASSUME Init PROVE Inv
  OBVIOUS
<1>1. TypeOK
  <2>1. whole \in BOOLEAN /\ failed \in BOOLEAN /\ gap \in BOOLEAN
    BY Zenon DEF Init
  <2>2. logged = <<>> /\ logged \in Seq(Context) /\ numInst \in Nat /\ sinceSync \in Nat
    BY ConstantsAssumption DEF Init
  <2> QED BY <2>1, <2>2, Zenon DEF TypeOK
<1>2. OrdinaryIn(buf, Len(buf)) = 0
  <2>1. {j \in 1 .. Len(buf) : ~buf[j].sync} = {}
    BY DEF Init
  <2> QED BY <2>1, FS_EmptySet DEF OrdinaryIn
<1> QED BY <1>1, <1>2 DEF Init, Inv, Good, Followed

\* The context a message is made from is the one logged before, and the log is as good
\* with the new context as it was without.
LEMMA Preceding ==
  ASSUME Inv, NEW ctx \in Context
  PROVE  LET lg == Append(logged, ctx)
         IN  /\ lg \in Seq(Context) /\ Len(lg) = Len(logged) + 1 /\ lg[Len(lg)] = ctx
             /\ lg # <<>> /\ Good(buf, lg)
             /\ Before(ctx) \in Context /\ Before(ctx) = PriorIn(lg, Len(lg))
             /\ logged # <<>> => Before(ctx) = PriorIn(logged, Len(logged) + 1)
<1> DEFINE lg == Append(logged, ctx)
<1>1. logged \in Seq(Context) /\ Len(logged) \in Nat /\ buf \in Seq(Message)
  BY DEF Inv, TypeOK
<1>2. /\ lg \in Seq(Context) /\ Len(lg) = Len(logged) + 1 /\ lg[Len(lg)] = ctx /\ lg # <<>>
      /\ \A i \in 1 .. Len(logged) : lg[i] = logged[i]
  <2>1. /\ lg \in Seq(Context) /\ Len(lg) = Len(logged) + 1 /\ lg[Len(logged) + 1] = ctx
        /\ \A i \in 1 .. Len(logged) : lg[i] = logged[i]
    BY <1>1
  <2>2. lg # <<>>
    BY <1>1, <2>1
  <2> HIDE DEF lg
  <2> QED BY <2>1, <2>2
<1>3. CASE logged = <<>>
  <2>1. buf = <<>> /\ last = <<>> /\ Len(logged) = 0
    BY <1>3 DEF Inv
  <2>2. Good(buf, lg) /\ Before(ctx) = ctx
    BY <2>1 DEF Good, Before
  <2> HIDE DEF lg
  <2>3. PriorIn(lg, Len(lg)) = ctx
    BY <1>2, <2>1 DEF PriorIn
  <2> QED BY <1>2, <1>3, <2>2, <2>3 DEF lg
<1>4. CASE logged # <<>>
  <2>1. Good(buf, lg)
    BY <1>1, <1>4, GoodLonger DEF Inv
  <2>2. Before(ctx) = last /\ last = logged[Len(logged)] /\ last \in Context /\ Len(logged) > 0
    BY <1>1, <1>4 DEF Inv, TypeOK, Before
  <2> HIDE DEF lg
  <2>3. PriorIn(lg, Len(lg)) = last /\ PriorIn(logged, Len(logged) + 1) = last
    BY <1>1, <1>2, <2>2 DEF PriorIn
  <2> QED BY <1>2, <1>4, <2>1, <2>2, <2>3 DEF lg
<1> QED BY <1>3, <1>4

LEMMA SizeType ==
  ASSUME NEW old \in Context, NEW new \in Context
  PROVE  Size(DeltaMsg(old, new)) \in Nat
<1> DEFINE m == DeltaMsg(old, new)
<1>1. m.pc \in {<<>>, <<new.pc>>} /\ m.sp \in {<<>>, <<new.sp>>}
  <2>1. /\ m.pc = (IF new.pc = old.pc + 4 THEN <<>> ELSE <<new.pc>>)
        /\ m.sp = (IF new.sp = old.sp THEN <<>> ELSE <<new.sp>>)
    BY DEF DeltaMsg
  <2> HIDE DEF m
  <2> QED BY <2>1, Zenon
<1>2. DOMAIN m.x \subseteq X /\ DOMAIN m.v \subseteq V
  BY DEF DeltaMsg, Changed, Context
<1> HIDE DEF m
<1>3. Cardinality(DOMAIN m.x) \in Nat /\ Cardinality(DOMAIN m.v) \in Nat
  BY <1>2, ConstantsAssumption, FS_Subset, FS_CardinalityType
<1>4. Len(m.pc) \in Nat /\ Len(m.sp) \in Nat
  BY <1>1
<1>5. \A i, j, k, l \in Nat : 8 + 8 * i + 8 * j + 8 * k + 16 * l \in Nat
  OBVIOUS
<1>6. Size(m) \in Nat
  BY <1>3, <1>4, <1>5, Zenon DEF Size
<1> QED BY <1>6 DEF m

\* A context differs from itself in nothing, so the first one always fits.
LEMMA FirstFits ==
  ASSUME Inv, NEW ctx \in Context, ~Fits(ctx)
  PROVE  logged # <<>>
<1> SUFFICES ASSUME logged = <<>> PROVE FALSE
  OBVIOUS
<1>1. Before(ctx) = ctx
  BY DEF Inv, Before
<1>2. Changed(ctx.x, Before(ctx).x) = {} /\ Changed(ctx.v, Before(ctx).v) = {}
  BY <1>1 DEF Changed
<1> QED BY <1>2, FS_EmptySet, ConstantsAssumption DEF Fits

\* One instruction logged, with or without a sync frame before its message.
LEMMA Logging ==
  ASSUME Inv, NEW ctx \in Context, failed = FALSE,
         LET m == DeltaMsg(Before(ctx), ctx)
         IN  \/ buf' = Append(buf, m)
             \/ buf' = Append(Append(buf, SyncMsg(numInst, Before(ctx))), m),
         logged' = Append(logged, ctx), numInst' = numInst + 1, last' = ctx, failed' = FALSE,
         TypeOK'
  PROVE  Inv'
<1> DEFINE m == DeltaMsg(Before(ctx), ctx)
           s == SyncMsg(numInst, Before(ctx))
           lg == Append(logged, ctx)
<1>1. /\ lg \in Seq(Context) /\ Len(lg) = Len(logged) + 1 /\ lg[Len(lg)] = ctx
      /\ lg # <<>> /\ Good(buf, lg)
      /\ Before(ctx) \in Context /\ Before(ctx) = PriorIn(lg, Len(lg))
  BY Preceding
<1>2. /\ buf \in Seq(Message) /\ numInst = Len(logged) /\ OrdinaryIn(buf, Len(buf)) = numInst
      /\ Followed(buf) /\ numInst \in Nat
  BY DEF Inv, TypeOK
<1>3. m \in Message /\ m.sync = FALSE
  <2>1. m \in Message
    BY <1>1 DEF Message
  <2> QED BY <2>1 DEF DeltaMsg
<1>4. s \in Message
  BY <1>1, <1>2 DEF Message
<1>5. Followed(Append(buf, m)) /\ Followed(Append(Append(buf, s), m))
  BY <1>2, <1>3, <1>4, FollowedAppended
<1>6. ASSUME NEW b \in Seq(Message), Good(b, lg), OrdinaryIn(b, Len(b)) = numInst
      PROVE  /\ Append(b, m) \in Seq(Message) /\ Good(Append(b, m), lg)
             /\ OrdinaryIn(Append(b, m), Len(Append(b, m))) = Len(lg)
  <2>1. OrdinaryIn(b, Len(b)) + 1 = Len(lg)
    BY <1>1, <1>2, <1>6
  <2> HIDE DEF lg
  <2> QED BY <1>1, <1>6, <2>1, DeltaAppended
<1>7. /\ Append(buf, s) \in Seq(Message) /\ Good(Append(buf, s), lg)
      /\ OrdinaryIn(Append(buf, s), Len(Append(buf, s))) = numInst
  <2>1. OrdinaryIn(buf, Len(buf)) <= Len(lg) /\ OrdinaryIn(buf, Len(buf)) + 1 = Len(lg)
    BY <1>1, <1>2
  <2> HIDE DEF lg
  <2>2. Before(ctx) = PriorIn(lg, OrdinaryIn(buf, Len(buf)) + 1)
    BY <1>1, <2>1
  <2> QED BY <1>1, <1>2, <2>1, <2>2, FrameAppended
<1>8. /\ buf' \in Seq(Message) /\ Good(buf', lg) /\ Followed(buf')
      /\ OrdinaryIn(buf', Len(buf')) = Len(lg)
  <2>1. CASE buf' = Append(buf, m)
    BY <1>1, <1>2, <1>5, <1>6, <2>1
  <2>2. CASE buf' = Append(Append(buf, s), m)
    BY <1>5, <1>6, <1>7, <2>2
  <2> QED BY <2>1, <2>2
<1>9. ctx # <<>>
  BY NotEmpty
<1> HIDE DEF m, s
<1>10. logged' = lg
  OBVIOUS
<1> HIDE DEF lg
<1>11. numInst' = Len(logged')
  BY <1>1, <1>2, <1>10
<1> QED BY <1>1, <1>8, <1>9, <1>10, <1>11 DEF Inv

LEMMA LogContextInv ==
  ASSUME Inv, NEW ctx \in Context, LogContext(ctx)
  PROVE  Inv'
<1> DEFINE m == DeltaMsg(Before(ctx), ctx)
           s == SyncMsg(numInst, Before(ctx))
<1>1. /\ Append(logged, ctx) \in Seq(Context) /\ Before(ctx) \in Context
      /\ logged # <<>> => Before(ctx) = PriorIn(logged, Len(logged) + 1)
  BY Preceding
<1>2. /\ buf \in Seq(Message) /\ numInst = Len(logged) /\ OrdinaryIn(buf, Len(buf)) = numInst
      /\ Good(buf, logged) /\ logged \in Seq(Context)
      /\ failed = FALSE /\ whole \in BOOLEAN /\ sinceSync \in Nat /\ numInst \in Nat
  BY DEF Inv, TypeOK, LogContext
<1>3. m \in Message /\ s \in Message
  BY <1>1, <1>2 DEF Message
<1>4. /\ buf \o Synced(ctx) \in {buf, Append(buf, s)}
      /\ buf \o Synced(ctx) \o <<m>> \in {Append(buf, m), Append(Append(buf, s), m)}
  <2>1. Synced(ctx) \in {<<>>, <<s>>}
    BY DEF Synced
  <2> HIDE DEF m, s
  <2>2. /\ buf \o <<>> = buf /\ buf \o <<s>> = Append(buf, s)
        /\ buf \o <<>> \o <<m>> = Append(buf, m)
        /\ buf \o <<s>> \o <<m>> = Append(Append(buf, s), m)
    BY <1>2, <1>3, Concatenated
  <2>3. CASE Synced(ctx) = <<>>
    BY <2>2, <2>3, Zenon
  <2>4. CASE Synced(ctx) = <<s>>
    BY <2>2, <2>4, Zenon
  <2> QED BY <2>1, <2>3, <2>4, Zenon
<1>5. CASE Fits(ctx)
  <2>1. /\ buf' = buf \o Synced(ctx) \o <<m>> /\ last' = ctx /\ numInst' = numInst + 1
        /\ logged' = Append(logged, ctx) /\ failed' = failed /\ whole' = whole /\ gap' = FALSE
        /\ sinceSync' = (IF sinceSync >= SyncEvery THEN 0 ELSE sinceSync) + Size(m)
    BY <1>5 DEF LogContext
  <2>2. Size(m) \in Nat
    BY <1>1, SizeType
  <2> HIDE DEF m
  <2>3. sinceSync' \in Nat /\ numInst' \in Nat
    BY <1>2, <2>1, <2>2
  <2>4. TypeOK'
    BY <1>1, <1>2, <2>1, <2>3 DEF TypeOK
  <2>5. \/ buf' = Append(buf, m)
        \/ buf' = Append(Append(buf, s), m)
    BY <1>4, <2>1
  <2>6. failed' = FALSE
    BY <1>2, <2>1
  <2> QED BY <1>2, <2>1, <2>4, <2>5, <2>6, Logging DEF m
<1>6. CASE ~Fits(ctx)
  <2>1. /\ buf' = buf \o Synced(ctx) /\ failed' = TRUE
        /\ last' = last /\ numInst' = numInst /\ logged' = logged /\ whole' = whole /\ gap' = FALSE
        /\ sinceSync' = IF sinceSync >= SyncEvery THEN 0 ELSE sinceSync
    BY <1>6 DEF LogContext
  <2>2. logged # <<>> /\ last \in Context
    BY <1>6, FirstFits DEF Inv, TypeOK
  <2>3. TypeOK'
    BY <1>2, <2>1, <2>2 DEF TypeOK
  <2>4. /\ Append(buf, s) \in Seq(Message) /\ Good(Append(buf, s), logged)
        /\ OrdinaryIn(Append(buf, s), Len(Append(buf, s))) = numInst
    <3>1. Before(ctx) = PriorIn(logged, OrdinaryIn(buf, Len(buf)) + 1)
      BY <1>1, <1>2, <2>2
    <3>2. OrdinaryIn(buf, Len(buf)) <= Len(logged)
      BY <1>2
    <3> QED BY <1>1, <1>2, <3>1, <3>2, FrameAppended
  <2>5. buf' \in Seq(Message) /\ Good(buf', logged') /\ OrdinaryIn(buf', Len(buf')) = numInst'
    <3>1. buf' = buf \/ buf' = Append(buf, s)
      BY <1>4, <2>1
    <3> HIDE DEF s
    <3> QED BY <1>2, <2>1, <2>4, <3>1
  <2>6. whole = TRUE /\ whole' = TRUE
    BY <1>2, <2>1 DEF LogContext
  <2> QED BY <1>2, <2>1, <2>2, <2>3, <2>5, <2>6 DEF Inv
<1> QED BY <1>5, <1>6

LEMMA PcOnlyType == ASSUME NEW pc \in Pcs PROVE PcOnly(pc) \in Context
<1> DEFINE zero == CHOOSE z \in Vals : TRUE
<1>1. zero \in Vals
  BY ConstantsAssumption
<1>2. PcOnly(pc) = [pc |-> pc, sp |-> zero, nzcv |-> zero,
                    x |-> [r \in X |-> zero], v |-> [r \in V |-> zero]]
  BY DEF PcOnly
<1> HIDE DEF zero
<1> QED BY <1>1, <1>2 DEF Context

LEMMA LogPcInv ==
  ASSUME Inv, NEW pc \in Pcs, LogPc(pc)
  PROVE  Inv'
<1> DEFINE ctx == PcOnly(pc)
<1>1. ctx \in Context
  BY PcOnlyType
<1>2. /\ buf' = Append(buf, DeltaMsg(Before(ctx), ctx)) /\ last' = ctx
      /\ logged' = Append(logged, ctx) /\ numInst' = numInst + 1
      /\ whole' = whole /\ sinceSync' = sinceSync /\ failed' = failed /\ gap' = gap
  BY DEF LogPc
<1> HIDE DEF ctx
<1>3. TypeOK'
  BY <1>1, <1>2 DEF Inv, TypeOK
<1>4. failed = FALSE /\ failed' = FALSE
  <2>1. whole = FALSE
    BY DEF LogPc, Inv, TypeOK
  <2> QED BY <1>2, <2>1 DEF Inv
<1> QED BY <1>1, <1>2, <1>3, <1>4, Logging

-----------------------------------------------------------------------------
(* Theorems.                                                               *)

LEMMA InvStep == Inv /\ [Next]_vars => Inv'
<1> SUFFICES ASSUME Inv, [Next]_vars PROVE Inv'
  OBVIOUS
<1>1. CASE \E ctx \in Context : LogContext(ctx)
  BY <1>1, LogContextInv
<1>2. CASE \E pc \in Pcs : LogPc(pc)
  BY <1>2, LogPcInv
<1>3. CASE Unfollow
  <2>1. /\ whole' = whole /\ buf' = buf /\ last' = last /\ numInst' = numInst
        /\ sinceSync' = sinceSync /\ failed' = failed /\ logged' = logged /\ gap' = TRUE
    BY <1>3 DEF Unfollow
  <2> QED BY <2>1 DEF Inv, TypeOK
<1>4. CASE UNCHANGED vars
  <2>1. /\ whole' = whole /\ buf' = buf /\ last' = last /\ numInst' = numInst
        /\ sinceSync' = sinceSync /\ failed' = failed /\ logged' = logged /\ gap' = gap
    BY <1>4 DEF vars
  <2> QED BY <2>1 DEF Inv, TypeOK
<1> QED BY <1>1, <1>2, <1>3, <1>4 DEF Next

\* The first message of a log of contexts is a sync frame: one is due from the start.
SyncedFront ==
  /\ whole = TRUE /\ buf # <<>> => buf[1].sync = TRUE
  /\ buf = <<>> => sinceSync >= SyncEvery

\* A log keeps its first message.
LEMMA FirstKept ==
  ASSUME NEW b \in Seq(Message), NEW s \in Message, NEW m \in Message
  PROVE  /\ Append(b, m) # <<>> /\ Append(Append(b, s), m) # <<>>
         /\ b # <<>> => Append(b, m)[1] = b[1] /\ Append(Append(b, s), m)[1] = b[1]
         /\ b = <<>> => Append(b, m)[1] = m /\ Append(Append(b, s), m)[1] = s
<1>1. \A c \in Seq(Message), e \in Message :
        /\ Append(c, e) \in Seq(Message) /\ Append(c, e) # <<>>
        /\ (c # <<>> => Append(c, e)[1] = c[1]) /\ (c = <<>> => Append(c, e)[1] = e)
  OBVIOUS
<1>2. Append(b, s) \in Seq(Message) /\ Append(b, s) # <<>>
  BY <1>1
<1>3. Append(Append(b, s), m)[1] = Append(b, s)[1] /\ Append(Append(b, s), m) # <<>>
  BY <1>1, <1>2
<1> QED BY <1>1, <1>3

LEMMA FrontStep ==
  ASSUME Inv, SyncedFront, [Next]_vars
  PROVE  SyncedFront'
<1>1. ASSUME NEW ctx \in Context, LogContext(ctx) PROVE SyncedFront'
  <2> DEFINE m == DeltaMsg(Before(ctx), ctx)
             s == SyncMsg(numInst, Before(ctx))
  <2>1. buf \in Seq(Message) /\ m \in Message /\ s \in Message /\ s.sync = TRUE
    <3>1. Before(ctx) \in Context /\ numInst \in Nat /\ buf \in Seq(Message)
      BY Preceding DEF Inv, TypeOK
    <3>2. m \in Message /\ s \in Message
      BY <3>1 DEF Message
    <3>3. s.sync = TRUE
      BY DEF SyncMsg
    <3> QED BY <3>1, <3>2, <3>3
  <2>2. whole = TRUE
    BY <1>1 DEF LogContext, Inv, TypeOK
  <2>3. buf = <<>> => Synced(ctx) = <<s>>
    BY DEF SyncedFront, Synced
  <2>4. Synced(ctx) \in {<<>>, <<s>>}
    BY DEF Synced
  <2>5. buf' \in {buf \o Synced(ctx), buf \o Synced(ctx) \o <<m>>}
    BY <1>1 DEF LogContext
  <2> HIDE DEF m, s
  <2>6. /\ buf \o <<>> = buf /\ buf \o <<s>> = Append(buf, s)
        /\ buf \o <<>> \o <<m>> = Append(buf, m)
        /\ buf \o <<s>> \o <<m>> = Append(Append(buf, s), m)
    BY <2>1, Concatenated
  <2>7. CASE buf = <<>>
    <3>1. buf' \in {Append(buf, s), Append(Append(buf, s), m)}
      BY <2>3, <2>5, <2>6, <2>7, Zenon
    <3>2. /\ Append(buf, s) # <<>> /\ Append(buf, s)[1] = s
          /\ Append(Append(buf, s), m) # <<>> /\ Append(Append(buf, s), m)[1] = s
      BY <2>1, <2>7, FirstKept, Zenon
    <3>3. buf' # <<>> /\ buf'[1] = s
      BY <3>1, <3>2, Zenon
    <3> QED BY <2>1, <3>3 DEF SyncedFront
  <2>8. CASE buf # <<>>
    <3>1. buf' \in {buf, Append(buf, s), Append(buf, m), Append(Append(buf, s), m)}
      BY <2>4, <2>5, <2>6, Zenon
    <3>2. buf' # <<>> /\ buf'[1] = buf[1]
      BY <2>1, <2>8, <3>1, FirstKept
    <3> QED BY <2>2, <2>8, <3>2 DEF SyncedFront
  <2> QED BY <2>7, <2>8
<1>2. ASSUME NEW pc \in Pcs, LogPc(pc) PROVE SyncedFront'
  <2> DEFINE ctx == PcOnly(pc)
             m == DeltaMsg(Before(ctx), ctx)
  <2>1. buf \in Seq(Message) /\ m \in Message
    <3>1. ctx \in Context
      BY PcOnlyType
    <3>2. Before(ctx) \in Context
      BY <3>1, Preceding
    <3> QED BY <3>1, <3>2 DEF Inv, Message
  <2>2. buf' = Append(buf, m) /\ whole' = whole /\ whole = FALSE
    BY <1>2 DEF LogPc, Inv, TypeOK
  <2> HIDE DEF m
  <2>3. buf' # <<>>
    BY <2>1, <2>2, FirstKept
  <2> QED BY <2>2, <2>3 DEF SyncedFront
<1>3. CASE Unfollow
  BY <1>3 DEF Unfollow, SyncedFront
<1>4. CASE UNCHANGED vars
  BY <1>4 DEF vars, SyncedFront
<1> QED BY <1>1, <1>2, <1>3, <1>4 DEF Next

LEMMA InitFront == Init => SyncedFront
  BY ConstantsAssumption DEF Init, SyncedFront

LEMMA Invariance == Spec => [](Inv /\ SyncedFront)
  BY InitInv, InvStep, InitFront, FrontStep, PTL DEF Spec

\* Every context handed to log is one, and last_cpu_ctx is a context from the first on.
THEOREM TypeCorrect == Spec => []TypeOK
<1>1. Inv => TypeOK
  BY DEF Inv
<1> QED BY <1>1, Invariance, PTL

\* The log of a stalker's thread begins with a sync frame, as front() asserts, and reading
\* may begin at any that write_sync has written: an ordinary message follows it, its
\* num_inst counts the instructions before it, and its context is the one that message is
\* a difference from.
THEOREM EntriesSound == Spec => []SyncPointsAreEntries
<1>1. Inv /\ SyncedFront => SyncPointsAreEntries
  <2> SUFFICES ASSUME Inv, SyncedFront PROVE SyncPointsAreEntries
    OBVIOUS
  <2>1. whole /\ buf # <<>> => 1 \in SyncPoints
    <3>1. whole => whole = TRUE
      BY DEF Inv, TypeOK
    <3>2. buf # <<>> => 1 \in DOMAIN buf
      BY DEF Inv
    <3> QED BY <3>1, <3>2 DEF SyncedFront, SyncPoints
  <2>2. ASSUME NEW i \in DOMAIN buf, buf[i].sync
        PROVE  /\ ~failed => i < Len(buf) /\ ~buf[i + 1].sync
               /\ buf[i].n = Ordinary(i)
               /\ buf[i].ctx = Prior(buf[i].n + 1)
    <3>1. GoodFrame(buf, logged, i)
      BY <2>2 DEF Inv, Good
    <3>2. OrdinaryIn(buf, i) = Ordinary(i)
      BY DEF OrdinaryIn, Ordinary
    <3>3. PriorIn(logged, buf[i].n + 1) = Prior(buf[i].n + 1)
      BY DEF PriorIn, Prior
    <3>4. ~failed => Followed(buf)
      BY DEF Inv, TypeOK
    <3> QED BY <2>2, <3>1, <3>2, <3>3, <3>4 DEF GoodFrame, Followed
  <2> QED BY <2>1, <2>2 DEF SyncPointsAreEntries, SyncPoints
<1> QED BY <1>1, Invariance, PTL

\* Every message of the log is either a sync frame or takes a reader, by
\* log_arm64_cpu_context::update and pc_iterator, from the context logged before its
\* instruction to the context logged with it, in all registers but nzcv, which no message
\* carries, and holds no register that did not change: one step of reading a log back is
\* right at every position, whatever has been appended since.
THEOREM MessagesDecode ==
  Spec => [](\A i \in DOMAIN buf : ~buf[i].sync =>
               /\ Ordinary(i) \in DOMAIN logged
               /\ Decodes(buf[i], Prior(Ordinary(i)), logged[Ordinary(i)]))
<1>1. Inv => \A i \in DOMAIN buf : ~buf[i].sync =>
               /\ Ordinary(i) \in DOMAIN logged
               /\ Decodes(buf[i], Prior(Ordinary(i)), logged[Ordinary(i)])
  <2> SUFFICES ASSUME Inv, NEW i \in DOMAIN buf, ~buf[i].sync
               PROVE  /\ Ordinary(i) \in DOMAIN logged
                      /\ Decodes(buf[i], Prior(Ordinary(i)), logged[Ordinary(i)])
    OBVIOUS
  <2>1. GoodDelta(buf, logged, i)
    BY DEF Inv, Good
  <2>2. OrdinaryIn(buf, i) = Ordinary(i)
    BY DEF OrdinaryIn, Ordinary
  <2>3. PriorIn(logged, Ordinary(i)) = Prior(Ordinary(i))
    BY DEF PriorIn, Prior
  <2> QED BY <2>1, <2>2, <2>3 DEF GoodDelta
<1> QED BY <1>1, Invariance, PTL

-----------------------------------------------------------------------------
(* The reader.                                                             *)

\* The context in the sync frame reading begins at
Origin == PriorIn(logged, buf[from].n + 1)

\* The context that belongs to the message at position i
Standing(i) == IF i = from THEN Origin ELSE logged[OrdinaryIn(buf, i)]

\* The k-th program counter that is to be read
Expected(k) == IF k = 1 THEN Origin.pc ELSE logged[buf[from].n + k - 1].pc

\* The instructions after the first frame up to position i
Since(i) == buf[from].n + 1 .. OrdinaryIn(buf, i)

\* What a ctx_iterator at position i holds: the registers changed since, and junk
Shows(c, i) ==
  /\ c.sp = (IF \E k \in Since(i) : logged[k].sp # PriorIn(logged, k).sp THEN Standing(i).sp ELSE Junk)
  /\ c.nzcv = Junk
  /\ \A r \in X : c.x[r] =
       IF \E k \in Since(i) : logged[k].x[r] # PriorIn(logged, k).x[r]
       THEN Standing(i).x[r] ELSE Junk
  /\ \A r \in V : c.v[r] =
       IF \E k \in Since(i) : logged[k].v[r] # PriorIn(logged, k).v[r]
       THEN Standing(i).v[r] ELSE Junk

\* The iterator is at a message, and all before it have been collected.
AtMessage ==
  /\ it.at \in DOMAIN buf /\ it.at >= from
  /\ (it.at # from => buf[it.at].sync = FALSE /\ Len(pcs) > 0)
  /\ Len(pcs) = OrdinaryIn(buf, it.at) - buf[from].n
  /\ it.pc = Standing(it.at).pc /\ Shows(it.ctx, it.at)

\* What has been read is what was logged, as far as the iterator has come.
Reading ==
  /\ phase = "log" => pcs = <<>>
  /\ phase \notin {"log", "failed"} =>
       /\ failed = FALSE /\ from \in DOMAIN buf /\ buf[from].sync = TRUE
       /\ pcs \in Seq(Nat) /\ \A k \in DOMAIN pcs : pcs[k] = Expected(k)
       /\ it.at \in Nat /\ it = [at |-> it.at, pc |-> it.pc, ctx |-> it.ctx]
       /\ OnMessage => AtMessage
       /\ ~OnMessage => Len(pcs) = Len(logged) - buf[from].n + 1

\* Counting goes on by one, or stays at a sync frame.
LEMMA OrdinaryNext ==
  ASSUME NEW b \in Seq(Message), NEW i \in Nat, i + 1 \in DOMAIN b
  PROVE  /\ OrdinaryIn(b, i) \in Nat /\ b[i + 1].sync \in BOOLEAN
         /\ OrdinaryIn(b, i + 1) = OrdinaryIn(b, i) + (IF b[i + 1].sync THEN 0 ELSE 1)
<1> DEFINE S == {j \in 1 .. i : ~b[j].sync}
           T == {j \in 1 .. i + 1 : ~b[j].sync}
<1>1. b[i + 1].sync \in BOOLEAN
  <2>1. b[i + 1] \in Message
    OBVIOUS
  <2> QED BY <2>1, MessageFields
<1>2. IsFiniteSet(S) /\ Cardinality(S) \in Nat
  <2>1. i \in Int /\ 1 \in Int
    OBVIOUS
  <2>2. IsFiniteSet(1 .. i) /\ S \subseteq 1 .. i
    BY <2>1, FS_Interval
  <2> QED BY <2>2, FS_Subset, FS_CardinalityType
<1>3. 1 .. i + 1 = (1 .. i) \union {i + 1} /\ i + 1 \notin S
  OBVIOUS
<1>4. CASE b[i + 1].sync = TRUE
  <2>1. \A j : j \in T <=> j \in S
    BY <1>3, <1>4
  <2> HIDE DEF S, T
  <2>2. T = S
    BY <2>1
  <2>3. Cardinality(T) = Cardinality(S) + 0
    BY <1>2, <2>2
  <2> QED BY <1>1, <1>2, <1>4, <2>3 DEF OrdinaryIn, S, T
<1>5. CASE b[i + 1].sync = FALSE
  <2>1. \A j : j \in T <=> j \in S \/ j = i + 1
    BY <1>3, <1>5
  <2> HIDE DEF S, T
  <2>2. T = S \union {i + 1}
    BY <2>1
  <2>3. Cardinality(T) = Cardinality(S) + 1
    BY <1>2, <1>3, <2>2, FS_AddElement
  <2> QED BY <1>1, <1>2, <1>5, <2>3 DEF OrdinaryIn, S, T
<1> QED BY <1>1, <1>4, <1>5

\* The frame reading begins at, and the message the iterator is at
LEMMA FrameFacts ==
  ASSUME Inv, Reading, phase \notin {"log", "failed"}
  PROVE  /\ buf \in Seq(Message) /\ Len(buf) \in Nat /\ DOMAIN buf = 1 .. Len(buf)
         /\ logged \in Seq(Context) /\ Len(logged) \in Nat /\ DOMAIN logged = 1 .. Len(logged)
         /\ from \in 1 .. Len(buf) /\ Followed(buf)
         /\ buf[from].n \in Nat /\ buf[from].n = OrdinaryIn(buf, from)
         /\ buf[from].n <= Len(logged) /\ Len(logged) > 0 /\ Origin \in Context
<1>1. /\ buf \in Seq(Message) /\ Len(buf) \in Nat /\ DOMAIN buf = 1 .. Len(buf)
      /\ logged \in Seq(Context) /\ Len(logged) \in Nat /\ DOMAIN logged = 1 .. Len(logged)
      /\ Followed(buf) /\ Good(buf, logged) /\ from \in DOMAIN buf /\ buf[from].sync
  BY DEF Inv, TypeOK, Reading
<1>2. GoodFrame(buf, logged, from)
  BY <1>1 DEF Good
<1>3. Len(logged) > 0
  <2>1. buf # <<>>
    BY <1>1
  <2> QED BY <1>1, <2>1 DEF Inv
<1>4. Origin \in Context
  BY <1>1, <1>2, <1>3 DEF GoodFrame, Origin, PriorIn
<1> QED BY <1>1, <1>2, <1>3, <1>4 DEF GoodFrame

LEMMA StandingType ==
  ASSUME Inv, Reading, phase \notin {"log", "failed"}, OnMessage
  PROVE  Standing(it.at) \in Context /\ it.pc \in Nat
<1>1. AtMessage
  BY DEF Reading
<1>2. Standing(it.at) \in Context
  <2>1. CASE it.at = from
    BY <2>1, FrameFacts DEF Standing
  <2>2. CASE it.at # from
    <3>1. GoodDelta(buf, logged, it.at)
      BY <1>1, <2>2 DEF AtMessage, Inv, Good
    <3>2. OrdinaryIn(buf, it.at) \in DOMAIN logged
      BY <3>1 DEF GoodDelta
    <3> QED BY <2>2, <3>2, FrameFacts DEF Standing
  <2> QED BY <2>1, <2>2
<1> QED BY <1>1, <1>2, ConstantsAssumption DEF AtMessage, Context

\* Where operator++ goes: to the next message that is no sync frame, which is made from
\* the context that belongs to this one.
LEMMA Onward ==
  ASSUME Inv, Reading, phase \notin {"log", "failed"}, OnMessage,
         NEW j, j = Advance(it.at), j <= Len(buf)
  PROVE  /\ j \in DOMAIN buf /\ j # from /\ j > it.at /\ buf[j].sync = FALSE
         /\ OrdinaryIn(buf, it.at) \in Nat /\ OrdinaryIn(buf, j) = OrdinaryIn(buf, it.at) + 1
         /\ OrdinaryIn(buf, j) \in DOMAIN logged
         /\ Decodes(buf[j], Standing(it.at), Standing(j))
         /\ PriorIn(logged, OrdinaryIn(buf, j)) = Standing(it.at)
         /\ logged[OrdinaryIn(buf, j)] = Standing(j)
<1> DEFINE i == it.at
<1>1. AtMessage
  BY DEF Reading
<1>2. /\ buf \in Seq(Message) /\ Len(buf) \in Nat /\ DOMAIN buf = 1 .. Len(buf)
      /\ logged \in Seq(Context) /\ Len(logged) \in Nat /\ DOMAIN logged = 1 .. Len(logged)
      /\ from \in 1 .. Len(buf) /\ Followed(buf) /\ buf[from].n = OrdinaryIn(buf, from)
  BY FrameFacts
<1>3. i \in 1 .. Len(buf) /\ i \in Nat /\ (i # from => buf[i].sync = FALSE)
  BY <1>1, <1>2 DEF AtMessage
<1>4. j = IF i + 1 <= Len(buf) /\ buf[i + 1].sync THEN i + 2 ELSE i + 1
  BY DEF Advance
<1> HIDE DEF i
<1>5. \A k \in 1 .. Len(buf) : buf[k].sync \in BOOLEAN
  <2>1. \A k \in 1 .. Len(buf) : buf[k] \in Message
    BY <1>2
  <2> QED BY <2>1, MessageFields
<1>6. i + 1 \in 1 .. Len(buf)
  BY <1>2, <1>3, <1>4
<1>7. OrdinaryIn(buf, i) \in Nat
  BY <1>2, <1>3, <1>6, OrdinaryNext
<1>8. j \in DOMAIN buf /\ j > i /\ buf[j].sync = FALSE /\ OrdinaryIn(buf, j) = OrdinaryIn(buf, i) + 1
  <2>1. CASE buf[i + 1].sync = TRUE
    <3>1. j = i + 2 /\ i + 1 < Len(buf) /\ i + 1 + 1 = i + 2
      BY <1>2, <1>3, <1>4, <1>6, <2>1 DEF Followed
    <3>2. buf[i + 2].sync = FALSE /\ i + 2 \in DOMAIN buf
      BY <1>2, <1>3, <1>5, <1>6, <2>1, <3>1 DEF Followed
    <3>3. OrdinaryIn(buf, i + 1) = OrdinaryIn(buf, i) + 0
      BY <1>2, <1>3, <1>6, <2>1, OrdinaryNext
    <3>4. OrdinaryIn(buf, i + 1 + 1) = OrdinaryIn(buf, i + 1) + 1
      <4>1. i + 1 \in Nat /\ i + 1 + 1 \in DOMAIN buf /\ buf[i + 1 + 1].sync = FALSE
        BY <1>3, <3>1, <3>2
      <4> QED BY <1>2, <4>1, OrdinaryNext
    <3> QED BY <1>3, <1>7, <3>1, <3>2, <3>3, <3>4
  <2>2. CASE buf[i + 1].sync = FALSE
    <3>1. j = i + 1
      BY <1>4, <2>2
    <3>2. OrdinaryIn(buf, i + 1) = OrdinaryIn(buf, i) + 1
      BY <1>2, <1>3, <1>6, <2>2, OrdinaryNext
    <3> QED BY <1>2, <1>3, <1>6, <2>2, <3>1, <3>2
  <2> QED BY <1>5, <1>6, <2>1, <2>2
<1>9. j # from
  BY <1>8 DEF Reading
<1>10. GoodDelta(buf, logged, j)
  BY <1>8 DEF Inv, Good
<1>11. PriorIn(logged, OrdinaryIn(buf, j)) = Standing(i)
  <2>1. CASE i = from
    BY <1>2, <1>8, <2>1 DEF Standing, Origin
  <2>2. CASE i # from
    <3>1. GoodDelta(buf, logged, i)
      BY <1>2, <1>3, <2>2 DEF Inv, Good
    <3>2. OrdinaryIn(buf, i) >= 1
      BY <1>2, <3>1 DEF GoodDelta
    <3> QED BY <1>7, <1>8, <2>2, <3>2 DEF Standing, PriorIn
  <2> QED BY <2>1, <2>2
<1>12. Standing(j) = logged[OrdinaryIn(buf, j)]
  BY <1>9 DEF Standing
<1> QED BY <1>7, <1>8, <1>9, <1>10, <1>11, <1>12 DEF GoodDelta, i

\* And it reaches end() only from the message of the instruction logged last.
LEMMA AtEnd ==
  ASSUME Inv, Reading, phase \notin {"log", "failed"}, OnMessage, ~(Advance(it.at) <= Len(buf))
  PROVE  Advance(it.at) \in Nat /\ OrdinaryIn(buf, it.at) = Len(logged)
<1> DEFINE i == it.at
<1>1. AtMessage
  BY DEF Reading
<1>2. /\ buf \in Seq(Message) /\ Len(buf) \in Nat /\ DOMAIN buf = 1 .. Len(buf) /\ Followed(buf)
  BY FrameFacts
<1>3. i \in 1 .. Len(buf)
  BY <1>1, <1>2 DEF AtMessage
<1>4. Advance(i) = IF i + 1 <= Len(buf) /\ buf[i + 1].sync THEN i + 2 ELSE i + 1
  BY DEF Advance
<1>5. ~(Advance(i) <= Len(buf))
  OBVIOUS
<1> HIDE DEF i
<1>6. i = Len(buf)
  <2> DEFINE n == Len(buf)
             a == Advance(i)
  <2>1. i \in Nat /\ n \in Nat /\ i <= n /\ ~(a <= n)
    BY <1>2, <1>3, <1>5
  <2>2. i + 1 <= n /\ buf[i + 1].sync => i + 1 < n
    BY <1>2, <1>3 DEF Followed
  <2>3. (a = i + 2 /\ i + 1 <= n /\ buf[i + 1].sync) \/ a = i + 1
    BY <1>4
  <2> HIDE DEF n, a
  <2>4. i = n
    BY <2>1, <2>2, <2>3
  <2> QED BY <2>4 DEF n
<1>7. OrdinaryIn(buf, i) = Len(logged)
  BY <1>6 DEF Inv
<1> QED BY <1>2, <1>3, <1>4, <1>7 DEF i
LEMMA BeginReading ==
  ASSUME Inv, Reading, NEW i \in DOMAIN buf, Begin(i)
  PROVE  Reading'
<1>1. /\ failed = FALSE /\ buf[i].sync = TRUE
      /\ phase' = "pcs" /\ from' = i /\ pcs' = <<>>
      /\ it' = [at |-> i, pc |-> buf[i].ctx.pc, ctx |-> StackJunk]
      /\ buf' = buf /\ logged' = logged /\ failed' = FALSE
  <2>1. buf[i] \in Message
    BY DEF Inv
  <2>2. buf[i].sync \in BOOLEAN
    BY <2>1, MessageFields
  <2>3. failed = FALSE
    BY DEF Begin, Inv, TypeOK
  <2>4. pcs = <<>>
    BY DEF Begin, Reading
  <2> QED BY <2>2, <2>3, <2>4 DEF Begin, SyncPoints, vars
<1>2. GoodFrame(buf, logged, i) /\ i \in 1 .. Len(buf) /\ i \in Nat /\ Len(buf) \in Nat
  <2>1. buf \in Seq(Message)
    BY DEF Inv
  <2> QED BY <1>1, <2>1 DEF Inv, Good
<1>3. Standing(i)' = buf[i].ctx
  BY <1>1, <1>2 DEF Standing, Origin, GoodFrame
<1>4. it'.at = i /\ it'.pc = buf[i].ctx.pc /\ it'.ctx = StackJunk
  BY <1>1
<1>5. Shows(StackJunk, i)'
  <2>1. Since(i)' = {}
    BY <1>1, <1>2 DEF Since, GoodFrame
  <2> QED BY <2>1 DEF Shows, StackJunk
<1>6. AtMessage'
  <2>1. OrdinaryIn(buf, i) - buf[i].n = 0
    BY <1>2 DEF GoodFrame
  <2> QED BY <1>1, <1>2, <1>3, <1>4, <1>5, <2>1 DEF AtMessage
<1>7. OnMessage'
  BY <1>1, <1>2, <1>4 DEF OnMessage
<1> QED BY <1>1, <1>2, <1>4, <1>6, <1>7 DEF Reading

\* What a ctx_iterator shows after operator++
LEMMA ShownOnward ==
  ASSUME Inv, Reading, phase \notin {"log", "failed"}, OnMessage,
         NEW j, j = Advance(it.at), j <= Len(buf)
  PROVE  Shows(Update(it.ctx, buf[j]), j)
<1> DEFINE i == it.at
           c == it.ctx
           d == Update(c, buf[j])
           n == buf[from].n
           o == OrdinaryIn(buf, i)
           new == Standing(j)
           old == Standing(i)
<1>1. /\ buf[j].sync = FALSE /\ Decodes(buf[j], old, new)
      /\ o \in Nat /\ OrdinaryIn(buf, j) = o + 1
      /\ logged[o + 1] = new /\ PriorIn(logged, o + 1) = old
  BY Onward
<1>2. Shows(c, i)
  BY DEF Reading, AtMessage
<1>3. n \in Nat /\ n <= o
  <2>1. n \in Nat
    BY FrameFacts
  <2>2. Len(pcs) = o - n /\ pcs \in Seq(Nat)
    BY DEF Reading, AtMessage
  <2>3. Len(pcs) \in Nat
    BY <2>2
  <2> HIDE DEF n, o
  <2> QED BY <1>1, <2>1, <2>2, <2>3
<1>5. Since(j) = Since(i) \union {o + 1}
  <2>1. Since(i) = n + 1 .. o /\ Since(j) = n + 1 .. o + 1
    BY <1>1 DEF Since
  <2> HIDE DEF n, o
  <2> QED BY <1>1, <1>3, <2>1
<1>6. /\ d.sp = (IF buf[j].sp # <<>> THEN buf[j].sp[1] ELSE c.sp) /\ d.nzcv = c.nzcv
      /\ \A r \in X : d.x[r] = IF r \in DOMAIN buf[j].x THEN buf[j].x[r] ELSE c.x[r]
      /\ \A r \in V : d.v[r] = IF r \in DOMAIN buf[j].v THEN buf[j].v[r] ELSE c.v[r]
  BY <1>1 DEF Update
<1> HIDE DEF d, c, o, new, old
<1>7. d.sp = IF \E k \in Since(j) : logged[k].sp # PriorIn(logged, k).sp THEN new.sp ELSE Junk
  <2>1. c.sp = IF \E k \in Since(i) : logged[k].sp # PriorIn(logged, k).sp THEN old.sp ELSE Junk
    BY <1>2 DEF Shows, old
  <2> QED BY <1>1, <1>5, <1>6, <2>1 DEF Decodes
<1>8. ASSUME NEW r \in X
      PROVE  d.x[r] = IF \E k \in Since(j) : logged[k].x[r] # PriorIn(logged, k).x[r]
                      THEN new.x[r] ELSE Junk
  <2>1. c.x[r] = IF \E k \in Since(i) : logged[k].x[r] # PriorIn(logged, k).x[r]
                 THEN old.x[r] ELSE Junk
    BY <1>2 DEF Shows, old
  <2> QED BY <1>1, <1>5, <1>6, <2>1 DEF Decodes
<1>9. ASSUME NEW r \in V
      PROVE  d.v[r] = IF \E k \in Since(j) : logged[k].v[r] # PriorIn(logged, k).v[r]
                      THEN new.v[r] ELSE Junk
  <2>1. c.v[r] = IF \E k \in Since(i) : logged[k].v[r] # PriorIn(logged, k).v[r]
                 THEN old.v[r] ELSE Junk
    BY <1>2 DEF Shows, old
  <2> QED BY <1>1, <1>5, <1>6, <2>1 DEF Decodes
<1> QED BY <1>2, <1>6, <1>7, <1>8, <1>9 DEF Shows, c, d, new

\* A turn of the loop collects the program counter of the message it is at, and goes on.
LEMMA ReadPcReading ==
  ASSUME Inv, Reading, ReadPc
  PROVE  Reading'
<1>1. /\ phase = "pcs" /\ OnMessage /\ phase' = phase /\ from' = from
      /\ pcs' = Append(pcs, it.pc) /\ it' = Increment
      /\ buf' = buf /\ logged' = logged /\ failed' = failed
  BY DEF ReadPc, OnMessage, vars
<1>2. /\ failed = FALSE /\ from \in DOMAIN buf /\ buf[from].sync = TRUE
      /\ pcs \in Seq(Nat) /\ (\A k \in DOMAIN pcs : pcs[k] = Expected(k))
      /\ it.at \in Nat /\ it = [at |-> it.at, pc |-> it.pc, ctx |-> it.ctx] /\ AtMessage
  BY <1>1 DEF Reading
<1>3. Standing(it.at) \in Context /\ it.pc \in Nat /\ it.pc = Standing(it.at).pc
  BY <1>1, <1>2, StandingType DEF AtMessage
<1>4. /\ buf[from].n \in Nat /\ buf[from].n = OrdinaryIn(buf, from)
      /\ Len(buf) \in Nat /\ Len(logged) \in Nat /\ DOMAIN buf = 1 .. Len(buf)
  BY <1>1, FrameFacts
<1> DEFINE i == it.at
           n == buf[from].n
           o == OrdinaryIn(buf, i)
<1>5. Len(pcs) = o - n /\ Len(pcs) \in Nat
  BY <1>2 DEF AtMessage
<1>6. o \in Nat
  <2>1. CASE Advance(i) <= Len(buf)
    BY <1>1, <2>1, Onward
  <2>2. CASE ~(Advance(i) <= Len(buf))
    BY <1>1, <1>4, <2>2, AtEnd
  <2> QED BY <2>1, <2>2
<1>7. it.pc = Expected(Len(pcs) + 1)
  <2>1. CASE i = from
    <3>1. Len(pcs) + 1 = 1
      BY <1>4, <1>5, <2>1
    <3> QED BY <1>3, <2>1, <3>1 DEF Standing, Expected
  <2>2. CASE i # from
    <3>1. GoodDelta(buf, logged, i)
      BY <1>2, <2>2 DEF AtMessage, Inv, Good
    <3>2. Standing(i) = logged[o]
      BY <2>2 DEF Standing
    <3>3. Len(pcs) + 1 # 1
      BY <1>2, <1>5, <2>2 DEF AtMessage
    <3>4. n + (Len(pcs) + 1) - 1 = o
      BY <1>4, <1>5, <1>6
    <3> QED BY <1>3, <3>2, <3>3, <3>4 DEF Expected
  <2> QED BY <2>1, <2>2
<1>8. /\ pcs' \in Seq(Nat) /\ Len(pcs') = Len(pcs) + 1
      /\ \A k \in DOMAIN pcs' : pcs'[k] = Expected(k)
  <2>1. /\ pcs' \in Seq(Nat) /\ Len(pcs') = Len(pcs) + 1 /\ DOMAIN pcs' = 1 .. Len(pcs) + 1
        /\ pcs'[Len(pcs) + 1] = it.pc /\ DOMAIN pcs = 1 .. Len(pcs)
        /\ \A k \in DOMAIN pcs : pcs'[k] = pcs[k]
    BY <1>1, <1>2, <1>3
  <2>2. ASSUME NEW k \in DOMAIN pcs' PROVE pcs'[k] = Expected(k)
    <3>1. CASE k = Len(pcs) + 1
      BY <1>7, <2>1, <3>1
    <3>2. CASE k \in DOMAIN pcs
      BY <1>2, <2>1, <3>2
    <3> QED BY <1>5, <2>1, <3>1, <3>2
  <2> QED BY <2>1, <2>2
<1>9. /\ \A k : Expected(k)' = Expected(k) /\ Standing(k)' = Standing(k) /\ Since(k)' = Since(k)
      /\ \A c, k : Shows(c, k)' = Shows(c, k)
  BY <1>1 DEF Expected, Standing, Origin, Since, Shows
<1>10. CASE Advance(i) <= Len(buf)
  <2> DEFINE j == Advance(i)
  <2>1. /\ j \in DOMAIN buf /\ j # from /\ buf[j].sync = FALSE /\ OrdinaryIn(buf, j) = o + 1
        /\ Decodes(buf[j], Standing(i), Standing(j)) /\ j > i
        /\ Shows(Update(it.ctx, buf[j]), j)
    BY <1>1, <1>10, Onward, ShownOnward
  <2> HIDE DEF j
  <2>2. it' = [at |-> j, pc |-> IF buf[j].pc # <<>> THEN buf[j].pc[1] ELSE it.pc + 4,
               ctx |-> Update(it.ctx, buf[j])]
    BY <1>1, <1>4, <1>10, <2>1 DEF Increment, j
  <2>3. /\ it'.at = j /\ it'.pc = Standing(j).pc /\ it'.ctx = Update(it.ctx, buf[j])
        /\ it' = [at |-> it'.at, pc |-> it'.pc, ctx |-> it'.ctx]
    BY <1>3, <2>1, <2>2 DEF Decodes
  <2>4. j >= from
    <3>1. i >= from /\ from \in Nat /\ i \in Nat /\ j \in Nat
      BY <1>2, <1>4, <2>1 DEF AtMessage
    <3> QED BY <2>1, <3>1
  <2>5. Len(pcs') = OrdinaryIn(buf, j) - n /\ Len(pcs') > 0
    <3>1. n \in Nat /\ o \in Nat /\ Len(pcs) = o - n /\ Len(pcs) \in Nat
      BY <1>4, <1>5, <1>6
    <3>2. Len(pcs') = Len(pcs) + 1 /\ OrdinaryIn(buf, j) = o + 1
      BY <1>8, <2>1
    <3> HIDE DEF n, o
    <3> QED BY <3>1, <3>2
  <2>6. AtMessage'
    BY <1>1, <1>9, <2>1, <2>3, <2>4, <2>5 DEF AtMessage
  <2>7. OnMessage' /\ j \in Nat
    BY <1>1, <1>4, <1>10, <2>1, <2>3 DEF OnMessage, j
  <2> QED BY <1>1, <1>2, <1>8, <1>9, <2>3, <2>6, <2>7 DEF Reading
<1>11. CASE ~(Advance(i) <= Len(buf))
  <2> DEFINE j == Advance(i)
  <2>1. j \in Nat /\ o = Len(logged)
    BY <1>1, <1>11, AtEnd
  <2>2. j > Len(buf)
    BY <1>4, <1>11, <2>1
  <2> HIDE DEF j
  <2>3. it' = [it EXCEPT !.at = j]
    BY <1>1, <2>2 DEF Increment, j
  <2>4. it'.at = j /\ it' = [at |-> it'.at, pc |-> it'.pc, ctx |-> it'.ctx]
    BY <1>2, <2>3
  <2>5. ~OnMessage'
    BY <1>1, <1>4, <2>1, <2>2, <2>4 DEF OnMessage
  <2>6. Len(pcs') = Len(logged) - n + 1
    BY <1>4, <1>5, <1>6, <1>8, <2>1
  <2> QED BY <1>1, <1>2, <1>8, <1>9, <2>1, <2>4, <2>5, <2>6 DEF Reading
<1> QED BY <1>10, <1>11
-----------------------------------------------------------------------------
(* Basic blocks.                                                           *)

Block == [pc : Nat, sz : Nat]

\* The instructions of a block, and of a sequence of blocks
Span(bb) == {bb.pc + 4 * n : n \in 0 .. (bb.sz \div 4) - 1}
Covered(bbs) == UNION {Span(bbs[k]) : k \in DOMAIN bbs}

\* The block that a branch would end now
Open(a) == [pc |-> a.start, sz |-> a.last + 4 - a.start]

\* The blocks so far and the open one cover what has been looked at.
BlocksSoFar ==
  /\ acc = [bbs |-> acc.bbs, start |-> acc.start, last |-> acc.last]
  /\ acc.bbs \in Seq(Block) /\ acc.start \in Nat
  /\ taken \in DOMAIN pcs /\ acc.last = pcs[taken]
  /\ \E q \in Nat : acc.last = acc.start + 4 * q
  /\ Covered(acc.bbs) \union Span(Open(acc)) = {pcs[k] : k \in 1 .. taken}

Blocks == (phase = "bbs" => BlocksSoFar) /\ BlocksCoverTrace

\* A block of whole instructions
LEMMA SpanOf ==
  ASSUME NEW s \in Nat, NEW q \in Nat
  PROVE  LET bb == [pc |-> s, sz |-> s + 4 * q + 4 - s]
         IN  bb \in Block /\ Span(bb) = {s + 4 * n : n \in 0 .. q}
<1> DEFINE bb == [pc |-> s, sz |-> s + 4 * q + 4 - s]
<1>1. s + 4 * q + 4 - s = 4 * (q + 1) /\ 4 * (q + 1) \in Nat /\ (4 * (q + 1)) \div 4 = q + 1
  OBVIOUS
<1>2. bb.pc = s /\ bb.sz = 4 * (q + 1) /\ bb \in Block
  BY <1>1 DEF Block
<1>3. (bb.sz \div 4) - 1 = q
  BY <1>1, <1>2
<1> HIDE DEF bb
<1>4. Span(bb) = {s + 4 * n : n \in 0 .. q}
  BY <1>2, <1>3 DEF Span
<1> QED BY <1>2, <1>4 DEF bb

LEMMA SpanOne ==
  ASSUME NEW s \in Nat
  PROVE  LET bb == [pc |-> s, sz |-> s + 4 - s] IN bb \in Block /\ Span(bb) = {s}
<1>1. s + 4 * 0 + 4 - s = s + 4 - s
  OBVIOUS
<1>2. {s + 4 * n : n \in 0 .. 0} = {s}
  OBVIOUS
<1> QED BY <1>1, <1>2, SpanOf

\* The instruction after the last one makes the block longer by itself.
LEMMA SpanLonger ==
  ASSUME NEW s \in Nat, NEW q \in Nat
  PROVE  {s + 4 * n : n \in 0 .. q + 1} = {s + 4 * n : n \in 0 .. q} \union {s + 4 * q + 4}
<1>1. 0 .. q + 1 = (0 .. q) \union {q + 1}
  OBVIOUS
<1>2. s + 4 * (q + 1) = s + 4 * q + 4
  OBVIOUS
<1> QED BY <1>1, <1>2

LEMMA CoveredAppend ==
  ASSUME NEW bbs \in Seq(Block), NEW bb \in Block
  PROVE  Append(bbs, bb) \in Seq(Block) /\ Covered(Append(bbs, bb)) = Covered(bbs) \union Span(bb)
<1> DEFINE b == Append(bbs, bb)
<1>1. /\ b \in Seq(Block) /\ DOMAIN b = DOMAIN bbs \union {Len(bbs) + 1}
      /\ b[Len(bbs) + 1] = bb /\ \A k \in DOMAIN bbs : b[k] = bbs[k]
  OBVIOUS
<1> HIDE DEF b
<1>2. Covered(b) = Covered(bbs) \union Span(bb)
  BY <1>1 DEF Covered
<1> QED BY <1>1, <1>2 DEF b

LEMMA StartBlocksInv ==
  ASSUME Inv, Reading, StartBlocks
  PROVE  Blocks'
<1>1. /\ phase = "pcs" /\ ~OnMessage /\ phase' = "bbs" /\ pcs' = pcs
      /\ acc' = [bbs |-> <<>>, start |-> pcs[1], last |-> pcs[1]] /\ taken' = 1
  BY DEF StartBlocks, FirstRound, OnMessage, Reading, Inv
<1>2. pcs \in Seq(Nat) /\ Len(pcs) = Len(logged) - buf[from].n + 1
  BY <1>1 DEF Reading
<1>3. 1 \in DOMAIN pcs
  <2>1. buf[from].n \in Nat /\ buf[from].n <= Len(logged) /\ Len(logged) \in Nat
    BY <1>1, FrameFacts
  <2>2. Len(pcs) >= 1
    BY <1>2, <2>1
  <2> QED BY <1>2, <2>2
<1> DEFINE s == pcs[1]
<1>4. s \in Nat
  BY <1>2, <1>3
<1>5. acc'.bbs = <<>> /\ acc'.start = s /\ acc'.last = s /\ <<>> \in Seq(Block)
  BY <1>1
<1>6. Span(Open(acc')) = {s}
  <2>1. Open(acc') = [pc |-> s, sz |-> s + 4 - s]
    BY <1>5 DEF Open
  <2> HIDE DEF s
  <2> QED BY <1>4, <2>1, SpanOne
<1>7. Covered(<<>>) = {} /\ {pcs[k] : k \in 1 .. 1} = {s}
  BY DEF Covered
<1>8. s = s + 4 * 0
  BY <1>4
<1>9. BlocksSoFar'
  <2> HIDE DEF s
  <2>1. \E q \in Nat : acc'.last = acc'.start + 4 * q
    BY <1>5, <1>8
  <2>2. Covered(acc'.bbs) \union Span(Open(acc')) = {pcs'[k] : k \in 1 .. taken'}
    BY <1>1, <1>5, <1>6, <1>7
  <2>3. acc' = [bbs |-> acc'.bbs, start |-> acc'.start, last |-> acc'.last]
    BY <1>1, <1>5 DEF s
  <2> QED BY <1>1, <1>3, <1>4, <1>5, <2>1, <2>2, <2>3 DEF BlocksSoFar, s
<1> QED BY <1>1, <1>9 DEF Blocks, BlocksCoverTrace

LEMMA ExtendBlocksInv ==
  ASSUME Reading, Blocks, ExtendBlocks
  PROVE  Blocks'
<1> DEFINE pc == pcs[taken + 1]
<1>1. /\ phase = "bbs" /\ phase' = "bbs" /\ pcs' = pcs /\ taken' = taken + 1 /\ taken < Len(pcs)
      /\ acc' = Round(acc, pc)
  BY DEF ExtendBlocks
<1>2. BlocksSoFar /\ pcs \in Seq(Nat)
  BY <1>1 DEF Blocks, Reading
<1>3. taken + 1 \in DOMAIN pcs /\ taken \in Nat /\ pc \in Nat
  BY <1>1, <1>2 DEF BlocksSoFar
<1>4. {pcs[k] : k \in 1 .. taken + 1} = {pcs[k] : k \in 1 .. taken} \union {pc}
  <2>1. 1 .. taken + 1 = (1 .. taken) \union {taken + 1}
    BY <1>3
  <2> QED BY <2>1
<1> HIDE DEF pc
<1>5. PICK q \in Nat : acc.last = acc.start + 4 * q
  BY <1>2 DEF BlocksSoFar
<1>6. /\ acc.start \in Nat /\ acc.last \in Nat /\ acc.bbs \in Seq(Block)
      /\ acc = [bbs |-> acc.bbs, start |-> acc.start, last |-> acc.last]
      /\ Covered(acc.bbs) \union Span(Open(acc)) = {pcs[k] : k \in 1 .. taken}
  BY <1>2, <1>5 DEF BlocksSoFar
<1>7. Open(acc) \in Block /\ Span(Open(acc)) = {acc.start + 4 * n : n \in 0 .. q}
  <2>1. Open(acc) = [pc |-> acc.start, sz |-> acc.start + 4 * q + 4 - acc.start]
    BY <1>5 DEF Open
  <2> QED BY <1>6, <2>1, SpanOf
<1>8. CASE acc.last + 4 # pc
  <2>1. acc' = [bbs |-> Append(acc.bbs, Open(acc)), start |-> pc, last |-> pc]
    BY <1>1, <1>8 DEF Round, Open
  <2>2. acc'.bbs = Append(acc.bbs, Open(acc)) /\ acc'.start = pc /\ acc'.last = pc
    BY <2>1
  <2>3. /\ acc'.bbs \in Seq(Block)
        /\ Covered(acc'.bbs) = Covered(acc.bbs) \union Span(Open(acc))
    BY <1>6, <1>7, <2>2, CoveredAppend
  <2>4. Span(Open(acc')) = {pc}
    <3>1. Open(acc') = [pc |-> pc, sz |-> pc + 4 - pc]
      BY <2>2 DEF Open
    <3> QED BY <1>3, <3>1, SpanOne
  <2>5. Covered(acc'.bbs) \union Span(Open(acc')) = {pcs[k] : k \in 1 .. taken + 1}
    BY <1>4, <1>6, <2>3, <2>4
  <2>6. acc'.last = acc'.start + 4 * 0
    BY <1>3, <2>2
  <2>7. acc' = [bbs |-> acc'.bbs, start |-> acc'.start, last |-> acc'.last]
    BY <2>1, <2>2
  <2>8. BlocksSoFar'
    BY <1>1, <1>3, <2>2, <2>3, <2>5, <2>6, <2>7 DEF BlocksSoFar, pc
  <2> QED BY <1>1, <2>8 DEF Blocks, BlocksCoverTrace
<1>9. CASE acc.last + 4 = pc
  <2>1. acc' = [acc EXCEPT !.last = pc]
    BY <1>1, <1>9 DEF Round
  <2>2. /\ acc'.bbs = acc.bbs /\ acc'.start = acc.start /\ acc'.last = pc
        /\ acc' = [bbs |-> acc'.bbs, start |-> acc'.start, last |-> acc'.last]
    BY <1>6, <2>1
  <2>3. pc = acc.start + 4 * (q + 1) /\ q + 1 \in Nat /\ pc = acc.start + 4 * q + 4
    BY <1>5, <1>6, <1>9
  <2>4. Span(Open(acc')) = {acc.start + 4 * n : n \in 0 .. q + 1}
    <3>1. Open(acc') = [pc |-> acc.start, sz |-> acc.start + 4 * (q + 1) + 4 - acc.start]
      BY <2>2, <2>3 DEF Open
    <3> QED BY <1>6, <2>3, <3>1, SpanOf
  <2>5. Span(Open(acc')) = Span(Open(acc)) \union {pc}
    BY <1>6, <1>7, <2>3, <2>4, SpanLonger
  <2>6. Covered(acc'.bbs) \union Span(Open(acc')) = {pcs[k] : k \in 1 .. taken + 1}
    BY <1>4, <1>6, <2>2, <2>5
  <2>7. \E r \in Nat : acc'.last = acc'.start + 4 * r
    BY <2>2, <2>3
  <2>8. BlocksSoFar'
    BY <1>1, <1>3, <1>6, <2>2, <2>6, <2>7 DEF BlocksSoFar, pc
  <2> QED BY <1>1, <2>8 DEF Blocks, BlocksCoverTrace
<1> QED BY <1>8, <1>9

LEMMA FinishBlocksInv ==
  ASSUME Reading, Blocks, FinishBlocks
  PROVE  Blocks'
<1>1. /\ phase = "bbs" /\ phase' = "done" /\ pcs' = pcs /\ taken = Len(pcs)
      /\ acc' = [acc EXCEPT !.bbs = AfterLoop(acc)]
  BY DEF FinishBlocks
<1>2. BlocksSoFar /\ pcs \in Seq(Nat)
  BY <1>1 DEF Blocks, Reading
<1>3. PICK q \in Nat : acc.last = acc.start + 4 * q
  BY <1>2 DEF BlocksSoFar
<1>4. /\ acc.start \in Nat /\ acc.bbs \in Seq(Block) /\ acc.last = pcs[Len(pcs)]
      /\ acc = [bbs |-> acc.bbs, start |-> acc.start, last |-> acc.last]
      /\ Covered(acc.bbs) \union Span(Open(acc)) = ToSet(pcs)
  <2>1. {pcs[k] : k \in 1 .. Len(pcs)} = ToSet(pcs)
    BY <1>2 DEF ToSet
  <2> QED BY <1>1, <1>2, <2>1 DEF BlocksSoFar
<1>5. Open(acc) \in Block /\ Span(Open(acc)) = {acc.start + 4 * n : n \in 0 .. q}
  <2>1. Open(acc) = [pc |-> acc.start, sz |-> acc.start + 4 * q + 4 - acc.start]
    BY <1>3 DEF Open
  <2> QED BY <1>4, <2>1, SpanOf
<1>6. acc'.bbs = AfterLoop(acc)
  BY <1>1, <1>4
<1>7. CASE acc.start # acc.last
  <2>1. acc'.bbs = Append(acc.bbs, Open(acc))
    BY <1>6, <1>7 DEF AfterLoop, Open
  <2>2. Covered(acc'.bbs) = ToSet(pcs)
    BY <1>4, <1>5, <2>1, CoveredAppend
  <2> QED BY <1>1, <2>2 DEF Blocks, BlocksCoverTrace, Covered, Span
<1>8. CASE acc.start = acc.last
  <2>1. acc'.bbs = acc.bbs
    BY <1>6, <1>8 DEF AfterLoop
  <2>2. Span(Open(acc)) = {pcs[Len(pcs)]}
    <3>1. Open(acc) = [pc |-> acc.start, sz |-> acc.start + 4 - acc.start]
      BY <1>8 DEF Open
    <3> QED BY <1>4, <1>8, <3>1, SpanOne
  <2>3. Covered(acc'.bbs) \subseteq ToSet(pcs) /\ ToSet(pcs) \ Covered(acc'.bbs) \subseteq {pcs[Len(pcs)]}
    BY <1>4, <2>1, <2>2
  <2> QED BY <1>1, <2>3 DEF Blocks, BlocksCoverTrace, Covered, Span
<1> QED BY <1>7, <1>8
-----------------------------------------------------------------------------
(* Theorems about reading.                                                 *)

ReaderInv == Inv /\ SyncedFront /\ Reading /\ Blocks

LEMMA ReaderStep == ReaderInv /\ [ReaderNext]_allVars => ReaderInv'
<1> SUFFICES ASSUME ReaderInv, [ReaderNext]_allVars PROVE ReaderInv'
  OBVIOUS
<1> USE DEF ReaderInv
<1>1. CASE Log
  <2>1. Inv' /\ SyncedFront'
    BY <1>1, InvStep, FrontStep DEF Log
  <2>2. phase = "log" /\ phase' = phase /\ pcs' = pcs
    BY <1>1 DEF Log, readerVars
  <2> QED BY <2>1, <2>2 DEF Reading, Blocks, BlocksCoverTrace
<1>2. ASSUME vars' = vars PROVE Inv' /\ SyncedFront'
  BY <1>2, InvStep, FrontStep
<1>3. ASSUME NEW i \in DOMAIN buf, Begin(i) PROVE ReaderInv'
  <2>1. Reading'
    BY <1>3, BeginReading
  <2>2. vars' = vars /\ phase' = "pcs"
    BY <1>3 DEF Begin
  <2> QED BY <1>2, <2>1, <2>2 DEF Blocks, BlocksCoverTrace
<1>4. CASE ReadPc
  <2>1. Reading'
    BY <1>4, ReadPcReading
  <2>2. vars' = vars /\ phase' = "pcs"
    BY <1>4 DEF ReadPc
  <2> QED BY <1>2, <2>1, <2>2 DEF Blocks, BlocksCoverTrace
<1>5. ASSUME vars' = vars, from' = from, it' = it, pcs' = pcs,
             phase \notin {"log", "failed"}, ~OnMessage, phase' \in {"bbs", "done"}
      PROVE  Reading'
  <2>1. buf' = buf /\ logged' = logged /\ failed' = failed
    BY <1>5 DEF vars
  <2>2. ~OnMessage'
    BY <1>5 DEF OnMessage
  <2>3. \A k : Expected(k)' = Expected(k)
    BY <1>5, <2>1 DEF Expected, Origin
  <2> QED BY <1>5, <2>1, <2>2, <2>3 DEF Reading
<1>6. CASE StartBlocks
  <2>1. Blocks'
    BY <1>6, StartBlocksInv
  <2>2. /\ vars' = vars /\ from' = from /\ it' = it /\ pcs' = pcs /\ phase = "pcs"
        /\ phase' = "bbs"
    BY <1>6 DEF StartBlocks
  <2>3. ~OnMessage
    <3>1. it.at \in Nat /\ Len(buf) \in Nat /\ it.at > Len(buf)
      BY <1>6, <2>2 DEF StartBlocks, Reading, Inv
    <3> QED BY <3>1 DEF OnMessage
  <2> QED BY <1>2, <1>5, <2>1, <2>2, <2>3
<1>7. CASE ExtendBlocks
  <2>1. Blocks'
    BY <1>7, ExtendBlocksInv
  <2>2. vars' = vars /\ from' = from /\ it' = it /\ pcs' = pcs /\ phase = "bbs" /\ phase' = "bbs"
    BY <1>7 DEF ExtendBlocks
  <2>3. ~OnMessage
    BY <2>2 DEF OnMessage
  <2> QED BY <1>2, <1>5, <2>1, <2>2, <2>3
<1>8. CASE FinishBlocks
  <2>1. Blocks'
    BY <1>8, FinishBlocksInv
  <2>2. vars' = vars /\ from' = from /\ it' = it /\ pcs' = pcs /\ phase = "bbs" /\ phase' = "done"
    BY <1>8 DEF FinishBlocks
  <2>3. ~OnMessage
    BY <2>2 DEF OnMessage
  <2> QED BY <1>2, <1>5, <2>1, <2>2, <2>3
<1>9. CASE FrontFails
  <2>1. vars' = vars /\ phase' = "failed"
    BY <1>9 DEF FrontFails
  <2> QED BY <1>2, <2>1 DEF Reading, Blocks, BlocksCoverTrace
<1>10. CASE UNCHANGED allVars
  <2>1. /\ vars' = vars /\ phase' = phase /\ from' = from /\ it' = it /\ pcs' = pcs /\ acc' = acc
        /\ taken' = taken
    BY <1>10 DEF allVars, readerVars
  <2>2. buf' = buf /\ logged' = logged /\ failed' = failed
    BY <2>1 DEF vars
  <2>3. Reading'
    <3>1. /\ OnMessage' = OnMessage /\ AtMessage' = AtMessage /\ \A k : Expected(k)' = Expected(k)
      BY <2>1, <2>2 DEF OnMessage, AtMessage, Expected, Standing, Origin, Since, Shows
    <3> QED BY <2>1, <2>2, <3>1 DEF Reading
  <2>4. Blocks'
    BY <2>1 DEF Blocks, BlocksSoFar, BlocksCoverTrace
  <2> QED BY <1>2, <2>1, <2>3, <2>4
<1> QED BY <1>1, <1>3, <1>4, <1>6, <1>7, <1>8, <1>9, <1>10 DEF ReaderNext

LEMMA ReaderInvariance == ReaderSpec => []ReaderInv
<1>1. ReaderInit => ReaderInv
  <2> SUFFICES ASSUME ReaderInit PROVE ReaderInv
    OBVIOUS
  <2>1. Inv
    BY InitInv DEF ReaderInit
  <2>2. SyncedFront
    BY InitFront DEF ReaderInit
  <2>3. phase = "log" /\ pcs = <<>>
    BY DEF ReaderInit
  <2> QED BY <2>1, <2>2, <2>3 DEF ReaderInv, Reading, Blocks, BlocksCoverTrace
<1> QED BY <1>1, ReaderStep, PTL DEF ReaderSpec

\* extract_pcs_from_trace returns the program counters that log() was given, in order and
\* whole, from the front of any log or from any sync frame in it: pcs_begin, operator++
\* over sync frames, pc_branched and the end of the loop fit what write_log_msg wrote.
THEOREM PcsRead == ReaderSpec => []PcsReadBack
<1>1. ReaderInv => PcsReadBack
  <2> SUFFICES ASSUME Inv, Reading, phase \notin {"log", "failed"}
               PROVE  LET n == buf[from].n
                          all == <<Prior(n + 1).pc>> \o SubSeq(LoggedPcs, n + 1, Len(logged))
                      IN pcs = IF OnMessage THEN SubSeq(all, 1, Len(pcs)) ELSE all
    BY DEF ReaderInv, PcsReadBack
  <2> DEFINE n == buf[from].n
             rest == SubSeq(LoggedPcs, n + 1, Len(logged))
             first == Prior(n + 1).pc
             all == <<first>> \o rest
  <2>1. /\ n \in Nat /\ n <= Len(logged) /\ Len(logged) \in Nat /\ logged \in Seq(Context)
        /\ Origin \in Context
    BY FrameFacts
  <2>2. pcs \in Seq(Nat) /\ \A k \in DOMAIN pcs : pcs[k] = Expected(k)
    BY DEF Reading
  <2>3. first = Origin.pc /\ first \in Nat
    <3>1. Prior(n + 1) = Origin
      BY DEF Prior, Origin, PriorIn
    <3> QED BY <2>1, <3>1, ConstantsAssumption DEF Context
  <2>4. LoggedPcs \in Seq(Nat) /\ Len(LoggedPcs) = Len(logged)
    <3>1. DOMAIN logged = 1 .. Len(logged) /\ \A k \in DOMAIN logged : logged[k].pc \in Nat
      <4>1. \A c \in Context : c.pc \in Nat
        BY ConstantsAssumption DEF Context
      <4>2. \A k \in DOMAIN logged : logged[k] \in Context
        BY <2>1
      <4> QED BY <2>1, <4>1, <4>2
    <3> QED BY <2>1, <3>1 DEF LoggedPcs
  <2> HIDE DEF n
  <2>5. /\ rest \in Seq(Nat) /\ Len(rest) = Len(logged) - n
        /\ \A k \in 1 .. Len(logged) - n : rest[k] = LoggedPcs[n + k]
    BY <2>1, <2>4
  <2> HIDE DEF rest, first
  <2>6. /\ all \in Seq(Nat) /\ Len(all) = Len(logged) - n + 1 /\ all[1] = first
        /\ \A k \in 2 .. Len(logged) - n + 1 : all[k] = rest[k - 1]
    BY <2>1, <2>3, <2>5
  <2>7. \A k \in 1 .. Len(all) : all[k] = Expected(k)
    <3> SUFFICES ASSUME NEW k \in 1 .. Len(all) PROVE all[k] = Expected(k)
      OBVIOUS
    <3>1. CASE k = 1
      BY <2>3, <2>6, <3>1 DEF Expected
    <3>2. CASE k # 1
      <4>1. k - 1 \in 1 .. Len(logged) - n /\ k \in 2 .. Len(logged) - n + 1
        BY <2>1, <2>6, <3>2
      <4>2. n + (k - 1) = n + k - 1 /\ n + k - 1 \in DOMAIN logged
        BY <2>1, <4>1
      <4>3. all[k] = LoggedPcs[n + k - 1]
        BY <2>5, <2>6, <4>1, <4>2
      <4> QED BY <3>2, <4>2, <4>3 DEF LoggedPcs, Expected, n
    <3> QED BY <3>1, <3>2
  <2> HIDE DEF all
  <2>8. CASE OnMessage
    <3>1. Len(pcs) <= Len(all)
      <4>1. AtMessage /\ Len(pcs) \in Nat
        BY <2>2, <2>8 DEF Reading
      <4>2. OrdinaryIn(buf, it.at) <= Len(logged) /\ OrdinaryIn(buf, it.at) \in Nat
        <5>1. CASE Advance(it.at) <= Len(buf)
          <6>1. /\ OrdinaryIn(buf, it.at) \in Nat
                /\ OrdinaryIn(buf, it.at) + 1 \in DOMAIN logged
            BY <2>8, <5>1, Onward
          <6> QED BY <2>1, <6>1
        <5>2. CASE ~(Advance(it.at) <= Len(buf))
          BY <2>1, <2>8, <5>2, AtEnd
        <5> QED BY <5>1, <5>2
      <4> QED BY <2>1, <2>6, <4>1, <4>2 DEF AtMessage, n
    <3>2. SubSeq(all, 1, Len(pcs)) = pcs
      <4>1. \A k \in 1 .. Len(pcs) : pcs[k] = all[k]
        BY <2>2, <2>6, <2>7, <3>1
      <4> QED BY <2>2, <2>6, <3>1, <4>1
    <3> QED BY <2>8, <3>2 DEF all, rest, first, n
  <2>9. CASE ~OnMessage
    <3>1. Len(pcs) = Len(all)
      BY <2>6, <2>9 DEF Reading, n
    <3>2. \A k \in 1 .. Len(pcs) : pcs[k] = all[k]
      BY <2>2, <2>7, <3>1
    <3>3. pcs = all
      BY <2>2, <2>6, <3>1, <3>2
    <3> QED BY <2>9, <3>3 DEF all, rest, first, n
  <2> QED BY <2>8, <2>9
<1> QED BY <1>1, ReaderInvariance, PTL

\* On every message a ctx_iterator comes to, update() has given the registers that changed
\* since the start their values at the logged instruction, and no other: these and nzcv
\* stay what its constructor copied from the stack.
THEOREM RegistersRead == ReaderSpec => []RegistersReadBack
<1>1. ReaderInv => RegistersReadBack
  <2> SUFFICES ASSUME Inv, Reading, OnMessage PROVE RegistersReadBack
    BY DEF ReaderInv, RegistersReadBack
  <2> DEFINE now == logged[Ordinary(it.at)]
  <2>1. Shows(it.ctx, it.at)
    BY DEF Reading, AtMessage, OnMessage
  <2>2. Visited = Since(it.at) /\ \A k : PriorIn(logged, k) = Prior(k)
    BY DEF Visited, Since, Ordinary, OrdinaryIn, Prior, PriorIn
  <2>3. it.at # from => Standing(it.at) = now
    BY DEF Standing, Ordinary, OrdinaryIn
  <2>4. it.at = from => Since(it.at) = {}
    <3>1. buf[from].n \in Nat /\ buf[from].n = OrdinaryIn(buf, from)
      <4>1. phase \notin {"log", "failed"}
        BY DEF OnMessage
      <4> QED BY <4>1, FrameFacts
    <3> QED BY <3>1 DEF Since
  <2> HIDE DEF now
  <2>5. CASE it.at = from
    BY <2>1, <2>2, <2>4, <2>5 DEF RegistersReadBack, Shows
  <2>6. CASE it.at # from
    BY <2>1, <2>2, <2>3, <2>6 DEF RegistersReadBack, Shows, now
  <2> QED BY <2>5, <2>6
<1> QED BY <1>1, ReaderInvariance, PTL

\* The blocks extract_bbs_from_pc_trace makes of what was read cover exactly the addresses
\* executed, but for a last instruction that is a block of its own.
THEOREM BlocksCover == ReaderSpec => []BlocksCoverTrace
<1>1. ReaderInv => BlocksCoverTrace
  BY DEF ReaderInv, Blocks
<1> QED BY <1>1, ReaderInvariance, PTL
=============================================================================
