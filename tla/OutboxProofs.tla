---------------------------- MODULE OutboxProofs ----------------------------
(***************************************************************************)
(* Proof that the outbox removes items by age exactly when they are too    *)
(* old, for every width of int and every clock that does not jump.         *)
(***************************************************************************)
EXTENDS OutboxCalls, OutboxFacts

-----------------------------------------------------------------------------
(* The conversion of a time to int.                                        *)

LEMMA HalfWord ==
    Word \in Nat /\ Word \div 2 \in Nat /\ Word = 2 * (Word \div 2) /\ Word >= 2
BY OutboxAssumption

LEMMA Residue ==
    ASSUME NEW a \in Int, NEW w \in Nat, w > 0
    PROVE  a % w \in 0 .. w - 1 /\ \E k \in Int : a = k * w + (a % w)
<1>1. a % w \in 0 .. w - 1
  OBVIOUS
<1>2. a \div w \in Int /\ a = (a \div w) * w + (a % w)
  OBVIOUS
<1> QED BY <1>1, <1>2

LEMMA OneResidue ==
    ASSUME NEW w \in Nat, w > 0, NEW x \in Int, NEW y \in Int, NEW k \in Int,
           x - y = k * w, x - y < w, y - x < w
    PROVE  x = y
<1>1. k >= 1 => k * w >= w
  OBVIOUS
<1>2. k <= -1 => k * w <= -w
  OBVIOUS
<1>3. k = 0
  BY <1>1, <1>2
<1> QED BY <1>3

(* The value is that of the number up to a multiple of Word.               *)
LEMMA ToIntValue ==
    ASSUME NEW t \in Int
    PROVE  ToInt(t) \in Ints /\ \E k \in Int : t = k * Word + ToInt(t)
<1> DEFINE H == Word \div 2
           r == (t + H) % Word
<1>1. H \in Nat /\ Word \in Nat /\ Word = 2 * H /\ Word > 0
  BY HalfWord
<1>2. r \in 0 .. Word - 1 /\ \E k \in Int : t + H = k * Word + r
  <2>1. t + H \in Int
    BY <1>1
  <2> HIDE DEF H
  <2> QED BY <1>1, <2>1, Residue
<1>3. PICK k \in Int : t + H = k * Word + r
  BY <1>2
<1>4. k * Word \in Int
  BY <1>1
<1>5. ToInt(t) = r - H
  BY DEF ToInt
<1>6. Ints = -H .. H - 1
  BY DEF Ints
<1> HIDE DEF H, r
<1>7. t = k * Word + ToInt(t)
  BY <1>1, <1>2, <1>3, <1>4, <1>5
<1> QED BY <1>1, <1>2, <1>5, <1>6, <1>7

(* The difference of two times, taken from their low bits, is right as     *)
(* long as it fits an int.                                                 *)
LEMMA AgeIsExact ==
    ASSUME NEW t \in Nat, NEW b \in Nat, b <= t, t - b < Word \div 2
    PROVE  ToInt(ToInt(t) - ToInt(b)) = t - b
<1> DEFINE x == ToInt(ToInt(t) - ToInt(b))
<1>1. PICK i \in Int : t = i * Word + ToInt(t)
  BY ToIntValue
<1>2. PICK j \in Int : b = j * Word + ToInt(b)
  BY ToIntValue
<1>3. ToInt(t) \in Int /\ ToInt(b) \in Int /\ Word \in Nat /\ Word > 0
  BY ToIntValue, HalfWord DEF Ints
<1>4. x \in Ints /\ \E k \in Int : ToInt(t) - ToInt(b) = k * Word + x
  <2> DEFINE d == ToInt(t) - ToInt(b)
  <2>1. d \in Int
    BY <1>3
  <2> HIDE DEF d
  <2>2. ToInt(d) \in Ints /\ \E k \in Int : d = k * Word + ToInt(d)
    BY <2>1, ToIntValue
  <2> QED BY <2>2 DEF d
<1>5. PICK k \in Int : ToInt(t) - ToInt(b) = k * Word + x
  BY <1>4
<1>6. x \in Int /\ x < Word \div 2 /\ x >= -(Word \div 2)
  BY <1>4, HalfWord DEF Ints
<1> HIDE DEF x
<1>7. (t - b) - x = (i - j + k) * Word
  <2>1. t - b = (i * Word - j * Word) + (k * Word + x)
    BY <1>1, <1>2, <1>3, <1>5
  <2>2. (i - j + k) * Word = i * Word - j * Word + k * Word
    BY <1>3
  <2>3. i * Word \in Int /\ j * Word \in Int /\ k * Word \in Int
    BY <1>3
  <2> QED BY <1>6, <2>1, <2>2, <2>3
<1>8. (t - b) - x < Word /\ x - (t - b) < Word
  BY <1>6, HalfWord
<1>9. i - j + k \in Int /\ t - b \in Int
  OBVIOUS
<1>10. x = t - b
  BY <1>3, <1>6, <1>7, <1>8, <1>9, OneResidue
<1> QED BY <1>10 DEF x
-----------------------------------------------------------------------------
(* An item knows when it was enqueued, and has not been in the list for    *)
(* longer than the timeout and the time since the list was last looked at. *)
Dated(item) == /\ item.tick = ToInt(item.birth)
               /\ item.birth <= now /\ last <= item.birth + Timeout

AgeInv == /\ last <= now /\ now <= last + Period
          /\ \A i \in DOMAIN box : Dated(box[i])

IInv == TypeOK /\ AgeInv

(* The items to keep are those really young enough.                        *)
LEMMA YoungItems ==
    ASSUME IInv
    PROVE  {i \in DOMAIN box : ToInt(ToInt(now) - box[i].tick) <= Timeout} =
             {i \in DOMAIN box : now - box[i].birth <= Timeout}
<1> SUFFICES ASSUME NEW i \in DOMAIN box
             PROVE  ToInt(ToInt(now) - box[i].tick) = now - box[i].birth
  OBVIOUS
<1>1. box[i] \in Items /\ now \in Nat /\ last \in Nat
  BY ElementOfSeq, LenProperties DEF IInv, TypeOK
<1>2. box[i].birth \in Nat
  BY <1>1 DEF Items
<1>3. box[i].tick = ToInt(box[i].birth) /\ box[i].birth <= now
  BY DEF IInv, AgeInv, Dated
<1>4. now - box[i].birth < Word \div 2
  <2>1. now <= last + Period /\ last <= box[i].birth + Timeout
    BY DEF IInv, AgeInv, Dated
  <2> QED BY <1>1, <1>2, <2>1, PeriodAssumption, OutboxAssumption, HalfWord
<1> QED BY <1>1, <1>2, <1>3, <1>4, AgeIsExact

(* A list of items of the old one is well dated at the same time.          *)
LEMMA PickedInv ==
    ASSUME IInv, NEW I, Picks(box', box, I), I \subseteq DOMAIN box,
           box' \in Seq(Items), UNCHANGED <<now, last>>
    PROVE  IInv'
<1>1. \A j \in DOMAIN box' : \E i \in DOMAIN box : box'[j] = box[i]
  BY PicksItems
<1> QED BY <1>1 DEF IInv, TypeOK, AgeInv, Dated

LEMMA OutboxInit == Init => IInv
BY PeriodAssumption DEF Init, outbox_init, IInv, TypeOK, AgeInv

LEMMA OutboxStep == IInv /\ [Next]_vars => IInv'
<1> SUFFICES ASSUME IInv, [Next]_vars PROVE IInv'
  OBVIOUS
<1>1. box \in Seq(Items) /\ now \in Nat /\ last \in Nat
  BY DEF IInv, TypeOK
<1>2. CASE Enqueue
  <2>1. PICK id \in Ids, type \in Types :
          Change(outbox_enqueue(box, [id |-> id, type |-> type, len |-> Length(type),
                                      tick |-> ToInt(now), pending |-> FALSE, birth |-> now]))
    BY <1>2 DEF Enqueue
  <2> DEFINE item == [id |-> id, type |-> type, len |-> Length(type), tick |-> ToInt(now),
                      pending |-> FALSE, birth |-> now]
  <2>2. item \in Items
    BY <1>1, LengthAssumption, ToIntValue DEF Items
  <2>3. /\ box' = Append(box, item) /\ UNCHANGED <<now, last>>
    BY <2>1 DEF Change, outbox_enqueue
  <2>4. Dated(item)
    BY <1>1, OutboxAssumption DEF Dated, IInv, AgeInv
  <2> HIDE DEF item
  <2>5. /\ box' \in Seq(Items) /\ DOMAIN box = 1 .. Len(box) /\ DOMAIN box' = 1 .. Len(box) + 1
        /\ box'[Len(box) + 1] = item /\ \A i \in 1 .. Len(box) : box'[i] = box[i]
    BY <1>1, <2>2, <2>3, AppendProperties, LenProperties
  <2>6. \A i \in DOMAIN box' : i = Len(box) + 1 \/ i \in DOMAIN box
    BY <1>1, <2>5, LenProperties
  <2> QED BY <2>3, <2>4, <2>5, <2>6 DEF IInv, TypeOK, AgeInv, Dated
<1>3. CASE Delete
  <2>1. PICK id, type : box' = outbox_delete(box, id, type) /\ UNCHANGED <<now, last>>
    BY <1>3 DEF Delete, Change
  <2> QED BY <1>1, <2>1, DeletePicks, PickedInv
<1>4. CASE DeleteMsgId \/ DeleteMsgType
  <2>1. UNCHANGED <<now, last>> /\ \E keep : box' = Kept(box, keep)
    BY <1>4 DEF DeleteMsgId, DeleteMsgType, Change, outbox_delete_msgid, outbox_delete_msgtype
  <2>2. PICK keep : box' = Kept(box, keep)
    BY <2>1
  <2>3. box' \in Seq(Items) /\ Picks(box', box, keep \cap DOMAIN box)
    BY <1>1, <2>2, KeptType, KeptPicks
  <2>4. keep \cap DOMAIN box \subseteq DOMAIN box
    OBVIOUS
  <2> QED BY <2>1, <2>3, <2>4, PickedInv
<1>5. CASE SetPending
  <2>1. PICK id \in Ids : box' = outbox_set_pending(box, id) /\ UNCHANGED <<now, last>>
    BY <1>5 DEF SetPending, Change
  <2>2. \E i : box' \in {box, [box EXCEPT ![i].pending = TRUE]}
    BY <2>1 DEF outbox_set_pending
  <2>3. PICK i : box' = box \/ box' = [box EXCEPT ![i].pending = TRUE]
    BY <2>2
  <2>4. DOMAIN box' = DOMAIN box
    BY <2>3
  <2>5. \A j \in DOMAIN box : box'[j] = box[j] \/ box'[j] = [box[j] EXCEPT !.pending = TRUE]
    BY <2>3
  <2>6. \A j \in DOMAIN box : box[j] \in Items
    BY <1>1, ElementOfSeq, LenProperties
  <2>7. \A j \in DOMAIN box : /\ box'[j] \in Items /\ box'[j].tick = box[j].tick
                              /\ box'[j].birth = box[j].birth
    BY <2>5, <2>6 DEF Items
  <2>8. box' \in Seq(Items)
    <3>1. CASE box' = box
      BY <1>1, <3>1
    <3>2. CASE box' = [box EXCEPT ![i].pending = TRUE]
      <4>1. Len(box) \in Nat /\ DOMAIN box = 1 .. Len(box)
        BY <1>1, LenProperties
      <4>2. box' = [j \in 1 .. Len(box) |-> box'[j]]
        BY <3>2, <4>1
      <4>3. box' \in [1 .. Len(box) -> Items]
        BY <2>7, <4>1, <4>2
      <4> QED BY <4>1, <4>3, SeqDef
    <3> QED BY <2>3, <3>1, <3>2
  <2> QED BY <2>1, <2>4, <2>7, <2>8 DEF IInv, TypeOK, AgeInv, Dated
<1>6. CASE DeleteExpired
  <2>1. /\ box' = outbox_delete_expired(box, now) /\ now' = now /\ last' = now
    BY <1>6 DEF DeleteExpired
  <2>2. /\ box' \in Seq(Items)
        /\ Picks(box', box, {i \in DOMAIN box : ToInt(ToInt(now) - box[i].tick) <= Timeout})
    BY <1>1, <2>1, ExpiredPicks
  <2>3. Picks(box', box, {i \in DOMAIN box : now - box[i].birth <= Timeout})
    BY <2>2, YoungItems
  <2>4. \A j \in DOMAIN box' : \E i \in DOMAIN box : /\ box'[j] = box[i] /\ Dated(box[i])
                                                     /\ now - box[i].birth <= Timeout
    BY <2>3, PicksItems DEF IInv, AgeInv
  <2>5. \A j \in DOMAIN box' : Dated(box[j])' /\ box'[j].birth <= now
    <3> SUFFICES ASSUME NEW j \in DOMAIN box'
                 PROVE  Dated(box[j])' /\ box'[j].birth <= now
      OBVIOUS
    <3>1. PICK i \in DOMAIN box : /\ box'[j] = box[i] /\ Dated(box[i])
                                  /\ now - box[i].birth <= Timeout
      BY <2>4
    <3>2. box[i].birth \in Nat
      <4>1. box[i] \in Items
        BY <1>1, ElementOfSeq, LenProperties
      <4> QED BY <4>1 DEF Items
    <3> QED BY <1>1, <2>1, <3>1, <3>2, OutboxAssumption DEF Dated
  <2> QED BY <1>1, <2>1, <2>2, <2>5, PeriodAssumption DEF IInv, TypeOK, AgeInv
<1>7. CASE Cleanup \/ Destroy
  <2>1. UNCHANGED <<now, last>> /\ \E max : box' = outbox_cleanup(box, max)
    BY <1>7 DEF Cleanup, Destroy, outbox_destroy
  <2>2. PICK max : box' = outbox_cleanup(box, max)
    BY <2>1
  <2>3. box' \in Seq(Items) /\ Picks(box', box, DOMAIN box)
    BY <1>1, <2>2, CleanupPicks
  <2> QED BY <2>1, <2>3, PickedInv
<1>8. CASE Create
  <2>1. box' = <<>> /\ now' = now /\ last' = now
    BY <1>8 DEF Create, outbox_init
  <2> QED BY <1>1, <2>1, PeriodAssumption DEF IInv, TypeOK, AgeInv
<1>9. CASE ClockTick
  <2>1. now - last < Period /\ now' = now + 1 /\ UNCHANGED <<box, last>>
    BY <1>9 DEF ClockTick
  <2>2. \A i \in DOMAIN box : box[i].birth \in Nat
    <3>1. \A i \in DOMAIN box : box[i] \in Items
      BY <1>1, ElementOfSeq, LenProperties
    <3> QED BY <3>1 DEF Items
  <2> QED BY <1>1, <2>1, <2>2, PeriodAssumption DEF IInv, TypeOK, AgeInv, Dated
<1>10. CASE UNCHANGED vars
  BY <1>10 DEF vars, IInv, TypeOK, AgeInv, Dated
<1> QED BY <1>2, <1>3, <1>4, <1>5, <1>6, <1>7, <1>8, <1>9, <1>10 DEF Next
-----------------------------------------------------------------------------
(* The size of a list, item by item.                                       *)
SizeTable(b, g, m) == g = [n \in 0 .. m |-> IF n = 0 THEN 0 ELSE g[n - 1] + b[n].len]

LEMMA SizeTables ==
    ASSUME NEW b, NEW m \in Nat
    PROVE  \E g : SizeTable(b, g, m)
<1> DEFINE T == {k \in Nat : \E g : SizeTable(b, g, k)}
<1>1. 0 \in T
  <2> DEFINE g == [n \in 0 .. 0 |-> 0]
  <2>1. SizeTable(b, g, 0)
    BY DEF SizeTable
  <2> QED BY <2>1
<1>2. ASSUME NEW k \in T PROVE k + 1 \in T
  <2>1. PICK g : SizeTable(b, g, k)
    OBVIOUS
  <2> DEFINE h == [n \in 0 .. k + 1 |-> IF n = k + 1 THEN g[k] + b[k + 1].len ELSE g[n]]
             r == [n \in 0 .. k + 1 |-> IF n = 0 THEN 0 ELSE h[n - 1] + b[n].len]
  <2>2. \A n \in 0 .. k : h[n] = g[n] /\ g[n] = IF n = 0 THEN 0 ELSE g[n - 1] + b[n].len
    BY <2>1 DEF SizeTable
  <2>3. \A n \in 0 .. k + 1 : h[n] = IF n = 0 THEN 0 ELSE h[n - 1] + b[n].len
    <3> TAKE n \in 0 .. k + 1
    <3>1. n = 0 \/ n - 1 \in 0 .. k
      OBVIOUS
    <3>2. /\ h[k + 1] = g[k] + b[k + 1].len
          /\ k + 1 # 0 /\ (k + 1) - 1 = k /\ k \in 0 .. k
      OBVIOUS
    <3>3. n = k + 1 \/ n \in 0 .. k
      OBVIOUS
    <3> HIDE DEF h
    <3> QED BY <2>2, <3>1, <3>2, <3>3
  <2>4. h = r
    <3>1. \A n \in 0 .. k + 1 : h[n] = r[n]
      BY <2>3
    <3>2. h = [n \in 0 .. k + 1 |-> h[n]] /\ r = [n \in 0 .. k + 1 |-> r[n]]
      OBVIOUS
    <3> HIDE DEF h, r
    <3> QED BY <3>1, <3>2
  <2>5. SizeTable(b, h, k + 1)
    BY <2>4 DEF SizeTable
  <2> QED BY <2>5
<1>3. T = Nat
  <2> HIDE DEF T
  <2>1. T \in SUBSET Nat
    BY DEF T
  <2> QED BY <1>1, <1>2, <2>1, SetInduction
<1> QED BY <1>3

LEMMA SizeUnfolds ==
    ASSUME NEW b, Len(b) \in Nat
    PROVE  \E g : SizeTable(b, g, Len(b)) /\ outbox_get_size(b) = g[Len(b)]
<1> DEFINE g == CHOOSE f : SizeTable(b, f, Len(b))
<1>1. SizeTable(b, g, Len(b))
  BY SizeTables
<1>2. outbox_get_size(b) = g[Len(b)]
  BY DEF outbox_get_size, SizeTable
<1> QED BY <1>1, <1>2

LEMMA SizeTableType ==
    ASSUME NEW b \in Seq(Items), NEW m \in 0 .. Len(b), NEW g, SizeTable(b, g, m)
    PROVE  \A n \in 0 .. m : g[n] \in Nat
<1> DEFINE T == {k \in Nat : k <= m => g[k] \in Nat}
<1>1. 0 \in T
  BY DEF SizeTable
<1>2. ASSUME NEW k \in T PROVE k + 1 \in T
  <2> SUFFICES ASSUME k + 1 <= m PROVE g[k + 1] \in Nat
    OBVIOUS
  <2>1. g[k] \in Nat /\ k + 1 \in 0 .. m /\ k + 1 \in 1 .. Len(b) /\ (k + 1) - 1 = k /\ k + 1 # 0
    BY LenProperties
  <2>2. g[k + 1] = g[k] + b[k + 1].len
    BY <2>1 DEF SizeTable
  <2>3. b[k + 1].len \in Nat
    <3>1. b[k + 1] \in Items
      BY <2>1, ElementOfSeq
    <3> QED BY <3>1 DEF Items
  <2> QED BY <2>1, <2>2, <2>3
<1>3. T = Nat
  <2> HIDE DEF T
  <2>1. T \in SUBSET Nat
    BY DEF T
  <2> QED BY <1>1, <1>2, <2>1, SetInduction
<1> QED BY <1>3

LEMMA SizeTablesAgree ==
    ASSUME NEW b, NEW c, NEW m \in Nat, NEW n \in Nat, m <= n,
           NEW g, SizeTable(b, g, m), NEW h, SizeTable(c, h, n),
           \A i \in 1 .. m : b[i] = c[i]
    PROVE  g[m] = h[m]
<1> DEFINE T == {k \in Nat : k <= m => g[k] = h[k]}
<1>1. 0 \in T
  BY DEF SizeTable
<1>2. ASSUME NEW k \in T PROVE k + 1 \in T
  <2> SUFFICES ASSUME k + 1 <= m PROVE g[k + 1] = h[k + 1]
    OBVIOUS
  <2>1. /\ g[k] = h[k] /\ k + 1 \in 0 .. m /\ k + 1 \in 0 .. n /\ k + 1 \in 1 .. m
        /\ k + 1 # 0 /\ (k + 1) - 1 = k
    OBVIOUS
  <2>2. g[k + 1] = g[k] + b[k + 1].len /\ h[k + 1] = h[k] + c[k + 1].len
    BY <2>1 DEF SizeTable
  <2> QED BY <2>1, <2>2
<1>3. T = Nat
  <2> HIDE DEF T
  <2>1. T \in SUBSET Nat
    BY DEF T
  <2> QED BY <1>1, <1>2, <2>1, SetInduction
<1> QED BY <1>3

LEMMA SizeType == ASSUME NEW b \in Seq(Items) PROVE outbox_get_size(b) \in Nat
<1>1. Len(b) \in Nat /\ Len(b) \in 0 .. Len(b)
  BY LenProperties
<1> QED BY <1>1, SizeUnfolds, SizeTableType

LEMMA SizeEmpty == outbox_get_size(<<>>) = 0
<1>1. Len(<<>>) = 0
  BY EmptySeq
<1>2. PICK g : SizeTable(<<>>, g, 0) /\ outbox_get_size(<<>>) = g[0]
  BY <1>1, SizeUnfolds
<1> QED BY <1>2 DEF SizeTable

LEMMA SizeAppend ==
    ASSUME NEW b \in Seq(Items), NEW x \in Items
    PROVE  outbox_get_size(Append(b, x)) = outbox_get_size(b) + x.len
<1> DEFINE t == Append(b, x)
           m == Len(b)
<1>1. m \in Nat /\ Len(t) = m + 1 /\ t[m + 1] = x /\ \A i \in 1 .. m : t[i] = b[i]
  BY AppendProperties, LenProperties
<1>2. PICK g : SizeTable(b, g, m) /\ outbox_get_size(b) = g[m]
  BY <1>1, SizeUnfolds
<1>3. PICK h : SizeTable(t, h, m + 1) /\ outbox_get_size(t) = h[m + 1]
  <2> HIDE DEF t, m
  <2> QED BY <1>1, SizeUnfolds
<1>4. g[m] = h[m]
  <2>1. m <= m + 1 /\ m + 1 \in Nat /\ \A i \in 1 .. m : b[i] = t[i]
    BY <1>1
  <2> HIDE DEF t, m
  <2> QED BY <1>1, <1>2, <1>3, <2>1, SizeTablesAgree
<1>5. h[m + 1] = h[m] + t[m + 1].len
  <2>1. m + 1 \in 0 .. m + 1 /\ m + 1 # 0 /\ (m + 1) - 1 = m
    BY <1>1
  <2> HIDE DEF t, m
  <2> QED BY <1>3, <2>1 DEF SizeTable
<1> HIDE DEF t, m
<1>6. outbox_get_size(t) = outbox_get_size(b) + x.len
  BY <1>1, <1>2, <1>3, <1>4, <1>5
<1> QED BY <1>6 DEF t

Sums(b, c) == outbox_get_size(b \o c) = outbox_get_size(b) + outbox_get_size(c)

LEMMA SizeConcatAppend ==
    ASSUME NEW b \in Seq(Items), NEW c \in Seq(Items), NEW x \in Items, Sums(b, c)
    PROVE  Sums(b, Append(c, x))
<1> DEFINE w == b \o c
           o == <<x>>
<1>1. w \in Seq(Items) /\ o \in Seq(Items)
  BY ConcatProperties
<1>2. b \o Append(c, x) = Append(w, x)
  <2>1. Append(c, x) = c \o o /\ Append(w, x) = w \o o
    BY <1>1, AppendIsConcat
  <2>2. w \o o = b \o (c \o o)
    <3>1. o \in Seq(Items)
      BY <1>1
    <3> HIDE DEF o
    <3> QED BY <3>1, ConcatAssociative
  <2> QED BY <2>1, <2>2
<1>3. outbox_get_size(Append(w, x)) = outbox_get_size(w) + x.len
  <2> HIDE DEF w
  <2> QED BY <1>1, SizeAppend
<1>4. outbox_get_size(Append(c, x)) = outbox_get_size(c) + x.len
  BY SizeAppend
<1>5. outbox_get_size(b) \in Nat /\ outbox_get_size(c) \in Nat /\ x.len \in Nat
  BY SizeType DEF Items
<1>6. outbox_get_size(w) = outbox_get_size(b) + outbox_get_size(c)
  BY DEF Sums
<1> HIDE DEF w, o
<1> QED BY <1>2, <1>3, <1>4, <1>5, <1>6 DEF Sums

LEMMA SizeConcat ==
    ASSUME NEW b \in Seq(Items), NEW c \in Seq(Items)
    PROVE  Sums(b, c)
<1> DEFINE N == {n \in Nat : \A u \in Seq(Items) : Len(u) = n => Sums(b, u)}
<1>1. 0 \in N
  <2> SUFFICES ASSUME NEW u \in Seq(Items), Len(u) = 0 PROVE Sums(b, u)
    OBVIOUS
  <2>1. u = <<>>
    BY EmptySeq
  <2>2. b \o u = b
    BY <2>1, ConcatEmptySeq
  <2>3. outbox_get_size(b) \in Nat
    BY SizeType
  <2> QED BY <2>1, <2>2, <2>3, SizeEmpty DEF Sums
<1>2. ASSUME NEW n \in N PROVE n + 1 \in N
  <2> SUFFICES ASSUME NEW u \in Seq(Items), Len(u) = n + 1 PROVE Sums(b, u)
    OBVIOUS
  <2>1. PICK v \in Seq(Items), x \in Items : u = Append(v, x)
    <3>1. u # <<>>
      BY EmptySeq
    <3> QED BY <3>1, SequenceEmptyOrAppend
  <2>2. Len(v) = n
    BY <2>1, AppendProperties, LenProperties
  <2>3. Sums(b, v)
    BY <2>2
  <2> QED BY <2>1, <2>3, SizeConcatAppend
<1>3. N = Nat
  <2> HIDE DEF N
  <2>1. N \in SUBSET Nat
    BY DEF N
  <2> QED BY <1>1, <1>2, <2>1, SetInduction
<1>4. Len(c) \in N
  BY <1>3, LenProperties
<1> QED BY <1>4
-----------------------------------------------------------------------------
(* Suffixes, as the property has them.                                     *)
LEMMA ReverseValues ==
    ASSUME NEW S, NEW s \in Seq(S)
    PROVE  /\ Reverse(s) \in Seq(S) /\ Len(Reverse(s)) = Len(s)
           /\ \A j \in 1 .. Len(s) : Reverse(s)[j] = s[Len(s) - j + 1]
<1>1. Len(s) \in Nat /\ \A i \in 1 .. Len(s) : s[i] \in S
  BY LenProperties, ElementOfSeq
<1>2. \A j \in 1 .. Len(s) : Len(s) - j + 1 \in 1 .. Len(s)
  BY <1>1
<1>3. Reverse(s) = [i \in 1 .. Len(s) |-> s[(Len(s) - i) + 1]]
  BY DEF Reverse
<1>4. Reverse(s) \in [1 .. Len(s) -> S]
  BY <1>1, <1>2, <1>3
<1>5. Reverse(s) \in Seq(S) /\ Len(Reverse(s)) = Len(s)
  BY <1>1, <1>3, <1>4
<1> QED BY <1>3, <1>5

LEMMA SuffixIsSuffix ==
    ASSUME NEW S, NEW s \in Seq(S), NEW k \in 0 .. Len(s)
    PROVE  LET r == SubSeq(s, k + 1, Len(s))
           IN  IsSuffix(r, s) /\ Len(r) = Len(s) - k
<1> DEFINE r == SubSeq(s, k + 1, Len(s))
           m == Len(s) - k
           a == Reverse(r)
           b == Reverse(s)
<1>1. Len(s) \in Nat /\ k \in Nat /\ m \in Nat /\ m <= Len(s)
  BY LenProperties
<1>2. r \in Seq(S) /\ Len(r) = m /\ \A j \in 1 .. m : r[j] = s[k + j]
  BY <1>1, SuffixValues
<1>3. a \in Seq(S) /\ Len(a) = m /\ \A j \in 1 .. m : a[j] = r[m - j + 1]
  <2> HIDE DEF r, m
  <2> QED BY <1>1, <1>2, ReverseValues
<1>4. b \in Seq(S) /\ Len(b) = Len(s) /\ \A j \in 1 .. Len(s) : b[j] = s[Len(s) - j + 1]
  BY <1>1, ReverseValues
<1>5. \A j \in 1 .. m : a[j] = b[j]
  <2> TAKE j \in 1 .. m
  <2>1. m - j + 1 \in 1 .. m /\ k + (m - j + 1) = Len(s) - j + 1 /\ j \in 1 .. Len(s)
    BY <1>1
  <2> HIDE DEF a, b, r, m
  <2> QED BY <1>2, <1>3, <1>4, <2>1
<1> HIDE DEF a, b, r
<1>6. SubSeq(a, 1, Len(a)) = SubSeq(b, 1, Len(a))
  <2>1. SubSeq(a, 1, m) = [i \in 1 .. m |-> a[1 + i - 1]] /\ SubSeq(b, 1, m) = [i \in 1 .. m |-> b[1 + i - 1]]
    <3>1. m \in Nat /\ m - 1 + 1 = m
      BY <1>1
    <3> HIDE DEF m
    <3> QED BY <3>1
  <2>2. \A i \in 1 .. m : 1 + i - 1 = i
    OBVIOUS
  <2> HIDE DEF m
  <2> QED BY <1>3, <1>5, <2>1, <2>2
<1>7. IsPrefix(a, b)
  BY <1>1, <1>3, <1>4, <1>6 DEF IsPrefix
<1>8. IsSuffix(r, s)
  BY <1>7 DEF IsSuffix, a, b
<1> QED BY <1>2, <1>8 DEF r
-----------------------------------------------------------------------------
(* Making room.                                                            *)
FreeItems == {item \in Items : ~item.pending}

LEMMA FreeIsSifted ==
    ASSUME NEW b \in Seq(Items)
    PROVE  Free(b) = Sifted(b, FreeItems) /\ Free(b) \in Seq(Items)
<1>1. \A i \in DOMAIN b : b[i] \in Items
  BY LenProperties, ElementOfSeq
<1>2. {i \in DOMAIN b : ~b[i].pending} = {i \in DOMAIN b : b[i] \in FreeItems}
  BY <1>1 DEF FreeItems
<1> QED BY <1>2, SiftedType DEF Free, Sifted

(* outbox_dequeue finds the first item that is not pending.                *)
LEMMA FirstFree ==
    ASSUME NEW b \in Seq(Items)
    PROVE  \/ outbox_dequeue(b) = 0 /\ \A j \in 1 .. Len(b) : b[j].pending
           \/ /\ outbox_dequeue(b) \in 1 .. Len(b) /\ ~b[outbox_dequeue(b)].pending
              /\ \A j \in 1 .. outbox_dequeue(b) - 1 : b[j].pending
<1> DEFINE I == {i \in 1 .. Len(b) : ~b[i].pending}
<1>1. outbox_dequeue(b) = IF I # {} THEN Min(I) ELSE 0
  BY DEF outbox_dequeue, SelectInSeq
<1>2. Len(b) \in Nat /\ I \in SUBSET Nat
  BY LenProperties
<1>3. I # {} => Min(I) \in I /\ \A j \in I : Min(I) <= j
  <2> HIDE DEF I
  <2> QED BY <1>2, LeastNumber DEF Min
<1>4. CASE I = {}
  BY <1>1, <1>4
<1>5. CASE I # {}
  <2> DEFINE i == Min(I)
  <2>1. i \in 1 .. Len(b) /\ ~b[i].pending /\ outbox_dequeue(b) = i
    BY <1>1, <1>3, <1>5
  <2>2. \A j \in I : i <= j
    BY <1>3, <1>5
  <2> HIDE DEF i
  <2>3. \A j \in 1 .. i - 1 : b[j].pending
    BY <1>2, <2>1, <2>2
  <2> QED BY <2>1, <2>3
<1> QED BY <1>4, <1>5

(* A turn of the loop takes the oldest free item, if it may and can.       *)
LEMMA TurnDrops ==
    ASSUME NEW b \in Seq(Items), NEW max \in Nat
    PROVE  \/ /\ Turn(b, max) = b
              /\ outbox_get_size(b) <= max \/ Free(b) = <<>>
           \/ /\ Free(b) # <<>> /\ outbox_get_size(b) > max
              /\ Free(Turn(b, max)) = Tail(Free(b))
              /\ outbox_get_size(Turn(b, max)) + Head(Free(b)).len > max
<1> DEFINE i == outbox_dequeue(b)
<1>1. outbox_get_size(b) \in Nat
  BY SizeType
<1>2. CASE outbox_get_size(b) <= max
  BY <1>2 DEF Turn
<1>3. CASE i = 0
  <2>1. \A j \in DOMAIN b : b[j] \notin FreeItems
    BY <1>3, FirstFree, LenProperties DEF FreeItems
  <2>2. Free(b) = <<>>
    BY <2>1, FreeIsSifted, SiftedNone
  <2> QED BY <1>3, <2>2 DEF Turn
<1>4. CASE outbox_get_size(b) > max /\ i # 0
  <2> DEFINE p == SubSeq(b, 1, i - 1)
             q == SubSeq(b, i + 1, Len(b))
             x == b[i]
             a == Append(p, x)
  <2>1. i \in 1 .. Len(b) /\ ~x.pending /\ \A j \in 1 .. i - 1 : b[j].pending
    BY <1>4, FirstFree
  <2>2. /\ p \in Seq(Items) /\ q \in Seq(Items) /\ Len(p) = i - 1
        /\ \A j \in 1 .. i - 1 : p[j] = b[j]
        /\ b = a \o q
    <3> HIDE DEF i
    <3> QED BY <2>1, SplitAt
  <2>3. x \in Items /\ x.len \in Nat /\ x \in FreeItems
    <3>1. x \in Items
      <4> HIDE DEF i
      <4> QED BY <2>1, ElementOfSeq
    <3> HIDE DEF x
    <3> QED BY <2>1, <3>1 DEF Items, FreeItems
  <2>4. Turn(b, max) = p \o q
    <3>1. ~(outbox_get_size(b) <= max) /\ i # 0
      BY <1>1, <1>4
    <3>2. Turn(b, max) = RemoveAt(b, i)
      BY <3>1 DEF Turn
    <3> HIDE DEF i
    <3> QED BY <3>2 DEF RemoveAt
  <2> HIDE DEF i, p, q, x
  <2>5. a \in Seq(Items)
    BY <2>2, <2>3, AppendProperties
  <2>6. Sifted(p, FreeItems) = <<>>
    <3>1. \A j \in DOMAIN p : p[j] \notin FreeItems
      BY <2>1, <2>2, LenProperties DEF FreeItems
    <3> QED BY <2>2, <3>1, SiftedNone
  <2> DEFINE rest == Sifted(q, FreeItems)
  <2>7. rest \in Seq(Items)
    BY <2>2, SiftedType
  <2>8. Free(b) = <<x>> \o rest
    <3>1. Free(b) = Sifted(a \o q, FreeItems)
      BY <2>2, FreeIsSifted
    <3>2. Sifted(a \o q, FreeItems) = Sifted(a, FreeItems) \o rest
      <4> HIDE DEF a
      <4> QED BY <2>2, <2>5, SiftedConcat DEF SiftsApart
    <3>3. Sifted(a, FreeItems) = Append(<<>>, x)
      <4>1. Sifted(Append(p, x), FreeItems) = Append(Sifted(p, FreeItems), x)
        BY <2>2, <2>3, SiftedAppend
      <4> QED BY <2>6, <4>1
    <3>4. Append(<<>>, x) = <<x>>
      OBVIOUS
    <3> QED BY <3>1, <3>2, <3>3, <3>4
  <2>9. Free(b) # <<>> /\ Head(Free(b)) = x /\ Tail(Free(b)) = rest
    <3>1. Free(b) \in Seq(Items) /\ rest \in Seq(Items)
      BY <2>7, FreeIsSifted
    <3> HIDE DEF rest
    <3>2. Len(<<x>> \o rest) = 1 + Len(rest) /\ Len(rest) \in Nat
      BY <2>3, <3>1, LenProperties
    <3>3. /\ \A j \in 1 .. 1 + Len(rest) : (<<x>> \o rest)[j] = IF j <= 1 THEN <<x>>[j] ELSE rest[j - 1]
      BY <2>3, <3>1
    <3>4. Free(b) # <<>>
      BY <2>8, <3>2
    <3>5. Head(Free(b)) = x
      BY <2>8, <3>1, <3>2, <3>3, <3>4
    <3>6. Tail(Free(b)) \in Seq(Items) /\ Len(Tail(Free(b))) = Len(rest)
          /\ \A j \in 1 .. Len(rest) : Tail(Free(b))[j] = rest[j]
      BY <2>8, <3>1, <3>2, <3>3, <3>4, HeadTailProperties
    <3> QED BY <3>1, <3>4, <3>5, <3>6, SeqEqual
  <2>10. Free(p \o q) = rest
    <3>1. p \o q \in Seq(Items)
      BY <2>2, ConcatProperties
    <3>2. Free(p \o q) = Sifted(p \o q, FreeItems)
      BY <3>1, FreeIsSifted
    <3>3. Sifted(p \o q, FreeItems) = <<>> \o rest
      <4>1. SiftsApart(p, q, FreeItems)
        BY <2>2, SiftedConcat
      <4>2. Sifted(p \o q, FreeItems) = Sifted(p, FreeItems) \o Sifted(q, FreeItems)
        BY <4>1 DEF SiftsApart
      <4> QED BY <2>6, <4>2
    <3> QED BY <2>7, <3>2, <3>3, ConcatEmptySeq
  <2>11. outbox_get_size(p \o q) + x.len = outbox_get_size(b)
    <3>1. outbox_get_size(p \o q) = outbox_get_size(p) + outbox_get_size(q)
      BY <2>2, SizeConcat DEF Sums
    <3>2. outbox_get_size(a \o q) = outbox_get_size(a) + outbox_get_size(q)
      <4> HIDE DEF a
      <4> QED BY <2>2, <2>5, SizeConcat DEF Sums
    <3>3. outbox_get_size(a) = outbox_get_size(p) + x.len
      BY <2>2, <2>3, SizeAppend
    <3>4. outbox_get_size(p) \in Nat /\ outbox_get_size(q) \in Nat
      BY <2>2, SizeType
    <3> HIDE DEF a
    <3> QED BY <2>2, <2>3, <3>1, <3>2, <3>3, <3>4
  <2> QED BY <1>4, <2>4, <2>9, <2>10, <2>11
<1> QED BY <1>1, <1>2, <1>3, <1>4

(* b is what n turns have left of the list: the k oldest free items are    *)
(* gone, the last of them because there was too much.                      *)
Dropped(b, list, max, n, k) ==
    LET free == Free(list)
    IN  /\ k \in 0 .. Len(free)
        /\ Free(b) = SubSeq(free, k + 1, Len(free))
        /\ k = 0 => b = list
        /\ k > 0 => outbox_get_size(b) + free[k].len > max
        /\ outbox_get_size(b) <= max \/ Free(b) = <<>> \/ k = n

LEMMA DroppedStep ==
    ASSUME NEW list \in Seq(Items), NEW b \in Seq(Items), NEW max \in Nat, NEW n \in Nat,
           NEW k, Dropped(b, list, max, n, k)
    PROVE  \E j : Dropped(Turn(b, max), list, max, n + 1, j)
<1> DEFINE free == Free(list)
           r == Turn(b, max)
<1>1. free \in Seq(Items) /\ Len(free) \in Nat /\ k \in 0 .. Len(free) /\ k \in Nat
  BY FreeIsSifted, LenProperties DEF Dropped
<1>2. outbox_get_size(b) \in Nat
  BY SizeType
<1>3. CASE /\ r = b
           /\ outbox_get_size(b) <= max \/ Free(b) = <<>>
  BY <1>3 DEF Dropped
<1>4. CASE /\ Free(b) # <<>> /\ outbox_get_size(b) > max
           /\ Free(r) = Tail(Free(b))
           /\ outbox_get_size(r) + Head(Free(b)).len > max
  <2>1. Free(b) = SubSeq(free, k + 1, Len(free)) /\ k = n
    <3>1. Free(b) = SubSeq(free, k + 1, Len(free))
      BY DEF Dropped
    <3>2. outbox_get_size(b) <= max \/ Free(b) = <<>> \/ k = n
      BY DEF Dropped
    <3>3. ~(outbox_get_size(b) <= max) /\ Free(b) # <<>>
      BY <1>2, <1>4
    <3> QED BY <3>1, <3>2, <3>3
  <2>2. k + 1 <= Len(free)
    <3>1. CASE k = Len(free)
      <4>1. SubSeq(free, k + 1, Len(free)) = <<>>
        <5> HIDE DEF free
        <5> QED BY <1>1, <3>1, SubSeqEmpty
      <4> QED BY <1>4, <2>1, <4>1
    <3> HIDE DEF free
    <3> QED BY <1>1, <3>1
  <2>3. /\ Head(SubSeq(free, k + 1, Len(free))) = free[k + 1]
        /\ Tail(SubSeq(free, k + 1, Len(free))) = SubSeq(free, k + 2, Len(free))
    <3> HIDE DEF free
    <3> QED BY <1>1, <2>2, SuffixParts
  <2> HIDE DEF free, r
  <2>4. /\ k + 1 \in 0 .. Len(free) /\ (k + 1) + 1 = k + 2 /\ k + 1 # 0 /\ k + 1 = n + 1
        /\ Free(r) = SubSeq(free, k + 2, Len(free))
        /\ outbox_get_size(r) + free[k + 1].len > max
    <3>1. k + 1 \in 0 .. Len(free) /\ (k + 1) + 1 = k + 2 /\ k + 1 # 0
      BY <1>1, <2>2
    <3>2. k + 1 = n + 1
      BY <2>1
    <3>3. Free(r) = SubSeq(free, k + 2, Len(free))
      BY <1>4, <2>1, <2>3
    <3>4. outbox_get_size(r) + free[k + 1].len > max
      BY <1>4, <2>1, <2>3
    <3> QED BY <3>1, <3>2, <3>3, <3>4
  <2>5. Dropped(r, list, max, n + 1, k + 1)
    BY <2>4 DEF Dropped, free
  <2> QED BY <2>5 DEF r
<1> QED BY <1>3, <1>4, TurnDrops

LEMMA CleanupDrops ==
    ASSUME NEW list \in Seq(Items), NEW max \in Nat
    PROVE  \E k : Dropped(outbox_cleanup(list, max), list, max, Len(list), k)
<1>1. Len(list) \in Nat
  BY LenProperties
<1>2. PICK g : TurnTable(list, max, g, Len(list)) /\ outbox_cleanup(list, max) = g[Len(list)]
  BY <1>1, CleanupUnfolds
<1> DEFINE T == {n \in Nat : n <= Len(list) =>
                    g[n] \in Seq(Items) /\ \E k : Dropped(g[n], list, max, n, k)}
<1>3. 0 \in T
  <2> DEFINE free == Free(list)
  <2>1. g[0] = list
    BY <1>1, <1>2 DEF TurnTable
  <2>2. free \in Seq(Items) /\ Len(free) \in Nat
    BY FreeIsSifted, LenProperties
  <2>3. 0 \in 0 .. Len(free) /\ 0 + 1 = 1 /\ SubSeq(free, 1, Len(free)) = free
    <3> HIDE DEF free
    <3> QED BY <2>2, SubSeqFull
  <2>4. Dropped(list, list, max, 0, 0)
    BY <2>3 DEF Dropped
  <2> QED BY <2>1, <2>4
<1>4. ASSUME NEW n \in T PROVE n + 1 \in T
  <2> SUFFICES ASSUME n + 1 <= Len(list)
               PROVE  g[n + 1] \in Seq(Items) /\ \E k : Dropped(g[n + 1], list, max, n + 1, k)
    OBVIOUS
  <2>1. g[n] \in Seq(Items) /\ \E k : Dropped(g[n], list, max, n, k)
    BY <1>1
  <2>2. g[n + 1] = Turn(g[n], max)
    <3>1. n + 1 \in 0 .. Len(list) /\ n + 1 # 0 /\ (n + 1) - 1 = n
      BY <1>1
    <3> QED BY <1>2, <3>1 DEF TurnTable
  <2>3. Turn(g[n], max) \in Seq(Items)
    BY <2>1, TurnPicks
  <2> QED BY <2>1, <2>2, <2>3, DroppedStep
<1>5. T = Nat
  <2> HIDE DEF T
  <2>1. T \in SUBSET Nat
    BY DEF T
  <2> QED BY <1>3, <1>4, <2>1, SetInduction
<1>6. Len(list) \in T
  BY <1>1, <1>5
<1> QED BY <1>1, <1>2, <1>6

(* What outbox_cleanup leaves costs the oldest, and no more than needed.   *)
LEMMA CleanupIsFair ==
    ASSUME box \in Seq(Items), NEW max \in Nat, box' = outbox_cleanup(box, max)
    PROVE  DropsOldest(max)
<1> DEFINE free == Free(box)
           r == outbox_cleanup(box, max)
<1>1. PICK k : Dropped(r, box, max, Len(box), k)
  BY CleanupDrops
<1>2. r \in Seq(Items)
  BY CleanupPicks
<1>3. free \in Seq(Items) /\ Len(free) \in Nat /\ k \in 0 .. Len(free)
  BY <1>1, FreeIsSifted, LenProperties DEF Dropped
<1>4. Len(free) <= Len(box) /\ Len(box) \in Nat
  BY FreeIsSifted, SiftedLength, LenProperties
<1>5. /\ Free(r) = SubSeq(free, k + 1, Len(free))
      /\ k = 0 => r = box
      /\ k > 0 => outbox_get_size(r) + free[k].len > max
      /\ outbox_get_size(r) <= max \/ Free(r) = <<>> \/ k = Len(box)
  BY <1>1 DEF Dropped
<1> DEFINE left == SubSeq(free, k + 1, Len(free))
<1> HIDE DEF free, r
<1>6. IsSuffix(left, free) /\ Len(left) = Len(free) - k
  BY <1>3, SuffixIsSuffix
<1>7. outbox_get_size(r) <= max \/ Free(r) = <<>>
  <2>1. CASE k = Len(box)
    <3>1. k = Len(free)
      BY <1>3, <1>4, <2>1
    <3>2. SubSeq(free, k + 1, Len(free)) = <<>>
      BY <1>3, <3>1, SubSeqEmpty
    <3> QED BY <1>5, <3>2
  <2> QED BY <1>5, <2>1
<1>8. r # box => outbox_get_size(r) + free[Len(free) - Len(left)].len > max
  <2>1. r # box => k > 0
    BY <1>3, <1>5
  <2>2. Len(free) - Len(left) = k
    <3> HIDE DEF left
    <3> QED BY <1>3, <1>6
  <2> QED BY <1>5, <2>1, <2>2
<1>9. box' = r
  BY DEF r
<1>10. Free(r) = left
  BY <1>5
<1> HIDE DEF left
<1> QED BY <1>6, <1>7, <1>8, <1>9, <1>10 DEF DropsOldest, free
-----------------------------------------------------------------------------
(* The list holds items, whatever is called.                               *)
THEOREM TypeCorrect == Spec => []TypeOK
<1>1. IInv => TypeOK
  BY DEF IInv
<1> QED BY <1>1, OutboxInit, OutboxStep, PTL DEF Spec

(* outbox_delete_expired removes exactly the items older than the timeout. *)
THEOREM ExpiredExactly == Spec => ExpiryIsExact
<1>1. IInv /\ [Next]_vars =>
        [call' = "expired" =>
           box' = Kept(box, {i \in DOMAIN box : now - box[i].birth <= Timeout})]_vars
  <2> SUFFICES ASSUME IInv, Next, call' = "expired"
               PROVE  box' = Kept(box, {i \in DOMAIN box : now - box[i].birth <= Timeout})
    OBVIOUS
  <2>1. DeleteExpired
    BY DEF Next, Enqueue, Delete, DeleteMsgId, DeleteMsgType, SetPending, Cleanup, Destroy,
         Create, ClockTick, Change
  <2>2. box' = Kept(box, {i \in DOMAIN box : ToInt(ToInt(now) - box[i].tick) <= Timeout})
    BY <2>1 DEF DeleteExpired, outbox_delete_expired
  <2> QED BY <2>2, YoungItems
<1> QED BY <1>1, OutboxInit, OutboxStep, PTL DEF Spec, ExpiryIsExact

(* outbox_cleanup and outbox_destroy take the oldest messages that may be  *)
(* taken, and no more of them than they must.                              *)
THEOREM OldestAreDropped == Spec => CleanupDropsOldest
<1>1. IInv /\ [Next]_vars =>
        [/\ call' = "cleanup" => DropsOldest(MaxSize)
         /\ call' = "destroy" => DropsOldest(0)]_vars
  <2> SUFFICES ASSUME IInv, Next
               PROVE  /\ call' = "cleanup" => DropsOldest(MaxSize)
                      /\ call' = "destroy" => DropsOldest(0)
    OBVIOUS
  <2>1. box \in Seq(Items) /\ MaxSize \in Nat /\ 0 \in Nat
    BY OutboxAssumption DEF IInv, TypeOK
  <2>2. ASSUME call' = "cleanup" PROVE DropsOldest(MaxSize)
    <3>1. Cleanup
      BY <2>2 DEF Next, Enqueue, Delete, DeleteMsgId, DeleteMsgType, SetPending, DeleteExpired,
           Destroy, Create, ClockTick, Change
    <3> QED BY <2>1, <3>1, CleanupIsFair DEF Cleanup
  <2>3. ASSUME call' = "destroy" PROVE DropsOldest(0)
    <3>1. Destroy
      BY <2>3 DEF Next, Enqueue, Delete, DeleteMsgId, DeleteMsgType, SetPending, DeleteExpired,
           Cleanup, Create, ClockTick, Change
    <3> QED BY <2>1, <3>1, CleanupIsFair DEF Destroy, outbox_destroy
  <2> QED BY <2>2, <2>3
<1> QED BY <1>1, OutboxInit, OutboxStep, PTL DEF Spec, CleanupDropsOldest
=============================================================================
