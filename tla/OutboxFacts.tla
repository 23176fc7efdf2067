---------------------------- MODULE OutboxFacts -----------------------------
(***************************************************************************)
(* What the functions of the outbox leave of a list of any length: the     *)
(* items of the list itself, none of them twice.                           *)
(***************************************************************************)
EXTENDS Outbox, SequenceFacts

LEMMA MinIsMember == ASSUME NEW I \in SUBSET Nat, I # {} PROVE Min(I) \in I
BY LeastNumber DEF Min

(* outbox_get and its like return a position of the list, or 0.            *)
LEMMA DequeueType ==
    ASSUME NEW S, NEW box \in Seq(S)
    PROVE  outbox_dequeue(box) \in {0} \cup 1 .. Len(box)
<1> DEFINE I == {i \in 1 .. Len(box) : ~box[i].pending}
<1>1. outbox_dequeue(box) = IF I # {} THEN Min(I) ELSE 0
  BY DEF outbox_dequeue, SelectInSeq
<1>2. I \in SUBSET Nat
  BY LenProperties
<1>3. I # {} => Min(I) \in I
  <2> HIDE DEF I
  <2> QED BY <1>2, MinIsMember
<1> QED BY <1>1, <1>3

(* outbox_delete takes one item of that id and type, if there is one.      *)
LEMMA DeleteTakesOne ==
    ASSUME NEW S, NEW box \in Seq(S), NEW id, NEW type, HasItem(box, id, type)
    PROVE  /\ outbox_delete(box, id, type) \in Seq(S)
           /\ \E i \in DOMAIN box :
                /\ box[i].id = id /\ box[i].type = type
                /\ Picks(outbox_delete(box, id, type), box, DOMAIN box \ {i})
<1> DEFINE I == {i \in 1 .. Len(box) : box[i].id = id /\ box[i].type = type}
           i == Min(I)
<1>1. DOMAIN box = 1 .. Len(box) /\ Len(box) \in Nat
  BY LenProperties
<1>2. \E k \in 1 .. Len(box) : box[k].id = id /\ box[k].type = type
  BY <1>1 DEF HasItem
<1>3. i \in I
  <2>1. I \in SUBSET Nat /\ I # {}
    BY <1>1, <1>2
  <2> HIDE DEF I
  <2> QED BY <2>1, MinIsMember
<1>4. outbox_delete(box, id, type) = SubSeq(box, 1, i - 1) \o SubSeq(box, i + 1, Len(box))
  <2>1. outbox_delete(box, id, type) = RemoveAt(box, IF I # {} THEN Min(I) ELSE 0)
    BY <1>2 DEF outbox_delete, RemoveFirstMatch, SelectInSeq
  <2> QED BY <1>2, <2>1 DEF RemoveAt
<1>5. i \in 1 .. Len(box) /\ box[i].id = id /\ box[i].type = type
  BY <1>3
<1> HIDE DEF i, I
<1> QED BY <1>1, <1>4, <1>5, RestPicks

LEMMA DeleteNothing ==
    ASSUME NEW S, NEW box \in Seq(S), NEW id, NEW type, ~HasItem(box, id, type)
    PROVE  outbox_delete(box, id, type) = box
<1>1. DOMAIN box = 1 .. Len(box)
  BY LenProperties
<1>2. ~\E k \in 1 .. Len(box) : box[k].id = id /\ box[k].type = type
  BY <1>1 DEF HasItem
<1> QED BY <1>2 DEF outbox_delete, RemoveFirstMatch

LEMMA DeletePicks ==
    ASSUME NEW S, NEW box \in Seq(S), NEW id, NEW type
    PROVE  /\ outbox_delete(box, id, type) \in Seq(S)
           /\ Picks(outbox_delete(box, id, type), box, DOMAIN box)
<1>1. CASE HasItem(box, id, type)
  <2>1. PICK i \in DOMAIN box : Picks(outbox_delete(box, id, type), box, DOMAIN box \ {i})
    BY <1>1, DeleteTakesOne
  <2> QED BY <1>1, <2>1, DeleteTakesOne, PicksMore
<1>2. CASE ~HasItem(box, id, type)
  BY <1>2, DeleteNothing, PicksAll
<1> QED BY <1>1, <1>2

LEMMA ExpiredPicks ==
    ASSUME NEW S, NEW box \in Seq(S), NEW now
    PROVE  /\ outbox_delete_expired(box, now) \in Seq(S)
           /\ Picks(outbox_delete_expired(box, now), box,
                    {i \in DOMAIN box : ToInt(ToInt(now) - box[i].tick) <= Timeout})
<1> DEFINE keep == {i \in DOMAIN box : ToInt(ToInt(now) - box[i].tick) <= Timeout}
<1>1. keep \cap DOMAIN box = keep
  OBVIOUS
<1>2. outbox_delete_expired(box, now) = Kept(box, keep)
  BY DEF outbox_delete_expired
<1> HIDE DEF keep
<1>3. Kept(box, keep) \in Seq(S) /\ Picks(Kept(box, keep), box, keep)
  BY <1>1, KeptType, KeptPicks
<1> QED BY <1>2, <1>3 DEF keep
-----------------------------------------------------------------------------
(* One turn of the loop of outbox_cleanup, and n of them.                  *)
Turn(b, max) == LET i == outbox_dequeue(b)
                IN  IF outbox_get_size(b) <= max \/ i = 0 THEN b ELSE RemoveAt(b, i)

TurnTable(box, max, g, m) == g = [n \in 0 .. m |-> IF n = 0 THEN box ELSE Turn(g[n - 1], max)]

LEMMA TurnPicks ==
    ASSUME NEW S, NEW b \in Seq(S), NEW max
    PROVE  Turn(b, max) \in Seq(S) /\ Picks(Turn(b, max), b, DOMAIN b)
<1> DEFINE i == outbox_dequeue(b)
           r == SubSeq(b, 1, i - 1) \o SubSeq(b, i + 1, Len(b))
<1>1. Turn(b, max) = b \/ (i # 0 /\ Turn(b, max) = r)
  BY DEF Turn, RemoveAt
<1>2. i \in {0} \cup 1 .. Len(b)
  BY DequeueType
<1>3. i # 0 => r \in Seq(S) /\ Picks(r, b, DOMAIN b \ {i})
  <2> HIDE DEF i
  <2> QED BY <1>2, RestPicks
<1>4. i # 0 => Picks(r, b, DOMAIN b)
  <2> HIDE DEF i, r
  <2> QED BY <1>3, PicksMore
<1> HIDE DEF i, r
<1> QED BY <1>1, <1>3, <1>4, PicksAll

LEMMA TurnTables ==
    ASSUME NEW box, NEW max, NEW m \in Nat
    PROVE  \E g : TurnTable(box, max, g, m)
<1> DEFINE T == {k \in Nat : \E g : TurnTable(box, max, g, k)}
<1>1. 0 \in T
  <2> DEFINE g == [n \in 0 .. 0 |-> box]
  <2>1. TurnTable(box, max, g, 0)
    BY DEF TurnTable
  <2> QED BY <2>1
<1>2. ASSUME NEW k \in T PROVE k + 1 \in T
  <2>1. PICK g : TurnTable(box, max, g, k)
    OBVIOUS
  <2> DEFINE h == [n \in 0 .. k + 1 |-> IF n = k + 1 THEN Turn(g[k], max) ELSE g[n]]
             r == [n \in 0 .. k + 1 |-> IF n = 0 THEN box ELSE Turn(h[n - 1], max)]
  <2>2. \A n \in 0 .. k : h[n] = g[n] /\ g[n] = IF n = 0 THEN box ELSE Turn(g[n - 1], max)
    BY <2>1 DEF TurnTable
  <2>3. \A n \in 0 .. k + 1 : h[n] = IF n = 0 THEN box ELSE Turn(h[n - 1], max)
    <3> TAKE n \in 0 .. k + 1
    <3>1. n = 0 \/ n - 1 \in 0 .. k
      OBVIOUS
    <3>2. h[k + 1] = Turn(g[k], max) /\ k + 1 # 0 /\ (k + 1) - 1 = k /\ k \in 0 .. k
      OBVIOUS
    <3>3. n = k + 1 \/ n \in 0 .. k
      OBVIOUS
    <3> HIDE DEF h
    <3> QED BY <2>2, <3>1, <3>2, <3>3
  <2>4. h = r
    <3>1. \A n \in 0 .. k + 1 : h[n] = r[n]
      BY <2>3
    <3>2. h = [n \in 0 .. k + 1 |-> h[n]] /\ r = [n \in 0 .. k + 1 |-> r[n]]
      OBVIOUS
    <3> HIDE DEF h, r
    <3> QED BY <3>1, <3>2
  <2>5. TurnTable(box, max, h, k + 1)
    BY <2>4 DEF TurnTable
  <2> QED BY <2>5
<1>3. T = Nat
  <2> HIDE DEF T
  <2>1. T \in SUBSET Nat
    BY DEF T
  <2> QED BY <1>1, <1>2, <2>1, SetInduction
<1> QED BY <1>3

LEMMA CleanupUnfolds ==
    ASSUME NEW box, NEW max, Len(box) \in Nat
    PROVE  \E g : TurnTable(box, max, g, Len(box)) /\ outbox_cleanup(box, max) = g[Len(box)]
<1> DEFINE g == CHOOSE f : TurnTable(box, max, f, Len(box))
<1>1. TurnTable(box, max, g, Len(box))
  BY TurnTables
<1>2. outbox_cleanup(box, max) = g[Len(box)]
  BY DEF outbox_cleanup, TurnTable, Turn
<1> QED BY <1>1, <1>2

LEMMA CleanupPicks ==
    ASSUME NEW S, NEW box \in Seq(S), NEW max
    PROVE  outbox_cleanup(box, max) \in Seq(S) /\ Picks(outbox_cleanup(box, max), box, DOMAIN box)
<1>1. Len(box) \in Nat
  BY LenProperties
<1>2. PICK g : TurnTable(box, max, g, Len(box)) /\ outbox_cleanup(box, max) = g[Len(box)]
  BY <1>1, CleanupUnfolds
<1> DEFINE T == {k \in Nat : k <= Len(box) => g[k] \in Seq(S) /\ Picks(g[k], box, DOMAIN box)}
<1>3. 0 \in T
  <2>1. g[0] = box
    BY <1>1, <1>2 DEF TurnTable
  <2> QED BY <2>1, PicksAll
<1>4. ASSUME NEW k \in T PROVE k + 1 \in T
  <2> SUFFICES ASSUME k + 1 <= Len(box)
               PROVE  g[k + 1] \in Seq(S) /\ Picks(g[k + 1], box, DOMAIN box)
    OBVIOUS
  <2>1. g[k] \in Seq(S) /\ Picks(g[k], box, DOMAIN box)
    BY <1>1
  <2>2. g[k + 1] = Turn(g[k], max)
    <3>1. k + 1 \in 0 .. Len(box) /\ k + 1 # 0 /\ (k + 1) - 1 = k
      BY <1>1
    <3> QED BY <1>2, <3>1 DEF TurnTable
  <2>3. Turn(g[k], max) \in Seq(S) /\ Picks(Turn(g[k], max), g[k], DOMAIN g[k])
    BY <2>1, TurnPicks
  <2> QED BY <2>1, <2>2, <2>3, PicksThrough
<1>5. T = Nat
  <2> HIDE DEF T
  <2>1. T \in SUBSET Nat
    BY DEF T
  <2> QED BY <1>3, <1>4, <2>1, SetInduction
<1>6. Len(box) \in T
  BY <1>1, <1>5
<1> QED BY <1>1, <1>2, <1>6
=============================================================================
