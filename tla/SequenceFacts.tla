--------------------------- MODULE SequenceFacts ----------------------------
(***************************************************************************)
(* Facts about sequences that the library's theorems leave out: moving     *)
(* items between queues, sifting, removing and counting.                   *)
(***************************************************************************)
EXTENDS Sift, FiniteSets, SequenceTheorems, FiniteSetTheorems, WellFoundedInduction, TLAPS
-----------------------------------------------------------------------------
(* Two queues in a row.                                                    *)

(* A sequence is its head followed by its tail.                            *)
LEMMA HeadThenTail ==
    ASSUME NEW S, NEW s \in Seq(S), s # <<>>
    PROVE  s = <<Head(s)>> \o Tail(s)
<1>1. Len(s) \in Nat /\ Len(s) >= 1
  BY LenProperties
<1>2. SubSeq(s, 1, Len(s)) = <<s[1]>> \o SubSeq(s, 2, Len(s))
  BY <1>1, SubSeqRecursiveFirst
<1>3. SubSeq(s, 1, Len(s)) = s
  BY SubSeqFull
<1>4. Tail(s) = SubSeq(s, 2, Len(s))
  BY TailIsSubSeq
<1>5. Head(s) = s[1]
  BY HeadTailProperties
<1> QED BY <1>2, <1>3, <1>4, <1>5

(* Moving an item from the front of one queue to the end of the one before *)
(* it leaves the two together as they were.                                *)
LEMMA MoveItem ==
    ASSUME NEW S, NEW s \in Seq(S), NEW t \in Seq(S), t # <<>>
    PROVE  Append(s, Head(t)) \o Tail(t) = s \o t
<1>1. Head(t) \in S /\ Tail(t) \in Seq(S) /\ <<Head(t)>> \in Seq(S)
  BY HeadTailProperties
<1>2. Append(s, Head(t)) = s \o <<Head(t)>>
  BY <1>1, AppendIsConcat
<1>3. (s \o <<Head(t)>>) \o Tail(t) = s \o (<<Head(t)>> \o Tail(t))
  BY <1>1, ConcatAssociative
<1> QED BY <1>2, <1>3, HeadThenTail

(* What is left of s \o t once s has gone is t.                            *)
LEMMA DropFirst ==
    ASSUME NEW S, NEW s \in Seq(S), NEW t \in Seq(S)
    PROVE  SubSeq(s \o t, Len(s) + 1, Len(s \o t)) = t
<1>1. Len(s) \in Nat /\ Len(t) \in Nat /\ Len(s \o t) = Len(s) + Len(t)
  BY LenProperties, ConcatProperties
<1>2. CASE t = <<>>
  BY <1>1, <1>2, SubSeqEmpty
<1>3. CASE t # <<>>
  <2>1. Len(t) >= 1
    BY <1>1, <1>3
  <2>2. SubSeq(s \o t, Len(s) + 1, Len(s) + Len(t)) = SubSeq(t, 1, Len(t))
    BY <1>1, <2>1, SubSeqOfConcat2
  <2> QED BY <1>1, <2>2, SubSeqFull
<1> QED BY <1>2, <1>3

-----------------------------------------------------------------------------
(* Induction over a set of numbers instead of a predicate.                 *)

LEMMA LessOnNat == OpToRel(<, Nat) = {p \in Nat \X Nat : p[1] < p[2]}
BY DEF OpToRel

LEMMA LeastNumber ==
    ASSUME NEW T \in SUBSET Nat, T # {}
    PROVE  \E x \in T : \A y \in T : x <= y
<1> DEFINE R == {p \in Nat \X Nat : p[1] < p[2]}
<1>1. IsWellFoundedOn(R, Nat)
  BY NatLessThanWellFounded, LessOnNat
<1>2. PICK x \in T : \A y \in T : <<y, x>> \notin R
  <2> HIDE DEF R
  <2> QED BY <1>1, WFMin
<1>3. \A y \in T : x <= y
  <2> TAKE y \in T
  <2>1. x \in Nat /\ y \in Nat /\ ~(y < x)
    BY <1>2
  <2> QED BY <2>1
<1> QED BY <1>3

LEMMA SetInduction ==
    ASSUME NEW T \in SUBSET Nat, 0 \in T, \A n \in T : n + 1 \in T
    PROVE  T = Nat
<1> SUFFICES ASSUME Nat \ T # {} PROVE FALSE
  OBVIOUS
<1>1. PICK x \in Nat \ T : \A y \in Nat \ T : x <= y
  BY LeastNumber
<1>2. x # 0 /\ x - 1 \in Nat
  BY <1>1
<1>3. x - 1 \in T
  BY <1>1, <1>2
<1> QED BY <1>1, <1>2, <1>3
-----------------------------------------------------------------------------
(* Kept takes the positions one by one.                                    *)

KeptStep(s, keep, g, n) == IF n = 0 THEN <<>>
                           ELSE IF n \in keep THEN Append(g[n - 1], s[n])
                           ELSE g[n - 1]

KeptTable(s, keep, g, m) == g = [n \in 0 .. m |-> KeptStep(s, keep, g, n)]

LEMMA KeptTables ==
    ASSUME NEW s, NEW keep, NEW m \in Nat
    PROVE  \E g : KeptTable(s, keep, g, m)
<1> DEFINE T == {k \in Nat : \E g : KeptTable(s, keep, g, k)}
<1>1. 0 \in T
  <2> DEFINE g == [n \in 0 .. 0 |-> <<>>]
  <2>1. KeptTable(s, keep, g, 0)
    BY DEF KeptTable, KeptStep
  <2> QED BY <2>1
<1>2. ASSUME NEW k \in T PROVE k + 1 \in T
  <2>1. PICK g : KeptTable(s, keep, g, k)
    OBVIOUS
  <2> DEFINE v == KeptStep(s, keep, g, k + 1)
             h == [n \in 0 .. k + 1 |-> IF n = k + 1 THEN v ELSE g[n]]
  <2>2. \A n \in 0 .. k : h[n] = g[n] /\ h[n] = KeptStep(s, keep, g, n)
    <3> HIDE DEF v
    <3> QED BY <2>1 DEF KeptTable
  <2>3. \A n \in 0 .. k + 1 : h[n] = KeptStep(s, keep, h, n)
    <3> TAKE n \in 0 .. k + 1
    <3>1. n = 0 \/ n - 1 \in 0 .. k
      OBVIOUS
    <3>2. KeptStep(s, keep, h, n) = KeptStep(s, keep, g, n)
      <4> HIDE DEF h
      <4> QED BY <2>2, <3>1 DEF KeptStep
    <3> QED BY <2>2, <3>2
  <2>4. KeptTable(s, keep, h, k + 1)
    <3> DEFINE r == [n \in 0 .. k + 1 |-> KeptStep(s, keep, h, n)]
    <3>1. \A n \in 0 .. k + 1 : h[n] = r[n]
      BY <2>3
    <3>2. DOMAIN h = 0 .. k + 1 /\ DOMAIN r = 0 .. k + 1 
      OBVIOUS
    <3>3. h = [n \in 0 .. k + 1 |-> h[n]] /\ r = [n \in 0 .. k + 1 |-> r[n]]
      OBVIOUS
    <3>4. h = r
      <4> HIDE DEF h, r
      <4> QED BY <3>1, <3>3
    <3> QED BY <3>4 DEF KeptTable
  <2> QED BY <2>4
<1>3. T = Nat
  <2> HIDE DEF T
  <2>1. T \in SUBSET Nat
    BY DEF T
  <2> QED BY <1>1, <1>2, <2>1, SetInduction
<1> QED BY <1>3

LEMMA KeptUnfolds ==
    ASSUME NEW s, NEW keep, Len(s) \in Nat
    PROVE  \E g : KeptTable(s, keep, g, Len(s)) /\ Kept(s, keep) = g[Len(s)]
<1> DEFINE g == CHOOSE f : f = [n \in 0 .. Len(s) |-> IF n = 0 THEN <<>>
                                 ELSE IF n \in keep THEN Append(f[n - 1], s[n])
                                 ELSE f[n - 1]]
<1>1. Kept(s, keep) = g[Len(s)]
  BY DEF Kept
<1>2. KeptTable(s, keep, g, Len(s))
  <2>1. \E f : f = [n \in 0 .. Len(s) |-> IF n = 0 THEN <<>>
                                 ELSE IF n \in keep THEN Append(f[n - 1], s[n])
                                 ELSE f[n - 1]]
    <3>1. PICK f : KeptTable(s, keep, f, Len(s))
      BY KeptTables
    <3> QED BY <3>1 DEF KeptTable, KeptStep
  <2>2. g = [n \in 0 .. Len(s) |-> IF n = 0 THEN <<>>
                                 ELSE IF n \in keep THEN Append(g[n - 1], s[n])
                                 ELSE g[n - 1]]
    BY <2>1
  <2> QED BY <2>2 DEF KeptTable, KeptStep
<1> QED BY <1>1, <1>2

(* What is kept of the first n items.                                      *)
LEMMA KeptTableType ==
    ASSUME NEW S, NEW s \in Seq(S), NEW keep, NEW m \in 0 .. Len(s), NEW g,
           KeptTable(s, keep, g, m)
    PROVE  \A n \in 0 .. m : g[n] \in Seq(S)
<1> DEFINE T == {k \in Nat : k <= m => g[k] \in Seq(S)}
<1>1. 0 \in T
  BY DEF KeptTable, KeptStep
<1>2. ASSUME NEW k \in T PROVE k + 1 \in T
  <2> SUFFICES ASSUME k + 1 <= m PROVE g[k + 1] \in Seq(S)
    OBVIOUS
  <2>1. g[k] \in Seq(S) /\ k + 1 \in 0 .. m /\ k + 1 \in 1 .. Len(s)
    BY LenProperties
  <2>2. g[k + 1] \in {Append(g[k], s[k + 1]), g[k]}
    BY <2>1 DEF KeptTable, KeptStep
  <2>3. s[k + 1] \in S
    BY <2>1, ElementOfSeq
  <2>4. Append(g[k], s[k + 1]) \in Seq(S)
    BY <2>1, <2>3, AppendProperties
  <2> QED BY <2>1, <2>2, <2>4
<1>3. T = Nat
  <2> HIDE DEF T
  <2>1. T \in SUBSET Nat
    BY DEF T
  <2> QED BY <1>1, <1>2, <2>1, SetInduction
<1> QED BY <1>3

(* Two runs over the same items keep the same.                             *)
LEMMA KeptTablesAgree ==
    ASSUME NEW s, NEW t, NEW keep, NEW kept, NEW m \in Nat, NEW n \in Nat, m <= n,
           NEW g, KeptTable(s, keep, g, m), NEW h, KeptTable(t, kept, h, n),
           \A i \in 1 .. m : s[i] = t[i] /\ (i \in keep <=> i \in kept)
    PROVE  g[m] = h[m]
<1> DEFINE T == {k \in Nat : k <= m => g[k] = h[k]}
<1>1. 0 \in T
  BY DEF KeptTable, KeptStep
<1>2. ASSUME NEW k \in T PROVE k + 1 \in T
  <2> SUFFICES ASSUME k + 1 <= m PROVE g[k + 1] = h[k + 1]
    OBVIOUS
  <2>1. g[k] = h[k] /\ k + 1 \in 0 .. m /\ k + 1 \in 0 .. n /\ k + 1 \in 1 .. m
    OBVIOUS
  <2>2. g[k + 1] = KeptStep(s, keep, g, k + 1) /\ h[k + 1] = KeptStep(t, kept, h, k + 1)
    BY <2>1 DEF KeptTable
  <2>3. KeptStep(s, keep, g, k + 1) = KeptStep(t, kept, h, k + 1)
    <3>1. k + 1 # 0 /\ (k + 1) - 1 = k /\ s[k + 1] = t[k + 1] /\ (k + 1 \in keep <=> k + 1 \in kept)
      BY <2>1
    <3> QED BY <2>1, <3>1 DEF KeptStep
  <2> QED BY <2>2, <2>3
<1>3. T = Nat
  <2> HIDE DEF T
  <2>1. T \in SUBSET Nat
    BY DEF T
  <2> QED BY <1>1, <1>2, <2>1, SetInduction
<1> QED BY <1>3

LEMMA KeptType ==
    ASSUME NEW S, NEW s \in Seq(S), NEW keep
    PROVE  Kept(s, keep) \in Seq(S)
<1>1. Len(s) \in Nat /\ Len(s) \in 0 .. Len(s)
  BY LenProperties
<1> QED BY <1>1, KeptUnfolds, KeptTableType

LEMMA SiftedType ==
    ASSUME NEW T, NEW s \in Seq(T), NEW S
    PROVE  Sifted(s, S) \in Seq(T)
BY KeptType DEF Sifted

LEMMA SiftedEmpty == ASSUME NEW S PROVE Sifted(<<>>, S) = <<>>
<1>1. Len(<<>>) = 0
  BY EmptySeq
<1>2. PICK g : /\ KeptTable(<<>>, {i \in DOMAIN <<>> : <<>>[i] \in S}, g, 0)
               /\ Sifted(<<>>, S) = g[0]
  BY <1>1, KeptUnfolds DEF Sifted
<1> QED BY <1>2 DEF KeptTable, KeptStep

(* A new item at the end is sifted last.                                   *)
LEMMA SiftedAppend ==
    ASSUME NEW T, NEW s \in Seq(T), NEW x \in T, NEW S
    PROVE  Sifted(Append(s, x), S) = IF x \in S THEN Append(Sifted(s, S), x) ELSE Sifted(s, S)
<1> DEFINE t == Append(s, x)
           I == {i \in DOMAIN s : s[i] \in S}
           J == {i \in DOMAIN t : t[i] \in S}
           m == Len(s)
<1>1. /\ m \in Nat /\ Len(t) = m + 1 /\ DOMAIN s = 1 .. m /\ DOMAIN t = 1 .. m + 1
      /\ t[m + 1] = x /\ \A i \in 1 .. m : t[i] = s[i]
  BY AppendProperties, LenProperties
<1>2. PICK g : KeptTable(s, I, g, m) /\ Sifted(s, S) = g[m]
  BY <1>1, KeptUnfolds DEF Sifted
<1>3. PICK h : KeptTable(t, J, h, m + 1) /\ Sifted(t, S) = h[m + 1]
  <2>1. Len(t) \in Nat
    BY <1>1
  <2>2. PICK h : KeptTable(t, J, h, Len(t)) /\ Kept(t, J) = h[Len(t)]
    <3> HIDE DEF t, J
    <3> QED BY <2>1, KeptUnfolds
  <2> QED BY <1>1, <2>2 DEF Sifted
<1>4. g[m] = h[m]
  <2>1. \A i \in 1 .. m : s[i] = t[i] /\ (i \in I <=> i \in J)
    BY <1>1
  <2>2. m <= m + 1 /\ m + 1 \in Nat
    BY <1>1
  <2> HIDE DEF t, I, J, m
  <2> QED BY <1>1, <1>2, <1>3, <2>1, <2>2, KeptTablesAgree
<1>5. m + 1 \in J <=> x \in S
  BY <1>1
<1>6. h[m + 1] = IF m + 1 \in J THEN Append(h[m], t[m + 1]) ELSE h[m]
  <2>1. m + 1 \in 0 .. m + 1 /\ m + 1 # 0 /\ (m + 1) - 1 = m
    BY <1>1
  <2> HIDE DEF t, J, m
  <2> QED BY <1>3, <2>1 DEF KeptTable, KeptStep
<1> QED BY <1>1, <1>2, <1>3, <1>4, <1>5, <1>6

SiftsApart(s, t, S) == Sifted(s \o t, S) = Sifted(s, S) \o Sifted(t, S)

LEMMA SiftedConcatAppend ==
    ASSUME NEW T, NEW s \in Seq(T), NEW v \in Seq(T), NEW x \in T, NEW S, SiftsApart(s, v, S)
    PROVE  SiftsApart(s, Append(v, x), S)
<1> DEFINE a == Sifted(s, S)
           b == Sifted(v, S)
           c == <<x>>
           w == s \o v
<1>1. a \in Seq(T) /\ b \in Seq(T) /\ c \in Seq(T) /\ w \in Seq(T)
  BY SiftedType, ConcatProperties
<1>2. s \o Append(v, x) = Append(w, x)
  <2>1. Append(v, x) = v \o c /\ Append(w, x) = w \o c
    BY <1>1, AppendIsConcat
  <2>2. w \o c = s \o (v \o c)
    <3>1. c \in Seq(T)
      BY <1>1
    <3> HIDE DEF a, b, c
    <3> QED BY <3>1, ConcatAssociative
  <2> QED BY <2>1, <2>2
<1>3. Sifted(Append(v, x), S) = IF x \in S THEN Append(b, x) ELSE b
  BY SiftedAppend
<1>4. Sifted(Append(w, x), S) = IF x \in S THEN Append(a \o b, x) ELSE a \o b
  <2>1. Sifted(Append(w, x), S) = IF x \in S THEN Append(Sifted(w, S), x) ELSE Sifted(w, S)
    <3> HIDE DEF w
    <3> QED BY <1>1, SiftedAppend
  <2> QED BY <2>1 DEF SiftsApart
<1>5. Append(a \o b, x) = a \o Append(b, x)
  <2>1. Append(a \o b, x) = (a \o b) \o c /\ Append(b, x) = b \o c
    <3> HIDE DEF a, b
    <3> QED BY <1>1, AppendIsConcat, ConcatProperties
  <2>2. (a \o b) \o c = a \o (b \o c)
    <3> HIDE DEF a, b, c
    <3> QED BY <1>1, ConcatAssociative
  <2> QED BY <2>1, <2>2
<1> QED BY <1>2, <1>3, <1>4, <1>5 DEF SiftsApart

(* Two queues in a row are sifted one after the other.                     *)
LEMMA SiftedConcat ==
    ASSUME NEW T, NEW s \in Seq(T), NEW t \in Seq(T), NEW S
    PROVE  SiftsApart(s, t, S)
<1> DEFINE N == {n \in Nat : \A u \in Seq(T) : Len(u) = n => SiftsApart(s, u, S)}
<1>1. 0 \in N
  <2> SUFFICES ASSUME NEW u \in Seq(T), Len(u) = 0 PROVE SiftsApart(s, u, S)
    OBVIOUS
  <2>1. u = <<>>
    BY EmptySeq
  <2>2. s \o u = s
    BY <2>1, ConcatEmptySeq
  <2>3. Sifted(s, S) \o <<>> = Sifted(s, S)
    BY SiftedType, ConcatEmptySeq
  <2> QED BY <2>1, <2>2, <2>3, SiftedEmpty DEF SiftsApart
<1>2. ASSUME NEW n \in N PROVE n + 1 \in N
  <2> SUFFICES ASSUME NEW u \in Seq(T), Len(u) = n + 1 PROVE SiftsApart(s, u, S)
    OBVIOUS
  <2>1. PICK v \in Seq(T), x \in T : u = Append(v, x)
    <3>1. u # <<>>
      BY EmptySeq
    <3> QED BY <3>1, SequenceEmptyOrAppend
  <2>2. Len(v) = n
    BY <2>1, AppendProperties, LenProperties
  <2>3. SiftsApart(s, v, S)
    BY <2>2
  <2> QED BY <2>1, <2>3, SiftedConcatAppend
<1>3. N = Nat
  <2> HIDE DEF N
  <2>1. N \in SUBSET Nat
    BY DEF N
  <2> QED BY <1>1, <1>2, <2>1, SetInduction
<1>4. Len(t) \in N
  BY <1>3, LenProperties
<1> QED BY <1>4
-----------------------------------------------------------------------------
(* What is left of s behind its first k items.                             *)
LEMMA SuffixValues ==
    ASSUME NEW S, NEW s \in Seq(S), NEW k \in 0 .. Len(s)
    PROVE  LET r == SubSeq(s, k + 1, Len(s))
           IN  r \in Seq(S) /\ Len(r) = Len(s) - k /\ \A j \in 1 .. Len(s) - k : r[j] = s[k + j]
<1>1. Len(s) \in Nat /\ k \in Nat /\ \A i \in 1 .. Len(s) : s[i] \in S
  BY LenProperties, ElementOfSeq
<1>2. \A i \in k + 1 .. Len(s) : s[i] \in S
  BY <1>1
<1> DEFINE r == SubSeq(s, k + 1, Len(s))
<1>3. /\ r \in Seq(S)
      /\ Len(r) = IF k + 1 <= Len(s) THEN Len(s) - (k + 1) + 1 ELSE 0
      /\ \A i \in 1 .. Len(s) - (k + 1) + 1 : r[i] = s[k + 1 + i - 1]
  BY <1>1, <1>2, SubSeqProperties
<1> QED BY <1>1, <1>3

LEMMA SuffixParts ==
    ASSUME NEW S, NEW s \in Seq(S), NEW k \in Nat, k + 1 <= Len(s)
    PROVE  /\ Head(SubSeq(s, k + 1, Len(s))) = s[k + 1]
           /\ Tail(SubSeq(s, k + 1, Len(s))) = SubSeq(s, k + 2, Len(s))
<1> DEFINE r == SubSeq(s, k + 1, Len(s))
           q == SubSeq(s, k + 2, Len(s))
<1>1. Len(s) \in Nat /\ k \in 0 .. Len(s) /\ k + 1 \in 0 .. Len(s) /\ (k + 1) + 1 = k + 2
  BY LenProperties
<1>2. r \in Seq(S) /\ Len(r) = Len(s) - k /\ \A j \in 1 .. Len(s) - k : r[j] = s[k + j]
  BY <1>1, SuffixValues
<1>3. /\ q \in Seq(S) /\ Len(q) = Len(s) - (k + 1)
      /\ \A j \in 1 .. Len(s) - (k + 1) : q[j] = s[(k + 1) + j]
  BY <1>1, SuffixValues
<1> HIDE DEF r, q
<1>4. r # <<>>
  BY <1>1, <1>2, EmptySeq
<1>5. Head(r) = s[k + 1]
  BY <1>1, <1>2, <1>4, HeadTailProperties
<1>6. /\ Tail(r) \in Seq(S) /\ Len(Tail(r)) = Len(s) - (k + 1)
      /\ \A j \in 1 .. Len(s) - (k + 1) : Tail(r)[j] = s[(k + 1) + j]
  <2>1. Tail(r) \in Seq(S) /\ Len(Tail(r)) = Len(r) - 1 /\ \A j \in 1 .. Len(Tail(r)) : Tail(r)[j] = r[j + 1]
    BY <1>2, <1>4, HeadTailProperties
  <2>2. \A j \in 1 .. Len(s) - (k + 1) : j + 1 \in 1 .. Len(s) - k /\ k + (j + 1) = (k + 1) + j
    BY <1>1
  <2>3. Len(r) - 1 = Len(s) - (k + 1)
    BY <1>1, <1>2
  <2> QED BY <1>2, <2>1, <2>2, <2>3
<1>7. Tail(r) = q
  BY <1>3, <1>6, SeqEqual
<1> QED BY <1>5, <1>7 DEF r, q
-----------------------------------------------------------------------------
(* r consists of items of s, each from a position of its own in I.         *)
Picks(r, s, I) == \E h \in Injection(DOMAIN r, I) : \A j \in DOMAIN r : r[j] = s[h[j]]

LEMMA PicksAll == ASSUME NEW s PROVE Picks(s, s, DOMAIN s)
<1> DEFINE h == [j \in DOMAIN s |-> j]
<1>1. h \in Injection(DOMAIN s, DOMAIN s)
  BY DEF Injection, IsInjective
<1> QED BY <1>1 DEF Picks

LEMMA PicksMore ==
    ASSUME NEW r, NEW s, NEW I, NEW J, Picks(r, s, I), I \subseteq J
    PROVE  Picks(r, s, J)
<1>1. PICK h \in Injection(DOMAIN r, I) : \A j \in DOMAIN r : r[j] = s[h[j]]
  BY DEF Picks
<1>2. h \in Injection(DOMAIN r, J)
  BY <1>1 DEF Injection, IsInjective
<1> QED BY <1>1, <1>2 DEF Picks

LEMMA PicksThrough ==
    ASSUME NEW q, NEW r, NEW s, NEW I, Picks(q, r, DOMAIN r), Picks(r, s, I)
    PROVE  Picks(q, s, I)
<1>1. PICK f \in Injection(DOMAIN q, DOMAIN r) : \A j \in DOMAIN q : q[j] = r[f[j]]
  BY DEF Picks
<1>2. PICK g \in Injection(DOMAIN r, I) : \A j \in DOMAIN r : r[j] = s[g[j]]
  BY DEF Picks
<1> DEFINE h == [j \in DOMAIN q |-> g[f[j]]]
<1>3. h \in Injection(DOMAIN q, I)
  BY <1>1, <1>2 DEF Injection, IsInjective
<1>4. \A j \in DOMAIN q : q[j] = s[h[j]]
  BY <1>1, <1>2 DEF Injection, IsInjective
<1> QED BY <1>3, <1>4 DEF Picks

LEMMA PicksItems ==
    ASSUME NEW r, NEW s, NEW I, Picks(r, s, I)
    PROVE  \A j \in DOMAIN r : \E i \in I : r[j] = s[i]
BY DEF Picks, Injection

LEMMA SuffixPicks ==
    ASSUME NEW S, NEW s \in Seq(S), NEW n \in 0 .. Len(s)
    PROVE  Picks(SubSeq(s, n + 1, Len(s)), s, n + 1 .. Len(s))
<1> DEFINE r == SubSeq(s, n + 1, Len(s))
           m == Len(s) - n
           h == [j \in 1 .. m |-> n + j]
<1>1. Len(s) \in Nat /\ n \in Nat /\ m \in Nat /\ \A i \in 1 .. Len(s) : s[i] \in S
  BY LenProperties, ElementOfSeq
<1>2. r \in Seq(S) /\ Len(r) = m /\ \A j \in 1 .. m : r[j] = s[n + j]
  <2>1. \A i \in n + 1 .. Len(s) : s[i] \in S
    BY <1>1
  <2>2. /\ r \in Seq(S)
        /\ Len(r) = IF n + 1 <= Len(s) THEN Len(s) - (n + 1) + 1 ELSE 0
        /\ \A i \in 1 .. Len(s) - (n + 1) + 1 : r[i] = s[n + 1 + i - 1]
    BY <1>1, <2>1, SubSeqProperties
  <2> QED BY <1>1, <2>2
<1>3. DOMAIN r = 1 .. m
  BY <1>2, LenProperties
<1>4. h \in Injection(1 .. m, n + 1 .. Len(s))
  BY <1>1 DEF Injection, IsInjective
<1>5. \A j \in 1 .. m : r[j] = s[h[j]]
  BY <1>2
<1> HIDE DEF r, m, h
<1>6. Picks(r, s, n + 1 .. Len(s))
  BY <1>3, <1>4, <1>5 DEF Picks
<1> QED BY <1>6 DEF r

(* Taking s apart at one item.                                             *)
LEMMA SplitAt ==
    ASSUME NEW S, NEW s \in Seq(S), NEW i \in 1 .. Len(s)
    PROVE  /\ SubSeq(s, 1, i - 1) \in Seq(S) /\ SubSeq(s, i + 1, Len(s)) \in Seq(S)
           /\ Len(SubSeq(s, 1, i - 1)) = i - 1
           /\ \A j \in 1 .. i - 1 : SubSeq(s, 1, i - 1)[j] = s[j]
           /\ s = Append(SubSeq(s, 1, i - 1), s[i]) \o SubSeq(s, i + 1, Len(s))
<1> DEFINE n == Len(s)
           p == SubSeq(s, 1, i - 1)
           q == SubSeq(s, i + 1, n)
<1>1. n \in Nat /\ i \in Nat /\ i >= 1 /\ i <= n /\ \A k \in 1 .. n : s[k] \in S
  BY LenProperties, ElementOfSeq
<1>2. p \in Seq(S) /\ Len(p) = i - 1 /\ \A j \in 1 .. i - 1 : p[j] = s[j]
  <2>1. \A k \in 1 .. i - 1 : s[k] \in S
    BY <1>1
  <2>2. /\ p \in Seq(S)
        /\ Len(p) = IF 1 <= i - 1 THEN i - 1 - 1 + 1 ELSE 0
        /\ \A k \in 1 .. i - 1 - 1 + 1 : p[k] = s[1 + k - 1]
    BY <1>1, <2>1, SubSeqProperties
  <2> QED BY <1>1, <2>2
<1>3. q \in Seq(S) /\ Len(q) = n - i /\ \A j \in 1 .. n - i : q[j] = s[i + j]
  <2>1. \A k \in i + 1 .. n : s[k] \in S
    BY <1>1
  <2>2. /\ q \in Seq(S)
        /\ Len(q) = IF i + 1 <= n THEN n - (i + 1) + 1 ELSE 0
        /\ \A k \in 1 .. n - (i + 1) + 1 : q[k] = s[i + 1 + k - 1]
    BY <1>1, <2>1, SubSeqProperties
  <2> QED BY <1>1, <2>2
<1> DEFINE a == Append(p, s[i])
           t == a \o q
<1>4. a \in Seq(S) /\ Len(a) = i /\ \A j \in 1 .. i : a[j] = s[j]
  <2>1. s[i] \in S
    BY <1>1
  <2>2. /\ a \in Seq(S) /\ Len(a) = Len(p) + 1
        /\ \A j \in 1 .. Len(p) : a[j] = p[j]
        /\ a[Len(p) + 1] = s[i]
    <3> HIDE DEF p
    <3> QED BY <1>2, <2>1, AppendProperties
  <2> QED BY <1>1, <1>2, <2>2
<1>5. t \in Seq(S) /\ Len(t) = n /\ \A j \in 1 .. n : t[j] = s[j]
  <2>1. /\ t \in Seq(S) /\ Len(t) = Len(a) + Len(q)
        /\ \A j \in 1 .. Len(a) + Len(q) : t[j] = IF j <= Len(a) THEN a[j] ELSE q[j - Len(a)]
    <3> HIDE DEF a, q
    <3> QED BY <1>3, <1>4, ConcatProperties
  <2>2. Len(a) + Len(q) = n
    <3> HIDE DEF a, q, n
    <3> QED BY <1>1, <1>3, <1>4
  <2>3. ASSUME NEW j \in 1 .. n PROVE t[j] = s[j]
    <3>1. CASE j <= i
      <4>1. j \in 1 .. i
        BY <1>1, <3>1
      <4> HIDE DEF a, q, t
      <4> QED BY <1>4, <2>1, <2>2, <3>1, <4>1
    <3>2. CASE ~(j <= i)
      <4>1. j - i \in 1 .. n - i /\ i + (j - i) = j
        BY <1>1, <3>2
      <4> HIDE DEF a, q, t
      <4> QED BY <1>3, <1>4, <2>1, <2>2, <3>2, <4>1
    <3> QED BY <3>1, <3>2
  <2> QED BY <2>1, <2>2, <2>3
<1>6. s = t
  <2> HIDE DEF t
  <2> QED BY <1>5, SeqEqual
<1> QED BY <1>2, <1>3, <1>6

(* What is left when one item is taken out.                                *)
LEMMA RestPicks ==
    ASSUME NEW S, NEW s \in Seq(S), NEW i \in 1 .. Len(s)
    PROVE  LET r == SubSeq(s, 1, i - 1) \o SubSeq(s, i + 1, Len(s))
           IN  r \in Seq(S) /\ Picks(r, s, DOMAIN s \ {i})
<1> DEFINE n == Len(s)
           p == SubSeq(s, 1, i - 1)
           q == SubSeq(s, i + 1, n)
           r == p \o q
           h == [j \in 1 .. n - 1 |-> IF j < i THEN j ELSE j + 1]
<1>1. n \in Nat /\ i \in Nat /\ \A k \in 1 .. n : s[k] \in S
  BY LenProperties, ElementOfSeq
<1>2. p \in Seq(S) /\ Len(p) = i - 1 /\ \A j \in 1 .. i - 1 : p[j] = s[j]
  <2>1. \A k \in 1 .. i - 1 : s[k] \in S
    BY <1>1
  <2>2. /\ p \in Seq(S)
        /\ Len(p) = IF 1 <= i - 1 THEN i - 1 - 1 + 1 ELSE 0
        /\ \A k \in 1 .. i - 1 - 1 + 1 : p[k] = s[1 + k - 1]
    BY <1>1, <2>1, SubSeqProperties
  <2> QED BY <1>1, <2>2
<1>3. q \in Seq(S) /\ Len(q) = n - i /\ \A j \in 1 .. n - i : q[j] = s[i + j]
  <2>1. \A k \in i + 1 .. n : s[k] \in S
    BY <1>1
  <2>2. /\ q \in Seq(S)
        /\ Len(q) = IF i + 1 <= n THEN n - (i + 1) + 1 ELSE 0
        /\ \A k \in 1 .. n - (i + 1) + 1 : q[k] = s[i + 1 + k - 1]
    BY <1>1, <2>1, SubSeqProperties
  <2> QED BY <1>1, <2>2
<1>4. /\ r \in Seq(S) /\ Len(r) = n - 1
      /\ \A j \in 1 .. n - 1 : r[j] = s[h[j]]
  <2>1. /\ r \in Seq(S) /\ Len(r) = Len(p) + Len(q)
        /\ \A j \in 1 .. Len(p) + Len(q) : r[j] = IF j <= Len(p) THEN p[j] ELSE q[j - Len(p)]
    <3> HIDE DEF p, q
    <3> QED BY <1>2, <1>3, ConcatProperties
  <2>2. Len(p) + Len(q) = n - 1
    BY <1>1, <1>2, <1>3
  <2>3. ASSUME NEW j \in 1 .. n - 1 PROVE r[j] = s[h[j]]
    <3>1. CASE j < i
      <4>1. j <= Len(p) /\ j \in 1 .. i - 1
        BY <1>1, <1>2, <3>1
      <4> HIDE DEF p, q, r
      <4> QED BY <1>2, <2>1, <2>2, <3>1, <4>1
    <3>2. CASE ~(j < i)
      <4>1. ~(j <= Len(p)) /\ j - Len(p) \in 1 .. n - i /\ i + (j - Len(p)) = j + 1
        BY <1>1, <1>2, <3>2
      <4> HIDE DEF p, q, r
      <4> QED BY <1>3, <2>1, <2>2, <3>2, <4>1
    <3> QED BY <3>1, <3>2
  <2> QED BY <2>1, <2>2, <2>3
<1>5. DOMAIN r = 1 .. n - 1 /\ DOMAIN s = 1 .. n
  BY <1>4, LenProperties
<1>6. h \in Injection(1 .. n - 1, DOMAIN s \ {i})
  <2>1. h \in [1 .. n - 1 -> DOMAIN s \ {i}]
    <3>1. \A j \in 1 .. n - 1 : IF j < i THEN j \in 1 .. n /\ j # i
                                ELSE j + 1 \in 1 .. n /\ j + 1 # i
      BY <1>1
    <3>2. \A j \in 1 .. n - 1 : h[j] \in DOMAIN s \ {i}
      <4> HIDE DEF n
      <4> QED BY <1>5, <3>1
    <3>3. DOMAIN h = 1 .. n - 1 /\ h = [j \in 1 .. n - 1 |-> h[j]]
      OBVIOUS
    <3> HIDE DEF h
    <3> QED BY <3>2, <3>3
  <2>2. \A a, b \in 1 .. n - 1 : h[a] = h[b] => a = b
    BY <1>1
  <2>3. DOMAIN h = 1 .. n - 1
    OBVIOUS
  <2> HIDE DEF h
  <2> QED BY <2>1, <2>2, <2>3 DEF Injection, IsInjective
<1>7. Picks(r, s, DOMAIN s \ {i})
  <2> HIDE DEF r, h
  <2> QED BY <1>4, <1>5, <1>6 DEF Picks
<1> QED BY <1>4, <1>7

LEMMA AppendPicks ==
    ASSUME NEW S, NEW r \in Seq(S), NEW s, NEW I, NEW i, i \notin I, s[i] \in S, Picks(r, s, I)
    PROVE  Picks(Append(r, s[i]), s, I \cup {i})
<1> DEFINE n == Len(r)
           t == Append(r, s[i])
<1>1. PICK h \in Injection(DOMAIN r, I) : \A j \in DOMAIN r : r[j] = s[h[j]]
  BY DEF Picks
<1> DEFINE f == [j \in 1 .. n + 1 |-> IF j = n + 1 THEN i ELSE h[j]]
<1>2. /\ n \in Nat /\ DOMAIN r = 1 .. n
      /\ DOMAIN t = 1 .. n + 1 /\ t[n + 1] = s[i] /\ \A j \in 1 .. n : t[j] = r[j]
  BY LenProperties, AppendProperties
<1>3. h \in [1 .. n -> I] /\ \A a, b \in 1 .. n : h[a] = h[b] => a = b
  BY <1>1, <1>2 DEF Injection, IsInjective
<1>4. f \in Injection(1 .. n + 1, I \cup {i})
  <2>1. \A j \in 1 .. n + 1 : f[j] \in I \cup {i}
    BY <1>2, <1>3
  <2>2. \A a, b \in 1 .. n + 1 : f[a] = f[b] => a = b
    BY <1>2, <1>3
  <2>3. DOMAIN f = 1 .. n + 1 /\ f = [j \in 1 .. n + 1 |-> f[j]]
    OBVIOUS
  <2> HIDE DEF f
  <2> QED BY <2>1, <2>2, <2>3 DEF Injection, IsInjective
<1>5. \A j \in 1 .. n + 1 : t[j] = s[f[j]]
  BY <1>1, <1>2
<1> HIDE DEF f, t, n
<1>6. Picks(t, s, I \cup {i})
  BY <1>2, <1>4, <1>5 DEF Picks
<1> QED BY <1>6 DEF t

(* What is kept is taken from the positions to keep.                       *)
LEMMA KeptPicks ==
    ASSUME NEW S, NEW s \in Seq(S), NEW keep
    PROVE  Picks(Kept(s, keep), s, keep \cap DOMAIN s)
<1>1. Len(s) \in Nat /\ DOMAIN s = 1 .. Len(s)
  BY LenProperties
<1>2. PICK g : KeptTable(s, keep, g, Len(s)) /\ Kept(s, keep) = g[Len(s)]
  BY <1>1, KeptUnfolds
<1>3. \A k \in 0 .. Len(s) : g[k] \in Seq(S)
  <2>1. Len(s) \in 0 .. Len(s)
    BY <1>1
  <2> QED BY <1>2, <2>1, KeptTableType
<1> DEFINE T == {k \in Nat : k <= Len(s) => Picks(g[k], s, keep \cap (1 .. k))}
<1>4. 0 \in T
  <2>1. g[0] = <<>>
    BY <1>1, <1>2 DEF KeptTable, KeptStep
  <2>2. DOMAIN <<>> = {}
    OBVIOUS
  <2>3. [j \in {} |-> 0] \in Injection({}, keep \cap (1 .. 0))
    BY DEF Injection, IsInjective
  <2> QED BY <2>1, <2>2, <2>3 DEF Picks
<1>5. ASSUME NEW k \in T PROVE k + 1 \in T
  <2> SUFFICES ASSUME k + 1 <= Len(s) PROVE Picks(g[k + 1], s, keep \cap (1 .. k + 1))
    OBVIOUS
  <2>1. /\ k + 1 \in 0 .. Len(s) /\ k + 1 \in 1 .. Len(s) /\ k \in 0 .. Len(s)
        /\ k + 1 # 0 /\ (k + 1) - 1 = k /\ k \in Nat
    BY <1>1
  <2>2. Picks(g[k], s, keep \cap (1 .. k)) /\ g[k] \in Seq(S) /\ s[k + 1] \in S
    BY <1>3, <2>1, ElementOfSeq
  <2>3. g[k + 1] = IF k + 1 \in keep THEN Append(g[k], s[k + 1]) ELSE g[k]
    BY <1>2, <2>1 DEF KeptTable, KeptStep
  <2>4. CASE k + 1 \in keep
    <3>1. k + 1 \notin keep \cap (1 .. k)
      BY <2>1
    <3>2. Picks(Append(g[k], s[k + 1]), s, (keep \cap (1 .. k)) \cup {k + 1})
      BY <2>2, <3>1, AppendPicks
    <3>3. (keep \cap (1 .. k)) \cup {k + 1} = keep \cap (1 .. k + 1)
      BY <2>1, <2>4
    <3> QED BY <2>3, <2>4, <3>2, <3>3
  <2>5. CASE k + 1 \notin keep
    <3>1. keep \cap (1 .. k) \subseteq keep \cap (1 .. k + 1)
      BY <2>1
    <3> QED BY <2>2, <2>3, <2>5, <3>1, PicksMore
  <2> QED BY <2>4, <2>5
<1>6. T = Nat
  <2> HIDE DEF T
  <2>1. T \in SUBSET Nat
    BY DEF T
  <2> QED BY <1>4, <1>5, <2>1, SetInduction
<1>7. Picks(g[Len(s)], s, keep \cap (1 .. Len(s)))
  <2>1. Len(s) \in T
    BY <1>1, <1>6
  <2> QED BY <1>1, <2>1
<1> QED BY <1>1, <1>2, <1>7

LEMMA SiftedNone ==
    ASSUME NEW T, NEW s \in Seq(T), NEW S, \A i \in DOMAIN s : s[i] \notin S
    PROVE  Sifted(s, S) = <<>>
<1> DEFINE r == Sifted(s, S)
<1>1. r \in Seq(T)
  BY SiftedType
<1>2. Picks(r, s, {})
  <2>1. {i \in DOMAIN s : s[i] \in S} = {}
    OBVIOUS
  <2>2. Picks(Kept(s, {}), s, {} \cap DOMAIN s)
    BY KeptPicks
  <2>3. {} \cap DOMAIN s = {}
    OBVIOUS
  <2> QED BY <2>1, <2>2, <2>3 DEF Sifted
<1>3. DOMAIN r = {}
  BY <1>2 DEF Picks, Injection
<1> HIDE DEF r
<1>4. Len(r) = 0
  BY <1>1, <1>3, LenProperties
<1>5. r = <<>>
  BY <1>1, <1>4, EmptySeq
<1> QED BY <1>5 DEF r

LEMMA SiftedLength ==
    ASSUME NEW T, NEW s \in Seq(T), NEW S
    PROVE  Len(Sifted(s, S)) <= Len(s)
<1> DEFINE r == Sifted(s, S)
           keep == {i \in DOMAIN s : s[i] \in S}
<1>1. r \in Seq(T)
  BY SiftedType
<1>2. Picks(r, s, keep \cap DOMAIN s)
  <2> HIDE DEF keep
  <2>1. Picks(Kept(s, keep), s, keep \cap DOMAIN s)
    BY KeptPicks
  <2> QED BY <2>1 DEF Sifted, keep
<1> HIDE DEF r
<1>3. Picks(r, s, DOMAIN s)
  BY <1>2, PicksMore
<1>4. Len(r) \in Nat /\ Len(s) \in Nat /\ DOMAIN r = 1 .. Len(r) /\ DOMAIN s = 1 .. Len(s)
  BY <1>1, LenProperties
<1>5. PICK h \in Injection(1 .. Len(r), 1 .. Len(s)) : TRUE
  BY <1>3, <1>4 DEF Picks
<1>6. /\ IsFiniteSet(1 .. Len(s)) /\ Cardinality(1 .. Len(s)) = Len(s)
      /\ IsFiniteSet(1 .. Len(r)) /\ Cardinality(1 .. Len(r)) = Len(r)
  <2>1. \A n \in Nat : IsFiniteSet(1 .. n) /\ Cardinality(1 .. n) = n
    <3> TAKE n \in Nat
    <3>1. IsFiniteSet(1 .. n) /\ Cardinality(1 .. n) = IF 1 > n THEN 0 ELSE n - 1 + 1
      BY FS_Interval
    <3> QED BY <3>1
  <2> QED BY <1>4, <2>1
<1>7. Cardinality(1 .. Len(r)) <= Cardinality(1 .. Len(s))
  BY <1>5, <1>6, FS_Injection
<1> QED BY <1>6, <1>7 DEF r
-----------------------------------------------------------------------------
(* How many items of s are in S.                                           *)
Places(s, S) == {i \in DOMAIN s : s[i] \in S}

Count(s, S) == Cardinality(Places(s, S))

LEMMA PlacesFinite ==
    ASSUME NEW T, NEW s \in Seq(T), NEW S
    PROVE  IsFiniteSet(Places(s, S)) /\ Count(s, S) \in Nat
<1>1. Len(s) \in Nat /\ DOMAIN s = 1 .. Len(s)
  BY LenProperties
<1>2. IsFiniteSet(DOMAIN s)
  BY <1>1, FS_Interval
<1>3. Places(s, S) \in SUBSET DOMAIN s
  BY DEF Places
<1> QED BY <1>2, <1>3, FS_Subset, FS_CardinalityType DEF Count

LEMMA CountEmpty == ASSUME NEW S PROVE Count(<<>>, S) = 0
<1>1. Places(<<>>, S) = {}
  BY DEF Places
<1> QED BY <1>1, FS_EmptySet DEF Count

(* Picking from s does not give more than there is, and one less if an     *)
(* item is left out.                                                       *)
LEMMA CountPicked ==
    ASSUME NEW T, NEW s \in Seq(T), NEW r, NEW I \in SUBSET DOMAIN s, Picks(r, s, I), NEW S
    PROVE  Count(r, S) <= Cardinality(Places(s, S) \cap I)
<1>1. PICK h \in Injection(DOMAIN r, I) : \A j \in DOMAIN r : r[j] = s[h[j]]
  BY DEF Picks
<1> DEFINE P == Places(s, S) \cap I
           f == [j \in Places(r, S) |-> h[j]]
<1>2. IsFiniteSet(P)
  BY PlacesFinite, FS_Subset
<1>3. f \in Injection(Places(r, S), P)
  BY <1>1 DEF Places, Injection, IsInjective
<1>4. Cardinality(Places(r, S)) <= Cardinality(P)
  <2> HIDE DEF f, P
  <2> QED BY <1>2, <1>3, FS_Injection
<1> QED BY <1>4 DEF Count

LEMMA CountSome ==
    ASSUME NEW T, NEW s \in Seq(T), NEW r, NEW I \in SUBSET DOMAIN s, Picks(r, s, I), NEW S
    PROVE  Count(r, S) <= Count(s, S)
<1>1. Count(r, S) <= Cardinality(Places(s, S) \cap I)
  BY CountPicked
<1>2. Cardinality(Places(s, S) \cap I) <= Count(s, S) /\ Cardinality(Places(s, S) \cap I) \in Nat
  BY PlacesFinite, FS_Subset, FS_CardinalityType DEF Count
<1>3. Count(r, S) \in Int
  <2>1. PICK h \in Injection(DOMAIN r, I) : TRUE
    BY DEF Picks
  <2>2. IsFiniteSet(DOMAIN s)
    BY LenProperties, FS_Interval
  <2>3. IsFiniteSet(I)
    BY <2>2, FS_Subset
  <2>4. IsFiniteSet(DOMAIN r)
    BY <2>3, FS_Injection
  <2>5. IsFiniteSet(Places(r, S))
    BY <2>4, FS_Subset DEF Places
  <2> QED BY <2>5, FS_CardinalityType DEF Count
<1>4. Count(s, S) \in Nat
  BY PlacesFinite
<1> QED BY <1>1, <1>2, <1>3, <1>4

LEMMA CountLess ==
    ASSUME NEW T, NEW s \in Seq(T), NEW r \in Seq(T), NEW i \in DOMAIN s,
           Picks(r, s, DOMAIN s \ {i}), NEW S, s[i] \in S
    PROVE  Count(r, S) <= Count(s, S) - 1
<1>1. Count(r, S) <= Cardinality(Places(s, S) \cap (DOMAIN s \ {i}))
  BY CountPicked
<1>2. Places(s, S) \cap (DOMAIN s \ {i}) = Places(s, S) \ {i} /\ i \in Places(s, S)
  BY DEF Places
<1>3. Cardinality(Places(s, S) \ {i}) = Count(s, S) - 1
  BY <1>2, PlacesFinite, FS_RemoveElement DEF Count
<1> QED BY <1>1, <1>2, <1>3

LEMMA CountAppend ==
    ASSUME NEW T, NEW s \in Seq(T), NEW x \in T, NEW S
    PROVE  Count(Append(s, x), S) = IF x \in S THEN Count(s, S) + 1 ELSE Count(s, S)
<1> DEFINE t == Append(s, x)
           n == Len(s)
<1>1. /\ n \in Nat /\ DOMAIN s = 1 .. n
      /\ DOMAIN t = 1 .. n + 1 /\ t[n + 1] = x /\ \A j \in 1 .. n : t[j] = s[j]
  BY LenProperties, AppendProperties
<1>2. Places(t, S) = IF x \in S THEN Places(s, S) \cup {n + 1} ELSE Places(s, S)
  <2> HIDE DEF t, n
  <2> QED BY <1>1 DEF Places
<1>3. n + 1 \notin Places(s, S)
  BY <1>1 DEF Places
<1> HIDE DEF t, n
<1>4. Count(t, S) = IF x \in S THEN Count(s, S) + 1 ELSE Count(s, S)
  BY <1>2, <1>3, PlacesFinite, FS_AddElement DEF Count
<1> QED BY <1>4 DEF t

LEMMA CountMore ==
    ASSUME NEW T, NEW s \in Seq(T), NEW S, NEW R, S \subseteq R
    PROVE  Count(s, S) <= Count(s, R)
<1>1. Places(s, S) \in SUBSET Places(s, R)
  BY DEF Places
<1> QED BY <1>1, PlacesFinite, FS_Subset DEF Count
=============================================================================
