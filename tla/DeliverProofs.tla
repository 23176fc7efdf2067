---------------------------- MODULE DeliverProofs ---------------------------
(***************************************************************************)
(* Proof that a PUBLISH cut anywhere behind its header reaches the         *)
(* application whole, for every buffer and every well-formed message; and  *)
(* that what the codec writes is read back: the messages mqtt_msg.c        *)
(* builds, the CONNECT a broker reads, the frames of transport_ws.c.       *)
(***************************************************************************)
EXTENDS MCDeliver, SequenceFacts
-----------------------------------------------------------------------------
(* The number in a length field, from its last byte to its first.          *)

(* The values from byte j on.                                              *)
FieldTable(bytes, g, j) ==
    g = [i \in j .. Len(bytes) + 1 |->
           IF i > Len(bytes) THEN 0 ELSE (bytes[i] % 128) + 128 * g[i + 1]]

LEMMA FieldTables ==
    ASSUME NEW bytes, Len(bytes) \in Nat
    PROVE  \E g : FieldTable(bytes, g, 1)
<1> DEFINE L == Len(bytes)
           T == {k \in Nat : k <= L => \E g : FieldTable(bytes, g, L + 1 - k)}
<1>1. 0 \in T
  <2> DEFINE g == [i \in L + 1 .. L + 1 |-> 0]
  <2>1. FieldTable(bytes, g, L + 1)
    BY DEF FieldTable
  <2> QED BY <2>1
<1>2. ASSUME NEW k \in T PROVE k + 1 \in T
  <2> SUFFICES ASSUME k + 1 <= L PROVE \E g : FieldTable(bytes, g, L + 1 - (k + 1))
    OBVIOUS
  <2> DEFINE j == L + 1 - k
             turn(f, i) == IF i > L THEN 0 ELSE (bytes[i] % 128) + 128 * f[i + 1]
  <2>1. PICK g : FieldTable(bytes, g, j)
    OBVIOUS
  <2>2. j \in 2 .. L + 1 /\ L \in Nat
    OBVIOUS
  <2> HIDE DEF j
  <2> DEFINE v == (bytes[j - 1] % 128) + 128 * g[j]
             h == [i \in j - 1 .. L + 1 |-> IF i = j - 1 THEN v ELSE g[i]]
             r == [i \in j - 1 .. L + 1 |-> turn(h, i)]
  <2>3. \A i \in j .. L + 1 : g[i] = turn(g, i)
    BY <2>1 DEF FieldTable
  <2>4. \A i \in j .. L + 1 : h[i] = g[i]
    <3> HIDE DEF v
    <3> QED BY <2>2
  <2>5. h[j - 1] = v
    <3> HIDE DEF v
    <3> QED BY <2>2
  <2>6. \A i \in j - 1 .. L + 1 : h[i] = turn(h, i)
    <3> TAKE i \in j - 1 .. L + 1
    <3>1. CASE i = j - 1
      <4>1. i <= L /\ ~(i > L) /\ i + 1 = j /\ j \in j .. L + 1
        BY <2>2, <3>1
      <4> HIDE DEF h, L
      <4> QED BY <2>4, <2>5, <3>1, <4>1
    <3>2. CASE i # j - 1
      <4>1. i \in j .. L + 1 /\ (~(i > L) => i + 1 \in j .. L + 1)
        BY <2>2, <3>2
      <4> HIDE DEF h, L
      <4> QED BY <2>3, <2>4, <4>1
    <3> QED BY <3>1, <3>2
  <2>7. h = r
    <3>1. \A i \in j - 1 .. L + 1 : h[i] = r[i]
      <4> HIDE DEF h, L, turn
      <4> QED BY <2>6
    <3>2. h = [i \in j - 1 .. L + 1 |-> h[i]] /\ r = [i \in j - 1 .. L + 1 |-> r[i]]
      OBVIOUS
    <3> HIDE DEF h, r
    <3> QED BY <3>1, <3>2
  <2>8. FieldTable(bytes, h, j - 1)
    BY <2>7 DEF FieldTable
  <2>9. j - 1 = L + 1 - (k + 1)
    BY <2>2 DEF j
  <2> QED BY <2>8, <2>9
<1>3. T = Nat
  <2> HIDE DEF T
  <2>1. T \in SUBSET Nat
    BY DEF T
  <2> QED BY <1>1, <1>2, <2>1, SetInduction
<1>4. L \in T /\ L + 1 - L = 1
  BY <1>3
<1> QED BY <1>4

(* Whatever the bytes are, they hold a natural number.                     *)
LEMMA FieldValueType ==
    ASSUME NEW bytes, Len(bytes) \in Nat, \A i \in 1 .. Len(bytes) : bytes[i] \in Nat
    PROVE  FieldValue(bytes) \in Nat
<1> DEFINE L == Len(bytes)
           g == CHOOSE f : FieldTable(bytes, f, 1)
<1>1. FieldTable(bytes, g, 1)
  BY FieldTables
<1>2. FieldValue(bytes) = g[1]
  BY DEF FieldValue, FieldTable
<1> HIDE DEF g
<1> DEFINE T == {k \in Nat : k <= L => g[L + 1 - k] \in Nat}
<1>3. 0 \in T
  <2>1. L + 1 \in 1 .. L + 1 /\ L + 1 > L /\ L + 1 - 0 = L + 1
    OBVIOUS
  <2>2. g[L + 1] = 0
    BY <1>1, <2>1 DEF FieldTable
  <2> QED BY <2>1, <2>2
<1>4. ASSUME NEW k \in T PROVE k + 1 \in T
  <2> SUFFICES ASSUME k + 1 <= L PROVE g[L + 1 - (k + 1)] \in Nat
    OBVIOUS
  <2> DEFINE i == L - k
  <2>1. i \in 1 .. L /\ i \in 1 .. L + 1 /\ ~(i > L) /\ i + 1 = L + 1 - k /\ L + 1 - (k + 1) = i
    OBVIOUS
  <2>2. g[i + 1] \in Nat
    BY <2>1
  <2> HIDE DEF i
  <2>3. g[i] = (bytes[i] % 128) + 128 * g[i + 1]
    BY <1>1, <2>1 DEF FieldTable
  <2>4. bytes[i] \in Nat
    BY <2>1
  <2>5. bytes[i] % 128 \in Nat
    BY <2>4
  <2>6. g[i] \in Nat
    <3> DEFINE x == bytes[i] % 128
               y == g[i + 1]
    <3>1. x \in Nat /\ y \in Nat /\ g[i] = x + 128 * y
      BY <2>2, <2>3, <2>5
    <3> HIDE DEF x, y
    <3> QED BY <3>1
  <2> HIDE DEF T
  <2> QED BY <2>1, <2>6
<1>5. T = Nat
  <2> HIDE DEF T
  <2>1. T \in SUBSET Nat
    BY DEF T
  <2> QED BY <1>3, <1>4, <2>1, SetInduction
<1>6. L \in T /\ L + 1 - L = 1
  BY <1>5
<1> QED BY <1>2, <1>6
-----------------------------------------------------------------------------
(* The header of a well-formed message.                                    *)

LEMMA Fields ==
    ASSUME NEW m, WellFormed(m)
    PROVE  /\ m.type = 3 /\ m.qos \in 0 .. 2
           /\ m.topic \in Nat /\ 0 < m.topic /\ m.topic < 65536 /\ m.id \in Nat /\ m.id < 65536
           /\ m.data \in Nat
           /\ DOMAIN m = {"type", "qos", "field", "topic", "id", "data"}
           /\ m.field \in Seq(Nat) /\ Len(m.field) \in Nat /\ Len(m.field) >= 1
           /\ \A i \in 1 .. Len(m.field) :
                m.field[i] \in Nat /\ (m.field[i] < 128 <=> i = Len(m.field))
           /\ FieldValue(m.field) = Size(m) - BodyAt(m)
<1>1. /\ m.type = 3 /\ m.qos \in 0 .. 2
      /\ m.topic \in Nat /\ 0 < m.topic /\ m.topic < 65536 /\ m.id \in Nat /\ m.id < 65536
      /\ m.data \in Nat
      /\ DOMAIN m = {"type", "qos", "field", "topic", "id", "data"}
      /\ m.field \in Seq(Nat) /\ m.field # <<>>
  BY DEF WellFormed, PUBLISH
<1>2. \A i \in 1 .. Len(m.field) : m.field[i] < 128 <=> i = Len(m.field)
  BY DEF WellFormed
<1>3. Len(m.field) \in Nat /\ Len(m.field) >= 1 /\ \A i \in 1 .. Len(m.field) : m.field[i] \in Nat
  BY <1>1, LenProperties, ElementOfSeq, EmptySeq
<1>4. FieldValue(m.field) = Size(m) - BodyAt(m)
  BY DEF WellFormed
<1> QED BY <1>1, <1>2, <1>3, <1>4

LEMMA Numbers ==
    ASSUME NEW m, WellFormed(m)
    PROVE  /\ m.topic \in Nat /\ 0 < m.topic /\ m.topic < 65536
           /\ m.id \in Nat /\ m.id < 65536
           /\ m.data \in Nat
BY Fields

LEMMA Legal ==
    ASSUME NEW m \in Publishes
    PROVE  WellFormed(m) /\ m.data \in Nat /\ m.data < UIntRange /\ UIntRange \in Nat
BY PublishAssumption DEF WellFormed

(* Where its parts lie.                                                    *)
LEMMA PartsOf ==
    ASSUME NEW m, WellFormed(m)
    PROVE  /\ BodyAt(m) = 1 + Len(m.field) /\ BodyAt(m) \in Nat /\ TopicAt(m) = BodyAt(m)
           /\ IdAt(m) = BodyAt(m) + 2 + m.topic
           /\ IdLength(m.qos) \in {0, 2} /\ (m.qos > 0 <=> IdLength(m.qos) = 2)
           /\ DataAt(m) = BodyAt(m) + 2 + m.topic + IdLength(m.qos)
           /\ Size(m) = DataAt(m) + m.data
           /\ DataAt(m) \in Nat /\ Size(m) \in Nat
<1>1. BodyAt(m) = 1 + Len(m.field) /\ BodyAt(m) \in Nat /\ m.type = PUBLISH
  BY Fields DEF BodyAt, PUBLISH
<1>2. IdAt(m) = BodyAt(m) + 2 + m.topic
  BY <1>1, Numbers DEF IdAt
<1>3. IdLength(m.qos) \in {0, 2} /\ (m.qos > 0 <=> IdLength(m.qos) = 2)
  BY Fields DEF IdLength
<1>4. DataAt(m) = BodyAt(m) + 2 + m.topic + IdLength(m.qos)
  BY <1>1, <1>2 DEF DataAt, PUBLISH, PINGREQ
<1>5. TopicAt(m) = BodyAt(m)
  BY <1>1 DEF TopicAt
<1>6. Size(m) = DataAt(m) + m.data
  BY Fields DEF Size
<1>7. DataAt(m) \in Nat /\ Size(m) \in Nat
  <2> DEFINE t == m.topic
             l == m.data
             q == IdLength(m.qos)
  <2>1. t \in Nat /\ l \in Nat /\ q \in {0, 2} /\ BodyAt(m) \in Nat
    BY <1>1, <1>3, Numbers
  <2>2. DataAt(m) = BodyAt(m) + 2 + t + q /\ Size(m) = DataAt(m) + l
    BY <1>4, <1>6
  <2> HIDE DEF t, l, q
  <2> QED BY <2>1, <2>2
<1> QED BY <1>1, <1>2, <1>3, <1>4, <1>5, <1>6, <1>7

LEMMA Halves ==
    ASSUME NEW n \in Nat, n < 65536
    PROVE  /\ HighByte(n) \in Nat /\ LowByte(n) \in Nat
           /\ HighByte(n) * 256 + LowByte(n) = n
<1>1. n \div 256 \in Nat /\ n \div 256 < 256 /\ n % 256 \in Nat /\ n = 256 * (n \div 256) + (n % 256)
  OBVIOUS
<1>2. (n \div 256) % 256 = n \div 256
  BY <1>1
<1> QED BY <1>1, <1>2 DEF HighByte, LowByte

LEMMA Bytes ==
    ASSUME NEW m, WellFormed(m), NEW i \in Nat
    PROVE  /\ Byte(m, i) \in Nat
           /\ i \in 1 .. Len(m.field) => Byte(m, i) = m.field[i]
           /\ i = BodyAt(m) => Byte(m, i) = HighByte(m.topic)
           /\ i = BodyAt(m) + 1 => Byte(m, i) = LowByte(m.topic)
           /\ m.qos > 0 /\ i = IdAt(m) => Byte(m, i) = HighByte(m.id)
           /\ m.qos > 0 /\ i = IdAt(m) + 1 => Byte(m, i) = LowByte(m.id)
<1> DEFINE L == Len(m.field)
           b == BodyAt(m)
           t == TopicAt(m)
           a == IdAt(m)
           d == DataAt(m)
<1>1. L \in Nat /\ L >= 1 /\ b = 1 + L /\ t = b
  BY Fields, PartsOf
<1>2. /\ HighByte(m.topic) \in Nat /\ LowByte(m.topic) \in Nat
      /\ HighByte(m.id) \in Nat /\ LowByte(m.id) \in Nat
  <2> DEFINE x == m.topic
             y == m.id
  <2>1. x \in Nat /\ x < 65536 /\ y \in Nat /\ y < 65536
    BY Numbers
  <2> HIDE DEF x, y
  <2>2. HighByte(x) \in Nat /\ LowByte(x) \in Nat
    BY <2>1, Halves
  <2>3. HighByte(y) \in Nat /\ LowByte(y) \in Nat
    BY <2>1, Halves
  <2> QED BY <2>2, <2>3 DEF x, y
<1>3. m.type * 16 + m.qos * 2 \in Nat /\ "topic" \in DOMAIN m
      /\ \A j \in 1 .. L : m.field[j] \in Nat
  <2>1. m.type = 3 /\ m.qos \in 0 .. 2 /\ "topic" \in DOMAIN m
    BY Fields
  <2>2. \A q \in 0 .. 2 : 3 * 16 + q * 2 \in Nat
    OBVIOUS
  <2>3. \A j \in 1 .. L : m.field[j] \in Nat
    BY Fields
  <2> HIDE DEF L
  <2> QED BY <2>1, <2>2, <2>3
<1>4. Byte(m, i) = CASE i = 0                        -> m.type * 16 + m.qos * 2
                     [] i \in 1..L                   -> m.field[i]
                     [] "topic" \in DOMAIN m /\ i = t     -> HighByte(m.topic)
                     [] "topic" \in DOMAIN m /\ i = t + 1 -> LowByte(m.topic)
                     [] i = a /\ i < d               -> HighByte(m.id)
                     [] i = a + 1 /\ i < d           -> LowByte(m.id)
                     [] OTHER                        -> 0
  BY DEF Byte
<1>5. /\ a = b + 2 + m.topic /\ m.topic \in Nat /\ m.topic > 0
      /\ m.qos > 0 => d = a + 2
  <2>1. a = b + 2 + m.topic /\ d = b + 2 + m.topic + IdLength(m.qos)
        /\ (m.qos > 0 => IdLength(m.qos) = 2)
    BY PartsOf
  <2>2. m.topic \in Nat /\ m.topic > 0
    BY Fields
  <2> HIDE DEF a, b, d
  <2>3. b \in Nat
    BY <1>1
  <2> QED BY <2>1, <2>2, <2>3
<1> DEFINE x == m.type * 16 + m.qos * 2
           hi == HighByte(m.topic)
           lo == LowByte(m.topic)
           hj == HighByte(m.id)
           lj == LowByte(m.id)
<1> HIDE DEF L, b, t, a, d, x, hi, lo, hj, lj
<1>6. /\ i = 0 => Byte(m, i) = x
      /\ i \in 1 .. L => Byte(m, i) = m.field[i]
      /\ i = b => Byte(m, i) = hi
      /\ i = b + 1 => Byte(m, i) = lo
      /\ m.qos > 0 /\ i = a => Byte(m, i) = hj
      /\ m.qos > 0 /\ i = a + 1 => Byte(m, i) = lj
      /\ Byte(m, i) \in {x, hi, lo, hj, lj, 0} \cup {m.field[j] : j \in 1 .. L}
  BY <1>1, <1>3, <1>4, <1>5 DEF x, hi, lo, hj, lj
<1> QED BY <1>2, <1>3, <1>6 DEF L, b, a, x, hi, lo, hj, lj

LEMMA MaxOfTwo == ASSUME NEW n \in Nat PROVE n >= 1 => Max({n, 1}) = n
BY DEF Max

LEMMA FieldEndType ==
    ASSUME NEW m, WellFormed(m), NEW n \in Nat, n >= 1
    PROVE  FieldEnd(m, n) \in Nat /\ FieldEnd(m, n) >= 1
<1> DEFINE last == {i \in 1 .. n - 1 : Byte(m, i) < 128}
<1>1. FieldEnd(m, n) = IF last = {} THEN Max({n, 1}) ELSE Min(last) + 1
  BY DEF FieldEnd
<1>2. last \in SUBSET Nat
  OBVIOUS
<1> HIDE DEF last
<1>3. last # {} => Min(last) \in last
  BY <1>2, LeastNumber DEF Min
<1>4. CASE last = {}
  BY <1>1, <1>4, MaxOfTwo
<1>5. CASE last # {}
  <2>1. Min(last) \in Nat
    BY <1>2, <1>3, <1>5
  <2> QED BY <1>1, <1>5, <2>1
<1> QED BY <1>4, <1>5

LEMMA LengthType ==
    ASSUME NEW m, WellFormed(m), NEW n \in Nat, n >= 1
    PROVE  mqtt_get_total_length(m, n) \in Nat
<1> DEFINE e == FieldEnd(m, n) - 1
           bytes == [i \in 1 .. e |-> Byte(m, i)]
<1>1. FieldEnd(m, n) \in Nat /\ e \in Nat
  BY FieldEndType
<1>2. \A i \in 1 .. e : Byte(m, i) \in Nat
  BY <1>1, Bytes
<1>3. bytes \in Seq(Nat) /\ Len(bytes) \in Nat
  <2> HIDE DEF e
  <2>1. bytes \in [1 .. e -> Nat]
    BY <1>2
  <2> QED BY <1>1, <2>1, LenProperties
<1>4. \A i \in 1 .. Len(bytes) : bytes[i] \in Nat
  <2> HIDE DEF bytes
  <2> QED BY <1>3, LenProperties
<1>5. FieldValue(bytes) \in Nat
  <2> HIDE DEF bytes
  <2> QED BY <1>3, <1>4, FieldValueType
<1> QED BY <1>1, <1>5 DEF mqtt_get_total_length

(* A message of any type whose header lies behind its length field.        *)
Laid(m) ==
    /\ m.field \in Seq(Nat) /\ m.field # <<>>
    /\ \A i \in 1 .. Len(m.field) : m.field[i] < 128 <=> i = Len(m.field)
    /\ IdAt(m) \in Nat /\ BodyAt(m) <= IdAt(m)
    /\ TopicAt(m) \in Nat /\ BodyAt(m) <= TopicAt(m)

LEMMA FieldBytes ==
    ASSUME NEW m, Laid(m), NEW i \in 1 .. Len(m.field)
    PROVE  Byte(m, i) = m.field[i]
<1> DEFINE L == Len(m.field)
           t == TopicAt(m)
           a == IdAt(m)
<1>1. L \in Nat /\ t \in Nat /\ a \in Nat /\ L < t /\ L < a
  BY LenProperties DEF Laid, BodyAt
<1>2. i # 0 /\ i # t /\ i # t + 1 /\ i # a /\ i # a + 1 /\ i \in 1 .. L
  <2> HIDE DEF t, a
  <2> QED BY <1>1
<1> HIDE DEF L, t, a
<1> QED BY <1>2 DEF Byte, L, t, a

(* The first byte holds the type and, below the bit of the duplicate, the  *)
(* QoS.                                                                    *)
LEMMA FirstByte ==
    ASSUME NEW m, Laid(m), NEW type \in 0 .. 15, NEW qos \in 0 .. 2, m.type = type, m.qos = qos
    PROVE  mqtt_get_type(m) = type /\ mqtt_get_qos(m) = qos
<1>1. TopicAt(m) > 0 /\ IdAt(m) > 0
  <2> DEFINE L == Len(m.field)
             t == TopicAt(m)
             a == IdAt(m)
  <2>1. L \in Nat /\ t \in Nat /\ a \in Nat /\ 1 + L <= t /\ 1 + L <= a
    BY LenProperties DEF Laid, BodyAt
  <2> HIDE DEF L, t, a
  <2>2. t > 0 /\ a > 0
    BY <2>1
  <2> QED BY <2>2 DEF t, a
<1>2. Byte(m, 0) = m.type * 16 + m.qos * 2
  <2>1. 0 # TopicAt(m) /\ 0 # TopicAt(m) + 1 /\ 0 # IdAt(m) /\ 0 # IdAt(m) + 1
    BY <1>1 DEF Laid
  <2>2. 0 \notin 1 .. Len(m.field)
    OBVIOUS
  <2> QED BY <2>1, <2>2 DEF Byte
<1>3. Byte(m, 0) = type * 16 + qos * 2
  BY <1>2
<1> DEFINE x == Byte(m, 0)
<1>4. x = type * 16 + qos * 2
  BY <1>3
<1> HIDE DEF x
<1>5. x \div 16 = type /\ (x \div 2) % 4 = qos
  <2>1. CASE qos = 0
    BY <1>4, <2>1
  <2>2. CASE qos = 1
    BY <1>4, <2>2
  <2>3. CASE qos = 2
    BY <1>4, <2>3
  <2> QED BY <2>1, <2>2, <2>3
<1> QED BY <1>5 DEF x, mqtt_get_type, mqtt_get_qos

(* The loop all readers share ends behind the length field, and what it    *)
(* adds up is the number in it.                                            *)
LEMMA LengthRead ==
    ASSUME NEW m, Laid(m), NEW n \in Nat, Len(m.field) < n
    PROVE  /\ FieldEnd(m, n) = BodyAt(m)
           /\ mqtt_get_total_length(m, n) = FieldValue(m.field) + BodyAt(m)
<1> DEFINE L == Len(m.field)
           last == {i \in 1 .. n - 1 : Byte(m, i) < 128}
<1>1. /\ L \in Nat /\ L >= 1 /\ L <= n - 1 /\ n - 1 \in Nat
      /\ BodyAt(m) = L + 1 /\ m.field \in [1 .. L -> Nat]
  <2>1. L \in Nat /\ L >= 1 /\ m.field \in [1 .. L -> Nat]
    BY LenProperties, EmptySeq DEF Laid
  <2> HIDE DEF L
  <2> QED BY <2>1 DEF L, BodyAt
<1>2. \A i \in 1 .. L : Byte(m, i) = m.field[i]
  BY FieldBytes
<1>3. L \in last /\ \A i \in last : L <= i
  <2>1. L \in 1 .. L /\ L \in 1 .. n - 1
    BY <1>1
  <2>2. Byte(m, L) < 128
    <3>1. m.field[L] < 128
      BY <2>1 DEF Laid
    <3> QED BY <1>2, <2>1, <3>1
  <2>3. \A i \in 1 .. n - 1 : Byte(m, i) < 128 => L <= i
    <3> SUFFICES ASSUME NEW i \in 1 .. n - 1, Byte(m, i) < 128, i < L PROVE FALSE
      BY <1>1
    <3>1. i \in 1 .. L /\ i # L
      BY <1>1
    <3>2. Byte(m, i) = m.field[i]
      BY <1>2, <3>1
    <3>3. ~(m.field[i] < 128)
      BY <3>1 DEF Laid
    <3> QED BY <3>2, <3>3
  <2> QED BY <2>1, <2>2, <2>3
<1>4. Min(last) = L
  <2>1. \A x \in last : x \in Nat
    OBVIOUS
  <2> HIDE DEF last
  <2> QED BY <1>1, <1>3, <2>1 DEF Min
<1>5. FieldEnd(m, n) = L + 1
  <2>1. FieldEnd(m, n) = IF last = {} THEN Max({n, 1}) ELSE Min(last) + 1
    BY DEF FieldEnd
  <2> HIDE DEF last
  <2> QED BY <1>3, <1>4, <2>1
<1>6. [i \in 1 .. FieldEnd(m, n) - 1 |-> Byte(m, i)] = m.field
  <2>1. FieldEnd(m, n) - 1 = L
    BY <1>1, <1>5
  <2>2. m.field = [i \in 1 .. L |-> m.field[i]]
    BY <1>1
  <2> HIDE DEF L
  <2> QED BY <1>2, <2>1, <2>2
<1> QED BY <1>1, <1>5, <1>6 DEF mqtt_get_total_length

(* Once the header of a PUBLISH is there, its lengths are right.           *)
LEMMA PublishIsLaid == ASSUME NEW m, WellFormed(m) PROVE Laid(m)
<1> DEFINE b == BodyAt(m)
           t == m.topic
<1>1. b \in Nat /\ t \in Nat /\ TopicAt(m) = b /\ IdAt(m) = b + 2 + t
  BY Fields, PartsOf
<1>2. IdAt(m) \in Nat /\ b <= IdAt(m) /\ TopicAt(m) \in Nat /\ b <= TopicAt(m)
  <2> HIDE DEF b, t
  <2> QED BY <1>1
<1>3. m.field \in Seq(Nat) /\ m.field # <<>>
  BY DEF WellFormed
<1>4. \A i \in 1 .. Len(m.field) : m.field[i] < 128 <=> i = Len(m.field)
  BY DEF WellFormed
<1> QED BY <1>2, <1>3, <1>4 DEF Laid

LEMMA PublishFirst ==
    ASSUME NEW m, WellFormed(m)
    PROVE  mqtt_get_type(m) = 3 /\ mqtt_get_qos(m) = m.qos
<1>1. Laid(m) /\ m.type = 3 /\ m.qos \in 0 .. 2 /\ 3 \in 0 .. 15
  BY PublishIsLaid, Fields
<1> QED BY <1>1, FirstByte

LEMMA HeaderRead ==
    ASSUME NEW m, WellFormed(m), NEW n \in Nat, DataAt(m) <= n
    PROVE  /\ FieldEnd(m, n) = BodyAt(m)
           /\ mqtt_get_total_length(m, n) = Size(m)
<1> DEFINE L == Len(m.field)
<1>1. L \in Nat /\ L < n
  <2>1. L \in Nat /\ m.topic \in Nat
    BY Fields
  <2>2. BodyAt(m) = 1 + L /\ IdLength(m.qos) \in {0, 2}
    BY PartsOf
  <2>3. DataAt(m) = BodyAt(m) + 2 + m.topic + IdLength(m.qos)
    BY PartsOf
  <2> HIDE DEF L
  <2> QED BY <2>1, <2>2, <2>3
<1>2. /\ FieldEnd(m, n) = BodyAt(m)
      /\ mqtt_get_total_length(m, n) = FieldValue(m.field) + BodyAt(m)
  BY <1>1, PublishIsLaid, LengthRead
<1>3. FieldValue(m.field) = Size(m) - BodyAt(m) /\ Size(m) \in Nat /\ BodyAt(m) \in Nat
  BY Fields, PartsOf
<1> QED BY <1>2, <1>3

LEMMA MinOf == ASSUME NEW a \in Int, NEW b \in Int PROVE Min({a, b}) = IF a <= b THEN a ELSE b
<1> DEFINE c == IF a <= b THEN a ELSE b
<1>1. c \in {a, b} /\ \A y \in {a, b} : c <= y
  OBVIOUS
<1>2. \A x \in {a, b} : (\A y \in {a, b} : x <= y) => x = c
  OBVIOUS
<1> HIDE DEF c
<1>3. Min({a, b}) = c
  BY <1>1, <1>2 DEF Min
<1> QED BY <1>3 DEF c

(* The data is never longer than what was read; and once the header is     *)
(* there, it is what follows it, also if that is nothing.                  *)
LEMMA DataRead ==
    ASSUME NEW m, WellFormed(m), NEW n \in Nat, n >= 1
    PROVE  /\ mqtt_get_publish_data(m, n).at \in Int /\ mqtt_get_publish_data(m, n).len \in Nat
           /\ DataAt(m) <= n /\ n <= Size(m) =>
                /\ mqtt_get_publish_data(m, n).len = n - DataAt(m)
                /\ n > DataAt(m) => mqtt_get_publish_data(m, n).at = DataAt(m)
<1> DEFINE i     == FieldEnd(m, n)
           total == mqtt_get_total_length(m, n)
           topic == i + 2 + Word16(m, i)
           data  == topic + IdLength(m.qos)
           none  == \/ i + 2 >= n \/ topic >= n
                    \/ m.qos > 0 /\ topic + 2 >= n
                    \/ total < data
           found == mqtt_get_publish_data(m, n)
<1>1. found = IF none THEN [at |-> NULL, len |-> 0]
                      ELSE [at |-> data, len |-> Min({total, n}) - data]
  BY PublishFirst DEF mqtt_get_publish_data
<1>2. i \in Nat /\ i >= 1 /\ total \in Nat
  BY FieldEndType, LengthType
<1>3. Word16(m, i) \in Nat
  <2>1. i + 1 \in Nat /\ i \in Nat
    BY <1>2
  <2> HIDE DEF i
  <2>2. Byte(m, i) \in Nat /\ Byte(m, i + 1) \in Nat
    BY <2>1, Bytes
  <2> QED BY <2>2 DEF Word16
<1>4. IdLength(m.qos) \in {0, 2} /\ (m.qos > 0 <=> IdLength(m.qos) = 2) /\ m.qos \in Nat
  <2>1. m.qos \in 0 .. 2
    BY Fields
  <2>2. IdLength(m.qos) \in {0, 2} /\ (m.qos > 0 <=> IdLength(m.qos) = 2)
    BY PartsOf
  <2> QED BY <2>1, <2>2
<1>5. topic \in Nat /\ data \in Nat
  <2> HIDE DEF i
  <2> QED BY <1>2, <1>3, <1>4
<1>6. Min({total, n}) = IF total <= n THEN total ELSE n
  BY <1>2, MinOf
<1> DEFINE whole == DataAt(m) <= n /\ n <= Size(m)
<1>7. whole => i = BodyAt(m) /\ total = Size(m)
  BY HeaderRead
<1>8. whole => topic = BodyAt(m) + 2 + m.topic
  <2> SUFFICES ASSUME whole PROVE topic = BodyAt(m) + 2 + m.topic
    OBVIOUS
  <2>1. BodyAt(m) \in Nat /\ BodyAt(m) + 1 \in Nat /\ m.topic \in Nat /\ m.topic < 65536
    <3>1. BodyAt(m) \in Nat
      BY PartsOf
    <3>2. m.topic \in Nat /\ m.topic < 65536
      BY Numbers
    <3> QED BY <3>1, <3>2
  <2>2. Byte(m, BodyAt(m)) = HighByte(m.topic) /\ Byte(m, BodyAt(m) + 1) = LowByte(m.topic)
    BY <2>1, Bytes
  <2>3. Word16(m, BodyAt(m)) = m.topic
    <3>1. HighByte(m.topic) * 256 + LowByte(m.topic) = m.topic
      <4> DEFINE t == m.topic
      <4>1. t \in Nat /\ t < 65536
        BY <2>1
      <4> HIDE DEF t
      <4>2. HighByte(t) * 256 + LowByte(t) = t
        BY <4>1, Halves
      <4> QED BY <4>2 DEF t
    <3> QED BY <2>2, <3>1 DEF Word16
  <2> QED BY <1>7, <2>3
<1>9. whole => data = DataAt(m)
  BY <1>8, PartsOf
<1>10. /\ DataAt(m) = BodyAt(m) + 2 + m.topic + IdLength(m.qos)
       /\ BodyAt(m) \in Nat /\ DataAt(m) \in Nat /\ Size(m) \in Nat /\ DataAt(m) <= Size(m)
       /\ m.topic \in Nat /\ m.topic > 0
  <2>1. m.data \in Nat /\ m.topic \in Nat /\ m.topic > 0
    BY Fields
  <2> QED BY <2>1, PartsOf
<1>11. whole => (none <=> n = DataAt(m))
  <2> HIDE DEF i, total, topic, data
  <2>1. ASSUME whole PROVE i = BodyAt(m) /\ total = Size(m) /\ topic = BodyAt(m) + 2 + m.topic
                           /\ data = DataAt(m)
    BY <1>7, <1>8, <1>9, <2>1
  <2> QED BY <1>4, <1>10, <2>1
<1> HIDE DEF i, total, topic, data
<1>12. found.at \in Int /\ found.len \in Nat
  <2>1. CASE none
    <3> HIDE DEF none, found
    <3>1. found.at = NULL /\ found.len = 0
      BY <1>1, <2>1
    <3> QED BY <3>1 DEF NULL
  <2>2. CASE ~none
    <3>1. data <= total /\ data <= n
      BY <1>2, <1>4, <1>5, <2>2 DEF data
    <3> HIDE DEF none, found
    <3>2. found.at = data /\ found.len = Min({total, n}) - data
      BY <1>1, <2>2
    <3> QED BY <1>2, <1>5, <1>6, <3>1, <3>2
  <2> QED BY <2>1, <2>2
<1>13. whole => found.len = n - DataAt(m) /\ (n > DataAt(m) => found.at = DataAt(m))
  <2> SUFFICES ASSUME whole
               PROVE  found.len = n - DataAt(m) /\ (n > DataAt(m) => found.at = DataAt(m))
    OBVIOUS
  <2>1. CASE n = DataAt(m)
    <3>1. none
      BY <1>11, <2>1
    <3> HIDE DEF none, found
    <3>2. found.len = 0
      BY <1>1, <3>1
    <3> QED BY <1>10, <2>1, <3>2
  <2>2. CASE n # DataAt(m)
    <3>1. ~none
      BY <1>11, <2>2
    <3> HIDE DEF none, found
    <3>2. found.at = data /\ found.len = Min({total, n}) - data
      BY <1>1, <3>1
    <3>3. data = DataAt(m) /\ total = Size(m)
      BY <1>7, <1>9
    <3>4. Min({total, n}) = n
      BY <1>6, <1>10, <3>3
    <3> QED BY <3>2, <3>3, <3>4
  <2> QED BY <2>1, <2>2
<1> HIDE DEF found
<1> QED BY <1>12, <1>13 DEF found
-----------------------------------------------------------------------------
(* The codec with the larger buffer has the same layout and readers; only  *)
(* its builders look at the length of the buffer.                          *)

LEMMA SameLayout ==
    ASSUME NEW m
    PROVE  /\ Codec!BodyAt(m) = BodyAt(m) /\ Codec!IdAt(m) = IdAt(m)
           /\ Codec!DataAt(m) = DataAt(m) /\ Codec!TopicAt(m) = TopicAt(m)
           /\ Codec!Size(m) = Size(m)
           /\ \A i : Codec!Byte(m, i) = Byte(m, i)
           /\ \A i : Codec!Word16(m, i) = Word16(m, i)
<1>1. Codec!BodyAt(m) = BodyAt(m) /\ Codec!IdAt(m) = IdAt(m)
  BY DEF Codec!BodyAt, BodyAt, Codec!IdAt, IdAt, Codec!PUBLISH, PUBLISH
<1>2. Codec!DataAt(m) = DataAt(m)
  BY <1>1 DEF Codec!DataAt, DataAt, Codec!IdLength, IdLength,
              Codec!PUBLISH, PUBLISH, Codec!PINGREQ, PINGREQ
<1>3. Codec!TopicAt(m) = TopicAt(m) /\ Codec!Size(m) = Size(m)
  BY <1>1, <1>2 DEF Codec!TopicAt, TopicAt, Codec!Size, Size, Codec!PUBLISH, PUBLISH
<1>4. \A n : Codec!HighByte(n) = HighByte(n) /\ Codec!LowByte(n) = LowByte(n)
  BY DEF Codec!HighByte, HighByte, Codec!LowByte, LowByte
<1>5. \A i : Codec!Byte(m, i) = Byte(m, i)
  BY <1>1, <1>2, <1>3, <1>4 DEF Codec!Byte, Byte
<1>6. \A i : Codec!Word16(m, i) = Word16(m, i)
  BY <1>5 DEF Codec!Word16, Word16
<1> QED BY <1>1, <1>2, <1>3, <1>5, <1>6

LEMMA SameReaders ==
    ASSUME NEW m, NEW n
    PROVE  /\ Codec!mqtt_get_type(m) = mqtt_get_type(m) /\ Codec!mqtt_get_qos(m) = mqtt_get_qos(m)
           /\ Codec!FieldEnd(m, n) = FieldEnd(m, n)
           /\ Codec!mqtt_get_total_length(m, n) = mqtt_get_total_length(m, n)
           /\ Codec!mqtt_get_publish_topic(m, n) = mqtt_get_publish_topic(m, n)
           /\ Codec!mqtt_get_publish_data(m, n) = mqtt_get_publish_data(m, n)
           /\ Codec!mqtt_get_id(m, n) = mqtt_get_id(m, n)
<1> DEFINE last == {i \in 1 .. n - 1 : Byte(m, i) < 128}
           codecLast == {i \in 1 .. n - 1 : Codec!Byte(m, i) < 128}
<1>1. \A s : Max(s) = Codec!Max(s) /\ Min(s) = Codec!Min(s)
  BY DEF Max, Min, Codec!Max, Codec!Min
<1>2. Codec!FieldEnd(m, n) = FieldEnd(m, n)
  <2>1. last = codecLast
    BY SameLayout
  <2>2. FieldEnd(m, n) = IF last = {} THEN Max({n, 1}) ELSE Min(last) + 1
    BY DEF FieldEnd
  <2>3. Codec!FieldEnd(m, n) = IF codecLast = {} THEN Codec!Max({n, 1}) ELSE Codec!Min(codecLast) + 1
    BY DEF Codec!FieldEnd
  <2> HIDE DEF last, codecLast
  <2> QED BY <1>1, <2>1, <2>2, <2>3
<1>3. Codec!mqtt_get_total_length(m, n) = mqtt_get_total_length(m, n)
  <2> DEFINE bytes == [i \in 1 .. FieldEnd(m, n) - 1 |-> Byte(m, i)]
             codecBytes == [i \in 1 .. Codec!FieldEnd(m, n) - 1 |-> Codec!Byte(m, i)]
  <2>1. bytes = codecBytes
    BY <1>2, SameLayout
  <2>2. \A b : Codec!FieldValue(b) = FieldValue(b)
    BY DEF Codec!FieldValue, FieldValue
  <2>3. /\ mqtt_get_total_length(m, n) = FieldValue(bytes) + FieldEnd(m, n)
        /\ Codec!mqtt_get_total_length(m, n) = Codec!FieldValue(codecBytes) + Codec!FieldEnd(m, n)
    BY DEF mqtt_get_total_length, Codec!mqtt_get_total_length
  <2> HIDE DEF bytes, codecBytes
  <2> QED BY <1>2, <2>1, <2>2, <2>3
<1>7. Codec!mqtt_get_type(m) = mqtt_get_type(m) /\ Codec!mqtt_get_qos(m) = mqtt_get_qos(m)
  BY SameLayout DEF Codec!mqtt_get_type, mqtt_get_type, Codec!mqtt_get_qos, mqtt_get_qos
<1>4. Codec!mqtt_get_publish_topic(m, n) = mqtt_get_publish_topic(m, n)
  BY <1>2, SameLayout DEF Codec!mqtt_get_publish_topic, mqtt_get_publish_topic, Codec!NULL, NULL
<1>5. Codec!mqtt_get_publish_data(m, n) = mqtt_get_publish_data(m, n)
  BY <1>1, <1>2, <1>3, <1>7, SameLayout DEF Codec!mqtt_get_publish_data, mqtt_get_publish_data,
     Codec!NULL, NULL, Codec!IdLength, IdLength
<1>6. Codec!mqtt_get_id(m, n) = mqtt_get_id(m, n)
  BY <1>2, <1>7, SameLayout DEF Codec!mqtt_get_id, mqtt_get_id, Codec!PUBLISH, PUBLISH,
     Codec!PUBACK, PUBACK, Codec!SUBACK, SUBACK, Codec!UNSUBACK, UNSUBACK
<1> QED BY <1>2, <1>3, <1>4, <1>5, <1>6, <1>7

(* fini_message: the two bytes it has are enough for 14 bits.              *)
LEMMA FieldOfOne == ASSUME NEW a PROVE FieldValue(<<a>>) = (a % 128) + 128 * 0
<1> DEFINE g == CHOOSE f : FieldTable(<<a>>, f, 1)
<1>1. FieldTable(<<a>>, g, 1) /\ Len(<<a>>) = 1 /\ <<a>>[1] = a
  BY FieldTables
<1>2. FieldValue(<<a>>) = g[1]
  BY DEF FieldValue, FieldTable
<1> HIDE DEF g
<1>3. g[2] = 0 /\ g[1] = (a % 128) + 128 * g[2]
  BY <1>1 DEF FieldTable
<1> QED BY <1>2, <1>3

LEMMA FieldOfTwo ==
    ASSUME NEW a, NEW b
    PROVE  FieldValue(<<a, b>>) = (a % 128) + 128 * ((b % 128) + 128 * 0)
<1> DEFINE g == CHOOSE f : FieldTable(<<a, b>>, f, 1)
<1>1. FieldTable(<<a, b>>, g, 1) /\ Len(<<a, b>>) = 2 /\ <<a, b>>[1] = a /\ <<a, b>>[2] = b
  BY FieldTables
<1>2. FieldValue(<<a, b>>) = g[1]
  BY DEF FieldValue, FieldTable
<1> HIDE DEF g
<1>3. g[3] = 0 /\ g[2] = (b % 128) + 128 * g[3] /\ g[1] = (a % 128) + 128 * g[2]
  BY <1>1 DEF FieldTable
<1> QED BY <1>2, <1>3

LEMMA LengthFieldHolds ==
    ASSUME NEW r \in Nat, r < 16384
    PROVE  /\ LengthField(r) \in Seq(Nat) /\ LengthField(r) # <<>>
           /\ Len(LengthField(r)) \in 1 .. 2
           /\ \A i \in 1 .. Len(LengthField(r)) :
                LengthField(r)[i] < 256 /\ (LengthField(r)[i] < 128 <=> i = Len(LengthField(r)))
           /\ FieldValue(LengthField(r)) = r
<1>1. CASE r > 127
  <2> DEFINE a == 128 + (r % 128)
             b == (r \div 128) % 256
  <2>1. /\ a \in Nat /\ a >= 128 /\ a < 256 /\ b \in Nat /\ b < 128
        /\ (a % 128) + 128 * ((b % 128) + 128 * 0) = r
    <3>1. r % 128 \in Nat /\ r % 128 < 128 /\ r \div 128 \in Nat /\ r \div 128 < 128
          /\ r = 128 * (r \div 128) + (r % 128)
      OBVIOUS
    <3>2. b = r \div 128 /\ b % 128 = r \div 128 /\ a % 128 = r % 128
      BY <3>1
    <3> QED BY <3>1, <3>2
  <2>2. LengthField(r) = <<a, b>>
    BY <1>1 DEF LengthField
  <2> HIDE DEF a, b
  <2>3. <<a, b>> \in Seq(Nat) /\ <<a, b>> # <<>> /\ Len(<<a, b>>) = 2
        /\ <<a, b>>[1] = a /\ <<a, b>>[2] = b
    BY <2>1
  <2>4. FieldValue(<<a, b>>) = r
    <3>1. FieldValue(<<a, b>>) = (a % 128) + 128 * ((b % 128) + 128 * 0)
      BY FieldOfTwo
    <3> QED BY <2>1, <3>1
  <2> QED BY <2>1, <2>2, <2>3, <2>4
<1>2. CASE ~(r > 127)
  <2>1. LengthField(r) = <<r>>
    BY <1>2 DEF LengthField
  <2>2. <<r>> \in Seq(Nat) /\ <<r>> # <<>> /\ Len(<<r>>) = 1 /\ <<r>>[1] = r /\ r < 128
    BY <1>2
  <2>3. FieldValue(<<r>>) = r
    <3>1. (r % 128) + 128 * 0 = r
      BY <2>2
    <3> QED BY <3>1, FieldOfOne
  <2> QED BY <2>1, <2>2, <2>3
<1> QED BY <1>1, <1>2

(* Sixteen bits at a place are read as they were written.                  *)
LEMMA WordRead ==
    ASSUME NEW m, NEW i, NEW w \in Nat, w < 65536,
           Byte(m, i) = HighByte(w), Byte(m, i + 1) = LowByte(w)
    PROVE  Word16(m, i) = w
BY Halves DEF Word16

(* What mqtt_msg_publish builds is a PUBLISH as MQTT has it.               *)
LEMMA PublishBuilt ==
    ASSUME NEW topic \in Nat, NEW data \in Nat, NEW qos \in 0 .. 2, NEW id \in Nat, id < 65536,
           NEW m, m = Codec!mqtt_msg_publish(topic, data, qos, id), m # Codec!FailMessage
    PROVE  /\ WellFormed(m) /\ m.id = id
           /\ Size(m) <= Large
<1> DEFINE r == 2 + topic + IdLength(qos) + data
<1>1. IdLength(qos) \in {0, 2}
  BY DEF IdLength
<1>2. topic # 0 /\ 3 + r <= Large
      /\ m = [type |-> 3, qos |-> qos, field |-> LengthField(r),
              topic |-> topic, id |-> id, data |-> data]
  <2>1. Codec!IdLength(qos) = IdLength(qos) /\ Codec!LengthField(r) = LengthField(r)
    BY DEF Codec!IdLength, IdLength, Codec!LengthField, LengthField
  <2>2. r = 2 + topic + Codec!IdLength(qos) + data
    BY <2>1
  <2> HIDE DEF r
  <2>3. m = IF topic = 0 \/ 3 + r > Large THEN Codec!FailMessage
            ELSE [type |-> 3, qos |-> qos, field |-> Codec!LengthField(r),
                  topic |-> topic, id |-> id, data |-> data]
    BY <2>2 DEF Codec!mqtt_msg_publish, Codec!MQTT_MAX_FIXED_HEADER_SIZE, Codec!PUBLISH
  <2>4. topic # 0 /\ ~(3 + r > Large)
        /\ m = [type |-> 3, qos |-> qos, field |-> Codec!LengthField(r),
                topic |-> topic, id |-> id, data |-> data]
    BY <2>3
  <2>5. r \in Nat /\ Large \in Nat
    BY <1>1, CodecAssumption DEF r
  <2>6. 3 + r <= Large
    BY <2>4, <2>5
  <2> QED BY <2>1, <2>4, <2>6
<1>3. r \in Nat /\ r < 16384 /\ topic < 65536
  BY <1>1, <1>2, CodecAssumption
<1>4. /\ m.type = 3 /\ m.qos = qos /\ m.field = LengthField(r) /\ m.topic = topic
      /\ m.id = id /\ m.data = data /\ "data" \in DOMAIN m
  BY <1>2
<1> HIDE DEF r
<1>5. /\ m.field \in Seq(Nat) /\ m.field # <<>> /\ Len(m.field) \in 1 .. 2
      /\ \A i \in 1 .. Len(m.field) : m.field[i] < 256 /\ (m.field[i] < 128 <=> i = Len(m.field))
      /\ FieldValue(m.field) = r
  <2> DEFINE f == LengthField(r)
  <2>1. /\ f \in Seq(Nat) /\ f # <<>> /\ Len(f) \in 1 .. 2
        /\ \A i \in 1 .. Len(f) : f[i] < 256 /\ (f[i] < 128 <=> i = Len(f))
        /\ FieldValue(f) = r
    BY <1>3, LengthFieldHolds
  <2>2. m.field = f
    BY <1>4
  <2> HIDE DEF f
  <2> QED BY <2>1, <2>2
<1>6. m \in [type : {PUBLISH}, qos : 0..2, field : Seq(Nat), topic : Nat, id : Nat, data : Nat]
  BY <1>2, <1>4, <1>5 DEF PUBLISH
<1>7. BodyAt(m) = 1 + Len(m.field) /\ Len(m.field) \in 1 .. 2
  BY <1>5 DEF BodyAt
<1>8. Size(m) = BodyAt(m) + r /\ BodyAt(m) \in 2 .. 3
  <2>1. IdAt(m) = BodyAt(m) + (2 + topic) /\ DataAt(m) = IdAt(m) + IdLength(qos)
        /\ Size(m) = DataAt(m) + data
    <3>1. IdAt(m) = BodyAt(m) + (2 + topic)
      BY <1>4 DEF IdAt, PUBLISH
    <3>2. DataAt(m) = IdAt(m) + IdLength(qos)
      BY <1>4 DEF DataAt, PUBLISH, PINGREQ
    <3>3. Size(m) = DataAt(m) + data
      BY <1>4 DEF Size
    <3> QED BY <3>1, <3>2, <3>3
  <2>2. BodyAt(m) \in 2 .. 3
    <3> DEFINE l == Len(m.field)
    <3>1. BodyAt(m) = 1 + l /\ l \in 1 .. 2
      BY <1>7
    <3> HIDE DEF l
    <3> QED BY <3>1
  <2>3. r = 2 + topic + IdLength(qos) + data
    BY DEF r
  <2> QED BY <1>1, <2>1, <2>2, <2>3
<1>9. Size(m) <= Large /\ FieldValue(m.field) = Size(m) - BodyAt(m)
  <2>1. Large \in Nat /\ 3 + r <= Large
    BY <1>2, CodecAssumption
  <2> QED BY <1>3, <1>5, <1>8, <2>1
<1>10. 0 < m.topic /\ m.topic < 65536 /\ m.id < 65536
  BY <1>2, <1>3, <1>4
<1>11. \A i \in 1..Len(m.field) : m.field[i] < 256 /\ (m.field[i] < 128 <=> i = Len(m.field))
  BY <1>5
<1>12. m.field # <<>> /\ Len(m.field) <= 4
  <2> DEFINE l == Len(m.field)
  <2>1. l \in 1 .. 2
    BY <1>5
  <2> HIDE DEF l
  <2>2. l <= 4
    BY <2>1
  <2> QED BY <1>5, <2>2 DEF l
<1> QED BY <1>4, <1>6, <1>9, <1>10, <1>11, <1>12 DEF WellFormed

(* The readers find type, QoS, topic and data of any PUBLISH, and its id   *)
(* unless that ends with the last byte they may look at.                   *)
LEMMA PublishRead ==
    ASSUME NEW m, WellFormed(m)
    PROVE  /\ mqtt_get_type(m) = 3 /\ mqtt_get_qos(m) = m.qos
           /\ mqtt_get_total_length(m, Size(m)) = Size(m)
           /\ mqtt_get_publish_topic(m, Size(m)) = [at |-> TopicAt(m) + 2, len |-> m.topic]
           /\ mqtt_get_publish_data(m, Size(m)).len = m.data
           /\ m.data > 0 => mqtt_get_publish_data(m, Size(m)).at = DataAt(m)
           /\ \A n \in Nat : n >= Size(m) =>
                mqtt_get_id(m, n) = IF m.qos > 0 /\ DataAt(m) < n THEN m.id ELSE 0
<1> DEFINE n == Size(m)
           b == BodyAt(m)
           t == m.topic
           d == DataAt(m)
           q == IdLength(m.qos)
<1>1. /\ n \in Nat /\ b \in Nat /\ b >= 2 /\ t \in Nat /\ t > 0 /\ t < 65536
      /\ m.data \in Nat /\ n = d + m.data /\ d = b + 2 + t + q /\ q \in {0, 2} /\ d \in Nat
      /\ TopicAt(m) = b /\ (m.qos > 0 <=> q = 2)
      /\ IdAt(m) = b + 2 + t
  <2>1. b = 1 + Len(m.field) /\ Len(m.field) \in Nat /\ Len(m.field) >= 1
    BY Fields, PartsOf
  <2>2. b >= 2
    BY <2>1
  <2> QED BY <2>2, Numbers, PartsOf
<1>2. d <= n /\ n >= 1
  <2> DEFINE l == m.data
  <2>1. l \in Nat /\ n = d + l /\ d = b + 2 + t + q
    BY <1>1
  <2> HIDE DEF n, b, t, d, q, l
  <2> QED BY <1>1, <2>1
<1>3. FieldEnd(m, n) = b /\ mqtt_get_total_length(m, n) = n
  BY <1>1, <1>2, HeaderRead
<1>4. Word16(m, b) = t
  <2>1. b \in Nat /\ b + 1 \in Nat
    BY <1>1
  <2>2. Byte(m, b) = HighByte(t) /\ Byte(m, b + 1) = LowByte(t)
    BY <2>1, Bytes
  <2> HIDE DEF b, t
  <2> QED BY <1>1, <2>2, WordRead
<1>5. mqtt_get_publish_topic(m, n) = [at |-> TopicAt(m) + 2, len |-> t]
  <2>1. ~(b + 2 >= n) /\ ~(b + 2 + t > n)
    <3> DEFINE l == m.data
    <3>1. l \in Nat /\ n = d + l /\ d = b + 2 + t + q
      BY <1>1
    <3> HIDE DEF n, b, t, d, q, l
    <3> QED BY <1>1, <3>1
  <2>2. TopicAt(m) = b
    BY <1>1
  <2> HIDE DEF n, b, t
  <2> QED BY <1>3, <1>4, <2>1, <2>2 DEF mqtt_get_publish_topic
<1>6. /\ mqtt_get_publish_data(m, n).len = n - d
      /\ n > d => mqtt_get_publish_data(m, n).at = d
  BY <1>1, <1>2, DataRead
<1>7. n - d = m.data /\ (m.data > 0 => n > d)
  <2> DEFINE l == m.data
  <2>1. l \in Nat /\ n = d + l
    BY <1>1
  <2> HIDE DEF n, d, l
  <2>2. n - d = l /\ (l > 0 => n > d)
    BY <1>1, <2>1
  <2> QED BY <2>2 DEF l
<1>8. ASSUME NEW k \in Nat, k >= n
      PROVE  mqtt_get_id(m, k) = IF m.qos > 0 /\ d < k THEN m.id ELSE 0
  <2>1. d <= k
    <3> HIDE DEF n, d
    <3> QED BY <1>1, <1>2, <1>8
  <2>2. FieldEnd(m, k) = b
    BY <2>1, HeaderRead
  <2> DEFINE a == b + 2 + t
             id == m.id
  <2>3. ASSUME m.qos > 0 PROVE Word16(m, a) = id
    <3>1. a = IdAt(m) /\ a \in Nat /\ a + 1 \in Nat
      BY <1>1
    <3>2. id \in Nat /\ id < 65536
      BY Numbers
    <3>3. Byte(m, a) = HighByte(id) /\ Byte(m, a + 1) = LowByte(id)
      BY <2>3, <3>1, Bytes
    <3> HIDE DEF a, id
    <3> QED BY <3>2, <3>3, WordRead
  <2> DEFINE cut == b + 2 >= k \/ a >= k \/ m.qos = 0 \/ a + 2 >= k
  <2>4. cut <=> ~(m.qos > 0 /\ d < k)
    <3>1. m.qos \in 0 .. 2
      BY Fields
    <3> HIDE DEF n, b, t, d, q
    <3> QED BY <1>1, <1>8, <2>1, <3>1
  <2>5. mqtt_get_id(m, k) = IF cut THEN 0 ELSE Word16(m, a)
    <3>1. mqtt_get_type(m) = PUBLISH /\ mqtt_get_qos(m) = m.qos
      BY PublishFirst DEF PUBLISH
    <3> HIDE DEF b, t
    <3> QED BY <1>4, <2>2, <3>1 DEF mqtt_get_id
  <2> HIDE DEF cut, a, d
  <2> QED BY <2>3, <2>4, <2>5
<1> QED BY <1>3, <1>5, <1>6, <1>7, <1>8, PublishFirst

(* What all other builders have in common: a length field of one or two    *)
(* bytes that holds r, and r bytes behind it.                              *)
LEMMA BuiltIsLaid ==
    ASSUME NEW m, NEW r \in Nat, r < 16384, m.field = LengthField(r),
           IdAt(m) = BodyAt(m), TopicAt(m) - BodyAt(m) \in 0 .. 2, TopicAt(m) \in Int,
           Size(m) = BodyAt(m) + r
    PROVE  /\ Laid(m) /\ BodyAt(m) \in 2 .. 3
           /\ Len(m.field) < BodyAt(m)
           /\ Len(m.field) < Size(m) /\ Size(m) \in Nat
           /\ FieldEnd(m, Size(m)) = BodyAt(m)
           /\ mqtt_get_total_length(m, Size(m)) = Size(m)
<1> DEFINE f == m.field
           L == Len(f)
           b == BodyAt(m)
<1>1. /\ f \in Seq(Nat) /\ f # <<>> /\ L \in 1 .. 2
      /\ \A i \in 1 .. L : f[i] < 128 <=> i = L
      /\ FieldValue(f) = r
  <2> DEFINE g == LengthField(r)
  <2>1. /\ g \in Seq(Nat) /\ g # <<>> /\ Len(g) \in 1 .. 2
        /\ \A i \in 1 .. Len(g) : g[i] < 128 <=> i = Len(g)
        /\ FieldValue(g) = r
    BY LengthFieldHolds
  <2> HIDE DEF g
  <2>2. f = g
    BY DEF g
  <2> HIDE DEF f
  <2> QED BY <2>1, <2>2
<1>2. b = 1 + L
  BY DEF BodyAt
<1>3. b \in 2 .. 3 /\ L < b
  <2> HIDE DEF L, b
  <2> QED BY <1>1, <1>2
<1>4. IdAt(m) \in Nat /\ b <= IdAt(m) /\ TopicAt(m) \in Nat /\ b <= TopicAt(m)
  <2> HIDE DEF b
  <2>1. TopicAt(m) - b \in 0 .. 2
    BY DEF b
  <2> QED BY <1>3, <2>1 DEF b
<1>5. Laid(m)
  BY <1>1, <1>4 DEF Laid
<1>6. L \in Nat /\ Size(m) \in Nat /\ L < Size(m)
  <2>1. Size(m) = b + r
    OBVIOUS
  <2> HIDE DEF L, b
  <2> QED BY <1>1, <1>3, <2>1
<1>7. FieldEnd(m, Size(m)) = b /\ mqtt_get_total_length(m, Size(m)) = r + b
  BY <1>1, <1>5, <1>6, LengthRead
<1>8. r + b = Size(m)
  <2>1. Size(m) = b + r
    OBVIOUS
  <2> HIDE DEF b
  <2> QED BY <1>3, <2>1
<1> QED BY <1>3, <1>5, <1>6, <1>7, <1>8

(* An acknowledgement is read with its type, its QoS and its id.           *)
LEMMA AckRead ==
    ASSUME NEW type \in 4 .. 7, NEW qos \in 0 .. 1, NEW id \in Nat, id < 65536,
           NEW m, m = Codec!AckMessage(type, qos, id), m # Codec!FailMessage
    PROVE  /\ m.type = type /\ m.id = id
           /\ mqtt_get_type(m) = m.type /\ mqtt_get_qos(m) = m.qos
           /\ Size(m) <= Large
           /\ mqtt_get_total_length(m, Size(m)) = Size(m)
           /\ mqtt_get_id(m, Large) = id
<1>1. Codec!LengthField(2) = LengthField(2) /\ LengthField(2) = << 2 >>
  BY DEF Codec!LengthField, LengthField
<1>2. ~(5 > Large) /\ m = [type |-> type, qos |-> qos, field |-> LengthField(2), id |-> id]
  BY <1>1 DEF Codec!AckMessage, Codec!MQTT_MAX_FIXED_HEADER_SIZE
<1>3. /\ m.type = type /\ m.qos = qos /\ m.field = LengthField(2) /\ m.field = << 2 >> /\ m.id = id
      /\ "topic" \notin DOMAIN m /\ "data" \notin DOMAIN m
  BY <1>1, <1>2
<1>4. BodyAt(m) = 2
  <2>1. Len(m.field) = 1
    BY <1>3
  <2>2. BodyAt(m) = 1 + Len(m.field)
    BY DEF BodyAt
  <2> QED BY <2>1, <2>2
<1>5. IdAt(m) = 2
  BY <1>3, <1>4 DEF IdAt, PUBLISH
<1>6. DataAt(m) = 4
  BY <1>3, <1>5 DEF DataAt, PUBLISH, PINGREQ
<1>7. TopicAt(m) = 4 /\ Size(m) = 4
  BY <1>3, <1>6 DEF TopicAt, Size, PUBLISH
<1>8. mqtt_get_total_length(m, Size(m)) = Size(m) /\ Laid(m)
  <2>1. IdAt(m) = BodyAt(m) /\ TopicAt(m) - BodyAt(m) \in 0 .. 2 /\ TopicAt(m) \in Int
        /\ Size(m) = BodyAt(m) + 2 /\ 2 \in Nat /\ 2 < 16384
    BY <1>4, <1>5, <1>7
  <2>2. m.field = LengthField(2)
    BY <1>3
  <2> QED BY <2>1, <2>2, BuiltIsLaid
<1>9. Large \in Nat /\ Large >= 5
  BY <1>2, CodecAssumption
<1>10. Byte(m, 1) = 2
  <2>1. Len(m.field) = 1 /\ m.field[1] = 2
    BY <1>3
  <2> QED BY <1>8, <2>1, FieldBytes
<1>11. Byte(m, 2) = HighByte(id) /\ Byte(m, 3) = LowByte(id)
  <2>1. Len(m.field) = 1
    BY <1>3
  <2> QED BY <1>3, <1>5, <1>6, <2>1 DEF Byte
<1>12. Word16(m, 2) = id
  BY <1>11, WordRead
<1>14. mqtt_get_type(m) = type /\ mqtt_get_qos(m) = qos
  <2>1. type \in 0 .. 15 /\ qos \in 0 .. 2
    OBVIOUS
  <2> QED BY <1>3, <1>8, <2>1, FirstByte
<1>13. mqtt_get_id(m, Large) = id
  <2>1. mqtt_get_type(m) # PUBLISH /\ mqtt_get_type(m) \in PUBACK..SUBACK \cup {UNSUBACK}
    BY <1>14 DEF PUBLISH, PUBACK, SUBACK, UNSUBACK
  <2> QED BY <1>9, <1>10, <1>12, <2>1 DEF mqtt_get_id
<1> QED BY <1>3, <1>7, <1>8, <1>9, <1>13, <1>14

(* A SUBSCRIBE is read with its id and topic, by the client's own reader   *)
(* only with a length field of one byte; an UNSUBSCRIBE by a broker only.  *)
LEMMA TopicRead ==
    ASSUME NEW type \in {8, 10}, NEW topic \in Nat, NEW id \in Nat, id < 65536,
           NEW m, m = Codec!TopicMessage(type, topic, id), m # Codec!FailMessage
    PROVE  /\ m.type = type /\ m.id = id /\ m.topic = topic
           /\ mqtt_get_type(m) = m.type /\ mqtt_get_qos(m) = m.qos
           /\ mqtt_get_id(m, Large) = IF type = 8 /\ Len(m.field) = 1 THEN id ELSE 0
           /\ Size(m) <= Large
           /\ mqtt_get_total_length(m, Size(m)) = Size(m)
           /\ Word16(m, FieldEnd(m, Size(m))) = id
           /\ Word16(m, FieldEnd(m, Size(m)) + 2) = topic
           /\ FieldEnd(m, Size(m)) + 4 + topic = Size(m) - IF type = 8 THEN 1 ELSE 0
<1> DEFINE o == IF type = 8 THEN 1 ELSE 0
           l == 2 + topic + o
           r == 2 + l
           b == BodyAt(m)
<1>1. o \in {0, 1} /\ l \in Nat /\ r \in Nat /\ r = 4 + topic + o
  OBVIOUS
<1>2. Codec!LengthField(r) = LengthField(r)
  BY DEF Codec!LengthField, LengthField
<1>3. /\ topic # 0 /\ ~(3 + r > Large)
      /\ m = [type |-> type, qos |-> 1, field |-> LengthField(r),
              topic |-> topic, id |-> id, data |-> l]
  BY <1>2 DEF Codec!TopicMessage, Codec!MQTT_MAX_FIXED_HEADER_SIZE, Codec!SUBSCRIBE
<1>4. /\ m.type = type /\ m.qos = 1 /\ m.field = LengthField(r) /\ m.topic = topic /\ m.id = id
      /\ m.data = l /\ "topic" \in DOMAIN m /\ "data" \in DOMAIN m
  <2> HIDE DEF l, r
  <2> QED BY <1>3
<1>5. Large \in Nat /\ 3 + r <= Large /\ r < 16384 /\ topic < 65536
  <2> HIDE DEF r, o
  <2> QED BY <1>1, <1>3, CodecAssumption
<1> HIDE DEF o, l, r
<1>6. b \in Nat
  <2>1. Len(LengthField(r)) \in 1 .. 2
    BY <1>1, <1>5, LengthFieldHolds
  <2> QED BY <1>4, <2>1 DEF BodyAt
<1>7. IdAt(m) = b
  <2>1. IdAt(m) = b + 0
    BY <1>4 DEF IdAt, PUBLISH
  <2> HIDE DEF b
  <2> QED BY <1>6, <2>1
<1>8. DataAt(m) = b + 2
  BY <1>4, <1>7 DEF DataAt, PUBLISH, PINGREQ
<1>9. TopicAt(m) = b + 2
  BY <1>4, <1>8 DEF TopicAt, PUBLISH
<1>10. Size(m) = b + r
  <2>1. Size(m) = (b + 2) + l
    BY <1>4, <1>8 DEF Size
  <2>2. r = 2 + l
    BY DEF r
  <2> HIDE DEF b
  <2> QED BY <1>1, <1>6, <2>1, <2>2
<1>11. TopicAt(m) - b \in 0 .. 2 /\ TopicAt(m) \in Int
  <2> HIDE DEF b
  <2> QED BY <1>6, <1>9
<1>12. /\ Laid(m) /\ b \in 2 .. 3 /\ Len(m.field) < b
       /\ FieldEnd(m, Size(m)) = b /\ mqtt_get_total_length(m, Size(m)) = Size(m)
  BY <1>1, <1>4, <1>5, <1>7, <1>10, <1>11, BuiltIsLaid
<1>13. /\ Byte(m, b) = HighByte(id) /\ Byte(m, b + 1) = LowByte(id)
       /\ Byte(m, b + 2) = HighByte(topic) /\ Byte(m, b + 3) = LowByte(topic)
  <2> DEFINE L == Len(m.field)
  <2>1. L < b /\ L \in Nat
    BY <1>12, LenProperties DEF Laid
  <2> HIDE DEF L, b
  <2> QED BY <1>4, <1>6, <1>7, <1>8, <1>9, <1>12, <2>1 DEF Byte, L
<1>14. Word16(m, b) = id /\ Word16(m, b + 2) = topic
  <2>1. (b + 2) + 1 = b + 3
    BY <1>6
  <2> HIDE DEF b
  <2> QED BY <1>5, <1>13, <2>1, WordRead
<1>15. Size(m) <= Large /\ b + 4 + topic = Size(m) - o
  <2> HIDE DEF b
  <2> QED BY <1>1, <1>5, <1>10, <1>12
<1>16. mqtt_get_type(m) = type /\ mqtt_get_qos(m) = 1
  <2>1. type \in 0 .. 15 /\ 1 \in 0 .. 2
    OBVIOUS
  <2> QED BY <1>4, <1>12, <2>1, FirstByte
<1>17. Len(m.field) \in 1 .. 2 /\ (Byte(m, 1) < 128 <=> Len(m.field) = 1)
  <2> DEFINE f == LengthField(r)
  <2>1. /\ Len(f) \in 1 .. 2
        /\ \A i \in 1 .. Len(f) : f[i] < 128 <=> i = Len(f)
    BY <1>1, <1>5, LengthFieldHolds
  <2>2. m.field = f
    BY <1>4
  <2> HIDE DEF f
  <2>3. 1 \in 1 .. Len(f)
    BY <2>1
  <2>4. Byte(m, 1) = f[1]
    BY <1>12, <2>2, <2>3, FieldBytes
  <2> QED BY <2>1, <2>2, <2>3, <2>4
<1>18. Len(m.field) = 1 => b = 2
  BY DEF BodyAt
<1>19. mqtt_get_id(m, Large) = IF type = 8 /\ Len(m.field) = 1 THEN id ELSE 0
  <2>1. mqtt_get_type(m) # PUBLISH /\ (mqtt_get_type(m) \in PUBACK..SUBACK \cup {UNSUBACK} <=> type = 8)
    BY <1>16 DEF PUBLISH, PUBACK, SUBACK, UNSUBACK
  <2>2. Large >= 4
    <3> HIDE DEF b
    <3> QED BY <1>1, <1>5
  <2>3. Len(m.field) = 1 => Word16(m, 2) = id
    <3> HIDE DEF b
    <3> QED BY <1>14, <1>18
  <2> HIDE DEF b
  <2> QED BY <1>17, <2>1, <2>2, <2>3 DEF mqtt_get_id
<1> QED BY <1>4, <1>12, <1>14, <1>15, <1>16, <1>19 DEF o

LEMMA EmptyRead ==
    ASSUME NEW type \in 12 .. 14, NEW m, m = Codec!EmptyMessage(type)
    PROVE  /\ m.type = type /\ Size(m) <= Large
           /\ mqtt_get_type(m) = m.type /\ mqtt_get_qos(m) = m.qos /\ mqtt_get_id(m, Large) = 0
           /\ mqtt_get_total_length(m, Size(m)) = Size(m)
<1>1. Codec!LengthField(0) = LengthField(0) /\ LengthField(0) = << 0 >>
  BY DEF Codec!LengthField, LengthField
<1>2. m = [type |-> type, qos |-> 0, field |-> LengthField(0)]
  BY <1>1 DEF Codec!EmptyMessage
<1>3. m.type = type /\ m.qos = 0 /\ m.field = LengthField(0) /\ m.field = << 0 >> /\ "data" \notin DOMAIN m
  BY <1>1, <1>2
<1>4. BodyAt(m) = 2
  <2>1. Len(m.field) = 1
    BY <1>3
  <2>2. BodyAt(m) = 1 + Len(m.field)
    BY DEF BodyAt
  <2> QED BY <2>1, <2>2
<1>5. IdAt(m) = 2
  BY <1>3, <1>4 DEF IdAt, PUBLISH
<1>6. DataAt(m) = 2
  BY <1>3, <1>5 DEF DataAt, PUBLISH, PINGREQ
<1>7. TopicAt(m) = 2 /\ Size(m) = 2
  BY <1>3, <1>6 DEF TopicAt, Size, PUBLISH
<1>8. mqtt_get_total_length(m, Size(m)) = Size(m) /\ Laid(m)
  <2>1. IdAt(m) = BodyAt(m) /\ TopicAt(m) - BodyAt(m) \in 0 .. 2 /\ TopicAt(m) \in Int
        /\ Size(m) = BodyAt(m) + 0 /\ 0 \in Nat /\ 0 < 16384
    BY <1>4, <1>5, <1>7
  <2>2. m.field = LengthField(0)
    BY <1>3
  <2> QED BY <2>1, <2>2, BuiltIsLaid
<1>9. mqtt_get_type(m) = type /\ mqtt_get_qos(m) = 0
  <2>1. type \in 0 .. 15 /\ 0 \in 0 .. 2
    OBVIOUS
  <2> QED BY <1>3, <1>8, <2>1, FirstByte
<1>10. mqtt_get_id(m, Large) = 0
  <2>1. mqtt_get_type(m) # PUBLISH /\ mqtt_get_type(m) \notin PUBACK..SUBACK \cup {UNSUBACK}
    BY <1>9 DEF PUBLISH, PUBACK, SUBACK, UNSUBACK
  <2> QED BY <2>1 DEF mqtt_get_id
<1> QED BY <1>3, <1>7, <1>8, <1>9, <1>10, CodecAssumption

(* Every message the client builds is read as ClientReads and TopicReads   *)
(* say.                                                                    *)
LEMMA BuiltIsRead ==
    ASSUME NEW m \in Codec!Built
    PROVE  /\ Codec!Size(m) <= Large
           /\ Codec!mqtt_get_total_length(m, Codec!Size(m)) = Codec!Size(m)
           /\ Codec!ClientReads(m) /\ Codec!TopicReads(m)
<1> DEFINE n == Size(m)
           idRead == IF \/ m.type = 3 /\ m.qos > 0 /\ DataAt(m) < Large
                        \/ m.type \in 4 .. 7
                        \/ m.type = 8 /\ Len(m.field) = 1
                     THEN m.id ELSE 0
<1>1. Codec!Size(m) = n /\ m # Codec!FailMessage
  BY SameLayout DEF Codec!Built
<1>7. Codec!IdRead(m) = idRead
  BY SameLayout DEF Codec!IdRead, Codec!PUBLISH, Codec!PUBACK, Codec!PUBCOMP, Codec!SUBSCRIBE
<1>2. SUFFICES
        /\ n <= Large /\ mqtt_get_total_length(m, n) = n
        /\ mqtt_get_type(m) = m.type /\ mqtt_get_qos(m) = m.qos
        /\ m.type = 3 =>
             /\ mqtt_get_publish_topic(m, n) = [at |-> TopicAt(m) + 2, len |-> m.topic]
             /\ mqtt_get_publish_data(m, n).len = m.data
             /\ m.data > 0 => mqtt_get_publish_data(m, n).at = DataAt(m)
        /\ mqtt_get_id(m, Large) = idRead
        /\ m.type \in {8, 10} =>
             /\ Word16(m, FieldEnd(m, n)) = m.id
             /\ Word16(m, FieldEnd(m, n) + 2) = m.topic
             /\ FieldEnd(m, n) + 4 + m.topic = n - IF m.type = 8 THEN 1 ELSE 0
  <2>1. Codec!ClientReads(m)
    <3> HIDE DEF idRead
    <3> QED BY <1>1, <1>2, <1>7, SameLayout, SameReaders DEF Codec!ClientReads, Codec!PUBLISH
  <2>2. Codec!TopicReads(m)
    BY <1>1, <1>2, SameLayout, SameReaders
       DEF Codec!TopicReads, Codec!SUBSCRIBE, Codec!UNSUBSCRIBE
  <2> QED BY <1>1, <1>2, <2>1, <2>2, SameReaders
<1>3. CASE \E t \in Topics, d \in Datas, q \in 0 .. 2, id \in MessageIds :
             m = Codec!mqtt_msg_publish(t, d, q, id)
  <2>1. PICK t \in Topics, d \in Datas, q \in 0 .. 2, id \in MessageIds :
             m = Codec!mqtt_msg_publish(t, d, q, id)
    BY <1>3
  <2>2. t \in Nat /\ d \in Nat /\ id \in Nat /\ id < 65536
    BY CodecAssumption
  <2>3. WellFormed(m) /\ n <= Large
    BY <1>1, <2>1, <2>2, PublishBuilt
  <2>4. m.type = 3
    BY <2>3, Fields
  <2>5. Large \in Nat /\ n \in Nat /\ Large >= n
    BY <2>3, CodecAssumption, PartsOf
  <2>6. m.type # 8 /\ m.type # 10 /\ m.type \notin 4 .. 7
    BY <2>4
  <2>7. mqtt_get_id(m, Large) = idRead
    BY <2>3, <2>4, <2>5, <2>6, PublishRead
  <2> QED BY <2>3, <2>4, <2>6, <2>7, PublishRead
<1>4. CASE \E t \in 4 .. 7, q \in 0 .. 1, id \in MessageIds : m = Codec!AckMessage(t, q, id)
  <2>1. PICK t \in 4 .. 7, q \in 0 .. 1, id \in MessageIds : m = Codec!AckMessage(t, q, id)
    BY <1>4
  <2>2. id \in Nat /\ id < 65536
    BY CodecAssumption
  <2>3. /\ m.type \in 4 .. 7 /\ n <= Large /\ mqtt_get_total_length(m, n) = n
        /\ mqtt_get_type(m) = m.type /\ mqtt_get_qos(m) = m.qos
        /\ mqtt_get_id(m, Large) = m.id
    BY <1>1, <2>1, <2>2, AckRead
  <2>4. m.type # 3 /\ m.type # 8 /\ m.type # 10
    BY <2>3
  <2> QED BY <2>3, <2>4
<1>5. CASE \E t \in {8, 10}, l \in Topics, id \in MessageIds : m = Codec!TopicMessage(t, l, id)
  <2>1. PICK t \in {8, 10}, l \in Topics, id \in MessageIds : m = Codec!TopicMessage(t, l, id)
    BY <1>5
  <2>2. l \in Nat /\ id \in Nat /\ id < 65536
    BY CodecAssumption
  <2>3. /\ m.type = t /\ m.id = id /\ m.topic = l /\ n <= Large
        /\ mqtt_get_total_length(m, n) = n
        /\ mqtt_get_type(m) = m.type /\ mqtt_get_qos(m) = m.qos
        /\ mqtt_get_id(m, Large) = IF t = 8 /\ Len(m.field) = 1 THEN id ELSE 0
        /\ Word16(m, FieldEnd(m, n)) = id /\ Word16(m, FieldEnd(m, n) + 2) = l
        /\ FieldEnd(m, n) + 4 + l = n - IF t = 8 THEN 1 ELSE 0
    BY <1>1, <2>1, <2>2, TopicRead
  <2>4. m.type # 3 /\ m.type \notin 4 .. 7
    BY <2>3
  <2> QED BY <2>3, <2>4
<1>6. CASE \E t \in 12 .. 14 : m = Codec!EmptyMessage(t)
  <2>1. PICK t \in 12 .. 14 : m = Codec!EmptyMessage(t)
    BY <1>6
  <2>2. /\ m.type \in 12 .. 14 /\ n <= Large /\ mqtt_get_total_length(m, n) = n
        /\ mqtt_get_type(m) = m.type /\ mqtt_get_qos(m) = m.qos /\ mqtt_get_id(m, Large) = 0
    BY <2>1, EmptyRead
  <2>3. m.type # 3 /\ m.type \notin 4 .. 7 /\ m.type # 8 /\ m.type # 10
    BY <2>2
  <2> QED BY <2>2, <2>3
<1> QED BY <1>3, <1>4, <1>5, <1>6
      DEF Codec!Built, Codec!PUBACK, Codec!PUBCOMP, Codec!SUBSCRIBE, Codec!UNSUBSCRIBE,
          Codec!PINGREQ, Codec!DISCONNECT
-----------------------------------------------------------------------------
(* The header of a frame.                                                  *)

LEMMA HighLow ==
    ASSUME NEW n \in Nat
    PROVE  /\ Codec!HighAndLow(n) = <<HighByte(n), LowByte(n)>>
           /\ HighByte(n) \in Nat /\ LowByte(n) \in Nat
           /\ n < 65536 => HighByte(n) * 256 + LowByte(n) = n
<1>1. Codec!HighAndLow(n) = <<HighByte(n), LowByte(n)>>
  BY DEF Codec!HighAndLow, HighByte, LowByte
<1>2. HighByte(n) \in Nat /\ LowByte(n) \in Nat
  BY DEF HighByte, LowByte
<1> QED BY <1>1, <1>2, Halves

(* The last four of eight bytes of length.                                 *)
FourBytes(u) ==
    LET byte(i) == IF i < Len(u) THEN u[i + 1] ELSE 0
    IN  byte(6) * 2^24 + byte(7) * 2^16 + byte(8) * 256 + byte(9)

(* The byte behind the opcode decides.                                     *)
LEMMA SizeReadIs ==
    ASSUME NEW frame
    PROVE  LET u == frame.head
               byte(i) == IF i < Len(u) THEN u[i + 1] ELSE 0
           IN  /\ byte(1) % 128 < 126 => Codec!SizeRead(frame) = [len |-> byte(1) % 128, at |-> 2]
               /\ byte(1) % 128 = 126 =>
                    Codec!SizeRead(frame) = [len |-> byte(2) * 256 + byte(3), at |-> 4]
               /\ byte(1) % 128 = 127 /\ (\A i \in 2 .. 5 : byte(i) = 0) =>
                    Codec!SizeRead(frame) = [len |-> FourBytes(u), at |-> 10]
<1> DEFINE u == frame.head
           byte(i) == IF i < Len(u) THEN u[i + 1] ELSE 0
           size    == byte(1) % 128
           four    == FourBytes(u)
           big     == \E i \in 2 .. 5 : byte(i) # 0
           short   == [len |-> byte(1) % 128, at |-> 2]
           middle  == [len |-> byte(2) * 256 + byte(3), at |-> 4]
           long    == [len |-> IF big THEN Codec!TooBig ELSE four, at |-> 10]
<1>1. Codec!SizeRead(frame) = CASE size = 126 -> middle [] size = 127 -> long [] OTHER -> short
  BY Zenon DEF Codec!SizeRead, Codec!WS_SIZE16, Codec!WS_SIZE64, FourBytes
<1>2. (\A i \in 2 .. 5 : byte(i) = 0) => long = [len |-> four, at |-> 10]
  <2> HIDE DEF four
  <2> QED BY Zenon
<1>3. size < 126 => size # 126 /\ size # 127
  <2>1. \A x : x < 126 => x # 126 /\ x # 127
    OBVIOUS
  <2> HIDE DEF size
  <2> QED BY <2>1
<1> DEFINE tall == [len |-> four, at |-> 10]
           zero == \A i \in 2 .. 5 : byte(i) = 0
<1>4. zero => long = tall
  BY <1>2
<1> SUFFICES /\ size < 126 => Codec!SizeRead(frame) = short
             /\ size = 126 => Codec!SizeRead(frame) = middle
             /\ size = 127 /\ zero => Codec!SizeRead(frame) = tall
  BY Zenon
<1> HIDE DEF size, short, middle, long, tall, zero
<1> QED BY <1>1, <1>3, <1>4

(* A length of seven bits.                                                 *)
LEMMA ShortHead ==
    ASSUME NEW b, NEW u, u = << 130 >> \o <<b>>
    PROVE  Len(u) = 2 /\ u[2] = b
OBVIOUS

LEMMA ShortFrame ==
    ASSUME NEW frame, NEW b \in Nat, b % 128 < 126, frame.head = << 130 >> \o <<b>>
    PROVE  /\ Codec!SizeRead(frame) = [len |-> b % 128, at |-> 2]
           /\ Len(frame.head) = 2 /\ frame.head[2] = b
<1> DEFINE u == frame.head
           byte(i) == IF i < Len(u) THEN u[i + 1] ELSE 0
<1>1. Len(u) = 2 /\ u[2] = b
  BY ShortHead
<1>2. byte(1) = b
  BY <1>1
<1>3. byte(1) % 128 < 126 => Codec!SizeRead(frame) = [len |-> byte(1) % 128, at |-> 2]
  BY SizeReadIs
<1> HIDE DEF u, byte
<1> QED BY <1>1, <1>2, <1>3 DEF u

(* A length of sixteen bits.                                               *)
LEMMA MiddleHead ==
    ASSUME NEW b, NEW h, NEW l, NEW u, u = << 130 >> \o (<<b>> \o <<h, l>>)
    PROVE  Len(u) = 4 /\ u[2] = b /\ u[3] = h /\ u[4] = l
OBVIOUS

LEMMA MiddleFrame ==
    ASSUME NEW frame, NEW b \in Nat, b % 128 = 126, NEW h \in Nat, NEW l \in Nat,
           frame.head = << 130 >> \o (<<b>> \o <<h, l>>)
    PROVE  /\ Codec!SizeRead(frame) = [len |-> h * 256 + l, at |-> 4]
           /\ Len(frame.head) = 4 /\ frame.head[2] = b
<1> DEFINE u == frame.head
           byte(i) == IF i < Len(u) THEN u[i + 1] ELSE 0
<1>1. Len(u) = 4 /\ u[2] = b /\ u[3] = h /\ u[4] = l
  BY MiddleHead
<1>2. byte(1) = b /\ byte(2) = h /\ byte(3) = l
  BY <1>1
<1>3. byte(1) % 128 = 126 => Codec!SizeRead(frame) = [len |-> byte(2) * 256 + byte(3), at |-> 4]
  BY SizeReadIs
<1> HIDE DEF u, byte
<1> QED BY <1>1, <1>2, <1>3 DEF u

(* A length of which the server writes eight bytes, and which an int holds. *)
LEMMA LongHead ==
    ASSUME NEW x, NEW h, NEW l, NEW u,
           u = << 130 >> \o (<<127, 0, 0, 0, 0, 0, x>> \o <<h, l>>)
    PROVE  /\ Len(u) = 10 /\ u[2] = 127 /\ u[3] = 0 /\ u[4] = 0 /\ u[5] = 0 /\ u[6] = 0
           /\ u[7] = 0 /\ u[8] = x /\ u[9] = h /\ u[10] = l
OBVIOUS

Word24(x, h, l) == x * 2^16 + h * 256 + l

LEMMA ThreeBytes ==
    ASSUME NEW n \in Nat
    PROVE  \E x \in Nat : x = n \div 2^16 /\ Word24(x, HighByte(n), LowByte(n)) = n
<1> DEFINE k == n \div 256
           y == k \div 256
           h == k % 256
           l == n % 256
<1>1. k \in Nat /\ l \in Nat /\ l < 256 /\ n = 256 * k + l
  OBVIOUS
<1>2. y \in Nat /\ h \in Nat /\ h < 256 /\ k = 256 * y + h
  <2> HIDE DEF k
  <2> QED BY <1>1
<1> HIDE DEF k, y, h, l
<1>3. n = 65536 * y + (256 * h + l) /\ 256 * h + l \in Nat /\ 256 * h + l < 65536
  BY <1>1, <1>2
<1> DEFINE r == 256 * h + l
<1>4. n \div 2^16 = y
  <2>1. n = 65536 * y + r /\ r \in Nat /\ r < 65536 /\ y \in Nat
    BY <1>2, <1>3
  <2> HIDE DEF r
  <2> QED BY <2>1
<1>5. HighByte(n) = h /\ LowByte(n) = l
  BY DEF HighByte, LowByte, h, k, l
<1>6. y \in Nat /\ y * 2^16 + h * 256 + l = n
  BY <1>1, <1>2
<1> QED BY <1>4, <1>5, <1>6 DEF Word24

LEMMA LongFrame ==
    ASSUME NEW frame, NEW x \in Nat, NEW h \in Nat, NEW l \in Nat,
           frame.head = << 130 >> \o (<<127, 0, 0, 0, 0, 0, x>> \o <<h, l>>)
    PROVE  /\ Codec!SizeRead(frame) = [len |-> Word24(x, h, l), at |-> Len(frame.head)]
           /\ Len(frame.head) \in Nat /\ frame.head[2] \in Nat /\ frame.head[2] < 128
<1> DEFINE u == frame.head
           byte(i) == IF i < Len(u) THEN u[i + 1] ELSE 0
<1>1. /\ Len(u) = 10 /\ u[2] = 127 /\ u[3] = 0 /\ u[4] = 0 /\ u[5] = 0 /\ u[6] = 0
      /\ u[7] = 0 /\ u[8] = x /\ u[9] = h /\ u[10] = l
  BY LongHead
<1>2. /\ byte(1) = 127 /\ byte(2) = 0 /\ byte(3) = 0 /\ byte(4) = 0 /\ byte(5) = 0
      /\ byte(6) = 0 /\ byte(7) = x /\ byte(8) = h /\ byte(9) = l
  BY <1>1
<1>3. byte(1) % 128 = 127 /\ (\A i \in 2 .. 5 : byte(i) = 0) =>
        Codec!SizeRead(frame) = [len |-> FourBytes(u), at |-> 10]
  BY SizeReadIs
<1>4. FourBytes(u) = byte(6) * 2^24 + byte(7) * 2^16 + byte(8) * 256 + byte(9)
  BY Zenon DEF FourBytes
<1> HIDE DEF u, byte
<1>5. \A i \in 2 .. 5 : byte(i) = 0
  <2>1. \A i \in 2 .. 5 : i = 2 \/ i = 3 \/ i = 4 \/ i = 5
    OBVIOUS
  <2> QED BY <1>2, <2>1
<1>6. FourBytes(u) = Word24(x, h, l)
  <2>1. 0 * 2^24 + x * 2^16 + h * 256 + l = Word24(x, h, l)
    BY DEF Word24
  <2> QED BY <1>2, <1>4, <2>1
<1>7. byte(1) % 128 = 127
  BY <1>2
<1> QED BY <1>1, <1>3, <1>5, <1>6, <1>7 DEF u

LEMMA MiddleField ==
    ASSUME NEW n \in Nat, n > 125
    PROVE  Codec!SizeField(n) = << 254 >> \o <<HighByte(n), LowByte(n)>>
<1>1. Codec!SizeField(n) = IF n > 125 THEN <<128 + 126>> \o Codec!HighAndLow(n) ELSE <<128 + n>>
  BY Zenon DEF Codec!SizeField, Codec!WS_MASK, Codec!WS_SIZE16
<1>2. Codec!SizeField(n) = <<128 + 126>> \o Codec!HighAndLow(n)
  BY <1>1
<1>3. Codec!HighAndLow(n) = <<HighByte(n), LowByte(n)>>
  BY HighLow
<1>4. <<128 + 126>> = << 254 >>
  OBVIOUS
<1> QED BY Zenon, <1>2, <1>3, <1>4

(* What a client writes is found behind a header that fits the array, and  *)
(* what a server writes is returned as it was sent.                        *)
LEMMA FrameIsWritten ==
    ASSUME NEW n \in Nat, n < 2^16
    PROVE  /\ Codec!HeaderLength(Codec!ws_write(n)) <= 10
           /\ Codec!SizeRead(Codec!ws_write(n)).len = n
           /\ Codec!SizeRead(Codec!ws_write(n)).at = Len(Codec!ws_write(n).head)
<1> DEFINE f == Codec!ws_write(n)
<1>1. f.mask = TRUE /\ f.head = << 130 >> \o Codec!SizeField(n)
  BY DEF Codec!ws_write, Codec!WS_FIN, Codec!WS_OPCODE_BINARY
<1>2. Codec!HeaderLength(f) = Len(f.head) + 4
  <2> HIDE DEF f
  <2> QED BY <1>1 DEF Codec!HeaderLength
<1>3. CASE n <= 125
  <2>1. Codec!SizeField(n) = <<128 + n>>
    BY <1>3 DEF Codec!SizeField, Codec!WS_MASK
  <2>2. 128 + n \in Nat /\ (128 + n) % 128 = n /\ n < 126
    BY <1>3
  <2> HIDE DEF f
  <2>3. Codec!SizeRead(f) = [len |-> n, at |-> 2] /\ Len(f.head) = 2
    BY <1>1, <2>1, <2>2, ShortFrame
  <2> QED BY <1>2, <2>3 DEF f
<1>4. CASE n > 125
  <2>1. Codec!SizeField(n) = << 254 >> \o <<HighByte(n), LowByte(n)>>
    BY <1>4, MiddleField
  <2>2. HighByte(n) \in Nat /\ LowByte(n) \in Nat /\ HighByte(n) * 256 + LowByte(n) = n
    BY HighLow
  <2>3. 254 \in Nat /\ 254 % 128 = 126
    OBVIOUS
  <2> HIDE DEF f
  <2>4. Codec!SizeRead(f) = [len |-> n, at |-> 4] /\ Len(f.head) = 4
    BY <1>1, <2>1, <2>2, <2>3, MiddleFrame
  <2> QED BY <1>2, <2>4 DEF f
<1> QED BY <1>3, <1>4

LEMMA Unmasked ==
    ASSUME NEW frame, NEW n, Codec!SizeRead(frame) = [len |-> n, at |-> Len(frame.head)],
           Len(frame.head) \in Nat, frame.head[2] \in Nat, frame.head[2] < 128
    PROVE  Codec!ws_read(frame) = [at |-> Len(frame.head), len |-> n, intact |-> n]
<1>1. ~(frame.head[2] >= 128)
  OBVIOUS
<1>2. /\ Codec!SizeRead(frame).len = n /\ Codec!SizeRead(frame).at = Len(frame.head)
      /\ Len(frame.head) + 0 = Len(frame.head)
  OBVIOUS
<1> QED BY Zenon, <1>1, <1>2 DEF Codec!ws_read

LEMMA ShortRead ==
    ASSUME NEW f, NEW n \in Nat, n < 126, f.head = << 130 >> \o <<n>>
    PROVE  Codec!ws_read(f) = [at |-> Len(f.head), len |-> n, intact |-> n]
<1>1. n % 128 = n /\ n % 128 < 126
  OBVIOUS
<1>2. Codec!SizeRead(f) = [len |-> n % 128, at |-> 2] /\ Len(f.head) = 2 /\ f.head[2] = n
  BY <1>1, ShortFrame
<1>3. /\ Codec!SizeRead(f) = [len |-> n, at |-> Len(f.head)]
      /\ Len(f.head) \in Nat /\ f.head[2] \in Nat /\ f.head[2] < 128
  BY <1>1, <1>2
<1> QED BY Zenon, <1>3, Unmasked

LEMMA MiddleRead ==
    ASSUME NEW f, NEW n, NEW h \in Nat, NEW l \in Nat, h * 256 + l = n,
           f.head = << 130 >> \o (<< 126 >> \o <<h, l>>)
    PROVE  Codec!ws_read(f) = [at |-> Len(f.head), len |-> n, intact |-> n]
<1>1. 126 \in Nat /\ 126 % 128 = 126
  OBVIOUS
<1>2. /\ Codec!SizeRead(f) = [len |-> h * 256 + l, at |-> 4] /\ Len(f.head) = 4
      /\ f.head[2] = 126
  BY <1>1, MiddleFrame
<1>3. /\ Codec!SizeRead(f) = [len |-> n, at |-> Len(f.head)]
      /\ Len(f.head) \in Nat /\ f.head[2] \in Nat /\ f.head[2] < 128
  BY <1>2
<1> QED BY Zenon, <1>3, Unmasked

LEMMA LongRead ==
    ASSUME NEW f, NEW n, NEW x \in Nat, NEW h \in Nat, NEW l \in Nat,
           Word24(x, h, l) = n,
           f.head = << 130 >> \o (<<127, 0, 0, 0, 0, 0, x>> \o <<h, l>>)
    PROVE  Codec!ws_read(f) = [at |-> Len(f.head), len |-> n, intact |-> n]
<1>1. /\ Codec!SizeRead(f) = [len |-> Word24(x, h, l), at |-> Len(f.head)]
      /\ Len(f.head) \in Nat /\ f.head[2] \in Nat /\ f.head[2] < 128
  BY Zenon, LongFrame
<1> QED BY Zenon, <1>1, Unmasked

LEMMA FrameIsRead ==
    ASSUME NEW n \in Nat
    PROVE  Codec!ws_read(Codec!ServerFrame(n)) =
               [at |-> Len(Codec!ServerFrame(n).head), len |-> n, intact |-> n]
<1> DEFINE f == Codec!ServerFrame(n)
           h == HighByte(n)
           l == LowByte(n)
           short  == <<n>>
           middle == << 126 >> \o Codec!HighAndLow(n)
           long   == <<127, 0, 0, 0, 0, 0, n \div 2^16>> \o Codec!HighAndLow(n)
           field  == CASE n < 126 -> short [] 125 < n /\ n < 2^16 -> middle [] OTHER -> long
<1>1. f.head = << 130 >> \o field
  <2>1. f = [head |-> <<128 + 2>> \o field, mask |-> FALSE, len |-> n]
    BY Zenon DEF Codec!ServerFrame, Codec!WS_FIN, Codec!WS_OPCODE_BINARY, Codec!WS_SIZE16,
                 Codec!WS_SIZE64
  <2>2. <<128 + 2>> = << 130 >>
    OBVIOUS
  <2> HIDE DEF f, field
  <2> QED BY <2>1, <2>2
<1>2. PICK x \in Nat : x = n \div 2^16 /\ Word24(x, h, l) = n
  <2> HIDE DEF f, field
  <2> QED BY SMT, ThreeBytes
<1>3. /\ Codec!HighAndLow(n) = <<h, l>> /\ h \in Nat /\ l \in Nat
      /\ n < 2^16 => h * 256 + l = n
  <2> HIDE DEF f, field
  <2> QED BY HighLow
<1>4. /\ n < 126 => field = short
      /\ 125 < n /\ n < 2^16 => field = middle
      /\ n >= 2^16 => field = long
  <2> HIDE DEF short, middle, long
  <2> QED OBVIOUS
<1>5. middle = << 126 >> \o <<h, l>> /\ long = <<127, 0, 0, 0, 0, 0, x>> \o <<h, l>>
  <2> HIDE DEF f, field, h, l
  <2>1. Codec!HighAndLow(n) = <<h, l>>
    BY <1>3
  <2>2. <<127, 0, 0, 0, 0, 0, n \div 2^16>> = <<127, 0, 0, 0, 0, 0, x>>
    BY <1>2
  <2> QED BY Zenon, <2>1, <2>2
<1> HIDE DEF f, field, h, l, middle, long
<1>6. CASE n < 126
  <2>1. f.head = << 130 >> \o <<n>>
    BY Zenon, <1>1, <1>4, <1>6
  <2>2. Codec!ws_read(f) = [at |-> Len(f.head), len |-> n, intact |-> n]
    BY Zenon, <1>6, <2>1, ShortRead
  <2> QED BY <2>2 DEF f
<1>7. CASE 125 < n /\ n < 2^16
  <2>1. f.head = << 130 >> \o (<< 126 >> \o <<h, l>>)
    BY Zenon, <1>1, <1>4, <1>5, <1>7
  <2>2. Codec!ws_read(f) = [at |-> Len(f.head), len |-> n, intact |-> n]
    BY Zenon, <1>3, <1>7, <2>1, MiddleRead
  <2> QED BY <2>2 DEF f
<1>8. CASE n >= 2^16
  <2>1. f.head = << 130 >> \o (<<127, 0, 0, 0, 0, 0, x>> \o <<h, l>>)
    BY Zenon, <1>1, <1>4, <1>5, <1>8
  <2>2. Codec!ws_read(f) = [at |-> Len(f.head), len |-> n, intact |-> n]
    BY Zenon, <1>2, <1>3, <2>1, LongRead
  <2> QED BY <2>2 DEF f
<1> QED BY <1>6, <1>7, <1>8

-----------------------------------------------------------------------------
(* CONNECT.                                                                *)

(* The flags, apart: each lies in its own bits.                            *)
LEMMA FlagsRead ==
    ASSUME NEW c \in {0, 1}, NEW w \in {0, 1}, NEW q \in 0 .. 2, NEW r \in {0, 1},
           NEW u \in {0, 1}, NEW p \in {0, 1}, NEW f,
           f = 2 * c + w * (4 + 32 * r + 8 * q) + 128 * u + 64 * p
    PROVE  /\ (f \div 2) % 2 = c /\ (f \div 4) % 2 = w
           /\ (f \div 64) % 2 = p /\ (f \div 128) % 2 = u
           /\ w = 1 => (f \div 8) % 4 = q /\ (f \div 32) % 2 = r
<1>1. CASE w = 0
  <2>1. f = 2 * c + 128 * u + 64 * p
    BY <1>1
  <2> QED BY <1>1, <2>1
<1>2. CASE w = 1
  <2>1. f = 2 * c + 4 + 32 * r + 8 * q + 128 * u + 64 * p
    BY <1>2
  <2> QED BY <1>2, <2>1
<1> QED BY <1>1, <1>2

(* The bytes of the variable header with the name of four bytes.           *)
LEMMA HeaderBytes ==
    ASSUME NEW f, NEW h, NEW l, NEW u,
           u = <<0, 4>> \o <<77, 81, 84, 84>> \o << 4 >> \o <<f, h, l>>
    PROVE  /\ DOMAIN u = 1 .. 10 /\ u[2] = 4 /\ u[8] = f /\ u[9] = h /\ u[10] = l
           /\ u[3] = 77 /\ u[4] = 81 /\ u[5] = 84 /\ u[6] = 84
OBVIOUS

LEMMA NameBytes ==
    ASSUME NEW u, u[3] = 77, u[4] = 81, u[5] = 84, u[6] = 84
    PROVE  SubSeq(u, 3, 6) = <<77, 81, 84, 84>>
<1>1. SubSeq(u, 3, 6) = [i \in 1 .. 4 |-> u[i + 2]]
  OBVIOUS
<1>2. [i \in 1 .. 4 |-> u[i + 2]] = <<77, 81, 84, 84>>
  OBVIOUS
<1> QED BY <1>1, <1>2

(* What the broker takes for flags and keep-alive stands behind the name.   *)
LEMMA BrokerFinds ==
    ASSUME NEW m, NEW f, NEW h, NEW l, 
           m.header = <<0, 4>> \o <<77, 81, 84, 84>> \o << 4 >> \o <<f, h, l>>
    PROVE  LET text(i) == IF i \in DOMAIN m.strings THEN m.strings[i] ELSE Codec!Null
               has(flag) == (f \div flag) % 2 = 1
               user      == IF has(Codec!WILL) THEN 4 ELSE 2
               pass      == IF has(Codec!USERNAME) THEN user + 1 ELSE user
           IN  Codec!BrokerReads(m) = 
           [name      |-> <<77, 81, 84, 84>>,
         client_id |-> text(1),
         will      |-> IF has(Codec!WILL)
                       THEN <<text(2), text(3), (f \div 8) % 4, has(Codec!WILL_RETAIN)>>
                       ELSE <<>>,
         username  |-> IF has(Codec!USERNAME) THEN text(user) ELSE Codec!Null,
         password  |-> IF has(Codec!PASSWORD) THEN text(pass) ELSE Codec!Null,
         clean     |-> has(Codec!CLEAN_SESSION),
         keepalive |-> h * 256 + l,
         strings   |-> IF has(Codec!PASSWORD) THEN pass ELSE pass - 1]
<1> DEFINE header == m.header
           byte(i)   == IF i \in DOMAIN header THEN header[i] ELSE 0
<1>1. /\ DOMAIN header = 1 .. 10 /\ header[2] = 4 /\ header[8] = f /\ header[9] = h /\ header[10] = l
      /\ header[3] = 77 /\ header[4] = 81 /\ header[5] = 84 /\ header[6] = 84
  BY HeaderBytes
<1>2. byte(2) = 4 /\ byte(8) = f /\ byte(9) = h /\ byte(10) = l
  BY <1>1
<1>3. 2 + byte(2) = 6 /\ byte(6 + 2) = f /\ byte(6 + 3) = h /\ byte(6 + 4) = l
  BY <1>2
<1>4. SubSeq(header, 3, 6) = <<77, 81, 84, 84>>
  BY <1>1, NameBytes
<1> DEFINE name  == 2 + byte(2)
           flags == byte(name + 2)
           high  == byte(name + 3)
           low   == byte(name + 4)
           title == SubSeq(header, 3, name)
           text(i) == IF i \in DOMAIN m.strings THEN m.strings[i] ELSE Codec!Null
           has(g, flag) == (g \div flag) % 2 = 1
           user(g) == IF has(g, Codec!WILL) THEN 4 ELSE 2
           pass(g) == IF has(g, Codec!USERNAME) THEN user(g) + 1 ELSE user(g)
           will(g) == IF has(g, Codec!WILL)
                      THEN <<text(2), text(3), (g \div 8) % 4, has(g, Codec!WILL_RETAIN)>>
                      ELSE <<>>
           username(g) == IF has(g, Codec!USERNAME) THEN text(user(g)) ELSE Codec!Null
           password(g) == IF has(g, Codec!PASSWORD) THEN text(pass(g)) ELSE Codec!Null
           clean(g) == has(g, Codec!CLEAN_SESSION)
           strings(g) == IF has(g, Codec!PASSWORD) THEN pass(g) ELSE pass(g) - 1
           seconds(i, j) == i * 256 + j
<1>5. Codec!BrokerReads(m) =
        [name |-> title, client_id |-> text(1), will |-> will(flags), username |-> username(flags),
         password |-> password(flags), clean |-> clean(flags), keepalive |-> seconds(high, low),
         strings |-> strings(flags)]
  BY Zenon DEF Codec!BrokerReads
<1>6. flags = f /\ high = h /\ low = l
  <2>1. name = 6
    BY <1>3
  <2> HIDE DEF name, byte
  <2> QED BY <1>3, <2>1
<1>7. title = <<77, 81, 84, 84>>
  <2>1. name = 6
    BY <1>3
  <2> HIDE DEF name, header
  <2> QED BY Zenon, <1>4, <2>1
<1> HIDE DEF flags, high, low, title, will, username, password, clean, strings, seconds, text
<1>8. Codec!BrokerReads(m) =
        [name |-> <<77, 81, 84, 84>>, client_id |-> text(1), will |-> will(f),
         username |-> username(f), password |-> password(f), clean |-> clean(f),
         keepalive |-> seconds(h, l), strings |-> strings(f)]
  BY Zenon, <1>5, <1>6, <1>7
<1> QED BY Zenon, <1>8 DEF will, username, password, clean, strings, seconds, text

(* One more string if its flag says so.                                    *)
LEMMA AddIf ==
    ASSUME NEW S, NEW a \in Seq(S), NEW x \in S, NEW u \in BOOLEAN, NEW s,
           s = a \o (IF u THEN <<x>> ELSE <<>>)
    PROVE  /\ s \in Seq(S) /\ Len(s) = IF u THEN Len(a) + 1 ELSE Len(a)
           /\ \A i \in 1 .. Len(a) : s[i] = a[i]
           /\ u => s[Len(a) + 1] = x
<1>1. CASE u
  <2>1. s = a \o <<x>>
    BY Zenon, <1>1
  <2> QED BY <1>1, <2>1
<1>2. CASE ~u
  <2>1. s = a \o <<>>
    BY Zenon, <1>2
  <2> QED BY <1>2, <2>1
<1> QED BY <1>1, <1>2

(* Where the strings stand, whichever of them there are.                   *)
LEMMA StringsAre ==
    ASSUME NEW c, NEW tp, NEW tm, NEW un, NEW pw,
           NEW t \in BOOLEAN, NEW u \in BOOLEAN, NEW p \in BOOLEAN, NEW s,
           s = <<c>> \o (IF t THEN <<tp, tm>> ELSE <<>>) \o (IF u THEN <<un>> ELSE <<>>)
               \o (IF p THEN <<pw>> ELSE <<>>)
    PROVE  LET user == IF t THEN 4 ELSE 2
               pass == IF u THEN user + 1 ELSE user
           IN  /\ 1 \in DOMAIN s /\ s[1] = c
               /\ t => 2 \in DOMAIN s /\ 3 \in DOMAIN s /\ s[2] = tp /\ s[3] = tm
               /\ u => user \in DOMAIN s /\ s[user] = un
               /\ p => pass \in DOMAIN s /\ s[pass] = pw
               /\ Len(s) = IF p THEN pass ELSE pass - 1
<1> DEFINE S == {c, tp, tm, un, pw}
           a == <<c>> \o (IF t THEN <<tp, tm>> ELSE <<>>)
           b == a \o (IF u THEN <<un>> ELSE <<>>)
           user == IF t THEN 4 ELSE 2
           pass == IF u THEN user + 1 ELSE user
<1>1. a \in Seq(S) /\ Len(a) = user - 1 /\ a[1] = c /\ (t => a[2] = tp /\ a[3] = tm)
  <2>1. CASE t
    <3>1. a = <<c>> \o <<tp, tm>>
      BY Zenon, <2>1
    <3> HIDE DEF a
    <3> QED BY <2>1, <3>1
  <2>2. CASE ~t
    <3>1. a = <<c>> \o <<>>
      BY Zenon, <2>2
    <3> HIDE DEF a
    <3> QED BY <2>2, <3>1
  <2> QED BY <2>1, <2>2
<1>2. un \in S /\ pw \in S
  OBVIOUS
<1> HIDE DEF S, a
<1>3. /\ b \in Seq(S) /\ Len(b) = pass - 1
      /\ \A i \in 1 .. user - 1 : b[i] = a[i]
      /\ u => b[user] = un
  <2>0. b = a \o (IF u THEN <<un>> ELSE <<>>)
    OBVIOUS
  <2> HIDE DEF b, user
  <2>1. /\ b \in Seq(S) /\ Len(b) = IF u THEN Len(a) + 1 ELSE Len(a)
        /\ \A i \in 1 .. Len(a) : b[i] = a[i]
        /\ u => b[Len(a) + 1] = un
    <3>1. a \in Seq(S) /\ un \in S
      BY <1>1, <1>2
    <3> QED BY <2>0, <3>1, AddIf
  <2> USE DEF user
  <2> QED BY <1>1, <2>1
<1> HIDE DEF b
<1> DEFINE d == b \o (IF p THEN <<pw>> ELSE <<>>)
<1>4. /\ d \in Seq(S) /\ Len(d) = IF p THEN Len(b) + 1 ELSE Len(b)
      /\ \A i \in 1 .. Len(b) : d[i] = b[i]
      /\ p => d[Len(b) + 1] = pw
  <2>0. d = b \o (IF p THEN <<pw>> ELSE <<>>)
    OBVIOUS
  <2> HIDE DEF d, user, pass
  <2>1. b \in Seq(S) /\ pw \in S
    BY <1>2, <1>3
  <2> QED BY <2>0, <2>1, AddIf
<1>5. s = d
  BY Zenon DEF b, a
<1> HIDE DEF d
<1>6. DOMAIN s = 1 .. Len(s)
  BY <1>4, <1>5
<1>7. Len(s) = (IF p THEN pass ELSE pass - 1) /\ (p => s[pass] = pw)
  BY <1>3, <1>4, <1>5
<1>8. \A i \in 1 .. user - 1 : s[i] = a[i]
  BY <1>3, <1>4, <1>5
<1>9. u => s[user] = un
  BY <1>3, <1>4, <1>5
<1> QED BY <1>1, <1>6, <1>7, <1>8, <1>9

(* A broker takes from a CONNECT what connect_info holds.                  *)
LEMMA ConnectRead ==
    ASSUME NEW info, info.clean_session \in BOOLEAN, info.will_retain \in BOOLEAN,
           info.will_qos \in 0 .. 2, info.keepalive \in Nat, info.keepalive < 2^16,
           CONFIG_MQTT_PROTOCOL_311 = TRUE,
           Codec!mqtt_msg_connect(info) # Codec!FailMessage
    PROVE  LET m == Codec!mqtt_msg_connect(info)
               r == Codec!BrokerReads(m)
               orNull(text) == IF Codec!Given(text) THEN text ELSE Codec!Null
           IN  /\ r.name = Codec!Name311 /\ r.client_id = info.client_id
               /\ r.will = IF Codec!Given(info.will_topic)
                           THEN <<info.will_topic, info.will_message, info.will_qos, info.will_retain>>
                           ELSE <<>>
               /\ r.username = orNull(info.username) /\ r.password = orNull(info.password)
               /\ r.clean = info.clean_session /\ r.keepalive = info.keepalive
               /\ r.strings = Len(m.strings)
<1> DEFINE m == Codec!mqtt_msg_connect(info)
           c == info.clean_session
           t == Codec!Given(info.will_topic)
           e == info.will_retain
           q == info.will_qos
           u == Codec!Given(info.username)
           p == Codec!Given(info.password)
           f == Codec!ConnectFlags(info)
           h == Codec!HighByte(info.keepalive)
           l == Codec!LowByte(info.keepalive)
           bit(b) == IF b THEN 1 ELSE 0
           text(i) == IF i \in DOMAIN m.strings THEN m.strings[i] ELSE Codec!Null
           has(flag) == (f \div flag) % 2 = 1
           user == IF has(Codec!WILL) THEN 4 ELSE 2
           pass == IF has(Codec!USERNAME) THEN user + 1 ELSE user
<1>1. /\ m.header = Codec!VariableHeader(info)
      /\ m.strings = Codec!ConnectStrings(info)
  <2> DEFINE strings == Codec!ConnectStrings(info)
             remaining == Len(Codec!VariableHeader(info))
                          + Codec!MapThenSumSet(LAMBDA i : 2 + strings[i].len, DOMAIN strings)
             built == [type |-> Codec!MQTT_MSG_TYPE_CONNECT, qos |-> 0,
                       field |-> Codec!LengthField(remaining),
                       header |-> Codec!VariableHeader(info), strings |-> strings]
  <2>1. m = Codec!FailMessage \/ m = built
    BY Zenon DEF Codec!mqtt_msg_connect
  <2>2. built.header = Codec!VariableHeader(info) /\ built.strings = strings
    <3> HIDE DEF strings, remaining
    <3> QED OBVIOUS
  <2> HIDE DEF built
  <2> QED BY Zenon, <2>1, <2>2
<1>2. m.header = <<0, 4>> \o <<77, 81, 84, 84>> \o << 4 >> \o <<f, h, l>>
  BY Zenon, <1>1 DEF Codec!VariableHeader, Codec!Name311
<1>3. Codec!BrokerReads(m) =
        [name |-> <<77, 81, 84, 84>>, client_id |-> text(1),
         will |-> IF has(Codec!WILL)
                  THEN <<text(2), text(3), (f \div 8) % 4, has(Codec!WILL_RETAIN)>> ELSE <<>>,
         username |-> IF has(Codec!USERNAME) THEN text(user) ELSE Codec!Null,
         password |-> IF has(Codec!PASSWORD) THEN text(pass) ELSE Codec!Null,
         clean |-> has(Codec!CLEAN_SESSION), keepalive |-> h * 256 + l,
         strings |-> IF has(Codec!PASSWORD) THEN pass ELSE pass - 1]
  <2> HIDE DEF m, f, h, l
  <2> QED BY <1>2, BrokerFinds
<1>4. c \in BOOLEAN /\ e \in BOOLEAN /\ q \in 0 .. 2
  OBVIOUS
<1>5. t \in BOOLEAN /\ u \in BOOLEAN /\ p \in BOOLEAN
  BY DEF Codec!Given
<1>6. /\ has(Codec!CLEAN_SESSION) = c /\ has(Codec!WILL) = t /\ has(Codec!PASSWORD) = p
      /\ has(Codec!USERNAME) = u
      /\ t => (f \div 8) % 4 = q /\ has(Codec!WILL_RETAIN) = e
  <2>1. f = 2 * bit(c) + bit(t) * (4 + 32 * bit(e) + 8 * q) + 128 * bit(u) + 64 * bit(p)
    <3>1. q % 4 = q
      BY <1>4
    <3>2. f = Codec!FlagIf(c, 2) + Codec!FlagIf(t, 4 + Codec!FlagIf(e, 32) + q * 8)
              + Codec!FlagIf(u, 128) + Codec!FlagIf(p, 64)
      BY <3>1 DEF Codec!ConnectFlags, Codec!CLEAN_SESSION, Codec!WILL, Codec!WILL_RETAIN,
                  Codec!USERNAME, Codec!PASSWORD
    <3> HIDE DEF c, t, e, q, u, p, f
    <3> QED BY <1>4, <1>5, <3>2 DEF Codec!FlagIf
  <2> DEFINE bc == bit(c)  bt == bit(t)  be == bit(e)  bu == bit(u)  bp == bit(p)
  <2>2. bc \in {0, 1} /\ bt \in {0, 1} /\ be \in {0, 1} /\ bu \in {0, 1} /\ bp \in {0, 1}
    OBVIOUS
  <2>3. /\ c <=> bc = 1
        /\ t <=> bt = 1
        /\ e <=> be = 1
        /\ u <=> bu = 1
        /\ p <=> bp = 1
    OBVIOUS
  <2> HIDE DEF c, t, e, q, u, p, f, bc, bt, be, bu, bp
  <2>4. /\ (f \div 2) % 2 = bc /\ (f \div 4) % 2 = bt
        /\ (f \div 64) % 2 = bp /\ (f \div 128) % 2 = bu
        /\ bt = 1 => (f \div 8) % 4 = q /\ (f \div 32) % 2 = be
    BY <1>4, <2>1, <2>2, FlagsRead DEF bc, bt, be, bu, bp
  <2> QED BY <1>4, <1>5, <2>3, <2>4 DEF Codec!CLEAN_SESSION, Codec!WILL, Codec!WILL_RETAIN,
                  Codec!USERNAME, Codec!PASSWORD
<1>7. m.strings = <<info.client_id>>
        \o (IF t THEN <<info.will_topic, info.will_message>> ELSE <<>>)
        \o (IF u THEN <<info.username>> ELSE <<>>)
        \o (IF p THEN <<info.password>> ELSE <<>>)
  BY Zenon, <1>1 DEF Codec!ConnectStrings
<1>8. LET last == IF u THEN (IF t THEN 4 ELSE 2) + 1 ELSE IF t THEN 4 ELSE 2
      IN  /\ text(1) = info.client_id
          /\ t => text(2) = info.will_topic /\ text(3) = info.will_message
          /\ u => text(IF t THEN 4 ELSE 2) = info.username
          /\ p => text(last) = info.password
          /\ Len(m.strings) = IF p THEN last ELSE last - 1
  <2> DEFINE s == m.strings
  <2> HIDE DEF m, t, u, p, s
  <2>0. s = <<info.client_id>> \o (IF t THEN <<info.will_topic, info.will_message>> ELSE <<>>)
              \o (IF u THEN <<info.username>> ELSE <<>>) \o (IF p THEN <<info.password>> ELSE <<>>)
    BY Zenon, <1>7 DEF s
  <2>1. LET last == IF u THEN (IF t THEN 4 ELSE 2) + 1 ELSE IF t THEN 4 ELSE 2
        IN  /\ 1 \in DOMAIN s /\ s[1] = info.client_id
            /\ t => /\ 2 \in DOMAIN s /\ 3 \in DOMAIN s
                    /\ s[2] = info.will_topic /\ s[3] = info.will_message
            /\ u => /\ (IF t THEN 4 ELSE 2) \in DOMAIN s
                    /\ s[IF t THEN 4 ELSE 2] = info.username
            /\ p => last \in DOMAIN s /\ s[last] = info.password
            /\ Len(s) = IF p THEN last ELSE last - 1
    BY <1>5, <2>0, StringsAre
  <2> QED BY Zenon, <2>1 DEF s
<1>9. h * 256 + l = info.keepalive
  BY Halves DEF Codec!HighByte, Codec!LowByte, HighByte, LowByte
<1>10. user = (IF t THEN 4 ELSE 2) /\ pass = IF u THEN (IF t THEN 4 ELSE 2) + 1 ELSE IF t THEN 4 ELSE 2
  <2> HIDE DEF f, t, u
  <2> QED BY Zenon, <1>6
<1> DEFINE r == Codec!BrokerReads(m)
           will     == IF has(Codec!WILL)
                       THEN <<text(2), text(3), (f \div 8) % 4, has(Codec!WILL_RETAIN)>> ELSE <<>>
           username == IF has(Codec!USERNAME) THEN text(user) ELSE Codec!Null
           password == IF has(Codec!PASSWORD) THEN text(pass) ELSE Codec!Null
           last     == IF has(Codec!PASSWORD) THEN pass ELSE pass - 1
           clean    == has(Codec!CLEAN_SESSION)
<1> HIDE DEF m, f, h, l, c, t, e, q, u, p, text, has, user, pass
<1>11. /\ r.name = <<77, 81, 84, 84>> /\ r.client_id = text(1) /\ r.will = will
       /\ r.username = username /\ r.password = password /\ r.clean = clean
       /\ r.keepalive = h * 256 + l /\ r.strings = last
  <2>1. r = [name |-> <<77, 81, 84, 84>>, client_id |-> text(1), will |-> will,
             username |-> username, password |-> password, clean |-> clean,
             keepalive |-> h * 256 + l, strings |-> last]
    BY Zenon, <1>3
  <2> HIDE DEF r, will, username, password, last, clean
  <2> QED BY <2>1
<1>12. will = IF t THEN <<info.will_topic, info.will_message, q, e>> ELSE <<>>
  BY Zenon, <1>5, <1>6, <1>8
<1>13. username = (IF u THEN info.username ELSE Codec!Null)
  BY Zenon, <1>5, <1>6, <1>8, <1>10
<1>14. password = (IF p THEN info.password ELSE Codec!Null)
  BY Zenon, <1>5, <1>6, <1>8, <1>10
<1>15. last = Len(m.strings)
  BY Zenon, <1>5, <1>6, <1>8, <1>10
<1>16. clean = c
  BY Zenon, <1>6
<1> HIDE DEF r, will, username, password, last, clean
<1>17. /\ r.name = Codec!Name311 /\ r.client_id = info.client_id
       /\ r.will = IF t THEN <<info.will_topic, info.will_message, q, e>> ELSE <<>>
       /\ r.username = (IF u THEN info.username ELSE Codec!Null)
       /\ r.password = (IF p THEN info.password ELSE Codec!Null)
       /\ r.clean = c /\ r.keepalive = info.keepalive /\ r.strings = Len(m.strings)
  BY Zenon, <1>8, <1>9, <1>11, <1>12, <1>13, <1>14, <1>15, <1>16 DEF Codec!Name311
<1> QED BY Zenon, <1>17 DEF r, m, t, u, p, q, e, c

(* connect_info after both setters.                                        *)
LEMMA InfoIs ==
    ASSUME NEW config \in Codec!ConfigTypes, NEW user, NEW colon \in BOOLEAN, NEW pass
    PROVE  LET given == Codec!UserInfo(user, colon, pass)
               info  == Codec!esp_mqtt_client_set_uri(Codec!esp_mqtt_set_config(config), given)
           IN  /\ info.client_id = IF config.client_id = Codec!Null THEN Codec!GeneratedId
                                                                  ELSE config.client_id
               /\ info.username = IF Codec!HasUserInfo(given) THEN user ELSE config.username
               /\ info.password = IF colon THEN pass ELSE config.password
               /\ info.will_topic = config.lwt_topic
               /\ info.will_message = IF config.lwt_msg_len # 0
                                      THEN Codec!Text(config.lwt_msg.is, config.lwt_msg_len)
                                      ELSE config.lwt_msg
               /\ info.will_qos = config.lwt_qos /\ info.will_retain = config.lwt_retain
               /\ info.clean_session = ~config.disable_clean_session
               /\ info.keepalive = IF config.keepalive = 0 THEN 120 ELSE config.keepalive
<1> DEFINE given == Codec!UserInfo(user, colon, pass)
           set   == Codec!esp_mqtt_set_config(config)
           info  == Codec!esp_mqtt_client_set_uri(set, given)
           id    == IF config.client_id = Codec!Null THEN Codec!GeneratedId ELSE config.client_id
           msg   == IF config.lwt_msg_len # 0 THEN Codec!Text(config.lwt_msg.is, config.lwt_msg_len)
                                              ELSE config.lwt_msg
           ticks == IF config.keepalive = 0 THEN 120 ELSE config.keepalive
           clean == ~config.disable_clean_session
<1>1. set = [client_id |-> id, username |-> config.username, password |-> config.password,
             will_topic |-> config.lwt_topic, will_message |-> msg, will_qos |-> config.lwt_qos,
             will_retain |-> config.lwt_retain, clean_session |-> clean, keepalive |-> ticks]
  BY Zenon DEF Codec!esp_mqtt_set_config, Codec!MQTT_KEEPALIVE_TICK
<1>2. given.user = user /\ given.colon = colon /\ given.pass = pass
  BY DEF Codec!UserInfo
<1>3. info = IF ~Codec!HasUserInfo(given) THEN set
             ELSE [set EXCEPT !.username = given.user,
                              !.password = IF given.colon THEN given.pass ELSE @]
  BY Zenon DEF Codec!esp_mqtt_client_set_uri
<1>4. colon => Codec!HasUserInfo(given)
  BY <1>2 DEF Codec!HasUserInfo
<1> HIDE DEF given, set, id, msg, ticks, clean, info
<1>5. CASE ~Codec!HasUserInfo(given)
  <2>1. info = set
    BY <1>3, <1>5
  <2> QED BY <1>1, <1>4, <1>5, <2>1 DEF given, set, id, msg, ticks, clean, info
<1>6. CASE Codec!HasUserInfo(given)
  <2>1. info = [set EXCEPT !.username = user, !.password = IF colon THEN pass ELSE @]
    BY <1>2, <1>3, <1>6
  <2> DEFINE word == IF colon THEN pass ELSE config.password
  <2>2. set.password = config.password
    BY <1>1
  <2>3. info = [client_id |-> id, username |-> user, password |-> word,
             will_topic |-> config.lwt_topic, will_message |-> msg, will_qos |-> config.lwt_qos,
             will_retain |-> config.lwt_retain, clean_session |-> clean, keepalive |-> ticks]
    BY <1>1, <2>1, <2>2
  <2>4. /\ info.client_id = id /\ info.username = user /\ info.password = word
        /\ info.will_topic = config.lwt_topic /\ info.will_message = msg
        /\ info.will_qos = config.lwt_qos /\ info.will_retain = config.lwt_retain
        /\ info.clean_session = clean /\ info.keepalive = ticks
    <3> HIDE DEF word
    <3> QED BY <2>3
  <2> QED BY Zenon, <1>6, <2>4 DEF given, set, id, msg, ticks, clean, info
<1> QED BY <1>5, <1>6

(* And connect_info holds what was configured.                             *)
LEMMA ConnectHolds ==
    ASSUME NEW config \in Codec!ConfigTypes, config.keepalive < 2^16,
           NEW w \in Codec!Texts \X BOOLEAN \X Codec!Texts,
           CONFIG_MQTT_PROTOCOL_311 = TRUE
    PROVE  Codec!ConnectIsRead(config, w)
<1> DEFINE given == Codec!UserInfo(w[1], w[2], w[3])
           info  == Codec!esp_mqtt_client_set_uri(Codec!esp_mqtt_set_config(config), given)
           m     == Codec!mqtt_msg_connect(info)
           read  == Codec!BrokerReads(m)
           wanted == Codec!Wanted(config, w)
           orNull(text) == IF Codec!Given(text) THEN text ELSE Codec!Null
           id    == IF config.client_id = Codec!Null THEN Codec!GeneratedId ELSE config.client_id
           user  == IF Codec!HasUserInfo(given) THEN w[1] ELSE config.username
           pass  == IF w[2] THEN w[3] ELSE config.password
           msg   == IF config.lwt_msg_len = 0 THEN config.lwt_msg
                    ELSE Codec!Text(config.lwt_msg.is, config.lwt_msg_len)
           will  == IF Codec!Given(config.lwt_topic)
                    THEN <<config.lwt_topic, msg, config.lwt_qos, config.lwt_retain>> ELSE <<>>
           ticks == IF config.keepalive = 0 THEN 120 ELSE config.keepalive
           clean == ~config.disable_clean_session
           name  == orNull(user)
           word  == orNull(pass)
<1>1. /\ config.keepalive \in Nat /\ config.lwt_msg_len \in Nat /\ config.lwt_qos \in 0 .. 2
      /\ config.lwt_retain \in BOOLEAN /\ config.disable_clean_session \in BOOLEAN
      /\ w[2] \in BOOLEAN
  BY DEF Codec!ConfigTypes
<1>2. /\ info.client_id = id /\ info.username = user /\ info.password = pass
      /\ info.will_topic = config.lwt_topic
      /\ info.will_message = IF config.lwt_msg_len # 0
                             THEN Codec!Text(config.lwt_msg.is, config.lwt_msg_len)
                             ELSE config.lwt_msg
      /\ info.will_qos = config.lwt_qos /\ info.will_retain = config.lwt_retain
      /\ info.clean_session = clean /\ info.keepalive = ticks
  BY <1>1, InfoIs
<1>3. info.will_message = msg
  BY Zenon, <1>2
<1>4. ticks \in Nat /\ ticks < 2^16 /\ clean \in BOOLEAN
  BY <1>1
<1>5. wanted = [name |-> Codec!Name311, client_id |-> id, will |-> will, username |-> name,
                password |-> word, clean |-> clean, keepalive |-> ticks]
  <2>1. given.pass = w[3] /\ given.colon = w[2] /\ given.user = w[1]
    BY DEF Codec!UserInfo
  <2>2. wanted = [name |-> IF CONFIG_MQTT_PROTOCOL_311 THEN Codec!Name311 ELSE Codec!Name31,
                  client_id |-> id, will |-> will,
                  username |-> orNull(IF Codec!HasUserInfo(given) THEN given.user
                                                                 ELSE config.username),
                  password |-> orNull(IF given.colon THEN given.pass ELSE config.password),
                  clean |-> clean, keepalive |-> ticks]
    BY Zenon DEF Codec!Wanted, Codec!MQTT_KEEPALIVE_TICK
  <2>3. (IF CONFIG_MQTT_PROTOCOL_311 THEN Codec!Name311 ELSE Codec!Name31) = Codec!Name311
    BY Zenon
  <2> HIDE DEF given, id, will, clean, ticks
  <2> QED BY Zenon, <2>1, <2>2, <2>3
<1> HIDE DEF given, info, id, user, pass, msg, ticks, clean, wanted
<1>6. m # Codec!FailMessage =>
        /\ read.name = Codec!Name311 /\ read.client_id = id /\ read.will = will
        /\ read.username = name /\ read.password = word /\ read.clean = clean
        /\ read.keepalive = ticks /\ read.strings = Len(m.strings)
  <2> SUFFICES ASSUME m # Codec!FailMessage
               PROVE  /\ read.name = Codec!Name311 /\ read.client_id = id /\ read.will = will
                      /\ read.username = name /\ read.password = word /\ read.clean = clean
                      /\ read.keepalive = ticks /\ read.strings = Len(m.strings)
    OBVIOUS
  <2>1. /\ info.clean_session \in BOOLEAN /\ info.will_retain \in BOOLEAN
        /\ info.will_qos \in 0 .. 2 /\ info.keepalive \in Nat /\ info.keepalive < 2^16
    BY Zenon, <1>1, <1>2, <1>4
  <2>2. /\ read.name = Codec!Name311 /\ read.client_id = info.client_id
        /\ read.will = IF Codec!Given(info.will_topic)
                       THEN <<info.will_topic, info.will_message, info.will_qos, info.will_retain>>
                       ELSE <<>>
        /\ read.username = orNull(info.username) /\ read.password = orNull(info.password)
        /\ read.clean = info.clean_session /\ read.keepalive = info.keepalive
        /\ read.strings = Len(m.strings)
    BY <2>1, ConnectRead
  <2> HIDE DEF read, m
  <2> QED BY Zenon, <2>2, <1>2, <1>3
<1> HIDE DEF read, m, will, name, word
<1>7. m # Codec!FailMessage => \A field \in DOMAIN wanted : read[field] = wanted[field]
  BY <1>5, <1>6
<1> QED BY Zenon, <1>6, <1>7 DEF Codec!ConnectIsRead, read, m, wanted, info, given
-----------------------------------------------------------------------------
(* The machine.                                                            *)

Events == [from : Int, len : Nat, offset : Nat, total : Nat]

(* What is read is what waits; the header is read once, and there is more  *)
(* to read as long as deliver_publish goes on.                             *)
TypeInv ==
    /\ message \in Publishes /\ following \in Following
    /\ message_length \in Nat /\ message_length_read \in Nat
    /\ mqtt_offset \in Nat /\ total_mqtt_len \in Nat
    /\ events \in Seq(Events)
    /\ step \in {"receive", "deliver", "read", "done", "error"}
    /\ message_length_read <= Size(message) + following
    /\ step = "receive" => message_length_read = 0
    /\ step \in {"receive", "deliver"} => events = <<>> /\ mqtt_offset = 0
    /\ step = "deliver" => /\ message_length_read >= 1
                           /\ message_length = mqtt_get_total_length(message, message_length_read)
    /\ step = "read" => message_length_read < message_length /\ events # <<>>

(* The first piece held the header, and no byte of the next message.       *)
Whole == events # <<>> /\ FirstPiece >= DataAt(message) /\ FirstPiece <= Size(message)

(* The pieces handed over so far are the data up to mqtt_offset, which is  *)
(* what has been read of it.                                               *)
PieceInv ==
    Whole => /\ message_length = Size(message) /\ message_length_read <= Size(message)
             /\ message_length_read = DataAt(message) + mqtt_offset
             /\ total_mqtt_len = message.data
             /\ events[Len(events)].offset + events[Len(events)].len = mqtt_offset
             /\ \A i \in DOMAIN events :
                  /\ events[i].total = message.data
                  /\ events[i].len > 0 => events[i].from = DataAt(message) + events[i].offset
                  /\ i > 1 => events[i].offset = events[i - 1].offset + events[i - 1].len
             /\ step = "done" => message_length_read >= message_length

IInv == TypeInv /\ PieceInv

(* A read brings at least one byte and no more than there is room for.     *)
LEMMA ReadAmount ==
    ASSUME TypeInv, NEW room \in Int, NEW n \in Reads(room)
    PROVE  n \in Nat /\ n >= 1 /\ n <= room /\ n <= Waiting
<1>1. Waiting \in Int /\ BufferLength \in Int
  BY PartsOf, Legal, PublishAssumption, BufferAssumption DEF Waiting, TypeInv
<1> DEFINE S == {room, BufferLength, Waiting}
<1>2. \E x \in S : \A y \in S : x <= y
  BY <1>1
<1>3. Min(S) \in S /\ \A y \in S : Min(S) <= y
  <2> HIDE DEF S
  <2> QED BY <1>2 DEF Min
<1>4. Min(S) \in Int
  BY <1>1, <1>3
<1>5. n \in 1 .. Min(S)
  BY DEF Reads
<1>6. n <= Min(S) /\ Min(S) <= room /\ Min(S) <= Waiting
  BY <1>3, <1>4, <1>5
<1> HIDE DEF S
<1> QED BY <1>1, <1>4, <1>5, <1>6

(* One more piece.                                                         *)
LEMMA OneMore ==
    ASSUME NEW s \in Seq(Events), NEW e \in Events, NEW t, t = Append(s, e)
    PROVE  /\ t \in Seq(Events) /\ t # <<>> /\ Len(s) \in Nat /\ Len(t) = Len(s) + 1
           /\ DOMAIN s = 1 .. Len(s) /\ DOMAIN t = 1 .. Len(s) + 1
           /\ t[Len(s) + 1] = e /\ \A i \in 1 .. Len(s) : t[i] = s[i]
BY AppendProperties, LenProperties, EmptySeq

LEMMA InitInv == Init => IInv
<1> SUFFICES ASSUME Init PROVE IInv
  OBVIOUS
<1>1. message \in Publishes /\ following \in Nat /\ Size(message) \in Nat
  BY PartsOf, Legal, PublishAssumption DEF Init
<1>2. <<>> \in Seq(Events)
  OBVIOUS
<1> QED BY <1>1, <1>2 DEF Init, IInv, TypeInv, PieceInv, Whole

LEMMA ReceiveStep == IInv /\ Receive => IInv'
<1> SUFFICES ASSUME IInv, Receive PROVE IInv'
  OBVIOUS
<1>1. BufferLength \in Int
  BY BufferAssumption
<1>2. PICK n \in Reads(BufferLength) :
        message_length_read' = n /\ message_length' = mqtt_get_total_length(message, n)
  BY DEF Receive
<1>3. n \in Nat /\ n >= 1 /\ n <= Waiting
  BY <1>1, ReadAmount DEF IInv
<1>4. message \in Publishes /\ following \in Nat /\ Size(message) \in Nat
  BY PartsOf, Legal, PublishAssumption DEF IInv, TypeInv
<1>5. n <= Size(message) + following
  BY <1>3, <1>4 DEF Receive, Waiting, IInv, TypeInv
<1>6. mqtt_get_total_length(message, n) \in Nat
  BY <1>3, <1>4, LengthType, Legal
<1>7. TypeInv'
  BY <1>2, <1>3, <1>5, <1>6 DEF Receive, IInv, TypeInv
<1>8. ~Whole'
  BY DEF Receive, IInv, TypeInv, Whole
<1> QED BY <1>7, <1>8 DEF IInv, PieceInv

LEMMA FirstStep == IInv /\ DeliverFirst => IInv'
<1> SUFFICES ASSUME IInv, DeliverFirst PROVE IInv'
  OBVIOUS
<1> DEFINE n == message_length_read
           data == mqtt_get_publish_data(message, n)
           total == UInt32(message_length - n + data.len)
           e == [from |-> data.at, len |-> data.len, offset |-> mqtt_offset, total |-> total]
<1>1. /\ events = <<>> /\ mqtt_offset = 0 /\ message \in Publishes
      /\ n \in Nat /\ n >= 1 /\ n <= Size(message) + following
      /\ message_length = mqtt_get_total_length(message, n) /\ message_length \in Nat
  BY DEF IInv, TypeInv, DeliverFirst
<1>2. /\ events' = Append(events, e) /\ mqtt_offset' = mqtt_offset + data.len
      /\ total_mqtt_len' = total
      /\ step' = IF n >= message_length THEN "done" ELSE "read"
      /\ UNCHANGED <<message, following, message_length, message_length_read>>
  BY DEF DeliverFirst, Dispatch, lengths
<1>3. /\ data.at \in Int /\ data.len \in Nat
      /\ DataAt(message) <= n /\ n <= Size(message) =>
           data.len = n - DataAt(message) /\ (n > DataAt(message) => data.at = DataAt(message))
  BY <1>1, DataRead, Legal
<1> HIDE DEF data
<1>4. total \in Nat /\ (message_length - n + data.len \in 0 .. UIntRange - 1
                          => total = message_length - n + data.len)
  <2> DEFINE x == message_length - n + data.len
  <2>1. x \in Int /\ UIntRange \in Nat /\ UIntRange > 0
    BY <1>1, <1>3, PublishAssumption
  <2> HIDE DEF x
  <2>2. x % UIntRange \in Nat /\ (x \in 0 .. UIntRange - 1 => x % UIntRange = x)
    BY <2>1
  <2> QED BY <2>2 DEF UInt32, x
<1> HIDE DEF total, n
<1>5. e \in Events
  BY <1>1, <1>3, <1>4 DEF Events
<1>6. e.from = data.at /\ e.len = data.len /\ e.offset = 0 /\ e.total = total
  BY <1>1
<1> HIDE DEF e
<1>7. events' \in Seq(Events) /\ events' # <<>> /\ Len(events') = 1 /\ DOMAIN events' = 1 .. 1
      /\ events'[1] = e
  <2>1. <<>> \in Seq(Events) /\ Len(<<>>) = 0
    OBVIOUS
  <2>2. events' = Append(<<>>, e)
    BY <1>1, <1>2
  <2> QED BY <1>5, <2>1, <2>2, OneMore
<1>8. TypeInv'
  BY <1>1, <1>2, <1>3, <1>4, <1>7 DEF IInv, TypeInv, n
<1>9. FirstPiece' = n
  BY <1>1, <1>2, <1>3, <1>6, <1>7 DEF FirstPiece, n
<1>10. ASSUME Whole' PROVE PieceInv'
  <2>1. DataAt(message) <= n /\ n <= Size(message)
    BY <1>2, <1>9, <1>10 DEF Whole
  <2>2. /\ DataAt(message) \in Nat /\ Size(message) \in Nat /\ Size(message) = DataAt(message) + message.data
        /\ message.data \in Nat /\ message.data < UIntRange /\ UIntRange \in Nat
    BY <1>1, PartsOf, Numbers, Legal
  <2>3. message_length = Size(message)
    BY <1>1, <2>1, HeaderRead, Legal
  <2>4. data.len = n - DataAt(message) /\ (data.len > 0 => data.at = DataAt(message))
    BY <1>1, <1>3, <2>1, <2>2
  <2>5. total = message.data
    <3>1. message_length - n + data.len = message.data
      <4> DEFINE s == Size(message)
                 d == DataAt(message)
                 l == message.data
                 p == data.len
      <4>1. s = d + l /\ d \in Nat /\ l \in Nat /\ message_length = s
        BY <2>2, <2>3
      <4>2. p = n - d /\ n \in Nat
        BY <1>1, <2>4
      <4> HIDE DEF s, d, l, p
      <4>3. message_length - n + p = l
        BY <4>1, <4>2
      <4> QED BY <4>3 DEF l, p
    <3> QED BY <1>4, <2>2, <3>1
  <2>6. mqtt_offset' = n - DataAt(message)
    BY <1>1, <1>2, <2>1, <2>2, <2>4
  <2>7. message_length_read' = n /\ message' = message /\ message_length' = message_length
    BY <1>2 DEF n
  <2>8. step' = "done" => message_length_read' >= message_length'
    BY <1>2, <2>7
  <2>9. /\ message_length' = Size(message') /\ message_length_read' <= Size(message')
        /\ message_length_read' = DataAt(message') + mqtt_offset'
        /\ total_mqtt_len' = message'.data
    BY <1>1, <1>2, <2>1, <2>2, <2>3, <2>5, <2>6, <2>7
  <2>10. events'[Len(events')].offset + events'[Len(events')].len = mqtt_offset'
    BY <1>1, <1>2, <1>3, <1>6, <1>7
  <2>11. \A i \in DOMAIN events' :
           /\ events'[i].total = message'.data
           /\ events'[i].len > 0 => events'[i].from = DataAt(message') + events'[i].offset
           /\ i > 1 => events'[i].offset = events'[i - 1].offset + events'[i - 1].len
    <3> TAKE i \in DOMAIN events'
    <3>1. i = 1
      BY <1>7
    <3> QED BY <1>6, <1>7, <2>2, <2>4, <2>5, <2>7, <3>1
  <2> QED BY <2>8, <2>9, <2>10, <2>11 DEF PieceInv
<1> QED BY <1>8, <1>10 DEF IInv, PieceInv

LEMMA NextStep == ASSUME IInv, NEW n \in Reads(message_length - message_length_read),
                         step = "read", DeliverNext(n)
                  PROVE  IInv'
<1> DEFINE r == message_length_read
           e == [from |-> r, len |-> n, offset |-> mqtt_offset, total |-> total_mqtt_len]
           L == Len(events)
<1>1. /\ message \in Publishes /\ r \in Nat /\ message_length \in Nat
      /\ mqtt_offset \in Nat /\ total_mqtt_len \in Nat
      /\ events \in Seq(Events) /\ events # <<>> /\ r < message_length
  BY DEF IInv, TypeInv
<1>2. n \in Nat /\ n >= 1 /\ n <= message_length - r /\ n <= Waiting
  BY <1>1, ReadAmount DEF IInv
<1>3. following \in Nat /\ Size(message) \in Nat /\ DataAt(message) \in Nat
  BY PartsOf, Legal, PublishAssumption DEF IInv, TypeInv
<1>4. r + n <= Size(message) + following
  BY <1>1, <1>2, <1>3 DEF Waiting
<1>5. /\ events' = Append(events, e) /\ mqtt_offset' = mqtt_offset + n
      /\ message_length_read' = r + n
      /\ step' = IF r + n >= message_length THEN "done" ELSE "read"
      /\ UNCHANGED <<message, following, message_length, total_mqtt_len>>
  BY DEF DeliverNext
<1>6. e \in Events
  BY <1>1, <1>2 DEF Events
<1>7. e.from = r /\ e.len = n /\ e.offset = mqtt_offset /\ e.total = total_mqtt_len
  OBVIOUS
<1> HIDE DEF e, r
<1>8. /\ events' \in Seq(Events) /\ events' # <<>> /\ L \in Nat /\ Len(events') = L + 1
      /\ DOMAIN events = 1 .. L /\ DOMAIN events' = 1 .. L + 1
      /\ events'[L + 1] = e /\ \A i \in 1 .. L : events'[i] = events[i]
  BY <1>1, <1>5, <1>6, OneMore
<1>9. L >= 1 /\ events'[1] = events[1] /\ events[1].len \in Nat
  <2>1. L >= 1
    BY <1>1, <1>8, EmptySeq
  <2>2. events[1] \in Events
    BY <1>1, <2>1, <1>8, ElementOfSeq
  <2> QED BY <1>8, <2>1, <2>2 DEF Events
<1> HIDE DEF L
<1>10. TypeInv'
  BY <1>1, <1>2, <1>4, <1>5, <1>8 DEF IInv, TypeInv, r
<1>11. FirstPiece' = FirstPiece
  BY <1>1, <1>2, <1>5, <1>8, <1>9 DEF FirstPiece, r
<1>12. ASSUME Whole' PROVE PieceInv'
  <2>1. Whole
    BY <1>1, <1>5, <1>11, <1>12 DEF Whole
  <2>2. /\ message_length = Size(message) /\ r <= Size(message)
        /\ r = DataAt(message) + mqtt_offset
        /\ total_mqtt_len = message.data
        /\ events[L].offset + events[L].len = mqtt_offset
        /\ \A i \in 1 .. L :
             /\ events[i].total = message.data
             /\ events[i].len > 0 => events[i].from = DataAt(message) + events[i].offset
             /\ i > 1 => events[i].offset = events[i - 1].offset + events[i - 1].len
    BY <1>8, <2>1 DEF IInv, PieceInv, r, L
  <2>3. message' = message /\ message_length' = message_length /\ total_mqtt_len' = total_mqtt_len
    BY <1>5
  <2>4. step' = "done" => message_length_read' >= message_length'
    BY <1>5, <2>3
  <2>5. /\ message_length' = Size(message') /\ message_length_read' <= Size(message')
        /\ message_length_read' = DataAt(message') + mqtt_offset'
        /\ total_mqtt_len' = message'.data
    <3>1. r + n <= Size(message) /\ r + n = DataAt(message) + (mqtt_offset + n)
      <4> DEFINE s == Size(message)
                 d == DataAt(message)
      <4>1. message_length = s /\ r = d + mqtt_offset /\ s \in Nat /\ d \in Nat
        BY <1>3, <2>2
      <4>2. r \in Nat /\ mqtt_offset \in Nat /\ n \in Nat /\ n <= message_length - r
        BY <1>1, <1>2
      <4> HIDE DEF s, d
      <4>3. r + n <= s /\ r + n = d + (mqtt_offset + n)
        BY <4>1, <4>2
      <4> QED BY <4>3 DEF s, d
    <3>2. message_length_read' = r + n /\ mqtt_offset' = mqtt_offset + n
      BY <1>5
    <3> QED BY <2>2, <2>3, <3>1, <3>2
  <2>6. events'[Len(events')].offset + events'[Len(events')].len = mqtt_offset'
    BY <1>5, <1>7, <1>8
  <2>7. \A i \in DOMAIN events' :
          /\ events'[i].total = message'.data
          /\ events'[i].len > 0 => events'[i].from = DataAt(message') + events'[i].offset
          /\ i > 1 => events'[i].offset = events'[i - 1].offset + events'[i - 1].len
    <3> TAKE i \in DOMAIN events'
    <3>1. CASE i = L + 1
      <4>1. i - 1 = L /\ L \in 1 .. L /\ events'[i] = e /\ events'[i - 1] = events[L]
        BY <1>8, <1>9, <3>1
      <4> QED BY <1>7, <2>2, <2>3, <4>1
    <3>2. CASE i \in 1 .. L
      <4>1. events'[i] = events[i] /\ (i > 1 => events'[i - 1] = events[i - 1])
        BY <1>8, <3>2
      <4> QED BY <2>2, <2>3, <3>2, <4>1
    <3> QED BY <1>8, <3>1, <3>2
  <2> QED BY <2>4, <2>5, <2>6, <2>7 DEF PieceInv
<1> QED BY <1>10, <1>12 DEF IInv, PieceInv

LEMMA StillStep ==
    ASSUME IInv, UNCHANGED <<message, following, lengths, mqtt_offset, total_mqtt_len, events>>,
           step' = step \/ (step = "read" /\ step' = "error")
    PROVE  IInv'
<1>1. UNCHANGED <<message, following, message_length, message_length_read, mqtt_offset,
                  total_mqtt_len, events>>
  BY DEF lengths
<1>2. TypeInv'
  BY <1>1 DEF IInv, TypeInv
<1>3. Whole' <=> Whole
  BY <1>1 DEF Whole, FirstPiece
<1>4. PieceInv'
  BY <1>1, <1>3 DEF IInv, PieceInv
<1> QED BY <1>2, <1>4 DEF IInv

LEMMA Inductive == IInv /\ [Next]_vars => IInv'
<1> SUFFICES ASSUME IInv, [Next]_vars PROVE IInv'
  OBVIOUS
<1>1. CASE Receive
  BY <1>1, ReceiveStep
<1>2. CASE DeliverFirst
  BY <1>2, FirstStep
<1>3. CASE ReadNext
  BY <1>3, NextStep DEF ReadNext
<1>4. CASE ReadFails
  BY <1>4, StillStep DEF ReadFails
<1>5. CASE UNCHANGED vars
  BY <1>5, StillStep DEF vars
<1> QED BY <1>1, <1>2, <1>3, <1>4, <1>5 DEF Next
-----------------------------------------------------------------------------
(* The lengths and offsets of deliver_publish are never negative, however  *)
(* the message is cut.                                                     *)
THEOREM TypeCorrect == Spec => []TypeOK
<1>1. IInv => TypeOK
  <2> SUFFICES ASSUME IInv PROVE TypeOK
    OBVIOUS
  <2>1. \A i \in DOMAIN events : events[i].len \in Nat
    <3> TAKE i \in DOMAIN events
    <3>1. events[i] \in Events
      BY LenProperties, ElementOfSeq DEF IInv, TypeInv
    <3> QED BY <3>1 DEF Events
  <2> QED BY <2>1 DEF IInv, TypeInv, TypeOK
<1> QED BY <1>1, InitInv, Inductive, PTL DEF Spec

(* A PUBLISH whose header is read whole, and alone, is handed over whole,  *)
(* however the rest is cut.                                                *)
THEOREM DeliveredWhole == Spec => []WholePayload
<1>1. IInv => WholePayload
  <2> SUFFICES ASSUME IInv, Whole
               PROVE  /\ \A i \in DOMAIN events :
                           /\ events[i].total = message.data
                           /\ events[i].len > 0 => events[i].from = DataAt(message) + events[i].offset
                           /\ i > 1 => events[i].offset = events[i - 1].offset + events[i - 1].len
                      /\ step = "done" => mqtt_offset = message.data
    BY DEF WholePayload, Whole
  <2>1. Size(message) = DataAt(message) + message.data /\ DataAt(message) \in Nat /\ message.data \in Nat
    BY PartsOf, Numbers, Legal DEF IInv, TypeInv
  <2>2. step = "done" => mqtt_offset = message.data
    <3> DEFINE s == Size(message)
               d == DataAt(message)
               l == message.data
    <3>1. s = d + l /\ d \in Nat /\ l \in Nat
      BY <2>1
    <3>2. /\ message_length_read = d + mqtt_offset /\ message_length = s
          /\ message_length_read <= s
          /\ step = "done" => message_length_read >= message_length
      BY DEF IInv, PieceInv
    <3>3. mqtt_offset \in Nat
      BY DEF IInv, TypeInv
    <3> HIDE DEF s, d, l
    <3>4. step = "done" => mqtt_offset = l
      BY <3>1, <3>2, <3>3
    <3> QED BY <3>4 DEF l
  <2> QED BY <2>2 DEF IInv, PieceInv
<1> QED BY <1>1, InitInv, Inductive, PTL DEF Spec

(* Of every message of mqtt_msg.c that the buffer takes, whatever lengths    *)
(* and ids it is made of, the readers find length, type, QoS, topic and data *)
(* in the bytes, and the id of all but those IdRead names.                   *)
THEOREM ReadsBack == Spec => []ReadBack
<1>1. ReadBack
  BY BuiltIsRead DEF ReadBack, Codec!AllReadBack
<1> QED BY <1>1, PTL

(* A frame of every length below 2^16 that ws_write builds is taken for    *)
(* what it holds, and ws_read returns the whole payload of every frame a   *)
(* server sends.                                                           *)
THEOREM FramesRead == Spec => []FramesReadBack
<1>1. ASSUME NEW n \in FrameLengths
      PROVE  /\ n < 2^16 =>
                   LET sent == Codec!ws_write(n)
                   IN  /\ Codec!HeaderLength(sent) <= Codec!MAX_WEBSOCKET_HEADER_SIZE
                       /\ Codec!SizeRead(sent).len = n
                       /\ Codec!SizeRead(sent).at = Len(sent.head)
             /\ Codec!ws_read(Codec!ServerFrame(n)) =
                    [at |-> Len(Codec!ServerFrame(n).head), len |-> n, intact |-> n]
  <2>1. n \in Nat
    BY CodecAssumption
  <2>2. n < 2^16 => /\ Codec!HeaderLength(Codec!ws_write(n)) <= 10
                     /\ Codec!SizeRead(Codec!ws_write(n)).len = n
                     /\ Codec!SizeRead(Codec!ws_write(n)).at = Len(Codec!ws_write(n).head)
    BY <2>1, FrameIsWritten
  <2>3. Codec!ws_read(Codec!ServerFrame(n)) =
            [at |-> Len(Codec!ServerFrame(n).head), len |-> n, intact |-> n]
    BY <2>1, FrameIsRead
  <2> QED BY <2>2, <2>3 DEF Codec!MAX_WEBSOCKET_HEADER_SIZE
<1>2. FramesReadBack
  BY Zenon, <1>1 DEF FramesReadBack, Codec!EveryFrameIsRead
<1> QED BY <1>2, PTL

(* Every CONNECT that fits the buffer says to the broker what was          *)
(* configured, and announces each of its strings, where Kconfig keeps      *)
(* protocol 3.1.1: the name of 3.1 does not fit its place in the header.   *)
THEOREM ConnectsRead == CONFIG_MQTT_PROTOCOL_311 = TRUE => (Spec => []ConnectReadBack)
<1> SUFFICES ASSUME CONFIG_MQTT_PROTOCOL_311 = TRUE PROVE Spec => []ConnectReadBack
  OBVIOUS
<1>1. ASSUME NEW config \in Configs, NEW u \in UserInfos
      PROVE  Codec!ConnectIsRead(config, u)
  <2>1. config \in Codec!ConfigTypes /\ config.keepalive < 2^16
    BY ConnectAssumption
  <2>2. u \in Codec!Texts \X BOOLEAN \X Codec!Texts
    BY ConnectAssumption
  <2> QED BY <2>1, <2>2, ConnectHolds
<1>2. ConnectReadBack
  BY <1>1 DEF ConnectReadBack, Codec!EveryConnectIsRead
<1> QED BY <1>2, PTL
=============================================================================
