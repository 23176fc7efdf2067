------------------------------- MODULE MqttMsg ------------------------------
(***************************************************************************)
(* mqtt_msg.c: how a message is laid out in the buffer and how it is read  *)
(* back.  A message is a record of what decides its bytes: type, qos, the  *)
(* bytes of its remaining-length field, the lengths of topic and data, and *)
(* the message id.  Positions count from 0, as in the code.                *)
(***************************************************************************)
EXTENDS Integers, SequencesExt

CONSTANT BufferLength  \* of the connection's buffer

ASSUME BufferAssumption == BufferLength \in Nat

PUBLISH == 3
PUBACK  == 4
PUBREC  == 5
PUBREL  == 6
PUBCOMP == 7
SUBSCRIBE   == 8
SUBACK      == 9
UNSUBSCRIBE == 10
UNSUBACK    == 11
PINGREQ     == 12
DISCONNECT  == 14

MQTT_MAX_FIXED_HEADER_SIZE == 3

NULL == -1

(* mqtt_message_t of length 0.                                             *)
FailMessage == [type |-> 0]

(* Mutant of LengthField: 128 is taken to fit one byte.                    *)
LengthFieldLate(remaining) ==
    IF remaining > 128 THEN <<128 + (remaining % 128), (remaining \div 128) % 256>>
                       ELSE <<remaining>>

(* fini_message: one byte of length, or two and never more.                *)
LengthField(remaining) ==
    IF remaining > 127 THEN <<128 + (remaining % 128), (remaining \div 128) % 256>>
                       ELSE <<remaining>>

IdLength(qos) == IF qos > 0 THEN 2 ELSE 0

(* Every append checks the room left; as the message only grows, the last  *)
(* check decides.                                                          *)
mqtt_msg_publish(topic, data, qos, id) ==
    LET remaining == 2 + topic + IdLength(qos) + data
    IN  IF topic = 0 \/ MQTT_MAX_FIXED_HEADER_SIZE + remaining > BufferLength
        THEN FailMessage
        ELSE [type |-> PUBLISH, qos |-> qos, field |-> LengthField(remaining),
              topic |-> topic, id |-> id, data |-> data]

(* mqtt_msg_puback, pubrec, pubrel and pubcomp differ in type and qos.     *)
AckMessage(type, qos, id) ==
    IF MQTT_MAX_FIXED_HEADER_SIZE + 2 > BufferLength
    THEN FailMessage
    ELSE [type |-> type, qos |-> qos, field |-> LengthField(2), id |-> id]

(* mqtt_msg_subscribe: the id, the topic and a byte for the QoS asked for; *)
(* mqtt_msg_unsubscribe: without that byte.                                *)
TopicMessage(type, topic, id) ==
    LET data      == 2 + topic + IF type = SUBSCRIBE THEN 1 ELSE 0
        remaining == 2 + data
    IN  IF topic = 0 \/ MQTT_MAX_FIXED_HEADER_SIZE + remaining > BufferLength
        THEN FailMessage
        ELSE [type |-> type, qos |-> 1, field |-> LengthField(remaining),
              topic |-> topic, id |-> id, data |-> data]

(* mqtt_msg_pingreq, mqtt_msg_pingresp and mqtt_msg_disconnect.            *)
EmptyMessage(type) == [type |-> type, qos |-> 0, field |-> LengthField(0)]

BodyAt(m)  == 1 + Len(m.field)
IdAt(m)    == BodyAt(m) + IF m.type = PUBLISH THEN 2 + m.topic ELSE 0
DataAt(m)  == IdAt(m) + CASE m.type = PUBLISH  -> IdLength(m.qos)
                          [] m.type >= PINGREQ -> 0
                          [] OTHER             -> 2
TopicAt(m) == IF m.type = PUBLISH THEN BodyAt(m) ELSE DataAt(m)  \* of the topic's length
Size(m)    == DataAt(m) + IF "data" \in DOMAIN m THEN m.data ELSE 0

HighByte(n) == (n \div 256) % 256
LowByte(n)  == n % 256

(* buffer[i]; the bytes of topic and data decide nothing, and no reader    *)
(* here looks at the bits of the first byte that say dup and retain.       *)
Byte(m, i) ==
    CASE i = 0                                      -> m.type * 16 + m.qos * 2
      [] i \in 1..Len(m.field)                      -> m.field[i]
      [] "topic" \in DOMAIN m /\ i = TopicAt(m)     -> HighByte(m.topic)
      [] "topic" \in DOMAIN m /\ i = TopicAt(m) + 1 -> LowByte(m.topic)
      [] i = IdAt(m) /\ i < DataAt(m)               -> HighByte(m.id)
      [] i = IdAt(m) + 1 /\ i < DataAt(m)           -> LowByte(m.id)
      [] OTHER                                      -> 0

Word16(m, i) == Byte(m, i) * 256 + Byte(m, i + 1)

(* The readers look at the bytes only.                                     *)
mqtt_get_type(m) == Byte(m, 0) \div 16
mqtt_get_qos(m)  == (Byte(m, 0) \div 2) % 4

(* The loop the others share: the position after the length field, as far *)
(* as it lies within the first n bytes.                                    *)
FieldEnd(m, n) ==
    LET last == {i \in 1..(n - 1) : Byte(m, i) < 128}
    IN  IF last = {} THEN Max({n, 1}) ELSE Min(last) + 1

(* Seven bits of the number in each byte, the lowest first.                *)
FieldValue(bytes) ==
    LET from[i \in 1..(Len(bytes) + 1)] ==
          IF i > Len(bytes) THEN 0 ELSE (bytes[i] % 128) + 128 * from[i + 1]
    IN  from[1]

mqtt_get_total_length(m, n) ==
    FieldValue([i \in 1..(FieldEnd(m, n) - 1) |-> Byte(m, i)]) + FieldEnd(m, n)

(* Position and length of the topic.                                       *)
mqtt_get_publish_topic(m, n) ==
    LET i == FieldEnd(m, n)
    IN  IF i + 2 >= n \/ i + 2 + Word16(m, i) > n
        THEN [at |-> NULL, len |-> n]
        ELSE [at |-> i + 2, len |-> Word16(m, i)]

(* Position and length of the data within the first n bytes.               *)
mqtt_get_publish_data(m, n) ==
    LET i      == FieldEnd(m, n)
        total  == mqtt_get_total_length(m, n)
        topic  == i + 2 + Word16(m, i)
        data   == topic + IdLength(mqtt_get_qos(m))
    IN  IF \/ i + 2 >= n \/ topic >= n
           \/ mqtt_get_qos(m) > 0 /\ topic + 2 >= n
           \/ total < data
        THEN [at |-> NULL, len |-> 0]
        ELSE [at |-> data, len |-> Min({total, n}) - data]

(* The client passes the length of its buffer here, not what it has read.  *)
mqtt_get_id(m, n) ==
    LET i     == FieldEnd(m, n)
        topic == i + 2 + Word16(m, i)
    IN  IF mqtt_get_type(m) = PUBLISH
        THEN IF i + 2 >= n \/ topic >= n \/ mqtt_get_qos(m) = 0 \/ topic + 2 >= n
             THEN 0 ELSE Word16(m, topic)
        ELSE IF /\ mqtt_get_type(m) \in PUBACK..SUBACK \cup {UNSUBACK}
                /\ n >= 4 /\ Byte(m, 1) < 128
             THEN Word16(m, 2) ELSE 0
=============================================================================
