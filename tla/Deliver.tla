------------------------------- MODULE Deliver ------------------------------
(***************************************************************************)
(* mqtt_client.c: how one incoming PUBLISH reaches the application.  It is *)
(* read with whatever the socket holds, cut anywhere; mqtt_process_receive *)
(* takes its lengths from the first piece and deliver_publish hands the    *)
(* payload over piece by piece, one MQTT_EVENT_DATA for each.              *)
(***************************************************************************)
EXTENDS MqttMsg

CONSTANTS Publishes,  \* the messages that may come: PUBLISH records of MqttMsg
          Following,  \* bytes of later messages that may wait behind it
          UIntRange   \* values of a uint32_t (2^32 in the code)

(* A PUBLISH as MQTT has it: the last byte of the length field is the one  *)
(* below 128, the fourth at most, and the field holds the length of what   *)
(* follows it.                                                             *)
WellFormed(m) ==
    /\ m \in [type : {PUBLISH}, qos : 0..2, field : Seq(Nat), topic : Nat, id : Nat, data : Nat]
    /\ 0 < m.topic /\ m.topic < 65536 /\ m.id < 65536
    /\ m.field # <<>> /\ Len(m.field) <= 4
    /\ \A i \in 1..Len(m.field) : m.field[i] < 256 /\ (m.field[i] < 128 <=> i = Len(m.field))
    /\ FieldValue(m.field) = Size(m) - BodyAt(m)

ASSUME PublishAssumption ==
    /\ Following \subseteq Nat /\ UIntRange \in Nat \ {0}
    /\ \A m \in Publishes : WellFormed(m) /\ m.data < UIntRange

VARIABLES message,              \* the message in the socket
          following,            \* what waits behind it
          message_length,       \* mqtt_get_total_length of the first piece
          message_length_read,  \* bytes read so far
          mqtt_offset, total_mqtt_len,  \* of deliver_publish
          events,               \* the MQTT_EVENT_DATA so far
          step                  \* "receive", "deliver", "read", "done", "error"

lengths == <<message_length, message_length_read>>
vars    == <<message, following, lengths, mqtt_offset, total_mqtt_len, events, step>>

(* Mutant of UInt32: lengths are signed.                                   *)
Signed(n) == n

UInt32(n) == n % UIntRange

Init == /\ message \in Publishes /\ following \in Following
        /\ message_length = 0 /\ message_length_read = 0
        /\ mqtt_offset = 0 /\ total_mqtt_len = 0
        /\ events = <<>>
        /\ step = "receive"

Waiting == Size(message) + following - message_length_read

(* transport_read into the buffer: at least one byte of what waits.        *)
Reads(room) == 1..Min({room, BufferLength, Waiting})

(* mqtt_process_receive; the acknowledgement it sends is left out.         *)
Receive == /\ step = "receive"
           /\ \E n \in Reads(BufferLength) :
                /\ message_length_read' = n
                /\ message_length' = mqtt_get_total_length(message, n)
           /\ step' = "deliver"
           /\ UNCHANGED <<message, following, mqtt_offset, total_mqtt_len, events>>

(* One event: where its data lies in the message, its length and the two   *)
(* numbers that tell the application where it belongs.                     *)
Dispatch(from, len, total) ==
    /\ events' = Append(events, [from |-> from, len |-> len, offset |-> mqtt_offset, total |-> total])
    /\ mqtt_offset' = mqtt_offset + len
    /\ total_mqtt_len' = total
    /\ step' = IF message_length_read >= message_length THEN "done" ELSE "read"
    /\ UNCHANGED <<message, following, lengths>>

(* The first turn of the loop of deliver_publish.                          *)
DeliverFirst == /\ step = "deliver"
                /\ LET data == mqtt_get_publish_data(message, message_length_read)
                   IN  Dispatch(data.at, data.len,
                                UInt32(message_length - message_length_read + data.len))

(* Mutant of DeliverNext: the piece is announced at the end of what was    *)
(* read before, header included.                                           *)
DeliverNextAtRead(n) ==
    /\ events' = Append(events, [from |-> message_length_read, len |-> n,
                                 offset |-> message_length_read, total |-> total_mqtt_len])
    /\ message_length_read' = message_length_read + n
    /\ mqtt_offset' = mqtt_offset + n
    /\ step' = IF message_length_read + n >= message_length THEN "done" ELSE "read"
    /\ UNCHANGED <<message, following, message_length, total_mqtt_len>>

(* A later turn: n bytes more have been read, to the start of the buffer.  *)
DeliverNext(n) ==
    /\ events' = Append(events, [from |-> message_length_read, len |-> n,
                                 offset |-> mqtt_offset, total |-> total_mqtt_len])
    /\ message_length_read' = message_length_read + n
    /\ mqtt_offset' = mqtt_offset + n
    /\ step' = IF message_length_read + n >= message_length THEN "done" ELSE "read"
    /\ UNCHANGED <<message, following, message_length, total_mqtt_len>>

ReadNext == /\ step = "read"
            /\ \E n \in Reads(message_length - message_length_read) : DeliverNext(n)

(* transport_read fails or times out: the rest is given up.                *)
ReadFails == /\ step = "read"
             /\ step' = "error"
             /\ UNCHANGED <<message, following, lengths, mqtt_offset, total_mqtt_len, events>>

Next == Receive \/ DeliverFirst \/ ReadNext \/ ReadFails

Spec == Init /\ [][Next]_vars
-----------------------------------------------------------------------------
TypeOK == /\ message \in Publishes /\ following \in Following
          /\ message_length \in Nat /\ message_length_read \in Nat
          /\ mqtt_offset \in Nat /\ total_mqtt_len \in Nat
          /\ \A i \in DOMAIN events : events[i].len \in Nat

FirstPiece == IF events = <<>> THEN 0 ELSE message_length_read
                                         - (mqtt_offset - events[1].len)

(* When the first piece holds the whole header, and nothing but the        *)
(* message, the pieces handed to the application follow one another, each  *)
(* is announced at its offset, all with the length of the payload, and     *)
(* together they are the payload.                                          *)
WholePayload ==
    LET first == FirstPiece
    IN  events # <<>> /\ first >= DataAt(message) /\ first <= Size(message) =>
          /\ \A i \in DOMAIN events :
               /\ events[i].total = message.data
               /\ events[i].len > 0 => events[i].from = DataAt(message) + events[i].offset
               /\ i > 1 => events[i].offset = events[i - 1].offset + events[i - 1].len
          /\ step = "done" => mqtt_offset = message.data
=============================================================================
