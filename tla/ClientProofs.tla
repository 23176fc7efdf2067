---------------------------- MODULE ClientProofs ----------------------------
(***************************************************************************)
(* Proofs about the MQTT client: its types, and that the outbox agrees     *)
(* with the count and with what is pending until the two calls have used   *)
(* the message at the same time, for any number of publishes,              *)
(* acknowledgements, ids and faults.                                       *)
(***************************************************************************)
EXTENDS MqttClient, OutboxFacts

AllIds == Ids \cup {0}

Messages == [type : Types, id : AllIds]

Items == [id : AllIds, type : Types, len : {0, 1}, tick : {0, -1}, pending : BOOLEAN,
          data : Messages]

TaskSteps == {"loop", "connect", "connect_pending", "connect_write", "connect_read", "connack",
              "subscribe", "subscribe_build", "subscribe_pending", "subscribe_count",
              "subscribe_write", "handle", "acknowledged", "answer", "keepalive", "ping",
              "expire"}

PublishSteps == {"idle", "build", "type", "pending", "count", "enqueue", "write"}

(* Nothing has been built before the first connection; after that the      *)
(* buffer never goes back to holding nothing.                              *)
Flow == /\ state \in {"INIT", "CONNECTED", "WAIT_TIMEOUT"}
        /\ task \in TaskSteps /\ pub \in PublishSteps
        /\ outbound_message \in WireMessages \cup {NoMessage, TooLong}
        /\ outbound_message = NoMessage =>
             task \in {"loop", "connect"} /\ state # "CONNECTED" /\ pub = "idle"

Pending == /\ pending_msg_id \in AllIds /\ pending_msg_type \in Types
           /\ pub_id \in AllIds

Counts == /\ pending_msg_count \in Nat /\ pub_loaded \in Nat
          /\ loaded \in Nat /\ (task = "acknowledged" => loaded > 0)

Boxes == outbox \in Seq(Items)

Streams == /\ link \in {"closed", "open", "broken"} /\ quiet \in 0 .. 2
           /\ to_broker \in Seq(WireMessages) /\ to_client \in Seq(WireMessages)
           /\ in_buffer \in WireMessages \cup {NoMessage}

Flag == wait_for_ping_resp \in BOOLEAN

TypeInv == Flow /\ Pending /\ Counts /\ Boxes /\ Streams /\ Flag
-----------------------------------------------------------------------------
(* While the calls do not use the message at the same time, each finds     *)
(* what it has left.                                                       *)
ApartInv ==
    /\ ~Clash
    /\ task \in {"subscribe_count", "acknowledged"} => loaded = pending_msg_count
    /\ pub = "count" => pub_loaded = pending_msg_count

Connect == Message("CONNECT", 0)

(* What the pending id and type describe, from call to call.               *)
Described ==
    /\ task = "connect_pending" => outbound_message = Connect
    /\ task \in {"connect_write", "connect_read", "connack", "subscribe"} =>
         outbound_message = Connect /\ pending_msg_type = "CONNECT" /\ pending_msg_id = 0
    /\ task = "ping" => outbound_message = Message("PINGREQ", 0)
    /\ pub = "type" => outbound_message \in {Message("PUBLISH", pub_id), TooLong}
    /\ pub = "pending" => \/ outbound_message = TooLong
                          \/ /\ outbound_message = Message("PUBLISH", pub_id)
                             /\ pending_msg_type = "PUBLISH"
    /\ pub \in {"count", "enqueue"} =>
         \/ outbound_message = TooLong
         \/ outbound_message = Message(pending_msg_type, pending_msg_id)

(* What may still lower pending_msg_count: on its way to the broker, a     *)
(* SUBSCRIBE, and PUBLISH and PUBREL with an id in A; on its way back,     *)
(* what answers them; and the items of a publish with another id.          *)
Out(A)   == {m \in WireMessages : \/ m.type = "SUBSCRIBE"
                                  \/ m.type \in {"PUBLISH", "PUBREL"} /\ m.id \in A}
Back(A)  == {m \in WireMessages : \/ m.type = "SUBACK"
                                  \/ m.type \in {"PUBREC", "PUBCOMP"} /\ m.id \in A}
Boxed(A) == {item \in Items : item.type = "PUBLISH" /\ item.id \notin A}

InTask(A) == \/ task = "handle" /\ in_buffer \in Back(A)
             \/ task = "answer" /\ outbound_message \in Out(A)
             \/ task \in {"acknowledged", "subscribe_write"}

InPublish(A) == \/ pub = "enqueue"
                \/ pub = "write" /\ outbound_message \in Out(A)

TaskHand(A)    == IF InTask(A) THEN 1 ELSE 0
PublishHand(A) == IF InPublish(A) THEN 1 ELSE 0
Hand(A)        == TaskHand(A) + PublishHand(A)

(* An acknowledgement takes either an item or, if the item has expired,    *)
(* only what the count still has of it.  Whichever it is for each id, the  *)
(* count is enough.                                                        *)
CountInv ==
    \A A \in SUBSET AllIds :
        Count(outbox, Boxed(A)) + Count(to_broker, Out(A)) + Count(to_client, Back(A)) + Hand(A)
            <= pending_msg_count
-----------------------------------------------------------------------------
LEMMA WireMessage ==
    ASSUME NEW t \in Types \ {"NONE", "FAIL"}, NEW id \in AllIds
    PROVE  /\ Message(t, id) \in WireMessages
           /\ Message(t, id).type = t /\ Message(t, id).id = id
BY DEF Message, WireMessages, AllIds

LEMMA NotWire == NoMessage \notin WireMessages /\ TooLong \notin WireMessages /\ NoMessage # TooLong
BY DEF Message, NoMessage, TooLong, WireMessages

LEMMA BuiltMessage ==
    ASSUME Flow
    PROVE  /\ outbound_message \in Messages /\ BufferTypes \in SUBSET Types
           /\ outbound_message.id \in AllIds
<1>1. outbound_message \in Messages
  BY DEF Flow, Messages, WireMessages, Message, NoMessage, TooLong, AllIds, Types
<1> QED BY <1>1 DEF BufferTypes, Types, Messages

(* What is written is a message that has been built.                       *)
LEMMA WriteType ==
    ASSUME Flow, Streams, outbound_message # NoMessage, WriteOk \/ WriteFails
    PROVE  /\ to_broker' \in Seq(WireMessages) /\ quiet' \in 0 .. 2
           /\ UNCHANGED <<link, to_client, subscribed, session>>
<1>1. to_broker \in Seq(WireMessages) /\ quiet \in 0 .. 2
  BY DEF Streams
<1>2. CASE WriteOk
  <2>1. outbound_message \in WireMessages
    BY <1>2 DEF WriteOk, Flow
  <2>2. Append(to_broker, outbound_message) \in Seq(WireMessages)
    BY <1>1, <2>1, AppendProperties
  <2> QED BY <1>1, <1>2, <2>2 DEF WriteOk
<1>3. CASE WriteFails
  BY <1>1, <1>3 DEF WriteFails, streams
<1> QED BY <1>2, <1>3

LEMMA EnqueueType ==
    ASSUME Flow, Pending, Boxes, mqtt_enqueue
    PROVE  outbox' \in Seq(Items)
<1> DEFINE item == [id |-> pending_msg_id, type |-> pending_msg_type,
                    len |-> IF outbound_message = TooLong THEN 0 ELSE 1,
                    tick |-> 0, pending |-> FALSE, data |-> outbound_message]
<1>1. outbox' = IF pending_msg_count = 0 THEN outbox ELSE Append(outbox, item)
  BY DEF mqtt_enqueue, outbox_enqueue
<1>2. item \in Items
  BY BuiltMessage DEF Pending, Items
<1>3. Append(outbox, item) \in Seq(Items) /\ outbox \in Seq(Items)
  <2> HIDE DEF item
  <2> QED BY <1>2, AppendProperties DEF Boxes
<1> QED BY <1>1, <1>3

LEMMA ReadType ==
    ASSUME Streams, ReadMessages \/ ReadTimesOut
    PROVE  /\ in_buffer' \in WireMessages \cup {NoMessage}
           /\ to_client' \in Seq(WireMessages)
<1>1. to_client \in Seq(WireMessages) /\ in_buffer \in WireMessages \cup {NoMessage}
  BY DEF Streams
<1>2. CASE ReadMessages
  <2>1. PICK n \in 1 .. Len(to_client) :
          in_buffer' = Head(to_client) /\ to_client' = SubSeq(to_client, n + 1, Len(to_client))
    BY <1>2 DEF ReadMessages
  <2>2. Len(to_client) \in Nat /\ to_client # <<>>
    BY <1>1, <2>1, LenProperties, EmptySeq
  <2>3. Head(to_client) \in WireMessages
    BY <1>1, <2>2, HeadTailProperties
  <2>4. \A i \in n + 1 .. Len(to_client) : to_client[i] \in WireMessages
    BY <1>1, <2>1, <2>2, ElementOfSeq
  <2>5. SubSeq(to_client, n + 1, Len(to_client)) \in Seq(WireMessages)
    BY <2>1, <2>2, <2>4, SubSeqProperties
  <2> QED BY <2>1, <2>3, <2>5
<1>3. CASE ReadTimesOut
  BY <1>1, <1>3 DEF ReadTimesOut
<1> QED BY <1>2, <1>3

LEMMA NoMessages == <<>> \in Seq(WireMessages)
OBVIOUS
-----------------------------------------------------------------------------
(* What a step leaves alone keeps its type.                                *)

LEMMA SameFlow ==
    Flow /\ UNCHANGED <<state, task, pub, outbound_message>> => Flow'
BY DEF Flow

LEMMA SamePending ==
    Pending /\ UNCHANGED <<pending_msg_id, pending_msg_type, pub_id>> => Pending'
BY DEF Pending

LEMMA SameCounts ==
    /\ Counts /\ UNCHANGED <<pending_msg_count, loaded, pub_loaded>>
    /\ task' = task \/ task' # "acknowledged"
    => Counts'
BY DEF Counts

LEMMA SameBoxes == Boxes /\ UNCHANGED outbox => Boxes'
BY DEF Boxes

LEMMA SameStreams ==
    Streams /\ UNCHANGED <<link, quiet, to_broker, to_client, in_buffer>> => Streams'
BY DEF Streams

LEMMA SameFlag == Flag /\ UNCHANGED wait_for_ping_resp => Flag'
BY DEF Flag

LEMMA AbortType ==
    ASSUME TypeInv, Abort, UNCHANGED publish
    PROVE  TypeInv'
<1>1. /\ link' = "closed" /\ to_broker' = <<>> /\ to_client' = <<>> /\ state' = "WAIT_TIMEOUT"
      /\ wait_for_ping_resp' = FALSE /\ task' = "loop"
      /\ UNCHANGED <<outbound_message, pendings, outbox, in_buffer, quiet, loaded, publish>>
  BY DEF Abort, Goto
<1>2. Flow'
  BY <1>1 DEF TypeInv, Flow, TaskSteps, publish
<1>3. Pending' /\ Counts'
  BY <1>1, SamePending, SameCounts DEF TypeInv, pendings, publish
<1>4. Streams'
  BY <1>1, NoMessages DEF TypeInv, Streams
<1> QED BY <1>1, <1>2, <1>3, <1>4, SameBoxes DEF TypeInv, Flag

LEMMA QuietType == ASSUME NEW q \in 0 .. 2 PROVE Min({q + 1, 2}) \in 0 .. 2
<1>1. Min({q + 1, 2}) \in {q + 1, 2} /\ Min({q + 1, 2}) <= 2
  <2>1. \E x \in {q + 1, 2} : \A y \in {q + 1, 2} : x <= y
    <3>1. CASE q < 2
      BY <3>1
    <3>2. CASE q = 2
      BY <3>2
    <3> QED BY <3>1, <3>2
  <2> QED BY <2>1 DEF Min
<1> QED BY <1>1

LEMMA AgedType ==
    ASSUME NEW box \in Seq(Items)
    PROVE  [i \in DOMAIN box |-> [box[i] EXCEPT !.tick = -1]] \in Seq(Items)
<1> DEFINE aged(i) == [box[i] EXCEPT !.tick = -1]
<1>1. DOMAIN box = 1 .. Len(box) /\ Len(box) \in Nat
  BY LenProperties
<1>2. ASSUME NEW i \in 1 .. Len(box) PROVE aged(i) \in Items
  <2>1. box[i] \in Items
    BY ElementOfSeq
  <2> QED BY <2>1 DEF Items
<1> HIDE DEF aged
<1>3. [i \in 1 .. Len(box) |-> aged(i)] \in Seq(Items)
  BY <1>1, <1>2
<1> QED BY <1>1, <1>3 DEF aged
-----------------------------------------------------------------------------
(* The task.                                                               *)

(* esp_mqtt_connect and what comes before it.                              *)
LEMMA ConnectTypes ==
    ASSUME TypeInv, TransportConnect \/ esp_mqtt_connect \/ Reconnect
    PROVE  TypeInv'
<1> USE DEF vars, pendings, publish, streams, bounds, client, firmware, Goto
<1>1. CASE TransportConnect /\ ~Abort
  <2>1. Flow'
    BY <1>1, NotWire DEF TransportConnect, Flow, TaskSteps, TypeInv
  <2>2. Streams'
    BY <1>1 DEF TransportConnect, Streams, TypeInv
  <2> QED BY <1>1, <2>1, <2>2, SamePending, SameCounts, SameBoxes, SameFlag
     DEF TransportConnect, TypeInv
<1>2. CASE BuildConnect
  <2>1. Flow'
    BY <1>2, WireMessage, NotWire
       DEF BuildConnect, AllIds, Types, Flow, TaskSteps, PublishSteps, TypeInv
  <2>2. Flag'
    BY <1>2 DEF BuildConnect, Flag, TypeInv
  <2> QED BY <1>2, <2>1, <2>2, SamePending, SameCounts, SameBoxes, SameStreams
     DEF BuildConnect, TypeInv
<1>3. CASE PendConnect
  <2>1. Flow'
    BY <1>3 DEF PendConnect, Flow, TaskSteps, PublishSteps, TypeInv
  <2>2. Pending'
    BY <1>3, BuiltMessage DEF PendConnect, AllIds, Pending, TypeInv
  <2> QED BY <1>3, <2>1, <2>2, SameCounts, SameBoxes, SameStreams, SameFlag DEF PendConnect, TypeInv
<1>4. CASE WriteConnect /\ ~Abort
  <2>1. Flow' /\ outbound_message # NoMessage
    BY <1>4 DEF WriteConnect, Flow, TaskSteps, TypeInv
  <2>2. Streams'
    <3>1. to_broker \in Seq(WireMessages)
      BY DEF TypeInv, Streams
    <3>2. outbound_message # TooLong => Append(to_broker, outbound_message) \in Seq(WireMessages)
      BY <2>1, <3>1, AppendProperties DEF TypeInv, Flow
    <3> QED BY <1>4, <3>1, <3>2 DEF WriteConnect, Streams, TypeInv
  <2> QED BY <1>4, <2>1, <2>2, SamePending, SameCounts, SameBoxes, SameFlag
     DEF WriteConnect, TypeInv
<1>5. CASE ReadConnack /\ ~Abort
  <2>1. Flow'
    BY <1>5 DEF ReadConnack, Flow, TaskSteps, TypeInv
  <2>2. Streams'
    BY <1>5, ReadType DEF ReadConnack, Streams, TypeInv
  <2> QED BY <1>5, <2>1, <2>2, SamePending, SameCounts, SameBoxes, SameFlag
     DEF ReadConnack, TypeInv
<1>6. CASE Connack /\ ~Abort
  <2>1. Flow'
    BY <1>6 DEF Connack, Flow, TaskSteps, TypeInv
  <2> QED BY <1>6, <2>1, SamePending, SameCounts, SameBoxes, SameStreams, SameFlag
     DEF Connack, TypeInv
<1>7. CASE Abort /\ (TransportConnect \/ WriteConnect \/ ReadConnack \/ Connack)
  <2>1. UNCHANGED publish
    BY <1>7 DEF TransportConnect, WriteConnect, ReadConnack, Connack
  <2> QED BY <1>7, <2>1, AbortType
<1>8. CASE Reconnect
  <2>1. Flow'
    BY <1>8 DEF Reconnect, Flow, TypeInv
  <2> QED BY <1>8, <2>1, SamePending, SameCounts, SameBoxes, SameStreams, SameFlag
     DEF Reconnect, TypeInv
<1> QED BY <1>1, <1>2, <1>3, <1>4, <1>5, <1>6, <1>7, <1>8
   DEF esp_mqtt_connect

(* esp_mqtt_client_subscribe.                                              *)
LEMMA SubscribeTypes ==
    ASSUME TypeInv, esp_mqtt_client_subscribe
    PROVE  TypeInv'
<1> USE DEF vars, pendings, publish, streams, bounds, client, firmware, Goto
<1>1. CASE SubscribeEnqueue
  <2>1. Flow'
    BY <1>1 DEF SubscribeEnqueue, Flow, TaskSteps, PublishSteps, TypeInv
  <2>2. Boxes'
    BY <1>1, EnqueueType DEF SubscribeEnqueue, Boxes, TypeInv
  <2> QED BY <1>1, <2>1, <2>2, SamePending, SameCounts, SameStreams, SameFlag
     DEF SubscribeEnqueue, TypeInv
<1>2. CASE SubscribeBuild
  <2>1. Flow'
    BY <1>2, WireMessage, NotWire
       DEF SubscribeBuild, AllIds, Types, Flow, TaskSteps, PublishSteps, TypeInv
  <2>2. Pending'
    BY <1>2 DEF SubscribeBuild, AllIds, Pending, TypeInv
  <2> QED BY <1>2, <2>1, <2>2, SameCounts, SameBoxes, SameStreams, SameFlag
     DEF SubscribeBuild, TypeInv
<1>3. CASE SubscribePend
  <2>1. Flow'
    BY <1>3 DEF SubscribePend, Flow, TaskSteps, PublishSteps, TypeInv
  <2>2. Pending'
    BY <1>3, BuiltMessage DEF SubscribePend, AllIds, Pending, TypeInv
  <2>3. Counts'
    BY <1>3 DEF SubscribePend, Counts, TypeInv
  <2> QED BY <1>3, <2>1, <2>2, <2>3, SameBoxes, SameStreams, SameFlag DEF SubscribePend, TypeInv
<1>4. CASE SubscribeCount
  <2>1. Flow'
    BY <1>4 DEF SubscribeCount, Flow, TaskSteps, PublishSteps, TypeInv
  <2>2. Counts'
    BY <1>4 DEF SubscribeCount, Counts, TypeInv
  <2> QED BY <1>4, <2>1, <2>2, SamePending, SameBoxes, SameStreams, SameFlag
     DEF SubscribeCount, TypeInv
<1>5. CASE SubscribeWrite
  <2>1. Flow'
    BY <1>5 DEF SubscribeWrite, Flow, TaskSteps, PublishSteps, TypeInv
  <2>2. Streams'
    <3>1. outbound_message # NoMessage
      BY <1>5 DEF SubscribeWrite, Flow, TypeInv
    <3> QED BY <1>5, <3>1, WriteType DEF SubscribeWrite, Streams, TypeInv
  <2> QED BY <1>5, <2>1, <2>2, SamePending, SameCounts, SameBoxes, SameFlag
     DEF SubscribeWrite, TypeInv
<1> QED BY <1>1, <1>2, <1>3, <1>4, <1>5 DEF esp_mqtt_client_subscribe

(* A turn of the loop.                                                     *)
LEMMA ReceiveTypes ==
    ASSUME TypeInv, mqtt_process_receive \/ Keepalive \/ esp_mqtt_client_ping \/ Expire
    PROVE  TypeInv'
<1> USE DEF vars, pendings, publish, streams, bounds, client, firmware, Goto
<1>1. CASE Receive /\ ~Abort
  <2>1. Flow'
    BY <1>1 DEF Receive, Flow, TaskSteps, TypeInv
  <2>2. Streams'
    BY <1>1, ReadType DEF Receive, Streams, TypeInv
  <2> QED BY <1>1, <2>1, <2>2, SamePending, SameCounts, SameBoxes, SameFlag
     DEF Receive, TypeInv
<1>2. CASE HandleAck
  <2>1. Flow'
    BY <1>2 DEF HandleAck, Flow, TaskSteps, PublishSteps, TypeInv
  <2>2. Counts'
    BY <1>2 DEF HandleAck, is_valid_mqtt_msg, Counts, TypeInv
  <2>3. Boxes'
    BY <1>2, DeletePicks DEF HandleAck, Boxes, TypeInv
  <2> QED BY <1>2, <2>1, <2>2, <2>3, SamePending, SameStreams, SameFlag DEF HandleAck, TypeInv
<1>3. CASE CountDown
  <2>1. Flow'
    BY <1>3 DEF CountDown, Flow, TaskSteps, PublishSteps, TypeInv
  <2>2. Counts'
    BY <1>3 DEF CountDown, Counts, TypeInv
  <2> QED BY <1>3, <2>1, <2>2, SamePending, SameBoxes, SameStreams, SameFlag DEF CountDown, TypeInv
<1>4. CASE HandleQos
  <2>1. Flow'
    <3>1. in_buffer \in WireMessages
      BY <1>4 DEF HandleQos, Answer, TypeInv, Streams, NoMessage, Message
    <3>2. /\ in_buffer.id \in AllIds
          /\ Answer[in_buffer.type] \in Types \ {"NONE", "FAIL"}
      BY <1>4, <3>1 DEF HandleQos, Answer, WireMessages, AllIds, Types
    <3>3. outbound_message' \in WireMessages
      BY <1>4, <3>2, WireMessage DEF HandleQos
    <3> QED BY <1>4, <3>3, NotWire DEF HandleQos, Flow, TaskSteps, TypeInv
  <2> QED BY <1>4, <2>1, SamePending, SameCounts, SameBoxes, SameStreams, SameFlag
     DEF HandleQos, TypeInv
<1>5. CASE WriteAnswer
  <2>1. Flow'
    BY <1>5 DEF WriteAnswer, Flow, TaskSteps, PublishSteps, TypeInv
  <2>2. Streams'
    <3>1. outbound_message # NoMessage
      BY <1>5 DEF WriteAnswer, Flow, TypeInv
    <3> QED BY <1>5, <3>1, WriteType DEF WriteAnswer, Streams, TypeInv
  <2> QED BY <1>5, <2>1, <2>2, SamePending, SameCounts, SameBoxes, SameFlag DEF WriteAnswer, TypeInv
<1>6. CASE HandlePingResp
  <2>1. Flow'
    BY <1>6 DEF HandlePingResp, Flow, TaskSteps, PublishSteps, TypeInv
  <2>2. Flag'
    BY <1>6 DEF HandlePingResp, Flag, TypeInv
  <2> QED BY <1>6, <2>1, <2>2, SamePending, SameCounts, SameBoxes, SameStreams
     DEF HandlePingResp, TypeInv
<1>7. CASE Keepalive /\ ~Abort
  <2>1. Flow'
    BY <1>7, WireMessage, NotWire DEF Keepalive, AllIds, Types, Flow, TaskSteps, TypeInv
  <2> QED BY <1>7, <2>1, SamePending, SameCounts, SameBoxes, SameStreams, SameFlag
     DEF Keepalive, TypeInv
<1>8. CASE esp_mqtt_client_ping /\ ~Abort
  <2>1. Flow'
    BY <1>8 DEF esp_mqtt_client_ping, PingFails, Flow, TaskSteps, TypeInv
  <2>2. Streams'
    <3>1. outbound_message # NoMessage
      BY <1>8 DEF esp_mqtt_client_ping, PingFails, Flow, TypeInv
    <3> QED BY <1>8, <3>1, WriteType DEF esp_mqtt_client_ping, PingFails, Streams, TypeInv
  <2>3. Flag'
    BY <1>8 DEF esp_mqtt_client_ping, PingFails, Flag, TypeInv
  <2> QED BY <1>8, <2>1, <2>2, <2>3, SamePending, SameCounts, SameBoxes
     DEF esp_mqtt_client_ping, PingFails, TypeInv
<1>9. CASE Expire
  <2>1. Flow'
    BY <1>9 DEF Expire, Flow, TaskSteps, PublishSteps, TypeInv
  <2>2. Boxes'
    <3>1. outbox_delete_expired(outbox, 0) \in Seq(Items)
      BY ExpiredPicks DEF TypeInv, Boxes
    <3> DEFINE fresh == outbox_delete_expired(outbox, 0)
    <3> HIDE DEF fresh
    <3>2. outbox_cleanup(fresh, MaxSize) \in Seq(Items)
      BY <3>1, CleanupPicks DEF fresh
    <3> QED BY <1>9, <3>2 DEF Expire, fresh, Boxes
  <2> QED BY <1>9, <2>1, <2>2, SamePending, SameCounts, SameStreams, SameFlag DEF Expire, TypeInv
<1>10. CASE Abort /\ (Receive \/ Keepalive \/ esp_mqtt_client_ping)
  <2>1. UNCHANGED publish
    BY <1>10 DEF Receive, Keepalive, esp_mqtt_client_ping
  <2> QED BY <1>10, <2>1, AbortType
<1> QED BY <1>1, <1>2, <1>3, <1>4, <1>5, <1>6, <1>7, <1>8, <1>9, <1>10
   DEF mqtt_process_receive

(* esp_mqtt_client_publish.                                                *)
LEMMA PublishTypes ==
    ASSUME TypeInv, esp_mqtt_client_publish
    PROVE  TypeInv'
<1> USE DEF vars, pendings, publish, streams, bounds, client, firmware, Goto
<1>1. CASE PublishCheck
  <2>1. Flow'
    BY <1>1 DEF PublishCheck, Flow, TaskSteps, PublishSteps, TypeInv
  <2> QED BY <1>1, <2>1, SamePending, SameCounts, SameBoxes, SameStreams, SameFlag
     DEF PublishCheck, TypeInv
<1>2. CASE PublishBuild
  <2>1. Flow'
    BY <1>2, WireMessage, NotWire
       DEF PublishBuild, AllIds, Types, Flow, TaskSteps, PublishSteps, TypeInv
  <2>2. Pending'
    BY <1>2 DEF PublishBuild, AllIds, Pending, TypeInv
  <2> QED BY <1>2, <2>1, <2>2, SameCounts, SameBoxes, SameStreams, SameFlag
     DEF PublishBuild, TypeInv
<1>3. CASE PublishType
  <2>1. Flow'
    BY <1>3 DEF PublishType, Flow, TaskSteps, PublishSteps, TypeInv
  <2>2. Pending'
    BY <1>3, BuiltMessage DEF PublishType, AllIds, Pending, TypeInv
  <2> QED BY <1>3, <2>1, <2>2, SameCounts, SameBoxes, SameStreams, SameFlag DEF PublishType, TypeInv
<1>4. CASE PublishPend
  <2>1. Flow'
    BY <1>4 DEF PublishPend, Flow, TaskSteps, PublishSteps, TypeInv
  <2>2. Pending'
    BY <1>4 DEF PublishPend, AllIds, Pending, TypeInv
  <2>3. Counts'
    BY <1>4 DEF PublishPend, Counts, TypeInv
  <2> QED BY <1>4, <2>1, <2>2, <2>3, SameBoxes, SameStreams, SameFlag DEF PublishPend, TypeInv
<1>5. CASE PublishCount
  <2>1. Flow'
    BY <1>5 DEF PublishCount, Flow, TaskSteps, PublishSteps, TypeInv
  <2>2. Counts'
    BY <1>5 DEF PublishCount, Counts, TypeInv
  <2> QED BY <1>5, <2>1, <2>2, SamePending, SameBoxes, SameStreams, SameFlag
     DEF PublishCount, TypeInv
<1>6. CASE PublishEnqueue
  <2>1. Flow'
    BY <1>6 DEF PublishEnqueue, Flow, TaskSteps, PublishSteps, TypeInv
  <2>2. Boxes'
    BY <1>6, EnqueueType DEF PublishEnqueue, Boxes, TypeInv
  <2> QED BY <1>6, <2>1, <2>2, SamePending, SameCounts, SameStreams, SameFlag
     DEF PublishEnqueue, TypeInv
<1>7. CASE PublishWrite
  <2>1. Flow'
    BY <1>7 DEF PublishWrite, Flow, TaskSteps, PublishSteps, TypeInv
  <2>2. Pending'
    BY <1>7 DEF PublishWrite, AllIds, Pending, TypeInv
  <2>3. Streams'
    <3>1. outbound_message # NoMessage
      BY <1>7 DEF PublishWrite, Flow, TypeInv
    <3> QED BY <1>7, <3>1, WriteType DEF PublishWrite, Streams, TypeInv
  <2> QED BY <1>7, <2>1, <2>2, <2>3, SameCounts, SameBoxes, SameFlag DEF PublishWrite, TypeInv
<1> QED BY <1>1, <1>2, <1>3, <1>4, <1>5, <1>6, <1>7 DEF esp_mqtt_client_publish

(* The broker, the network and time.                                       *)
LEMMA EnvironmentTypes ==
    ASSUME TypeInv, Environment
    PROVE  TypeInv'
<1> USE DEF vars, pendings, publish, streams, bounds, client, firmware, Goto
<1>1. CASE BrokerReceives
  <2>1. Streams'
    <3> DEFINE m == Head(to_broker)
    <3>1. /\ to_broker \in Seq(WireMessages) /\ to_client \in Seq(WireMessages)
          /\ to_broker # <<>>
      BY <1>1 DEF BrokerReceives, TypeInv, Streams
    <3>2. m \in WireMessages /\ Tail(to_broker) \in Seq(WireMessages)
      BY <3>1, HeadTailProperties
    <3>3. m.id \in AllIds /\ 0 \in AllIds
      BY <3>2 DEF WireMessages, AllIds
    <3>4. ASSUME NEW t \in Types \ {"NONE", "FAIL"}, NEW id \in AllIds
          PROVE  Append(to_client, Message(t, id)) \in Seq(WireMessages)
      BY <3>1, WireMessage, AppendProperties
    <3>5. /\ "REFUSED" \in Types \ {"NONE", "FAIL"}
          /\ m.type \in DOMAIN Reply => Reply[m.type] \in Types \ {"NONE", "FAIL"}
      BY DEF Reply, Types
    <3>6. to_client' \in Seq(WireMessages) /\ to_broker' \in Seq(WireMessages)
      <4> HIDE DEF m
      <4>1. m.type \in DOMAIN Reply
              => Append(to_client, Message(Reply[m.type], m.id)) \in Seq(WireMessages)
        BY <3>3, <3>4, <3>5
      <4>2. Append(to_client, Message("REFUSED", 0)) \in Seq(WireMessages)
        BY <3>3, <3>4, <3>5
      <4> QED BY <1>1, <3>1, <3>2, <4>1, <4>2, NoMessages DEF BrokerReceives, m
    <3> QED BY <1>1, <3>6 DEF BrokerReceives, Streams, TypeInv
  <2> QED BY <1>1, <2>1, SameFlow, SamePending, SameCounts, SameBoxes, SameFlag
     DEF BrokerReceives, TypeInv
<1>2. CASE ServerAnswers
  <2>1. Streams'
    <3>1. ASSUME NEW id \in Ids
          PROVE  Append(to_client, Message("PUBLISH", id)) \in Seq(WireMessages)
      BY WireMessage, AppendProperties DEF TypeInv, Streams, AllIds, Types
    <3> QED BY <1>2, <3>1 DEF ServerAnswers, Streams, TypeInv
  <2> QED BY <1>2, <2>1, SameFlow, SamePending, SameCounts, SameBoxes, SameFlag
     DEF ServerAnswers, TypeInv
<1>3. CASE ConnectionLost
  <2>1. Streams'
    BY <1>3, NoMessages DEF ConnectionLost, Break, Streams, TypeInv
  <2> QED BY <1>3, <2>1, SameFlow, SamePending, SameCounts, SameBoxes, SameFlag
     DEF ConnectionLost, TypeInv
<1>4. CASE NetworkReturns
  <2> QED BY <1>4, SameFlow, SamePending, SameCounts, SameBoxes, SameStreams, SameFlag
     DEF NetworkReturns, TypeInv
<1>5. CASE TimePasses
  <2>1. Boxes'
    BY <1>5, AgedType DEF TimePasses, Boxes, TypeInv
  <2>2. Streams'
    <3>1. quiet' \in 0 .. 2
      BY <1>5, QuietType DEF TimePasses, TypeInv, Streams
    <3> QED BY <1>5, <3>1 DEF TimePasses, Streams, TypeInv
  <2> QED BY <1>5, <2>1, <2>2, SameFlow, SamePending, SameCounts, SameFlag DEF TimePasses, TypeInv
<1> QED BY <1>1, <1>2, <1>3, <1>4, <1>5 DEF Environment
-----------------------------------------------------------------------------
LEMMA TypeStart == Init => TypeInv
<1> SUFFICES ASSUME Init PROVE TypeInv
  OBVIOUS
<1>1. Flow
  BY DEF Init, Flow, TaskSteps, PublishSteps
<1>2. Pending /\ Counts
  BY DEF Init, Pending, AllIds, Types, Counts
<1>3. outbox \in Seq(Items) /\ to_broker \in Seq(WireMessages) /\ to_client \in Seq(WireMessages)
  BY DEF Init
<1>4. Streams
  BY <1>3 DEF Init, Streams
<1>5. Flag
  BY DEF Init, Flag
<1> QED BY <1>1, <1>2, <1>3, <1>4, <1>5 DEF TypeInv, Boxes

LEMMA TypeStep == TypeInv /\ [Next]_vars => TypeInv'
<1> SUFFICES ASSUME TypeInv, [Next]_vars PROVE TypeInv'
  OBVIOUS
<1>1. CASE TaskStep
  BY <1>1, ConnectTypes, SubscribeTypes, ReceiveTypes DEF TaskStep
<1>2. CASE esp_mqtt_client_publish
  BY <1>2, PublishTypes
<1>3. CASE Environment
  BY <1>3, EnvironmentTypes
<1>4. CASE UNCHANGED vars
  BY <1>4, SameFlow, SamePending, SameCounts, SameBoxes, SameStreams, SameFlag
     DEF vars, pendings, publish, streams, TypeInv, Flow, Counts
<1> QED BY <1>1, <1>2, <1>3, <1>4 DEF Next, Step

(* TypeOK, for the two tasks as they are: whatever the interleaving, the   *)
(* count of pending messages never gets negative, and only whole messages  *)
(* that have been built are written.                                       *)
THEOREM TypeCorrect == Spec => []TypeOK
<1>1. TypeInv => TypeOK
  BY BuiltMessage DEF TypeInv, TypeOK, Flow, Pending, Counts, Streams, Flag, Messages, AllIds
<1> QED BY <1>1, TypeStart, TypeStep, PTL DEF Spec
-----------------------------------------------------------------------------
(* With the calls kept apart.                                              *)

LEMMA TaskFrame == TaskStep => UNCHANGED publish
BY DEF TaskStep, TransportConnect, esp_mqtt_connect, BuildConnect, PendConnect, WriteConnect,
       ReadConnack, Connack, Reconnect, esp_mqtt_client_subscribe, SubscribeEnqueue,
       SubscribeBuild, SubscribePend, SubscribeCount, SubscribeWrite, mqtt_process_receive,
       Receive, HandleAck, CountDown, HandleQos, WriteAnswer, HandlePingResp, Keepalive,
       esp_mqtt_client_ping, Expire

LEMMA PublishFrame == esp_mqtt_client_publish => UNCHANGED client
BY DEF esp_mqtt_client_publish, PublishCheck, PublishBuild, PublishType, PublishPend,
       PublishCount, PublishEnqueue, PublishWrite

LEMMA EnvironmentFrame ==
    Environment => UNCHANGED <<client, outbound_message, pendings, publish>>
BY DEF Environment, BrokerReceives, ServerAnswers, ConnectionLost, NetworkReturns, TimePasses,
       firmware

(* A step that begins and ends with the calls apart.                       *)
Apart == ~Clash /\ ~Clash' /\ (Step \/ UNCHANGED vars)

(* A publish only steps where the task shares nothing with it, ...         *)
LEMMA PublishApart ==
    ASSUME Apart, esp_mqtt_client_publish
    PROVE  task \notin Sharing /\ UNCHANGED client
<1>1. UNCHANGED client
  BY PublishFrame
<1>2. pub # "idle" \/ pub' # "idle"
  BY DEF esp_mqtt_client_publish, PublishCheck, PublishBuild, PublishType, PublishPend,
         PublishCount, PublishEnqueue, PublishWrite
<1> QED BY <1>1, <1>2 DEF Apart, Clash, client

(* ... and beside a publish the task only takes such steps.                *)
Beside == \/ TransportConnect \/ Reconnect \/ Receive \/ HandlePingResp \/ Keepalive \/ Expire
          \/ HandleAck /\ task' = "keepalive"

LEMMA TaskApart ==
    ASSUME Apart, TaskStep, pub # "idle"
    PROVE  /\ Beside /\ task \notin Sharing /\ task' \notin Sharing
           /\ UNCHANGED <<outbound_message, pendings, publish>>
<1>1. UNCHANGED publish
  BY TaskFrame
<1>2. task \notin Sharing /\ task' \notin Sharing
  BY <1>1 DEF Apart, Clash, publish
<1>3. ~esp_mqtt_client_subscribe
  BY <1>2 DEF Sharing, esp_mqtt_client_subscribe, SubscribeEnqueue, SubscribeBuild,
              SubscribePend, SubscribeCount, SubscribeWrite
<1>4. ~esp_mqtt_connect
  BY <1>2 DEF Sharing, esp_mqtt_connect, BuildConnect, PendConnect, WriteConnect, ReadConnack,
              Connack, Goto
<1>5. ~CountDown /\ ~HandleQos /\ ~WriteAnswer /\ ~esp_mqtt_client_ping
  BY <1>2 DEF Sharing, CountDown, HandleQos, WriteAnswer, esp_mqtt_client_ping, Goto
<1>6. HandleAck => task' = "keepalive"
  BY <1>2 DEF Sharing, HandleAck, Goto
<1>7. Beside
  BY <1>3, <1>4, <1>5, <1>6 DEF TaskStep, mqtt_process_receive, Beside
<1>8. UNCHANGED <<outbound_message, pendings>>
  BY <1>2, <1>7 DEF Beside, Sharing, TransportConnect, Reconnect, Receive, HandlePingResp,
                    Keepalive, Expire, HandleAck, Abort, Goto
<1> QED BY <1>1, <1>2, <1>7, <1>8

LEMMA ApartStep ==
    ASSUME ApartInv, Apart
    PROVE  ApartInv'
<1> SUFFICES /\ task' \in {"subscribe_count", "acknowledged"} => loaded' = pending_msg_count'
             /\ pub' = "count" => pub_loaded' = pending_msg_count'
  BY DEF ApartInv, Apart
<1>1. CASE TaskStep
  <2>1. task' \in {"subscribe_count", "acknowledged"} => loaded' = pending_msg_count'
    <3>1. CASE TransportConnect \/ esp_mqtt_connect \/ Reconnect
      BY <3>1 DEF TransportConnect, esp_mqtt_connect, BuildConnect, PendConnect, WriteConnect,
                  ReadConnack, Connack, Reconnect, Abort, Goto, ApartInv, pendings
    <3>2. CASE esp_mqtt_client_subscribe
      BY <3>2 DEF esp_mqtt_client_subscribe, SubscribeEnqueue, SubscribeBuild, SubscribePend,
                  SubscribeCount, SubscribeWrite, Goto
    <3>3. CASE mqtt_process_receive
      BY <3>3 DEF mqtt_process_receive, Receive, HandleAck, CountDown, HandleQos, WriteAnswer,
                  HandlePingResp, Abort, Goto, pendings
    <3>4. CASE Keepalive \/ esp_mqtt_client_ping \/ Expire
      BY <3>4 DEF Keepalive, esp_mqtt_client_ping, PingFails, Expire, Abort, Goto
    <3> QED BY <1>1, <3>1, <3>2, <3>3, <3>4 DEF TaskStep
  <2>2. pub' = "count" => pub_loaded' = pending_msg_count'
    BY <1>1, TaskFrame, TaskApart DEF ApartInv, publish, pendings
  <2> QED BY <2>1, <2>2
<1>2. CASE esp_mqtt_client_publish
  <2>1. task' \notin {"subscribe_count", "acknowledged"}
    BY <1>2, PublishApart DEF client, Sharing
  <2>2. pub' = "count" => pub_loaded' = pending_msg_count'
    BY <1>2 DEF esp_mqtt_client_publish, PublishCheck, PublishBuild, PublishType, PublishPend,
                PublishCount, PublishEnqueue, PublishWrite
  <2> QED BY <2>1, <2>2
<1>3. CASE Environment
  BY <1>3, EnvironmentFrame DEF ApartInv, client, pendings, publish
<1>4. CASE UNCHANGED vars
  BY <1>4 DEF ApartInv, vars, pendings, publish
<1> QED BY <1>1, <1>2, <1>3, <1>4 DEF Apart, Step

LEMMA DescribedStep ==
    ASSUME Described, Apart
    PROVE  Described'
<1>1. CASE TaskStep
  <2>1. /\ task' = "connect_pending" => outbound_message' = Connect
        /\ task' \in {"connect_write", "connect_read", "connack", "subscribe"} =>
             outbound_message' = Connect /\ pending_msg_type' = "CONNECT" /\ pending_msg_id' = 0
        /\ task' = "ping" => outbound_message' = Message("PINGREQ", 0)
    <3>1. CASE TransportConnect \/ BuildConnect \/ WriteConnect \/ ReadConnack \/ Connack
                 \/ Reconnect
      BY <3>1 DEF TransportConnect, BuildConnect, WriteConnect, ReadConnack, Connack, Reconnect,
                  Abort, Goto, Described, pendings, Connect
    <3>2. CASE PendConnect
      <4>1. outbound_message = Connect /\ Connect.id = 0
        BY <3>2 DEF PendConnect, Described, Connect, Message
      <4>2. BufferTypes = {"CONNECT"}
        BY <4>1 DEF BufferTypes, Connect, TooLong, Message
      <4> QED BY <3>2, <4>1, <4>2 DEF PendConnect, Goto
    <3>3. CASE esp_mqtt_client_subscribe
      BY <3>3 DEF esp_mqtt_client_subscribe, SubscribeEnqueue, SubscribeBuild, SubscribePend,
                  SubscribeCount, SubscribeWrite, Goto
    <3>4. CASE mqtt_process_receive
      BY <3>4 DEF mqtt_process_receive, Receive, HandleAck, CountDown, HandleQos, WriteAnswer,
                  HandlePingResp, Abort, Goto
    <3>5. CASE Keepalive \/ esp_mqtt_client_ping \/ Expire
      BY <3>5 DEF Keepalive, esp_mqtt_client_ping, PingFails, Expire, Abort, Goto
    <3> QED BY <1>1, <3>1, <3>2, <3>3, <3>4, <3>5 DEF TaskStep, esp_mqtt_connect
  <2>2. CASE pub = "idle"
    <3>1. pub' = "idle"
      BY <1>1, <2>2, TaskFrame DEF publish
    <3> QED BY <2>1, <3>1 DEF Described, Connect
  <2>3. CASE pub # "idle"
    <3>1. UNCHANGED <<outbound_message, pendings, publish>>
      BY <1>1, <2>3, TaskApart
    <3> QED BY <2>1, <3>1 DEF Described, Connect, pendings, publish
  <2> QED BY <2>2, <2>3
<1>2. CASE esp_mqtt_client_publish
  <2>1. task' \notin {"connect_pending", "connect_write", "connect_read", "connack",
                      "subscribe", "ping"}
    BY <1>2, PublishApart DEF client, Sharing
  <2>2. CASE PublishCheck \/ PublishBuild \/ PublishPend \/ PublishCount \/ PublishEnqueue
               \/ PublishWrite
    BY <2>1, <2>2 DEF PublishCheck, PublishBuild, PublishPend, PublishCount, PublishEnqueue,
                      PublishWrite, Described, pendings
  <2>3. CASE PublishType
    <3>1. outbound_message = TooLong \/ outbound_message = Message("PUBLISH", pub_id)
      BY <2>3 DEF PublishType, Described
    <3>2. outbound_message # TooLong => BufferTypes = {"PUBLISH"}
      BY <3>1 DEF BufferTypes, Message
    <3> QED BY <2>1, <2>3, <3>1, <3>2 DEF PublishType, Described
  <2> QED BY <1>2, <2>2, <2>3 DEF esp_mqtt_client_publish
<1>3. CASE Environment
  BY <1>3, EnvironmentFrame DEF Described, client, pendings, publish
<1>4. CASE UNCHANGED vars
  BY <1>4 DEF Described, vars, pendings, publish
<1> QED BY <1>1, <1>2, <1>3, <1>4 DEF Apart, Step
-----------------------------------------------------------------------------
(* What is in the outbox.                                                  *)

LEMMA BoxedLess ==
    ASSUME BoxedIsPending, Boxes, Picks(outbox', outbox, DOMAIN outbox)
    PROVE  BoxedIsPending'
<1>1. \A j \in DOMAIN outbox' : \E i \in DOMAIN outbox : outbox'[j] = outbox[i]
  BY PicksItems
<1> QED BY <1>1 DEF BoxedIsPending

LEMMA BoxedMore ==
    ASSUME BoxedIsPending, Flow, Pending, Boxes, mqtt_enqueue,
           \/ outbound_message = TooLong
           \/ outbound_message = Message(pending_msg_type, pending_msg_id)
    PROVE  BoxedIsPending'
<1> DEFINE item == [id |-> pending_msg_id, type |-> pending_msg_type,
                    len |-> IF outbound_message = TooLong THEN 0 ELSE 1,
                    tick |-> 0, pending |-> FALSE, data |-> outbound_message]
<1>1. outbox' = outbox \/ outbox' = Append(outbox, item)
  BY DEF mqtt_enqueue, outbox_enqueue
<1>2. item.data # TooLong => item.data = Message(item.type, item.id)
  OBVIOUS
<1> HIDE DEF item
<1>3. CASE outbox' = Append(outbox, item)
  <2>1. Len(outbox) \in Nat /\ DOMAIN outbox = 1 .. Len(outbox)
    BY LenProperties DEF Boxes
  <2>2. /\ DOMAIN outbox' = 1 .. Len(outbox) + 1
        /\ \A i \in 1 .. Len(outbox) : outbox'[i] = outbox[i]
        /\ outbox'[Len(outbox) + 1] = item
    BY <1>3, <2>1, AppendProperties DEF Boxes
  <2>3. ASSUME NEW i \in DOMAIN outbox', outbox'[i].data # TooLong
        PROVE  outbox'[i].data = Message(outbox'[i].type, outbox'[i].id)
    <3>1. CASE i \in 1 .. Len(outbox)
      BY <2>1, <2>2, <2>3, <3>1 DEF BoxedIsPending
    <3>2. CASE i = Len(outbox) + 1
      BY <1>2, <2>2, <2>3, <3>2
    <3> QED BY <2>1, <2>2, <3>1, <3>2
  <2> QED BY <2>3 DEF BoxedIsPending
<1> QED BY <1>1, <1>3 DEF BoxedIsPending

LEMMA ExpirePicks ==
    ASSUME Boxes, Expire
    PROVE  Picks(outbox', outbox, DOMAIN outbox)
<1> DEFINE fresh == outbox_delete_expired(outbox, 0)
           recent == {i \in DOMAIN outbox : ToInt(ToInt(0) - outbox[i].tick) <= Timeout}
<1>1. fresh \in Seq(Items) /\ Picks(fresh, outbox, recent)
  BY ExpiredPicks DEF Boxes
<1>2. recent \subseteq DOMAIN outbox
  OBVIOUS
<1>3. outbox' = outbox_cleanup(fresh, MaxSize)
  BY DEF Expire
<1> HIDE DEF fresh, recent
<1>4. Picks(fresh, outbox, DOMAIN outbox)
  BY <1>1, <1>2, PicksMore
<1>5. Picks(outbox_cleanup(fresh, MaxSize), fresh, DOMAIN fresh)
  BY <1>1, CleanupPicks
<1> QED BY <1>3, <1>4, <1>5, PicksThrough

(* The only steps that change the outbox.                                  *)
LEMMA BoxFrame ==
    Step \/ UNCHANGED vars =>
         \/ UNCHANGED outbox \/ SubscribeEnqueue \/ HandleAck \/ Expire
         \/ PublishEnqueue \/ TimePasses
<1>1. TransportConnect \/ esp_mqtt_connect \/ Reconnect => UNCHANGED outbox
  BY DEF TransportConnect, esp_mqtt_connect, BuildConnect, PendConnect, WriteConnect,
         ReadConnack, Connack, Reconnect, Abort
<1>2. esp_mqtt_client_subscribe => SubscribeEnqueue \/ UNCHANGED outbox
  BY DEF esp_mqtt_client_subscribe, SubscribeBuild, SubscribePend, SubscribeCount,
         SubscribeWrite
<1>3. mqtt_process_receive => HandleAck \/ UNCHANGED outbox
  BY DEF mqtt_process_receive, Receive, CountDown, HandleQos, WriteAnswer, HandlePingResp, Abort
<1>4. Keepalive \/ esp_mqtt_client_ping => UNCHANGED outbox
  BY DEF Keepalive, esp_mqtt_client_ping, PingFails, Abort
<1>5. esp_mqtt_client_publish => PublishEnqueue \/ UNCHANGED outbox
  BY DEF esp_mqtt_client_publish, PublishCheck, PublishBuild, PublishType, PublishPend,
         PublishCount, PublishWrite
<1>6. Environment => TimePasses \/ UNCHANGED outbox
  BY DEF Environment, BrokerReceives, ServerAnswers, ConnectionLost, NetworkReturns, firmware
<1> QED BY <1>1, <1>2, <1>3, <1>4, <1>5, <1>6 DEF Step, TaskStep, vars

LEMMA BoxedStep ==
    ASSUME TypeInv, Described, BoxedIsPending, Apart
    PROVE  BoxedIsPending'
<1>1. Boxes /\ Flow /\ Pending
  BY DEF TypeInv
<1>2. CASE UNCHANGED outbox
  BY <1>2 DEF BoxedIsPending
<1>3. CASE SubscribeEnqueue
  <2>1. outbound_message = Message(pending_msg_type, pending_msg_id)
    BY <1>3 DEF SubscribeEnqueue, Described, Connect
  <2> QED BY <1>1, <1>3, <2>1, BoxedMore DEF SubscribeEnqueue
<1>4. CASE HandleAck
  BY <1>1, <1>2, <1>4, DeletePicks, BoxedLess DEF HandleAck, Boxes
<1>5. CASE Expire
  BY <1>1, <1>5, ExpirePicks, BoxedLess
<1>6. CASE PublishEnqueue
  <2>1. \/ outbound_message = TooLong
        \/ outbound_message = Message(pending_msg_type, pending_msg_id)
    BY <1>6 DEF PublishEnqueue, Described
  <2> QED BY <1>1, <1>6, <2>1, BoxedMore DEF PublishEnqueue
<1>7. CASE TimePasses
  <2>1. ASSUME NEW i \in DOMAIN outbox
        PROVE  /\ outbox'[i].data = outbox[i].data /\ outbox'[i].type = outbox[i].type
               /\ outbox'[i].id = outbox[i].id
    <3>1. outbox[i] \in Items
      BY <1>1, ElementOfSeq, LenProperties DEF Boxes
    <3>2. outbox'[i] = [outbox[i] EXCEPT !.tick = -1]
      BY <1>7 DEF TimePasses
    <3> QED BY <3>1, <3>2 DEF Items
  <2>2. DOMAIN outbox' = DOMAIN outbox
    BY <1>7 DEF TimePasses
  <2> QED BY <2>1, <2>2 DEF BoxedIsPending
<1>8. \/ UNCHANGED outbox \/ SubscribeEnqueue \/ HandleAck \/ Expire \/ PublishEnqueue
      \/ TimePasses
  BY BoxFrame DEF Apart
<1> QED BY <1>2, <1>3, <1>4, <1>5, <1>6, <1>7, <1>8
-----------------------------------------------------------------------------
(* What the count has to be enough for, part by part.                      *)

Balance(A) ==
    Count(outbox, Boxed(A)) + Count(to_broker, Out(A)) + Count(to_client, Back(A)) + Hand(A)

(* The parts after the step, against the parts before it.                  *)
Held(A, box, broker, way, hand) ==
    /\ Count(outbox', Boxed(A)) <= Count(outbox, Boxed(A)) + box
    /\ Count(to_broker', Out(A)) <= Count(to_broker, Out(A)) + broker
    /\ Count(to_client', Back(A)) <= Count(to_client, Back(A)) + way
    /\ Hand(A)' <= hand

LEMMA CountTypes ==
    ASSUME TypeInv, NEW A
    PROVE  /\ Count(outbox, Boxed(A)) \in Nat /\ Count(to_broker, Out(A)) \in Nat
           /\ Count(to_client, Back(A)) \in Nat
           /\ TaskHand(A) \in {0, 1} /\ PublishHand(A) \in {0, 1}
           /\ Hand(A) = TaskHand(A) + PublishHand(A) /\ Hand(A) \in {0, 1, 2}
           /\ pending_msg_count \in Nat
<1>1. outbox \in Seq(Items) /\ to_broker \in Seq(WireMessages) /\ to_client \in Seq(WireMessages)
  BY DEF TypeInv, Boxes, Streams
<1>2. Count(outbox, Boxed(A)) \in Nat
  BY <1>1, PlacesFinite
<1>3. Count(to_broker, Out(A)) \in Nat /\ Count(to_client, Back(A)) \in Nat
  BY <1>1, PlacesFinite
<1> QED BY <1>2, <1>3 DEF Hand, TaskHand, PublishHand, TypeInv, Counts

LEMMA CountTypesAfter ==
    ASSUME TypeInv', NEW A
    PROVE  /\ Count(outbox', Boxed(A)) \in Nat /\ Count(to_broker', Out(A)) \in Nat
           /\ Count(to_client', Back(A)) \in Nat
           /\ TaskHand(A)' \in {0, 1} /\ PublishHand(A)' \in {0, 1}
           /\ Hand(A)' = TaskHand(A)' + PublishHand(A)' /\ Hand(A)' \in {0, 1, 2}
           /\ pending_msg_count' \in Nat
<1>1. /\ outbox' \in Seq(Items) /\ to_broker' \in Seq(WireMessages)
      /\ to_client' \in Seq(WireMessages)
  BY DEF TypeInv, Boxes, Streams
<1>2. Count(outbox', Boxed(A)) \in Nat
  BY <1>1, PlacesFinite
<1>3. Count(to_broker', Out(A)) \in Nat /\ Count(to_client', Back(A)) \in Nat
  BY <1>1, PlacesFinite
<1> QED BY <1>2, <1>3 DEF Hand, TaskHand, PublishHand, TypeInv, Counts

(* The account of one step: what the parts gain is what they lose and what *)
(* the count gains.                                                        *)
LEMMA BalanceStep ==
    ASSUME TypeInv, TypeInv', NEW A, Balance(A) <= pending_msg_count,
           NEW box \in {-1, 0, 1}, NEW broker \in {-1, 0, 1}, NEW way \in {-1, 0, 1},
           NEW hand \in {0, 1, 2}, NEW more \in {-1, 0, 1}, Held(A, box, broker, way, hand),
           pending_msg_count' = pending_msg_count + more,
           box + broker + way + hand <= Hand(A) + more
    PROVE  Balance(A)' <= pending_msg_count'
<1>1. /\ Count(outbox, Boxed(A)) \in Nat /\ Count(to_broker, Out(A)) \in Nat
      /\ Count(to_client, Back(A)) \in Nat /\ Hand(A) \in {0, 1, 2}
      /\ pending_msg_count \in Nat
  BY CountTypes
<1>2. /\ Count(outbox', Boxed(A)) \in Nat /\ Count(to_broker', Out(A)) \in Nat
      /\ Count(to_client', Back(A)) \in Nat /\ Hand(A)' \in {0, 1, 2}
      /\ pending_msg_count' \in Nat
  BY CountTypesAfter
<1> QED BY <1>1, <1>2 DEF Balance, Held

(* Nothing comes, and perhaps what is on its way is lost.                  *)
LEMMA KeepCount ==
    ASSUME TypeInv, TypeInv', CountInv, UNCHANGED <<outbox, pending_msg_count>>,
           to_broker' \in {to_broker, <<>>}, to_client' \in {to_client, <<>>},
           \A A \in SUBSET AllIds :
               (InTask(A)' => InTask(A)) /\ (InPublish(A)' => InPublish(A))
    PROVE  CountInv'
<1> SUFFICES ASSUME NEW A \in SUBSET AllIds PROVE Balance(A)' <= pending_msg_count'
  BY DEF CountInv, Balance
<1>1. TaskHand(A)' <= TaskHand(A) /\ PublishHand(A)' <= PublishHand(A)
  BY DEF TaskHand, PublishHand
<1>2. Hand(A)' <= Hand(A) /\ Hand(A) \in {0, 1, 2}
  BY <1>1, CountTypes, CountTypesAfter
<1>3. Held(A, 0, 0, 0, Hand(A))
  BY <1>2, CountTypes, CountEmpty DEF Held
<1>4. Balance(A) <= pending_msg_count /\ pending_msg_count \in Nat
  BY CountTypes DEF CountInv, Balance
<1> QED BY <1>2, <1>3, <1>4, BalanceStep

(* Each call leaves the other's hand alone.                                *)
LEMMA PublishKept ==
    ASSUME Apart, TaskStep, NEW A
    PROVE  (InPublish(A)' => InPublish(A)) /\ PublishHand(A)' <= PublishHand(A)
<1>1. InPublish(A)' => InPublish(A)
  <2>1. CASE pub = "idle"
    BY <2>1, TaskFrame DEF publish, InPublish
  <2>2. CASE pub # "idle"
    BY <2>2, TaskApart DEF publish, InPublish
  <2> QED BY <2>1, <2>2
<1> QED BY <1>1 DEF PublishHand

LEMMA TaskKept ==
    ASSUME Apart, esp_mqtt_client_publish, NEW A
    PROVE  (InTask(A)' <=> InTask(A)) /\ TaskHand(A)' = TaskHand(A)
<1>1. InTask(A)' <=> InTask(A)
  BY PublishApart DEF client, Sharing, InTask
<1> QED BY <1>1 DEF TaskHand

LEMMA QuietSteps ==
    ASSUME TypeInv, TypeInv', CountInv, Apart,
           \/ TransportConnect \/ BuildConnect \/ PendConnect \/ Connack \/ Reconnect
           \/ SubscribeBuild \/ SubscribePend \/ HandlePingResp \/ Keepalive
    PROVE  CountInv'
<1>1. TaskStep
  BY DEF TaskStep, esp_mqtt_connect, esp_mqtt_client_subscribe, mqtt_process_receive
<1>2. task' \notin {"handle", "answer", "acknowledged", "subscribe_write"}
  BY DEF TransportConnect, BuildConnect, PendConnect, Connack, Reconnect, SubscribeBuild,
         SubscribePend, HandlePingResp, Keepalive, Abort, Goto
<1>3. /\ UNCHANGED <<outbox, pending_msg_count>>
      /\ to_broker' \in {to_broker, <<>>} /\ to_client' \in {to_client, <<>>}
  BY DEF TransportConnect, BuildConnect, PendConnect, Connack, Reconnect, SubscribeBuild,
         SubscribePend, HandlePingResp, Keepalive, Abort, streams, pendings
<1>4. \A A \in SUBSET AllIds : ~InTask(A)' /\ (InPublish(A)' => InPublish(A))
  BY <1>1, <1>2, PublishKept DEF InTask
<1> QED BY <1>3, <1>4, KeepCount

LEMMA OneRead == Streams => ~(ReadMessages /\ ReadTimesOut)
<1> SUFFICES ASSUME Streams, ReadMessages, to_client = <<>> PROVE FALSE
  BY DEF ReadTimesOut
<1>1. PICK n \in 1 .. Len(to_client) : TRUE
  BY DEF ReadMessages
<1> QED BY <1>1, EmptySeq

(* What is read is no longer on its way, and only the first is handled.    *)
LEMMA ReadSteps ==
    ASSUME TypeInv, TypeInv', CountInv, Apart, ReadConnack \/ Receive
    PROVE  CountInv'
<1>1. TaskStep /\ UNCHANGED <<outbox, pending_msg_count>>
  BY DEF TaskStep, esp_mqtt_connect, mqtt_process_receive, ReadConnack, Receive, Abort, pendings
<1>2. CASE Abort \/ ReadTimesOut
  <2>1. /\ to_broker' \in {to_broker, <<>>} /\ to_client' \in {to_client, <<>>}
        /\ task' \notin {"handle", "answer", "acknowledged", "subscribe_write"}
    <3>1. CASE Abort
      BY <3>1 DEF Abort, Goto
    <3>2. CASE ReadTimesOut /\ ~ReadMessages
      BY <3>2 DEF ReadConnack, Receive, Abort, ReadTimesOut, Goto
    <3> QED BY <1>2, <3>1, <3>2, OneRead DEF TypeInv
  <2>2. \A A \in SUBSET AllIds : ~InTask(A)' /\ (InPublish(A)' => InPublish(A))
    BY <1>1, <2>1, PublishKept DEF InTask
  <2> QED BY <1>1, <2>1, <2>2, KeepCount
<1>3. CASE ReadMessages /\ ~Abort
  <2> SUFFICES ASSUME NEW A \in SUBSET AllIds PROVE Balance(A)' <= pending_msg_count'
    BY DEF CountInv, Balance
  <2>1. to_client \in Seq(WireMessages)
    BY DEF TypeInv, Streams
  <2>2. PICK n \in 1 .. Len(to_client) :
          in_buffer' = Head(to_client) /\ to_client' = SubSeq(to_client, n + 1, Len(to_client))
    BY <1>3 DEF ReadMessages
  <2>3. /\ Len(to_client) \in Nat /\ DOMAIN to_client = 1 .. Len(to_client)
        /\ n \in 0 .. Len(to_client) /\ 1 \in DOMAIN to_client
    BY <2>1, <2>2, LenProperties
  <2>4. Head(to_client) = to_client[1]
    OBVIOUS
  <2>5. Picks(to_client', to_client, DOMAIN to_client \ {1})
    <3>1. Picks(to_client', to_client, n + 1 .. Len(to_client))
      BY <2>1, <2>2, <2>3, SuffixPicks
    <3>2. n + 1 .. Len(to_client) \subseteq DOMAIN to_client \ {1}
      BY <2>2, <2>3
    <3> QED BY <3>1, <3>2, PicksMore
  <2>6. to_client' \in Seq(WireMessages)
    BY DEF TypeInv, Streams
  <2>7. /\ task' = "handle" \/ task' = "connack"
        /\ UNCHANGED to_broker
    BY <1>3, OneRead DEF ReadConnack, Receive, Goto, TypeInv
  <2>8. /\ Balance(A) <= pending_msg_count /\ pending_msg_count \in Nat
        /\ PublishHand(A) \in {0, 1} /\ Hand(A) \in {0, 1, 2} /\ PublishHand(A) <= Hand(A)
        /\ TaskHand(A)' \in {0, 1} /\ Hand(A)' <= TaskHand(A)' + PublishHand(A)
    BY <1>1, PublishKept, CountTypes, CountTypesAfter DEF CountInv, Balance
  <2>9. CASE to_client[1] \in Back(A)
    <3>1. Count(to_client', Back(A)) <= Count(to_client, Back(A)) - 1
      BY <2>1, <2>3, <2>5, <2>6, <2>9, CountLess
    <3>2. Hand(A)' <= 1 + PublishHand(A) /\ 1 + PublishHand(A) \in {0, 1, 2}
      BY <2>8, CountTypesAfter
    <3>3. Held(A, 0, 0, -1, 1 + PublishHand(A))
      BY <1>1, <2>7, <3>1, <3>2, CountTypes DEF Held
    <3> QED BY <1>1, <2>8, <3>2, <3>3, BalanceStep
  <2>10. CASE to_client[1] \notin Back(A)
    <3>1. Count(to_client', Back(A)) <= Count(to_client, Back(A))
      <4> DEFINE rest == DOMAIN to_client \ {1}
      <4>1. rest \in SUBSET DOMAIN to_client
        OBVIOUS
      <4> QED BY <2>1, <2>5, <4>1, CountSome
    <3>2. TaskHand(A)' = 0
      BY <2>2, <2>4, <2>7, <2>10 DEF TaskHand, InTask
    <3>3. Held(A, 0, 0, 0, PublishHand(A))
      BY <1>1, <2>7, <2>8, <3>1, <3>2, CountTypes, CountTypesAfter DEF Held
    <3> QED BY <1>1, <2>8, <3>3, BalanceStep
  <2> QED BY <2>9, <2>10
<1> QED BY <1>2, <1>3 DEF ReadConnack, Receive

(* What is written is on its way, and no longer in hand.                   *)
LEMMA WriteCount ==
    ASSUME TypeInv, NEW A, outbound_message # NoMessage,
           \/ to_broker' = to_broker
           \/ to_broker' = Append(to_broker, outbound_message) /\ outbound_message # TooLong
    PROVE  Count(to_broker', Out(A)) <= Count(to_broker, Out(A))
                                           + IF outbound_message \in Out(A) THEN 1 ELSE 0
<1>1. to_broker \in Seq(WireMessages)
  BY DEF TypeInv, Streams
<1>2. Count(to_broker, Out(A)) \in Nat
  BY CountTypes
<1>3. CASE to_broker' = Append(to_broker, outbound_message) /\ outbound_message # TooLong
  <2>1. outbound_message \in WireMessages
    BY <1>3 DEF TypeInv, Flow
  <2> QED BY <1>1, <1>2, <1>3, <2>1, CountAppend
<1> QED BY <1>2, <1>3

LEMMA WriteSteps ==
    ASSUME TypeInv, TypeInv', Described, CountInv, Apart,
           WriteConnect \/ SubscribeWrite \/ WriteAnswer \/ esp_mqtt_client_ping
    PROVE  CountInv'
<1>1. TaskStep /\ UNCHANGED <<outbox, pending_msg_count>>
  BY DEF TaskStep, esp_mqtt_connect, esp_mqtt_client_subscribe, mqtt_process_receive,
         WriteConnect, SubscribeWrite, WriteAnswer, esp_mqtt_client_ping, PingFails, Abort,
         pendings
<1>2. task' \notin {"handle", "answer", "acknowledged", "subscribe_write"}
  BY DEF WriteConnect, SubscribeWrite, WriteAnswer, esp_mqtt_client_ping, PingFails, Abort, Goto
<1>3. \A A : ~InTask(A)' /\ TaskHand(A)' = 0
  BY <1>2 DEF InTask, TaskHand
<1>4. CASE Abort
  <2>1. to_broker' = <<>> /\ to_client' = <<>>
    BY <1>4 DEF Abort
  <2> QED BY <1>1, <1>3, <2>1, PublishKept, KeepCount
<1>5. CASE ~Abort
  <2> SUFFICES ASSUME NEW A \in SUBSET AllIds PROVE Balance(A)' <= pending_msg_count'
    BY DEF CountInv, Balance
  <2>1. outbound_message # NoMessage
    BY DEF WriteConnect, SubscribeWrite, WriteAnswer, esp_mqtt_client_ping, TypeInv, Flow
  <2>2. /\ UNCHANGED to_client
        /\ \/ to_broker' = to_broker
           \/ to_broker' = Append(to_broker, outbound_message) /\ outbound_message # TooLong
    BY <1>5 DEF WriteConnect, SubscribeWrite, WriteAnswer, esp_mqtt_client_ping, PingFails,
                WriteOk, WriteFails, streams
  <2>3. Count(to_broker', Out(A)) <= Count(to_broker, Out(A))
                                        + IF outbound_message \in Out(A) THEN 1 ELSE 0
    BY <2>1, <2>2, WriteCount
  <2>4. outbound_message \in Out(A) => TaskHand(A) = 1
    BY DEF WriteConnect, SubscribeWrite, WriteAnswer, esp_mqtt_client_ping, Described, Out,
           TaskHand, InTask, Connect, Message
  <2>5. /\ PublishHand(A)' <= PublishHand(A) /\ TaskHand(A)' = 0
        /\ PublishHand(A) \in {0, 1, 2} /\ TaskHand(A) \in {-1, 0, 1}
    BY <1>1, <1>3, PublishKept, CountTypes
  <2>6. Balance(A) <= pending_msg_count /\ pending_msg_count \in Nat
    BY CountTypes DEF CountInv, Balance
  <2>7. Count(to_broker', Out(A)) <= Count(to_broker, Out(A)) + TaskHand(A)
    <3>1. /\ Count(to_broker', Out(A)) \in Nat /\ Count(to_broker, Out(A)) \in Nat
          /\ TaskHand(A) \in {0, 1}
      BY CountTypes, CountTypesAfter
    <3>2. CASE outbound_message \in Out(A)
      BY <2>3, <2>4, <3>1, <3>2
    <3>3. CASE outbound_message \notin Out(A)
      BY <2>3, <3>1, <3>3
    <3> QED BY <3>2, <3>3
  <2>8. Held(A, 0, TaskHand(A), 0, PublishHand(A))
    BY <1>1, <2>2, <2>5, <2>7, CountTypes, CountTypesAfter DEF Held
  <2>9. 0 + TaskHand(A) + 0 + PublishHand(A) <= Hand(A) + 0
    BY CountTypes
  <2> QED BY <1>1, <2>5, <2>6, <2>8, <2>9, BalanceStep
<1> QED BY <1>4, <1>5

LEMMA PublishWriteCount ==
    ASSUME TypeInv, TypeInv', CountInv, Apart, PublishWrite
    PROVE  CountInv'
<1> SUFFICES ASSUME NEW A \in SUBSET AllIds PROVE Balance(A)' <= pending_msg_count'
  BY DEF CountInv, Balance
<1>1. /\ UNCHANGED <<outbox, pending_msg_count, to_client>> /\ outbound_message # NoMessage
      /\ esp_mqtt_client_publish /\ pub = "write" /\ pub' = "idle"
      /\ \/ to_broker' = to_broker
         \/ to_broker' = Append(to_broker, outbound_message) /\ outbound_message # TooLong
  BY DEF PublishWrite, WriteOk, WriteFails, esp_mqtt_client_publish, pendings, streams, TypeInv,
         Flow
<1>2. Count(to_broker', Out(A)) <= Count(to_broker, Out(A))
                                      + IF outbound_message \in Out(A) THEN 1 ELSE 0
  BY <1>1, WriteCount
<1>3. PublishHand(A) = (IF outbound_message \in Out(A) THEN 1 ELSE 0) /\ PublishHand(A)' = 0
  BY <1>1 DEF PublishHand, InPublish
<1>4. TaskHand(A)' = TaskHand(A) /\ TaskHand(A) \in {0, 1, 2} /\ PublishHand(A) \in {-1, 0, 1}
  BY <1>1, TaskKept, CountTypes
<1>5. Held(A, 0, PublishHand(A), 0, TaskHand(A))
  BY <1>1, <1>2, <1>3, <1>4, CountTypes, CountTypesAfter DEF Held
<1>6. 0 + PublishHand(A) + 0 + TaskHand(A) <= Hand(A) + 0
  BY CountTypes
<1>7. /\ Balance(A) <= pending_msg_count /\ pending_msg_count' = pending_msg_count + 0
  BY <1>1, CountTypes DEF CountInv, Balance
<1> QED BY <1>4, <1>5, <1>6, <1>7, BalanceStep

(* SUBSCRIBE and a publish are counted before they are in hand to be       *)
(* written, and an acknowledgement is no longer in hand when it is counted.*)
LEMMA CountingSteps ==
    ASSUME TypeInv, TypeInv', ApartInv, CountInv, Apart,
           SubscribeCount \/ CountDown \/ PublishCount
    PROVE  CountInv'
<1> SUFFICES ASSUME NEW A \in SUBSET AllIds PROVE Balance(A)' <= pending_msg_count'
  BY DEF CountInv, Balance
<1>1. /\ Balance(A) <= pending_msg_count /\ pending_msg_count \in Nat
      /\ TaskHand(A) \in {0, 1} /\ PublishHand(A) \in {0, 1}
      /\ TaskHand(A)' \in {0, 1} /\ PublishHand(A)' \in {0, 1}
      /\ Hand(A) = TaskHand(A) + PublishHand(A) /\ Hand(A)' = TaskHand(A)' + PublishHand(A)'
  BY CountTypes, CountTypesAfter DEF CountInv, Balance
<1>2. UNCHANGED <<outbox, to_broker, to_client>>
  BY DEF SubscribeCount, CountDown, PublishCount, streams
<1>3. ASSUME NEW h, Hand(A)' <= h PROVE Held(A, 0, 0, 0, h)
  BY <1>2, <1>3, CountTypes DEF Held
<1>4. CASE SubscribeCount \/ PublishCount
  <2>1. pending_msg_count' = pending_msg_count + 1
    BY <1>4 DEF SubscribeCount, PublishCount, ApartInv
  <2>2. Hand(A)' <= Hand(A) + 1
    <3>1. CASE SubscribeCount
      BY <1>1, <3>1, PublishKept DEF TaskStep, esp_mqtt_client_subscribe
    <3>2. CASE PublishCount
      BY <1>1, <3>2, TaskKept DEF esp_mqtt_client_publish
    <3> QED BY <1>4, <3>1, <3>2
  <2>3. Hand(A)' \in {0, 1, 2} /\ Held(A, 0, 0, 0, Hand(A)')
    BY <1>1, <1>3
  <2> QED BY <1>1, <2>1, <2>2, <2>3, BalanceStep
<1>5. CASE CountDown
  <2>1. pending_msg_count' = pending_msg_count + -1
    BY <1>1, <1>5 DEF CountDown, ApartInv
  <2>2. task' = "keepalive" /\ task = "acknowledged"
    BY <1>5 DEF CountDown, Goto
  <2>3. TaskHand(A) = 1 /\ TaskHand(A)' = 0
    BY <2>2 DEF TaskHand, InTask
  <2>4. PublishHand(A)' <= PublishHand(A)
    BY <1>5, PublishKept DEF TaskStep, mqtt_process_receive
  <2>5. Hand(A)' \in {0, 1, 2} /\ Held(A, 0, 0, 0, Hand(A)') /\ Hand(A)' <= Hand(A) + -1
    BY <1>1, <1>3, <2>3, <2>4
  <2> QED BY <1>1, <2>1, <2>5, BalanceStep
<1> QED BY <1>4, <1>5

(* The answer of QoS 2 carries the id of what it answers.                  *)
LEMMA QosCount ==
    ASSUME TypeInv, TypeInv', CountInv, Apart, HandleQos
    PROVE  CountInv'
<1>1. /\ UNCHANGED <<outbox, pending_msg_count, to_broker, to_client>>
      /\ task = "handle" /\ task' = "answer" /\ TaskStep
  BY DEF HandleQos, Goto, pendings, streams, TaskStep, mqtt_process_receive
<1>2. in_buffer \in WireMessages
  BY DEF HandleQos, Answer, TypeInv, Streams, NoMessage, Message
<1>3. ASSUME NEW A \in SUBSET AllIds, outbound_message' \in Out(A) PROVE in_buffer \in Back(A)
  BY <1>2, <1>3 DEF HandleQos, Answer, Message, Out, Back
<1>4. \A A \in SUBSET AllIds :
         (InTask(A)' => InTask(A)) /\ (InPublish(A)' => InPublish(A))
  BY <1>1, <1>3, PublishKept DEF InTask
<1> QED BY <1>1, <1>4, KeepCount

(* An acknowledgement that finds its item takes it; one that does not is   *)
(* counted against what the id may still be owed.                          *)
LEMMA AckCount ==
    ASSUME TypeInv, TypeInv', CountInv, Apart, HandleAck
    PROVE  CountInv'
<1> DEFINE type == Acknowledged[in_buffer.type]
           id == in_buffer.id
<1> SUFFICES ASSUME NEW A \in SUBSET AllIds PROVE Balance(A)' <= pending_msg_count'
  BY DEF CountInv, Balance
<1>1. /\ UNCHANGED <<to_broker, to_client>> /\ pending_msg_count' = pending_msg_count + 0
      /\ task = "handle" /\ TaskStep
      /\ \/ task' = "acknowledged" /\ outbox' = outbox_delete(outbox, id, type)
         \/ task' = "keepalive" /\ outbox' = outbox
  BY DEF HandleAck, Goto, pendings, streams, TypeInv, Counts, TaskStep, mqtt_process_receive
<1>2. in_buffer \in WireMessages /\ in_buffer.type \in {"SUBACK", "PUBCOMP"} /\ id \in AllIds
  BY DEF HandleAck, Acknowledged, TypeInv, Streams, NoMessage, Message, WireMessages, AllIds
<1>3. \A B \in SUBSET AllIds :
         Balance(B) <= pending_msg_count /\ pending_msg_count \in Nat /\ Hand(B) \in {0, 1, 2}
  BY CountTypes DEF CountInv, Balance
<1>4. outbox \in Seq(Items) /\ outbox' \in Seq(Items)
  BY DEF TypeInv, Boxes
<1>5. task' = "acknowledged" => Hand(A)' \in {0, 1}
  <2>1. task' = "acknowledged" => pub' = "idle"
    BY DEF Apart, Clash, Sharing
  <2>2. pub' = "idle" => PublishHand(A)' = 0
    BY DEF PublishHand, InPublish
  <2> QED BY <2>1, <2>2, CountTypesAfter
<1>6. CASE task' = "keepalive" /\ outbox' = outbox
  <2>1. \A B \in SUBSET AllIds : ~InTask(B)' /\ (InPublish(B)' => InPublish(B))
    BY <1>1, <1>6, PublishKept DEF InTask
  <2>2. CountInv'
    BY <1>1, <1>3, <1>6, <2>1, KeepCount
  <2> QED BY <2>2 DEF CountInv, Balance
<1>7. CASE task' = "acknowledged" /\ outbox' = outbox_delete(outbox, id, type)
  <2>1. Picks(outbox', outbox, DOMAIN outbox)
    BY <1>4, <1>7, DeletePicks
  <2>2. Count(outbox', Boxed(A)) <= Count(outbox, Boxed(A))
    BY <1>4, <2>1, CountSome
  <2>3. CASE in_buffer \in Back(A)
    <3>1. Hand(A) >= 1
      <4>1. TaskHand(A) = 1
        BY <1>1, <2>3 DEF TaskHand, InTask
      <4> QED BY <4>1, CountTypes
    <3>2. Held(A, 0, 0, 0, 1)
      BY <1>1, <1>5, <1>7, <2>2, CountTypes DEF Held
    <3> QED BY <1>1, <1>3, <3>1, <3>2, BalanceStep
  <2>4. CASE in_buffer \notin Back(A)
    <3>1. type = "PUBLISH" /\ id \notin A
      BY <1>2, <2>4 DEF Back, Acknowledged
    <3>2. CASE HasItem(outbox, id, type)
      <4>1. PICK i \in DOMAIN outbox :
              /\ outbox[i].id = id /\ outbox[i].type = type
              /\ Picks(outbox', outbox, DOMAIN outbox \ {i})
        BY <1>4, <1>7, <3>2, DeleteTakesOne
      <4>2. outbox[i] \in Boxed(A)
        <5>1. outbox[i] \in Items
          BY <1>4, ElementOfSeq, LenProperties
        <5> QED BY <3>1, <4>1, <5>1 DEF Boxed
      <4>3. Count(outbox', Boxed(A)) <= Count(outbox, Boxed(A)) - 1
        BY <1>4, <4>1, <4>2, CountLess
      <4>4. Held(A, -1, 0, 0, 1)
        BY <1>1, <1>5, <1>7, <4>3, CountTypes DEF Held
      <4> QED BY <1>1, <1>3, <4>4, BalanceStep
    <3>3. CASE ~HasItem(outbox, id, type)
      <4> DEFINE B == A \cup {id}
      <4>1. B \in SUBSET AllIds
        BY <1>2
      <4>2. outbox' = outbox
        BY <1>4, <1>7, <3>3, DeleteNothing
      <4>3. Count(outbox, Boxed(B)) = Count(outbox, Boxed(A))
        <5>1. ASSUME NEW i \in DOMAIN outbox PROVE outbox[i] \in Boxed(A) <=> outbox[i] \in Boxed(B)
          BY <3>1, <3>3 DEF Boxed, HasItem
        <5>2. Places(outbox, Boxed(A)) = Places(outbox, Boxed(B))
          BY <5>1 DEF Places
        <5> QED BY <5>2 DEF Count
      <4>4. Out(A) \subseteq Out(B) /\ Back(A) \subseteq Back(B)
        BY DEF Out, Back
      <4>5. /\ Count(to_broker, Out(A)) <= Count(to_broker, Out(B))
            /\ Count(to_client, Back(A)) <= Count(to_client, Back(B))
        <5> HIDE DEF B
        <5>1. to_broker \in Seq(WireMessages) /\ to_client \in Seq(WireMessages)
          BY DEF TypeInv, Streams
        <5>2. Count(to_broker, Out(A)) <= Count(to_broker, Out(B))
          BY <4>4, <5>1, CountMore
        <5>3. Count(to_client, Back(A)) <= Count(to_client, Back(B))
          BY <4>4, <5>1, CountMore
        <5> QED BY <5>2, <5>3
      <4>6. Hand(B) >= 1
        <5>1. TaskHand(B) = 1
          BY <1>1, <1>2, <3>1 DEF TaskHand, InTask, Back, Acknowledged
        <5> QED BY <5>1, CountTypes
      <4> HIDE DEF B
      <4>7. /\ Count(outbox, Boxed(A)) \in Nat /\ Count(to_broker, Out(A)) \in Nat
            /\ Count(to_client, Back(A)) \in Nat
        BY CountTypes
      <4>8. /\ Count(outbox, Boxed(B)) \in Nat /\ Count(to_broker, Out(B)) \in Nat
            /\ Count(to_client, Back(B)) \in Nat
        BY CountTypes
      <4>9. Balance(B) <= pending_msg_count /\ pending_msg_count \in Nat
        BY <1>3, <4>1
      <4>10. Hand(A)' \in {0, 1} /\ Hand(B) \in {0, 1, 2}
        BY <1>3, <1>5, <1>7, <4>1
      <4> QED BY <1>1, <4>2, <4>3, <4>5, <4>6, <4>7, <4>8, <4>9, <4>10 DEF Balance
    <3> QED BY <3>2, <3>3
  <2> QED BY <2>3, <2>4
<1> QED BY <1>1, <1>6, <1>7

(* A copy goes into the outbox: what was in hand is now an item, or still  *)
(* in hand to be written, and not both against the same id.                *)
LEMMA EnqueueCount ==
    ASSUME TypeInv, TypeInv', Described, CountInv, Apart,
           SubscribeEnqueue \/ PublishEnqueue
    PROVE  CountInv'
<1> DEFINE item == [id |-> pending_msg_id, type |-> pending_msg_type,
                    len |-> IF outbound_message = TooLong THEN 0 ELSE 1,
                    tick |-> 0, pending |-> FALSE, data |-> outbound_message]
<1> SUFFICES ASSUME NEW A \in SUBSET AllIds PROVE Balance(A)' <= pending_msg_count'
  BY DEF CountInv, Balance
<1>1. /\ Balance(A) <= pending_msg_count /\ pending_msg_count \in Nat
      /\ TaskHand(A) \in {0, 1} /\ PublishHand(A) \in {0, 1}
      /\ TaskHand(A)' \in {0, 1} /\ PublishHand(A)' \in {0, 1}
      /\ Hand(A) = TaskHand(A) + PublishHand(A) /\ Hand(A)' = TaskHand(A)' + PublishHand(A)'
  BY CountTypes, CountTypesAfter DEF CountInv, Balance
<1>2. /\ UNCHANGED <<to_broker, to_client, outbound_message>>
      /\ pending_msg_count' = pending_msg_count + 0
  BY <1>1 DEF SubscribeEnqueue, PublishEnqueue, streams, pendings
<1>3. outbox' = outbox \/ outbox' = Append(outbox, item)
  BY DEF SubscribeEnqueue, PublishEnqueue, mqtt_enqueue, outbox_enqueue
<1>4. item \in Items
  BY BuiltMessage DEF TypeInv, Pending, Items
<1>5. item.type = pending_msg_type /\ item.id = pending_msg_id
  OBVIOUS
<1> HIDE DEF item
<1>6. Count(outbox', Boxed(A)) <= Count(outbox, Boxed(A)) + IF item \in Boxed(A) THEN 1 ELSE 0
  <2>1. outbox \in Seq(Items) /\ Count(outbox, Boxed(A)) \in Nat
    BY CountTypes DEF TypeInv, Boxes
  <2>2. CASE outbox' = Append(outbox, item)
    BY <1>4, <2>1, <2>2, CountAppend
  <2> QED BY <1>3, <2>1, <2>2
<1>7. CASE SubscribeEnqueue
  <2>1. item \notin Boxed(A)
    BY <1>5, <1>7 DEF SubscribeEnqueue, Described, Boxed
  <2>2. TaskHand(A)' = 0
    BY <1>7 DEF SubscribeEnqueue, Goto, TaskHand, InTask
  <2>3. PublishHand(A)' <= PublishHand(A)
    BY <1>7, PublishKept DEF TaskStep, esp_mqtt_client_subscribe
  <2>4. Held(A, 0, 0, 0, PublishHand(A))
    BY <1>1, <1>2, <1>6, <2>1, <2>2, <2>3, CountTypes DEF Held
  <2>5. PublishHand(A) \in {0, 1, 2} /\ 0 + 0 + 0 + PublishHand(A) <= Hand(A) + 0
    BY <1>1
  <2> QED BY <1>1, <1>2, <2>4, <2>5, BalanceStep
<1>8. CASE PublishEnqueue
  <2>1. pub = "enqueue" /\ pub' = "write" /\ TaskHand(A)' = TaskHand(A)
    BY <1>8, TaskKept DEF PublishEnqueue, esp_mqtt_client_publish
  <2>2. PublishHand(A) = 1
    BY <2>1 DEF PublishHand, InPublish
  <2>3. CASE item \in Boxed(A)
    <3>1. outbound_message \notin Out(A)
      BY <1>5, <2>1, <2>3, NotWire DEF Described, Boxed, Out, Message
    <3>2. PublishHand(A)' = 0
      BY <1>2, <2>1, <3>1 DEF PublishHand, InPublish
    <3>3. Held(A, 1, 0, 0, TaskHand(A))
      BY <1>1, <1>2, <1>6, <2>1, <2>3, <3>2, CountTypes DEF Held
    <3>4. TaskHand(A) \in {0, 1, 2} /\ 1 + 0 + 0 + TaskHand(A) <= Hand(A) + 0
      BY <1>1, <2>2
    <3> QED BY <1>1, <1>2, <3>3, <3>4, BalanceStep
  <2>4. CASE item \notin Boxed(A)
    <3>1. Held(A, 0, 0, 0, Hand(A))
      BY <1>1, <1>2, <1>6, <2>1, <2>2, <2>4, CountTypes DEF Held
    <3>2. Hand(A) \in {0, 1, 2}
      BY <1>1
    <3> QED BY <1>1, <1>2, <3>1, <3>2, BalanceStep
  <2> QED BY <2>3, <2>4
<1> QED BY <1>7, <1>8

LEMMA ShedCount ==
    ASSUME TypeInv, TypeInv', CountInv, Expire \/ TimePasses
    PROVE  CountInv'
<1> SUFFICES ASSUME NEW A \in SUBSET AllIds PROVE Balance(A)' <= pending_msg_count'
  BY DEF CountInv, Balance
<1>1. /\ Balance(A) <= pending_msg_count /\ pending_msg_count \in Nat
      /\ Hand(A) \in {0, 1, 2}
  BY CountTypes, CountTypesAfter DEF CountInv, Balance
<1>2. /\ UNCHANGED <<to_broker, to_client>> /\ pending_msg_count' = pending_msg_count + 0
  BY <1>1 DEF Expire, TimePasses, streams, pendings
<1>3. (InTask(A)' => InTask(A)) /\ (InPublish(A)' => InPublish(A))
  BY DEF Expire, TimePasses, InTask, InPublish, client, publish, Goto
<1>4. Hand(A)' <= Hand(A)
  <2>1. TaskHand(A)' <= TaskHand(A) /\ PublishHand(A)' <= PublishHand(A)
    BY <1>3 DEF TaskHand, PublishHand
  <2> QED BY <2>1, CountTypes, CountTypesAfter
<1>5. outbox \in Seq(Items)
  BY DEF TypeInv, Boxes
<1>6. Count(outbox', Boxed(A)) <= Count(outbox, Boxed(A))
  <2>1. CASE Expire
    BY <1>5, <2>1, ExpirePicks, CountSome DEF Boxes
  <2>2. CASE TimePasses
    <3>1. outbox' \in Seq(Items) /\ DOMAIN outbox' = DOMAIN outbox
      BY <2>2 DEF TimePasses, TypeInv, Boxes
    <3>2. ASSUME NEW i \in DOMAIN outbox PROVE outbox'[i] \in Boxed(A) <=> outbox[i] \in Boxed(A)
      <4>1. outbox[i] \in Items /\ outbox'[i] \in Items
        BY <1>5, <3>1, ElementOfSeq, LenProperties
      <4>2. outbox'[i] = [outbox[i] EXCEPT !.tick = -1]
        BY <2>2 DEF TimePasses
      <4>3. outbox'[i].type = outbox[i].type /\ outbox'[i].id = outbox[i].id
        BY <4>1, <4>2 DEF Items
      <4> QED BY <4>1, <4>3 DEF Boxed
    <3>3. Places(outbox', Boxed(A)) = Places(outbox, Boxed(A))
      BY <3>1, <3>2 DEF Places
    <3>4. Count(outbox', Boxed(A)) = Count(outbox, Boxed(A))
      BY <3>3 DEF Count
    <3> QED BY <3>4, CountTypes
  <2> QED BY <2>1, <2>2
<1>7. Held(A, 0, 0, 0, Hand(A))
  BY <1>2, <1>4, <1>6, CountTypes DEF Held
<1> QED BY <1>1, <1>2, <1>7, BalanceStep

(* The broker takes a message off the one stream before it puts the answer *)
(* on the other.                                                           *)
LEMMA BrokerCount ==
    ASSUME TypeInv, TypeInv', CountInv, BrokerReceives
    PROVE  CountInv'
<1> DEFINE m == Head(to_broker)
<1>1. /\ UNCHANGED <<outbox, pending_msg_count>>
      /\ \A A \in SUBSET AllIds :
            (InTask(A)' <=> InTask(A)) /\ (InPublish(A)' <=> InPublish(A))
  BY DEF BrokerReceives, firmware, client, publish, pendings, InTask,
         InPublish
<1>2. CASE to_broker' = <<>> /\ to_client' = <<>>
  BY <1>1, <1>2, KeepCount
<1>3. CASE ~(to_broker' = <<>> /\ to_client' = <<>>)
  <2> SUFFICES ASSUME NEW A \in SUBSET AllIds PROVE Balance(A)' <= pending_msg_count'
    BY DEF CountInv, Balance
  <2>1. /\ Balance(A) <= pending_msg_count /\ pending_msg_count \in Nat
        /\ Hand(A) \in {0, 1, 2} /\ Hand(A)' = Hand(A)
        /\ pending_msg_count' = pending_msg_count + 0
    BY <1>1, CountTypes DEF CountInv, Balance, Hand, TaskHand, PublishHand
  <2>2. /\ to_broker \in Seq(WireMessages) /\ to_client \in Seq(WireMessages)
        /\ to_broker' \in Seq(WireMessages) /\ to_client' \in Seq(WireMessages)
        /\ to_broker # <<>>
    BY DEF TypeInv, Streams, BrokerReceives
  <2>3. /\ m \in WireMessages /\ m = to_broker[1] /\ 1 \in DOMAIN to_broker
        /\ Len(to_broker) \in Nat /\ 1 \in 0 .. Len(to_broker)
        /\ DOMAIN to_broker = 1 .. Len(to_broker)
    BY <2>2, HeadTailProperties, LenProperties, EmptySeq
  <2>4. to_broker' = SubSeq(to_broker, 1 + 1, Len(to_broker))
    BY <1>3 DEF BrokerReceives
  <2>5. Picks(to_broker', to_broker, DOMAIN to_broker \ {1})
    <3>1. Picks(to_broker', to_broker, 1 + 1 .. Len(to_broker))
      BY <2>2, <2>3, <2>4, SuffixPicks
    <3>2. 1 + 1 .. Len(to_broker) \subseteq DOMAIN to_broker \ {1}
      BY <2>3
    <3> QED BY <3>1, <3>2, PicksMore
  <2> DEFINE reply == Message(Reply[m.type], m.id)
             refusal == Message("REFUSED", 0)
  <2>6. \/ to_client' = to_client
        \/ m.type \in DOMAIN Reply /\ to_client' = Append(to_client, reply)
        \/ to_client' = Append(to_client, refusal)
    BY <1>3 DEF BrokerReceives
  <2>7. /\ m.type \in DOMAIN Reply => reply \in WireMessages
        /\ refusal \in WireMessages /\ refusal \notin Back(A)
    BY <2>3, WireMessage DEF Reply, WireMessages, AllIds, Types, Back, Message
  <2>8. m.type \in DOMAIN Reply /\ reply \in Back(A) => m \in Out(A)
    BY <2>3 DEF Reply, Back, Out, Message, WireMessages
  <2> HIDE DEF reply, refusal, m
  <2>9. /\ Count(to_client', Back(A)) <= Count(to_client, Back(A)) + 1
        /\ m \notin Out(A) => Count(to_client', Back(A)) <= Count(to_client, Back(A))
    <3>1. Count(to_client, Back(A)) \in Nat
      BY CountTypes
    <3>2. CASE to_client' = to_client
      BY <3>1, <3>2
    <3>3. CASE m.type \in DOMAIN Reply /\ to_client' = Append(to_client, reply)
      <4>1. Count(to_client', Back(A)) = IF reply \in Back(A) THEN Count(to_client, Back(A)) + 1
                                         ELSE Count(to_client, Back(A))
        BY <2>2, <2>7, <3>3, CountAppend
      <4> QED BY <2>8, <3>1, <3>3, <4>1
    <3>4. CASE to_client' = Append(to_client, refusal)
      <4>1. Count(to_client', Back(A)) = Count(to_client, Back(A))
        BY <2>2, <2>7, <3>4, CountAppend
      <4> QED BY <3>1, <4>1
    <3> QED BY <2>6, <3>2, <3>3, <3>4
  <2>10. CASE m \in Out(A)
    <3>1. Count(to_broker', Out(A)) <= Count(to_broker, Out(A)) - 1
      BY <2>2, <2>3, <2>5, <2>10, CountLess
    <3>2. Held(A, 0, -1, 1, Hand(A))
      BY <1>1, <2>1, <2>9, <3>1, CountTypes DEF Held
    <3> QED BY <2>1, <3>2, BalanceStep
  <2>11. CASE m \notin Out(A)
    <3>1. Count(to_broker', Out(A)) <= Count(to_broker, Out(A))
      <4> DEFINE rest == DOMAIN to_broker \ {1}
      <4>1. rest \in SUBSET DOMAIN to_broker
        OBVIOUS
      <4> QED BY <2>2, <2>5, <4>1, CountSome
    <3>2. Count(to_client', Back(A)) <= Count(to_client, Back(A))
      BY <2>9, <2>11
    <3>3. Held(A, 0, 0, 0, Hand(A))
      BY <1>1, <2>1, <3>1, <3>2, CountTypes DEF Held
    <3> QED BY <2>1, <3>3, BalanceStep
  <2> QED BY <2>10, <2>11
<1> QED BY <1>2, <1>3

LEMMA EnvironmentCount ==
    ASSUME TypeInv, TypeInv', CountInv, ServerAnswers \/ ConnectionLost \/ NetworkReturns
    PROVE  CountInv'
<1>1. /\ UNCHANGED <<outbox, pending_msg_count>>
      /\ \A A \in SUBSET AllIds :
            (InTask(A)' <=> InTask(A)) /\ (InPublish(A)' <=> InPublish(A))
  BY DEF ServerAnswers, ConnectionLost, NetworkReturns, firmware, client, publish, pendings,
         InTask, InPublish
<1>2. CASE ConnectionLost \/ NetworkReturns
  BY <1>1, <1>2, KeepCount DEF ConnectionLost, NetworkReturns, Break, streams
<1>3. CASE ServerAnswers
  <2> SUFFICES ASSUME NEW A \in SUBSET AllIds PROVE Balance(A)' <= pending_msg_count'
    BY DEF CountInv, Balance
  <2>1. /\ Balance(A) <= pending_msg_count /\ pending_msg_count \in Nat
        /\ Hand(A) \in {0, 1, 2} /\ Hand(A)' = Hand(A)
        /\ pending_msg_count' = pending_msg_count + 0
    BY <1>1, CountTypes DEF CountInv, Balance, Hand, TaskHand, PublishHand
  <2>2. PICK id \in Ids : to_client' = Append(to_client, Message("PUBLISH", id))
    BY <1>3 DEF ServerAnswers
  <2> DEFINE answer == Message("PUBLISH", id)
  <2>3. answer \in WireMessages /\ answer \notin Back(A)
    BY WireMessage DEF AllIds, Types, Back
  <2> HIDE DEF answer
  <2>4. Count(to_client', Back(A)) <= Count(to_client, Back(A))
    BY <2>2, <2>3, CountAppend, CountTypes DEF TypeInv, Streams, answer
  <2>5. Held(A, 0, 0, 0, Hand(A))
    BY <1>1, <1>3, <2>1, <2>4, CountTypes DEF Held, ServerAnswers
  <2> QED BY <2>1, <2>5, BalanceStep
<1> QED BY <1>2, <1>3

(* The first steps of a publish.                                           *)
LEMMA PublishQuiet ==
    ASSUME TypeInv, TypeInv', CountInv, Apart,
           PublishCheck \/ PublishBuild \/ PublishType \/ PublishPend
    PROVE  CountInv'
<1>1. /\ UNCHANGED <<outbox, pending_msg_count, to_broker, to_client>>
      /\ esp_mqtt_client_publish /\ pub' \notin {"enqueue", "write"}
  BY DEF PublishCheck, PublishBuild, PublishType, PublishPend, pendings, streams,
         esp_mqtt_client_publish
<1>2. \A A \in SUBSET AllIds : (InTask(A)' <=> InTask(A)) /\ ~InPublish(A)'
  BY <1>1, TaskKept DEF InPublish
<1> QED BY <1>1, <1>2, KeepCount

LEMMA CountStep ==
    ASSUME TypeInv, TypeInv', ApartInv, Described, CountInv, Apart
    PROVE  CountInv'
<1>1. CASE TaskStep
  BY <1>1, QuietSteps, ReadSteps, WriteSteps, CountingSteps, QosCount, AckCount, EnqueueCount,
     ShedCount
     DEF TaskStep, esp_mqtt_connect, esp_mqtt_client_subscribe, mqtt_process_receive
<1>2. CASE esp_mqtt_client_publish
  BY <1>2, PublishQuiet, CountingSteps, EnqueueCount, PublishWriteCount
     DEF esp_mqtt_client_publish
<1>3. CASE Environment
  BY <1>3, BrokerCount, EnvironmentCount, ShedCount DEF Environment
<1>4. CASE UNCHANGED vars
  <2>1. /\ UNCHANGED <<outbox, pending_msg_count, to_broker, to_client>>
        /\ \A A \in SUBSET AllIds :
              (InTask(A)' <=> InTask(A)) /\ (InPublish(A)' <=> InPublish(A))
    BY <1>4 DEF vars, pendings, publish, streams, InTask, InPublish
  <2> QED BY <2>1, KeepCount
<1> QED BY <1>1, <1>2, <1>3, <1>4 DEF Apart, Step
-----------------------------------------------------------------------------
Agrees == ApartInv /\ Described /\ BoxedIsPending /\ CountInv

ClientInv == TypeInv /\ (~clashed => Agrees)

LEMMA ClientStart == Init => ClientInv
<1> SUFFICES ASSUME Init PROVE ClientInv
  OBVIOUS
<1>1. TypeInv
  BY TypeStart
<1>2. ApartInv /\ Described
  BY DEF Init, ApartInv, Clash, Described
<1>3. BoxedIsPending
  BY DEF Init, BoxedIsPending
<1>4. ASSUME NEW A \in SUBSET AllIds PROVE Balance(A) <= pending_msg_count
  <2>1. ~InTask(A) /\ ~InPublish(A)
    BY DEF Init, InTask, InPublish
  <2> QED BY <2>1, CountEmpty DEF Init, Balance, Hand, TaskHand, PublishHand
<1> QED BY <1>1, <1>2, <1>3, <1>4 DEF ClientInv, Agrees, CountInv, Balance

LEMMA ClientStep == ClientInv /\ [Next]_vars => ClientInv'
<1> SUFFICES ASSUME ClientInv, [Next]_vars PROVE ClientInv'
  OBVIOUS
<1>1. TypeInv /\ TypeInv'
  BY TypeStep DEF ClientInv
<1>2. ASSUME ~clashed' PROVE Agrees /\ Apart
  <2>1. ~clashed /\ ~Clash' /\ (Step \/ UNCHANGED vars)
    <3>1. CASE Next
      BY <1>2, <3>1 DEF Next, Histories
    <3>2. CASE UNCHANGED vars
      <4>1. ~clashed
        BY <1>2, <3>2 DEF vars
      <4>2. ~Clash
        BY <4>1 DEF ClientInv, Agrees, ApartInv
      <4> QED BY <3>2, <4>1, <4>2 DEF vars, publish, Clash
    <3> QED BY <3>1, <3>2
  <2>2. Agrees
    BY <2>1 DEF ClientInv
  <2> QED BY <2>1, <2>2 DEF Apart, Agrees, ApartInv
<1>3. ASSUME ~clashed' PROVE Agrees'
  BY <1>1, <1>2, <1>3, ApartStep, DescribedStep, BoxedStep, CountStep DEF Agrees
<1> QED BY <1>1, <1>3 DEF ClientInv

(* BoxedUnlessClashed, for the two tasks as they are: until a publish has  *)
(* run while the task was in the middle of a message, what the outbox      *)
(* holds under an id and a type is the message of that id and type.        *)
THEOREM BoxedMatch == Spec => []BoxedUnlessClashed
<1>1. ClientInv => BoxedUnlessClashed
  BY DEF ClientInv, Agrees, BoxedUnlessClashed
<1> QED BY <1>1, ClientStart, ClientStep, PTL DEF Spec

(* BoxedAreCounted, for the two tasks as they are: until then, however     *)
(* acknowledgements, expiry, cleanup and lost connections take items and   *)
(* messages away, no publish is left in the outbox with a count that does  *)
(* not include it.                                                         *)
THEOREM Counted == Spec => []BoxedAreCounted
<1>1. ASSUME ClientInv, ~clashed
      PROVE  Cardinality({i \in DOMAIN outbox : outbox[i].type = "PUBLISH"})
               <= pending_msg_count
  <2>1. Count(outbox, Boxed({})) <= pending_msg_count
    <3>1. {} \in SUBSET AllIds
      OBVIOUS
    <3>2. Balance({}) <= pending_msg_count
      BY <1>1, <3>1 DEF ClientInv, Agrees, CountInv, Balance
    <3> QED BY <1>1, <3>2, CountTypes DEF ClientInv, Balance
  <2>2. ASSUME NEW i \in DOMAIN outbox PROVE outbox[i] \in Boxed({}) <=> outbox[i].type = "PUBLISH"
    <3>1. outbox[i] \in Items
      BY <1>1, ElementOfSeq, LenProperties DEF ClientInv, TypeInv, Boxes
    <3> QED BY <3>1 DEF Boxed
  <2>3. Places(outbox, Boxed({})) = {i \in DOMAIN outbox : outbox[i].type = "PUBLISH"}
    BY <2>2 DEF Places
  <2> QED BY <2>1, <2>3 DEF Count
<1>2. ClientInv => BoxedAreCounted
  BY <1>1 DEF BoxedAreCounted
<1> QED BY <1>2, ClientStart, ClientStep, PTL DEF Spec
=============================================================================
