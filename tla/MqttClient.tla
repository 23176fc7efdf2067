----------------------------- MODULE MqttClient -----------------------------
(***************************************************************************)
(* mqtt_client.c: the client's task (connect, receive, acknowledge, keep   *)
(* alive, expire) and esp_mqtt_client_publish, which NET_tx calls from its *)
(* own task on the same structure, the same output buffer and the same     *)
(* socket, with no lock.  The callback is mqtt_event_handler of mqtt.c,    *)
(* which subscribes on every MQTT_EVENT_CONNECTED.                         *)
(*                                                                         *)
(* The broker and the network are external.  A connection is two streams   *)
(* of messages; faults of the network and answers of the server are        *)
(* counted together and bounded by MaxEvents.                              *)
(***************************************************************************)
EXTENDS Outbox

CONSTANTS Ids,         \* what append_message_id draws from
          MaxPublish, MaxEvents  \* bounds: requests; faults and answers

VARIABLES state,               \* MQTT_STATE_*
          outbound_message,    \* what the output buffer holds
          pending_msg_id, pending_msg_type, pending_msg_count,
          outbox,
          in_buffer,           \* the first message of the last read
          wait_for_ping_resp,
          quiet,               \* thirties of seconds since keepalive_tick, at most 2
          task, loaded,        \* where esp_mqtt_task is; the count it has loaded
          pub, pub_id, pub_loaded  \* the same for a publish, and its message id

VARIABLES link,                \* "closed", "open" or "broken"
          to_broker, to_client,
          subscribed, session, \* at the broker: the topic is subscribed; CONNECT has come
          reachable, events, published

VARIABLES clashed,  \* history: the two calls have used the message at the same time
          unheard   \* history: the SUBSCRIBE of this connection did not go out

pendings == <<pending_msg_id, pending_msg_type, pending_msg_count>>
publish  == <<pub, pub_id, pub_loaded>>
streams  == <<link, to_broker, to_client, subscribed, session>>
bounds   == <<reachable, events, published>>
vars     == <<state, outbound_message, pendings, outbox, in_buffer, wait_for_ping_resp, quiet,
              task, loaded, publish, streams, bounds, clashed, unheard>>

Message(type, id) == [type |-> type, id |-> id]
NoMessage  == Message("NONE", 0)
TooLong    == Message("FAIL", 0)  \* fail_message: length 0

Init == /\ state = "INIT" /\ outbound_message = NoMessage
        /\ pending_msg_id = 0 /\ pending_msg_type = "NONE" /\ pending_msg_count = 0
        /\ outbox = <<>> /\ in_buffer = NoMessage
        /\ wait_for_ping_resp = FALSE /\ quiet = 0
        /\ task = "loop" /\ loaded = 0
        /\ pub = "idle" /\ pub_id = 0 /\ pub_loaded = 0
        /\ link = "closed" /\ to_broker = <<>> /\ to_client = <<>>
        /\ subscribed = FALSE /\ session = FALSE
        /\ reachable = TRUE /\ events = 0 /\ published = 0
        /\ clashed = FALSE /\ unheard = FALSE

(* A fault, or an answer of the server.                                    *)
Event == events < MaxEvents /\ events' = events + 1

-----------------------------------------------------------------------------
(* What both tasks call.                                                   *)

(* mqtt_get_type(outbound_message->data): a message of length 0 has no     *)
(* type of its own, and what an older one has left is read.                *)
BufferTypes == IF outbound_message = TooLong THEN {"NONE", "CONNECT", "PUBLISH"}
               ELSE {outbound_message.type}

(* Mutant of WriteOk: the length of a message that failed is not 0, and    *)
(* what has been built of it is written.                                   *)
WriteUnfinished == /\ \/ link = "open" /\ to_broker' = Append(to_broker, outbound_message)
                      \/ link = "broken" /\ UNCHANGED to_broker
                   /\ quiet' = 0
                   /\ UNCHANGED <<link, to_client, subscribed, session, events>>

(* mqtt_write_data: a write to a broken connection may seem to succeed.    *)
WriteOk == /\ outbound_message # TooLong
           /\ \/ link = "open" /\ to_broker' = Append(to_broker, outbound_message)
              \/ link = "broken" /\ UNCHANGED to_broker
           /\ quiet' = 0
           /\ UNCHANGED <<link, to_client, subscribed, session, events>>

(* transport_write returns 0 or less: the message has length 0, there is   *)
(* no connection; or, on an open one, the poll times out or the write is   *)
(* an error, which is a fault.                                             *)
WriteFails == /\ IF link = "open" /\ outbound_message # TooLong THEN Event
                                                               ELSE UNCHANGED events
              /\ UNCHANGED <<quiet, streams>>

(* mqtt_enqueue: a copy of the output buffer under the pending id and type *)
mqtt_enqueue ==
    outbox' = IF pending_msg_count = 0 THEN outbox
              ELSE outbox_enqueue(outbox, [id |-> pending_msg_id, type |-> pending_msg_type,
                                           len |-> IF outbound_message = TooLong THEN 0 ELSE 1,
                                           tick |-> 0, pending |-> FALSE,
                                           data |-> outbound_message])

-----------------------------------------------------------------------------
(* esp_mqtt_task, MQTT_STATE_INIT.                                         *)

Goto(step) == task' = step

(* esp_mqtt_abort_connection.                                              *)
Abort == /\ link' = "closed" /\ to_broker' = <<>> /\ to_client' = <<>>
         /\ subscribed' = FALSE /\ session' = FALSE
         /\ state' = "WAIT_TIMEOUT"
         /\ wait_for_ping_resp' = FALSE
         /\ Goto("loop")
         /\ UNCHANGED <<outbound_message, pendings, outbox, in_buffer, quiet, loaded>>

TransportConnect == /\ task = "loop" /\ state = "INIT"
                    /\ IF reachable
                       THEN /\ link' = "open" /\ Goto("connect")
                            /\ UNCHANGED <<state, outbound_message, pendings, outbox, in_buffer,
                                           wait_for_ping_resp, quiet, loaded, to_broker,
                                           to_client, subscribed, session>>
                       ELSE Abort
                    /\ UNCHANGED <<publish, bounds>>

(* esp_mqtt_connect: the message is built, described, written, answered.   *)
BuildConnect == /\ task = "connect"
                /\ wait_for_ping_resp' = FALSE
                /\ outbound_message' = Message("CONNECT", 0)
                /\ Goto("connect_pending")
                /\ UNCHANGED <<state, pendings, outbox, in_buffer, quiet, loaded, publish,
                               streams, bounds>>

PendConnect == /\ task = "connect_pending"
               /\ pending_msg_type' \in BufferTypes
               /\ pending_msg_id' = outbound_message.id
               /\ Goto("connect_write")
               /\ UNCHANGED <<state, outbound_message, pending_msg_count, outbox, in_buffer,
                              wait_for_ping_resp, quiet, loaded, publish, streams, bounds>>

(* This write does not go through mqtt_write_data: keepalive_tick stays,   *)
(* and only a negative result is an error; a poll that times out, 0, goes  *)
(* on to the read.                                                         *)
WriteConnect ==
    /\ task = "connect_write"
    /\ \/ /\ \/ /\ link = "open" /\ outbound_message # TooLong
                /\ to_broker' = Append(to_broker, outbound_message)
                /\ UNCHANGED events
             \/ /\ link = "open" /\ outbound_message # TooLong /\ Event
                /\ UNCHANGED to_broker
             \/ /\ link = "broken" \/ outbound_message = TooLong
                /\ UNCHANGED <<to_broker, events>>
          /\ Goto("connect_read")
          /\ UNCHANGED <<state, outbound_message, pendings, outbox, in_buffer,
                         wait_for_ping_resp, quiet, loaded, link, to_client, subscribed, session>>
       \/ link = "broken" /\ Abort /\ UNCHANGED events
       \/ link = "open" /\ outbound_message # TooLong /\ Abort /\ Event
    /\ UNCHANGED <<publish, reachable, published>>

(* transport_read takes what has come, one message or more; the caller     *)
(* looks at the first.                                                     *)
ReadMessages == /\ link = "open"
                /\ \E n \in 1..Len(to_client) :
                     /\ in_buffer' = Head(to_client)
                     /\ to_client' = SubSeq(to_client, n + 1, Len(to_client))
                /\ UNCHANGED events

(* Or it times out and leaves the buffer as it is.  While the broker still *)
(* has something to answer, that is a fault.                               *)
ReadTimesOut == /\ to_client = <<>>
                /\ IF to_broker # <<>> THEN Event ELSE UNCHANGED events
                /\ UNCHANGED <<in_buffer, to_client>>

ReadConnack ==
    /\ task = "connect_read"
    /\ \/ /\ ReadMessages \/ ReadTimesOut
          /\ Goto("connack")
          /\ UNCHANGED <<state, outbound_message, pendings, outbox, wait_for_ping_resp, quiet,
                         loaded, link, to_broker, subscribed, session>>
       \/ link = "broken" /\ Abort /\ UNCHANGED events
    /\ UNCHANGED <<publish, reachable, published>>

(* A read of no bytes is no error: the buffer is judged all the same.      *)
Connack == /\ task = "connack"
           /\ IF in_buffer.type = "CONNACK"
              THEN /\ state' = "CONNECTED"
                   /\ Goto("subscribe")
                   /\ UNCHANGED <<outbound_message, pendings, outbox, in_buffer,
                                  wait_for_ping_resp, quiet, loaded, streams>>
              ELSE Abort
           /\ UNCHANGED <<publish, bounds>>

esp_mqtt_connect == BuildConnect \/ PendConnect \/ WriteConnect \/ ReadConnack \/ Connack

(* MQTT_STATE_WAIT_TIMEOUT: ten seconds later the task tries again.        *)
Reconnect == /\ task = "loop" /\ state = "WAIT_TIMEOUT"
             /\ state' = "INIT"
             /\ UNCHANGED <<outbound_message, pendings, outbox, in_buffer, wait_for_ping_resp,
                            quiet, task, loaded, publish, streams, bounds>>

-----------------------------------------------------------------------------
(* MQTT_EVENT_CONNECTED: esp_mqtt_client_subscribe.                        *)

SubscribeEnqueue == /\ task = "subscribe"
                    /\ mqtt_enqueue
                    /\ Goto("subscribe_build")
                    /\ UNCHANGED <<state, outbound_message, pendings, in_buffer,
                                   wait_for_ping_resp, quiet, loaded, publish, streams, bounds>>

SubscribeBuild == /\ task = "subscribe_build"
                  /\ \E id \in Ids : /\ outbound_message' = Message("SUBSCRIBE", id)
                                     /\ pending_msg_id' = id
                  /\ Goto("subscribe_pending")
                  /\ UNCHANGED <<state, pending_msg_type, pending_msg_count, outbox, in_buffer,
                                 wait_for_ping_resp, quiet, loaded, publish, streams, bounds>>

(* pending_msg_count++ is a load and a store.                              *)
SubscribePend == /\ task = "subscribe_pending"
                 /\ pending_msg_type' \in BufferTypes
                 /\ loaded' = pending_msg_count
                 /\ Goto("subscribe_count")
                 /\ UNCHANGED <<state, outbound_message, pending_msg_id, pending_msg_count,
                                outbox, in_buffer, wait_for_ping_resp, quiet, publish, streams,
                                bounds>>

SubscribeCount == /\ task = "subscribe_count"
                  /\ pending_msg_count' = loaded + 1
                  /\ loaded' = 0
                  /\ Goto("subscribe_write")
                  /\ UNCHANGED <<state, outbound_message, pending_msg_id, pending_msg_type,
                                 outbox, in_buffer, wait_for_ping_resp, quiet, publish, streams,
                                 bounds>>

(* The callback ignores the result.                                        *)
SubscribeWrite == /\ task = "subscribe_write"
                  /\ WriteOk \/ WriteFails
                  /\ Goto("loop")
                  /\ UNCHANGED <<state, outbound_message, pendings, outbox, in_buffer,
                                 wait_for_ping_resp, loaded, publish, reachable, published>>

esp_mqtt_client_subscribe == \/ SubscribeEnqueue \/ SubscribeBuild \/ SubscribePend
                             \/ SubscribeCount \/ SubscribeWrite

-----------------------------------------------------------------------------
(* MQTT_STATE_CONNECTED: one turn of the loop.                             *)

Receive ==
    /\ task = "loop" /\ state = "CONNECTED"
    /\ \/ /\ \/ ReadMessages /\ Goto("handle")
             \/ ReadTimesOut /\ Goto("keepalive")
          /\ UNCHANGED <<state, outbound_message, pendings, outbox, wait_for_ping_resp, quiet,
                         loaded, link, to_broker, subscribed, session>>
       \/ link = "broken" /\ Abort /\ UNCHANGED events
    /\ UNCHANGED <<publish, reachable, published>>

(* What an acknowledgement acknowledges, and what answers the other steps  *)
(* of the exchanges of QoS 2.                                              *)
Acknowledged == [SUBACK |-> "SUBSCRIBE", PUBCOMP |-> "PUBLISH"]
Answer       == [PUBLISH |-> "PUBREC", PUBREC |-> "PUBREL", PUBREL |-> "PUBCOMP"]

is_valid_mqtt_msg(type, id) ==
    /\ pending_msg_count # 0
    /\ \/ HasItem(outbox, id, type)
       \/ pending_msg_type = type /\ pending_msg_id = id

(* Mutant of HandleAck: the pending message is looked at before the outbox.*)
HandleAckPendingFirst ==
    /\ task = "handle" /\ in_buffer.type \in DOMAIN Acknowledged
    /\ LET type == Acknowledged[in_buffer.type]
       IN  IF is_valid_mqtt_msg(type, in_buffer.id)
           THEN /\ outbox' = IF pending_msg_type = type /\ pending_msg_id = in_buffer.id
                             THEN outbox ELSE outbox_delete(outbox, in_buffer.id, type)
                /\ loaded' = pending_msg_count
                /\ Goto("acknowledged")
           ELSE Goto("keepalive") /\ UNCHANGED <<outbox, loaded>>
    /\ UNCHANGED <<state, outbound_message, pendings, in_buffer, wait_for_ping_resp, quiet,
                   publish, streams, bounds>>

(* SUBACK and PUBCOMP: the item leaves the outbox if it is there.  The     *)
(* decrement is a load and a store; the event that follows changes nothing *)
HandleAck ==
    /\ task = "handle" /\ in_buffer.type \in DOMAIN Acknowledged
    /\ LET type == Acknowledged[in_buffer.type]
       IN  IF is_valid_mqtt_msg(type, in_buffer.id)
           THEN /\ outbox' = outbox_delete(outbox, in_buffer.id, type)
                /\ loaded' = pending_msg_count
                /\ Goto("acknowledged")
           ELSE Goto("keepalive") /\ UNCHANGED <<outbox, loaded>>
    /\ UNCHANGED <<state, outbound_message, pendings, in_buffer, wait_for_ping_resp, quiet,
                   publish, streams, bounds>>

CountDown == /\ task = "acknowledged"
             /\ pending_msg_count' = loaded - 1
             /\ loaded' = 0
             /\ Goto("keepalive")
             /\ UNCHANGED <<state, outbound_message, pending_msg_id, pending_msg_type, outbox,
                            in_buffer, wait_for_ping_resp, quiet, publish, streams, bounds>>

(* PUBLISH, PUBREC and PUBREL are answered with the id they carry.         *)
HandleQos == /\ task = "handle" /\ in_buffer.type \in DOMAIN Answer
             /\ outbound_message' = Message(Answer[in_buffer.type], in_buffer.id)
             /\ Goto("answer")
             /\ UNCHANGED <<state, pendings, outbox, in_buffer, wait_for_ping_resp, quiet,
                            loaded, publish, streams, bounds>>

(* A failed write is logged only.  After that of a PUBREC the message is   *)
(* delivered to the application (module Deliver).                          *)
WriteAnswer == /\ task = "answer"
               /\ WriteOk \/ WriteFails
               /\ Goto("keepalive")
               /\ UNCHANGED <<state, outbound_message, pendings, outbox, in_buffer,
                              wait_for_ping_resp, loaded, publish, reachable, published>>

HandlePingResp == /\ task = "handle" /\ in_buffer.type \notin DOMAIN Acknowledged \cup DOMAIN Answer
                  /\ wait_for_ping_resp' = (wait_for_ping_resp /\ in_buffer.type # "PINGRESP")
                  /\ Goto("keepalive")
                  /\ UNCHANGED <<state, outbound_message, pendings, outbox, in_buffer, quiet,
                                 loaded, publish, streams, bounds>>

mqtt_process_receive == \/ Receive \/ HandleAck \/ CountDown \/ HandleQos \/ WriteAnswer
                        \/ HandlePingResp

(* After half of the keep-alive time with nothing written: a ping, or the  *)
(* end of the connection if the last ping has had no answer.               *)
Keepalive ==
    /\ task = "keepalive"
    /\ \/ /\ quiet < 2
          /\ Goto("expire")
          /\ UNCHANGED <<state, outbound_message, pendings, outbox, in_buffer,
                         wait_for_ping_resp, quiet, loaded, streams>>
       \/ /\ quiet = 2 /\ ~wait_for_ping_resp
          /\ outbound_message' = Message("PINGREQ", 0)
          /\ Goto("ping")
          /\ UNCHANGED <<state, pendings, outbox, in_buffer, wait_for_ping_resp, quiet, loaded,
                         streams>>
       \/ quiet = 2 /\ wait_for_ping_resp /\ Abort
    /\ UNCHANGED <<publish, bounds>>

(* A ping that cannot be written ends the connection.                      *)
PingFails == /\ \/ (link = "broken" \/ outbound_message = TooLong) /\ UNCHANGED events
                \/ link = "open" /\ outbound_message # TooLong /\ Event
             /\ Abort


esp_mqtt_client_ping ==
    /\ task = "ping"
    /\ \/ /\ WriteOk
          /\ wait_for_ping_resp' = TRUE
          /\ Goto("expire")
          /\ UNCHANGED <<state, outbound_message, pendings, outbox, in_buffer, loaded>>
       \/ PingFails
    /\ UNCHANGED <<publish, reachable, published>>

Expire == /\ task = "expire"
          /\ outbox' = outbox_cleanup(outbox_delete_expired(outbox, 0), MaxSize)
          /\ Goto("loop")
          /\ UNCHANGED <<state, outbound_message, pendings, in_buffer, wait_for_ping_resp,
                         quiet, loaded, publish, streams, bounds>>

TaskStep == \/ TransportConnect \/ esp_mqtt_connect \/ Reconnect \/ esp_mqtt_client_subscribe
            \/ mqtt_process_receive \/ Keepalive \/ esp_mqtt_client_ping \/ Expire

-----------------------------------------------------------------------------
(* esp_mqtt_client_publish with QoS 2, called by mqtt_transmit_task.       *)

client == <<state, in_buffer, wait_for_ping_resp, task, loaded>>

(* Without a connection the call returns at once.                          *)
PublishCheck == /\ pub = "idle" /\ published < MaxPublish
                /\ state = "CONNECTED"
                /\ published' = published + 1
                /\ pub' = "build"
                /\ UNCHANGED <<client, outbound_message, pendings, outbox, quiet, pub_id,
                               pub_loaded, streams, reachable, events>>

(* A request longer than the buffer gives a message of length 0.           *)
PublishBuild == /\ pub = "build"
                /\ \E id \in Ids :
                     /\ outbound_message' \in {Message("PUBLISH", id), TooLong}
                     /\ pub_id' = id
                /\ pub' = "type"
                /\ UNCHANGED <<client, pendings, outbox, quiet, pub_loaded, streams, bounds>>

PublishType == /\ pub = "type"
               /\ pending_msg_type' \in BufferTypes
               /\ pub' = "pending"
               /\ UNCHANGED <<client, outbound_message, pending_msg_id, pending_msg_count,
                              outbox, quiet, pub_id, pub_loaded, streams, bounds>>

(* Mutant of PublishPend: the id of the message before stays.              *)
PublishPendOld == /\ pub = "pending"
                  /\ pub_loaded' = pending_msg_count
                  /\ pub' = "count"
                  /\ UNCHANGED <<client, outbound_message, pendings, outbox, quiet, pub_id,
                                 streams, bounds>>

PublishPend == /\ pub = "pending"
               /\ pending_msg_id' = pub_id
               /\ pub_loaded' = pending_msg_count
               /\ pub' = "count"
               /\ UNCHANGED <<client, outbound_message, pending_msg_type, pending_msg_count,
                              outbox, quiet, pub_id, streams, bounds>>

PublishCount == /\ pub = "count"
                /\ pending_msg_count' = pub_loaded + 1
                /\ pub_loaded' = 0
                /\ pub' = "enqueue"
                /\ UNCHANGED <<client, outbound_message, pending_msg_type, pending_msg_id,
                               outbox, quiet, pub_id, streams, bounds>>

PublishEnqueue == /\ pub = "enqueue"
                  /\ mqtt_enqueue
                  /\ pub' = "write"
                  /\ UNCHANGED <<client, outbound_message, pendings, quiet, pub_id, pub_loaded,
                                 streams, bounds>>

PublishWrite == /\ pub = "write"
                /\ WriteOk \/ WriteFails
                /\ pub' = "idle" /\ pub_id' = 0
                /\ UNCHANGED <<client, outbound_message, pendings, outbox, pub_loaded,
                               reachable, published>>

esp_mqtt_client_publish == \/ PublishCheck \/ PublishBuild \/ PublishType \/ PublishPend
                           \/ PublishCount \/ PublishEnqueue \/ PublishWrite
-----------------------------------------------------------------------------
(* Broker, network and time.                                               *)

firmware == <<client, outbound_message, pendings, outbox, publish>>

Reply == [CONNECT |-> "CONNACK", SUBSCRIBE |-> "SUBACK", PUBLISH |-> "PUBREC",
          PUBREC |-> "PUBREL", PUBREL |-> "PUBCOMP", PINGREQ |-> "PINGRESP"]

(* A broker that keeps to the protocol: it answers every message in order, *)
(* and ends a connection that does not begin with CONNECT or has it twice. *)
(* It may refuse a client, and a refusal is a fault.                       *)
BrokerReceives ==
    /\ link = "open" /\ to_broker # <<>>
    /\ LET m == Head(to_broker)
       IN  IF (m.type = "CONNECT") = session
           THEN /\ link' = "broken" /\ to_broker' = <<>> /\ to_client' = <<>>
                /\ subscribed' = FALSE /\ session' = FALSE
                /\ UNCHANGED events
           ELSE /\ to_broker' = Tail(to_broker)
                /\ \/ /\ m.type \in DOMAIN Reply
                      /\ to_client' = Append(to_client, Message(Reply[m.type], m.id))
                      /\ session' = TRUE
                      /\ subscribed' = (subscribed \/ m.type = "SUBSCRIBE")
                      /\ UNCHANGED events
                   \/ /\ m.type = "CONNECT" /\ Event
                      /\ to_client' = Append(to_client, Message("REFUSED", 0))
                      /\ UNCHANGED <<session, subscribed>>
                   \/ /\ m.type \notin DOMAIN Reply
                      /\ UNCHANGED <<to_client, session, subscribed, events>>
                /\ UNCHANGED link
    /\ UNCHANGED <<firmware, quiet, reachable, published>>

ServerAnswers == /\ subscribed /\ Event
                 /\ \E id \in Ids : to_client' = Append(to_client, Message("PUBLISH", id))
                 /\ UNCHANGED <<firmware, quiet, link, to_broker, subscribed, session,
                                reachable, published>>

Break == /\ link' = IF link = "open" THEN "broken" ELSE link
         /\ to_broker' = <<>> /\ to_client' = <<>> /\ subscribed' = FALSE /\ session' = FALSE

(* The connection is lost, and perhaps the network with it.                *)
ConnectionLost == /\ reachable /\ Event
                  /\ Break
                  /\ reachable' \in BOOLEAN
                  /\ UNCHANGED <<firmware, quiet, published>>

NetworkReturns == /\ ~reachable /\ reachable' = TRUE
                  /\ UNCHANGED <<firmware, quiet, streams, events, published>>

(* More than thirty seconds pass.  Everybody answers sooner than that, or  *)
(* it is a fault.                                                          *)
AtRest == /\ task = "loop" /\ pub = "idle" /\ to_broker = <<>> /\ to_client = <<>>

TimePasses == /\ quiet < 2 \/ \E i \in DOMAIN outbox : outbox[i].tick = 0
              /\ IF AtRest THEN UNCHANGED events ELSE Event
              /\ quiet' = Min({quiet + 1, 2})
              /\ outbox' = [i \in DOMAIN outbox |-> [outbox[i] EXCEPT !.tick = -1]]
              /\ UNCHANGED <<client, outbound_message, pendings, publish, streams, reachable,
                             published>>

Environment == \/ BrokerReceives \/ ServerAnswers \/ ConnectionLost \/ NetworkReturns
               \/ TimePasses

Step == TaskStep \/ esp_mqtt_client_publish \/ Environment

(* From the place where it has built a message, or is about to copy one,   *)
(* to the one where it has written or counted it, the task needs what both *)
(* calls share to itself.                                                  *)
Sharing == {"connect_pending", "connect_write", "connect_read", "connack", "subscribe",
            "subscribe_build", "subscribe_pending", "subscribe_count", "subscribe_write",
            "acknowledged", "answer", "ping"}

Clash == pub # "idle" /\ task \in Sharing

Subscribing == task = "subscribe_write" /\ task' = "loop"

Written(type) == Len(to_broker') > Len(to_broker) /\ outbound_message.type = type

Histories == /\ clashed' = (clashed \/ Clash')
             /\ unheard' = IF Subscribing THEN ~Written("SUBSCRIBE")
                            ELSE unheard /\ state' = "CONNECTED"

Next == Step /\ Histories

Spec == Init /\ [][Next]_vars

(* Tasks run, the broker answers, time passes, a lost network comes back.  *)
(* Expire is named by what it does to task: whether it is enabled does not *)
(* depend on what it leaves in the outbox.                                 *)
Fairness == /\ WF_vars(task # "expire" /\ TaskStep /\ Histories)
            /\ WF_task(task = "expire" /\ Goto("loop"))
            /\ WF_vars(esp_mqtt_client_publish /\ pub # "idle" /\ Histories)
            /\ WF_vars(BrokerReceives /\ Histories) /\ WF_vars(NetworkReturns /\ Histories)
            /\ SF_vars(TimePasses /\ Histories)

FairSpec == Spec /\ Fairness
-----------------------------------------------------------------------------
Types == {"NONE", "FAIL", "CONNECT", "CONNACK", "REFUSED", "PUBLISH", "PUBREC", "PUBREL",
          "PUBCOMP", "SUBSCRIBE", "SUBACK", "PINGREQ", "PINGRESP"}

WireMessages == [type : Types \ {"NONE", "FAIL"}, id : Ids \cup {0}]

(* pending_msg_count is an int and never gets negative; nothing but whole  *)
(* messages is written.                                                    *)
TypeOK == /\ state \in {"INIT", "CONNECTED", "WAIT_TIMEOUT"}
          /\ outbound_message.type \in Types
          /\ pending_msg_id \in Ids \cup {0} /\ pending_msg_type \in Types
          /\ pending_msg_count \in Nat
          /\ wait_for_ping_resp \in BOOLEAN /\ quiet \in 0..2
          /\ link \in {"closed", "open", "broken"}
          /\ to_broker \in Seq(WireMessages) /\ to_client \in Seq(WireMessages)

(* Every publish in the outbox is counted: its acknowledgement is not      *)
(* thrown away because the count says that nothing is pending.  Not once a *)
(* publish has run while the task was in the middle of a message or of a   *)
(* count of its own.                                                       *)
BoxedAreCounted ==
    ~clashed =>
        Cardinality({i \in DOMAIN outbox : outbox[i].type = "PUBLISH"}) <= pending_msg_count

(* What mqtt_enqueue copies into the outbox is the message that the        *)
(* pending id and type describe, as "lock mutex" and "unlock" in it say.   *)
BoxedIsPending ==
    \A i \in DOMAIN outbox :
        outbox[i].data # TooLong =>
            outbox[i].data = Message(outbox[i].type, outbox[i].id)

(* It is, whatever the calls do beside each other, as long as they do not  *)
(* use the message at the same time.                                       *)
BoxedUnlessClashed == ~clashed => BoxedIsPending

(* An answer that has arrived is handled ("on data arriving at the topic   *)
(* parse it and send it on").                                              *)
AnswersAreHandled ==
    [][link' = "open" =>
         \A i \in 2..(Len(to_client) - Len(to_client')) : to_client[i].type # "PUBLISH"]_vars

=============================================================================
