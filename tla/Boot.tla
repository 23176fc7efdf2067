-------------------------------- MODULE Boot --------------------------------
(***************************************************************************)
(* Start-up: app_main of main.c, wifi.c, timestamp.c, and the other tasks  *)
(* up to the first use each makes of what somebody else creates.  The      *)
(* Wi-Fi events come in the system's event task, the MQTT events in the    *)
(* client's; both run before app_main has created the last task, and the   *)
(* client's posts to the queue that this last task creates.                *)
(*                                                                         *)
(* Access point, time server, broker and bus are external.                 *)
(***************************************************************************)
EXTENDS Integers, SequencesExt

CONSTANT RetryCount  \* retry_count of obtain_time

ASSUME RetryAssumption == RetryCount \in Nat \ {0}

VARIABLES main,           \* the next call of app_main
          retry,          \* of obtain_time
          exists,         \* what has been created
          CONNECTED_BIT,  \* of wifi_event_group
          station,        \* "off", "joining", "online"
          clock,          \* the time of day is set (later than 2016)
          task,           \* where each task is
          given,          \* semaphores given and not taken
          mqtt_task,      \* "off", "connecting", "connected", "posting", "waiting"
          client,         \* the global of mqtt.c is set
          answered        \* EV_NET_RECEIVED is in controlEvents

boot == <<main, retry>>
wifi == <<CONNECTED_BIT, station>>
mqtt == <<mqtt_task, client, answered>>
vars == <<boot, exists, wifi, clock, task, given, mqtt>>

(* In the order of app_main.                                               *)
Tasks == <<"NET_tx", "OBD", "CAN_tx", "CAN_rx", "control">>

Absent == [t \in ToSet(Tasks) |-> "absent"]

Init == /\ main = "objects" /\ retry = 0
        /\ exists = {}
        /\ CONNECTED_BIT = FALSE /\ station = "off"
        /\ clock \in BOOLEAN  \* it survives a restart of the chip
        /\ task = Absent
        /\ given = {}
        /\ mqtt_task = "off" /\ client = FALSE /\ answered = FALSE

-----------------------------------------------------------------------------
(* app_main.                                                               *)

CreateObjects == /\ main = "objects" /\ main' = "wifi"
                 /\ exists' = exists \cup {"semaphores", "rxCanQueue", "txCanQueue"}
                 /\ UNCHANGED <<retry, wifi, clock, task, given, mqtt>>

(* SYSTEM_EVENT_STA_START follows, and with it esp_wifi_connect.           *)
wifi_initialise == /\ main = "wifi" /\ main' = "wait"
                   /\ exists' = exists \cup {"wifi_event_group"}
                   /\ station' = "joining"
                   /\ UNCHANGED <<retry, CONNECTED_BIT, clock, task, given, mqtt>>

wifi_wait_connected == /\ main = "wait" /\ CONNECTED_BIT
                       /\ main' = "time"
                       /\ UNCHANGED <<retry, exists, wifi, clock, task, given, mqtt>>

set_time == /\ main = "time"
            /\ main' = IF clock THEN "mqtt" ELSE "obtain"
            /\ UNCHANGED <<retry, exists, wifi, clock, task, given, mqtt>>

(* obtain_time waits for the bit again and starts SNTP.                    *)
initialize_sntp == /\ main = "obtain" /\ CONNECTED_BIT
                   /\ retry' = 1
                   /\ main' = IF 1 < RetryCount THEN "poll" ELSE "mqtt"
                   /\ exists' = exists \cup {"sntp"}
                   /\ UNCHANGED <<wifi, clock, task, given, mqtt>>

(* Mutant of PollTime: no limit.                                           *)
PollForever == /\ main = "poll"
               /\ main' = IF clock THEN "mqtt" ELSE "poll"
               /\ UNCHANGED <<retry, exists, wifi, clock, task, given, mqtt>>

(* Mutant of PollTime: the limit is compared before it is counted.         *)
PollOnceMore == /\ main = "poll"
                /\ retry' = IF clock THEN retry ELSE retry + 1
                /\ main' = IF ~clock /\ retry < RetryCount THEN "poll" ELSE "mqtt"
                /\ UNCHANGED <<exists, wifi, clock, task, given, mqtt>>

(* Two seconds, a look at the clock, and the condition of the loop.        *)
PollTime == /\ main = "poll"
            /\ retry' = IF clock THEN retry ELSE retry + 1
            /\ main' = IF ~clock /\ retry' < RetryCount THEN "poll" ELSE "mqtt"
            /\ UNCHANGED <<exists, wifi, clock, task, given, mqtt>>

MqttInitM == /\ main = "mqtt" /\ main' = "can"
             /\ mqtt_task' = "connecting"
             /\ UNCHANGED <<retry, exists, wifi, clock, task, given, client, answered>>

canInit == /\ main = "can" /\ main' = "tasks"
           /\ exists' = exists \cup {"driver"}
           /\ UNCHANGED <<retry, wifi, clock, task, given, mqtt>>

xTaskCreatePinnedToCore ==
    /\ main = "tasks"
    /\ LET i == SelectInSeq(Tasks, LAMBDA t : task[t] = "absent")
       IN  /\ task' = [task EXCEPT ![Tasks[i]] = "created"]
           /\ main' = IF i = Len(Tasks) THEN "ready" ELSE "tasks"
    /\ UNCHANGED <<retry, exists, wifi, clock, given, mqtt>>

app_main == \/ CreateObjects \/ wifi_initialise \/ wifi_wait_connected \/ set_time
            \/ initialize_sntp \/ PollTime \/ MqttInitM \/ canInit \/ xTaskCreatePinnedToCore

-----------------------------------------------------------------------------
(* event_handler of wifi.c.                                                *)

GotIp == /\ station = "joining"
         /\ station' = "online"
         /\ CONNECTED_BIT' = TRUE
         /\ UNCHANGED <<boot, exists, clock, task, given, mqtt>>

Disconnected == /\ station = "online"
                /\ station' = "joining"
                /\ UNCHANGED <<boot, exists, CONNECTED_BIT, clock, task, given, mqtt>>

TimeServerAnswers == /\ "sntp" \in exists /\ station = "online" /\ ~clock
                     /\ clock' = TRUE
                     /\ UNCHANGED <<boot, exists, wifi, task, given, mqtt>>

-----------------------------------------------------------------------------
(* The MQTT client.  Every event, of whatever kind, sets client.           *)

MqttEvent(from, to) == /\ mqtt_task \in from /\ mqtt_task' = to
                       /\ client' = TRUE
                       /\ UNCHANGED <<boot, exists, wifi, clock, task, given, answered>>

MqttConnected == station = "online" /\ MqttEvent({"connecting"}, "connected")

MqttDisconnected == MqttEvent({"connecting", "connected"}, "waiting")

MqttReconnects == /\ mqtt_task = "waiting" /\ mqtt_task' = "connecting"
                  /\ UNCHANGED <<boot, exists, wifi, clock, task, given, client, answered>>

(* MQTT_EVENT_DATA, which comes when the server sends: mqtt_receive puts   *)
(* the commands of an answer that parses into txCanQueue.                  *)
MqttData == MqttEvent({"connected"}, "posting")

(* The panic handler restarts the chip, which forgets everything but the   *)
(* time of day.                                                            *)
Restart == /\ main' = "objects" /\ retry' = 0
           /\ exists' = {}
           /\ CONNECTED_BIT' = FALSE /\ station' = "off"
           /\ task' = Absent
           /\ given' = {}
           /\ mqtt_task' = "off" /\ client' = FALSE /\ answered' = FALSE
           /\ UNCHANGED clock

(* EV_NET_RECEIVED, to a queue that may still be NULL: xQueueSend asserts. *)
PostReceived == /\ mqtt_task = "posting" /\ "controlEvents" \in exists
                /\ mqtt_task' = "connected"
                /\ answered' = TRUE
                /\ UNCHANGED <<boot, exists, wifi, clock, task, given, client>>

PostThroughNull == mqtt_task = "posting" /\ "controlEvents" \notin exists /\ Restart

MqttTask == \/ MqttConnected \/ MqttDisconnected \/ MqttReconnects
            \/ MqttData \/ PostReceived \/ PostThroughNull

-----------------------------------------------------------------------------
(* The tasks, to the first use of what others create.                      *)

Moves(t, from, to) == task[t] = from /\ task' = [task EXCEPT ![t] = to]

TakeFirst(t, semaphore) == /\ Moves(t, "created", "running")
                           /\ semaphore \in given /\ given' = given \ {semaphore}
                           /\ UNCHANGED <<boot, exists, wifi, clock, mqtt>>

control_task == /\ Moves("control", "created", "running")
                /\ exists' = exists \cup {"controlEvents"}
                /\ UNCHANGED <<boot, wifi, clock, given, mqtt>>

(* EV_START comes first and starts CAN_rx.                                 *)
controlStartState == /\ Moves("control", "running", "waiting for a frame")
                     /\ given' = given \cup {"can_rx"}
                     /\ UNCHANGED <<boot, exists, wifi, clock, mqtt>>

(* Mutant of StartCanRx: the task does not wait to be started.             *)
CanRxUnstarted == /\ Moves("CAN_rx", "created", "running")
                  /\ UNCHANGED <<boot, exists, wifi, clock, given, mqtt>>

StartCanRx == TakeFirst("CAN_rx", "can_rx")

(* The first frame: EV_CAN_RECEIVED.                                       *)
CanReceive == /\ Moves("CAN_rx", "running", "received")
              /\ UNCHANGED <<boot, exists, wifi, clock, given, mqtt>>

controlCANRequestState == /\ task["CAN_rx"] = "received"
                          /\ Moves("control", "waiting for a frame", "sending")
                          /\ given' = given \cup {"net_tx", "obd_tx_wait"}
                          /\ UNCHANGED <<boot, exists, wifi, clock, mqtt>>

(* EV_NET_TRANSMIT_START, and the request is built.                        *)
StartNetTx == TakeFirst("NET_tx", "net_tx")

StartObd == TakeFirst("OBD", "obd_tx_wait")

(* The publish goes through client, and its end is posted.                 *)
Publish == /\ client
           /\ Moves("NET_tx", "running", "sent")
           /\ UNCHANGED <<boot, exists, wifi, clock, given, mqtt>>

(* Or it reads state through NULL.                                         *)
PublishThroughNull == task["NET_tx"] = "running" /\ ~client /\ Restart

(* After EV_NET_TRANSMIT_END the controller waits for EV_NET_RECEIVED, and *)
(* starts CAN_tx; before, and after, it takes the event and does nothing.  *)
controlNetResponseWaitState == /\ answered /\ answered' = FALSE
                               /\ task["NET_tx"] = "sent"
                               /\ Moves("control", "sending", "answered")
                               /\ given' = given \cup {"can_tx"}
                               /\ UNCHANGED <<boot, exists, wifi, clock, mqtt_task, client>>

IgnoreAnswer == /\ answered /\ answered' = FALSE
                /\ task["control"] \in {"waiting for a frame", "sending", "answered"}
                /\ UNCHANGED <<boot, exists, wifi, clock, task, given, mqtt_task, client>>

StartCanTx == TakeFirst("CAN_tx", "can_tx")

Control == \/ control_task \/ controlStartState \/ controlCANRequestState
           \/ controlNetResponseWaitState \/ IgnoreAnswer

NetTx == StartNetTx \/ Publish \/ PublishThroughNull

AppTask == Control \/ NetTx \/ StartCanRx \/ StartObd \/ StartCanTx

Next == \/ app_main \/ GotIp \/ Disconnected \/ TimeServerAnswers \/ MqttTask
        \/ AppTask \/ CanReceive

(* Every task runs, and an access point that is asked for an address gives *)
(* one.  Time server, broker and bus may stay silent.                      *)
Fairness == /\ WF_vars(app_main) /\ WF_vars(GotIp)
            /\ WF_vars(Control) /\ WF_vars(NetTx)
            /\ WF_vars(StartCanRx) /\ WF_vars(StartObd) /\ WF_vars(StartCanTx)

Spec == Init /\ [][Next]_vars /\ Fairness
-----------------------------------------------------------------------------
Steps == {"objects", "wifi", "wait", "time", "obtain", "poll", "mqtt", "can", "tasks", "ready"}

Places == {"absent", "created", "running", "received", "waiting for a frame", "sending",
           "sent", "answered"}

Objects == {"semaphores", "rxCanQueue", "txCanQueue", "controlEvents", "wifi_event_group",
            "sntp", "driver"}

(* Program counters, and the retries of obtain_time within its limit.      *)
TypeOK == /\ main \in Steps /\ task \in [ToSet(Tasks) -> Places]
          /\ mqtt_task \in {"off", "connecting", "connected", "posting", "waiting"}
          /\ exists \subseteq Objects
          /\ given \subseteq {"can_rx", "can_tx", "net_tx", "obd_tx_wait"}
          /\ retry \in 0..RetryCount
          /\ CONNECTED_BIT \in BOOLEAN /\ client \in BOOLEAN /\ clock \in BOOLEAN
          /\ answered \in BOOLEAN
          /\ station \in {"off", "joining", "online"}

(* What a task that runs uses in its next calls.                           *)
Uses == [NET_tx  |-> {"controlEvents", "rxCanQueue"},
         OBD     |-> {"controlEvents", "txCanQueue"},
         CAN_tx  |-> {"controlEvents", "txCanQueue", "driver"},
         CAN_rx  |-> {"controlEvents", "rxCanQueue", "driver"},
         control |-> {"controlEvents", "semaphores"}]

(* controlEvents is created by the task started last, and posted to by all *)
(* the tasks of app_main: none of them gets past its semaphore before it   *)
(* exists.  The task of the MQTT client has no semaphore to pass: it finds *)
(* txCanQueue, but nothing makes it wait for controlEvents, nor NET_tx for *)
(* the client (PostThroughNull, PublishThroughNull).                       *)
UsedAfterCreation ==
    /\ \A t \in DOMAIN task : /\ task[t] = "created" => "semaphores" \in exists
                              /\ task[t] \notin {"absent", "created"} => Uses[t] \subseteq exists
    /\ mqtt_task # "off" => "txCanQueue" \in exists

Listening == main = "ready" /\ task["CAN_rx"] # "created"

TooEarly == mqtt_task = "posting" /\ "controlEvents" \notin exists

(* Whether or not the time server ever answers, start-up ends, and the     *)
(* gateway listens to the bus; unless answers of the server go on coming   *)
(* before it is done, each of which restarts the chip.                     *)
StartUpEnds == <>Listening \/ []<>TooEarly
=============================================================================
