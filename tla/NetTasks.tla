------------------------------ MODULE NetTasks ------------------------------
(***************************************************************************)
(* mqtt.c and requests.c: the task that turns the queued CAN frames into   *)
(* one request and publishes it, and the MQTT data callback, which runs in *)
(* the client's own task and turns an answer into CAN commands.            *)
(***************************************************************************)
EXTENDS GatewayState

CONSTANTS Commands,  \* the CAN frames an answer can ask for
          Messages   \* what its "commands" array can be: a set of sequences
                     \* of commands, <<>> included when it has no array

ASSUME MessageAssumption == Messages \subseteq Seq(Commands)

VARIABLES net,         \* where mqtt_transmit_task is
          batch,       \* the commands array of the request being built
          dataamount,  \* the number the request announces
          mq,          \* "idle", or "data": in mqtt_receive
          commands     \* what request_can_send has still to queue

netVars  == <<net, batch, dataamount>>
mqttVars == <<mq, commands>>

NetInit == /\ net = "sem" /\ batch = <<>> /\ dataamount = 0
           /\ mq = "idle" /\ commands = <<>>

TakeNetTx == /\ net = "sem"
             /\ Take(net_tx)
             /\ net' = "count"
             /\ UNCHANGED <<batch, dataamount, queues, can_rx, can_tx, net_rx, obd_tx_wait>>

(* Mutant of CountFrames: a request is built whether or not there is a     *)
(* frame for it.                                                           *)
CountNothing == /\ net = "count"
                /\ net' = "start"
                /\ UNCHANGED <<batch, dataamount, shared>>

(* cntMsg = uxQueueMessagesWaiting(rxCanQueue): with nothing queued the    *)
(* task goes back to wait for net_tx (the heartbeat branch only resets a   *)
(* counter nobody reads).                                                  *)
CountFrames == /\ net = "count"
               /\ net' = IF rxCanQueue # <<>> THEN "start" ELSE "sem"
               /\ UNCHANGED <<batch, dataamount, shared>>

PostTransmitStart == /\ net = "start"
                     /\ Send(controlEvents, ControlCap, "EV_NET_TRANSMIT_START")
                     /\ net' = "build"
                     /\ UNCHANGED <<batch, dataamount, rxCanQueue, txCanQueue, semaphores>>

(* request_server_masterrequest counts the queue again, announces that     *)
(* count, and enters its loop if there is anything to read.                *)
BeginRequest == /\ net = "build"
                /\ dataamount' = Len(rxCanQueue)
                /\ net' = IF rxCanQueue # <<>> THEN "drain" ELSE "publish"
                /\ UNCHANGED <<batch, shared>>

(* Mutant of DrainFrame: the frame is copied and stays in the queue.       *)
PeekFrame == /\ net = "drain"
             /\ rxCanQueue # <<>>
             /\ batch' = Append(batch, Head(rxCanQueue))
             /\ net' = "recount"
             /\ UNCHANGED <<dataamount, shared>>

(* xQueueReceive(rxCanQueue, &msg, 0).  When it fails the loop goes round  *)
(* with the old count: the break of that branch is commented out.          *)
DrainFrame == /\ net = "drain"
              /\ IF rxCanQueue # <<>>
                 THEN /\ Receive(rxCanQueue)
                      /\ batch' = Append(batch, Head(rxCanQueue))
                      /\ net' = "recount"
                 ELSE UNCHANGED <<rxCanQueue, batch, net>>
              /\ UNCHANGED <<dataamount, controlEvents, txCanQueue, semaphores>>

(* Mutant of Recount: the loop runs once more than the announced amount.   *)
RecountAnnounced == /\ net = "recount"
                    /\ net' = IF Len(batch) <= dataamount THEN "drain" ELSE "publish"
                    /\ UNCHANGED <<batch, dataamount, shared>>

Recount == /\ net = "recount"
           /\ net' = IF rxCanQueue # <<>> THEN "drain" ELSE "publish"
           /\ UNCHANGED <<batch, dataamount, shared>>

(* esp_mqtt_client_publish.  Its result is ignored: the request is freed   *)
(* and the task goes on in the same way whether it was sent or not.        *)
Publish == /\ net = "publish"
           /\ batch' = <<>> /\ dataamount' = 0
           /\ net' = "end"
           /\ UNCHANGED shared

PostTransmitEnd == /\ net = "end"
                   /\ Send(controlEvents, ControlCap, "EV_NET_TRANSMIT_END")
                   /\ net' = "sem"
                   /\ UNCHANGED <<batch, dataamount, rxCanQueue, txCanQueue, semaphores>>

mqtt_transmit_task == \/ TakeNetTx \/ CountFrames \/ PostTransmitStart \/ BeginRequest
                      \/ DrainFrame \/ Recount \/ Publish \/ PostTransmitEnd

(* MQTT_EVENT_DATA with a payload that parses.  One that does not parse    *)
(* changes nothing.                                                        *)
MqttReceive == /\ mq = "idle"
               /\ \E message \in Messages : commands' = message
               /\ mq' = "data"
               /\ UNCHANGED shared

(* Mutant of SendCommand: the send does not wait, and a command that finds *)
(* the queue full is lost.                                                 *)
SendCommandOrDrop == /\ mq = "data" /\ commands # <<>>
                     /\ txCanQueue' = IF Len(txCanQueue) < TxCap
                                      THEN Append(txCanQueue, Head(commands)) ELSE txCanQueue
                     /\ commands' = Tail(commands)
                     /\ UNCHANGED <<mq, controlEvents, rxCanQueue, semaphores>>

(* One turn of the loop of request_can_send.                               *)
SendCommand == /\ mq = "data" /\ commands # <<>>
               /\ Send(txCanQueue, TxCap, Head(commands))
               /\ commands' = Tail(commands)
               /\ UNCHANGED <<mq, controlEvents, rxCanQueue, semaphores>>

PostNetReceived == /\ mq = "data" /\ commands = <<>>
                   /\ Send(controlEvents, ControlCap, "EV_NET_RECEIVED")
                   /\ mq' = "idle"
                   /\ UNCHANGED <<commands, rxCanQueue, txCanQueue, semaphores>>

mqtt_receive == SendCommand \/ PostNetReceived
=============================================================================
