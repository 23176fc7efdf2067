------------------------------ MODULE Gateway -------------------------------
(***************************************************************************)
(* The application tasks of the gateway after app_main has started them    *)
(* (main.c), running concurrently on the two cores of the ESP32 (the tasks *)
(* are created with tskNO_AFFINITY): any task may take the next step.      *)
(***************************************************************************)
EXTENDS Control, CanTasks, ObdTask, NetTasks, Sift

CONSTANT BatchBound   \* the CAN bus stays silent while a request already
                      \* carries this many frames: the loop that builds it
                      \* has no bound of its own

ASSUME BatchAssumption == BatchBound \in Nat

ASSUME PendingAssumption == PendingFrame \notin Commands

(* What txCanQueue can hold.                                               *)
Frames == Commands \cup {PendingFrame}

vars == <<shared, controlVars, canVars, obd, netVars, mqttVars>>

Init == SharedInit /\ ControlInit /\ CanInit /\ ObdInit /\ NetInit

ControlStep == control_task /\ UNCHANGED <<canVars, obd, netVars, mqttVars>>

CanRxStep == /\ can_receive_task
             /\ canRx = "driver" => Len(batch) < BatchBound
             /\ UNCHANGED <<controlVars, canTxVars, obd, netVars, mqttVars>>

CanTxStep == can_transmit_task /\ UNCHANGED <<controlVars, canRxVars, obd, netVars, mqttVars>>

ObdStep == obd_wait_task /\ UNCHANGED <<controlVars, canVars, netVars, mqttVars>>

NetStep == mqtt_transmit_task /\ UNCHANGED <<controlVars, canVars, obd, mqttVars>>

ServerAnswers == MqttReceive /\ UNCHANGED <<controlVars, canVars, obd, netVars>>

MqttStep == mqtt_receive /\ UNCHANGED <<controlVars, canVars, obd, netVars>>

Next == \/ ControlStep \/ CanRxStep \/ CanTxStep \/ ObdStep
        \/ NetStep \/ ServerAnswers \/ MqttStep

Spec == Init /\ [][Next]_vars
-----------------------------------------------------------------------------
(***************************************************************************)
(* Fairness.  A task that can run does run: all of them spend their life   *)
(* blocked, so none keeps the others off the cores.  A task blocked on a   *)
(* full queue is woken when a place comes free, and FreeRTOS wakes the one *)
(* of the highest priority, the longest blocked first: OBD and CAN_tx, of  *)
(* priority 9, get a place if places keep coming free.  NET_tx (8) and the *)
(* MQTT client's task (5) may be overtaken for ever, and only get their    *)
(* turn when a place stays free; no more is needed of CAN_rx.  The bus and *)
(* the server owe nothing: CanReceive and ServerAnswers are not fair.      *)
(***************************************************************************)
Fairness == /\ WF_vars(ControlStep)
            /\ WF_vars(CanRxStep /\ canRx # "driver")
            /\ SF_vars(CanTxStep)
            /\ SF_vars(ObdStep)
            /\ WF_vars(NetStep)
            /\ WF_vars(MqttStep)

FairSpec == Spec /\ Fairness
-----------------------------------------------------------------------------
(* The types, with the lengths of the queues and of what a task holds.     *)
TypeOK ==
    /\ controlEvents \in Seq(ControlEvents) /\ Len(controlEvents) <= ControlCap
    /\ rxCanQueue \in Seq(Ids) /\ Len(rxCanQueue) <= RxCap
    /\ txCanQueue \in Seq(Frames) /\ Len(txCanQueue) <= TxCap
    /\ can_rx \in BOOLEAN /\ can_tx \in BOOLEAN
    /\ net_rx \in BOOLEAN /\ net_tx \in BOOLEAN /\ obd_tx_wait \in BOOLEAN
    /\ cs \in ControlState /\ ctl \in {"recv", "post"}
    /\ canRx \in {"sem", "driver", "event", "queue"}
    /\ cntRxCan \in Ids /\ rxHand \in Seq(Ids)
    /\ Len(rxHand) = IF canRx \in {"event", "queue"} THEN 1 ELSE 0
    /\ canTx \in {"sem", "queue", "driver", "event"}
    /\ txHand \in Seq(Frames)
    /\ Len(txHand) = IF canTx = "driver" THEN 1 ELSE 0
    /\ obd \in {"sem", "pending", "timeout"}
    /\ net \in {"sem", "count", "start", "build", "drain", "recount", "publish", "end"}
    /\ batch \in Seq(Ids) /\ dataamount \in Nat
    /\ mq \in {"idle", "data"} /\ commands \in Seq(Commands)
-----------------------------------------------------------------------------
(* control_task re-arms a session by posting EV_START to itself after it   *)
(* has changed state.  It is never parked in CONTROL_START without that    *)
(* event in its queue or about to be posted: nobody else would send one.   *)
StartPending == cs = "CONTROL_START" => ctl = "post" \/ Queued("EV_START")

(* The states in which control.c waits for the network.                    *)
Busy == cs \in {"CONTROL_SEND_REQUEST", "CONTROL_WAIT_RESPONSE",
                "CONTROL_RESPONSE_TRANSMITTED"}

(* A session in progress always has its timeout ahead of it: obd_wait_task *)
(* has been told to start, is running, or has posted EV_BIG_TIMEOUT and    *)
(* the controller has not read it.  Neither an early end of a session nor  *)
(* a timeout left over from an earlier one uses up the timeout of this one.*)
WatchdogArmed == Busy => obd_tx_wait \/ obd # "sem" \/ Queued("EV_BIG_TIMEOUT")

(* Frames from the bus on their way to the server, oldest first.           *)
uplink == batch \o rxCanQueue \o rxHand

(* The frames on their way carry consecutive ids and the newest has the id *)
(* before cntRxCan: between the driver and the published request no frame  *)
(* is lost, repeated or overtaken, whatever the tasks' interleaving.       *)
Consecutive(ids) == \A i \in 1 .. Len(ids) - 1 : ids[i + 1] = NextId(ids[i])

UplinkOrder ==
    /\ Consecutive(uplink)
    /\ uplink # <<>> => cntRxCan = NextId(uplink[Len(uplink)])

(* The loop of request_server_masterrequest only calls xQueueReceive when  *)
(* a frame is there.  Its other branch, which repeats the call without     *)
(* counting again, is never taken: it would keep a priority 8 task busy.   *)
DrainNeverSpins == net = "drain" => rxCanQueue # <<>>

(* The amount a request announces was counted before the frames were read. *)
(* It may be less than what the request carries but is never more, and a   *)
(* request that announces nothing is not sent.                             *)
AnnouncedAmount == net = "publish" => dataamount \in 1 .. Len(batch)

(* Nobody but NET_tx empties rxCanQueue, and NET_tx runs only on net_tx,   *)
(* which takes an EV_CAN_RECEIVED: with CAN_rx held by a full queue and no *)
(* such event queued, no frame leaves the gateway any more.                *)
UplinkStalled == /\ canRx = "queue" /\ Len(rxCanQueue) = RxCap
                 /\ net = "sem" /\ ~net_tx /\ ~Queued("EV_CAN_RECEIVED")

UplinkStallIsPermanent == [][UplinkStalled => UplinkStalled']_vars

(* Nobody but CAN_tx empties txCanQueue, and it starts on can_tx, which    *)
(* takes an EV_NET_RECEIVED, posted after the answer's commands have been  *)
(* queued.  A first answer with more commands than there is room for never *)
(* gets there, and neither does any later one.                             *)
AnswerStuck == /\ mq = "data" /\ commands # <<>> /\ Len(txCanQueue) = TxCap
               /\ canTx = "sem" /\ ~can_tx /\ ~Queued("EV_NET_RECEIVED")

StuckAnswerIsPermanent == [][AnswerStuck => AnswerStuck']_vars

(* Frames reach the published request in the order in which the driver     *)
(* delivered them.                                                         *)
Uplink == INSTANCE Fifo WITH Inputs <- {<<id>> : id \in Ids}, ch <- uplink

UplinkIsFifo == Uplink!Spec

(* The commands of the server's answers reach the driver in the order in   *)
(* which the answers listed them, the response-pending frames of           *)
(* obd_wait_task slipping in between.                                      *)
downlink == Sifted(txHand \o txCanQueue, Commands) \o commands

Downlink == INSTANCE Fifo WITH Inputs <- Messages, ch <- downlink

DownlinkIsFifo == Downlink!Spec
-----------------------------------------------------------------------------
(* The controller waits for a place in the queue only it empties.  It does *)
(* so in CONTROL_START, between sessions.                                  *)
ControlJam == ctl = "post" /\ Len(controlEvents) = ControlCap

(* txCanQueue is full and CAN_tx has never been started.                   *)
DownlinkJam == Len(txCanQueue) = TxCap /\ canTx = "sem" /\ ~can_tx

(* A session ends, with an answer or by its timeout, unless the full queue *)
(* above stops the task that times it.                                     *)
SessionEnds == Busy ~> (~Busy \/ DownlinkJam)
-----------------------------------------------------------------------------
(* control.c:129 gives net_tx with the comment "sending the request": in   *)
(* CONTROL_SEND_REQUEST the request is about to be sent, is being sent, or *)
(* has been.                                                               *)
SendingTheRequest ==
    cs = "CONTROL_SEND_REQUEST" =>
        net_tx \/ net # "sem" \/ Queued("EV_NET_TRANSMIT_END")

(* obd.c:49 posts EV_BIG_TIMEOUT to "return to start": a session, answered *)
(* or not, comes to its end.                                               *)
ReturnsToStart == Busy ~> ~Busy
=============================================================================
