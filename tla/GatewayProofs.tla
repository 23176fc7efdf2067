--------------------------- MODULE GatewayProofs ----------------------------
(***************************************************************************)
(* Proofs about Gateway, for all lengths of the queues, all ids and all    *)
(* answers of the server, and then about TimedGateway, for all delays.     *)
(***************************************************************************)
EXTENDS TimedGateway, SequenceFacts

(* What the two queue calls do to a queue's type and length.               *)
LEMMA SendType ==
    ASSUME NEW S, NEW q \in Seq(S), NEW item \in S, NEW cap \in Nat, Len(q) < cap
    PROVE  Append(q, item) \in Seq(S) /\ Len(Append(q, item)) <= cap
BY AppendProperties

LEMMA ReceiveType ==
    ASSUME NEW S, NEW q \in Seq(S), q # <<>>, NEW cap \in Nat, Len(q) <= cap
    PROVE  Head(q) \in S /\ Tail(q) \in Seq(S) /\ Len(Tail(q)) <= cap
BY HeadTailProperties

(* A task that holds one item holds one of the right type.                 *)
LEMMA HeldItem ==
    ASSUME NEW S, NEW held \in Seq(S), Len(held) = 1
    PROVE  held # <<>> /\ Head(held) \in S /\ held = <<Head(held)>>
<1>1. held # <<>>
  OBVIOUS
<1>2. Head(held) \in S /\ Head(held) = held[1]
  BY <1>1, HeadTailProperties
<1> QED BY <1>1, <1>2, SeqEqual
-----------------------------------------------------------------------------
LEMMA InitType == Init => TypeOK
<1> SUFFICES ASSUME Init PROVE TypeOK
  OBVIOUS
<1> USE DEF Init, SharedInit, ControlInit, CanInit, ObdInit, NetInit
<1>1. \A S : <<>> \in Seq(S)
  OBVIOUS
<1>2. Len(<<>>) = 0
  OBVIOUS
<1>3. 0 \in Ids
  BY IdAssumption DEF Ids
<1>4. /\ can_rx \in BOOLEAN /\ can_tx \in BOOLEAN
      /\ net_rx \in BOOLEAN /\ net_tx \in BOOLEAN /\ obd_tx_wait \in BOOLEAN
  OBVIOUS
<1>5. Len(rxHand) = 0 /\ Len(txHand) = 0 /\ canRx \notin {"event", "queue"} /\ canTx # "driver"
  BY <1>2
<1> QED BY <1>1, <1>2, <1>3, <1>4, <1>5, CapAssumption DEF TypeOK, ControlState

(* Every step of control.c keeps the types.                                *)
LEMMA ControlType == TypeOK /\ ControlStep => TypeOK'
<1> SUFFICES ASSUME TypeOK, ControlStep PROVE TypeOK'
  OBVIOUS
<1> USE DEF TypeOK, controlVars, canVars, canRxVars, canTxVars, netVars, mqttVars, queues, semaphores
<1>1. CASE PostStart
  <2>1. "EV_START" \in ControlEvents
    BY DEF ControlEvents
  <2> QED BY <1>1, <2>1, SendType, CapAssumption DEF ControlStep, PostStart, Send
<1>2. CASE HandleEvent
  <2>1. controlEvents' \in Seq(ControlEvents) /\ Len(controlEvents') <= ControlCap
    BY <1>2, ReceiveType, CapAssumption DEF HandleEvent, Receive
  <2>2. /\ cs' \in ControlState /\ ctl' \in {"recv", "post"}
        /\ can_rx' \in BOOLEAN /\ can_tx' \in BOOLEAN
        /\ net_rx' \in BOOLEAN /\ net_tx' \in BOOLEAN /\ obd_tx_wait' \in BOOLEAN
    BY <1>2 DEF HandleEvent, controlStartState, controlCANRequestState,
       controlNetRequestSendState, controlNetResponseWaitState, Restart, Ignore,
       changeState, Give, ControlState
  <2> QED BY <1>2, <2>1, <2>2 DEF ControlStep, HandleEvent
<1> QED BY <1>1, <1>2 DEF ControlStep, control_task

(* Every step of can_receive_task keeps the types.                         *)
LEMMA CanRxType == TypeOK /\ CanRxStep => TypeOK'
<1> SUFFICES ASSUME TypeOK, CanRxStep PROVE TypeOK'
  OBVIOUS
<1> USE DEF TypeOK, CanRxStep, controlVars, canTxVars, netVars, mqttVars, shared, queues, semaphores
<1>1. CASE TakeCanRx
  <2>1. can_rx' \in BOOLEAN
    BY <1>1 DEF TakeCanRx, Take
  <2> QED BY <1>1, <2>1 DEF TakeCanRx
<1>2. CASE CanReceive
  <2>1. rxHand' \in Seq(Ids) /\ Len(rxHand') = 1
    BY <1>2 DEF CanReceive
  <2>2. cntRxCan' \in Ids
    BY <1>2, IdAssumption DEF CanReceive, NextId, Ids
  <2> QED BY <1>2, <2>1, <2>2 DEF CanReceive
<1>3. CASE AnnounceFrame
  <2>1. "EV_CAN_RECEIVED" \in ControlEvents
    BY DEF ControlEvents
  <2> QED BY <1>3, <2>1, SendType, CapAssumption DEF AnnounceFrame, Send
<1>4. CASE QueueFrame
  <2>1. Head(rxHand) \in Ids
    <3>1. rxHand \in Seq(Ids) /\ Len(rxHand) = 1
      BY <1>4 DEF QueueFrame
    <3> QED BY <3>1, HeldItem
  <2>2. rxCanQueue' \in Seq(Ids) /\ Len(rxCanQueue') <= RxCap
    BY <1>4, <2>1, SendType, CapAssumption DEF QueueFrame, Send
  <2>3. rxHand' \in Seq(Ids) /\ Len(rxHand') = 0
    BY <1>4 DEF QueueFrame
  <2> QED BY <1>4, <2>2, <2>3 DEF QueueFrame
<1> QED BY <1>1, <1>2, <1>3, <1>4 DEF can_receive_task

(* Every step of can_transmit_task keeps the types.                        *)
LEMMA CanTxType == TypeOK /\ CanTxStep => TypeOK'
<1> SUFFICES ASSUME TypeOK, CanTxStep PROVE TypeOK'
  OBVIOUS
<1> USE DEF TypeOK, CanTxStep, controlVars, canRxVars, netVars, mqttVars, shared, queues, semaphores
<1>1. CASE TakeCanTx
  <2>1. can_tx' \in BOOLEAN
    BY <1>1 DEF TakeCanTx, Take
  <2> QED BY <1>1, <2>1 DEF TakeCanTx
<1>2. CASE TakeFrame
  <2>1. /\ Head(txCanQueue) \in Frames
        /\ txCanQueue' \in Seq(Frames) /\ Len(txCanQueue') <= TxCap
    BY <1>2, ReceiveType, CapAssumption DEF TakeFrame, Receive
  <2>2. txHand' \in Seq(Frames) /\ Len(txHand') = 1
    BY <1>2, <2>1 DEF TakeFrame
  <2> QED BY <1>2, <2>1, <2>2 DEF TakeFrame
<1>3. CASE CanTransmit
  <2>1. txHand' \in Seq(Frames) /\ Len(txHand') = 0
    BY <1>3 DEF CanTransmit
  <2> QED BY <1>3, <2>1 DEF CanTransmit
<1>4. CASE AnnounceTransmit
  <2>1. "EV_CAN_TRANSMITTED" \in ControlEvents
    BY DEF ControlEvents
  <2> QED BY <1>4, <2>1, SendType, CapAssumption DEF AnnounceTransmit, Send
<1> QED BY <1>1, <1>2, <1>3, <1>4 DEF can_transmit_task

(* Every step of obd_wait_task keeps the types.                            *)
LEMMA ObdType == TypeOK /\ ObdStep => TypeOK'
<1> SUFFICES ASSUME TypeOK, ObdStep PROVE TypeOK'
  OBVIOUS
<1> USE DEF TypeOK, ObdStep, controlVars, canVars, canRxVars, canTxVars, netVars, mqttVars, queues, semaphores
<1>1. CASE TakeObdWait
  <2>1. obd_tx_wait' \in BOOLEAN
    BY <1>1 DEF TakeObdWait, Take
  <2> QED BY <1>1, <2>1 DEF TakeObdWait
<1>2. CASE QueuePending
  <2>1. PendingFrame \in Frames
    BY DEF Frames
  <2> QED BY <1>2, <2>1, SendType, CapAssumption DEF QueuePending, Send
<1>3. CASE PostBigTimeout
  <2>1. "EV_BIG_TIMEOUT" \in ControlEvents
    BY DEF ControlEvents
  <2> QED BY <1>3, <2>1, SendType, CapAssumption DEF PostBigTimeout, Send
<1> QED BY <1>1, <1>2, <1>3 DEF ObdStep, obd_wait_task

(* Every step of mqtt_transmit_task keeps the types.                       *)
LEMMA NetType == TypeOK /\ NetStep => TypeOK'
<1> SUFFICES ASSUME TypeOK, NetStep PROVE TypeOK'
  OBVIOUS
<1> USE DEF TypeOK, NetStep, controlVars, canVars, canRxVars, canTxVars, mqttVars, shared, queues, semaphores
<1>1. CASE TakeNetTx
  <2>1. net_tx' \in BOOLEAN
    BY <1>1 DEF TakeNetTx, Take
  <2> QED BY <1>1, <2>1 DEF TakeNetTx
<1>2. CASE CountFrames
  BY <1>2 DEF CountFrames
<1>3. CASE PostTransmitStart
  <2>1. "EV_NET_TRANSMIT_START" \in ControlEvents
    BY DEF ControlEvents
  <2> QED BY <1>3, <2>1, SendType, CapAssumption DEF PostTransmitStart, Send
<1>4. CASE BeginRequest
  <2>1. dataamount' \in Nat
    BY <1>4, LenProperties DEF BeginRequest
  <2> QED BY <1>4, <2>1 DEF BeginRequest
<1>5. CASE DrainFrame
  <2>1. CASE rxCanQueue # <<>>
    <3>1. rxCanQueue' = Tail(rxCanQueue) /\ batch' = Append(batch, Head(rxCanQueue))
      BY <1>5, <2>1 DEF DrainFrame, Receive
    <3>2. /\ Head(rxCanQueue) \in Ids
          /\ rxCanQueue' \in Seq(Ids) /\ Len(rxCanQueue') <= RxCap
      BY <2>1, <3>1, ReceiveType, CapAssumption
    <3>3. batch' \in Seq(Ids)
      BY <3>1, <3>2, AppendProperties
    <3> QED BY <1>5, <2>1, <3>2, <3>3 DEF DrainFrame
  <2>2. CASE rxCanQueue = <<>>
    BY <1>5, <2>2 DEF DrainFrame
  <2> QED BY <2>1, <2>2
<1>6. CASE Recount
  BY <1>6 DEF Recount
<1>7. CASE Publish
  <2>1. batch' \in Seq(Ids) /\ dataamount' \in Nat
    BY <1>7 DEF Publish
  <2> QED BY <1>7, <2>1 DEF Publish
<1>8. CASE PostTransmitEnd
  <2>1. "EV_NET_TRANSMIT_END" \in ControlEvents
    BY DEF ControlEvents
  <2> QED BY <1>8, <2>1, SendType, CapAssumption DEF PostTransmitEnd, Send
<1> QED BY <1>1, <1>2, <1>3, <1>4, <1>5, <1>6, <1>7, <1>8 DEF mqtt_transmit_task

(* An answer from the server, and every step of its callback, keeps the    *)
(* types.                                                                  *)
LEMMA MqttType == TypeOK /\ (ServerAnswers \/ MqttStep) => TypeOK'
<1> SUFFICES ASSUME TypeOK, ServerAnswers \/ MqttStep PROVE TypeOK'
  OBVIOUS
<1> USE DEF TypeOK, controlVars, canVars, canRxVars, canTxVars, netVars, shared, queues, semaphores
<1>1. CASE ServerAnswers
  <2>1. commands' \in Seq(Commands)
    BY <1>1, MessageAssumption DEF ServerAnswers, MqttReceive
  <2> QED BY <1>1, <2>1 DEF ServerAnswers, MqttReceive
<1>2. CASE MqttStep /\ SendCommand
  <2>1. /\ Head(commands) \in Commands /\ commands' \in Seq(Commands)
    BY <1>2, HeadTailProperties DEF SendCommand
  <2>2. Head(commands) \in Frames
    BY <2>1 DEF Frames
  <2>3. txCanQueue' \in Seq(Frames) /\ Len(txCanQueue') <= TxCap
    BY <1>2, <2>2, SendType, CapAssumption DEF SendCommand, Send
  <2> QED BY <1>2, <2>1, <2>3 DEF MqttStep, SendCommand
<1>3. CASE MqttStep /\ PostNetReceived
  <2>1. "EV_NET_RECEIVED" \in ControlEvents
    BY DEF ControlEvents
  <2> QED BY <1>3, <2>1, SendType, CapAssumption DEF MqttStep, PostNetReceived, Send
<1> QED BY <1>1, <1>2, <1>3 DEF MqttStep, mqtt_receive

LEMMA TypeStep == TypeOK /\ [Next]_vars => TypeOK'
<1> SUFFICES ASSUME TypeOK, [Next]_vars PROVE TypeOK'
  OBVIOUS
<1>1. CASE Next
  BY <1>1, ControlType, CanRxType, CanTxType, ObdType, NetType, MqttType DEF Next
<1>2. CASE UNCHANGED vars
  BY <1>2 DEF TypeOK, vars, shared, queues, semaphores, controlVars, canVars, canRxVars,
              canTxVars, netVars, mqttVars
<1> QED BY <1>1, <1>2

(* The queues never hold more than they were created for, nor anything but *)
(* what their readers expect, and each task is at one of its waits.        *)
THEOREM TypeCorrect == Spec => []TypeOK
<1> QED BY InitType, TypeStep, PTL DEF Spec
-----------------------------------------------------------------------------
(***************************************************************************)
(* The controller's queue.                                                 *)
(***************************************************************************)
LEMMA QueuedAfterSend ==
    ASSUME TypeOK, NEW item \in ControlEvents, controlEvents' = Append(controlEvents, item), NEW ev
    PROVE  Queued(ev)' <=> Queued(ev) \/ ev = item
<1> DEFINE q == controlEvents
           n == Len(controlEvents)
<1>1. controlEvents \in Seq(ControlEvents)
  BY DEF TypeOK
<1>2. /\ Len(controlEvents') = n + 1 /\ n \in Nat
      /\ \A i \in 1 .. n : controlEvents'[i] = q[i]
      /\ controlEvents'[n + 1] = item
  BY <1>1, AppendProperties, LenProperties
<1>3. 1 .. n + 1 = (1 .. n) \cup {n + 1}
  BY <1>2
<1> QED BY <1>2, <1>3 DEF Queued

LEMMA QueuedAfterReceive ==
    ASSUME TypeOK, Receive(controlEvents), NEW ev
    PROVE  /\ Queued(ev) => Queued(ev)' \/ ev = Head(controlEvents)
           /\ Queued(ev)' => Queued(ev)
           /\ Queued(Head(controlEvents))
<1> DEFINE q == controlEvents
           n == Len(controlEvents)
<1>1. controlEvents \in Seq(ControlEvents) /\ q # <<>> /\ controlEvents' = Tail(q)
  BY DEF TypeOK, Receive
<1>2. /\ Len(controlEvents') = n - 1 /\ n \in Nat /\ n >= 1
      /\ \A i \in 1 .. n - 1 : controlEvents'[i] = q[i + 1]
      /\ Head(q) = q[1]
  BY <1>1, HeadTailProperties, LenProperties
<1>3. Queued(ev) => Queued(ev)' \/ ev = Head(q)
  <2> SUFFICES ASSUME NEW i \in 1 .. n, q[i] = ev, i # 1 PROVE Queued(ev)'
    BY <1>2 DEF Queued
  <2>1. i - 1 \in 1 .. n - 1 /\ controlEvents'[i - 1] = ev
    BY <1>2
  <2> QED BY <1>2, <2>1 DEF Queued
<1>4. Queued(ev)' => Queued(ev)
  <2> SUFFICES ASSUME NEW i \in 1 .. n - 1, q[i + 1] = ev PROVE Queued(ev)
    BY <1>2 DEF Queued
  <2>1. i + 1 \in 1 .. n
    BY <1>2
  <2> QED BY <2>1 DEF Queued
<1>5. Queued(Head(q))
  BY <1>2 DEF Queued
<1> QED BY <1>3, <1>4, <1>5

(* The steps of every task but the controller.                             *)
OtherStep == CanRxStep \/ CanTxStep \/ ObdStep \/ NetStep \/ ServerAnswers \/ MqttStep

(* The other tasks leave the controller's state alone and only add to its  *)
(* queue; the event each of them adds says who it is and where it was.     *)
LEMMA OthersPost ==
    ASSUME TypeOK, OtherStep
    PROVE  /\ UNCHANGED <<cs, ctl>>
           /\ \/ UNCHANGED controlEvents
              \/ \E ev \in ControlEvents \ {"EV_START"} :
                    /\ controlEvents' = Append(controlEvents, ev)
                    /\ ev = "EV_CAN_RECEIVED" => canRx = "event"
                    /\ ev = "EV_NET_RECEIVED" => mq = "data" /\ commands = <<>>
<1> USE DEF controlVars, shared, queues, ControlEvents
<1>1. CASE CanRxStep
  BY <1>1 DEF CanRxStep, can_receive_task, TakeCanRx, CanReceive, AnnounceFrame, QueueFrame, Send
<1>2. CASE CanTxStep
  BY <1>2 DEF CanTxStep, can_transmit_task, TakeCanTx, TakeFrame, CanTransmit, AnnounceTransmit, Send
<1>3. CASE ObdStep
  BY <1>3 DEF ObdStep, obd_wait_task, TakeObdWait, QueuePending, PostBigTimeout, Send
<1>4. CASE NetStep
  BY <1>4 DEF NetStep, mqtt_transmit_task, TakeNetTx, CountFrames, PostTransmitStart, BeginRequest,
              DrainFrame, Recount, Publish, PostTransmitEnd, Send
<1>5. CASE ServerAnswers
  BY <1>5 DEF ServerAnswers, MqttReceive
<1>6. CASE MqttStep
  BY <1>6 DEF MqttStep, mqtt_receive, SendCommand, PostNetReceived, Send
<1> QED BY <1>1, <1>2, <1>3, <1>4, <1>5, <1>6 DEF OtherStep

LEMMA OthersKeepQueued ==
    ASSUME TypeOK, OtherStep, NEW ev, Queued(ev)
    PROVE  Queued(ev)'
<1>1. CASE UNCHANGED controlEvents
  BY <1>1 DEF Queued
<1>2. CASE \E item \in ControlEvents : controlEvents' = Append(controlEvents, item)
  BY <1>2, QueuedAfterSend
<1> QED BY <1>1, <1>2, OthersPost
-----------------------------------------------------------------------------
(***************************************************************************)
(* The controller never waits in CONTROL_START for an event nobody sends.  *)
(***************************************************************************)
LEMMA StartPendingStep == TypeOK /\ StartPending /\ [Next]_vars => StartPending'
<1> SUFFICES ASSUME TypeOK, StartPending, [Next]_vars PROVE StartPending'
  OBVIOUS
<1>1. CASE ControlStep /\ PostStart
  <2>1. Queued("EV_START")'
    BY <1>1, QueuedAfterSend DEF PostStart, Send, ControlEvents
  <2> QED BY <2>1 DEF StartPending
<1>2. CASE ControlStep /\ HandleEvent
  <2>1. ctl = "recv" /\ Receive(controlEvents)
    BY <1>2 DEF HandleEvent
  <2>2. CASE cs = "CONTROL_START"
    <3>1. Queued("EV_START")
      BY <2>1, <2>2 DEF StartPending
    <3>2. controlStartState(Head(controlEvents))
      BY <1>2, <2>2 DEF HandleEvent
    <3>3. CASE Head(controlEvents) = "EV_START"
      BY <3>2, <3>3 DEF controlStartState, changeState, StartPending
    <3>4. CASE Head(controlEvents) # "EV_START"
      BY <2>1, <3>1, <3>4, QueuedAfterReceive DEF StartPending
    <3> QED BY <3>3, <3>4
  <2>3. CASE cs # "CONTROL_START"
    BY <1>2, <2>3 DEF HandleEvent, controlCANRequestState, controlNetRequestSendState,
       controlNetResponseWaitState, Restart, Ignore, changeState, StartPending
  <2> QED BY <2>2, <2>3
<1>3. CASE OtherStep
  BY <1>3, OthersPost, OthersKeepQueued DEF StartPending
<1>4. CASE UNCHANGED vars
  BY <1>4 DEF vars, controlVars, shared, queues, StartPending, Queued
<1> QED BY <1>1, <1>2, <1>3, <1>4 DEF Next, ControlStep, control_task, OtherStep

(* In CONTROL_START an EV_START is queued or about to be.                  *)
THEOREM StartIsPending == Spec => []StartPending
<1>1. Init => StartPending
  BY DEF Init, ControlInit, StartPending
<1> QED BY <1>1, InitType, TypeStep, StartPendingStep, PTL DEF Spec
-----------------------------------------------------------------------------
(***************************************************************************)
(* A session in progress has its timeout ahead of it.                      *)
(***************************************************************************)
LEMMA WatchdogStep == TypeOK /\ WatchdogArmed /\ [Next]_vars => WatchdogArmed'
<1> SUFFICES ASSUME TypeOK, WatchdogArmed, [Next]_vars PROVE WatchdogArmed'
  OBVIOUS
<1>1. CASE ControlStep /\ PostStart
  <2>1. UNCHANGED <<cs, obd, obd_tx_wait>>
    BY <1>1 DEF ControlStep, PostStart, semaphores
  <2>2. Queued("EV_BIG_TIMEOUT") => Queued("EV_BIG_TIMEOUT")'
    BY <1>1, QueuedAfterSend DEF PostStart, Send, ControlEvents
  <2> QED BY <2>1, <2>2 DEF WatchdogArmed, Busy
<1>2. CASE ControlStep /\ HandleEvent
  <2> DEFINE ev == Head(controlEvents)
  <2>1. Receive(controlEvents) /\ UNCHANGED obd
    BY <1>2 DEF ControlStep, HandleEvent
  <2>2. Queued("EV_BIG_TIMEOUT") => Queued("EV_BIG_TIMEOUT")' \/ ev = "EV_BIG_TIMEOUT"
    BY <2>1, QueuedAfterReceive
  <2>3. CASE cs = "CONTROL_START"
    BY <1>2, <2>3 DEF HandleEvent, controlStartState, changeState, Ignore, WatchdogArmed, Busy
  <2>4. CASE cs = "CONTROL_CAN_REQUEST_WAIT"
    BY <1>2, <2>4 DEF HandleEvent, controlCANRequestState, changeState, Give, Ignore,
       WatchdogArmed, Busy
  <2>5. CASE cs = "CONTROL_SEND_REQUEST"
    BY <1>2, <2>1, <2>2, <2>5 DEF HandleEvent, controlNetRequestSendState, changeState,
       Restart, Ignore, semaphores, WatchdogArmed, Busy
  <2>6. CASE cs = "CONTROL_WAIT_RESPONSE"
    BY <1>2, <2>1, <2>2, <2>6 DEF HandleEvent, controlNetResponseWaitState, changeState,
       Restart, Ignore, semaphores, WatchdogArmed, Busy
  <2>7. CASE cs = "CONTROL_RESPONSE_TRANSMITTED"
    BY <1>2, <2>7 DEF HandleEvent, Restart, changeState, WatchdogArmed, Busy
  <2> QED BY <1>2, <2>3, <2>4, <2>5, <2>6, <2>7 DEF HandleEvent
<1>3. CASE ObdStep
  <2>1. UNCHANGED cs
    BY <1>3, OthersPost DEF OtherStep
  <2>2. CASE TakeObdWait \/ QueuePending
    BY <2>1, <2>2 DEF TakeObdWait, QueuePending, WatchdogArmed, Busy
  <2>3. CASE PostBigTimeout
    <3>1. Queued("EV_BIG_TIMEOUT")'
      BY <2>3, QueuedAfterSend DEF PostBigTimeout, Send, ControlEvents
    <3> QED BY <2>1, <3>1 DEF WatchdogArmed, Busy
  <2> QED BY <1>3, <2>2, <2>3 DEF ObdStep, obd_wait_task
<1>4. CASE OtherStep /\ ~ObdStep
  <2>1. UNCHANGED <<obd, obd_tx_wait>>
    BY <1>4 DEF OtherStep, shared, semaphores,
       CanRxStep, can_receive_task, TakeCanRx, CanReceive, AnnounceFrame, QueueFrame,
       CanTxStep, can_transmit_task, TakeCanTx, TakeFrame, CanTransmit, AnnounceTransmit,
       NetStep, mqtt_transmit_task, TakeNetTx, CountFrames, PostTransmitStart, BeginRequest,
       DrainFrame, Recount, Publish, PostTransmitEnd,
       ServerAnswers, MqttReceive, MqttStep, mqtt_receive, SendCommand, PostNetReceived
  <2> QED BY <1>4, <2>1, OthersPost, OthersKeepQueued DEF WatchdogArmed, Busy
<1>5. CASE UNCHANGED vars
  BY <1>5 DEF vars, controlVars, shared, queues, semaphores, WatchdogArmed, Busy, Queued
<1> QED BY <1>1, <1>2, <1>3, <1>4, <1>5 DEF Next, ControlStep, control_task, OtherStep

(* Every session can still be ended by its timeout.                        *)
THEOREM WatchdogIsArmed == Spec => []WatchdogArmed
<1>1. Init => WatchdogArmed
  BY DEF Init, ControlInit, WatchdogArmed, Busy
<1> QED BY <1>1, InitType, TypeStep, WatchdogStep, PTL DEF Spec
-----------------------------------------------------------------------------
(***************************************************************************)
(* The loop that builds a request.                                         *)
(***************************************************************************)

(* Between the two counts of rxCanQueue, and between a count and the read  *)
(* that follows it, no frame leaves the queue: the other tasks only add.   *)
RequestInv ==
    /\ net \in {"start", "build"} => rxCanQueue # <<>>
    /\ net \in {"drain", "recount"} => dataamount \in 1 .. Len(batch) + Len(rxCanQueue)
    /\ DrainNeverSpins
    /\ AnnouncedAmount

LEMMA RequestStep == TypeOK /\ RequestInv /\ [Next]_vars => RequestInv'
<1> SUFFICES ASSUME TypeOK, RequestInv, [Next]_vars PROVE RequestInv'
  OBVIOUS
<1> DEFINE b == Len(batch)
           r == Len(rxCanQueue)
<1> USE DEF RequestInv, DrainNeverSpins, AnnouncedAmount
<1>1. /\ batch \in Seq(Ids) /\ rxCanQueue \in Seq(Ids) /\ b \in Nat /\ r \in Nat
      /\ rxCanQueue # <<>> <=> r > 0
      /\ dataamount \in Nat
  BY DEF TypeOK
<1>2. CASE NetStep /\ (TakeNetTx \/ CountFrames \/ PostTransmitStart \/ Publish \/ PostTransmitEnd)
  BY <1>2 DEF TakeNetTx, CountFrames, PostTransmitStart, Publish, PostTransmitEnd, shared, queues
<1>3. CASE NetStep /\ BeginRequest
  <2>1. /\ rxCanQueue # <<>> /\ dataamount' = r /\ net' = "drain"
        /\ UNCHANGED <<batch, rxCanQueue>>
    BY <1>3 DEF BeginRequest, shared, queues
  <2> QED BY <1>1, <2>1
<1>4. CASE NetStep /\ DrainFrame
  <2>1. /\ rxCanQueue # <<>> /\ rxCanQueue' = Tail(rxCanQueue) /\ net' = "recount"
        /\ batch' = Append(batch, Head(rxCanQueue)) /\ UNCHANGED dataamount
    BY <1>4 DEF DrainFrame, Receive
  <2>2. Len(batch') = b + 1 /\ Len(rxCanQueue') = r - 1
    BY <1>1, <2>1, HeadTailProperties, AppendProperties
  <2>3. dataamount \in 1 .. b + r
    BY <1>4 DEF DrainFrame
  <2> QED BY <1>1, <2>1, <2>2, <2>3
<1>5. CASE NetStep /\ Recount
  <2>1. /\ net = "recount" /\ net' = IF rxCanQueue # <<>> THEN "drain" ELSE "publish"
        /\ UNCHANGED <<batch, rxCanQueue, dataamount>>
    BY <1>5 DEF Recount, shared, queues
  <2> QED BY <1>1, <2>1
<1>6. CASE CanRxStep
  <2>1. UNCHANGED netVars
    BY <1>6 DEF CanRxStep
  <2>2. CASE QueueFrame
    <3>1. Head(rxHand) \in Ids
      <4>1. rxHand \in Seq(Ids) /\ Len(rxHand) = 1
        BY <2>2 DEF QueueFrame, TypeOK
      <4> QED BY <4>1, HeldItem
    <3>2. rxCanQueue' = Append(rxCanQueue, Head(rxHand))
      BY <2>2 DEF QueueFrame, Send
    <3>3. rxCanQueue' # <<>> /\ Len(rxCanQueue') = r + 1
      BY <1>1, <3>1, <3>2, AppendProperties
    <3> QED BY <1>1, <2>1, <3>3 DEF netVars
  <2>3. CASE UNCHANGED rxCanQueue
    BY <2>1, <2>3 DEF netVars
  <2> QED BY <1>6, <2>2, <2>3 DEF CanRxStep, can_receive_task, TakeCanRx, CanReceive,
             AnnounceFrame, shared, queues
<1>7. CASE ControlStep \/ CanTxStep \/ ObdStep \/ ServerAnswers \/ MqttStep
  <2>1. UNCHANGED <<rxCanQueue, net, batch, dataamount>>
    BY <1>7 DEF shared, queues, netVars, ControlStep, control_task, PostStart, HandleEvent,
       CanTxStep, can_transmit_task, TakeCanTx, TakeFrame, CanTransmit, AnnounceTransmit,
       ObdStep, obd_wait_task, TakeObdWait, QueuePending, PostBigTimeout,
       ServerAnswers, MqttReceive, MqttStep, mqtt_receive, SendCommand, PostNetReceived
  <2> QED BY <2>1
<1>8. CASE UNCHANGED vars
  BY <1>8 DEF vars, netVars, shared, queues
<1> QED BY <1>2, <1>3, <1>4, <1>5, <1>6, <1>7, <1>8 DEF Next, NetStep, mqtt_transmit_task

LEMMA RequestInit == Init => RequestInv
BY DEF Init, NetInit, RequestInv, DrainNeverSpins, AnnouncedAmount

(* NET_tx always finds the frame it counted.                               *)
THEOREM RequestIsBuilt == Spec => []DrainNeverSpins
<1>1. RequestInv => DrainNeverSpins
  BY DEF RequestInv
<1> QED BY <1>1, RequestInit, InitType, TypeStep, RequestStep, PTL DEF Spec

(* A request announces at least one frame and never more than it carries.  *)
THEOREM AnnouncesNoMore == Spec => []AnnouncedAmount
<1>1. RequestInv => AnnouncedAmount
  BY DEF RequestInv
<1> QED BY <1>1, RequestInit, InitType, TypeStep, RequestStep, PTL DEF Spec
-----------------------------------------------------------------------------
(***************************************************************************)
(* The two ways in which a direction of traffic stops for good.            *)
(***************************************************************************)
LEMMA UplinkStallStep == TypeOK /\ UplinkStalled /\ [Next]_vars => UplinkStalled'
<1> SUFFICES ASSUME TypeOK, UplinkStalled, [Next]_vars PROVE UplinkStalled'
  OBVIOUS
<1> DEFINE ev == "EV_CAN_RECEIVED"
<1> USE DEF UplinkStalled
<1>1. CASE ControlStep /\ PostStart
  <2>1. ~Queued(ev)'
    BY <1>1, QueuedAfterSend DEF PostStart, Send, ControlEvents
  <2> QED BY <1>1, <2>1 DEF ControlStep, PostStart, canVars, canRxVars, netVars, semaphores
<1>2. CASE ControlStep /\ HandleEvent
  <2>1. Head(controlEvents) # ev /\ ~Queued(ev)'
    BY <1>2, QueuedAfterReceive DEF HandleEvent
  <2>2. UNCHANGED net_tx
    BY <1>2, <2>1 DEF HandleEvent, controlStartState, controlCANRequestState,
       controlNetRequestSendState, controlNetResponseWaitState, Restart, Ignore, semaphores
  <2> QED BY <1>2, <2>1, <2>2 DEF ControlStep, HandleEvent, canVars, canRxVars, netVars
<1>3. CASE OtherStep
  <2>1. ~Queued(ev)'
    <3>1. CASE UNCHANGED controlEvents
      BY <3>1 DEF Queued
    <3>2. CASE \E item \in ControlEvents \ {ev} : controlEvents' = Append(controlEvents, item)
      BY <3>2, QueuedAfterSend
    <3> QED BY <1>3, <3>1, <3>2, OthersPost
  <2>2. UNCHANGED <<canRx, rxCanQueue, net, net_tx>>
    BY <1>3 DEF OtherStep, shared, queues, semaphores, canVars, canRxVars, netVars,
       CanRxStep, can_receive_task, TakeCanRx, CanReceive, AnnounceFrame, QueueFrame, Send,
       CanTxStep, can_transmit_task, TakeCanTx, TakeFrame, CanTransmit, AnnounceTransmit,
       ObdStep, obd_wait_task, TakeObdWait, QueuePending, PostBigTimeout,
       NetStep, mqtt_transmit_task, TakeNetTx, Take, CountFrames, PostTransmitStart,
       BeginRequest, DrainFrame, Recount, Publish, PostTransmitEnd,
       ServerAnswers, MqttReceive, MqttStep, mqtt_receive, SendCommand, PostNetReceived
  <2> QED BY <2>1, <2>2
<1>4. CASE UNCHANGED vars
  BY <1>4 DEF vars, shared, queues, semaphores, canVars, canRxVars, netVars, Queued
<1> QED BY <1>1, <1>2, <1>3, <1>4 DEF Next, ControlStep, control_task, OtherStep

(* Once CAN_rx is held by a full rxCanQueue with no frame announced, no    *)
(* step of any task moves the uplink again.                                *)
THEOREM UplinkStallStays == Spec => UplinkStallIsPermanent
<1>1. TypeOK /\ [Next]_vars => [UplinkStalled => UplinkStalled']_vars
  BY UplinkStallStep
<1> QED BY <1>1, InitType, TypeStep, PTL DEF Spec, UplinkStallIsPermanent

LEMMA StuckAnswerStep == TypeOK /\ AnswerStuck /\ [Next]_vars => AnswerStuck'
<1> SUFFICES ASSUME TypeOK, AnswerStuck, [Next]_vars PROVE AnswerStuck'
  OBVIOUS
<1> DEFINE ev == "EV_NET_RECEIVED"
<1> USE DEF AnswerStuck
<1>1. CASE ControlStep /\ PostStart
  <2>1. ~Queued(ev)'
    BY <1>1, QueuedAfterSend DEF PostStart, Send, ControlEvents
  <2> QED BY <1>1, <2>1 DEF ControlStep, PostStart, canVars, canTxVars, mqttVars, semaphores
<1>2. CASE ControlStep /\ HandleEvent
  <2>1. Head(controlEvents) # ev /\ ~Queued(ev)'
    BY <1>2, QueuedAfterReceive DEF HandleEvent
  <2>2. UNCHANGED can_tx
    BY <1>2, <2>1 DEF HandleEvent, controlStartState, controlCANRequestState,
       controlNetRequestSendState, controlNetResponseWaitState, Restart, Ignore, semaphores
  <2> QED BY <1>2, <2>1, <2>2 DEF ControlStep, HandleEvent, canVars, canTxVars, mqttVars
<1>3. CASE OtherStep
  <2>1. ~Queued(ev)'
    <3>1. CASE UNCHANGED controlEvents
      BY <3>1 DEF Queued
    <3>2. CASE \E item \in ControlEvents \ {ev} : controlEvents' = Append(controlEvents, item)
      BY <3>2, QueuedAfterSend
    <3> QED BY <1>3, <3>1, <3>2, OthersPost
  <2>2. UNCHANGED <<txCanQueue, canTx, can_tx, mq, commands>>
    BY <1>3 DEF OtherStep, shared, queues, semaphores, canVars, canTxVars, mqttVars,
       CanRxStep, can_receive_task, TakeCanRx, CanReceive, AnnounceFrame, QueueFrame, Send,
       CanTxStep, can_transmit_task, TakeCanTx, Take, TakeFrame, CanTransmit, AnnounceTransmit,
       ObdStep, obd_wait_task, TakeObdWait, QueuePending, PostBigTimeout,
       NetStep, mqtt_transmit_task, TakeNetTx, CountFrames, PostTransmitStart,
       BeginRequest, DrainFrame, Recount, Publish, PostTransmitEnd,
       ServerAnswers, MqttReceive, MqttStep, mqtt_receive, SendCommand, PostNetReceived
  <2> QED BY <2>1, <2>2
<1>4. CASE UNCHANGED vars
  BY <1>4 DEF vars, shared, queues, semaphores, canVars, canTxVars, mqttVars, Queued
<1> QED BY <1>1, <1>2, <1>3, <1>4 DEF Next, ControlStep, control_task, OtherStep

(* Once an answer waits for a place in a full txCanQueue that CAN_tx has   *)
(* not begun to empty, it waits for ever.                                  *)
THEOREM StuckAnswerStays == Spec => StuckAnswerIsPermanent
<1>1. TypeOK /\ [Next]_vars => [AnswerStuck => AnswerStuck']_vars
  BY StuckAnswerStep
<1> QED BY <1>1, InitType, TypeStep, PTL DEF Spec, StuckAnswerIsPermanent
-----------------------------------------------------------------------------
(***************************************************************************)
(* Frames cross the gateway, from the driver to the published request,     *)
(* like items through one queue.                                           *)
(***************************************************************************)
UplinkUnchanged == UNCHANGED <<uplink, cntRxCan>>

UplinkAccepts == uplink' = Append(uplink, cntRxCan) /\ cntRxCan' = NextId(cntRxCan)

UplinkReleases == \E n \in 1 .. Len(uplink) :
                     /\ uplink' = SubSeq(uplink, n + 1, Len(uplink))
                     /\ UNCHANGED cntRxCan

LEMMA UplinkType == TypeOK => uplink \in Seq(Ids) /\ batch \o rxCanQueue \in Seq(Ids)
BY ConcatProperties DEF TypeOK, uplink

(* A step hands the channel a new frame, takes a published request from    *)
(* it, or leaves it as it is while the frame moves inside.                 *)
LEMMA UplinkStep ==
    ASSUME TypeOK, RequestInv, [Next]_vars
    PROVE  UplinkUnchanged \/ UplinkAccepts \/ UplinkReleases
<1> USE DEF uplink
<1>1. batch \in Seq(Ids) /\ rxCanQueue \in Seq(Ids) /\ rxHand \in Seq(Ids) /\ cntRxCan \in Ids
  BY DEF TypeOK
<1>2. CASE CanRxStep /\ CanReceive
  <2>1. /\ rxHand = <<>> /\ rxHand' = <<cntRxCan>> /\ cntRxCan' = NextId(cntRxCan)
        /\ UNCHANGED <<batch, rxCanQueue>>
    <3>1. Len(rxHand) = 0
      BY <1>2 DEF CanReceive, TypeOK
    <3> QED BY <1>1, <1>2, <3>1 DEF CanReceive, CanRxStep, netVars, shared, queues
  <2>2. uplink = batch \o rxCanQueue
    BY <2>1, UplinkType, ConcatEmptySeq
  <2>3. uplink' = Append(batch \o rxCanQueue, cntRxCan)
    BY <1>1, <2>1, UplinkType, AppendIsConcat
  <2> QED BY <2>1, <2>2, <2>3 DEF UplinkAccepts
<1>3. CASE CanRxStep /\ QueueFrame
  <2> DEFINE x == Head(rxHand)
  <2>1. /\ rxCanQueue' = Append(rxCanQueue, x) /\ rxHand' = <<>>
        /\ UNCHANGED <<batch, cntRxCan>>
    BY <1>3 DEF QueueFrame, Send, CanRxStep, netVars
  <2>2. x \in Ids /\ rxHand = <<x>> /\ Append(rxCanQueue, x) \in Seq(Ids)
    <3>1. Len(rxHand) = 1
      BY <1>3 DEF QueueFrame, TypeOK
    <3> QED BY <1>1, <3>1, HeldItem, AppendProperties
  <2>3. uplink' = batch \o (rxCanQueue \o rxHand)
    <3>1. batch \o Append(rxCanQueue, x) \in Seq(Ids)
      BY <1>1, <2>2, ConcatProperties
    <3>2. (batch \o Append(rxCanQueue, x)) \o <<>> = batch \o Append(rxCanQueue, x)
      BY <3>1, ConcatEmptySeq
    <3>3. Append(rxCanQueue, x) = rxCanQueue \o rxHand
      BY <1>1, <2>2, AppendIsConcat
    <3> QED BY <2>1, <3>2, <3>3
  <2>4. batch \o (rxCanQueue \o rxHand) = uplink
    <3>1. batch \o (rxCanQueue \o rxHand) = (batch \o rxCanQueue) \o rxHand
      <4> HIDE DEF uplink
      <4> QED BY <1>1, ConcatAssociative
    <3> QED BY <3>1
  <2>5. uplink' = uplink
    <3> HIDE DEF uplink
    <3> QED BY <2>3, <2>4
  <2> QED BY <2>1, <2>5 DEF UplinkUnchanged
<1>4. CASE NetStep /\ DrainFrame
  <2>1. /\ rxCanQueue # <<>> /\ rxCanQueue' = Tail(rxCanQueue)
        /\ batch' = Append(batch, Head(rxCanQueue)) /\ UNCHANGED <<rxHand, cntRxCan>>
    BY <1>4 DEF DrainFrame, Receive, NetStep, canVars, canRxVars, RequestInv, DrainNeverSpins
  <2>2. Append(batch, Head(rxCanQueue)) \o Tail(rxCanQueue) = batch \o rxCanQueue
    BY <1>1, <2>1, MoveItem
  <2> QED BY <2>1, <2>2 DEF UplinkUnchanged
<1>5. CASE NetStep /\ Publish
  <2>1. batch' = <<>> /\ Len(batch) >= 1 /\ UNCHANGED <<rxCanQueue, rxHand, cntRxCan>>
    <3>1. Len(batch) >= 1
      BY <1>1, <1>5, LenProperties DEF Publish, RequestInv, AnnouncedAmount
    <3> QED BY <1>5, <3>1 DEF Publish, NetStep, shared, queues, canVars, canRxVars
  <2>2. rxCanQueue \o rxHand \in Seq(Ids)
    BY <1>1, ConcatProperties
  <2>3. uplink = batch \o (rxCanQueue \o rxHand)
    BY <1>1, ConcatAssociative
  <2>4. uplink' = rxCanQueue \o rxHand
    BY <1>1, <2>1, ConcatEmptySeq
  <2>5. uplink' = SubSeq(uplink, Len(batch) + 1, Len(uplink))
    BY <1>1, <2>2, <2>3, <2>4, DropFirst
  <2>6. Len(batch) \in 1 .. Len(uplink)
    BY <1>1, <2>1, <2>2, <2>3, ConcatProperties, LenProperties
  <2> QED BY <2>1, <2>5, <2>6 DEF UplinkReleases
<1>6. CASE /\ Next /\ ~(CanRxStep /\ CanReceive) /\ ~(CanRxStep /\ QueueFrame)
           /\ ~(NetStep /\ DrainFrame) /\ ~(NetStep /\ Publish)
  <2>1. UNCHANGED <<batch, rxCanQueue, rxHand, cntRxCan>>
    BY <1>6 DEF Next, shared, queues, netVars, canVars, canRxVars,
       ControlStep, control_task, PostStart, HandleEvent,
       CanRxStep, can_receive_task, TakeCanRx, AnnounceFrame,
       CanTxStep, can_transmit_task, TakeCanTx, TakeFrame, CanTransmit, AnnounceTransmit,
       ObdStep, obd_wait_task, TakeObdWait, QueuePending, PostBigTimeout,
       NetStep, mqtt_transmit_task, TakeNetTx, CountFrames, PostTransmitStart, BeginRequest,
       Recount, PostTransmitEnd,
       ServerAnswers, MqttReceive, MqttStep, mqtt_receive, SendCommand, PostNetReceived
  <2> QED BY <2>1 DEF UplinkUnchanged
<1>7. CASE UNCHANGED vars
  BY <1>7 DEF vars, shared, queues, netVars, canVars, canRxVars, UplinkUnchanged
<1> QED BY <1>2, <1>3, <1>4, <1>5, <1>6, <1>7
-----------------------------------------------------------------------------
LEMMA UplinkInit == Init => uplink = <<>>
<1> SUFFICES ASSUME Init PROVE uplink = <<>>
  OBVIOUS
<1>1. <<>> \in Seq(Ids) /\ batch = <<>> /\ rxCanQueue = <<>> /\ rxHand = <<>>
  BY DEF Init, SharedInit, CanInit, NetInit
<1> QED BY <1>1, ConcatEmptySeq DEF uplink

(* The gateway's uplink implements a first-in first-out channel: no frame  *)
(* is lost, repeated or overtaken between can_receive and the request.     *)
THEOREM UplinkImplementsFifo == Spec => UplinkIsFifo
<1>1. Init => Uplink!Init
  BY UplinkInit DEF Uplink!Init
<1>2. TypeOK /\ RequestInv /\ [Next]_vars => [Uplink!Next]_uplink
  <2> SUFFICES ASSUME TypeOK, RequestInv, [Next]_vars PROVE [Uplink!Next]_uplink
    OBVIOUS
  <2>1. CASE UplinkUnchanged
    BY <2>1 DEF UplinkUnchanged
  <2>2. CASE UplinkAccepts
    <3>1. cntRxCan \in Ids /\ uplink' = uplink \o <<cntRxCan>>
      BY <2>2, UplinkType, AppendIsConcat DEF UplinkAccepts, TypeOK
    <3> QED BY <3>1 DEF Uplink!Next, Uplink!Accept
  <2>3. CASE UplinkReleases
    BY <2>3 DEF UplinkReleases, Uplink!Next, Uplink!Release
  <2> QED BY <2>1, <2>2, <2>3, UplinkStep
<1> QED BY <1>1, <1>2, RequestInit, InitType, TypeStep, RequestStep, PTL
    DEF Spec, UplinkIsFifo, Uplink!Spec
-----------------------------------------------------------------------------
LEMMA OrderStep == TypeOK /\ RequestInv /\ UplinkOrder /\ [Next]_vars => UplinkOrder'
<1> SUFFICES ASSUME TypeOK, RequestInv, UplinkOrder, [Next]_vars PROVE UplinkOrder'
  OBVIOUS
<1> DEFINE u == uplink
           n == Len(uplink)
<1>1. u \in Seq(Ids) /\ n \in Nat /\ cntRxCan \in Ids
  BY UplinkType, LenProperties DEF TypeOK
<1>2. /\ \A i \in 1 .. n - 1 : u[i + 1] = NextId(u[i])
      /\ n > 0 => cntRxCan = NextId(u[n])
  BY <1>1 DEF UplinkOrder, Consecutive
<1> HIDE DEF u
<1>3. CASE UplinkUnchanged
  BY <1>3 DEF UplinkUnchanged, UplinkOrder, Consecutive, NextId
<1>4. CASE UplinkAccepts
  <2>1. /\ Len(uplink') = n + 1
        /\ \A i \in 1 .. n : uplink'[i] = u[i]
        /\ uplink'[n + 1] = cntRxCan
    BY <1>1, <1>4, AppendProperties DEF UplinkAccepts, u
  <2>2. \A i \in 1 .. n : uplink'[i + 1] = NextId(uplink'[i])
    <3> SUFFICES ASSUME NEW i \in 1 .. n PROVE uplink'[i + 1] = NextId(uplink'[i])
      OBVIOUS
    <3>1. CASE i = n
      BY <1>1, <1>2, <2>1, <3>1
    <3>2. CASE i # n
      <4>1. i \in 1 .. n - 1 /\ i + 1 \in 1 .. n
        BY <1>1, <3>2
      <4> QED BY <1>2, <2>1, <4>1
    <3> QED BY <3>1, <3>2
  <2>3. cntRxCan' = NextId(uplink'[n + 1])
    BY <1>4, <2>1 DEF UplinkAccepts
  <2>4. NextId(cntRxCan)' = NextId(cntRxCan') /\ Len(uplink') - 1 = n
    BY <1>1, <2>1 DEF NextId
  <2> QED BY <1>1, <2>1, <2>2, <2>3, <2>4 DEF UplinkOrder, Consecutive, NextId
<1>5. CASE UplinkReleases
  <2>1. PICK m \in 1 .. n : uplink' = SubSeq(u, m + 1, n) /\ UNCHANGED cntRxCan
    BY <1>5 DEF UplinkReleases, u
  <2>2. \A i \in m + 1 .. n : u[i] \in Ids
    <3>1. m + 1 .. n \subseteq 1 .. n
      BY <1>1
    <3>2. u \in [1 .. n -> Ids]
      BY <1>1, LenProperties DEF u
    <3> QED BY <3>1, <3>2
  <2>3. /\ Len(uplink') = n - m
        /\ \A i \in 1 .. n - m : uplink'[i] = u[m + i]
    <3>1. m + 1 \in Int /\ n \in Int
      BY <1>1
    <3>2. /\ Len(uplink') = IF m + 1 <= n THEN n - (m + 1) + 1 ELSE 0
          /\ \A i \in 1 .. n - (m + 1) + 1 : uplink'[i] = u[m + 1 + i - 1]
      BY <2>1, <2>2, <3>1, SubSeqProperties
    <3> QED BY <1>1, <3>2
  <2>4. \A i \in 1 .. n - m - 1 : uplink'[i + 1] = NextId(uplink'[i])
    <3> SUFFICES ASSUME NEW i \in 1 .. n - m - 1 PROVE uplink'[i + 1] = NextId(uplink'[i])
      OBVIOUS
    <3>1. /\ i \in 1 .. n - m /\ i + 1 \in 1 .. n - m /\ m + i \in 1 .. n - 1
          /\ m + (i + 1) = (m + i) + 1
      BY <1>1
    <3> QED BY <1>2, <2>3, <3>1
  <2>5. n - m > 0 => cntRxCan' = NextId(uplink'[n - m])
    BY <1>1, <1>2, <2>1, <2>3
  <2>6. uplink' # <<>> => n - m > 0
    BY <1>1, <2>3, <2>1, SubSeqEmpty
  <2> QED BY <1>1, <2>3, <2>4, <2>5, <2>6 DEF UplinkOrder, Consecutive, NextId
<1> QED BY <1>3, <1>4, <1>5, UplinkStep

(* The frames between the driver and the request carry consecutive ids.    *)
THEOREM UplinkKeepsOrder == Spec => []UplinkOrder
<1>1. Init => UplinkOrder
  BY UplinkInit DEF UplinkOrder, Consecutive
<1> QED BY <1>1, RequestInit, InitType, TypeStep, RequestStep, OrderStep, PTL DEF Spec
-----------------------------------------------------------------------------
(***************************************************************************)
(* Commands cross it the other way, from the answers of the server to the  *)
(* driver, with frames of obd_wait_task among them.                        *)
(***************************************************************************)

(* An answer is only taken when nothing is left of the one before.         *)
AnswerInv == mq = "idle" => commands = <<>>

toDriver == txHand \o txCanQueue

DownlinkUnchanged == UNCHANGED downlink

DownlinkAccepts == \E message \in Messages : downlink' = downlink \o message

DownlinkReleases == \E n \in 1 .. Len(downlink) :
                       downlink' = SubSeq(downlink, n + 1, Len(downlink))

LEMMA AnswerStep == AnswerInv /\ [Next]_vars => AnswerInv'
BY DEF AnswerInv, vars, mqttVars, Next, ControlStep, CanRxStep, CanTxStep, ObdStep, NetStep,
       ServerAnswers, MqttReceive, MqttStep, mqtt_receive, SendCommand, PostNetReceived

LEMMA DownlinkType ==
    ASSUME TypeOK
    PROVE  /\ txHand \in Seq(Frames) /\ txCanQueue \in Seq(Frames)
           /\ toDriver \in Seq(Frames) /\ Sifted(toDriver, Commands) \in Seq(Frames)
           /\ commands \in Seq(Frames)
<1>1. txHand \in Seq(Frames) /\ txCanQueue \in Seq(Frames)
  BY DEF TypeOK
<1>2. toDriver \in Seq(Frames)
  BY <1>1, ConcatProperties DEF toDriver
<1>3. commands \in Seq(Frames)
  BY DEF TypeOK, Frames
<1> QED BY <1>1, <1>2, <1>3, SiftedType

(* A frame that is queued is the last of those on their way.               *)
LEMMA QueuedLast ==
    ASSUME NEW S, NEW held \in Seq(S), NEW q \in Seq(S), NEW x \in S
    PROVE  held \o Append(q, x) = Append(held \o q, x)
<1>1. Append(q, x) = q \o <<x>> /\ <<x>> \in Seq(S)
  BY AppendIsConcat
<1>2. held \o q \in Seq(S)
  BY ConcatProperties
<1>3. Append(held \o q, x) = (held \o q) \o <<x>>
  BY <1>2, AppendIsConcat
<1> QED BY <1>1, <1>3, ConcatAssociative

LEMMA TakeDown ==
    ASSUME TypeOK, CanTxStep, TakeFrame
    PROVE  DownlinkUnchanged
<1>1. /\ txCanQueue # <<>> /\ txHand = <<>>
      /\ txCanQueue' = Tail(txCanQueue) /\ txHand' = <<Head(txCanQueue)>>
      /\ UNCHANGED commands
  <2>1. Len(txHand) = 0
    BY DEF TakeFrame, TypeOK
  <2> QED BY <2>1, DownlinkType DEF TakeFrame, Receive, CanTxStep, mqttVars
<1>2. txHand' \o txCanQueue' = txHand \o txCanQueue
  <2>1. <<Head(txCanQueue)>> \o Tail(txCanQueue) = txCanQueue
    BY <1>1, DownlinkType, HeadThenTail
  <2>2. <<>> \o txCanQueue = txCanQueue
    BY DownlinkType, ConcatEmptySeq
  <2> QED BY <1>1, <2>1, <2>2
<1> QED BY <1>1, <1>2 DEF DownlinkUnchanged, downlink

LEMMA TransmitDown ==
    ASSUME TypeOK, CanTxStep, CanTransmit
    PROVE  DownlinkUnchanged \/ DownlinkReleases
<1> DEFINE x == Head(txHand)
           left == Sifted(txCanQueue, Commands) \o commands
<1>1. x \in Frames /\ txHand = <<x>>
  <2>1. Len(txHand) = 1
    BY DEF CanTransmit, TypeOK
  <2> QED BY <2>1, DownlinkType, HeldItem
<1>2. txHand' = <<>> /\ UNCHANGED <<txCanQueue, commands>>
  BY DEF CanTransmit, CanTxStep, shared, queues, mqttVars
<1>3. /\ Sifted(txCanQueue, Commands) \in Seq(Frames) /\ left \in Seq(Frames)
      /\ commands \in Seq(Frames)
  BY DownlinkType, SiftedType, ConcatProperties
<1>4. downlink' = left
  <2>1. <<>> \o txCanQueue = txCanQueue
    BY DownlinkType, ConcatEmptySeq
  <2> QED BY <1>2, <2>1 DEF downlink
<1>5. downlink = (Sifted(txHand, Commands) \o Sifted(txCanQueue, Commands)) \o commands
  <2>1. SiftsApart(txHand, txCanQueue, Commands)
    BY DownlinkType, SiftedConcat
  <2> QED BY <2>1, Zenon DEF SiftsApart, downlink
<1>6. Sifted(txHand, Commands) = IF x \in Commands THEN <<x>> ELSE <<>>
  <2>1. <<>> \in Seq(Frames) /\ Append(<<>>, x) = <<x>>
    OBVIOUS
  <2> HIDE DEF x
  <2>2. Sifted(Append(<<>>, x), Commands)
          = IF x \in Commands THEN Append(Sifted(<<>>, Commands), x) ELSE Sifted(<<>>, Commands)
    BY <1>1, <2>1, SiftedAppend
  <2> QED BY <1>1, <2>1, <2>2, SiftedEmpty
<1> HIDE DEF x
<1>7. CASE x \in Commands
  <2>1. <<x>> \in Seq(Frames) /\ Len(<<x>>) = 1
    BY <1>1
  <2>2. downlink = <<x>> \o left
    BY <1>3, <1>5, <1>6, <1>7, <2>1, ConcatAssociative
  <2> HIDE DEF left
  <2>3. SubSeq(<<x>> \o left, 1 + 1, Len(<<x>> \o left)) = left
    BY <1>3, <2>1, DropFirst
  <2>4. 1 \in 1 .. Len(downlink)
    BY <1>3, <2>1, <2>2, ConcatProperties, LenProperties
  <2>5. downlink' = SubSeq(downlink, 1 + 1, Len(downlink))
    BY <1>4, <2>2, <2>3
  <2> QED BY <2>4, <2>5 DEF DownlinkReleases
<1>8. CASE x \notin Commands
  <2>1. <<>> \o Sifted(txCanQueue, Commands) = Sifted(txCanQueue, Commands)
    BY <1>3, ConcatEmptySeq
  <2>2. downlink = left
    BY <1>5, <1>6, <1>8, <2>1
  <2> QED BY <1>4, <2>2 DEF DownlinkUnchanged
<1> QED BY <1>7, <1>8

LEMMA PendingDown ==
    ASSUME TypeOK, ObdStep, QueuePending
    PROVE  DownlinkUnchanged
<1>1. /\ txCanQueue' = Append(txCanQueue, PendingFrame)
      /\ UNCHANGED <<txHand, commands>>
  BY DEF QueuePending, Send, ObdStep, canVars, canTxVars, mqttVars
<1>2. PendingFrame \in Frames /\ PendingFrame \notin Commands
  BY PendingAssumption DEF Frames
<1>3. toDriver' = Append(toDriver, PendingFrame)
  BY <1>1, <1>2, DownlinkType, QueuedLast DEF toDriver
<1>4. Sifted(toDriver', Commands) = Sifted(toDriver, Commands)
  BY <1>2, <1>3, DownlinkType, SiftedAppend
<1> QED BY <1>1, <1>4 DEF DownlinkUnchanged, downlink, toDriver

LEMMA CommandDown ==
    ASSUME TypeOK, MqttStep, SendCommand
    PROVE  DownlinkUnchanged
<1> DEFINE c == Head(commands)
<1>1. /\ commands # <<>> /\ commands' = Tail(commands)
      /\ txCanQueue' = Append(txCanQueue, c) /\ UNCHANGED txHand
  BY DEF SendCommand, Send, MqttStep, canVars, canTxVars
<1>2. c \in Commands /\ c \in Frames
  BY <1>1, HeadTailProperties DEF TypeOK, Frames
<1>3. toDriver' = Append(toDriver, c)
  BY <1>1, <1>2, DownlinkType, QueuedLast DEF toDriver
<1>4. Sifted(toDriver', Commands) = Append(Sifted(toDriver, Commands), c)
  BY <1>2, <1>3, DownlinkType, SiftedAppend
<1>5. Append(Sifted(toDriver, Commands), c) \o Tail(commands)
        = Sifted(toDriver, Commands) \o commands
  BY <1>1, DownlinkType, MoveItem
<1> QED BY <1>1, <1>4, <1>5 DEF DownlinkUnchanged, downlink, toDriver

LEMMA AnswerDown ==
    ASSUME TypeOK, AnswerInv, ServerAnswers
    PROVE  DownlinkAccepts
<1>1. PICK message \in Messages : commands' = message
  BY DEF ServerAnswers, MqttReceive
<1>2. commands = <<>> /\ UNCHANGED <<txHand, txCanQueue>>
  BY DEF ServerAnswers, MqttReceive, AnswerInv, shared, queues, canVars, canTxVars
<1>3. downlink = Sifted(toDriver, Commands)
  BY <1>2, DownlinkType, ConcatEmptySeq DEF downlink, toDriver
<1>4. downlink' = Sifted(toDriver, Commands) \o message
  BY <1>1, <1>2 DEF downlink, toDriver
<1> QED BY <1>3, <1>4 DEF DownlinkAccepts

LEMMA DownlinkStep ==
    ASSUME TypeOK, AnswerInv, [Next]_vars
    PROVE  DownlinkUnchanged \/ DownlinkAccepts \/ DownlinkReleases
<1>1. CASE \/ (CanTxStep /\ TakeFrame) \/ (CanTxStep /\ CanTransmit)
           \/ (ObdStep /\ QueuePending) \/ (MqttStep /\ SendCommand) \/ ServerAnswers
  BY <1>1, TakeDown, TransmitDown, PendingDown, CommandDown, AnswerDown
<1>2. CASE /\ Next /\ ~(CanTxStep /\ TakeFrame) /\ ~(CanTxStep /\ CanTransmit)
           /\ ~(ObdStep /\ QueuePending) /\ ~(MqttStep /\ SendCommand) /\ ~ServerAnswers
  <2>1. UNCHANGED <<txHand, txCanQueue, commands>>
    BY <1>2 DEF Next, shared, queues, mqttVars, canVars, canTxVars,
       ControlStep, control_task, PostStart, HandleEvent,
       CanRxStep, can_receive_task, TakeCanRx, CanReceive, AnnounceFrame, QueueFrame,
       CanTxStep, can_transmit_task, TakeCanTx, AnnounceTransmit,
       ObdStep, obd_wait_task, TakeObdWait, PostBigTimeout,
       NetStep, mqtt_transmit_task, TakeNetTx, CountFrames, PostTransmitStart, BeginRequest,
       DrainFrame, Recount, Publish, PostTransmitEnd,
       MqttStep, mqtt_receive, PostNetReceived
  <2> QED BY <2>1 DEF DownlinkUnchanged, downlink
<1>3. CASE UNCHANGED vars
  BY <1>3 DEF vars, shared, queues, canVars, canTxVars, mqttVars, DownlinkUnchanged, downlink
<1> QED BY <1>1, <1>2, <1>3

LEMMA DownlinkInit == Init => downlink = <<>> /\ AnswerInv
<1> SUFFICES ASSUME Init PROVE downlink = <<>> /\ AnswerInv
  OBVIOUS
<1>1. /\ txHand = <<>> /\ txCanQueue = <<>> /\ commands = <<>>
      /\ <<>> \in Seq(Frames) /\ <<>> \o <<>> = <<>>
  BY ConcatEmptySeq DEF Init, SharedInit, CanInit, NetInit
<1> QED BY <1>1, SiftedEmpty DEF downlink, AnswerInv

(* The gateway's downlink implements a first-in first-out channel: every   *)
(* command of every answer reaches the driver once and in the order of the *)
(* answers, wherever response-pending frames come between them.            *)
THEOREM DownlinkImplementsFifo == Spec => DownlinkIsFifo
<1>1. Init => Downlink!Init
  BY DownlinkInit DEF Downlink!Init
<1>2. TypeOK /\ AnswerInv /\ [Next]_vars => [Downlink!Next]_downlink
  <2> SUFFICES ASSUME TypeOK, AnswerInv, [Next]_vars PROVE [Downlink!Next]_downlink
    OBVIOUS
  <2>1. CASE DownlinkUnchanged
    BY <2>1 DEF DownlinkUnchanged
  <2>2. CASE DownlinkAccepts
    BY <2>2 DEF DownlinkAccepts, Downlink!Next, Downlink!Accept
  <2>3. CASE DownlinkReleases
    BY <2>3 DEF DownlinkReleases, Downlink!Next, Downlink!Release
  <2> QED BY <2>1, <2>2, <2>3, DownlinkStep
<1> QED BY <1>1, <1>2, DownlinkInit, InitType, TypeStep, AnswerStep, PTL
    DEF Spec, DownlinkIsFifo, Downlink!Spec
-----------------------------------------------------------------------------
(***************************************************************************)
(* The gateway with its delays counted does nothing that the gateway does  *)
(* not: counting leaves out behaviours and adds none, so that what holds   *)
(* of every behaviour of the gateway holds with time too.  And what only   *)
(* time can tell: a session ends when its delays are over, not later, and, *)
(* when its timer is its own, not before.                                  *)
(***************************************************************************)

(* A tick changes nothing of the gateway, every other step is one of its.  *)
LEMMA TimedStep == [TimedNext]_timedVars => [Next]_vars
<1>1. ASSUME TaskStep PROVE Next
  BY <1>1 DEF TaskStep
<1>2. ASSUME Tick PROVE UNCHANGED vars
  BY <1>2 DEF Tick
<1>3. ASSUME UNCHANGED timedVars PROVE UNCHANGED vars
  BY <1>3 DEF timedVars
<1>4. QED
  BY <1>1, <1>2, <1>3 DEF TimedNext

(* obd_wait_task with the delays of obd.c implements the one that may post *)
(* its frame and its timeout at any later moment.                          *)
THEOREM TimedImplementsGateway == TimedSpec => Spec
<1>1. TimedInit => Init
  BY DEF TimedInit
<1>2. QED
  BY <1>1, TimedStep, PTL DEF TimedSpec, Spec

(* With time counted, too, every session has its timeout ahead of it: the  *)
(* delay is running, or its end or its token is on the way.                *)
THEOREM TimedWatchdog == TimedSpec => []WatchdogArmed
BY TimedImplementsGateway, WatchdogIsArmed, PTL
-----------------------------------------------------------------------------
(***************************************************************************)
(* What the steps of the gateway do to a session, its timer and the        *)
(* EV_BIG_TIMEOUT between them.                                            *)
(***************************************************************************)
Timeout == "EV_BIG_TIMEOUT"

(* One EV_BIG_TIMEOUT is queued, and no more.                              *)
OneQueued ==
    \E i \in 1 .. Len(controlEvents) :
        /\ controlEvents[i] = Timeout
        /\ \A j \in 1 .. Len(controlEvents) : controlEvents[j] = Timeout => j = i

LEMMA OneIsQueued == OneQueued => Queued(Timeout)
BY DEF OneQueued, Queued

LEMMA OneAfterSend ==
    ASSUME TypeOK, NEW item \in ControlEvents, controlEvents' = Append(controlEvents, item)
    PROVE  /\ OneQueued /\ item # Timeout => OneQueued'
           /\ ~Queued(Timeout) /\ item = Timeout => OneQueued'
<1> DEFINE q == controlEvents
           n == Len(controlEvents)
<1>1. controlEvents \in Seq(ControlEvents)
  BY DEF TypeOK
<1>2. /\ Len(controlEvents') = n + 1 /\ n \in Nat
      /\ \A i \in 1 .. n : controlEvents'[i] = q[i]
      /\ controlEvents'[n + 1] = item
  BY <1>1, AppendProperties, LenProperties
<1>3. ASSUME OneQueued, item # Timeout PROVE OneQueued'
  <2>1. PICK i \in 1 .. n : q[i] = Timeout /\ \A j \in 1 .. n : q[j] = Timeout => j = i
    BY <1>3 DEF OneQueued
  <2>2. i \in 1 .. n + 1 /\ controlEvents'[i] = Timeout
    BY <1>2, <2>1
  <2>3. \A j \in 1 .. n + 1 : controlEvents'[j] = Timeout => j = i
    BY <1>2, <1>3, <2>1
  <2> QED BY <1>2, <2>2, <2>3 DEF OneQueued
<1>4. ASSUME ~Queued(Timeout), item = Timeout PROVE OneQueued'
  <2>1. \A j \in 1 .. n : q[j] # Timeout
    BY <1>4 DEF Queued
  <2>2. \A j \in 1 .. n + 1 : controlEvents'[j] = Timeout => j = n + 1
    BY <1>2, <2>1
  <2> QED BY <1>2, <1>4, <2>2 DEF OneQueued
<1> QED BY <1>3, <1>4

LEMMA OneAfterReceive ==
    ASSUME TypeOK, Receive(controlEvents), OneQueued
    PROVE  IF Head(controlEvents) = Timeout THEN ~Queued(Timeout)' ELSE OneQueued'
<1> DEFINE q == controlEvents
           n == Len(controlEvents)
<1>1. controlEvents \in Seq(ControlEvents) /\ q # <<>> /\ controlEvents' = Tail(q)
  BY DEF TypeOK, Receive
<1>2. /\ Len(controlEvents') = n - 1 /\ n \in Nat /\ n >= 1
      /\ \A j \in 1 .. n - 1 : controlEvents'[j] = q[j + 1]
      /\ Head(q) = q[1]
  BY <1>1, HeadTailProperties, LenProperties
<1>3. PICK i \in 1 .. n : q[i] = Timeout /\ \A j \in 1 .. n : q[j] = Timeout => j = i
  BY DEF OneQueued
<1>4. CASE i = 1
  <2>1. \A j \in 1 .. n - 1 : controlEvents'[j] # Timeout
    BY <1>2, <1>3, <1>4
  <2> QED BY <1>2, <1>3, <1>4, <2>1 DEF Queued
<1>5. CASE i # 1
  <2>1. i - 1 \in 1 .. n - 1 /\ controlEvents'[i - 1] = Timeout
    BY <1>2, <1>3, <1>5
  <2>2. \A j \in 1 .. n - 1 : controlEvents'[j] = Timeout => j = i - 1
    BY <1>2, <1>3
  <2>3. Head(q) # Timeout
    BY <1>2, <1>3, <1>5
  <2> QED BY <1>2, <2>1, <2>2, <2>3 DEF OneQueued
<1> QED BY <1>4, <1>5
-----------------------------------------------------------------------------
(***************************************************************************)
(* No session outlives its delays.                                         *)
(***************************************************************************)

(* A delay never has more left than it had at first, and obd_wait_task     *)
(* waits for its semaphore without one.                                    *)
TimerInv ==
    /\ timer \in Nat /\ age \in Nat /\ jammed \in BOOLEAN /\ inPhase \in BOOLEAN
    /\ obd = "sem" => timer = 0
    /\ obd = "pending" => timer <= RESPONSE_DELAY
    /\ obd = "timeout" => timer <= BIG_RESPONSE_DELAY

(* What a session that no queue has held up has behind it and its timer    *)
(* before it are together no more than the two delays.                     *)
DueInv ==
    Busy /\ ~jammed =>
        \/ Queued(Timeout) /\ age <= FullTime
        \/ obd = "timeout" /\ age + timer <= FullTime
        \/ obd = "pending" /\ age + timer <= RESPONSE_DELAY
        \/ obd = "sem" /\ obd_tx_wait /\ age = 0

(* In phase, the one thing on its way to end the session was begun by it,  *)
(* and between two sessions there is none.                                 *)
PhaseInv ==
    inPhase =>
        IF Busy
        THEN \/ obd = "sem" /\ obd_tx_wait /\ ~Queued(Timeout)
             \/ obd = "pending" /\ ~obd_tx_wait /\ ~Queued(Timeout) /\ age + timer >= RESPONSE_DELAY
             \/ obd = "timeout" /\ ~obd_tx_wait /\ ~Queued(Timeout) /\ age + timer >= FullTime
             \/ obd = "sem" /\ ~obd_tx_wait /\ OneQueued /\ age >= FullTime
        ELSE TimerAtRest
-----------------------------------------------------------------------------
(***************************************************************************)
(* What a step of the controller, or of a task that times nothing, is to a *)
(* session.                                                                *)
(***************************************************************************)
TimerStays == UNCHANGED <<obd, obd_tx_wait, timer>>

(* No session is in progress, and none begins.                             *)
Idles == /\ ~Busy /\ ~Busy'
         /\ TimerStays /\ UNCHANGED inPhase
         /\ Queued(Timeout)' => Queued(Timeout)

(* A frame has come: obd_wait_task is told, whatever it is at.             *)
Begins == /\ ~Busy /\ Busy'
          /\ UNCHANGED <<obd, timer>> /\ obd_tx_wait'
          /\ age' = 0 /\ inPhase' = (inPhase \/ TimerAtRest)
          /\ Queued(Timeout)' <=> Queued(Timeout)

GoesOn == /\ Busy /\ Busy'
          /\ TimerStays /\ UNCHANGED session
          /\ Queued(Timeout)' <=> Queued(Timeout)
          /\ OneQueued => OneQueued'

(* It ends with its timeout, or without it once it has been answered.      *)
Ends == /\ Busy /\ ~Busy'
        /\ TimerStays
        /\ \/ ~inPhase' /\ cs' # "CONTROL_START"
           \/ Queued(Timeout) /\ UNCHANGED inPhase /\ (OneQueued => ~Queued(Timeout)')

LEMMA PassStep ==
    ASSUME TypeOK, jammed \in BOOLEAN, UNCHANGED <<cs, obd, obd_tx_wait>>, StartDelay, Observe,
           \/ UNCHANGED controlEvents
           \/ \E ev \in ControlEvents \ {Timeout} : controlEvents' = Append(controlEvents, ev)
    PROVE  Idles \/ GoesOn
<1>1. /\ Queued(Timeout)' <=> Queued(Timeout)
      /\ OneQueued => OneQueued'
  <2>1. CASE UNCHANGED controlEvents
    BY <2>1 DEF Queued, OneQueued
  <2>2. CASE \E ev \in ControlEvents \ {Timeout} : controlEvents' = Append(controlEvents, ev)
    BY <2>2, QueuedAfterSend, OneAfterSend
  <2> QED BY <2>1, <2>2
<1>2. Busy' <=> Busy
  BY DEF Busy
<1>3. UNCHANGED timer
  BY DEF StartDelay
<1>4. UNCHANGED inPhase /\ (Busy => UNCHANGED <<age, jammed>>)
  BY <1>2 DEF Observe, Busy
<1> QED BY <1>1, <1>2, <1>3, <1>4 DEF Idles, GoesOn, TimerStays, session

LEMMA HandleStep ==
    ASSUME TypeOK, jammed \in BOOLEAN, ControlStep, HandleEvent, StartDelay, Observe
    PROVE  Idles \/ Begins \/ GoesOn \/ Ends
<1> DEFINE ev == Head(controlEvents)
<1>1. Receive(controlEvents) /\ UNCHANGED obd
  BY DEF HandleEvent, ControlStep
<1>2. /\ ev # Timeout => (Queued(Timeout)' <=> Queued(Timeout)) /\ (OneQueued => OneQueued')
      /\ ev = Timeout => Queued(Timeout) /\ (OneQueued => ~Queued(Timeout)')
      /\ Queued(Timeout)' => Queued(Timeout)
  BY <1>1, QueuedAfterReceive, OneAfterReceive
<1>3. UNCHANGED timer
  BY <1>1 DEF StartDelay
<1>4. CASE cs = "CONTROL_START"
  <2>1. UNCHANGED obd_tx_wait /\ cs' \in {"CONTROL_START", "CONTROL_CAN_REQUEST_WAIT"}
    BY <1>4 DEF HandleEvent, controlStartState, changeState, Ignore, semaphores
  <2> QED BY <1>1, <1>2, <1>3, <1>4, <2>1 DEF Idles, TimerStays, Observe, Busy
<1>5. CASE cs = "CONTROL_CAN_REQUEST_WAIT" /\ ev # "EV_CAN_RECEIVED"
  <2>1. UNCHANGED <<cs, obd_tx_wait>>
    BY <1>5 DEF HandleEvent, controlCANRequestState, Ignore, semaphores
  <2> QED BY <1>1, <1>2, <1>3, <1>5, <2>1 DEF Idles, TimerStays, Observe, Busy
<1>6. CASE cs = "CONTROL_CAN_REQUEST_WAIT" /\ ev = "EV_CAN_RECEIVED"
  <2>1. obd_tx_wait' = TRUE /\ cs' = "CONTROL_SEND_REQUEST"
    BY <1>6 DEF HandleEvent, controlCANRequestState, changeState, Give
  <2> QED BY <1>1, <1>2, <1>3, <1>6, <2>1 DEF Begins, Observe, Busy, Timeout
<1>7. CASE cs = "CONTROL_SEND_REQUEST" \/ cs = "CONTROL_WAIT_RESPONSE"
  <2>1. UNCHANGED obd_tx_wait
    BY <1>7 DEF HandleEvent, controlNetRequestSendState, controlNetResponseWaitState, Restart,
       Ignore, semaphores
  <2>2. CASE ev = Timeout
    <3>1. cs' = "CONTROL_START"
      BY <1>7, <2>2 DEF HandleEvent, controlNetRequestSendState, controlNetResponseWaitState,
         Restart, changeState, Timeout
    <3> QED BY <1>1, <1>2, <1>3, <1>7, <2>1, <2>2, <3>1 DEF Ends, TimerStays, Observe, Busy
  <2>3. CASE ev # Timeout
    <3>1. cs' \in {"CONTROL_SEND_REQUEST", "CONTROL_WAIT_RESPONSE", "CONTROL_RESPONSE_TRANSMITTED"}
      BY <1>7, <2>3 DEF HandleEvent, controlNetRequestSendState, controlNetResponseWaitState,
         Ignore, changeState, Timeout
    <3> QED BY <1>1, <1>2, <1>3, <1>7, <2>1, <2>3, <3>1
            DEF GoesOn, TimerStays, Observe, Busy, session
  <2> QED BY <2>2, <2>3
<1>8. CASE cs = "CONTROL_RESPONSE_TRANSMITTED"
  <2>1. UNCHANGED obd_tx_wait /\ cs' = "CONTROL_CAN_REQUEST_WAIT"
    BY <1>8 DEF HandleEvent, Restart, changeState, semaphores
  <2> QED BY <1>1, <1>3, <1>8, <2>1 DEF Ends, TimerStays, Observe, Busy
<1> QED BY <1>4, <1>5, <1>6, <1>7, <1>8 DEF HandleEvent

LEMMA SessionStep ==
    ASSUME TypeOK, jammed \in BOOLEAN, TaskStep, Observe
    PROVE  Idles \/ Begins \/ GoesOn \/ Ends \/ ObdStep
<1>1. CASE ControlStep /\ PostStart
  <2>1. UNCHANGED <<cs, obd, obd_tx_wait>>
    BY <1>1 DEF ControlStep, PostStart, semaphores
  <2>2. \E ev \in ControlEvents \ {Timeout} : controlEvents' = Append(controlEvents, ev)
    BY <1>1 DEF PostStart, Send, ControlEvents, Timeout
  <2> QED BY <2>1, <2>2, PassStep DEF TaskStep
<1>2. CASE ControlStep /\ HandleEvent
  BY <1>2, HandleStep DEF TaskStep
<1>3. CASE OtherStep /\ ~ObdStep
  <2>1. UNCHANGED <<obd, obd_tx_wait>>
    BY <1>3 DEF OtherStep, shared, semaphores,
       CanRxStep, can_receive_task, TakeCanRx, CanReceive, AnnounceFrame, QueueFrame,
       CanTxStep, can_transmit_task, TakeCanTx, TakeFrame, CanTransmit, AnnounceTransmit,
       NetStep, mqtt_transmit_task, TakeNetTx, CountFrames, PostTransmitStart, BeginRequest,
       DrainFrame, Recount, Publish, PostTransmitEnd,
       ServerAnswers, MqttReceive, MqttStep, mqtt_receive, SendCommand, PostNetReceived
  <2>2. \/ UNCHANGED controlEvents
        \/ \E ev \in ControlEvents \ {Timeout} : controlEvents' = Append(controlEvents, ev)
    BY <1>3 DEF OtherStep, shared, queues, Send, ControlEvents, Timeout,
       CanRxStep, can_receive_task, TakeCanRx, CanReceive, AnnounceFrame, QueueFrame,
       CanTxStep, can_transmit_task, TakeCanTx, TakeFrame, CanTransmit, AnnounceTransmit,
       NetStep, mqtt_transmit_task, TakeNetTx, CountFrames, PostTransmitStart, BeginRequest,
       DrainFrame, Recount, Publish, PostTransmitEnd,
       ServerAnswers, MqttReceive, MqttStep, mqtt_receive, SendCommand, PostNetReceived
  <2> QED BY <1>3, <2>1, <2>2, OthersPost, PassStep DEF TaskStep
<1> QED BY <1>1, <1>2, <1>3 DEF TaskStep, Next, ControlStep, control_task, OtherStep
-----------------------------------------------------------------------------
LEMMA FullTimeNat == /\ RESPONSE_DELAY \in Nat /\ BIG_RESPONSE_DELAY \in Nat /\ FullTime \in Nat
                     /\ FullTime = RESPONSE_DELAY + BIG_RESPONSE_DELAY
BY DelayAssumption DEF FullTime

(* Each of the three waits of obd_wait_task ends in the next.              *)
LEMMA ObdTimes ==
    ASSUME TypeOK, jammed \in BOOLEAN, TaskStep, Observe, ObdStep
    PROVE  /\ UNCHANGED cs /\ (Busy' <=> Busy)
           /\ Busy => UNCHANGED session
           /\ ~Busy => age' = 0 /\ UNCHANGED inPhase
           /\ timer = 0
           /\ \/ /\ obd = "sem" /\ obd' = "pending" /\ obd_tx_wait /\ ~obd_tx_wait'
                 /\ timer' = RESPONSE_DELAY
                 /\ UNCHANGED controlEvents
              \/ /\ obd = "pending" /\ obd' = "timeout" /\ UNCHANGED obd_tx_wait
                 /\ timer' = BIG_RESPONSE_DELAY
                 /\ UNCHANGED controlEvents
              \/ /\ obd = "timeout" /\ obd' = "sem" /\ UNCHANGED obd_tx_wait
                 /\ timer' = timer
                 /\ controlEvents' = Append(controlEvents, Timeout)
<1>1. UNCHANGED cs /\ (Busy' <=> Busy)
  BY DEF ObdStep, controlVars, Busy
<1>2. (Busy => UNCHANGED session) /\ (~Busy => age' = 0 /\ UNCHANGED inPhase)
  BY <1>1 DEF Observe, session, Busy
<1>3. CASE TakeObdWait
  BY <1>1, <1>2, <1>3 DEF TakeObdWait, Take, queues, TaskStep, StartDelay
<1>4. CASE QueuePending
  BY <1>1, <1>2, <1>4 DEF QueuePending, semaphores, TaskStep, StartDelay
<1>5. CASE PostBigTimeout
  BY <1>1, <1>2, <1>5 DEF PostBigTimeout, Send, semaphores, TaskStep, StartDelay, Timeout
<1> QED BY <1>3, <1>4, <1>5 DEF ObdStep, obd_wait_task

LEMMA TimerStep == TypeOK /\ TimerInv /\ [TimedNext]_timedVars => TimerInv'
<1> SUFFICES ASSUME TypeOK, TimerInv, [TimedNext]_timedVars PROVE TimerInv'
  OBVIOUS
<1>1. CASE TaskStep /\ Observe
  <2>1. age' \in Nat /\ jammed' \in BOOLEAN /\ inPhase' \in BOOLEAN
    BY <1>1 DEF Observe, TimerInv, TimerAtRest, TypeOK
  <2>2. CASE Idles \/ Begins \/ GoesOn \/ Ends
    BY <2>1, <2>2 DEF Idles, Begins, GoesOn, Ends, TimerStays, TimerInv
  <2>3. CASE ObdStep
    BY <1>1, <2>1, <2>3, ObdTimes, FullTimeNat DEF TimerInv
  <2> QED BY <1>1, <2>2, <2>3, SessionStep DEF TimerInv
<1>2. CASE Tick
  <2>1. UNCHANGED <<obd, inPhase>>
    BY <1>2 DEF Tick, vars
  <2>2. timer' \in Nat /\ timer' <= timer
    BY <1>2 DEF Tick, TimerInv
  <2>3. age' \in Nat
    BY <1>2 DEF Tick, TimerInv
  <2>4. jammed' \in BOOLEAN
    <3>1. jammed' = jammed \/ jammed' = (jammed \/ ControlJam \/ DownlinkJam)
      BY <1>2 DEF Tick
    <3> QED BY <3>1 DEF TimerInv
  <2> QED BY <2>1, <2>2, <2>3, <2>4, FullTimeNat DEF TimerInv
<1>3. CASE UNCHANGED timedVars
  BY <1>3 DEF timedVars, vars, session, TimerInv
<1> QED BY <1>1, <1>2, <1>3 DEF TimedNext

(* What a tick finds that no queue is jammed at.                           *)
LEMMA CleanTick ==
    ASSUME TypeOK, Tick, Busy, ~jammed'
    PROVE  /\ ~jammed /\ ~Queued(Timeout)
           /\ timer > 0 \/ (obd = "sem" /\ ~obd_tx_wait)
           /\ age' = IF age <= FullTime THEN age + 1 ELSE age
           /\ timer' = IF timer > 0 THEN timer - 1 ELSE 0
<1>1. ~jammed /\ ~ControlJam /\ ~DownlinkJam
  BY DEF Tick
<1>2. controlEvents = <<>>
  <2>1. ctl # "recv" => ctl = "post"
    BY DEF TypeOK
  <2> QED BY <1>1, <2>1 DEF Tick, ControlWaits, ControlJam
<1>3. ~Queued(Timeout)
  BY <1>2 DEF Queued
<1>4. timer > 0 \/ (obd = "sem" /\ ~obd_tx_wait)
  <2>1. Len(controlEvents) # ControlCap /\ (txCanQueue = <<>> => Len(txCanQueue) # TxCap)
    BY <1>2, CapAssumption
  <2> QED BY <1>1, <2>1 DEF Tick, ObdWaits, CanTxWaits, DownlinkJam
<1> QED BY <1>1, <1>3, <1>4 DEF Tick

LEMMA DueStep == TypeOK /\ TimerInv /\ DueInv /\ [TimedNext]_timedVars => DueInv'
<1> SUFFICES ASSUME TypeOK, TimerInv, DueInv, [TimedNext]_timedVars PROVE DueInv'
  OBVIOUS
<1>1. CASE TaskStep /\ Observe
  <2>1. CASE Idles \/ Ends
    BY <2>1 DEF Idles, Ends, DueInv
  <2>2. CASE Begins
    <3>1. obd \in {"sem", "pending", "timeout"}
      BY DEF TypeOK
    <3> QED BY <2>2, <3>1, FullTimeNat DEF Begins, DueInv, TimerInv
  <2>3. CASE GoesOn
    BY <2>3 DEF GoesOn, TimerStays, session, DueInv
  <2>4. CASE ObdStep
    <3>1. Queued(Timeout) => Queued(Timeout)'
      BY <2>4, OthersKeepQueued DEF OtherStep
    <3>2. controlEvents' = Append(controlEvents, Timeout) => Queued(Timeout)'
      BY QueuedAfterSend DEF Timeout, ControlEvents
    <3> QED BY <1>1, <2>4, <3>1, <3>2, ObdTimes, FullTimeNat DEF DueInv, TimerInv, session
  <2> QED BY <1>1, <2>1, <2>2, <2>3, <2>4, SessionStep DEF TimerInv
<1>2. CASE Tick
  <2>1. UNCHANGED <<cs, obd, obd_tx_wait, controlEvents>>
    BY <1>2 DEF Tick, vars, shared, queues, semaphores, controlVars
  <2>2. SUFFICES ASSUME Busy, ~jammed' PROVE DueInv'
    BY <2>1 DEF DueInv, Busy
  <2>3. /\ ~jammed /\ ~Queued(Timeout) /\ timer > 0
        /\ age' = IF age <= FullTime THEN age + 1 ELSE age
        /\ timer' = timer - 1
    BY <1>2, <2>2, CleanTick DEF DueInv, Timeout
  <2> QED BY <2>1, <2>2, <2>3, FullTimeNat DEF DueInv, TimerInv
<1>3. CASE UNCHANGED timedVars
  BY <1>3 DEF timedVars, vars, shared, queues, semaphores, controlVars, session, DueInv, Busy, Queued
<1> QED BY <1>1, <1>2, <1>3 DEF TimedNext

LEMMA PhaseStep == TypeOK /\ TimerInv /\ PhaseInv /\ [TimedNext]_timedVars => PhaseInv'
<1> SUFFICES ASSUME TypeOK, TimerInv, PhaseInv, [TimedNext]_timedVars PROVE PhaseInv'
  OBVIOUS
<1>1. CASE TaskStep /\ Observe
  <2>1. CASE Idles
    BY <2>1 DEF Idles, TimerStays, PhaseInv, TimerAtRest, Timeout
  <2>2. CASE Begins
    BY <2>2 DEF Begins, PhaseInv, TimerAtRest, Timeout
  <2>3. CASE GoesOn
    BY <2>3 DEF GoesOn, TimerStays, session, PhaseInv
  <2>4. CASE Ends
    BY <2>4, OneIsQueued DEF Ends, TimerStays, PhaseInv, TimerAtRest, Timeout
  <2>5. CASE ObdStep
    <3>1. UNCHANGED controlEvents => (Queued(Timeout)' <=> Queued(Timeout)) /\ (OneQueued' <=> OneQueued)
      BY DEF Queued, OneQueued
    <3>2. controlEvents' = Append(controlEvents, Timeout) /\ ~Queued(Timeout) => OneQueued'
      BY OneAfterSend DEF Timeout, ControlEvents
    <3>3. CASE ~Busy
      BY <1>1, <2>5, <3>1, <3>3, ObdTimes DEF PhaseInv, TimerInv, TimerAtRest, Timeout
    <3>4. CASE Busy
      <4>1. Busy' /\ UNCHANGED <<age, inPhase>> /\ timer = 0
        BY <1>1, <2>5, <3>4, ObdTimes DEF TimerInv, session
      <4>2. obd = "pending" \/ obd = "timeout" \/ (obd = "sem" /\ obd_tx_wait)
        BY <1>1, <2>5, ObdTimes DEF TimerInv
      <4> QED BY <1>1, <2>5, <3>1, <3>2, <3>4, <4>1, <4>2, ObdTimes, FullTimeNat DEF PhaseInv, TimerInv
    <3> QED BY <3>3, <3>4
  <2> QED BY <1>1, <2>1, <2>2, <2>3, <2>4, <2>5, SessionStep DEF TimerInv
<1>2. CASE Tick
  <2>1. /\ UNCHANGED <<cs, obd, obd_tx_wait, controlEvents, inPhase>>
        /\ (Queued(Timeout)' <=> Queued(Timeout)) /\ (OneQueued' <=> OneQueued)
    BY <1>2 DEF Tick, vars, shared, queues, semaphores, controlVars, Queued, OneQueued
  <2>2. CASE ~Busy
    BY <2>1, <2>2 DEF PhaseInv, TimerAtRest, Busy, Timeout
  <2>3. CASE Busy
    <3>1. /\ age' = IF age <= FullTime THEN age + 1 ELSE age
          /\ timer' = IF timer > 0 THEN timer - 1 ELSE 0
      BY <1>2, <2>3 DEF Tick
    <3> QED BY <2>1, <2>3, <3>1, FullTimeNat DEF PhaseInv, TimerInv, Busy
  <2> QED BY <2>2, <2>3
<1>3. CASE UNCHANGED timedVars
  BY <1>3 DEF timedVars, vars, shared, queues, semaphores, controlVars, session, PhaseInv,
     TimerAtRest, Busy, Queued, OneQueued
<1> QED BY <1>1, <1>2, <1>3 DEF TimedNext
-----------------------------------------------------------------------------
LEMMA TimedInitInv == TimedInit => TypeOK /\ TimerInv /\ DueInv /\ PhaseInv
<1> SUFFICES ASSUME TimedInit PROVE TypeOK /\ TimerInv /\ DueInv /\ PhaseInv
  OBVIOUS
<1>1. TypeOK
  BY InitType DEF TimedInit
<1>2. obd = "sem" /\ cs = "CONTROL_START"
  BY DEF TimedInit, Init, ObdInit, ControlInit
<1> QED BY <1>1, <1>2 DEF TimedInit, TimerInv, DueInv, PhaseInv, Busy

LEMMA TypeTimedStep == TypeOK /\ [TimedNext]_timedVars => TypeOK'
BY TypeStep, TimedStep

LEMMA DueEnds == TimerInv /\ DueInv => EndsInTime
BY FullTimeNat DEF TimerInv, DueInv, EndsInTime

(* Unless a queue is jammed, a session is over when the two delays are:    *)
(* whatever timer of an earlier session is still running, and wherever     *)
(* its token is, one of them ends this one.                                *)
THEOREM SessionsEndInTime == TimedSpec => []EndsInTime
BY TimedInitInv, TypeTimedStep, TimerStep, DueStep, DueEnds, PTL DEF TimedSpec

LEMMA DueTimeout ==
    ASSUME TypeOK, TimerInv, PhaseInv, TimedNext, Busy, cs' = "CONTROL_START", inPhase
    PROVE  age >= FullTime
<1>1. CASE TaskStep /\ Observe
  <2>1. ~Busy'
    BY DEF Busy
  <2>2. ~ObdStep
    BY <1>1, <2>1, ObdTimes DEF TimerInv
  <2>3. Ends
    BY <1>1, <2>1, <2>2, SessionStep DEF Idles, Begins, GoesOn, TimerInv
  <2>4. Queued(Timeout)
    BY <1>1, <2>3 DEF Ends, Observe
  <2> QED BY <2>4 DEF PhaseInv
<1>2. CASE Tick
  BY <1>2 DEF Tick, vars, controlVars, Busy
<1> QED BY <1>1, <1>2 DEF TimedNext

(* A session in phase with its timer is never cut short: the timeout that  *)
(* ends it was begun by it, and comes when both delays have passed.        *)
THEOREM TimeoutsAreDue == TimedSpec => TimeoutIsDue
<1>1. TypeOK /\ TimerInv /\ PhaseInv /\ [TimedNext]_timedVars
        => [Busy /\ cs' = "CONTROL_START" /\ inPhase => age >= FullTime]_timedVars
  BY DueTimeout
<1> QED BY <1>1, TimedInitInv, TypeTimedStep, TimerStep, PhaseStep, PTL DEF TimedSpec, TimeoutIsDue
=============================================================================
