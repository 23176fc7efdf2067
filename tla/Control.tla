------------------------------ MODULE Control -------------------------------
(***************************************************************************)
(* control.c: the session controller.  It is the only reader of            *)
(* controlEvents, and it also posts to it: EV_START, to itself, with       *)
(* portMAX_DELAY.  ctl says which of the two calls the task is in.         *)
(***************************************************************************)
EXTENDS GatewayState

VARIABLES cs,   \* the global of the same name
          ctl   \* "recv": in xQueueReceive; "post": in xQueueSend(EV_START)

controlVars == <<cs, ctl>>

(* CONTROL_STOP and CONTROL_RESPONSE_TIMEOUT are never entered.            *)
ControlState == {"CONTROL_START", "CONTROL_CAN_REQUEST_WAIT",
                 "CONTROL_SEND_REQUEST", "CONTROL_WAIT_RESPONSE",
                 "CONTROL_RESPONSE_TRANSMITTED"}

ControlInit == cs = "CONTROL_START" /\ ctl = "post"

(* xQueueSend(controlEvents, &cs2, portMAX_DELAY) with cs2 = EV_START, on  *)
(* start-up and after each return to the beginning of a session.           *)
PostStart == /\ ctl = "post"
             /\ Send(controlEvents, ControlCap, "EV_START")
             /\ ctl' = "recv"
             /\ UNCHANGED <<cs, rxCanQueue, txCanQueue, semaphores>>

changeState(newState) == cs' = newState

(* What a handler does with every event it has no case for.                *)
Ignore == UNCHANGED <<cs, ctl, semaphores>>

(* Mutant of Restart: the EV_START that follows is forgotten.              *)
RestartUnposted(newState) == /\ changeState(newState)
                             /\ UNCHANGED <<ctl, semaphores>>

(* Mutant of Restart: the timer is started again, as the call commented    *)
(* out beside EV_BIG_TIMEOUT would do.                                     *)
RestartWaitsAgain(newState) == /\ changeState(newState)
                               /\ ctl' = "post"
                               /\ Give(obd_tx_wait)
                               /\ UNCHANGED <<can_rx, can_tx, net_rx, net_tx>>

(* A handler that goes back to a state and then posts EV_START.            *)
Restart(newState) == /\ changeState(newState)
                     /\ ctl' = "post"
                     /\ UNCHANGED semaphores

controlStartState(ev) ==
    IF ev = "EV_START"
    THEN /\ Give(can_rx)
         /\ changeState("CONTROL_CAN_REQUEST_WAIT")
         /\ UNCHANGED <<ctl, can_tx, net_rx, net_tx, obd_tx_wait>>
    ELSE Ignore

(* Mutant of controlCANRequestState: obd_wait_task is not told.            *)
CANRequestUntimed(ev) ==
    IF ev = "EV_CAN_RECEIVED"
    THEN /\ Give(net_tx)
         /\ changeState("CONTROL_SEND_REQUEST")
         /\ UNCHANGED <<ctl, can_rx, can_tx, net_rx, obd_tx_wait>>
    ELSE Ignore

controlCANRequestState(ev) ==
    IF ev = "EV_CAN_RECEIVED"
    THEN /\ Give(net_tx) /\ Give(obd_tx_wait)
         /\ changeState("CONTROL_SEND_REQUEST")
         /\ UNCHANGED <<ctl, can_rx, can_tx, net_rx>>
    ELSE Ignore

(* Mutant of controlNetRequestSendState: the timeout asks for the request  *)
(* again before it restarts the session.                                   *)
NetRequestRetried(ev) ==
    CASE ev = "EV_NET_TRANSMIT_END" ->
           /\ Give(net_rx)
           /\ changeState("CONTROL_WAIT_RESPONSE")
           /\ UNCHANGED <<ctl, can_rx, can_tx, net_tx, obd_tx_wait>>
      [] ev = "EV_BIG_TIMEOUT" ->
           /\ Give(net_tx)
           /\ changeState("CONTROL_START")
           /\ ctl' = "post"
           /\ UNCHANGED <<can_rx, can_tx, net_rx, obd_tx_wait>>
      [] OTHER -> Ignore

controlNetRequestSendState(ev) ==
    CASE ev = "EV_NET_TRANSMIT_END" ->
           /\ Give(net_rx)
           /\ changeState("CONTROL_WAIT_RESPONSE")
           /\ UNCHANGED <<ctl, can_rx, can_tx, net_tx, obd_tx_wait>>
      [] ev = "EV_BIG_TIMEOUT" -> Restart("CONTROL_START")
      [] OTHER -> Ignore

controlNetResponseWaitState(ev) ==
    CASE ev = "EV_NET_RECEIVED" ->
           /\ Give(can_tx)
           /\ changeState("CONTROL_RESPONSE_TRANSMITTED")
           /\ UNCHANGED <<ctl, can_rx, net_rx, net_tx, obd_tx_wait>>
      [] ev = "EV_BIG_TIMEOUT" -> Restart("CONTROL_START")
      [] OTHER -> Ignore

(* One turn of the loop.  In CONTROL_RESPONSE_TRANSMITTED the event is not *)
(* looked at: whichever comes next ends the session.                       *)
HandleEvent ==
    /\ ctl = "recv"
    /\ Receive(controlEvents)
    /\ LET ev == Head(controlEvents) IN
       \/ cs = "CONTROL_START" /\ controlStartState(ev)
       \/ cs = "CONTROL_CAN_REQUEST_WAIT" /\ controlCANRequestState(ev)
       \/ cs = "CONTROL_SEND_REQUEST" /\ controlNetRequestSendState(ev)
       \/ cs = "CONTROL_WAIT_RESPONSE" /\ controlNetResponseWaitState(ev)
       \/ cs = "CONTROL_RESPONSE_TRANSMITTED" /\ Restart("CONTROL_CAN_REQUEST_WAIT")
    /\ UNCHANGED <<rxCanQueue, txCanQueue>>

control_task == PostStart \/ HandleEvent
=============================================================================
