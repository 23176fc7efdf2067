---------------------------- MODULE GatewayState ----------------------------
(***************************************************************************)
(* What the tasks of the gateway share (main.c): three bounded FreeRTOS    *)
(* queues and five binary semaphores, and the kernel calls on them.        *)
(*                                                                         *)
(* Every kernel call of the application waits with portMAX_DELAY, so a     *)
(* call that cannot complete is an action that is not enabled.  The one    *)
(* exception, the polling xQueueReceive(..., 0) of requests.c, is written  *)
(* out where it occurs (NetTasks).                                         *)
(***************************************************************************)
EXTENDS Integers, Sequences

CONSTANTS ControlCap,   \* length of controlEvents (CONTROL_QUEUE_MAX = 10)
          RxCap,        \* length of rxCanQueue    (CAN_RX_BUFFER = 10)
          TxCap         \* length of txCanQueue    (CAN_TX_BUFFER = 10)

ASSUME CapAssumption == /\ ControlCap \in Nat \ {0}
                        /\ RxCap \in Nat \ {0}
                        /\ TxCap \in Nat \ {0}

VARIABLES controlEvents, rxCanQueue, txCanQueue,
          can_rx, can_tx, net_rx, net_tx, obd_tx_wait

queues     == <<controlEvents, rxCanQueue, txCanQueue>>
semaphores == <<can_rx, can_tx, net_rx, net_tx, obd_tx_wait>>
shared     == <<queues, semaphores>>

(* The members of enum ControlEvents that some task posts. EV_STOP and     *)
(* EV_NET_TRANSMIT_TIMEOUT are declared and never posted.                  *)
ControlEvents == {"EV_START", "EV_CAN_RECEIVED", "EV_CAN_TRANSMITTED",
                  "EV_NET_TRANSMIT_START", "EV_NET_TRANSMIT_END",
                  "EV_NET_RECEIVED", "EV_BIG_TIMEOUT"}

(* xQueueSend and xQueueReceive with portMAX_DELAY.                        *)
Send(queue, cap, item) == /\ Len(queue) < cap
                          /\ queue' = Append(queue, item)

Receive(queue) == /\ queue # <<>>
                  /\ queue' = Tail(queue)

(* xSemaphoreTake with portMAX_DELAY; xSemaphoreGive, which on a binary    *)
(* semaphore that is already full fails and changes nothing.               *)
Take(sem) == /\ sem
             /\ sem' = FALSE

Give(sem) == sem' = TRUE

(* The event is somewhere in the controller's queue.                       *)
Queued(ev) == \E i \in 1 .. Len(controlEvents) : controlEvents[i] = ev

(* app_main creates every queue and semaphore empty.  controlEvents is     *)
(* created by control_task itself: see Boot for what precedes that.        *)
SharedInit == /\ controlEvents = <<>> /\ rxCanQueue = <<>> /\ txCanQueue = <<>>
              /\ can_rx = FALSE /\ can_tx = FALSE
              /\ net_rx = FALSE /\ net_tx = FALSE /\ obd_tx_wait = FALSE
=============================================================================
