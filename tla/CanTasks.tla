------------------------------ MODULE CanTasks ------------------------------
(***************************************************************************)
(* can.c: the task that moves frames from the CAN driver to rxCanQueue and *)
(* the one that moves frames from txCanQueue to the driver.  A frame is    *)
(* its id: frames from the bus carry cntRxCan, an uint8_t that wraps, here *)
(* modulo IdMod (256 in the code).                                         *)
(***************************************************************************)
EXTENDS GatewayState

CONSTANT IdMod

ASSUME IdAssumption == IdMod \in Nat \ {0}

VARIABLES canRx,      \* where can_receive_task is
          rxHand,     \* the frame it holds: a sequence of length 0 or 1
          cntRxCan,   \* the id the next frame gets
          canTx,      \* where can_transmit_task is
          txHand      \* the frame it holds: a sequence of length 0 or 1

canRxVars == <<canRx, rxHand, cntRxCan>>
canTxVars == <<canTx, txHand>>
canVars   == <<canRxVars, canTxVars>>

Ids == 0 .. IdMod - 1

(* Mutant of NextId: a counter wider than the id, which does not wrap.     *)
NextIdWide(id) == id + 1

NextId(id) == IF id = IdMod - 1 THEN 0 ELSE id + 1

CanInit == /\ canRx = "sem" /\ rxHand = <<>> /\ cntRxCan = 0
           /\ canTx = "sem" /\ txHand = <<>>

(* can_rx is taken once, before the loop.                                  *)
TakeCanRx == /\ canRx = "sem"
             /\ Take(can_rx)
             /\ canRx' = "driver"
             /\ UNCHANGED <<rxHand, cntRxCan, queues, can_tx, net_rx, net_tx, obd_tx_wait>>

(* can_receive returns ESP_OK: the frame is copied and numbered.  Any      *)
(* other result goes round the loop with nothing changed.                  *)
CanReceive == /\ canRx = "driver"
              /\ rxHand' = <<cntRxCan>>
              /\ cntRxCan' = NextId(cntRxCan)
              /\ canRx' = "event"
              /\ UNCHANGED shared

(* The controller is told of the frame before the frame is queued.         *)
AnnounceFrame == /\ canRx = "event"
                 /\ Send(controlEvents, ControlCap, "EV_CAN_RECEIVED")
                 /\ canRx' = "queue"
                 /\ UNCHANGED <<rxHand, cntRxCan, rxCanQueue, txCanQueue, semaphores>>

(* Mutant of QueueFrame: the send does not wait, and a frame that finds    *)
(* the queue full is lost.                                                 *)
QueueFrameOrDrop == /\ canRx = "queue"
                    /\ rxCanQueue' = IF Len(rxCanQueue) < RxCap
                                     THEN Append(rxCanQueue, Head(rxHand)) ELSE rxCanQueue
                    /\ rxHand' = <<>>
                    /\ canRx' = "driver"
                    /\ UNCHANGED <<cntRxCan, controlEvents, txCanQueue, semaphores>>

QueueFrame == /\ canRx = "queue"
              /\ Send(rxCanQueue, RxCap, Head(rxHand))
              /\ rxHand' = <<>>
              /\ canRx' = "driver"
              /\ UNCHANGED <<cntRxCan, controlEvents, txCanQueue, semaphores>>

can_receive_task == TakeCanRx \/ CanReceive \/ AnnounceFrame \/ QueueFrame

(* Mutant of TakeCanTx: the task does not wait for can_tx.                 *)
StartCanTx == /\ canTx = "sem"
              /\ canTx' = "queue"
              /\ UNCHANGED <<txHand, shared>>

(* can_tx is taken once, before the loop.                                  *)
TakeCanTx == /\ canTx = "sem"
             /\ Take(can_tx)
             /\ canTx' = "queue"
             /\ UNCHANGED <<txHand, queues, can_rx, net_rx, net_tx, obd_tx_wait>>

TakeFrame == /\ canTx = "queue"
             /\ Receive(txCanQueue)
             /\ txHand' = <<Head(txCanQueue)>>
             /\ canTx' = "driver"
             /\ UNCHANGED <<controlEvents, rxCanQueue, semaphores>>

(* can_transmit; its result is ignored.                                    *)
CanTransmit == /\ canTx = "driver"
               /\ txHand' = <<>>
               /\ canTx' = "event"
               /\ UNCHANGED shared

AnnounceTransmit == /\ canTx = "event"
                    /\ Send(controlEvents, ControlCap, "EV_CAN_TRANSMITTED")
                    /\ canTx' = "queue"
                    /\ UNCHANGED <<txHand, rxCanQueue, txCanQueue, semaphores>>

can_transmit_task == TakeCanTx \/ TakeFrame \/ CanTransmit \/ AnnounceTransmit
=============================================================================
