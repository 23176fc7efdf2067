------------------------------ MODULE ObdTask -------------------------------
(***************************************************************************)
(* obd.c: once per session, answer the tester with a response-pending      *)
(* frame and, BIG_RESPONSE_DELAY later, tell the controller that the time  *)
(* for the server's answer is over.  The two vTaskDelay calls (1 ms and    *)
(* 4900 ms) are not timed here: each is part of the wait for the send that *)
(* follows it, which happens at any later step.                            *)
(***************************************************************************)
EXTENDS GatewayState

CONSTANT PendingFrame   \* the frame 7E8#78..., as an element of txCanQueue

VARIABLE obd   \* where obd_wait_task is

ObdInit == obd = "sem"

TakeObdWait == /\ obd = "sem"
               /\ Take(obd_tx_wait)
               /\ obd' = "pending"
               /\ UNCHANGED <<queues, can_rx, can_tx, net_rx, net_tx>>

QueuePending == /\ obd = "pending"
                /\ Send(txCanQueue, TxCap, PendingFrame)
                /\ obd' = "timeout"
                /\ UNCHANGED <<controlEvents, rxCanQueue, semaphores>>

(* Mutant of PostBigTimeout: the send does not wait, and the timeout is    *)
(* lost when the queue is full.                                            *)
PostBigTimeoutOrDrop ==
    /\ obd = "timeout"
    /\ controlEvents' = IF Len(controlEvents) < ControlCap
                        THEN Append(controlEvents, "EV_BIG_TIMEOUT") ELSE controlEvents
    /\ obd' = "sem"
    /\ UNCHANGED <<rxCanQueue, txCanQueue, semaphores>>

PostBigTimeout == /\ obd = "timeout"
                  /\ Send(controlEvents, ControlCap, "EV_BIG_TIMEOUT")
                  /\ obd' = "sem"
                  /\ UNCHANGED <<rxCanQueue, txCanQueue, semaphores>>

obd_wait_task == TakeObdWait \/ QueuePending \/ PostBigTimeout
=============================================================================
