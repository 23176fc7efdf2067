---------------------------- MODULE TimedGateway ----------------------------
(***************************************************************************)
(* The gateway with the two delays of obd_wait_task counted.  A session    *)
(* can end long before its timer does; the timer goes on, a token of       *)
(* obd_tx_wait given meanwhile waits for it, and what is left of the old   *)
(* delay is all that a later session gets.                                 *)
(*                                                                         *)
(* Time passes only when the controller, CAN_tx and obd_wait_task all      *)
(* wait.  NET_tx, the MQTT client's task and CAN_rx may take any time:     *)
(* they wait for the network and for the bus.                              *)
(***************************************************************************)
EXTENDS Gateway

CONSTANTS RESPONSE_DELAY,      \* ticks of the first delay (1 ms in the code)
          BIG_RESPONSE_DELAY   \* ticks of the second (4900 ms)

ASSUME DelayAssumption == RESPONSE_DELAY \in Nat /\ BIG_RESPONSE_DELAY \in Nat

VARIABLES timer,    \* what is left of the delay obd_wait_task is in
          age,      \* ticks since the session began; stops after FullTime + 1
          jammed,   \* some tick of the session found a queue jammed
          inPhase   \* the session's timer is its own: see Observe

session == <<age, jammed, inPhase>>

timedVars == <<vars, timer, session>>

FullTime == RESPONSE_DELAY + BIG_RESPONSE_DELAY

TimedInit == Init /\ timer = 0 /\ age = 0 /\ jammed = FALSE /\ inPhase = FALSE
-----------------------------------------------------------------------------
(* vTaskDelay follows the take of obd_tx_wait and the send of the frame.   *)
StartDelay == timer' = CASE obd = "sem" /\ obd' = "pending"     -> RESPONSE_DELAY
                         [] obd = "pending" /\ obd' = "timeout" -> BIG_RESPONSE_DELAY
                         [] OTHER                               -> timer

(* A step of obd_wait_task comes when the delay before it is over.         *)
TaskStep == /\ Next
            /\ obd' # obd => timer = 0
            /\ StartDelay

(* The observers: a session begins with EV_CAN_RECEIVED.  It is in phase   *)
(* if the timer is at rest then, or if it follows one in phase that ended  *)
(* by its timeout.                                                         *)
TimerAtRest == obd = "sem" /\ ~obd_tx_wait /\ ~Queued("EV_BIG_TIMEOUT")

Observe ==
    /\ age' = IF Busy /\ Busy' THEN age ELSE 0
    /\ jammed' = (Busy /\ Busy' /\ jammed)
    /\ inPhase' = CASE ~Busy /\ Busy'                            -> inPhase \/ TimerAtRest
                    [] Busy /\ cs' = "CONTROL_CAN_REQUEST_WAIT"  -> FALSE
                    [] OTHER                                     -> inPhase

ControlWaits == IF ctl = "recv" THEN controlEvents = <<>> ELSE Len(controlEvents) = ControlCap

CanTxWaits == \/ canTx = "sem" /\ ~can_tx
              \/ canTx = "queue" /\ txCanQueue = <<>>
              \/ canTx = "event" /\ Len(controlEvents) = ControlCap

ObdWaits == \/ timer > 0
            \/ obd = "sem" /\ ~obd_tx_wait
            \/ obd = "pending" /\ Len(txCanQueue) = TxCap
            \/ obd = "timeout" /\ Len(controlEvents) = ControlCap

Tick == /\ timer > 0 \/ (Busy /\ age <= FullTime)
        /\ ControlWaits /\ CanTxWaits /\ ObdWaits
        /\ timer' = IF timer > 0 THEN timer - 1 ELSE 0
        /\ IF Busy
           THEN /\ age' = IF age <= FullTime THEN age + 1 ELSE age
                /\ jammed' = (jammed \/ ControlJam \/ DownlinkJam)
           ELSE UNCHANGED <<age, jammed>>
        /\ UNCHANGED <<vars, inPhase>>

TimedNext == (TaskStep /\ Observe) \/ Tick

TimedSpec == TimedInit /\ [][TimedNext]_timedVars
-----------------------------------------------------------------------------
(* No session lasts longer than the two delays together, whatever timer it *)
(* is that ends it, unless a jammed queue holds up the controller or the   *)
(* task that times it.                                                     *)
EndsInTime == Busy /\ ~jammed => age <= FullTime

(* A timeout takes from the server none of the time it has to answer, as   *)
(* long as the sessions are in phase with their timers: a session that     *)
(* ends by its timeout leaves nothing behind that could end the next one   *)
(* before its time.                                                        *)
TimeoutIsDue == [][Busy /\ cs' = "CONTROL_START" /\ inPhase => age >= FullTime]_timedVars
=============================================================================
