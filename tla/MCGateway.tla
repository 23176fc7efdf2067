------------------------------ MODULE MCGateway -----------------------------
(* Gateway with the server's possible answers spelled out for TLC, and a   *)
(* specification with a coarse notion of time for the violated properties. *)
EXTENDS Gateway

NoPending == 0

Two == {1, 2}

OneCommand == {<<1>>}
TwoCommands == {<<>>, <<1, 2>>}

(* The 4900 ms of obd_wait_task are longer than anything the other tasks   *)
(* do: the timeout comes when all of them wait for something.              *)
OthersWait == ~ENABLED (\/ ControlStep \/ CanTxStep \/ NetStep \/ MqttStep
                        \/ (CanRxStep /\ canRx # "driver"))

TimeoutIsLate == obd = "timeout" /\ obd' = "sem" => OthersWait

SlowSpec == Init /\ [][Next /\ TimeoutIsLate]_vars

SlowFairSpec == SlowSpec /\ Fairness
=============================================================================
