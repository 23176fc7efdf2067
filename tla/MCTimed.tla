------------------------------ MODULE MCTimed -------------------------------
(* TimedGateway with the constants TLC needs.                              *)
EXTENDS TimedGateway

NoPending == 0
Two == {1, 2}
OneCommand == {<<1>>}
=============================================================================
