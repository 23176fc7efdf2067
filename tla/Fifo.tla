-------------------------------- MODULE Fifo --------------------------------
(***************************************************************************)
(* What the gateway promises of a direction of traffic: whatever enters    *)
(* leaves once, in the order in which it entered.                          *)
(***************************************************************************)
EXTENDS Integers, Sequences

CONSTANT Inputs   \* the sequences of items that enter in one step

VARIABLE ch       \* what has entered and has not left, oldest first

Init == ch = <<>>

Accept == \E input \in Inputs : ch' = ch \o input

Release == \E n \in 1 .. Len(ch) : ch' = SubSeq(ch, n + 1, Len(ch))

Next == Accept \/ Release

Spec == Init /\ [][Next]_ch
=============================================================================
