------------------------------ MODULE MCOutbox ------------------------------
(* A small outbox for TLC: an int of twelve values, a publish twice as long *)
(* as a subscription, and one that did not fit the client's buffer.         *)
EXTENDS OutboxCalls

TheLengths == [PUBLISH |-> 2, SUBSCRIBE |-> 1, failed |-> 0]

LengthOf(type) == TheLengths[type]
=============================================================================
