---------------------------- MODULE OutboxCalls -----------------------------
(***************************************************************************)
(* The outbox as a library: its functions called in any order, with any    *)
(* arguments, while the clock goes round the range of int.                 *)
(***************************************************************************)
EXTENDS Outbox

CONSTANTS Period,           \* the longest time between two calls of outbox_delete_expired
          Ids, Types,       \* message ids and types
          Length(_),        \* the length of a message of a type
          MaxItems, MaxNow  \* bounds: items in the list, clock

(* No item may get so old that its age wraps before it is looked at.       *)
ASSUME PeriodAssumption == Period \in Nat /\ Timeout + Period < Word \div 2

ASSUME LengthAssumption == \A type \in Types : Length(type) \in Nat

VARIABLES box,   \* the list; "birth" is the real time of an item's enqueueing
          now,   \* platform_tick_get_ms()
          last,  \* when outbox_delete_expired was called last
          call   \* the last call that removes items by age or by size; after "destroy"
                 \* there is no list, and box is what has not been freed

vars == <<box, now, last, call>>

Ints == -(Word \div 2)..(Word \div 2 - 1)

Items == [id : Ids, type : Types, len : Nat, tick : Ints, pending : BOOLEAN, birth : Nat]

Init == box = outbox_init /\ now = 0 /\ last = 0 /\ call = "none"

Alive == call # "destroy"

Change(new) == Alive /\ box' = new /\ call' = "none" /\ UNCHANGED <<now, last>>

Enqueue == \E id \in Ids, type \in Types :
             /\ Len(box) < MaxItems
             /\ Change(outbox_enqueue(box, [id |-> id, type |-> type, len |-> Length(type),
                                            tick |-> ToInt(now), pending |-> FALSE,
                                            birth |-> now]))

Delete == \E id \in Ids, type \in Types : Change(outbox_delete(box, id, type))

DeleteMsgId == \E id \in Ids : Change(outbox_delete_msgid(box, id))

DeleteMsgType == \E type \in Types : Change(outbox_delete_msgtype(box, type))

SetPending == \E id \in Ids : Change(outbox_set_pending(box, id))

DeleteExpired == /\ Alive
                 /\ box' = outbox_delete_expired(box, now)
                 /\ last' = now /\ call' = "expired"
                 /\ UNCHANGED now

Cleanup == /\ Alive
           /\ box' = outbox_cleanup(box, MaxSize)
           /\ call' = "cleanup"
           /\ UNCHANGED <<now, last>>

Destroy == /\ Alive
           /\ box' = outbox_destroy(box)
           /\ call' = "destroy"
           /\ UNCHANGED <<now, last>>

Create == /\ ~Alive
          /\ box' = outbox_init /\ last' = now /\ call' = "none"
          /\ UNCHANGED now

ClockTick == /\ Alive
             /\ now < MaxNow /\ now - last < Period
             /\ now' = now + 1 /\ call' = "none"
             /\ UNCHANGED <<box, last>>

Next == \/ Enqueue \/ Delete \/ DeleteMsgId \/ DeleteMsgType \/ SetPending
        \/ DeleteExpired \/ Cleanup \/ Destroy \/ Create \/ ClockTick

Spec == Init /\ [][Next]_vars
-----------------------------------------------------------------------------
TypeOK == box \in Seq(Items) /\ now \in Nat /\ last \in Nat

(* outbox_delete_expired removes exactly the items that are really older   *)
(* than the timeout, wherever the truncated clock stands.                  *)
ExpiryIsExact ==
    [][call' = "expired" =>
         box' = Kept(box, {i \in DOMAIN box : now - box[i].birth <= Timeout})]_vars

(* outbox_cleanup makes room where it can, no more than needed, and at the *)
(* cost of the oldest messages: what it leaves is a suffix of the items    *)
(* nobody marked as pending, and one item more would have been too much.   *)
(* outbox_destroy is the same with no room at all, so that an item marked  *)
(* as pending, or one of length 0 behind all others, is never freed.       *)
Free(b) == Kept(b, {i \in DOMAIN b : ~b[i].pending})

DropsOldest(max) ==
    /\ IsSuffix(Free(box'), Free(box))
    /\ outbox_get_size(box') <= max \/ Free(box') = <<>>
    /\ box' # box => outbox_get_size(box') + Free(box)[Len(Free(box)) - Len(Free(box'))].len > max

CleanupDropsOldest == [][/\ call' = "cleanup" => DropsOldest(MaxSize)
                         /\ call' = "destroy" => DropsOldest(0)]_vars
=============================================================================
