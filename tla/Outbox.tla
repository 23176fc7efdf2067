------------------------------- MODULE Outbox -------------------------------
(***************************************************************************)
(* mqtt_outbox.c: the list of messages that wait for an acknowledgement.   *)
(* One operator per function, on a sequence of items with the fields id,   *)
(* type, len, tick and pending.                                            *)
(***************************************************************************)
EXTENDS Integers, SequencesExt, Sift

CONSTANTS Word,     \* how many values an int has (2^32 in the code)
          Timeout,  \* OUTBOX_EXPIRED_TIMEOUT_MS
          MaxSize   \* OUTBOX_MAX_SIZE

ASSUME OutboxAssumption == /\ Word \in Nat \ {0} /\ Word % 2 = 0
                           /\ Timeout \in Nat /\ MaxSize \in Nat

(* Mutant of ToInt: the number is passed as an unsigned.                   *)
ToUnsigned(t) == t % Word

(* A long long number of milliseconds, passed as int.                      *)
ToInt(t) == ((t + Word \div 2) % Word) - Word \div 2

outbox_init == <<>>

outbox_enqueue(box, item) == Append(box, item)

(* The position of the item, or 0 for NULL.                                *)
outbox_get(box, id) == SelectInSeq(box, LAMBDA item : item.id = id)

outbox_dequeue(box) == SelectInSeq(box, LAMBDA item : ~item.pending)

(* Finds, and removes, one item at most.                                   *)
HasItem(box, id, type) == \E i \in DOMAIN box : box[i].id = id /\ box[i].type = type

outbox_delete(box, id, type) ==
    RemoveFirstMatch(box, LAMBDA item : item.id = id /\ item.type = type)

outbox_delete_msgid(box, id) == Kept(box, {i \in DOMAIN box : box[i].id # id})

outbox_delete_msgtype(box, type) == Kept(box, {i \in DOMAIN box : box[i].type # type})

outbox_set_pending(box, id) ==
    LET i == outbox_get(box, id)
    IN  IF i = 0 THEN box ELSE [box EXCEPT ![i].pending = TRUE]

(* Mutant of outbox_delete_expired: compares with a deadline instead of    *)
(* the difference of two ticks.                                            *)
delete_after_deadline(box, now) ==
    Kept(box, {i \in DOMAIN box : ToInt(now) <= ToInt(box[i].tick + Timeout)})

outbox_delete_expired(box, now) ==
    Kept(box, {i \in DOMAIN box : ToInt(ToInt(now) - box[i].tick) <= Timeout})

outbox_get_size(box) ==
    LET siz[n \in 0..Len(box)] == IF n = 0 THEN 0 ELSE siz[n - 1] + box[n].len
    IN  siz[Len(box)]

(* Mutant of outbox_cleanup: makes room from the other end.                *)
cleanup_newest(box, max) ==
    LET after[n \in 0..Len(box)] ==
          IF n = 0 THEN box
          ELSE LET b == after[n - 1]
                   i == SelectLastInSeq(b, LAMBDA item : ~item.pending)
               IN  IF outbox_get_size(b) <= max \/ i = 0 THEN b ELSE RemoveAt(b, i)
    IN  after[Len(box)]

(* after[n] is the list after n turns of the loop, or after the last one.  *)
outbox_cleanup(box, max) ==
    LET after[n \in 0..Len(box)] ==
          IF n = 0 THEN box
          ELSE LET b == after[n - 1]
                   i == outbox_dequeue(b)
               IN  IF outbox_get_size(b) <= max \/ i = 0 THEN b ELSE RemoveAt(b, i)
    IN  after[Len(box)]

(* What is left of the list is not freed.                                  *)
outbox_destroy(box) == outbox_cleanup(box, 0)
=============================================================================
