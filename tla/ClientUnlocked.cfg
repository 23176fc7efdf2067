\* "lock mutex" and "unlock" in mqtt_enqueue, and no lock: what goes into the
\* outbox is not what the pending id and type describe.
SPECIFICATION Spec
CONSTANTS
    Word = 8
    Timeout = 0
    MaxSize = 2
    Ids = {1}
    MaxPublish = 1
    MaxEvents = 0
INVARIANT BoxedIsPending
CHECK_DEADLOCK FALSE
