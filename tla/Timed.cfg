\* Delays of one tick and two; an answer of one command.
SPECIFICATION TimedSpec
CONSTANTS
    ControlCap = 1
    RxCap = 1
    TxCap = 2
    IdMod = 1
    BatchBound = 1
    PendingFrame <- NoPending
    Commands <- Two
    Messages <- OneCommand
    RESPONSE_DELAY = 1
    BIG_RESPONSE_DELAY = 2
INVARIANTS
    EndsInTime
PROPERTIES
    TimeoutIsDue
\* The gateway can jam: see ControlJam, UplinkStalled and AnswerStuck.
CHECK_DEADLOCK FALSE
