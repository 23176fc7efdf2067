\* Sessions end, by their answer or by their timeout.
SPECIFICATION FairSpec
CONSTANTS
    ControlCap = 1
    RxCap = 1
    TxCap = 1
    IdMod = 1
    BatchBound = 1
    PendingFrame <- NoPending
    Commands <- Two
    Messages <- OneCommand
PROPERTIES
    SessionEnds
\* The gateway can jam: see ControlJam, UplinkStalled and AnswerStuck.
CHECK_DEADLOCK FALSE
