\* obd.c:49, return to start.
SPECIFICATION SlowFairSpec
CONSTANTS
    ControlCap = 2
    RxCap = 1
    TxCap = 1
    IdMod = 1
    BatchBound = 1
    PendingFrame <- NoPending
    Commands <- Two
    Messages <- OneCommand
PROPERTIES
    ReturnsToStart
\* The gateway can jam: see ControlJam, UplinkStalled and AnswerStuck.
CHECK_DEADLOCK FALSE
