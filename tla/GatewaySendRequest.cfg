\* control.c:129, sending the request.
SPECIFICATION SlowSpec
CONSTANTS
    ControlCap = 2
    RxCap = 1
    TxCap = 1
    IdMod = 1
    BatchBound = 1
    PendingFrame <- NoPending
    Commands <- Two
    Messages <- OneCommand
INVARIANTS
    SendingTheRequest
\* The gateway can jam: see ControlJam, UplinkStalled and AnswerStuck.
CHECK_DEADLOCK FALSE
