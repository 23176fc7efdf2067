\* Frames numbered modulo 2, up to four of them on their way; answers without commands
\* and with two, one of which finds the queue full.
SPECIFICATION Spec
CONSTANTS
    ControlCap = 1
    RxCap = 2
    TxCap = 1
    IdMod = 2
    BatchBound = 1
    PendingFrame <- NoPending
    Commands <- Two
    Messages <- TwoCommands
INVARIANTS
    TypeOK
    StartPending
    WatchdogArmed
    UplinkOrder
    DrainNeverSpins
    AnnouncedAmount
PROPERTIES
    UplinkIsFifo
    DownlinkIsFifo
    UplinkStallIsPermanent
    StuckAnswerIsPermanent
\* The gateway can jam: see ControlJam, UplinkStalled and AnswerStuck.
CHECK_DEADLOCK FALSE
