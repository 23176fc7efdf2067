\* Every transport, a client started up to twice.
SPECIFICATION FairSpec
CONSTANTS
    Tasks = {t1, t2}
    Configs <- Configurations
INVARIANTS
    TypeOK
    OneTask
    NothingLeaks
    SuccessIsConnection
PROPERTIES
    StopReturns
\* The application may stop calling, and a hasty stop waits for ever.
CHECK_DEADLOCK FALSE
