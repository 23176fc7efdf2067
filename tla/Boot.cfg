\* Three looks at the clock at most; the network comes and goes at any time.
SPECIFICATION Spec
CONSTANT RetryCount = 4
INVARIANTS
    TypeOK
    UsedAfterCreation
PROPERTY StartUpEnds
\* A bus that stays silent is no error.
CHECK_DEADLOCK FALSE
