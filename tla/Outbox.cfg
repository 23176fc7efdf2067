\* The clock passes the end of the range of int while items of every age are in the list.
SPECIFICATION Spec
CONSTANTS
    Word = 12
    Timeout = 2
    Period = 3
    MaxSize = 3
    Ids = {1, 2}
    Types = {"PUBLISH", "SUBSCRIBE", "failed"}
    Length <- LengthOf
    MaxItems = 3
    MaxNow = 10
INVARIANT TypeOK
PROPERTIES
    ExpiryIsExact
    CleanupDropsOldest
