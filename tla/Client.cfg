\* One publish, and one fault or one answer of the server.
SPECIFICATION FairSpec
CONSTANTS
    Word = 8
    Timeout = 0
    MaxSize = 2
    Ids = {1, 2}
    MaxPublish = 1
    MaxEvents = 1
INVARIANTS
    TypeOK
    BoxedAreCounted
    BoxedUnlessClashed
 
CHECK_DEADLOCK FALSE
