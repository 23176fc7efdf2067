\* "on data arriving at the topic parse it and send it on": two messages in one
\* read, and the second is thrown away.
SPECIFICATION FairSpec
CONSTANTS
    Word = 8
    Timeout = 0
    MaxSize = 2
    Ids = {1}
    MaxPublish = 0
    MaxEvents = 2
PROPERTY AnswersAreHandled
CHECK_DEADLOCK FALSE
