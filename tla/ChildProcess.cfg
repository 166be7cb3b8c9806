SPECIFICATION FairSpec
CONSTANTS
    Limit = 2
    MaxWritten = 3
CHECK_DEADLOCK FALSE
INVARIANTS
    TypeOK
    AnswerIsComplete
    LimitIsExact
    AnsweredIsReaped
    NoRunaway
PROPERTIES
    ReaderEnds
