SPECIFICATION FairSpec
CONSTANTS
    Req = {r1, r2}
    None = None
    Count = Count
    Env <- Usual
CHECK_DEADLOCK FALSE
INVARIANTS
    TypeOK
    AnsweredOnce
    PendingWhenDone
    TimeoutUnanswered
    WireWatched
PROPERTIES
    WireEnds
