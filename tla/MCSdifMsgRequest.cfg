SPECIFICATION MsgFairSpec
CONSTANTS
    Thread = {t1, t2}
    NoThread = NoThread
    Count = Count
    Env <- Usual
INVARIANTS
    HostExclusive
    CountThenTransfer
    MsgAnsweredOnce
PROPERTIES
    HostIsTaken
    RequestEnds
