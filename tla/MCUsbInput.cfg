SPECIFICATION FairSpec
CONSTANTS
    Fd = {3, 4}
INVARIANTS
    ReadsOpenDescriptor
    OneToken
    QueuesOutliveTasks
PROPERTIES
    Reopens
    ExitEnds
