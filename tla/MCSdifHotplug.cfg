SPECIFICATION FairSpec
CONSTANT Hasty = FALSE
INVARIANTS
    SettledAgrees
PROPERTIES
    InsertedIsAttached
    RemovedIsDetached
