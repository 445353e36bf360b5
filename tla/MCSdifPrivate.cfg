SPECIFICATION Spec
CONSTANTS
    Req = {r1, r2}
    None = None
    Count = Count
    Env <- LossyCount
CHECK_DEADLOCK FALSE
INVARIANTS
    PrivateHasNoRequest
