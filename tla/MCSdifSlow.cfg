SPECIFICATION Spec
CONSTANTS
    Req = {r1, r2}
    None = None
    Count = Count
    Env <- SlowCard
INVARIANTS
    TimeoutFindsRequest
