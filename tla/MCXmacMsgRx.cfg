SPECIFICATION MsgFairSpec
CONSTANTS
    NumDesc = 3
    RxBufs = 2
    Mbuf = {b1, b2, b3}
    None = None
INVARIANTS
    OneOwner
    OnlyAckRxLoses
PROPERTIES
    FramesTakenOrSwept
