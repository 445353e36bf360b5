SPECIFICATION FairSpec
CONSTANTS
    NumDesc = 4
    MaxSegs = 1
    Mbuf = {m1, m2, m3}
    None = None
    MaxSenders = 1
PROPERTIES
    FramesLeave
    WaitingRestarts
