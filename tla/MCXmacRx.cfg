SPECIFICATION FairSpec
CONSTANTS
    NumDesc = 4
    RxBufs = 3
    Mbuf = {b1, b2, b3}
    None = None
INVARIANTS
    DmaInRing
    OneOwner
    TailHasBuffer
PROPERTIES
    FramesTaken
    NoStarvation
