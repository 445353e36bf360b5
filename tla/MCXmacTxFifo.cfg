SPECIFICATION Spec
CONSTANTS
    NumDesc = 6
    MaxSegs = 2
    Mbuf = {m1, m2, m3}
    None = None
    MaxSenders = 1
SYMMETRY Symmetry
INVARIANTS
    TypeOK
    NoTornFrame
    MacReadsLive
    Conservation
    HeadStopsMac
PROPERTIES
    ImplementsFifo
