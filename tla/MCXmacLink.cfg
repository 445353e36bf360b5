SPECIFICATION Spec
CONSTANTS
    Admin = {a1, a2}
    Tick = tick
    Speed = {10, 100, 1000}
SYMMETRY Symmetry
INVARIANTS
    PollAlive
    ViewAgrees
