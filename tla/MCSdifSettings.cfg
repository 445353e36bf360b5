SPECIFICATION Spec
CONSTANTS
    Clocks = {400, 100000, 200000}
    Timings = {"hs", "hs400"}
    Volts = {180, 200, 330}
    Drivers = {"calc", "dict", "msg"}
    Widths = {8}
    Unset = Unset
    Lost = Lost
CHECK_DEADLOCK FALSE
INVARIANTS
    Agreed
    InitFirst
    ResponseExpected
