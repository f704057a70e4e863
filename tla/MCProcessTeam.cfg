\* Three entries and five objects: the table overflows and a creation is refused; a halted kernel stops.
CONSTANTS
    NoProc = NoProc
    Procs = {p1, p2, p3, p4, p5}
    Limit = 3
    RemoveIds = {}
    MaxUnder = 0
SPECIFICATION KernelSpec
CHECK_DEADLOCK FALSE
SYMMETRY ProcSymmetry
INVARIANTS TypeOK TeamExact
PROPERTY ImplementsRoster
