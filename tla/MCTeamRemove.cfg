\* Two entries and four objects; Remove is called with every index and one too many; exits of deleted processes drive the count to -1.
CONSTANTS
    NoProc = NoProc
    Procs = {p1, p2, p3, p4}
    Limit = 2
    RemoveIds = {0, 1, 2, 3}
    MaxUnder = 1
SPECIFICATION Spec
CHECK_DEADLOCK FALSE
SYMMETRY ProcSymmetry
INVARIANTS NoGaps CurrentByOverflow
