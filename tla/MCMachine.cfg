\* Three cores, two of which can be woken; the timer, a device and the slave.
CONSTANTS
    kMaxAPInsideSched = 3
    kSchedProcessLimitPerTeam = 2
    PTimes = {1, 3}
    Lines = {0, 8}
    Exceptions = {0, 3, 6, 11, 14}
    SyscallMax = 2
    TeamLimit = 1
    MaxRaised = 3
SPECIFICATION Spec
\* The kernel may stop.
CHECK_DEADLOCK FALSE
INVARIANTS TypesOK CoresSound
PROPERTIES CoresProgress
