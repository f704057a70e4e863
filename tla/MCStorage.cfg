\* Both builds; every arrangement of drives and ports.
CONSTANTS
    SectorSz = 4
    DiskSectors = 3
    Sizes <- MCSizes
    Fills = {"x"}
    PortCount = 2
    SlotCount = 4
    SectorCnt = 512
    kAhciMaxPoll = 2
    HungSpin = 20
    MaxReads = 3
SPECIFICATION Spec
CHECK_DEADLOCK FALSE
INVARIANTS TypeOK TransfersExact
PROPERTIES RequestsApart RequestsEnd
