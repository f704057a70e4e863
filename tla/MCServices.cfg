SPECIFICATION Spec
CONSTANTS
    Streams = {s1, s2}
    Nodes = {n1, n2}
    NoNode = NoNode
    Blocks = {1, 2, 3, 4, 5, 6, 7, 8, 9, 10, 11, 12, 13, 14, 15}
    None = None
    Junk = Junk
    Pointers = {p1, p2, p3, p4}
    Callers = {c1, c2, c3}
    NoCaller = NoCaller
    N = 3
    Top = 7
    Shift = 4
    Processes = {p1, p2}
    Kernel = Kernel
    Pages = {g1, g2}
    Indices = {1}
    Entries = {e1, e2}
    NoEntry = NoEntry
    Letters = {a, b}
    TextRoom = 4
    Items = {i1, i2}
    NoItem = NoItem
    JsonLength = 4
    Senders = {0, 1}
    PacketSizes = {1, 6094, 6095}
    DataSizes = {6094, 7000}
    FieldWrites = 3
    IpLength = 9
    UserNames = {u1, u2}
    Passwords = {w1, w2}
    Tokens = {t1, t2}
    Header = 3
    Entry = 2
    Wide = 64
    MaxLength = 9
    cSMPMax = 2
    Records = 4
    BusCount = 2
    SlotCount = 2
INVARIANTS TypesOK FilesSound LoadsSound PagingSound HardwareFound TextsSound 
PROPERTIES WaitsSound
\* The kernel may stop, a process ends, and a call that was answered is over.
CHECK_DEADLOCK FALSE
