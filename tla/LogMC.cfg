SPECIFICATION Spec
CONSTANTS
    Procs = {p1, p2}
    Blocks = {b1, b2, b3, b4}
    Values = {0, 1}
    Absent = Absent
    InitDisk <- ZeroDisk
    InitLog <- ZeroLog
    MAXOPBLOCKS = 2
    LOGSIZE = 4
    NLog = 4
    OpLimit = 2
SYMMETRY Symmetry
INVARIANTS
    TypeOK
    DurableWhenIdle
    CommitExclusive
PROPERTY
    RefinesAtomicDisk
