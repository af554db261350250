SPECIFICATION Spec
CONSTANTS
    Procs = {p1, p2, p3}
    Blocks = {b1, b2, b3}
    Values = {0}
    Absent = Absent
    InitDisk <- ZeroDisk
    InitLog <- ZeroLog
    MAXOPBLOCKS = 1
    LOGSIZE = 3
    NLog = 3
    OpLimit = 1
INVARIANT
    ReservationSuffices
