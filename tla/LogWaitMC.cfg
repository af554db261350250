SPECIFICATION FairSpec
CONSTANTS
    Procs = {p1, p2, p3}
    Blocks = {b1, b2, b3}
    Values = {0}
    Absent = Absent
    InitDisk <- ZeroDisk
    InitLog <- ZeroLog
    MAXOPBLOCKS = 1
    LOGSIZE = 2
    NLog = 2
    OpLimit = 1
INVARIANTS
    
    SleepersHaveCause
PROPERTIES
    SleeperWakes
    BootCompletes
