SPECIFICATION Spec
CONSTANTS
    Procs = {p1, p2}
    Bufs = {b1, b2, b3}
    Values = {0, 1}
    Null = Null
    FSSIZE = 3
    HASHSIZE = 4
    InitDisk <- ZeroDisk
    InitData = 0
    PinLimit = 1
    ReadErrors = FALSE
SYMMETRY Symmetry
INVARIANTS
    TypeOK
    UniqueBuffer
    OneHolder
    ReadsLatest
    NoLostUpdate
    SleepersHaveWaker
    
