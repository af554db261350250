SPECIFICATION FairSpec
CONSTANTS
    Procs = {p1, p2, p3}
    Bufs = {b1, b2, b3}
    Values = {0}
    Null = Null
    FSSIZE = 2
    HASHSIZE = 2
    InitDisk <- ZeroDisk
    InitData = 0
    PinLimit = 0
    ReadErrors = FALSE
PROPERTIES
    IoCompletes
    BgetWakes
