SPECIFICATION FairSpec
CONSTANTS
    BUF_LEN = 3
    Depth = 1
    Threshold = 0
    INT_MAX = 4
    Timeout = 2
    NewTimeouts = {0}
    MaxCount = 3
    MaxChars = 4
INVARIANTS TypeOK InterruptsResume
PROPERTIES ImplementsPort CallsReturn HostIsServed
