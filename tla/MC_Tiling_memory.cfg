SPECIFICATION TilingSpec
CONSTANTS
    Sizes <- MCMemory
    Ksize = 3
    Stride = 1
    Pad = 1
    PE_SIZE_X = 4
    PE_SIZE_Y = 3
    Image <- Five
    Weights <- Weight
INVARIANT
    OutputCleared
CHECK_DEADLOCK FALSE
