SPECIFICATION TilingSpec
CONSTANTS
    Sizes <- MCAcross
    Ksize = 3
    Stride = 1
    Pad = 1
    PE_SIZE_X = 4
    PE_SIZE_Y = 3
    Image <- Pix
    Weights <- Weight
INVARIANT
    OutputCorrect
CHECK_DEADLOCK FALSE
