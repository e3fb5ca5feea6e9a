SPECIFICATION FairSpec
CONSTANTS
    Zero = 0
    FPMUL <- Times
    FPADD <- Plus
    Words = {1}
    Tile_Weight <- Weights
    Tile_Img2Col <- ImageWords
    Output0 <- Outputs
    PEBufferSize = 16
    MAC_Stages = 12
    ACCBufferSize = 4
    ADD_Stages = 7
    NOPCount = 9
    Rows = 3
    Cols = 4
    N = 14
    IdleClocks = 2
INVARIANTS
    ResultsCorrect
    NoSendIsLost
    NothingLeftBehind
    ResultsFindRoom
    SumsFindRoom
    ReadAddressInStep
PROPERTY
    Terminates
