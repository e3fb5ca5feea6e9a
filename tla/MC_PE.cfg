SPECIFICATION Spec
CONSTANTS
    BufferSize = 2
    Data = {0, 1}
    Zero = 0
    FPMUL <- Times
    FPADD <- Plus
    MUL_Pipeline_Stages = 1
    ADD_Pipeline_Stages = 1
    Inputs <- Wires
INVARIANTS
    IssuesWhenReady
    BuffersInOrder
PROPERTY
    ImplementsCell
