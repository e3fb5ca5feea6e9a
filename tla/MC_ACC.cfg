CONSTANTS
    Items = {1, 2}
    Data <- MCData
    Zero <- MCZero
    Input <- MCInput
    FPADD <- MCAdd
    BufferSize = 2
    NOPCount = 3
    CounterRange = 4
    Pipeline_Stages = 2
SPECIFICATION FairSpec
INVARIANTS OneAdditionAtATime RoomForEverySum
PROPERTIES ImplementsAccumulator ImplementsCell WordGetsIn SumComesOut
