CONSTANTS
    BufferSize = 4
    Data = {z, a}
    Zero = z
SPECIFICATION Spec
INVARIANT FlagsExact
PROPERTY ImplementsQueue
