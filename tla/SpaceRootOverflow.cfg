CONSTANTS
    HeaderLength = 1
    NodeSize = 2
    LeafCapacity = 1
    Lengths = {1}
    MaxFileEnd = 6
    StackLimit = 4
SPECIFICATION CallsSpec
PROPERTY OversizedIsSplit
CHECK_DEADLOCK FALSE
