CONSTANTS
    HeaderLength = 1
    NodeSize = 2
    LeafCapacity = 2
    Lengths = {1, 2, 3}
    MaxFileEnd = 8
    StackLimit = 5
SPECIFICATION CallsSpec
INVARIANTS SearchableIsFree CycleEnteredOnce
PROPERTIES ImplementsAtomic CallsReturn
CHECK_DEADLOCK FALSE
