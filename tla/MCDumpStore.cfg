CONSTANTS
    HeaderLength = 1
    NodeSize = 2
    LeafCapacity = 2
    Lengths = {1, 2}
    MaxFileEnd = 9
    a = a
    b = b
    c = c
    Ids = {1, 2}
    Values = {a, b, c}
    Length <- MCLength
    None = None
    Garbage = Garbage
SPECIFICATION StoreSpec
INVARIANTS StoreTypeOK ViewsAgree EachByteOwnedOnce SavedOnComplete
    IndexOwnsLiveBlocks HandlesFresh
PROPERTIES ImplementsFreeSpace ImplementsObjectStore
CHECK_DEADLOCK FALSE
