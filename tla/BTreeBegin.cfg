CONSTANTS
    LeafCapacity = 1
    InnerCapacity = 2
    Keys = {1, 2}
    v = v
    w = w
    Values = {v, w}
    ValuesOf <- MCValuesOf
    NoValue = NoValue
    AccessLimit = 2
    NodesLimit = 3
    MaxNodes = 8
SPECIFICATION Spec
PROPERTY BeginAtFirst
CHECK_DEADLOCK FALSE
