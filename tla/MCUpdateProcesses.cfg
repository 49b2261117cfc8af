CONSTANTS
    PipeSize = 2
    OutLimit = 2
    MaxOut = 5
    MaxErr = 2
    Requests = 3
SPECIFICATION Spec
INVARIANTS TypeOK OutputArrives InputArrives BitsFollowBuffers
    TextsWholeUnlessCrash
PROPERTIES CallsComeBack Finishes
CHECK_DEADLOCK FALSE
