CONSTANTS
    TextBase = 3
    TextLength = 3
    RawBase = 5
    RawLength = 2
    a = a
    b = b
    c = c
    Models = {a, b, c}
    Wikitext = Wikitext
    Hidden = Hidden
    Absent = Absent
    Users <- MCUsers
    Comments <- MCComments
    Hashes <- MCHashes
    Sizes = {1, 2}
    Contents <- MCContents
    IdLimit = 2
    CommentLimit = 255
SPECIFICATION Spec
INVARIANTS TypeOK ReadsWhatWasSent CopyHoldsSame FailsForCause
PROPERTY RepetitionIsSilent
CHECK_DEADLOCK FALSE
