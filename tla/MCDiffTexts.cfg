CONSTANTS
    Revisions = {p, q, r}
    Texts = {t, u}
    Empty = Empty
    Deleted = Deleted
    GroupSize = 2
    MaxGroup = 3
    MaxTrailing = 3
    ReplaceAnywhere = FALSE
SPECIFICATION DiffSpec
SYMMETRY Symmetry
INVARIANTS TypeOK TextsReadable TextsOwnedOnce NeverFails CopyReadsTexts
CHECK_DEADLOCK FALSE
