CONSTANTS
    Revisions = {p, q, r}
    Texts = {t, u}
    Empty = Empty
    Deleted = Deleted
    GroupSize = 2
    MaxGroup = 3
    MaxTrailing = 3
    ReplaceAnywhere = TRUE
SPECIFICATION Spec
SYMMETRY Symmetry
INVARIANTS TextsReadable
CHECK_DEADLOCK FALSE
