CONSTANTS
    Files = {f, g}
    Diffs = {d}
    Names = {n, m}
    Kinds = {stub, pages}
    None = None
    Broken = Broken
    MaxTime = 3
    MaxWriters = 2
    Interruptible = TRUE
SPECIFICATION Spec
SYMMETRY Symmetry
INVARIANTS SaysWhatItHolds
PROPERTY RefusedUntouched
