SPECIFICATION Spec
CONSTANTS
    Refs = {r1, r2}
    Handlers = {c1, c2}
    Files = {f1, f2}
    Sources = {s1, s2}
    Size = 2
    MaxItems = 1
    None = None
SYMMETRY MCSymmetry
INVARIANTS TypeOK UploadIntact InProgressCounts FinishedIsForgotten
CHECK_DEADLOCK FALSE
