SPECIFICATION BoardSpec
CONSTANTS
    Readers = {r1, r2}
    p1 = p1
    p2 = p2
    p3 = p3
    Posts = {p1, p2, p3}
    Size <- MCSize
    MaxBoardFaults = 3
SYMMETRY NewsSymmetry
INVARIANTS
    AckedIsKept
    AloneReadsWhole
