SPECIFICATION FairSpec
CONSTANTS
    Slots = {s1}
    Workers = {w1, w2}
    Submitters = {p1}
    Shapes <- GrowingShapes
    MaxJobs = 3
    FastClaim = TRUE
    Free = Free
INVARIANT RunsOwnUnit
