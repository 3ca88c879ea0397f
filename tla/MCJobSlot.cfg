SPECIFICATION FitSpec
CONSTANTS
    Slots = {s1}
    Workers = {w1, w2, w3}
    Submitters = {p1}
    Shapes <- MixedShapes
    MaxJobs = 2
    FastClaim = TRUE
    Free = Free
INVARIANTS RunsOwnUnit HeldUntilComplete
PROPERTY CallsReturn
