SPECIFICATION FairSpec
CONSTANTS
    NRows = 3
    NCols = 3
    NSlots = 2
    RowFast = TRUE
    Workers = {w1, w2, w3}
    Free = Free
INVARIANTS NoLostWakeup WakeInFlight DoneMeansQuiet
PROPERTIES Implements Terminates
