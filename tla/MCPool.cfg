SPECIFICATION FairSpec
CONSTANTS
    Slots = {s1, s2}
    Workers = {w1, w2}
    Submitters = {"encoder", "side"}
    Chunk = 16
    Envs <- Both
    NoJob = NoJob
INVARIANTS SlotLive WakesInFlight RowsOwned
PROPERTY AllReturn
