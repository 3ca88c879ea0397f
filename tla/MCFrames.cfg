SPECIFICATION FairSpec
CONSTANTS
    Retries = 2
    MaxLost = 1
    RCP_WARM = 2
    RCP_MAX = 32
    StairK = 3
    Envs <- Encoders
INVARIANTS MirrorsDecoder LedgerKept EmitIntact
PROPERTY AllOut
CHECK_DEADLOCK FALSE
