SPECIFICATION Spec
CONSTANTS
    MaxThreads = 3
    ReadAhead = 1
    Envs <- All
INVARIANTS OutputWhole CarryByHandout
PROPERTY AllReturn
CHECK_DEADLOCK TRUE
