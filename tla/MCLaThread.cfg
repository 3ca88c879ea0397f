CONSTANTS
    Frames = 14
    Shapes <- Rings
    Films <- Plots
SPECIFICATION Spec
INVARIANTS
    RaceFree
    WalkSeesWindow
    SeedFinal
    WarmChangesNothing
PROPERTY CallsReturn
