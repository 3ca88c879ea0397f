SPECIFICATION Spec
CONSTANTS
    K = 3
    MaxRef = 15
    Shapes <- TightShapes
INVARIANTS
    ReferencesIntact
