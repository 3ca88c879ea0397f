SPECIFICATION Spec
CONSTANTS
    K = 3
    MaxRef = 15
    Shapes <- AllShapes
INVARIANTS
    ReferencesIntact
    ReadsFinal
    DpbCodingOrder
    OutputOrder
    BuffersDisjoint
PROPERTIES
    AllOut
