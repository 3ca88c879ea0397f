SPECIFICATION Spec
CONSTANTS
  Cols = 3
  Rows = 2
  Films <- MCFilms
INVARIANT Conforms
INVARIANT DeblockAgrees
INVARIANT EstAsSerial
