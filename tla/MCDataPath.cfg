SPECIFICATION MCSpec
CONSTANTS
  EntBits <- MCEntBits
  Ctx0 <- MCCtx0
  Headers <- MCHeaders
  CavlcUnits <- MCCavlcUnits
  CabacUnits <- MCCabacUnits
  RdoqBlocks <- MCRdoqBlocks
  Sizes = {10, 100}
  OutRooms = {18, 200}
  Calls <- MCCalls
  Reads <- MCReads
  Slack = 2
  MbShare = 1
  MaxUnits = 2
INVARIANT Decodes
INVARIANT PricesHonest
INVARIANT VectorAsPortable
INVARIANT SamplesAreDecoders
CHECK_DEADLOCK FALSE
