\* Reading a file that ends or fails at any byte.
CONSTANTS
  W = 5
  SlowBits <- MCSlowBits
  FastBits <- MCFastBits
  Chunks <- MCSources
  Rooms <- MCRooms
  MaxBody = 1
  MaxBlocks = 2
  MaxYield = 3
  BufSize = 5
  ModeStrings <- MCModeStrings
SPECIFICATION FairRSpec
INVARIANTS
  UnusedExact
  EofMeansStarved
PROPERTIES
  ReadReturns
