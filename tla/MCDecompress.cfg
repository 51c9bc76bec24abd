\* Two blocks, every cut of the input into calls.
CONSTANTS
  W = 5
  SlowBits <- MCSlowBits
  FastBits <- MCFastBits
  Chunks <- MCChunks
  Rooms <- MCRooms
  MaxBody = 2
  MaxBlocks = 2
  MaxYield = 3
SPECIFICATION Spec
INVARIANTS
  TypeOK
  BitsConserved
  PushBackSafe
  StreamEndChecked
  NoLeak
  CountersExact
PROPERTIES
  OkMeansBlocked
