SPECIFICATION CodecSpec
CONSTANTS
  MaxCodeLen = 20
  TableBits = 2
  OverflowSize = 8
  SmallBlock = 7
  SmallThresh = 2
  StackSize = 5
  MapWidth = 3
  GroupSize = 2
  nblockMAX = 9
  GroupThresholds <- MCThresholds
  Iterations = 4
  LengthLimit = 17
  HalfWord = 4
  Leftover <- MCLeftover
  EarlierBlocks <- MCEarlierBlocks
  FailingBlocks <- MCFailingBlocks
  RNums <- MCRNums
  LowBits = 2
  MaxSelectors = 5
  RunLimit = 16
  MTFL_SIZE = 3
  MTFA_SIZE = 11
  Blocks <- MCBlocks
  DamagedBlocks <- MCDamagedBlocks
  MaxRoom = 4
INVARIANTS WriteBehindRead RoundTrip SameVerdict
