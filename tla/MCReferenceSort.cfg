\* The block sorts of libqbz2 and of the reference, on periodic blocks too.
SPECIFICATION CodersSpec
CONSTANTS
  MaxCodeLen = 5
  TableBits = 2
  OverflowSize = 8
  SmallBlock = 7
  SmallThresh = 2
  StackSize = 5
  Frequencies <- MCFrequencies
  Limits <- MCLimits
  CodeLengths <- MCLengths
  Buffers <- MCBuffers
  ClassVectors <- MCClassVectors
  Bytes = {0, 1, 2}
  NQSort = 1
  NShell = 2
  PlainBytes = 2
  Unroll = 2
  MainThresh = 2
  MaxQuadrant = 3
  LargeBlocks <- MCLargeBlocks
  WorkFactors <- MCWorkFactors
INVARIANT SameOrigPtr
