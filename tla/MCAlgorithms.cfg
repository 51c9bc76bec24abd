SPECIFICATION AlgorithmsSpec
CONSTANTS
  MaxCodeLen = 5
  TableBits = 2
  OverflowSize = 8
  SmallBlock = 7
  SmallThresh = 2
  StackSize = 5
  Frequencies <- MCFrequencies
  Limits <- MCLimits
  CodeLengths <- MCLengths
  Buffers <- MCBuffers
  ClassVectors <- MCClassVectors
  Bytes = {0, 1, 2}
  NQSort = 1
  NShell = 2
  PlainBytes = 2
  Unroll = 2
  MainThresh = 2
  MaxQuadrant = 3
  LargeBlocks <- MCLargeBlocks
  WorkFactors <- MCWorkFactors
  Top = 128
  ALPHABET_SIZE = 6
  LocalBuffer = 9
  Wide = 8
  Alignments <- MCAlignments
  Inputs <- MCInputs
  Junk <- MCJunk
INVARIANTS CodeLengthsOK LookUpAgrees CRCExact QSortShallow SameColumn EveryCallSorts BucketsApart BuffersReleased
