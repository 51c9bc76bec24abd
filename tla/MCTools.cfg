SPECIFICATION ToolsSpec
CONSTANTS
  Scenarios <- Calls
  LongNames <- MCLongNames
  Chunks <- MCChunks
  MaxMishaps = 3
  StreamHeader <- MCStreamHeader
  BlockHeader <- MCBlockHeader
  EndMark <- MCEndMark
  ByteBits = 4
  CrcBits = 3
  MinBits = 9
  MaxBlocks = 8
  Images <- MCImages
  Existing <- MCExisting
INVARIANTS
  DataSurvives
  NothingPartialLeft
  ExitTells
  BlocksRecovered
