\* The data: longer inputs with runs up to MaxRun and past it.
CONSTANTS
  Bytes <- TwoBytes
  MaxRun = 5
  NblockMax = 2
  BlkSlack = 10
  W = 61
  Word = 2
  BlkUnits <- OneSize
  LastUnits <- OneUnit
  TrlUnits = 3
  MaxIn = 7
  MaxOut = 60
SPECIFICATION DataSpec
INVARIANTS
  BlockFits
  NoInputLost
  CRCsMatch
