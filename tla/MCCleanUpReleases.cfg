\* Closing after an error releases the memory: refuted.
CONSTANTS
  Bytes <- TwoBytes
  MaxRun = 4
  NblockMax = 1
  BlkSlack = 10
  W = 3
  Word = 2
  BlkUnits <- OneSize
  LastUnits <- OneUnit
  TrlUnits = 3
  MaxIn = 2
  MaxOut = 2
  BufSize = 2
  ModeStrings <- MCModeStrings
  BuffRooms <- TwoRooms
SPECIFICATION FSpec
PROPERTIES
  CleanUpReleases
