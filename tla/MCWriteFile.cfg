\* Writing a file: every sequence of writes, every failure of the FILE.
CONSTANTS
  Bytes <- TwoBytes
  MaxRun = 4
  NblockMax = 1
  BlkSlack = 10
  W = 10
  Word = 2
  BlkUnits <- TwoSizes
  LastUnits <- TwoUnits
  TrlUnits = 3
  MaxIn = 5
  MaxOut = 9
  BufSize = 2
  ModeStrings <- MCModeStrings
  BuffRooms <- MCBuffRooms
SPECIFICATION FSpec
INVARIANTS
  StreamAgrees
  FileIsPrefix
  CloseIsComplete
