\* A flush that is over has delivered all the output: refuted.
CONSTANTS
  Bytes <- TwoBytes
  MaxRun = 4
  NblockMax = 1
  BlkSlack = 10
  W = 3
  Word = 1
  BlkUnits <- OneSize
  LastUnits <- OneUnit
  TrlUnits = 2
  MaxIn = 2
  MaxOut = 2
SPECIFICATION Spec
PROPERTIES
  FlushDeliversAll
