\* The call protocol: every action, every avail_in and avail_out, in any order.
CONSTANTS
  Bytes <- TwoBytes
  MaxRun = 4
  NblockMax = 1
  BlkSlack = 10
  W = 3
  Word = 2
  BlkUnits <- TwoSizes
  LastUnits <- TwoUnits
  TrlUnits = 3
  MaxIn = 3
  MaxOut = 2
SPECIFICATION FairSpec
INVARIANTS
  TypeOK
  NoByteLost
  StreamEndComplete
  CountersExact
  PromiseKept
PROPERTIES
  FlushComplete
  NoSpuriousError
  Implements
  RequestsEnd
