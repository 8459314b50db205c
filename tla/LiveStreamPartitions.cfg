CONSTANTS
  Ids = {1, 2}
  CatOf <- OwnCategory
  MaxVersion = 1
  MaxQueue = 1
  MaxWindow = 1
  MaxGone = 1
  MaxRetries = 1
  MaxSeq = 2
  MaxLater = 0
  MaxEpoch = 1
SPECIFICATION FairSpec
PROPERTIES Catches
