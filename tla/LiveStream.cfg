CONSTANTS
  Ids = {1}
  CatOf <- OwnCategory
  MaxVersion = 2
  MaxQueue = 1
  MaxWindow = 2
  MaxGone = 0
  MaxRetries = 0
  MaxSeq = 2
  MaxLater = 2
  MaxEpoch = 2
SPECIFICATION Spec
INVARIANTS StreamTypeOK StreamCovers PositionKept MirrorCurrent
