CONSTANTS
  Jobs = {1, 2, 3}
  Tokens = {1, 2}
  OwnerOf <- OneOwner
  KeyOf <- SentTwice
  EditionJobs = {3}
  MaxActive = 2
  MaxOpen = 3
  MaxOpenGlobal = 3
  Concurrency = 2
SPECIFICATION Spec
INVARIANTS TypeOK OneRunningPerOwner EveryTaskHasSlot OneReportPerRequest
PROPERTIES LifeCycle
