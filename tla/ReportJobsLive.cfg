CONSTANTS
  Jobs = {1, 2, 3}
  Tokens = {1}
  OwnerOf <- TwoOwners
  KeyOf <- OwnRequests
  EditionJobs = {}
  MaxActive = 2
  MaxOpen = 2
  MaxOpenGlobal = 2
  Concurrency = 1
SPECIFICATION FairSpec
INVARIANTS OpenWithinLimit
PROPERTIES QueueMoves ImplementsService
