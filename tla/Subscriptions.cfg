CONSTANTS
  Jobs = {1, 2, 3}
  Tokens = {t1, t2}
  OwnerOf <- OneOwner
  KeyOf <- OwnRequests
  EditionJobs = {1, 2}
  MaxActive = 1
  MaxOpen = 1
  MaxOpenGlobal = 1
  Concurrency = 1
  SubOf <- OneSubscription
  Manual = {1}
  MaxRetries = 1
SPECIFICATION SubSpec
SYMMETRY AnyTokens
CONSTRAINT PreparedApart
INVARIANTS SubTypeOK EditionFollowsJob OneActiveEdition PausedIsQuiet
PROPERTIES ImplementsEditions
