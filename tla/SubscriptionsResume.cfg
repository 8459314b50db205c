CONSTANTS
  Jobs = {1, 2}
  Tokens = {1, 2}
  OwnerOf <- OneOwner
  KeyOf <- OwnRequests
  EditionJobs = {2}
  MaxActive = 1
  MaxOpen = 2
  MaxOpenGlobal = 2
  Concurrency = 1
  SubOf <- OneSubscription
  Manual = {}
  MaxRetries = 2
SPECIFICATION SubSpec
INVARIANT ScheduleCanResume
