SPECIFICATION FairSpec
CONSTANTS
  Calls <- TwoCalls
  Policies <- SiteAndTeam
  PoliciesFor <- AllUnderSite
  TokensOf <- SmallAndLarge
  Settings <- TightAndLoose
  Charges <- Zero
  Days <- SomeDays
  ReservationRetention = 2
  PeriodRetention = 2
INVARIANTS UsageTypeOK RequestsMatch TokensCovered CountedOnce
PROPERTIES WithinPolicy AllowanceReturns
CHECK_DEADLOCK FALSE
