SPECIFICATION Spec
CONSTANTS
  Calls <- FourCalls
  Requests <- TwoRequests
  NoRequest = NoRequest
  OutputOf <- SmallAndLarge
  MaxCalls = 3
  MaxOutput = 8
  Counts <- LowAndHigh
INVARIANTS CallsTypeOK WithinBudget CostIsCharged ExhaustedNotRepeated RoomWhenQueued
PROPERTIES EndIsFinal
CHECK_DEADLOCK FALSE
