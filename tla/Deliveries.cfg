CONSTANTS
  N = 2
  Workers = {w1, w2}
  MaxAttempts = 3
  Webhooks = {1}
  Nobody = Nobody
SPECIFICATION Spec
INVARIANTS DeliveriesTypeOK AcceptedOnce OutcomeIsTrue NothingStranded
PROPERTY NoLateSend
