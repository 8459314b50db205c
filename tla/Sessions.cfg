SPECIFICATION SessionsSpec
CONSTANTS
  MaxTokens = 3
  MaxFamilies = 2
  Clients = {c1, c2}
  Idle = 2
  Ttl = 2
  MaxTime = 2
  MaxVersion = 1
SYMMETRY Symmetric
INVARIANTS SessionsTypeOK OneLiveToken LiveIsProven HonestRefresh
PROPERTIES NoRevival
