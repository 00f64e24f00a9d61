SPECIFICATION Spec
CONSTANTS
  Histories = {1, 2}
  Memory <- OneMemory
  Funds = 16
  FeeDivisor = 4
  One = 2
  Prices <- MCPrices
  Amounts <- NoAmount
  Pause = 1
  MaxTime = 6
  MaxDecisions = 4
  MaxCrashes = 1
INVARIANTS TypeOK
PROPERTIES ImplementsAccount
