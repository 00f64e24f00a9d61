SPECIFICATION Spec
CONSTANTS
  Histories = {1, 2, 3}
  Memory = {1}
  Funds = 4
  FeeDivisor = 4
  One = 1
  Prices = {1}
  Amounts = {1}
  Pause = 0
  MaxTime = 2
  MaxDecisions = 3
  MaxCrashes = 1
INVARIANTS LedgerAddsUp DecisionsAreBacked LaterHistoriesLeaveOut
