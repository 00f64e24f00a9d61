SPECIFICATION BacktestSpec
CONSTANTS
  Histories = {1, 2}
  Memory = {1}
  Funds = 8
  FeeDivisor = 4
  One = 2
  Prices = {1, 3}
  Amounts = {}
  Pause = 0
  MaxTime = 9
  MaxDecisions = 9
  MaxCrashes = 1
  Step = 2
  Files <- MCFiles
INVARIANTS PricesAreTheMarkets PricesStayInRange
PROPERTIES ImplementsAccount
