SPECIFICATION Spec
CONSTANTS
  OrderIds <- MCOrderIds
  Times <- MCFanTimes
  Threshold = 1
  Histories <- MCHistories
  MaxEvents = 3
  MaxReceived = 4
PROPERTIES HistoriesMissNothing
