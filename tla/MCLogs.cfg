SPECIFICATION Spec
CONSTANTS
  Kinds <- AllKinds
  Interval = 1
  CheckThreshold = 2
  Turns <- OneOrTwo
  MaxTime = 3
  MaxRecords = 4
  MaxFailures = 2
  MaxShown = 4
INVARIANTS TypeOK RecordsInOrder UndamagedAreShown OnlyDamageMisleads
