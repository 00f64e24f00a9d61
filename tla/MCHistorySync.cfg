SPECIFICATION Spec
CONSTANTS
  a1 = a1
  a2 = a2
  b1 = b1
  b2 = b2
  o1 = o1
  o2 = o2
  mem = mem
  db1 = db1
  db2 = db2
  out = out
  Nothing = Nothing
  Halves <- MCHalves
  Waits <- MCWaits
  Histories = {mem, db1, db2, out}
  Memory = {mem}
  Printed = {out}
  Live = {db1, db2}
  Trades <- TwoTrades
  Orders <- OneOther
  Decisions <- OneOther
  MaxFeeds = 2
  MaxSyncs = 2
  MaxFailures = 1
SYMMETRY Symmetry
INVARIANTS TypeOK IndexMissesFailuresOnly
PROPERTIES TradesConverge OnlyMissingMoves
