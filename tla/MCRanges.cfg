SPECIFICATION Spec
CONSTANTS
  Keys <- MCKeys
  Now <- Later
  Kinds <- AllKinds
  MaxItems = 4
  MaxWalks = 2
  MaxRanges = 2
INVARIANTS TypeOK ShownInOrder StraysComeFirst NothingMissed CursorsAreHeld
