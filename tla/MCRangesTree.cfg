SPECIFICATION Spec
CONSTANTS
  Keys <- MCKeys
  Now <- Later
  Kinds = {"tree"}
  MaxItems = 4
  MaxWalks = 2
  MaxRanges = 1
INVARIANTS TreeStaysInBounds
