CONSTANTS
  K = 3
  Values <- MCValues
  Lowest <- MCLowest
  MaxOffers = 6
  Docs = {0, 1, 3}
  Terms = {1, 2, 3}
  MaxOccurrences = 4
SPECIFICATION MCSpec
INVARIANT ZeroBeforeKth
CHECK_DEADLOCK FALSE
