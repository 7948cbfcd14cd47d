CONSTANTS
  Lists <- MCLists
  Weights <- MCWeights
  Lowest <- MCLowest
  K = 2
  CollectionSize = 4
  block_size = 3
  payloads = {2}
SPECIFICATION Spec
INVARIANTS OffersAreScores SkippedAreWorthless RangesInOrder AnswerIsBest AnswersAgree
CHECK_DEADLOCK FALSE
