CONSTANTS
  maxv = 4
  Modulus = 1024
  table_block = 3
  Indexes <- MCIndexes
  Shards = {0, 1}
  K = 2
  Requests <- MCRequests
  Size = 4
  Mu = 3
  LnMax = 400
  Bits = 3
  MaxRuns = 3
  Names <- MCNames
  Stem <- MCStem
  CommandLines <- MCCommandLines
  Asked <- MCAsked
  Thresholds = {1, 3, 900}
SPECIFICATION MCSpec
INVARIANT ClusterOpens
CHECK_DEADLOCK FALSE
