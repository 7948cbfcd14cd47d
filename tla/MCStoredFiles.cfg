CONSTANTS
  maxv = 4
  Modulus = 1024
  table_block = 2
  keys_per_block = 2
  Indexes <- MCIndexes
  Strings <- MCStrings
  Queries <- MCQueries
  Orderings <- MCOrderings
  ScoreNames <- MCScoreNames
  Lists <- MCLists
  BlockSizes <- SameSizes
  MaxDocument = 6
  SymbolBound = 6
  BlockBits = 28
  NumberBits = 3
  ByteBits = 2
  ShiftRange = 6
  MaxFrequency = 3
  Lowered <- MCLowered
  Contents <- MCContents
  MaxViews = 3
SPECIFICATION MCSpec
INVARIANTS LookupsExact ListsSelected TablesRead
INVARIANTS CodesExact PrefixMapExact ShowsResponses ViewsShowFile
PROPERTIES ImplementsCursor ReadingEnds
