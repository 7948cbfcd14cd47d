CONSTANTS
  Collections <- MCCollections
  Spam = {3}
  batch_size = 2
  block_size = 2
  Docs <- MCDocs
  Terms = {1, 2}
  MaxRuns = 3
  MaxLines = 3
SPECIFICATION Spec
INVARIANT IndexHoldsCollection
PROPERTY RunsEnd
CHECK_DEADLOCK FALSE
