CONSTANTS
  Collections <- MCCollections
  Spam = {3}
  batch_size = 1
  block_size = 2
  Docs <- MCDocs
  Terms = {1, 2}
  MaxRuns = 2
  MaxLines = 2
SPECIFICATION Spec
INVARIANT ShiftsOrderDocuments
CHECK_DEADLOCK FALSE
