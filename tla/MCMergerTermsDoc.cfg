CONSTANTS
  Files <- MCFiles
  Inputs <- MCInputs
  block_size = 2
  batch_block = 2
  TermSet = {1, 2}
SPECIFICATION MergerSpec
INVARIANT OneRowPerTerm
