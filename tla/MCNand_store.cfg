SPECIFICATION FairSpec
CONSTANTS
  NumBlocks = 3
  BlockSize = 2
  PageSize = 1
  Entries = 3
  Window = 3
  MaxWrites = 1
  MaxLen = 4
  Lengths = {1, 4}
INVARIANTS TypeOK MapExact InOrder WriteDone ReadBack
PROPERTIES Returns
