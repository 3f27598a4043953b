SPECIFICATION Spec
CONSTANTS
  MaxHeight = 3
  MaxFile = 1
  BlocksPerFile = 2
  MIN_BLOCKS_TO_KEEP = 1
  nPruneAfterHeight = 1
  MaxRestarts = 2
INVARIANTS IndexBacked Readable DirtyExact CoinsInIndex
PROPERTY RecentBlocksKept
