SPECIFICATION FairSpec
CONSTANTS
  g = g
  a1 = a1
  a2 = a2
  a3 = a3
  b2 = b2
  slow = slow
  good = good
  NULL = NULL
  Block = {g, a1, a2, a3, b2}
  Genesis = g
  pprev <- MCpprev
  Ancestors <- MCAncestors
  nHeight <- MCHeight
  nChainWork <- MCWork
  Address <- MCAddress
  Peer = {slow, good}
  Slow = {slow}
  Preferred = {slow, good}
  Whitelisted = {}
  Compact = {slow, good}
  Tips <- MCTips
  Submitted = {a3}
  NearTip = 2
  BLOCK_DOWNLOAD_WINDOW = 2
  MAX_BLOCKS_IN_TRANSIT_PER_PEER = 2
  MAX_HEADERS_RESULTS = 2
INVARIANTS InFlightExact CountersExact StallerOwes RequestsOpen CommonBlockExact
PROPERTY SyncCompletes
