SPECIFICATION Spec
CONSTANTS
  g = g
  a1 = a1
  a2 = a2
  a3 = a3
  b1 = b1
  n2 = n2
  d3 = d3
  s2 = s2
  NULL = NULL
  Pruned = Pruned
  Genesis = g
  Txid <- MCTxid
  Coins <- MCCoins
  BlockHash <- MCBlock
  pprev <- MCpprev
  nHeight <- MCHeight
  vtx <- MCvtx
  vin <- MCvin
  vout <- MCvout
  fEnforceBIP30 = TRUE
  BadScripts = {s2}
  Watched = {"cb"}
INVARIANTS CacheFlagsHonest UtxoExact UndoComplete CoinsAsExpected VerdictExact
PROPERTY ImplementsPlainMaps
