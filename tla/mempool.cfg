SPECIFICATION Spec
CONSTANTS
  g = g  a1 = a1  a2 = a2  b1 = b1  b2 = b2
  f = f  k1 = k1  k2 = k2  k3 = k3  k4 = k4  p = p  c = c  d = d  e = e  s = s  u = u  r = r  q = q
  NULL = NULL
  Block = {g, a1, a2, b1, b2}
  Genesis = g
  pprev <- MCpprev
  Ancestors <- MCAncestors
  nHeight <- MCHeight
  nChainWork <- MCWork
  Address <- MCAddress
  Tx = {f, k1, k2, k3, k4, p, c, d, e, s, u, r, q}
  Coinbase = {k1, k2, k3, k4}
  vin <- MCvin
  nFee <- MCFee
  nTxSize <- MCSize
  nLockTime <- MCLockTime
  Signals = {p, s, u, r}
  Vtx <- MCVtx
  COINBASE_MATURITY = 2
  incrementalRelayFee = 1000
  limitAncestorCount = 3
  limitAncestorSize = 5
  limitDescendantCount = 4
  limitDescendantSize = 4
  sizelimit = 5
  Prioritisable = {c, d, s, r}
  Deltas = {1, 2}
  MaxDelta = 2
INVARIANTS PoolConsistent InputsAvailable ReorgSettled
PROPERTY ReplacementPays
