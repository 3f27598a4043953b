SPECIFICATION Spec
CONSTANTS
    g = g
    a1 = a1
    a2 = a2
    a3 = a3
    b1 = b1
    b2 = b2
    c2 = c2
    NULL = NULL
    Genesis = g
    Block <- MCBlock
    Ancestors <- MCAncestors
    nHeight <- MCHeight
    Address <- MCAddress
    ForkDropDepth = 2
    InvalidLead = 1
    ForkMinLength = 0
    ForkMaxDepth = 2
    ConnectBatch = 2
    MIN_BLOCKS_TO_KEEP = 2
    nPruneAfterHeight = 2
    MaxSequenceId = 8
    MaxPrecious = 1
    fInitialDownload = FALSE
    pprev <- Three
    nChainWork <- UnitWork
    Verdict <- AllValid
    Thread = {t1, t2}
    Rpc = {}
    fPruneMode = FALSE
INVARIANT BestChainActive
