SPECIFICATION FairSpec
CONSTANTS
    Worker = {w1, w2}
    Master = {m1}
    Check <- MCCheck
    Bad <- MCBad
    nBatchSize = 2
INVARIANTS ResultExact NothingLeftOver
PROPERTY WaitReturns
