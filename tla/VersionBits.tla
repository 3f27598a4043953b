----------------------------- MODULE VersionBits -----------------------------
(***************************************************************************)
(* The state of rule changes that miners signal for in block versions      *)
(* (versionbits.cpp), computed per period of blocks and cached by block.   *)
(* A cache is a function from the blocks it knows; it is keyed by the last *)
(* block of a period, or NULL before the first one.  A checker has the     *)
(* time its deployment starts and times out, and the blocks that signal.   *)
(***************************************************************************)
EXTENDS HeaderTree, FiniteSetsExt

CONSTANTS
  nMinerConfirmationWindow, nRuleChangeActivationThreshold,
  Deployment, vDeployments        \* for each deployment its bit, start and timeout

TOP_BIT == 29                     \* VERSIONBITS_TOP_BITS; bits 30 and 31 are clear

State == {"DEFINED", "STARTED", "LOCKED_IN", "ACTIVE", "FAILED"}

HasTopBits(nVersion) == TOP_BIT \in nVersion /\ {30, 31} \cap nVersion = {}

\* The checker of a deployment (VersionBitsConditionChecker).
DeploymentChecker(d) ==
  [nTimeStart |-> vDeployments[d].nStartTime, nTimeTimeout |-> vDeployments[d].nTimeout,
   Condition |-> {p \in Index : /\ HasTopBits(mapBlockIndex[p].nVersion)
                                /\ vDeployments[d].bit \in mapBlockIndex[p].nVersion}]

\* The block whose state the block after pindexPrev has.
PeriodEnd(pindexPrev) ==
  IF pindexPrev = NULL THEN NULL
  ELSE GetAncestor(pindexPrev,
         HeightOf(pindexPrev) - ((HeightOf(pindexPrev) + 1) % nMinerConfirmationWindow))

Signals(checker, p) ==
  Cardinality({h \in HeightOf(p) - nMinerConfirmationWindow + 1 .. HeightOf(p) :
                 GetAncestor(p, h) \in checker.Condition})

\* The state after a period that ends with p, from the one before it.
StateNext(checker, p, state) ==
  CASE state = "DEFINED" /\ GetMedianTimePast(p) >= checker.nTimeTimeout -> "FAILED"
    [] state = "DEFINED" /\ GetMedianTimePast(p) < checker.nTimeTimeout
                         /\ GetMedianTimePast(p) >= checker.nTimeStart -> "STARTED"
    [] state = "STARTED" /\ GetMedianTimePast(p) >= checker.nTimeTimeout -> "FAILED"
    [] state = "STARTED" /\ GetMedianTimePast(p) < checker.nTimeTimeout
                         /\ Signals(checker, p) >= nRuleChangeActivationThreshold -> "LOCKED_IN"
    [] state = "LOCKED_IN" -> "ACTIVE"
    [] OTHER -> state

\* Walk back in steps of a period to a block the cache knows, then forward again.
RECURSIVE Computed(_, _, _)
Computed(checker, cache, p) ==
  IF p \in DOMAIN cache THEN cache
  ELSE IF p = NULL THEN cache @@ (p :> "DEFINED")
  ELSE IF GetMedianTimePast(p) < checker.nTimeStart THEN cache @@ (p :> "DEFINED")
  ELSE LET previous == GetAncestor(p, HeightOf(p) - nMinerConfirmationWindow)
           below == Computed(checker, cache, previous)
       IN  below @@ (p :> StateNext(checker, p, below[previous]))

\* The cache GetStateFor leaves; the state it returns is the entry of PeriodEnd.
GetStateFor(checker, cache, pindexPrev) == Computed(checker, cache, PeriodEnd(pindexPrev))

\* GetStateFor for every deployment of a set and every block of a set.
Queried(caches, deployments, blocks) ==
  [d \in Deployment |->
     IF d \notin deployments THEN caches[d]
     ELSE LET checker == DeploymentChecker(d)
          IN  FoldSet(LAMBDA p, cache : GetStateFor(checker, cache, p), caches[d], blocks)]

\* The state of a deployment that the caches hold after a query for pindexPrev.
StateIn(caches, d, pindexPrev) == caches[d][PeriodEnd(pindexPrev)]

ComputeBlockVersion(caches, pindexPrev) ==
  {TOP_BIT} \cup {vDeployments[d].bit :
                    d \in {e \in Deployment : StateIn(caches, e, pindexPrev) \in {"STARTED", "LOCKED_IN"}}}

\* The walk back over whole periods with the same state (GetStateSinceHeightFor).
RECURSIVE SinceFrom(_, _, _)
SinceFrom(checker, cache, p) ==
  LET previous == GetAncestor(p, HeightOf(p) - nMinerConfirmationWindow)
  IN  IF previous # NULL /\ GetStateFor(checker, cache, previous)[previous] = cache[p]
      THEN SinceFrom(checker, cache, previous)
      ELSE HeightOf(p) + 1

\* A variant that does not look at earlier periods.
SinceThisPeriod(checker, cache, pindexPrev) ==
  LET known == GetStateFor(checker, cache, pindexPrev)
      end == PeriodEnd(pindexPrev)
  IN  IF known[end] = "DEFINED" THEN 0 ELSE HeightOf(end) + 1

GetStateSinceHeightFor(checker, cache, pindexPrev) ==
  LET known == GetStateFor(checker, cache, pindexPrev)
      end == PeriodEnd(pindexPrev)
  IN  IF known[end] = "DEFINED" THEN 0 ELSE SinceFrom(checker, known, end)
=============================================================================
