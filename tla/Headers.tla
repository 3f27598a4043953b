------------------------------- MODULE Headers -------------------------------
(***************************************************************************)
(* Which headers a node accepts, and what it concludes from their          *)
(* versions: AcceptBlockHeader with its contextual checks, the caches of   *)
(* rule-change states that header checks, block checks and the warnings of *)
(* UpdateTip share, and UnloadBlockIndex, after which the pointers that    *)
(* key the caches are used again.                                          *)
(***************************************************************************)
EXTENDS Difficulty, VersionBits

CONSTANTS
  nAuxpowStartHeight,
  UpgradeWindow,                  \* 100: the blocks whose versions UpdateTip looks at
  Bit,                            \* the version bits that are watched, of 0..28
  TimeMax,                        \* the largest int64_t
  GenesisBlock,                   \* its time, version and target
  Clock,                          \* times of the node
  Mined,                          \* what miners do: how far the time moves, and the version
  MaxHeaders, MaxForks

\* In the model the last 100 blocks are always the whole chain.
ASSUME UpgradeWindowAssumption == UpgradeWindow > MaxHeight

VARIABLES
  tip,                            \* chainActive.Tip()
  latchToFalse,                   \* IsInitialBlockDownload has returned false
  versionbitscache, warningcache,
  fWarned                         \* UpdateTip has called SetMiscWarning

caches == <<versionbitscache, warningcache>>
vars == <<mapBlockIndex, tip, latchToFalse, caches, fWarned>>

EmptyCache == [p \in {} |-> "DEFINED"]
NoVersionBits == [d \in Deployment |-> EmptyCache]
NoWarnings == [b \in Bit |-> EmptyCache]

GenesisEntry ==
  [pprev |-> NULL, pskip |-> NULL, nHeight |-> 0, nTime |-> GenesisBlock.nTime,
   nBits |-> GetCompact(GenesisBlock.target), nVersion |-> GenesisBlock.nVersion]

Init ==
  /\ mapBlockIndex = <<GenesisEntry>>
  /\ tip = 1
  /\ latchToFalse = FALSE
  /\ versionbitscache = NoVersionBits
  /\ warningcache = NoWarnings
  /\ fWarned = FALSE

------------------------------------------------------------------------------
(* Header acceptance *)

IsLegacy(nVersion) == nVersion \in {{0}, {1}}
IsAuxpow(nVersion) == 8 \in nVersion
AllowLegacyBlocks(height) == nAuxpowStartHeight < 0 \/ height < nAuxpowStartHeight

\* The low byte; the chain id and the auxpow flag are above it.
GetBaseVersion(nVersion) == SumSet({2^b : b \in nVersion \cap 0..7})

KindAllowed(height, nVersion) ==
  IF AllowLegacyBlocks(height) THEN ~IsAuxpow(nVersion) ELSE ~IsLegacy(nVersion)

\* The checks of ContextualCheckBlockHeader before it looks at deployments.
TimeAndWorkChecked(pindexPrev, nTime, nBits, nVersion, now) ==
  /\ KindAllowed(HeightOf(pindexPrev) + 1, nVersion)
  /\ nBits = GetNextWorkRequired(pindexPrev, nTime, now)
  /\ nTime > GetMedianTimePast(pindexPrev)
  /\ nTime <= now + MaxFutureBlockTime

HeaderDeployments == {"BIP34", "BIP65", "BIP66"}

\* The versions the code rejects as outdated.
BadVersion(known, pindexPrev, nVersion) ==
  LET base == GetBaseVersion(nVersion)
      Is(d, state) == StateIn(known, d, pindexPrev) = state
  IN  \/ base < 2 /\ Is("BIP34", "ACTIVE") /\ Is("BIP34", "LOCKED_IN")
      \/ base < 3 /\ Is("BIP66", "ACTIVE") /\ Is("BIP65", "LOCKED_IN")
      \/ base < 4 /\ Is("BIP65", "ACTIVE") /\ Is("BIP66", "LOCKED_IN")

\* A variant in which pskip is too high.
SkipsToParent(pindexPrev, nTime, nBits, nVersion) ==
  [pprev |-> pindexPrev, pskip |-> pindexPrev,
   nHeight |-> HeightOf(pindexPrev) + 1, nTime |-> nTime, nBits |-> nBits, nVersion |-> nVersion]

NewEntry(pindexPrev, nTime, nBits, nVersion) ==
  [pprev |-> pindexPrev, pskip |-> GetAncestor(pindexPrev, GetSkipHeight[HeightOf(pindexPrev) + 1]),
   nHeight |-> HeightOf(pindexPrev) + 1, nTime |-> nTime, nBits |-> nBits, nVersion |-> nVersion]

\* The model's bound on the size of the tree: a fork counts as one more header.
WithinBounds(pindexPrev) ==
  LET forks == Cardinality({p \in Index \cup {Len(mapBlockIndex) + 1} :
                              (IF p \in Index THEN Parent(p) ELSE pindexPrev) # p - 1})
  IN  /\ Len(mapBlockIndex) + forks < MaxHeaders
      /\ HeightOf(pindexPrev) < MaxHeight
      /\ forks <= MaxForks

\* A header on top of pindexPrev.  Its bits are the ones that are asked for: with any
\* others it is refused and nothing changes, as nothing does for a header that is known.
AcceptBlockHeader(pindexPrev, nTime, nVersion, nAdjustedTime) ==
  LET nBits == GetNextWorkRequired(pindexPrev, nTime, nAdjustedTime)
      entry == NewEntry(pindexPrev, nTime, nBits, nVersion)
  IN  /\ WithinBounds(pindexPrev)
      /\ \A p \in Index : mapBlockIndex[p] # entry
      /\ TimeAndWorkChecked(pindexPrev, nTime, nBits, nVersion, nAdjustedTime)
      /\ versionbitscache' = Queried(versionbitscache, HeaderDeployments, {pindexPrev})
      /\ mapBlockIndex' = IF BadVersion(versionbitscache', pindexPrev, nVersion) THEN mapBlockIndex
                          ELSE Append(mapBlockIndex, entry)
      /\ UNCHANGED <<tip, latchToFalse, warningcache, fWarned>>

------------------------------------------------------------------------------
(* The tip moves *)

\* The versions that were expected of the blocks on the chain of p.
Expected(known, p) == [q \in ChainOf(p) |-> ComputeBlockVersion(known, Parent(q))]

\* The checker of a bit that no deployment gives a meaning where it is used
\* (WarningBitsConditionChecker).
WarningChecker(expected, bit) ==
  [nTimeStart |-> 0, nTimeTimeout |-> TimeMax,
   Condition |-> {q \in DOMAIN expected : /\ HasTopBits(mapBlockIndex[q].nVersion)
                                          /\ bit \in mapBlockIndex[q].nVersion \ expected[q]}]

\* Blocks of the last 100 with a base version that was not expected.
Upgraded(expected) ==
  {q \in DOMAIN expected : /\ GetBaseVersion(mapBlockIndex[q].nVersion) > 4
                           /\ (mapBlockIndex[q].nVersion \ expected[q]) \cap 0..7 # {}}

\* A variant in which only a rule that is locked in leads to a lasting warning.
WarnsOfLockedIn(p, known) ==
  LET expected == Expected(known, p)
  IN  /\ versionbitscache' = known
      /\ warningcache' = [b \in Bit |-> GetStateFor(WarningChecker(expected, b), warningcache[b], p)]
      /\ fWarned' = \/ fWarned
                    \/ \E b \in Bit : warningcache'[b][PeriodEnd(p)] = "LOCKED_IN"
                    \/ Cardinality(Upgraded(expected)) > UpgradeWindow \div 2

\* The part of UpdateTip that runs outside the initial download.
CheckVersions(p, known) ==
  LET expected == Expected(known, p)
  IN  /\ versionbitscache' = known
      /\ warningcache' = [b \in Bit |-> GetStateFor(WarningChecker(expected, b), warningcache[b], p)]
      /\ fWarned' = \/ fWarned
                    \/ \E b \in Bit : warningcache'[b][PeriodEnd(p)] = "ACTIVE"
                    \/ Cardinality(Upgraded(expected)) > UpgradeWindow \div 2

\* UpdateTip(p), with the cache of deployments the caller has left.  IsInitialBlockDownload
\* may return true until it has once returned false.
UpdateTip(p, left) ==
  /\ tip' = p
  /\ \/ /\ latchToFalse' = TRUE
        /\ CheckVersions(p, Queried(left, Deployment, {Parent(q) : q \in ChainOf(p)}))
     \/ /\ ~latchToFalse
        /\ versionbitscache' = left
        /\ UNCHANGED <<latchToFalse, warningcache, fWarned>>
  /\ UNCHANGED mapBlockIndex

\* ContextualCheckBlock and ConnectBlock ask for the states before p, then p is the tip.
ConnectTip(p) ==
  /\ Parent(p) = tip
  /\ UpdateTip(p, Queried(versionbitscache, Deployment, {tip}))

\* A variant that disconnects the genesis block.
DisconnectsAnyTip == UpdateTip(Parent(tip), versionbitscache)

DisconnectTip ==
  /\ Parent(tip) # NULL
  /\ UpdateTip(Parent(tip), versionbitscache)

------------------------------------------------------------------------------
(* Restart *)

\* The process starts again with the index it has saved.
Restart ==
  /\ latchToFalse' = FALSE
  /\ versionbitscache' = NoVersionBits
  /\ warningcache' = NoWarnings
  /\ fWarned' = FALSE
  /\ UNCHANGED <<mapBlockIndex, tip>>

\* A variant that leaves what VerifyDB has put into the cache of deployments.
KeepsCaches ==
  /\ mapBlockIndex' = <<GenesisEntry>>
  /\ tip' = 1
  /\ latchToFalse' = FALSE
  /\ versionbitscache' = Queried(NoVersionBits, Deployment, {Parent(q) : q \in ChainOf(tip)})
  /\ warningcache' = NoWarnings
  /\ fWarned' = FALSE

\* The process starts again, VerifyDB connects the blocks once more and fails, and
\* UnloadBlockIndex clears the way for an index that is built anew.
UnloadBlockIndex ==
  /\ mapBlockIndex' = <<GenesisEntry>>
  /\ tip' = 1
  /\ latchToFalse' = FALSE
  /\ versionbitscache' = NoVersionBits
  /\ warningcache' = NoWarnings
  /\ fWarned' = FALSE

Next ==
  \/ \E p \in Index, m \in Mined, now \in Clock :
       AcceptBlockHeader(p, TimeOf(p) + m.offset, m.nVersion, now)
  \/ \E p \in Index : ConnectTip(p)
  \/ DisconnectTip
  \/ Restart
  \/ UnloadBlockIndex

Spec == Init /\ [][Next]_vars

------------------------------------------------------------------------------
(* Properties *)

\* Entries point to older entries, and only the genesis block has no parent.
TypeOK ==
  /\ \A p \in Index : /\ Parent(p) \in 0..p - 1 /\ mapBlockIndex[p].pskip \in 0..p - 1
                       /\ (Parent(p) = NULL) = (p = 1)
                       /\ mapBlockIndex[p].nVersion \in {m.nVersion : m \in Mined} \cup {GenesisBlock.nVersion}
  /\ tip \in Index
  /\ {latchToFalse, fWarned} \subseteq BOOLEAN
  /\ DOMAIN versionbitscache = Deployment /\ DOMAIN warningcache = Bit

\* GetAncestor, which jumps along pskip and counts heights instead of reading them, finds
\* what following pprev finds: a pskip is always at the height the walk takes it to be at.
AncestorExact ==
  \A p \in Index : \A q \in ChainOf(p) : GetAncestor(p, HeightOf(q)) = q

\* The reference for GetStateFor, by quantifying over the ends of periods instead of
\* walking: a deployment locks in at the first end of a period with enough signals after
\* one past its start, if its timeout has not come by then.
Ends(p) == {q \in ChainOf(p) : (HeightOf(q) + 1) % nMinerConfirmationWindow = 0}

Signalling(condition, q) ==
  {r \in ChainOf(q) \cap condition : HeightOf(r) > HeightOf(q) - nMinerConfirmationWindow}

BIP9State(checker, end) ==
  LET ends == Ends(end)
      median == [q \in ends |-> GetMedianTimePast(q)]
      started == {q \in ends : median[q] >= checker.nTimeStart}
      over == {q \in ends : median[q] >= checker.nTimeTimeout}
      locked == {q \in ends :
                   /\ \E s \in started : HeightOf(s) < HeightOf(q)
                   /\ \A r \in over : HeightOf(r) > HeightOf(q)
                   /\ Cardinality(Signalling(checker.Condition, q)) >= nRuleChangeActivationThreshold}
  IN  IF locked \ {end} # {} THEN "ACTIVE"
      ELSE IF locked # {} THEN "LOCKED_IN"
      ELSE IF over # {} THEN "FAILED"
      ELSE IF started # {} THEN "STARTED"
      ELSE "DEFINED"

BIP9Version(p) ==
  {TOP_BIT} \cup {vDeployments[d].bit : d \in
     {e \in Deployment : BIP9State(DeploymentChecker(e), PeriodEnd(p)) \in {"STARTED", "LOCKED_IN"}}}

\* The height GetStateSinceHeightFor reports for the tip is the first with its state.
SinceExact ==
  \A d \in Deployment :
    LET checker == DeploymentChecker(d)
        state == BIP9State(checker, PeriodEnd(tip))
        same == {q \in Ends(tip) : BIP9State(checker, q) = state}
    IN  GetStateSinceHeightFor(checker, versionbitscache[d], tip) =
          IF state = "DEFINED" THEN 0 ELSE Min({HeightOf(q) + 1 : q \in same})

\* Whatever blocks were asked for before, on whatever branch, and whatever was computed
\* before the index was loaded again, every cached state is the one that BIP 9 defines;
\* so header checks, block checks and warnings of all nodes agree on it, and on the height
\* it holds since.
StatesExact ==
  LET expected == [q \in Index |-> BIP9Version(Parent(q))]
      Exact(cache, checker) ==
        \A e \in DOMAIN cache : e \in Index \cup {NULL} /\ cache[e] = BIP9State(checker, e)
  IN  /\ \A d \in Deployment : Exact(versionbitscache[d], DeploymentChecker(d))
      /\ \A b \in Bit : Exact(warningcache[b], WarningChecker(expected, b))
      /\ SinceExact

\* The median time never goes back along a chain, although block times may: the shortcut
\* of GetStateFor ("we know every earlier block will be before the start time") and the
\* lock times of BIP 113 rest on it.
MedianTimeMonotone ==
  \A p \in Index \ {1} : GetMedianTimePast(p) >= GetMedianTimePast(Parent(p))

\* On the main network no block may be more than four times easier than its parent, or more
\* than sixteen times harder, and none is easier than the limit or impossible.
DifficultyStepBounded ==
  ~fPowAllowMinDifficultyBlocks =>
    \A p \in Index \ {1} :
      /\ TargetOf(p) > 0
      /\ TargetOf(p) <= powLimit
      /\ TargetOf(p) <= 4 * TargetOf(Parent(p))
      /\ TargetOf(p) >= SetCompact(GetCompact(TargetOf(Parent(p)) \div 16))

\* The new difficulty of a retarget always passes PermittedDifficultyTransition: what
\* rounding to the compact form takes away never takes it out of the limits, so the old
\* difficulty is never kept by that test.
RetargetPermitted ==
  \A p \in Index :
    LET height == HeightOf(p) + 1
    IN  height % IntervalAt(height) = 0 =>
          PermittedDifficultyTransition(height, mapBlockIndex[p].nBits,
            CalculateNextWorkRequired(p, TimeOf(GetAncestor(p, FirstHeight(height)))))

\* The timespans that the retargets of a chain measure add up to the time that passed: no
\* interval between blocks is left out or counted twice, also where the rules change.
TimespansAddUp ==
  \A p \in Index :
    LET retargets == {h \in 1..HeightOf(p) + 1 : h % IntervalAt(h) = 0}
        Time(h) == TimeOf(GetAncestor(p, h))
    IN  retargets # {} =>
          MapThenSumSet(LAMBDA h : Time(h - 1) - Time(FirstHeight(h)), retargets)
            = Time(Max(retargets) - 1) - Time(0)

\* A retarget measures the right time, scales the difficulty within its limits and is not
\* undone by the test that follows it.
RetargetsSound == RetargetPermitted /\ DifficultyStepBounded /\ TimespansAddUp

\* A header that was accepted is accepted again at any time of the node's clock that is not
\* too far behind it: what a node takes does not depend on when it sees it, and an index
\* can be built anew from the blocks.
Reacceptable ==
  \A p \in Index \ {1}, now \in Clock :
    LET e == mapBlockIndex[p]
    IN  e.nTime <= now + MaxFutureBlockTime =>
          TimeAndWorkChecked(e.pprev, e.nTime, e.nBits, e.nVersion, now)

\* Once the versions on the chain of the tip are checked, rules that have become active
\* without being known have been warned of.
UnknownRulesWarned ==
  LET expected == [q \in ChainOf(tip) |-> BIP9Version(Parent(q))]
  IN  \A b \in Bit : /\ PeriodEnd(tip) \in DOMAIN warningcache[b]
                      /\ BIP9State(WarningChecker(expected, b), PeriodEnd(tip)) = "ACTIVE"
                      => fWarned

\* "Threshold condition checker that triggers when unknown versionbits are seen on the
\* network": a warning has a cause other than the chain id and the flag of merged mining.
WarnedForUnknown ==
  fWarned => \E p \in Index : mapBlockIndex[p].nVersion \ ({8, 21, 29} \cup {vDeployments[d].bit : d \in Deployment}) # {}

\* "Reject outdated version blocks when 95% (75% on testnet) of the network has upgraded".
OutdatedRejected ==
  LET known == Queried(NoVersionBits, HeaderDeployments, Index)
      base(p) == GetBaseVersion(mapBlockIndex[p].nVersion)
  IN  \A p \in Index \ {1} :
        /\ StateIn(known, "BIP66", Parent(p)) = "ACTIVE" => base(p) >= 3
        /\ StateIn(known, "BIP65", Parent(p)) = "ACTIVE" => base(p) >= 4
=============================================================================
