----------------------------- MODULE Difficulty -----------------------------
(***************************************************************************)
(* The proof of work a header must claim (pow.cpp), and the compact form   *)
(* targets are kept in (arith_uint256.cpp).                                *)
(***************************************************************************)
EXTENDS HeaderTree

CONSTANTS
  Radix,                          \* 256: a compact target has an exponent in bytes
  MantissaDigits,                 \* 3: and a mantissa of three bytes, the top bit a sign
  UintLimit,                      \* 2^256, where arith_uint256 wraps
  powLimit, nPowTargetTimespan, nPowTargetSpacing,
  fPowNoRetargeting, fPowAllowMinDifficultyBlocks, nHeightEffective,
  OldTimespanFactor,              \* 12
  NewProtocolHeight,              \* 69360
  NEW_RULES_ACTIVATION_HEIGHT, TRANSITION_WINDOW,
  SecondTier, ThirdTier,          \* 5000, 10000
  MaxFutureBlockTime              \* two hours

SizeOf(n) == CHOOSE k \in 0..n : n < Radix^k /\ (k = 0 \/ n >= Radix^(k - 1))

SignBit == Radix^MantissaDigits \div 2

GetCompact(n) ==
  LET nSize == SizeOf(n)
      nCompact == IF nSize <= MantissaDigits THEN n * Radix^(MantissaDigits - nSize)
                  ELSE n \div Radix^(nSize - MantissaDigits)
  IN  IF nCompact >= SignBit THEN <<nSize + 1, nCompact \div Radix>> ELSE <<nSize, nCompact>>

SetCompact(c) ==
  LET nWord == c[2] % SignBit
  IN  IF c[1] <= MantissaDigits THEN nWord \div Radix^(MantissaDigits - c[1])
      ELSE (nWord * Radix^(c[1] - MantissaDigits)) % UintLimit

TargetOf(p) == SetCompact(mapBlockIndex[p].nBits)

DifficultyAdjustmentInterval == nPowTargetTimespan \div nPowTargetSpacing

\* How far the new limits are in force, in TRANSITION_WINDOW parts.
GetTransitionFactor(height) ==
  IF height < NEW_RULES_ACTIVATION_HEIGHT THEN 0
  ELSE IF height >= NEW_RULES_ACTIVATION_HEIGHT + TRANSITION_WINDOW THEN TRANSITION_WINDOW
  ELSE height - NEW_RULES_ACTIVATION_HEIGHT

\* The code interpolates in doubles and cuts the result off; here the result is exact.
Interpolated(old, new, height) ==
  (old * TRANSITION_WINDOW + (new - old) * GetTransitionFactor(height)) \div TRANSITION_WINDOW

TargetMin(height) ==
  nPowTargetTimespan \div (IF height > NEW_RULES_ACTIVATION_HEIGHT + ThirdTier THEN 4
                           ELSE IF height > NEW_RULES_ACTIVATION_HEIGHT + SecondTier THEN 8
                           ELSE 16)

GetDifficultyLimits(height) ==
  LET min == nPowTargetTimespan \div 4
      max == nPowTargetTimespan * 4
  IN  IF height < NEW_RULES_ACTIVATION_HEIGHT THEN [min |-> min, max |-> max]
      ELSE [min |-> Interpolated(min, TargetMin(height), height), max |-> max]

\* A variant without the two hours of grace.
NoFutureTime(pindexLast, nTime, nAdjustedTime) ==
  /\ nTime > GetMedianTimePast(pindexLast)
  /\ nTime <= nAdjustedTime

ValidateBlockTime(pindexLast, nTime, nAdjustedTime) ==
  /\ nTime > GetMedianTimePast(pindexLast)
  /\ nTime <= nAdjustedTime + MaxFutureBlockTime

AllowDigishieldMinDifficultyForBlock(pindexLast, nTime) ==
  /\ fPowAllowMinDifficultyBlocks
  /\ HeightOf(pindexLast) >= nHeightEffective
  /\ nTime > TimeOf(pindexLast) + nPowTargetSpacing * 2

\* A variant that does not hold the target to the limit.
NotLimited(nBits, timespan) ==
  LET bnNew == ((SetCompact(nBits) * timespan) % UintLimit) \div nPowTargetTimespan
  IN  GetCompact(bnNew)

\* A target scaled by timespan / nPowTargetTimespan and held to the limit.
Scaled(nBits, timespan) ==
  LET bnNew == ((SetCompact(nBits) * timespan) % UintLimit) \div nPowTargetTimespan
  IN  GetCompact(IF bnNew > powLimit THEN powLimit ELSE bnNew)

PermittedDifficultyTransition(height, old, new) ==
  \/ fPowAllowMinDifficultyBlocks
  \/ /\ height % DifficultyAdjustmentInterval = 0
     /\ SetCompact(Scaled(old, GetDifficultyLimits(height).max)) >= SetCompact(new)
     /\ SetCompact(Scaled(old, GetDifficultyLimits(height).min)) <= SetCompact(new)
  \/ height % DifficultyAdjustmentInterval # 0 /\ old = new

\* A variant that limits a timespan only from below.
NoUpperLimit(nActualTimespan, height) ==
  LET limits == GetDifficultyLimits(height)
  IN  IF nActualTimespan < limits.min THEN limits.min ELSE nActualTimespan

Modulated(nActualTimespan, height) ==
  LET limits == GetDifficultyLimits(height)
  IN  IF nActualTimespan < limits.min THEN limits.min
      ELSE IF nActualTimespan > limits.max THEN limits.max
      ELSE nActualTimespan

CalculateNextWorkRequired(pindexLast, nFirstBlockTime) ==
  IF fPowNoRetargeting THEN mapBlockIndex[pindexLast].nBits
  ELSE Scaled(mapBlockIndex[pindexLast].nBits,
              Modulated(TimeOf(pindexLast) - nFirstBlockTime, HeightOf(pindexLast) + 1))

\* The interval between two changes at the height of a new block.
IntervalAt(height) ==
  (IF height >= NewProtocolHeight THEN nPowTargetTimespan
   ELSE nPowTargetTimespan * OldTimespanFactor) \div nPowTargetSpacing

\* A variant that starts one block late at every retarget.
LastIntervalOnly(height) == height - 1 - (IntervalAt(height) - 1)

\* The height whose time starts the measured timespan.
FirstHeight(height) ==
  height - 1 - (IF height = IntervalAt(height) THEN IntervalAt(height) - 1 ELSE IntervalAt(height))

\* The last entry that did not use the rule for blocks of minimum difficulty.
RECURSIVE LastOrdinary(_)
LastOrdinary(p) ==
  IF /\ Parent(p) # NULL
     /\ HeightOf(p) % DifficultyAdjustmentInterval # 0
     /\ mapBlockIndex[p].nBits = GetCompact(powLimit)
  THEN LastOrdinary(Parent(p)) ELSE p

BetweenRetargets(pindexLast, nTime) ==
  IF ~fPowAllowMinDifficultyBlocks THEN mapBlockIndex[pindexLast].nBits
  ELSE IF nTime > TimeOf(pindexLast) + nPowTargetSpacing * 6 THEN GetCompact(powLimit)
  ELSE mapBlockIndex[LastOrdinary(pindexLast)].nBits

\* What a retarget asks for: the new difficulty, unless it moved too far.
Retargeted(pindexLast) ==
  LET height == HeightOf(pindexLast) + 1
      nBits == CalculateNextWorkRequired(pindexLast,
                                         TimeOf(GetAncestor(pindexLast, FirstHeight(height))))
  IN  IF PermittedDifficultyTransition(height, mapBlockIndex[pindexLast].nBits, nBits) THEN nBits
      ELSE mapBlockIndex[pindexLast].nBits

GetNextWorkRequired(pindexLast, nTime, nAdjustedTime) ==
  LET height == HeightOf(pindexLast) + 1
  IN  IF ~ValidateBlockTime(pindexLast, nTime, nAdjustedTime) THEN GetCompact(powLimit)
      ELSE IF AllowDigishieldMinDifficultyForBlock(pindexLast, nTime) THEN GetCompact(powLimit)
      ELSE IF height % IntervalAt(height) # 0 THEN BetweenRetargets(pindexLast, nTime)
      ELSE Retargeted(pindexLast)
=============================================================================
