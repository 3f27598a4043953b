----------------------------- MODULE HeaderTree -----------------------------
(***************************************************************************)
(* The block index as the header rules see it: entries that are only ever  *)
(* added, each with its parent and its skip pointer (chain.h, chain.cpp).  *)
(* Entries are numbered in the order they are allocated; the number stands *)
(* for the pointer.  A version is the set of its bits.                     *)
(***************************************************************************)
EXTENDS Integers, Sequences, FiniteSets, TLC, Bitwise

CONSTANTS nMedianTimeSpan, MaxHeight

VARIABLE mapBlockIndex

NULL == 0
Index == DOMAIN mapBlockIndex
Parent(p) == mapBlockIndex[p].pprev
HeightOf(p) == mapBlockIndex[p].nHeight
TimeOf(p) == mapBlockIndex[p].nTime

InvertLowestOne(n) == n & (n - 1)

GetSkipHeight ==
  [height \in 0..MaxHeight |->
     IF height < 2 THEN 0
     ELSE IF height % 2 = 1 THEN InvertLowestOne(InvertLowestOne(height - 1)) + 1
     ELSE InvertLowestOne(height)]

\* One step of the walk from p, which it takes to be at heightWalk: pskip, unless the
\* parent's pskip is the better jump.
FollowsSkip(p, heightWalk, height) ==
  LET heightSkip == GetSkipHeight[heightWalk]
      heightSkipPrev == GetSkipHeight[heightWalk - 1]
  IN  /\ mapBlockIndex[p].pskip # NULL
      /\ \/ heightSkip = height
         \/ heightSkip > height /\ ~(heightSkipPrev < heightSkip - 2 /\ heightSkipPrev >= height)

\* The walk counts heights by itself and never looks at those of the entries it meets.
RECURSIVE WalkTo(_, _, _)
WalkTo(p, heightWalk, height) ==
  IF heightWalk <= height \/ p = NULL THEN p
  ELSE IF FollowsSkip(p, heightWalk, height)
  THEN WalkTo(mapBlockIndex[p].pskip, GetSkipHeight[heightWalk], height)
  ELSE WalkTo(Parent(p), heightWalk - 1, height)

GetAncestor(p, height) ==
  IF height > HeightOf(p) \/ height < 0 THEN NULL ELSE WalkTo(p, HeightOf(p), height)

\* The times of the last n entries of the chain of p.
RECURSIVE LastTimes(_, _)
LastTimes(p, n) == IF n = 0 \/ p = NULL THEN <<>> ELSE <<TimeOf(p)>> \o LastTimes(Parent(p), n - 1)

\* A variant that does not sort them.
Unsorted(p) ==
  LET times == LastTimes(p, nMedianTimeSpan)
  IN  times[Len(times) - Len(times) \div 2]

\* Their median, the upper one when they are even in number.
GetMedianTimePast(p) ==
  LET times == LastTimes(p, nMedianTimeSpan)
  IN  SortSeq(times, <)[Len(times) \div 2 + 1]

\* The entries from p down to the genesis block, following pprev.
RECURSIVE ChainOf(_)
ChainOf(p) == IF p = NULL THEN {} ELSE {p} \cup ChainOf(Parent(p))
=============================================================================
