----------------------------- MODULE ForkWarning -----------------------------
(***************************************************************************)
(* CheckForkWarningConditions and CheckForkWarningConditionsOnNewFork       *)
(* (validation.cpp): the memory of the best large fork, and the two         *)
(* warnings GetWarnings() shows the user.  They are functions from one      *)
(* warning record to the next; ChainState calls them where the code does.   *)
(***************************************************************************)
EXTENDS BlockTree

CONSTANTS
    fInitialDownload,   \* what IsInitialBlockDownload() answers
    ForkDropDepth,      \* 100: a fork this far below the tip is forgotten
    InvalidLead,        \* 30: blocks of lead an invalid chain needs to be reported
    ForkMinLength,      \* 7: blocks a fork needs to be remembered
    ForkMaxDepth        \* 72: how far below the tip a new fork may end

ASSUME ForkWarningAssumption ==
    /\ fInitialDownload \in BOOLEAN
    /\ {ForkDropDepth, InvalidLead, ForkMinLength, ForkMaxDepth} \subseteq Nat

Warnings == [pindexBestForkTip : BlockOrNull, pindexBestForkBase : BlockOrNull,
             fLargeWorkForkFound : BOOLEAN, fLargeWorkInvalidChainFound : BOOLEAN]

NoWarnings == [pindexBestForkTip |-> NULL, pindexBestForkBase |-> NULL,
               fLargeWorkForkFound |-> FALSE, fLargeWorkInvalidChainFound |-> FALSE]

(* pindexBestForkTip after the first test of CheckForkWarningConditions *)
RememberedForkTip(w, tip) ==
    IF /\ w.pindexBestForkTip # NULL
       /\ nHeight[tip] - nHeight[w.pindexBestForkTip] >= ForkDropDepth
    THEN NULL ELSE w.pindexBestForkTip

(* The condition under which CheckForkWarningConditions warns *)
MustWarn(forkTip, tip, bestInvalid) ==
    \/ forkTip # NULL
    \/ /\ bestInvalid # NULL
       /\ nChainWork[bestInvalid] > nChainWork[tip] + GetBlockProof(tip) * InvalidLead

(* The warning branch prints pindexBestInvalid->nChainWork: it dereferences  *)
(* the pointer whatever made the condition true.                            *)
WarnsWithoutInvalid(w, tip, bestInvalid) ==
    /\ ~fInitialDownload
    /\ MustWarn(RememberedForkTip(w, tip), tip, bestInvalid)
    /\ bestInvalid = NULL

(* Mutant: warnings are never taken back *)
KeepWarning(w, tip, bestInvalid) ==
    LET forkTip == RememberedForkTip(w, tip)
        known   == forkTip # NULL /\ w.pindexBestForkBase # NULL
    IN  IF ~fInitialDownload /\ MustWarn(forkTip, tip, bestInvalid)
        THEN [w EXCEPT !.pindexBestForkTip = forkTip,
                       !.fLargeWorkForkFound = @ \/ known,
                       !.fLargeWorkInvalidChainFound = @ \/ ~known]
        ELSE [w EXCEPT !.pindexBestForkTip = forkTip]

CheckForkWarningConditions(w, tip, bestInvalid) ==
    LET forkTip == RememberedForkTip(w, tip)
        known   == forkTip # NULL /\ w.pindexBestForkBase # NULL
    IN  CASE fInitialDownload -> w
          [] ~fInitialDownload /\ MustWarn(forkTip, tip, bestInvalid) ->
                [w EXCEPT !.pindexBestForkTip = forkTip,
                          !.fLargeWorkForkFound = @ \/ known,
                          !.fLargeWorkInvalidChainFound = @ \/ ~known]
          [] OTHER ->
                [w EXCEPT !.pindexBestForkTip = forkTip,
                          !.fLargeWorkForkFound = FALSE,
                          !.fLargeWorkInvalidChainFound = FALSE]

(* What CheckForkWarningConditionsOnNewFork remembers of the fork ending in  *)
(* newTip, before it calls CheckForkWarningConditions.                       *)
RememberFork(w, tip, newTip) ==
    LET fork == FindFork(tip, newTip)
    IN  IF /\ \/ w.pindexBestForkTip = NULL
              \/ nHeight[newTip] > nHeight[w.pindexBestForkTip]
           /\ nChainWork[newTip] - nChainWork[fork] > GetBlockProof(fork) * ForkMinLength
           /\ nHeight[tip] - nHeight[newTip] < ForkMaxDepth
        THEN [w EXCEPT !.pindexBestForkTip = newTip, !.pindexBestForkBase = fork]
        ELSE w

==============================================================================
