------------------------- MODULE ChainSelectionProofs -------------------------
(***************************************************************************)
(* That ActivateBestChain activates the best chain: proofs about ChainState *)
(* for every tree of blocks and every order of events, as long as no        *)
(* operator overrides the rules and nothing is pruned.                      *)
(*                                                                          *)
(* CauseInv     marks of invalidity, without reconsiderblock                *)
(* ReceivedInv  what waits in mapBlocksUnlinked, without pruning            *)
(* CompleteInv  every chain that was received is linked                     *)
(* OrderInv     the candidates beat everything else that can be activated   *)
(* UndoInv      nothing that is to be disconnected or connected is missing  *)
(* WarnInv      the fork warnings on show are deserved                      *)
(* SelectInv    with one thread, the chosen chain is the best               *)
(***************************************************************************)
EXTENDS ChainStateProofs, BlockTreeProofs

(* The groups of variables are abbreviations only *)
USE DEF entryVars, linkVars, statusVars, rpcVars, threadVars

------------------------------------------------------------------------------
(* The causes of marks *)

(* Marks of invalidity have a block found invalid at or below them, and        *)
(* gFailedBlocks holds such blocks only.                                       *)
CauseInv ==
    /\ TypeInv
    /\ \A b \in Failed : Ancestors[b] \cap failedValid # {}
    /\ gFailedBlocks \subseteq failedValid
    /\ halted # "AcceptBlockHeader"

(* What lies below a block lies below every block above it on the same chain.  *)
LEMMA BelowAbove ==
    ASSUME NEW c \in Block, NEW x \in Ancestors[c], NEW z \in Ancestors[c] \ Ancestors[x]
    PROVE  z \in Block /\ x \in Ancestors[z] /\ Ancestors[x] \subseteq Ancestors[z]
  <1>1. x \in Ancestors[z] /\ z \in Block
    BY Zenon, Line, TreeFacts
  <1> QED BY Zenon, <1>1, TreeFacts

(* Initially nothing is marked. *)
LEMMA CauseInit == Init => CauseInv
  BY Zenon, TypeInit DEF Init, CauseInv, Failed

(* Steps that take back no block found invalid, and mark only blocks above     *)
(* one, keep the causes of all marks.                                          *)
LEMMA CauseKept ==
    ASSUME CauseInv, TypeInv', failedValid \subseteq failedValid',
           gFailedBlocks' \subseteq failedValid', halted' # "AcceptBlockHeader",
           \A b \in failedChild' \ failedChild : Ancestors[b] \cap failedValid' # {}
    PROVE  CauseInv'
  <1>1. \A b \in failedValid' : b \in Ancestors[b]
    BY Zenon, TreeFacts DEF TypeInv, TypeOK
  <1>2. \A b \in failedChild : Ancestors[b] \cap failedValid' # {}
    BY Zenon DEF CauseInv, Failed
  <1>3. \A b \in Failed' : Ancestors[b] \cap failedValid' # {}
    BY Zenon, <1>1, <1>2 DEF Failed
  <1> QED BY Zenon, <1>3 DEF CauseInv

(* The steps that mark a block *)
Marking ==
    \/ \E b \in Block \ {Genesis} : RejectHeader(b)
    \/ \E t \in Thread, b \in Block \ {Genesis}, r \in BOOLEAN : RejectBlock(t, b, r)
    \/ \E t \in Thread, b \in Block : InvalidateBlock(t, b) \/ InvalidBlockFound(t, b)
    \/ \E t \in Thread : DropCandidate(t)

(* All other steps, except those of reconsiderblock, leave the marks alone. *)
LEMMA OtherMarks ==
    ASSUME "reconsiderblock" \notin Rpc, [Next]_vars, ~Marking
    PROVE  /\ UNCHANGED <<failedValid, failedChild, gFailedBlocks>>
           /\ halted' \in {halted, "abort", "FindMostWorkChain", "PruneBlockIndexCandidates",
                           "CheckForkWarningConditions"}
  <1>1. \A t \in Thread, b \in Block : ~ResetBlockFailureFlags(t, b)
    BY Zenon DEF ResetBlockFailureFlags
  <1>2. \A b \in Block \ {Genesis} : AcceptHeader(b) =>
             UNCHANGED <<failedValid, failedChild, gFailedBlocks, halted>>
    BY Zenon DEF AcceptHeader
  <1>3. \A t \in Thread, b \in Block \ {Genesis}, r \in BOOLEAN :
             IgnoreBlock(t, b, r) \/ AcceptBlock(t, b, r) =>
                UNCHANGED <<failedValid, failedChild, gFailedBlocks, halted>>
    BY Zenon DEF IgnoreBlock, AcceptBlock
  <1>4. \A b \in Block : PruneOneBlockFile(b) =>
             UNCHANGED <<failedValid, failedChild, gFailedBlocks, halted>>
    BY Zenon DEF PruneOneBlockFile
  <1>5. \A t \in Thread, b \in Block : InvalidateBlockFails(t, b) \/ PreciousBlock(t, b) =>
             /\ UNCHANGED <<failedValid, failedChild, gFailedBlocks>>
             /\ halted' \in {halted, "abort", "PruneBlockIndexCandidates"}
    BY Zenon DEF InvalidateBlockFails, PreciousBlock
  <1>6. \A t \in Thread : LockMain(t) \/ FindMostWorkChain(t) \/ Connected(t) \/ FinishStep(t) =>
             /\ UNCHANGED <<failedValid, failedChild, gFailedBlocks>>
             /\ halted' \in {halted, "FindMostWorkChain", "CheckForkWarningConditions"}
    BY Zenon DEF LockMain, FindMostWorkChain, Connected, FinishStep
  <1>7. \A t \in Thread : DisconnectTip(t) =>
             /\ UNCHANGED <<failedValid, failedChild, gFailedBlocks>>
             /\ halted' \in {halted, "abort"}
    BY Zenon DEF DisconnectTip
  <1>8. \A t \in Thread, b \in Block : ConnectTip(t, b) \/ ConnectWithoutData(t, b) =>
             /\ UNCHANGED <<failedValid, failedChild, gFailedBlocks>>
             /\ halted' \in {halted, "abort", "PruneBlockIndexCandidates"}
    BY Zenon DEF ConnectTip, ConnectWithoutData
  <1>9. UNCHANGED vars => UNCHANGED <<failedValid, failedChild, gFailedBlocks, halted>>
    BY Zenon DEF vars
  <1> QED BY Zenon, <1>1, <1>2, <1>3, <1>4, <1>5, <1>6, <1>7, <1>8, <1>9
          DEF Marking, Next, ProcessNewBlock, OperatorCall, ActivateBestChain

(* Every step, other than one of reconsiderblock, keeps the causes of marks.   *)
LEMMA CauseStep ==
    ASSUME "reconsiderblock" \notin Rpc
    PROVE  CauseInv /\ [Next]_vars => CauseInv'
  <1> SUFFICES ASSUME CauseInv, [Next]_vars
               PROVE  CauseInv'
    BY Zenon
  <1>0. TypeInv /\ TypeInv' /\ gFailedBlocks \subseteq failedValid /\ halted # "AcceptBlockHeader"
    BY Zenon, TypeStep DEF CauseInv
  <1>1. CASE /\ UNCHANGED <<failedValid, failedChild, gFailedBlocks>>
             /\ halted' \in {halted, "abort", "FindMostWorkChain", "PruneBlockIndexCandidates",
                             "CheckForkWarningConditions"}
    BY Zenon, <1>0, <1>1, CauseKept
  <1>2. ASSUME NEW b \in Block \ {Genesis}, RejectHeader(b)
        PROVE  CauseInv'
    <2>1. PICK f \in Ancestors[pprev[b]] \cap gFailedBlocks :
             IF f \in failedValid
             THEN /\ failedChild' = failedChild \cup (Ancestors[pprev[b]] \ Ancestors[f])
                  /\ UNCHANGED halted
             ELSE halted' = "AcceptBlockHeader" /\ UNCHANGED failedChild
      BY Zenon, <1>2 DEF RejectHeader, FailedAncestors
    <2>2. /\ f \in failedValid /\ f \in Ancestors[f] /\ pprev[b] \in Block
          /\ failedChild' = failedChild \cup (Ancestors[pprev[b]] \ Ancestors[f])
          /\ halted' = halted
      BY Zenon, <1>0, <2>1, TreeFacts DEF TypeInv, TypeOK
    <2>3. UNCHANGED <<failedValid, gFailedBlocks>>
      BY Zenon, <1>2 DEF RejectHeader
    <2>4. \A z \in Ancestors[pprev[b]] \ Ancestors[f] : f \in Ancestors[z]
      BY Zenon, <2>1, <2>2, BelowAbove
    <2> QED BY <1>0, <2>2, <2>3, <2>4, CauseKept
  <1>3. ASSUME NEW t \in Thread, NEW b \in Block \ {Genesis}, NEW r \in BOOLEAN,
               RejectBlock(t, b, r)
        PROVE  CauseInv'
    <2>1. failedValid' = failedValid \cup {b} /\ UNCHANGED <<failedChild, gFailedBlocks, halted>>
      BY Zenon, <1>3 DEF RejectBlock
    <2> QED BY Zenon, <1>0, <2>1, CauseKept
  <1>4. ASSUME NEW t \in Thread, NEW b \in Block, InvalidateBlock(t, b)
        PROVE  CauseInv'
    <2>1. /\ b \in mapBlockIndex \ {Genesis}
          /\ failedChild' = failedChild \cup (ToDisconnect(b) \ {b})
          /\ failedValid' = failedValid \cup {b}
          /\ gFailedBlocks' \subseteq gFailedBlocks \cup {b}
          /\ halted' = halted
      BY Zenon, <1>4 DEF InvalidateBlock
    <2>2. ASSUME NEW z \in ToDisconnect(b) \ {b} PROVE b \in Ancestors[z]
      <3>1. tip \in Block /\ b \in Ancestors[tip] /\ z \in Ancestors[tip]
            /\ z \notin Ancestors[pprev[b]]
        BY Zenon, <1>0, <2>2 DEF ToDisconnect, Contains, TypeInv, TypeOK
      <3>2. z \notin Ancestors[b]
        BY <2>1, <2>2, <3>1, TreeFacts
      <3> QED BY <3>1, <3>2, BelowAbove
    <2> QED BY <1>0, <2>1, <2>2, CauseKept
  <1>5. ASSUME NEW t \in Thread, DropCandidate(t)
        PROVE  CauseInv'
    <2>1. PICK c \in setBlockIndexCandidates : \E x \in Unusable(c) : Drop(c, x)
      BY Zenon, <1>5 DEF DropCandidate
    <2>2. PICK x \in Unusable(c) : Drop(c, x)
      BY Zenon, <2>1
    <2>3. c \in Block /\ x \in Ancestors[c]
      BY Zenon, <1>0 DEF Unusable, Path, TypeInv, TypeOK
    <2>4. UNCHANGED <<failedValid, gFailedBlocks>>
      BY Zenon, <1>5 DEF DropCandidate
    <2>5. halted' # "AcceptBlockHeader"
      BY Zenon, <1>0, <2>2 DEF Drop
    <2>6. CASE x \in Failed
      <3>1. failedChild' = failedChild \cup (Ancestors[c] \ Ancestors[x])
        BY Zenon, <2>2, <2>6 DEF Drop, Above
      <3>2. Ancestors[x] \cap failedValid # {}
        BY Zenon, <2>6 DEF CauseInv
      <3>3. \A z \in Ancestors[c] \ Ancestors[x] : Ancestors[x] \subseteq Ancestors[z]
        BY Zenon, <2>3, BelowAbove
      <3> QED BY <1>0, <2>4, <2>5, <3>1, <3>2, <3>3, CauseKept
    <2>7. CASE x \notin Failed
      BY Zenon, <1>0, <2>2, <2>4, <2>5, <2>7, CauseKept DEF Drop
    <2> QED BY Zenon, <2>6, <2>7
  <1>6. ASSUME NEW t \in Thread, NEW b \in Block, InvalidBlockFound(t, b)
        PROVE  CauseInv'
    <2>1. /\ failedValid' = failedValid \cup {b} /\ gFailedBlocks' = gFailedBlocks \cup {b}
          /\ UNCHANGED <<failedChild, halted>>
      BY Zenon, <1>6 DEF InvalidBlockFound
    <2> QED BY <1>0, <2>1, CauseKept
  <1> QED BY Zenon, <1>1, <1>2, <1>3, <1>4, <1>5, <1>6, OtherMarks DEF Marking

(* As long as reconsiderblock is not used, a mark of invalidity always has its *)
(* cause: a block found invalid, at it or below it.                            *)
THEOREM FailedHasCauseAlways ==
    ASSUME "reconsiderblock" \notin Rpc
    PROVE  Spec => []FailedHasCause
  <1>1. CauseInv => FailedHasCause
    BY Zenon DEF CauseInv, FailedHasCause
  <1> QED BY <1>1, CauseInit, CauseStep, PTL DEF Spec

------------------------------------------------------------------------------
(* What waits for its ancestors, when nothing is pruned *)

(* What was received is still there, and a block that waits has no nChainTx.   *)
ReceivedInv ==
    /\ LinkInv
    /\ processed = haveData
    /\ \A p \in mapBlocksUnlinked : p[2] \notin linked

(* Initially no block waits. *)
LEMMA ReceivedInit == Init => ReceivedInv
  BY Zenon, LinkInit DEF Init, ReceivedInv

(* Blocks with nChainTx were received, and so were the blocks below them. *)
LEMMA LinkedReceived ==
    ASSUME LinkInv
    PROVE  /\ linked \subseteq Block /\ linked \subseteq processed
           /\ \A b \in linked : Ancestors[b] \subseteq linked
           /\ setBlockIndexCandidates \subseteq linked
  <1>1. linked \subseteq Block
    BY Zenon DEF LinkInv, TypeInv, TypeOK
  <1> QED BY <1>1, TreeFacts DEF LinkInv, LinkedIsReceived

(* The queue of ReceivedBlockTransactions holds no block twice: none of its    *)
(* blocks had nChainTx before.                                                 *)
LEMMA QueueIsNew ==
    ASSUME ReceivedInv, NEW b \in Block \ {Genesis}, b \notin haveData, NEW d \in LinkedBy(b)
    PROVE  d \notin linked
  <1>1. CASE d = b
    BY Zenon, <1>1, LinkedReceived DEF ReceivedInv
  <1>2. CASE d # b
    <2>1. d \in Block /\ b \in Ancestors[d]
      BY Zenon DEF LinkedBy, ReceivedInv, LinkInv, TypeInv, TypeOK
    <2>2. d \notin Ancestors[b]
      BY <1>2, <2>1, HeightsGrow, BlockTreeAssumption
    <2>3. d \in Ancestors[d]
      BY Zenon, <2>1, TreeFacts
    <2>4. <<pprev[d], d>> \in mapBlocksUnlinked
      BY Zenon, <2>2, <2>3 DEF LinkedBy
    <2> QED BY <2>4 DEF ReceivedInv
  <1> QED BY <1>1, <1>2

(* The blocks that get nChainTx when b is received *)
Queue(b) == IF pprev[b] \in linked THEN LinkedBy(b) ELSE {}

(* mapBlocksUnlinked after that *)
WaitingAfter(b) ==
    CASE pprev[b] \in linked -> StillUnlinked(Queue(b))
      [] pprev[b] \notin linked /\ pprev[b] \notin Failed ->
            mapBlocksUnlinked \cup {<<pprev[b], b>>}
      [] OTHER -> mapBlocksUnlinked

(* What ReceivedBlockTransactions does to the block index. *)
LEMMA AcceptEffect ==
    ASSUME NEW t \in Thread, NEW b \in Block \ {Genesis}, NEW r \in BOOLEAN, AcceptBlock(t, b, r)
    PROVE  /\ b \notin haveData /\ HeaderAccepted(b)
           /\ linked' = linked \cup Queue(b)
           /\ haveData' = haveData \cup {b} /\ processed' = processed \cup {b}
           /\ mapBlocksUnlinked' = WaitingAfter(b)
           /\ setBlockIndexCandidates' =
                 setBlockIndexCandidates \cup NotWorse(Queue(b), tip, nSequenceId')
           /\ \A x \in Block \ Queue(b) : nSequenceId'[x] = nSequenceId[x]
  <1>1. ReceivedBlockTransactions(b) /\ Stores(b, r)
    BY Zenon DEF AcceptBlock
  <1>2. PICK o : nSequenceId' = [x \in Block |-> IF x \in Queue(b) THEN nBlockSequenceId + o[x]
                                                 ELSE nSequenceId[x]]
    BY Zenon, <1>1 DEF ReceivedBlockTransactions, Queue, WaitingAfter
  <1>3. \A x \in Block \ Queue(b) : nSequenceId'[x] = nSequenceId[x]
    BY Zenon, <1>2
  <1>4. b \notin haveData /\ HeaderAccepted(b)
    BY Zenon, <1>1 DEF Stores, AlreadyHave
  <1>5. /\ linked' = linked \cup Queue(b)
        /\ haveData' = haveData \cup {b} /\ processed' = processed \cup {b}
        /\ mapBlocksUnlinked' = WaitingAfter(b)
        /\ setBlockIndexCandidates' =
                 setBlockIndexCandidates \cup NotWorse(Queue(b), tip, nSequenceId')
    BY Zenon, <1>1 DEF ReceivedBlockTransactions, Queue, WaitingAfter
  <1> QED BY Zenon, <1>3, <1>4, <1>5

LEMMA AcceptLinks ==
    ASSUME NEW t \in Thread, NEW b \in Block \ {Genesis}, NEW r \in BOOLEAN, AcceptBlock(t, b, r)
    PROVE  linked' = linked \cup Queue(b) /\ haveData' = haveData \cup {b}
  BY AcceptEffect

LEMMA AcceptMarks ==
    ASSUME NEW t \in Thread, NEW b \in Block \ {Genesis}, NEW r \in BOOLEAN, AcceptBlock(t, b, r)
    PROVE  /\ b \notin haveData /\ HeaderAccepted(b)
           /\ linked' = linked \cup Queue(b)
           /\ haveData' = haveData \cup {b} /\ processed' = processed \cup {b}
           /\ mapBlocksUnlinked' = WaitingAfter(b)
  BY AcceptEffect

LEMMA AcceptCandidates ==
    ASSUME NEW t \in Thread, NEW b \in Block \ {Genesis}, NEW r \in BOOLEAN, AcceptBlock(t, b, r)
    PROVE  /\ b \notin haveData /\ linked' = linked \cup Queue(b)
           /\ setBlockIndexCandidates' =
                 setBlockIndexCandidates \cup NotWorse(Queue(b), tip, nSequenceId')
  BY AcceptEffect

(* FindMostWorkChain finds nothing missing but blocks that are marked, all of  *)
(* them with nChainTx.                                                         *)
LEMMA UnusableFailed ==
    ASSUME ReceivedInv, NEW c \in setBlockIndexCandidates, NEW x \in Unusable(c)
    PROVE  /\ x \in Failed /\ x \in Ancestors[c] /\ c \in Block /\ Ancestors[c] \subseteq linked
           /\ \A z \in Above(c, x) : x \in Ancestors[z] /\ Ancestors[x] \subseteq Ancestors[z]
  <1>1. c \in Block /\ Ancestors[c] \subseteq linked /\ linked \subseteq haveData
    BY Zenon, LinkedReceived DEF ReceivedInv
  <1>2. x \in Failed /\ x \in Ancestors[c]
    BY Zenon, <1>1 DEF Unusable, Path
  <1>3. \A z \in Above(c, x) : x \in Ancestors[z] /\ Ancestors[x] \subseteq Ancestors[z]
    BY Zenon, <1>1, <1>2, BelowAbove DEF Above
  <1> QED BY <1>1, <1>2, <1>3

(* What DropCandidate does, when nothing is pruned. *)
LEMMA DropEffect ==
    ASSUME ReceivedInv, NEW t \in Thread, DropCandidate(t)
    PROVE  /\ \E c \in setBlockIndexCandidates : \E x \in Failed \cap Ancestors[c] :
                 /\ c \in Block /\ Ancestors[c] \subseteq linked
                 /\ \A z \in Above(c, x) : x \in Ancestors[z]
                 /\ setBlockIndexCandidates' = setBlockIndexCandidates \ Dropped(c, x)
                 /\ failedChild' = failedChild \cup Above(c, x)
                 /\ pindexBestInvalid' = MoreInvalid(c)
           /\ UNCHANGED <<entryVars, linked, nSequenceId, nBlockSequenceId, validity,
                          failedValid, rpcVars, threadVars, gFailedBlocks, tip,
                          pindexBestHeader, warn, mapBlocksUnlinked, halted>>
  <1>1. PICK c \in setBlockIndexCandidates : \E x \in Unusable(c) : Drop(c, x)
    BY Zenon DEF DropCandidate
  <1>2. PICK x \in Unusable(c) : Drop(c, x)
    BY Zenon, <1>1
  <1>3. /\ x \in Failed \cap Ancestors[c] /\ c \in Block /\ Ancestors[c] \subseteq linked
        /\ \A z \in Above(c, x) : x \in Ancestors[z]
    BY Zenon, UnusableFailed
  <1>4. Dropped(c, x) \subseteq linked
    BY Zenon, <1>3 DEF Dropped, Above
  <1>5. /\ setBlockIndexCandidates' = setBlockIndexCandidates \ Dropped(c, x)
        /\ failedChild' = failedChild \cup Above(c, x)
        /\ pindexBestInvalid' = MoreInvalid(c)
        /\ UNCHANGED <<mapBlocksUnlinked, halted>>
    BY Zenon, <1>2, <1>3, <1>4 DEF Drop
  <1>6. UNCHANGED <<entryVars, linked, nSequenceId, nBlockSequenceId, validity,
                    failedValid, rpcVars, threadVars, gFailedBlocks, tip,
                    pindexBestHeader, warn>>
    BY Zenon DEF DropCandidate
  <1> QED BY Zenon, <1>3, <1>5, <1>6

(* A step that neither receives nor prunes a block leaves the links alone. *)
LEMMA OtherSteps ==
    ASSUME ReceivedInv, ~fPruneMode, [Next]_vars,
           ~(\E t \in Thread, b \in Block \ {Genesis}, r \in BOOLEAN : AcceptBlock(t, b, r))
    PROVE  /\ UNCHANGED <<linked, mapBlocksUnlinked, processed, haveData>>
           /\ (\A t \in Thread, b \in Block : ~PreciousBlock(t, b)) => UNCHANGED nSequenceId
  <1>1. \A b \in Block \ {Genesis} : AcceptHeader(b) \/ RejectHeader(b) =>
            UNCHANGED <<linked, mapBlocksUnlinked, processed, haveData, nSequenceId>>
    BY Zenon DEF AcceptHeader, RejectHeader
  <1>2. \A b \in Block : ~PruneOneBlockFile(b)
    BY Zenon DEF PruneOneBlockFile
  <1>3. \A t \in Thread, b \in Block \ {Genesis}, r \in BOOLEAN :
            IgnoreBlock(t, b, r) \/ RejectBlock(t, b, r) =>
            UNCHANGED <<linked, mapBlocksUnlinked, processed, haveData, nSequenceId>>
    BY Zenon DEF IgnoreBlock, RejectBlock
  <1>4. \A t \in Thread, b \in Block :
            InvalidateBlock(t, b) \/ InvalidateBlockFails(t, b) \/ ResetBlockFailureFlags(t, b) =>
            UNCHANGED <<linked, mapBlocksUnlinked, processed, haveData, nSequenceId>>
    BY ZenonT(60) DEF InvalidateBlock, InvalidateBlockFails, ResetBlockFailureFlags
  <1>5. \A t \in Thread, b \in Block : PreciousBlock(t, b) =>
            UNCHANGED <<linked, mapBlocksUnlinked, processed, haveData>>
    BY Zenon DEF PreciousBlock
  <1>6. \A t \in Thread : DropCandidate(t) =>
            UNCHANGED <<linked, mapBlocksUnlinked, processed, haveData, nSequenceId>>
    BY Zenon, DropEffect
  <1>7. \A t \in Thread : LockMain(t) \/ FindMostWorkChain(t) \/ Connected(t)
                              \/ FinishStep(t) \/ DisconnectTip(t) =>
            UNCHANGED <<linked, mapBlocksUnlinked, processed, haveData, nSequenceId>>
    BY Zenon DEF LockMain, FindMostWorkChain, Connected, FinishStep, DisconnectTip
  <1>8. \A t \in Thread, b \in Block :
            ConnectTip(t, b) \/ InvalidBlockFound(t, b) \/ ConnectWithoutData(t, b) =>
            UNCHANGED <<linked, mapBlocksUnlinked, processed, haveData, nSequenceId>>
    BY ZenonT(60) DEF ConnectTip, InvalidBlockFound, ConnectWithoutData
  <1>9. UNCHANGED vars => UNCHANGED <<linked, mapBlocksUnlinked, processed, haveData, nSequenceId>>
    BY Zenon DEF vars
  <1> QED BY Zenon, <1>1, <1>2, <1>3, <1>4, <1>5, <1>6, <1>7, <1>8, <1>9
          DEF Next, ProcessNewBlock, OperatorCall, ActivateBestChain

(* Without pruning, every step keeps ReceivedInv. *)
LEMMA ReceivedStep ==
    ASSUME ~fPruneMode
    PROVE  ReceivedInv /\ [Next]_vars => ReceivedInv'
  <1> SUFFICES ASSUME ReceivedInv, [Next]_vars
               PROVE  ReceivedInv'
    BY Zenon
  <1>0. LinkInv /\ LinkInv'
    BY Zenon, LinkStep DEF ReceivedInv
  <1>1. ASSUME NEW t \in Thread, NEW b \in Block \ {Genesis}, NEW r \in BOOLEAN,
               AcceptBlock(t, b, r)
        PROVE  ReceivedInv'
    <2>1. /\ b \notin haveData
          /\ linked' = linked \cup Queue(b)
          /\ haveData' = haveData \cup {b} /\ processed' = processed \cup {b}
          /\ mapBlocksUnlinked' = WaitingAfter(b)
      BY <1>1, AcceptMarks
    <2>2. b \notin processed /\ b \notin linked
      BY Zenon, <1>0, <2>1, LinkedReceived DEF ReceivedInv
    <2>3. ASSUME NEW p \in mapBlocksUnlinked' PROVE p[2] \notin linked'
      <3>1. CASE pprev[b] \in linked
        <4>1. p \in mapBlocksUnlinked /\ p[1] \notin LinkedBy(b) /\ linked' = linked \cup LinkedBy(b)
          BY Zenon, <2>1, <2>3, <3>1 DEF StillUnlinked, Queue, WaitingAfter
        <4>2. p[1] = pprev[p[2]] /\ p[2] \in processed /\ p[2] \notin linked
          BY Zenon, <4>1 DEF ReceivedInv, LinkInv
        <4>3. ASSUME p[2] \in LinkedBy(b) PROVE FALSE
          <5>1. p[2] # b /\ p[2] \in mapBlockIndex /\ b \in Ancestors[p[2]]
            BY Zenon, <2>2, <4>2, <4>3 DEF LinkedBy, ReceivedInv, LinkInv, TypeInv, TypeOK
          <5>2. p[2] # Genesis
            BY Zenon, <5>1, BlockTreeAssumption
          <5>3. /\ p[1] \in Block /\ Ancestors[p[2]] = Ancestors[p[1]] \cup {p[2]}
                /\ p[1] \in mapBlockIndex
            BY <4>2, <5>1, <5>2, TreeFacts DEF ReceivedInv, LinkInv, TypeInv, TypeOK,
               Structure
          <5>4. b \in Ancestors[p[1]]
            BY Zenon, <5>1, <5>3
          <5>5. p[1] \in LinkedBy(b)
            BY Zenon, <4>3, <5>3, <5>4 DEF LinkedBy
          <5> QED BY <4>1, <5>5
        <4> QED BY <4>1, <4>2, <4>3
      <3>2. CASE pprev[b] \notin linked
        BY <2>1, <2>2, <2>3, <3>2 DEF ReceivedInv, Queue, WaitingAfter
      <3> QED BY <3>1, <3>2
    <2> QED BY <1>0, <2>1, <2>3 DEF ReceivedInv
  <1>2. CASE ~(\E t \in Thread, b \in Block \ {Genesis}, r \in BOOLEAN : AcceptBlock(t, b, r))
    BY Zenon, <1>0, <1>2, OtherSteps DEF ReceivedInv
  <1> QED BY Zenon, <1>1, <1>2

(* Without pruning, the key by which setBlockIndexCandidates is ordered never  *)
(* changes under a member of the set: a block gets its nSequenceId before it   *)
(* becomes a candidate, and ReceivedBlockTransactions never numbers it again.  *)
THEOREM SortKeyStableAlways ==
    ASSUME ~fPruneMode
    PROVE  Spec => SortKeyStable
  <1>1. ASSUME ReceivedInv, [Next]_vars, \A t \in Thread, b \in Block : ~PreciousBlock(t, b),
               NEW c \in setBlockIndexCandidates
        PROVE  nSequenceId'[c] = nSequenceId[c]
    <2>1. c \in linked /\ c \in Block
      BY Zenon, <1>1, LinkedReceived DEF ReceivedInv
    <2>2. ASSUME NEW t \in Thread, NEW b \in Block \ {Genesis}, NEW r \in BOOLEAN,
                 AcceptBlock(t, b, r)
          PROVE  nSequenceId'[c] = nSequenceId[c]
      <3>1. b \notin haveData /\ \A x \in Block \ Queue(b) : nSequenceId'[x] = nSequenceId[x]
        BY Zenon, <2>2, AcceptEffect
      <3>2. c \notin Queue(b)
        BY Zenon, <1>1, <2>1, <3>1, QueueIsNew DEF Queue
      <3> QED BY <2>1, <3>1, <3>2
    <2> QED BY Zenon, <1>1, <2>2, OtherSteps
  <1>2. ReceivedInv /\ [Next]_vars =>
           [(\A t \in Thread, b \in Block : ~PreciousBlock(t, b))
                => \A b \in setBlockIndexCandidates : nSequenceId'[b] = nSequenceId[b]]_vars
    BY Zenon, <1>1
  <1> QED BY <1>2, ReceivedInit, ReceivedStep, PTL DEF Spec, SortKeyStable


------------------------------------------------------------------------------
(* Everything that was received down to the genesis has nChainTx *)

(* A block below b, or b, is marked and was not received.  It never will be,   *)
(* unless reconsiderblock takes the mark back.                                 *)
Blocked(b) == \E x \in Ancestors[b] : x \in Failed \ processed

(* A block that was received either has nChainTx, or waits in                  *)
(* mapBlocksUnlinked, or is above a blocked one; a block that is marked has    *)
(* nChainTx or is blocked; goals of ActivateBestChain have nChainTx.           *)
CompleteInv ==
    /\ ReceivedInv
    /\ Genesis \in linked
    /\ gFailedBlocks \subseteq linked
    /\ \A t \in Thread : pindexMostWork[t] \in linked \cup {NULL}
    /\ \A b \in processed \ {Genesis} : pprev[b] \in linked => b \in linked
    /\ \A b \in processed \ linked : <<pprev[b], b>> \in mapBlocksUnlinked \/ Blocked(pprev[b])
    /\ \A b \in Failed : b \in linked \/ Blocked(b)

(* Initially only the genesis block was received. *)
LEMMA CompleteInit == Init => CompleteInv
  <1> SUFFICES ASSUME Init PROVE CompleteInv
    BY Zenon
  <1>1. /\ Genesis \in linked /\ gFailedBlocks = {} /\ Failed = {} /\ processed = linked
        /\ processed \ {Genesis} = {} /\ processed \ linked = {}
        /\ \A t \in Thread : pindexMostWork[t] = NULL
    BY Zenon DEF Init, Failed
  <1> QED BY Zenon, <1>1, ReceivedInit DEF CompleteInv

(* Below a block without nChainTx there is one that was not received. *)
LEMMA GapBelow ==
    ASSUME Genesis \in linked, NEW b \in Block, b \notin linked,
           \A x \in processed \ {Genesis} : pprev[x] \in linked => x \in linked
    PROVE  \E x \in Ancestors[b] : x \notin linked /\ x \notin processed
  <1> DEFINE gap == Ancestors[b] \ linked
  <1>1. gap \in SUBSET Block /\ gap # {}
    BY Zenon, TreeFacts
  <1>2. PICK f \in gap : \A c \in gap : nHeight[f] <= nHeight[c]
    <2> HIDE DEF gap
    <2> QED BY <1>1, LowestExists
  <1>3. f \in Block \ {Genesis} /\ f \in Ancestors[b] /\ f \notin linked
    BY Zenon, <1>1, <1>2
  <1>4. pprev[f] \in Block /\ pprev[f] \in Ancestors[b] /\ nHeight[f] = nHeight[pprev[f]] + 1
    BY Zenon, <1>3, TreeFacts, NextBlock
  <1>5. nHeight[pprev[f]] \in Nat
    BY Zenon, <1>4, BlockTreeAssumption
  <1>6. pprev[f] \in linked
    BY <1>2, <1>4, <1>5
  <1> QED BY <1>3, <1>6

(* A thread's goal is the old one, none, or a candidate. *)
LEMMA GoalStep ==
    ASSUME TypeInv, [Next]_vars, NEW u \in Thread
    PROVE  pindexMostWork'[u] \in {pindexMostWork[u], NULL} \cup setBlockIndexCandidates
  <1>0. pindexMostWork \in [Thread -> mapBlockIndex \cup {NULL}]
    BY Zenon DEF TypeInv, TypeOK
  <1>1. CASE pindexMostWork' = pindexMostWork
    BY Zenon, <1>1
  <1>2. ASSUME NEW t \in Thread,
               NEW m \in {pindexMostWork[t], NULL} \cup setBlockIndexCandidates,
               pindexMostWork' = [pindexMostWork EXCEPT ![t] = m]
        PROVE  pindexMostWork'[u] \in {pindexMostWork[u], NULL} \cup setBlockIndexCandidates
    BY Zenon, <1>0, <1>2
  <1> DEFINE Kept == pindexMostWork' = pindexMostWork
             Moved == \E t \in Thread :
                         \E m \in {pindexMostWork[t], NULL} \cup setBlockIndexCandidates :
                            pindexMostWork' = [pindexMostWork EXCEPT ![t] = m]
  <1>3. \A t \in Thread : GoActivate(t) \/ Return(t) => Moved
    BY Zenon DEF GoActivate, Return
  <1>4. \A b \in Block : AcceptHeader(b) \/ RejectHeader(b) \/ PruneOneBlockFile(b) => Kept
    BY Zenon DEF AcceptHeader, RejectHeader, PruneOneBlockFile
  <1>5. \A t \in Thread, b \in Block, r \in BOOLEAN :
            /\ IgnoreBlock(t, b, r) => GoActivate(t)
            /\ AcceptBlock(t, b, r) => GoActivate(t)
            /\ RejectBlock(t, b, r) => Kept
    BY ZenonT(60) DEF IgnoreBlock, AcceptBlock, RejectBlock
  <1>6. \A t \in Thread, b \in Block :
            /\ InvalidateBlock(t, b) => GoActivate(t)
            /\ InvalidateBlockFails(t, b) => GoActivate(t)
            /\ ResetBlockFailureFlags(t, b) => GoActivate(t)
            /\ PreciousBlock(t, b) => GoActivate(t)
    <2>1. \A t \in Thread, b \in Block : InvalidateBlock(t, b) => GoActivate(t)
      BY Zenon DEF InvalidateBlock
    <2>2. \A t \in Thread, b \in Block : InvalidateBlockFails(t, b) => GoActivate(t)
      BY Zenon DEF InvalidateBlockFails
    <2>3. \A t \in Thread, b \in Block : ResetBlockFailureFlags(t, b) => GoActivate(t)
      BY Zenon DEF ResetBlockFailureFlags
    <2>4. \A t \in Thread, b \in Block : PreciousBlock(t, b) => GoActivate(t)
      BY Zenon DEF PreciousBlock
    <2> QED BY Zenon, <2>1, <2>2, <2>3, <2>4
  <1>7. \A t \in Thread : LockMain(t) => Kept \/ Moved
    <2>1. \A t \in Thread : LockMain(t) =>
             \/ Kept
             \/ Return(t)
             \/ pindexMostWork' = [pindexMostWork EXCEPT ![t] = pindexMostWork[t]]
      BY Zenon DEF LockMain, BeginStep
    <2> QED BY Zenon, <1>3, <2>1
  <1>8. \A t \in Thread : FindMostWorkChain(t) => Moved
    <2>1. \A t \in Thread : FindMostWorkChain(t) =>
             \/ Return(t)
             \/ \E c \in setBlockIndexCandidates :
                   pindexMostWork' = [pindexMostWork EXCEPT ![t] = c]
      BY Zenon DEF FindMostWorkChain, BeginStep
    <2> QED BY Zenon, <1>3, <2>1
  <1>9. \A t \in Thread : DisconnectTip(t) => Kept \/ Return(t)
    BY Zenon DEF DisconnectTip
  <1>10. \A t \in Thread : DropCandidate(t) \/ Connected(t) => Kept
    BY Zenon DEF DropCandidate, Connected
  <1>11. \A t \in Thread : FinishStep(t) => Moved
    BY Zenon DEF FinishStep
  <1>12. \A t \in Thread, b \in Block :
            ConnectTip(t, b) \/ InvalidBlockFound(t, b) \/ ConnectWithoutData(t, b) => Kept
    BY ZenonT(60) DEF ConnectTip, InvalidBlockFound, ConnectWithoutData
  <1>13. UNCHANGED vars => Kept
    BY Zenon DEF vars
  <1>14. Kept \/ Moved
    <2> HIDE DEF Kept, Moved
    <2> QED BY Zenon, <1>3, <1>4, <1>5, <1>6, <1>7, <1>8, <1>9, <1>10, <1>11, <1>12, <1>13
            DEF Next, ProcessNewBlock, OperatorCall, ActivateBestChain
  <1> QED BY Zenon, <1>1, <1>2, <1>14


(* A step that receives nothing and marks only what has nChainTx or is         *)
(* blocked keeps CompleteInv.                                                  *)
LEMMA CompleteKept ==
    ASSUME CompleteInv, ReceivedInv', [Next]_vars,
           UNCHANGED <<linked, mapBlocksUnlinked, processed>>,
           Failed \subseteq Failed', gFailedBlocks' \subseteq gFailedBlocks \cup linked,
           \A b \in Failed' \ Failed : b \in linked \/ Blocked(b)'
    PROVE  CompleteInv'
  <1>1. \A b \in Block : Blocked(b) => Blocked(b)'
    BY Zenon DEF Blocked
  <1>2. Failed \subseteq Block /\ \A b \in processed \ linked : pprev[b] \in Block
    <2>1. processed \subseteq Block /\ Failed \subseteq Block
      BY Zenon DEF CompleteInv, ReceivedInv, LinkInv, TypeInv, TypeOK, Failed
    <2> QED BY <2>1, TreeFacts DEF CompleteInv
  <1>3. \A b \in processed' \ linked' :
            <<pprev[b], b>> \in mapBlocksUnlinked' \/ Blocked(pprev[b])'
    BY Zenon, <1>1, <1>2 DEF CompleteInv
  <1>4. \A b \in Failed' : b \in linked' \/ Blocked(b)'
    BY Zenon, <1>1, <1>2 DEF CompleteInv
  <1>5. \A t \in Thread : pindexMostWork'[t] \in linked' \cup {NULL}
    BY Zenon, GoalStep DEF CompleteInv, ReceivedInv, LinkInv, LinkedIsReceived
  <1> QED BY <1>3, <1>4, <1>5 DEF CompleteInv

(* Receiving a block keeps CompleteInv. *)
LEMMA CompleteAccept ==
    ASSUME CompleteInv, ReceivedInv', [Next]_vars,
           NEW t \in Thread, NEW b \in Block \ {Genesis}, NEW r \in BOOLEAN, AcceptBlock(t, b, r)
    PROVE  CompleteInv'
  <1>1. /\ b \notin haveData /\ HeaderAccepted(b)
        /\ linked' = linked \cup Queue(b) /\ processed' = processed \cup {b}
        /\ mapBlocksUnlinked' = WaitingAfter(b)
        /\ UNCHANGED <<failedValid, failedChild, gFailedBlocks>>
    <2>1. UNCHANGED <<failedValid, failedChild, gFailedBlocks>>
      BY Zenon DEF AcceptBlock
    <2>2. /\ b \notin haveData /\ HeaderAccepted(b)
          /\ linked' = linked \cup Queue(b) /\ processed' = processed \cup {b}
          /\ mapBlocksUnlinked' = WaitingAfter(b)
      BY AcceptMarks
    <2> QED BY Zenon, <2>1, <2>2
  <1>2. Failed' = Failed /\ b \notin Failed /\ b \notin processed /\ pprev[b] \in Block
    <2>1. b \notin Failed
      BY Zenon, <1>1 DEF HeaderAccepted, NewHeader, CompleteInv, ReceivedInv, LinkInv,
         TypeInv, TypeOK,
                  Failed
    <2> QED BY <1>1, <2>1, TreeFacts DEF CompleteInv, ReceivedInv, Failed
  <1>3. \A c : Blocked(c)' <=> Blocked(c)
    BY Zenon, <1>1, <1>2 DEF Blocked
  <1>4. LinkInv /\ LinkInv'
    BY Zenon DEF CompleteInv, ReceivedInv
  <1>5. \A c \in Queue(b) : ~Blocked(c)
    <2>1. \A c \in Queue(b) : Ancestors[c] \subseteq processed \cup {b}
      BY Zenon, <1>4, QueueIsReceived DEF Queue
    <2> QED BY <1>2, <2>1 DEF Blocked
  <1>6. processed \subseteq mapBlockIndex /\ mapBlockIndex \subseteq Block
    BY Zenon, <1>4 DEF LinkInv, TypeInv, TypeOK
  <1>7. ASSUME NEW c \in processed \ linked, pprev[c] \in Queue(b)
        PROVE  c \in Queue(b)
    <2>1. c \in mapBlockIndex /\ c \in Block /\ c # Genesis
      BY Zenon, <1>6, <1>7 DEF CompleteInv
    <2>2. <<pprev[c], c>> \in mapBlocksUnlinked
      BY Zenon, <1>5, <1>7 DEF CompleteInv
    <2>3. pprev[b] \in linked /\ pprev[c] \in LinkedBy(b)
      BY Zenon, <1>7 DEF Queue
    <2>4. Ancestors[c] = Ancestors[pprev[c]] \cup {c}
      BY Zenon, <2>1, TreeFacts
    <2>5. c \in LinkedBy(b)
      BY Zenon, <2>1, <2>2, <2>3, <2>4 DEF LinkedBy
    <2> QED BY <2>3, <2>5 DEF Queue
  <1>8. pprev[b] \in linked => b \in Queue(b)
    BY Zenon, TreeFacts DEF Queue, LinkedBy
  <1>9. pprev[b] \notin linked => Queue(b) = {}
    BY Zenon DEF Queue
  <1>10. ASSUME NEW c \in processed' \ {Genesis}, pprev[c] \in linked'
         PROVE  c \in linked'
    <2>1. CASE c = b
      BY Zenon, <1>1, <1>8, <1>9, <1>10, <2>1
    <2>2. CASE c # b
      BY Zenon, <1>1, <1>7, <1>10, <2>2 DEF CompleteInv
    <2> QED BY <2>1, <2>2
  <1>11. ASSUME NEW c \in processed' \ linked'
         PROVE  <<pprev[c], c>> \in mapBlocksUnlinked' \/ Blocked(pprev[c])'
    <2>1. CASE c = b
      <3>1. pprev[b] \notin linked
        BY Zenon, <1>1, <1>8, <1>11, <2>1
      <3>2. CASE pprev[b] \in Failed
        BY Zenon, <1>3, <2>1, <3>1, <3>2 DEF CompleteInv
      <3>3. CASE pprev[b] \notin Failed
        BY Zenon, <1>1, <2>1, <3>1, <3>3 DEF WaitingAfter
      <3> QED BY <3>2, <3>3
    <2>2. CASE c # b
      <3>1. c \in processed \ linked /\ pprev[c] \notin Queue(b)
        BY Zenon, <1>1, <1>7, <1>11, <2>2
      <3>2. CASE Blocked(pprev[c])
        BY Zenon, <1>3, <3>2
      <3>3. CASE <<pprev[c], c>> \in mapBlocksUnlinked
        BY Zenon, <1>1, <3>1, <3>3 DEF WaitingAfter, StillUnlinked
      <3> QED BY <3>1, <3>2, <3>3 DEF CompleteInv
    <2> QED BY <2>1, <2>2
  <1>12. \A x \in Failed' : x \in linked' \/ Blocked(x)'
    BY Zenon, <1>1, <1>2, <1>3 DEF CompleteInv
  <1>13. \A u \in Thread : pindexMostWork'[u] \in linked' \cup {NULL}
    BY Zenon, <1>1, <1>4, GoalStep DEF CompleteInv, LinkInv, LinkedIsReceived
  <1>14. Genesis \in linked' /\ gFailedBlocks' \subseteq linked'
    BY Zenon, <1>1 DEF CompleteInv
  <1> QED BY <1>10, <1>11, <1>12, <1>13, <1>14 DEF CompleteInv

(* No step breaks CompleteInv, as long as no operator overrides the rules and  *)
(* nothing is pruned.                                                          *)
LEMMA CompleteStep ==
    ASSUME ~fPruneMode, "invalidateblock" \notin Rpc, "reconsiderblock" \notin Rpc
    PROVE  CompleteInv /\ [Next]_vars => CompleteInv'
  <1> SUFFICES ASSUME CompleteInv, [Next]_vars
               PROVE  CompleteInv'
    BY Zenon
  <1>0. ReceivedInv /\ ReceivedInv' /\ LinkInv
    BY Zenon, ReceivedStep DEF CompleteInv, ReceivedInv
  <1>1. ASSUME NEW t \in Thread, NEW b \in Block \ {Genesis}, NEW r \in BOOLEAN,
               AcceptBlock(t, b, r)
        PROVE  CompleteInv'
    BY Zenon, <1>0, <1>1, CompleteAccept
  <1>2. CASE ~(\E t \in Thread, b \in Block \ {Genesis}, r \in BOOLEAN : AcceptBlock(t, b, r))
    <2>0. UNCHANGED <<linked, mapBlocksUnlinked, processed>>
      BY Zenon, <1>0, <1>2, OtherSteps
    <2>1. ASSUME NEW b \in Block \ {Genesis}, RejectHeader(b)
          PROVE  CompleteInv'
      <3>1. PICK f \in Ancestors[pprev[b]] \cap gFailedBlocks :
               \/ failedChild' = failedChild \cup (Ancestors[pprev[b]] \ Ancestors[f])
               \/ failedChild' = failedChild
        BY Zenon, <2>1 DEF RejectHeader, FailedAncestors
      <3>2. UNCHANGED <<failedValid, gFailedBlocks>>
        BY Zenon, <2>1 DEF RejectHeader
      <3>3. pprev[b] \in Block /\ Ancestors[f] \subseteq linked
        BY Zenon, <1>0, TreeFacts, LinkedReceived DEF CompleteInv
      <3>4. ASSUME NEW z \in Failed' \ Failed, z \notin linked
            PROVE  Blocked(z)'
        <4>1. /\ failedChild' = failedChild \cup (Ancestors[pprev[b]] \ Ancestors[f])
              /\ z \in Ancestors[pprev[b]] \ Ancestors[f]
          BY Zenon, <3>1, <3>2, <3>4 DEF Failed
        <4>2. z \in Block /\ Ancestors[z] \subseteq Ancestors[pprev[b]]
          BY Zenon, <3>3, <4>1, TreeFacts
        <4>3. PICK x \in Ancestors[z] : x \notin linked /\ x \notin processed
          BY Zenon, <3>4, <4>2, GapBelow DEF CompleteInv
        <4>4. x \in failedChild'
          BY Zenon, <3>3, <4>1, <4>2, <4>3
        <4> QED BY <2>0, <4>3, <4>4 DEF Blocked, Failed
      <3>5. Failed \subseteq Failed'
        BY Zenon, <3>1, <3>2 DEF Failed
      <3> QED BY <1>0, <2>0, <3>2, <3>4, <3>5, CompleteKept
    <2>2. ASSUME NEW t \in Thread, NEW b \in Block \ {Genesis}, NEW r \in BOOLEAN,
                 RejectBlock(t, b, r)
          PROVE  CompleteInv'
      <3>1. /\ failedValid' = failedValid \cup {b} /\ UNCHANGED <<failedChild, gFailedBlocks>>
            /\ b \notin haveData
        BY Zenon, <2>2 DEF RejectBlock, Stores, AlreadyHave
      <3>2. b \notin processed' /\ b \in Ancestors[b]
        BY Zenon, <1>0, <2>0, <3>1, TreeFacts DEF ReceivedInv
      <3>3. Failed' = Failed \cup {b}
        BY Zenon, <3>1 DEF Failed
      <3>4. Blocked(b)'
        BY Zenon, <3>2, <3>3 DEF Blocked
      <3> QED BY <1>0, <2>0, <3>1, <3>3, <3>4, CompleteKept
    <2>3. ASSUME NEW t \in Thread, DropCandidate(t)
          PROVE  CompleteInv'
      <3>1. PICK c \in setBlockIndexCandidates : \E x \in Failed \cap Ancestors[c] :
               Ancestors[c] \subseteq linked /\ failedChild' = failedChild \cup Above(c, x)
        BY Zenon, <1>0, <2>3, DropEffect
      <3>2. UNCHANGED <<failedValid, gFailedBlocks>>
        BY Zenon, <1>0, <2>3, DropEffect
      <3>3. Failed \subseteq Failed' /\ Failed' \ Failed \subseteq linked
        BY Zenon, <3>1, <3>2 DEF Failed, Above
      <3> QED BY <1>0, <2>0, <3>2, <3>3, CompleteKept
    <2>4. ASSUME NEW t \in Thread, NEW b \in Block, InvalidBlockFound(t, b)
          PROVE  CompleteInv'
      <3>1. /\ failedValid' = failedValid \cup {b} /\ gFailedBlocks' = gFailedBlocks \cup {b}
            /\ UNCHANGED failedChild
            /\ pc[t] = "connect" /\ b \in Ancestors[pindexMostWork[t]]
        BY Zenon, <2>4 DEF InvalidBlockFound, Connecting
      <3>2. pindexMostWork[t] \in linked
        BY Zenon, <1>0, <3>1 DEF CompleteInv, LinkInv, TypeInv, Structure
      <3>3. b \in linked
        BY Zenon, <1>0, <3>1, <3>2, LinkedReceived
      <3>4. Failed' = Failed \cup {b}
        BY Zenon, <3>1 DEF Failed
      <3> QED BY <1>0, <2>0, <3>1, <3>3, <3>4, CompleteKept
    <2>5. CASE ~Marking
      <3>1. UNCHANGED <<failedValid, failedChild, gFailedBlocks>>
        BY Zenon, <2>5, OtherMarks
      <3>2. Failed' = Failed
        BY Zenon, <3>1 DEF Failed
      <3> QED BY <1>0, <2>0, <3>1, <3>2, CompleteKept
    <2>6. \A t \in Thread, b \in Block : ~InvalidateBlock(t, b)
      BY Zenon DEF InvalidateBlock
    <2> QED BY Zenon, <2>1, <2>2, <2>3, <2>4, <2>5, <2>6 DEF Marking
  <1> QED BY Zenon, <1>1, <1>2


(* As long as no operator overrides the rules and nothing is pruned, nChainTx  *)
(* is set on exactly the blocks that were received down to the genesis, in     *)
(* whatever order they came and whatever was found invalid meanwhile.          *)
THEOREM LinkedIffReceivedAlways ==
    ASSUME ~fPruneMode, "invalidateblock" \notin Rpc, "reconsiderblock" \notin Rpc
    PROVE  Spec => []LinkedIffReceived
  <1>1. ASSUME CompleteInv PROVE LinkedIffReceived
    <2>1. linked \subseteq mapBlockIndex /\ mapBlockIndex \subseteq Block
      BY Zenon, <1>1 DEF CompleteInv, ReceivedInv, LinkInv, TypeInv, TypeOK
    <2>2. \A b \in linked : Ancestors[b] \subseteq processed
      BY Zenon, <1>1 DEF CompleteInv, ReceivedInv, LinkInv, LinkedIsReceived
    <2>3. \A b \in mapBlockIndex : Ancestors[b] \subseteq processed => b \in linked
      BY Zenon, <1>1, <2>1, GapBelow DEF CompleteInv
    <2> QED BY <2>1, <2>2, <2>3 DEF LinkedIffReceived
  <1> QED BY <1>1, CompleteInit, CompleteStep, PTL DEF Spec

(* Under the same conditions mapBlocksUnlinked holds exactly the blocks that   *)
(* were received before one of their ancestors, but for those above a block    *)
(* that was found invalid.                                                     *)
THEOREM UnlinkedExactAlways ==
    ASSUME ~fPruneMode, "invalidateblock" \notin Rpc, "reconsiderblock" \notin Rpc
    PROVE  Spec => []UnlinkedExact
  <1>1. ASSUME CompleteInv, CauseInv PROVE UnlinkedExact
    <2>0. ASSUME NEW b \in mapBlockIndex \ {Genesis}
          PROVE  /\ (/\ b \in haveData
                     /\ ~(Ancestors[b] \subseteq processed)
                     /\ Ancestors[b] \cap failedValid = {}) => <<pprev[b], b>> \in mapBlocksUnlinked
                 /\ <<pprev[b], b>> \in mapBlocksUnlinked =>
                       b \in haveData /\ ~(Ancestors[b] \subseteq haveData)
      <3>1. b \in Block /\ processed = haveData
        BY Zenon, <1>1 DEF CompleteInv, ReceivedInv, LinkInv, TypeInv, TypeOK
      <3>2. ASSUME b \in haveData, ~(Ancestors[b] \subseteq processed),
                   Ancestors[b] \cap failedValid = {}, <<pprev[b], b>> \notin mapBlocksUnlinked
            PROVE  FALSE
        <4>1. b \in processed \ linked
          BY Zenon, <1>1, <3>1, <3>2 DEF CompleteInv, ReceivedInv, LinkInv, LinkedIsReceived
        <4>2. PICK x \in Ancestors[pprev[b]] : x \in Failed
          BY Zenon, <1>1, <3>2, <4>1 DEF CompleteInv, Blocked
        <4>3. x \in Ancestors[b] /\ Ancestors[x] \subseteq Ancestors[b]
          BY Zenon, <3>1, <4>2, TreeFacts
        <4>4. Ancestors[x] \cap failedValid # {}
          BY Zenon, <1>1, <4>2 DEF CauseInv
        <4> QED BY <3>2, <4>3, <4>4
      <3>3. ASSUME <<pprev[b], b>> \in mapBlocksUnlinked
            PROVE  b \in haveData /\ ~(Ancestors[b] \subseteq haveData)
        <4>1. b \in processed /\ b \notin linked
          BY Zenon, <1>1, <3>3 DEF CompleteInv, ReceivedInv, LinkInv
        <4> QED BY <1>1, <3>1, <4>1, GapBelow DEF CompleteInv
      <3> QED BY <3>2, <3>3
    <2>1. processed = haveData
      BY Zenon, <1>1 DEF CompleteInv, ReceivedInv
    <2> QED BY <2>0, <2>1 DEF UnlinkedExact
  <1> QED BY <1>1, CompleteInit, CompleteStep, CauseInit, CauseStep, PTL DEF Spec


------------------------------------------------------------------------------
(* The order of candidates *)

(* CBlockIndexWorkComparator is a strict total order. *)
LEMMA WorseOrder ==
    ASSUME NEW seq \in [Block -> Int], NEW a \in Block, NEW b \in Block
    PROVE  /\ ~Worse(a, a, seq)
           /\ ~(Worse(a, b, seq) /\ Worse(b, a, seq))
           /\ a = b \/ Worse(a, b, seq) \/ Worse(b, a, seq)
  <1>1. /\ nChainWork[a] \in Int /\ nChainWork[b] \in Int /\ Address[a] \in Int
        /\ Address[b] \in Int /\ seq[a] \in Int /\ seq[b] \in Int
        /\ Address[a] = Address[b] => a = b
    BY BlockTreeAssumption
  <1> QED BY <1>1 DEF Worse

(* It is transitive, *)
LEMMA WorseTransitive ==
    ASSUME NEW seq \in [Block -> Int], NEW a \in Block, NEW b \in Block, NEW c \in Block,
           Worse(a, b, seq), Worse(b, c, seq)
    PROVE  Worse(a, c, seq)
  <1>1. /\ nChainWork[a] \in Int /\ nChainWork[b] \in Int /\ nChainWork[c] \in Int
        /\ Address[a] \in Int /\ Address[b] \in Int /\ Address[c] \in Int
        /\ seq[a] \in Int /\ seq[b] \in Int /\ seq[c] \in Int
    BY BlockTreeAssumption
  <1> QED BY <1>1 DEF Worse

(* and looks only at the two blocks it compares. *)
LEMMA WorseLocal ==
    ASSUME NEW s, NEW r, NEW a, NEW b, s[a] = r[a], s[b] = r[b]
    PROVE  Worse(a, b, s) <=> Worse(a, b, r)
  BY Zenon DEF Worse

(* Neither b nor a block below it breaks a rule *)
Obeys(b) == \A a \in Ancestors[b] : Verdict[a] = "ok"

(* A candidate that obeys the rules is better than b *)
Beaten(b) == \E c \in setBlockIndexCandidates : Obeys(c) /\ Worse(b, c, nSequenceId)

(* No candidate is worse than the tip; and a block with nChainTx that is not   *)
(* marked is a candidate, or is beaten by one that will stay.  That the        *)
(* latter obeys the rules, known or not, is what makes this inductive: the     *)
(* candidates above an invalid block can be dropped without a replacement.     *)
OrderInv ==
    /\ CompleteInv
    /\ RuleInv
    /\ tip \in linked
    /\ \A c \in setBlockIndexCandidates : ~Worse(c, tip, nSequenceId)
    /\ \A b \in linked \ Failed : b \in setBlockIndexCandidates \/ Beaten(b)
    /\ halted # "PruneBlockIndexCandidates"

(* Initially the genesis block is the tip and the only candidate. *)
LEMMA OrderInit == Init => OrderInv
  <1> SUFFICES ASSUME Init PROVE OrderInv
    BY Zenon
  <1>1. CompleteInv /\ RuleInv
    BY Zenon, CompleteInit, RuleInit
  <1>2. /\ nSequenceId \in [Block -> Int] /\ Genesis \in Block
        /\ tip = Genesis /\ linked = {Genesis} /\ setBlockIndexCandidates = {Genesis}
        /\ halted = "no"
    BY TreeFacts DEF Init
  <1>3. ~Worse(Genesis, Genesis, nSequenceId)
    BY Zenon, <1>2, WorseOrder
  <1> QED BY <1>1, <1>2, <1>3 DEF OrderInv

(* Marks are only taken back by reconsiderblock. *)
LEMMA MarksStay ==
    ASSUME "reconsiderblock" \notin Rpc, [Next]_vars
    PROVE  Failed \subseteq Failed'
  <1>1. \A b \in Block \ {Genesis} : RejectHeader(b) =>
            failedValid \subseteq failedValid' /\ failedChild \subseteq failedChild'
    BY Zenon DEF RejectHeader
  <1>2. \A t \in Thread, b \in Block \ {Genesis}, r \in BOOLEAN : RejectBlock(t, b, r) =>
            failedValid \subseteq failedValid' /\ failedChild \subseteq failedChild'
    BY Zenon DEF RejectBlock
  <1>3. \A t \in Thread, b \in Block : InvalidateBlock(t, b) =>
            failedValid \subseteq failedValid' /\ failedChild \subseteq failedChild'
    BY Zenon DEF InvalidateBlock
  <1>4. \A t \in Thread, b \in Block : InvalidBlockFound(t, b) =>
            failedValid \subseteq failedValid' /\ failedChild \subseteq failedChild'
    BY Zenon DEF InvalidBlockFound
  <1>5. \A t \in Thread : DropCandidate(t) =>
            failedValid \subseteq failedValid' /\ failedChild \subseteq failedChild'
    BY Zenon DEF DropCandidate, Drop
  <1>6. failedValid \subseteq failedValid' /\ failedChild \subseteq failedChild'
    BY Zenon, <1>1, <1>2, <1>3, <1>4, <1>5, OtherMarks DEF Marking
  <1> QED BY <1>6 DEF Failed

(* The steps that change the tip or the candidates *)
Selecting ==
    \/ \E t \in Thread, b \in Block \ {Genesis}, r \in BOOLEAN : AcceptBlock(t, b, r)
    \/ \E t \in Thread : DropCandidate(t) \/ DisconnectTip(t)
    \/ \E t \in Thread, b \in Block : ConnectTip(t, b) \/ InvalidBlockFound(t, b)

(* Without the RPCs there are no operator calls. *)
LEMMA NoOperator ==
    ASSUME Rpc = {}
    PROVE  \A t \in Thread, b \in Block : ~OperatorCall(t, b)
  <1>1. \A t \in Thread, b \in Block : ~InvalidateBlock(t, b)
    BY Zenon DEF InvalidateBlock
  <1>2. \A t \in Thread, b \in Block : ~InvalidateBlockFails(t, b)
    BY Zenon DEF InvalidateBlockFails
  <1>3. \A t \in Thread, b \in Block : ~ResetBlockFailureFlags(t, b)
    BY Zenon DEF ResetBlockFailureFlags
  <1>4. \A t \in Thread, b \in Block : ~PreciousBlock(t, b)
    BY Zenon DEF PreciousBlock
  <1> QED BY Zenon, <1>1, <1>2, <1>3, <1>4 DEF OperatorCall

(* The others leave both alone, when no operator interferes. *)
LEMMA OtherSelections ==
    ASSUME Rpc = {}, [Next]_vars, ~Selecting
    PROVE  /\ UNCHANGED <<setBlockIndexCandidates, tip>>
           /\ halted' \in {halted, "abort", "AcceptBlockHeader", "FindMostWorkChain",
                           "CheckForkWarningConditions"}
  <1>1. \A b \in Block \ {Genesis} : AcceptHeader(b) \/ RejectHeader(b) =>
            /\ UNCHANGED <<setBlockIndexCandidates, tip>>
            /\ halted' \in {halted, "AcceptBlockHeader"}
    BY Zenon DEF AcceptHeader, RejectHeader
  <1>2. \A b \in Block : PruneOneBlockFile(b) => UNCHANGED <<setBlockIndexCandidates, tip, halted>>
    BY Zenon DEF PruneOneBlockFile
  <1>3. \A t \in Thread, b \in Block \ {Genesis}, r \in BOOLEAN :
            IgnoreBlock(t, b, r) \/ RejectBlock(t, b, r) =>
            UNCHANGED <<setBlockIndexCandidates, tip, halted>>
    BY Zenon DEF IgnoreBlock, RejectBlock
  <1>4. \A t \in Thread, b \in Block : ~OperatorCall(t, b)
    BY Zenon, NoOperator
  <1>5. \A t \in Thread : LockMain(t) \/ FindMostWorkChain(t) \/ Connected(t) \/ FinishStep(t) =>
            /\ UNCHANGED <<setBlockIndexCandidates, tip>>
            /\ halted' \in {halted, "FindMostWorkChain", "CheckForkWarningConditions"}
    BY Zenon DEF LockMain, FindMostWorkChain, Connected, FinishStep
  <1>6. \A t \in Thread, b \in Block : ConnectWithoutData(t, b) =>
            UNCHANGED <<setBlockIndexCandidates, tip>> /\ halted' = "abort"
    BY Zenon DEF ConnectWithoutData
  <1>7. UNCHANGED vars => UNCHANGED <<setBlockIndexCandidates, tip, halted>>
    BY Zenon DEF vars
  <1> QED BY Zenon, <1>1, <1>2, <1>3, <1>4, <1>5, <1>6, <1>7
          DEF Selecting, Next, ProcessNewBlock, ActivateBestChain


(* A step that moves neither the tip nor the links, and drops only candidates  *)
(* that are marked, keeps the order.                                           *)
LEMMA OrderKept ==
    ASSUME OrderInv, CompleteInv', RuleInv', UNCHANGED <<linked, nSequenceId, tip>>,
           Failed \subseteq Failed', setBlockIndexCandidates' \subseteq setBlockIndexCandidates,
           setBlockIndexCandidates \ setBlockIndexCandidates' \subseteq Failed',
           halted' # "PruneBlockIndexCandidates"
    PROVE  OrderInv'
  <1>1. ASSUME NEW b \in linked \ Failed'
        PROVE  b \in setBlockIndexCandidates' \/ Beaten(b)'
    <2>1. CASE b \in setBlockIndexCandidates
      BY Zenon, <1>1, <2>1
    <2>2. CASE Beaten(b)
      <3>1. PICK c \in setBlockIndexCandidates : Obeys(c) /\ Worse(b, c, nSequenceId)
        BY Zenon, <2>2 DEF Beaten
      <3>2. c \in Block
        BY Zenon DEF OrderInv, RuleInv, TypeInv, TypeOK
      <3>3. c \notin Failed'
        <4>1. \A a \in Ancestors[c] : a \notin failedValid' /\ Verdict[a] = "ok"
          BY Zenon, <3>1 DEF Obeys, RuleInv
        <4>2. c \notin failedValid' /\ c \notin failedChild'
          BY <3>2, <4>1, TreeFacts DEF RuleInv
        <4> QED BY <4>2 DEF Failed
      <3> QED BY <3>1, <3>3 DEF Beaten
    <2> QED BY <1>1, <2>1, <2>2 DEF OrderInv
  <1> QED BY <1>1 DEF OrderInv

(* The tip obeys the rules, so that it is not marked. *)
LEMMA TipObeys ==
    ASSUME OrderInv
    PROVE  tip \in Block /\ Obeys(tip) /\ tip \in linked \ Failed
  <1>1. tip \in Block /\ Obeys(tip) /\ tip \in linked
    BY Zenon DEF OrderInv, RuleInv, TypeInv, TypeOK, Obeys
  <1> QED BY <1>1, NoCauseNoMark DEF OrderInv, Obeys

(* Receiving a block keeps the order: what is linked becomes a candidate,      *)
(* unless it is worse than the tip.                                            *)
LEMMA OrderAccept ==
    ASSUME OrderInv, CompleteInv', RuleInv',
           NEW t \in Thread, NEW b \in Block \ {Genesis}, NEW r \in BOOLEAN, AcceptBlock(t, b, r)
    PROVE  OrderInv'
  <1>1. /\ b \notin haveData /\ linked' = linked \cup Queue(b)
        /\ setBlockIndexCandidates' =
              setBlockIndexCandidates \cup NotWorse(Queue(b), tip, nSequenceId')
        /\ \A x \in Block \ Queue(b) : nSequenceId'[x] = nSequenceId[x]
        /\ UNCHANGED <<failedValid, failedChild, tip, halted>>
    <2>1. UNCHANGED <<failedValid, failedChild, tip, halted>>
      BY Zenon DEF AcceptBlock
    <2>2. b \notin haveData /\ linked' = linked \cup Queue(b)
      BY Zenon, AcceptCandidates
    <2>3. setBlockIndexCandidates' =
              setBlockIndexCandidates \cup NotWorse(Queue(b), tip, nSequenceId')
      BY Zenon, AcceptCandidates
    <2>4. \A x \in Block \ Queue(b) : nSequenceId'[x] = nSequenceId[x]
      BY Zenon, AcceptEffect
    <2> QED BY Zenon, <2>1, <2>2, <2>3, <2>4
  <1>2. ReceivedInv /\ LinkInv /\ LinkInv'
    BY Zenon DEF OrderInv, CompleteInv, ReceivedInv
  <1>3. /\ \A x \in Queue(b) : x \notin linked
        /\ linked \subseteq Block /\ linked' \subseteq Block /\ setBlockIndexCandidates \subseteq linked
    <2>1. \A x \in Queue(b) : x \notin linked
      BY Zenon, <1>1, <1>2, QueueIsNew DEF Queue
    <2>2. linked \subseteq Block /\ setBlockIndexCandidates \subseteq linked
      BY Zenon, <1>2, LinkedReceived
    <2>3. linked' \subseteq Block
      BY Zenon, <1>2 DEF LinkInv, TypeInv, TypeOK
    <2> QED BY <2>1, <2>2, <2>3
  <1>4. \A x, y \in linked : Worse(x, y, nSequenceId') <=> Worse(x, y, nSequenceId)
    BY <1>1, <1>3, WorseLocal
  <1>5. nSequenceId' \in [Block -> Int] /\ Failed' = Failed
    BY Zenon, <1>1, <1>2 DEF LinkInv, TypeInv, TypeOK, Failed
  <1>6. tip \in linked \ Failed /\ Obeys(tip)
    BY Zenon, TipObeys
  <1>7. \A c \in setBlockIndexCandidates' : ~Worse(c, tip', nSequenceId')
    BY Zenon, <1>1, <1>3, <1>4, <1>6 DEF NotWorse, OrderInv
  <1>8. ASSUME NEW v \in linked' \ Failed'
        PROVE  v \in setBlockIndexCandidates' \/ Beaten(v)'
    <2>1. CASE v \in linked
      <3>1. v \in setBlockIndexCandidates \/ Beaten(v)
        BY Zenon, <1>5, <1>8, <2>1 DEF OrderInv
      <3> QED BY <1>1, <1>3, <1>4, <2>1, <3>1 DEF Beaten
    <2>2. CASE v \in Queue(b)
      <3>1. CASE ~Worse(v, tip, nSequenceId')
        BY Zenon, <1>1, <2>2, <3>1 DEF NotWorse
      <3>2. CASE Worse(v, tip, nSequenceId')
        <4>1. CASE tip \in setBlockIndexCandidates
          BY Zenon, <1>1, <1>6, <3>2, <4>1 DEF Beaten
        <4>2. CASE Beaten(tip)
          <5>1. PICK c \in setBlockIndexCandidates : Obeys(c) /\ Worse(tip, c, nSequenceId)
            BY Zenon, <4>2 DEF Beaten
          <5>2. Worse(tip, c, nSequenceId') /\ c \in Block /\ tip \in Block /\ v \in Block
            BY Zenon, <1>3, <1>4, <1>6, <1>8, <5>1
          <5>3. Worse(v, c, nSequenceId')
            BY Zenon, <1>5, <3>2, <5>2, WorseTransitive
          <5> QED BY <1>1, <5>1, <5>3 DEF Beaten
        <4> QED BY <1>6, <4>1, <4>2 DEF OrderInv
      <3> QED BY <3>1, <3>2
    <2> QED BY Zenon, <1>1, <1>8, <2>1, <2>2
  <1> QED BY <1>1, <1>6, <1>7, <1>8 DEF OrderInv

(* Connecting a block keeps the order, and leaves a candidate: the assert of   *)
(* PruneBlockIndexCandidates.                                                  *)
LEMMA OrderConnect ==
    ASSUME OrderInv, CompleteInv', RuleInv', NEW t \in Thread, NEW b \in Block, ConnectTip(t, b)
    PROVE  OrderInv'
  <1> DEFINE kept == NotWorse(setBlockIndexCandidates, b, nSequenceId)
  <1>1. /\ tip' = b /\ pprev[b] = tip /\ Verdict[b] = "ok" /\ b # Genesis
        /\ b \in Ancestors[pindexMostWork[t]] /\ pc[t] = "connect"
        /\ setBlockIndexCandidates' = kept
        /\ halted' = IF kept = {} THEN "PruneBlockIndexCandidates" ELSE halted
        /\ UNCHANGED <<linked, nSequenceId, failedValid, failedChild>>
    BY Zenon DEF ConnectTip, Connecting
  <1>2. LinkInv /\ nSequenceId \in [Block -> Int] /\ Failed' = Failed
    BY Zenon, <1>1 DEF OrderInv, CompleteInv, ReceivedInv, LinkInv, TypeInv, TypeOK, Failed
  <1>3. linked \subseteq Block /\ setBlockIndexCandidates \subseteq linked
    BY Zenon, <1>2, LinkedReceived
  <1>4. b \in linked
    <2>1. pindexMostWork[t] \in linked
      BY Zenon, <1>1, <1>2 DEF OrderInv, CompleteInv, LinkInv, TypeInv, Structure
    <2> QED BY <1>1, <1>2, <2>1, LinkedReceived
  <1>5. Obeys(b) /\ b \notin Failed
    <2>1. Ancestors[b] = Ancestors[tip] \cup {b}
      BY Zenon, <1>1, TreeFacts
    <2>2. Obeys(b)
      BY Zenon, <1>1, <2>1 DEF OrderInv, RuleInv, Obeys
    <2> QED BY Zenon, <2>2, NoCauseNoMark DEF OrderInv, Obeys
  <1>6. PICK d \in setBlockIndexCandidates : Obeys(d) /\ (d = b \/ Worse(b, d, nSequenceId))
    BY Zenon, <1>4, <1>5 DEF OrderInv, Beaten
  <1>7. ~Worse(d, b, nSequenceId) /\ d \in Block
    BY Zenon, <1>2, <1>3, <1>6, WorseOrder
  <1>8. d \in kept
    BY Zenon, <1>7 DEF NotWorse
  <1>9. ASSUME NEW v \in Block, Worse(v, b, nSequenceId)
        PROVE  Worse(v, d, nSequenceId)
    BY Zenon, <1>2, <1>6, <1>7, <1>9, WorseTransitive
  <1>10. ASSUME NEW v \in linked \ Failed
         PROVE  v \in kept \/ \E c \in kept : Obeys(c) /\ Worse(v, c, nSequenceId)
    <2>0. v \in Block
      BY Zenon, <1>3
    <2>1. CASE v \in setBlockIndexCandidates
      BY Zenon, <1>6, <1>8, <1>9, <2>0, <2>1 DEF NotWorse
    <2>2. CASE Beaten(v)
      <3>1. PICK c \in setBlockIndexCandidates : Obeys(c) /\ Worse(v, c, nSequenceId)
        BY Zenon, <2>2 DEF Beaten
      <3>2. CASE Worse(c, b, nSequenceId)
        <4>1. c \in Block
          BY Zenon, <1>3
        <4>2. Worse(v, b, nSequenceId)
          BY Zenon, <1>2, <2>0, <3>1, <3>2, <4>1, WorseTransitive
        <4> QED BY <1>6, <1>8, <1>9, <2>0, <4>2
      <3>3. CASE ~Worse(c, b, nSequenceId)
        BY Zenon, <3>1, <3>3 DEF NotWorse
      <3> QED BY <3>2, <3>3
    <2> QED BY <1>10, <2>1, <2>2 DEF OrderInv
  <1>11. \A c \in kept : ~Worse(c, b, nSequenceId)
    BY Zenon DEF NotWorse
  <1> HIDE DEF kept
  <1>12. \A v \in linked' \ Failed' : v \in setBlockIndexCandidates' \/ Beaten(v)'
    BY Zenon, <1>1, <1>2, <1>10 DEF Beaten
  <1>13. halted' # "PruneBlockIndexCandidates"
    BY Zenon, <1>1, <1>8 DEF OrderInv
  <1> QED BY Zenon, <1>1, <1>4, <1>11, <1>12, <1>13 DEF OrderInv

(* A block that is not worse than another is not worse than one with less work. *)
LEMMA MoreWork ==
    ASSUME NEW c, NEW a, NEW b, NEW s,
           nChainWork[c] \in Int, nChainWork[a] \in Int, nChainWork[b] \in Int,
           nChainWork[a] > nChainWork[b], ~Worse(c, a, s)
    PROVE  ~Worse(c, b, s)
  <1>1. nChainWork[c] >= nChainWork[a]
    BY DEF Worse
  <1>2. nChainWork[c] > nChainWork[b]
    BY <1>1
  <1> QED BY <1>2 DEF Worse

(* Disconnecting the tip keeps the order: its predecessor has less work. *)
LEMMA OrderDisconnect ==
    ASSUME OrderInv, CompleteInv', RuleInv', NEW t \in Thread, DisconnectTip(t)
    PROVE  OrderInv'
  <1>1. /\ UNCHANGED <<linked, nSequenceId, failedValid, failedChild, setBlockIndexCandidates>>
        /\ halted' \in {halted, "abort"}
        /\ tip' = tip \/ (tip' = pprev[tip] /\ tip \in haveUndo)
    BY Zenon DEF DisconnectTip
  <1>2. Failed' = Failed /\ halted' # "PruneBlockIndexCandidates"
    BY Zenon, <1>1 DEF Failed, OrderInv
  <1>3. CASE tip' = tip
    BY Zenon, <1>1, <1>2, <1>3, OrderKept
  <1>4. CASE tip' = pprev[tip] /\ tip \in haveUndo
    <2>1. LinkInv /\ tip \in Block \ {Genesis} /\ tip \in linked
      BY Zenon, <1>4 DEF OrderInv, CompleteInv, ReceivedInv, LinkInv, TypeInv, TypeOK,
         Structure
    <2>2. pprev[tip] \in linked /\ pprev[tip] \in Block
      BY Zenon, <2>1, LinkedReceived, TreeFacts
    <2>3. ASSUME NEW c \in setBlockIndexCandidates PROVE ~Worse(c, pprev[tip], nSequenceId)
      <3>1. c \in Block /\ ~Worse(c, tip, nSequenceId)
        BY Zenon, <2>1, LinkedReceived DEF OrderInv
      <3>2. /\ nChainWork[tip] > nChainWork[pprev[tip]]
            /\ nChainWork[tip] \in Int /\ nChainWork[pprev[tip]] \in Int /\ nChainWork[c] \in Int
        BY <2>1, <2>2, <3>1, BlockTreeAssumption
      <3> QED BY Zenon, <3>1, <3>2, MoreWork
    <2>4. \A b \in linked' \ Failed' : b \in setBlockIndexCandidates' \/ Beaten(b)'
      BY Zenon, <1>1, <1>2 DEF OrderInv, Beaten
    <2> QED BY Zenon, <1>1, <1>2, <1>4, <2>2, <2>3, <2>4 DEF OrderInv
  <1> QED BY Zenon, <1>1, <1>3, <1>4

(* Without operator calls and without pruning, every step keeps the order. *)
LEMMA OrderStep ==
    ASSUME ~fPruneMode, Rpc = {}
    PROVE  OrderInv /\ [Next]_vars => OrderInv'
  <1> SUFFICES ASSUME OrderInv, [Next]_vars
               PROVE  OrderInv'
    BY Zenon
  <1>0. CompleteInv /\ CompleteInv' /\ RuleInv' /\ ReceivedInv /\ Failed \subseteq Failed'
        /\ halted # "PruneBlockIndexCandidates"
    BY Zenon, CompleteStep, RuleStep, MarksStay DEF OrderInv, CompleteInv
  <1>1. ASSUME NEW t \in Thread, NEW b \in Block \ {Genesis}, NEW r \in BOOLEAN,
               AcceptBlock(t, b, r)
        PROVE  OrderInv'
    BY Zenon, <1>0, <1>1, OrderAccept
  <1>2. ASSUME NEW t \in Thread, NEW b \in Block, ConnectTip(t, b)
        PROVE  OrderInv'
    BY Zenon, <1>0, <1>2, OrderConnect
  <1>3. ASSUME NEW t \in Thread, DisconnectTip(t)
        PROVE  OrderInv'
    BY Zenon, <1>0, <1>3, OrderDisconnect
  <1>4. ASSUME NEW t \in Thread, DropCandidate(t)
        PROVE  OrderInv'
    <2>1. PICK c \in setBlockIndexCandidates : \E x \in Failed \cap Ancestors[c] :
             /\ setBlockIndexCandidates' = setBlockIndexCandidates \ Dropped(c, x)
             /\ failedChild' = failedChild \cup Above(c, x)
      BY Zenon, <1>0, <1>4, DropEffect
    <2>2. UNCHANGED <<linked, nSequenceId, tip, halted>>
      BY Zenon, <1>0, <1>4, DropEffect
    <2>3. setBlockIndexCandidates \ setBlockIndexCandidates' \subseteq Failed'
          /\ setBlockIndexCandidates' \subseteq setBlockIndexCandidates
      BY Zenon, <1>0, <2>1 DEF Dropped, Failed
    <2> QED BY <1>0, <2>2, <2>3, OrderKept
  <1>5. ASSUME NEW t \in Thread, NEW b \in Block, InvalidBlockFound(t, b)
        PROVE  OrderInv'
    <2>1. /\ setBlockIndexCandidates' = setBlockIndexCandidates \ {b}
          /\ failedValid' = failedValid \cup {b}
          /\ UNCHANGED <<linked, nSequenceId, tip, halted>>
      BY Zenon, <1>5 DEF InvalidBlockFound
    <2>2. setBlockIndexCandidates \ setBlockIndexCandidates' \subseteq Failed'
      BY Zenon, <2>1 DEF Failed
    <2> QED BY Zenon, <1>0, <2>1, <2>2, OrderKept
  <1>6. CASE ~Selecting
    <2>1. /\ UNCHANGED <<setBlockIndexCandidates, tip>>
          /\ halted' # "PruneBlockIndexCandidates"
      BY Zenon, <1>0, <1>6, OtherSelections
    <2>2. \A t \in Thread, b \in Block : ~PreciousBlock(t, b)
      BY Zenon DEF PreciousBlock
    <2>3. ~(\E t \in Thread, b \in Block \ {Genesis}, r \in BOOLEAN : AcceptBlock(t, b, r))
      BY Zenon, <1>6 DEF Selecting
    <2>4. UNCHANGED <<linked, nSequenceId>>
      BY Zenon, <1>0, <2>2, <2>3, OtherSteps
    <2>5. setBlockIndexCandidates \ setBlockIndexCandidates' \subseteq Failed'
      BY Zenon, <2>1
    <2> QED BY Zenon, <1>0, <2>1, <2>4, <2>5, OrderKept
  <1> QED BY Zenon, <1>1, <1>2, <1>3, <1>4, <1>5, <1>6 DEF Selecting


------------------------------------------------------------------------------
(* The data reorganisations need, when nothing is pruned *)

(* The active chain can be disconnected, the fork is on it, and what is to be  *)
(* connected was received.                                                     *)
UndoInv ==
    /\ ReceivedInv
    /\ Ancestors[tip] \ {Genesis} \subseteq haveData \cap haveUndo
    /\ \A t \in Thread : pc[t] = "disconnect" => step.fork \in Ancestors[tip]
    /\ \A t \in Thread : pindexMostWork[t] \in linked \cup {NULL}
    /\ halted # "abort"

(* Initially there is nothing to disconnect. *)
LEMMA UndoInit == Init => UndoInv
  <1> SUFFICES ASSUME Init PROVE UndoInv
    BY Zenon
  <1>1. Ancestors[tip] \ {Genesis} = {}
    BY Zenon, BlockTreeAssumption DEF Init
  <1>2. \A t \in Thread : pc[t] = "idle" /\ pindexMostWork[t] = NULL
    BY Zenon DEF Init
  <1>3. halted = "no"
    BY Zenon DEF Init
  <1> QED BY <1>1, <1>2, <1>3, ReceivedInit DEF UndoInv

(* A step that leaves the tip, and adds no thread to the ones disconnecting    *)
(* blocks, keeps the data for them.                                            *)
LEMMA UndoKept ==
    ASSUME UndoInv, ReceivedInv', [Next]_vars, ~fPruneMode, halted' # "abort",
           tip' = tip, haveUndo \subseteq haveUndo', linked \subseteq linked', haveData \subseteq haveData',
           \A t \in Thread : pc'[t] = "disconnect" => pc[t] = "disconnect" /\ step'.fork = step.fork
    PROVE  UndoInv'
  <1>1. \A t \in Thread : pindexMostWork'[t] \in linked' \cup {NULL}
    BY Zenon, GoalStep DEF UndoInv, ReceivedInv, LinkInv, LinkedIsReceived
  <1> QED BY Zenon, <1>1 DEF UndoInv


(* Going on to ActivateBestChain, or leaving it, disconnects nothing. *)
LEMMA NotDisconnecting ==
    ASSUME TypeInv, NEW t \in Thread, GoActivate(t) \/ (Return(t) /\ (csMain = t \/ csMain = NULL)),
           NEW u \in Thread, pc'[u] = "disconnect"
    PROVE  pc[u] = "disconnect" /\ step' = step
  <1>1. pc \in [Thread -> {"idle", "loop"} \cup Inside]
    BY Zenon DEF TypeInv, TypeOK
  <1>2. CASE GoActivate(t)
    BY Zenon, <1>1, <1>2 DEF GoActivate
  <1>3. CASE Return(t) /\ (csMain = t \/ csMain = NULL)
    <2>1. u # t /\ pc[u] = "disconnect"
      BY Zenon, <1>1, <1>3 DEF Return
    <2>2. csMain = u
      BY Zenon, <2>1 DEF TypeInv, TypeOK, Inside
    <2> QED BY Zenon, <1>3, <2>1, <2>2, ChainStateAssumption DEF ChainStateAssumption
  <1> QED BY Zenon, <1>2, <1>3

(* Entering ActivateBestChainStep, the fork is on the active chain. *)
LEMMA UndoBegin ==
    ASSUME UndoInv, ReceivedInv', [Next]_vars, NEW t \in Thread, NEW b \in Block,
           csMain = t \/ csMain = NULL, BeginStep(t, b),
           UNCHANGED <<tip, haveUndo, haveData, linked>>, halted' # "abort"
    PROVE  UndoInv'
  <1>1. tip \in Block /\ TypeInv
    BY Zenon DEF UndoInv, ReceivedInv, LinkInv, TypeInv, TypeOK
  <1>2. step'.fork \in Ancestors[tip]
    BY Zenon, <1>1, FindForkExact DEF BeginStep
  <1>3. \A u \in Thread : pindexMostWork'[u] \in linked' \cup {NULL}
    BY Zenon, <1>1, GoalStep DEF UndoInv, ReceivedInv, LinkInv, LinkedIsReceived
  <1> QED BY Zenon, <1>2, <1>3 DEF UndoInv

(* So invalidateblock finds every block it has to disconnect, *)
LEMMA NothingStuck ==
    ASSUME UndoInv, NEW t \in Thread, NEW b \in Block
    PROVE  ~InvalidateBlockFails(t, b)
  <1> SUFFICES ASSUME InvalidateBlockFails(t, b) PROVE FALSE
    BY Zenon
  <1>1. PICK x : x \in Stuck(b) /\ b # Genesis
    BY Zenon DEF InvalidateBlockFails
  <1>2. x \in Ancestors[tip] /\ x \notin haveData \cap haveUndo /\ x \notin Ancestors[pprev[b]]
    BY Zenon, <1>1 DEF Stuck, ToDisconnect
  <1>3. x # Genesis
    BY <1>1, <1>2, TreeFacts
  <1> QED BY Zenon, <1>2, <1>3 DEF UndoInv

(* and DisconnectTip goes all the way down to the fork. *)
LEMMA DisconnectSucceeds ==
    ASSUME UndoInv, NEW t \in Thread, DisconnectTip(t)
    PROVE  /\ UNCHANGED <<haveUndo, haveData, linked, step, halted, pindexMostWork, csMain,
                          pindexBestInvalid, warn>>
           /\ csMain = t
           /\ \/ tip' = tip /\ pc' = [pc EXCEPT ![t] = "connect"]
              \/ /\ tip' = pprev[tip] /\ tip \in Block \ {Genesis} /\ UNCHANGED pc
                 /\ pc[t] = "disconnect" /\ step.fork \in Ancestors[tip']
  <1>1. /\ csMain = t /\ pc[t] = "disconnect" /\ step.fork \in Ancestors[tip]
        /\ UNCHANGED <<haveUndo, haveData, linked, pindexBestInvalid, warn>>
    BY Zenon DEF DisconnectTip, UndoInv
  <1>2. CASE tip = step.fork
    BY Zenon, <1>1, <1>2 DEF DisconnectTip
  <1>3. CASE tip # step.fork
    <2>1. tip \in Block \ {Genesis} /\ tip \in haveData /\ tip \in haveUndo
      <3>1. tip # Genesis
        BY <1>1, <1>3, BlockTreeAssumption
      <3>2. tip \in Block
        BY Zenon DEF UndoInv, ReceivedInv, LinkInv, TypeInv, TypeOK
      <3> QED BY Zenon, <3>1, <3>2, TreeFacts DEF UndoInv
    <2>2. tip' = pprev[tip] /\ UNCHANGED <<threadVars, halted>>
      BY Zenon, <1>3, <2>1 DEF DisconnectTip
    <2>3. Ancestors[tip] = Ancestors[tip'] \cup {tip}
      BY Zenon, <2>1, <2>2, TreeFacts
    <2> QED BY <1>1, <1>3, <2>1, <2>2, <2>3
  <1> QED BY Zenon, <1>2, <1>3

(* Without pruning, every step keeps the data for reorganisations. *)
LEMMA UndoStep ==
    ASSUME ~fPruneMode
    PROVE  UndoInv /\ [Next]_vars => UndoInv'
  <1> SUFFICES ASSUME UndoInv, [Next]_vars
               PROVE  UndoInv'
    BY Zenon
  <1>0. /\ TypeInv /\ ReceivedInv /\ ReceivedInv' /\ LinkInv /\ halted # "abort"
        /\ pc \in [Thread -> {"idle", "loop"} \cup Inside]
        /\ tip \in Block
    BY Zenon, ReceivedStep DEF UndoInv, ReceivedInv, LinkInv, TypeInv, TypeOK
  <1>1. ASSUME NEW b \in Block \ {Genesis}, AcceptHeader(b) \/ RejectHeader(b)
        PROVE  UndoInv'
    <2>1. /\ UNCHANGED <<tip, haveUndo, haveData, linked, pc, step>>
          /\ halted' \in {halted, "AcceptBlockHeader"}
      BY Zenon, <1>1 DEF AcceptHeader, RejectHeader
    <2> QED BY Zenon, <1>0, <2>1, UndoKept
  <1>2. ASSUME NEW t \in Thread, NEW b \in Block \ {Genesis}, NEW r \in BOOLEAN,
               IgnoreBlock(t, b, r)
        PROVE  UndoInv'
    <2>1. UNCHANGED <<tip, haveUndo, haveData, linked, halted>> /\ GoActivate(t)
      BY Zenon, <1>2 DEF IgnoreBlock
    <2> QED BY Zenon, <1>0, <2>1, NotDisconnecting, UndoKept
  <1>3. ASSUME NEW t \in Thread, NEW b \in Block \ {Genesis}, NEW r \in BOOLEAN,
               RejectBlock(t, b, r)
        PROVE  UndoInv'
    <2>1. UNCHANGED <<tip, haveUndo, haveData, linked, halted, pc, step>>
      BY Zenon, <1>3 DEF RejectBlock
    <2> QED BY Zenon, <1>0, <2>1, UndoKept
  <1>4. ASSUME NEW t \in Thread, NEW b \in Block \ {Genesis}, NEW r \in BOOLEAN,
               AcceptBlock(t, b, r)
        PROVE  UndoInv'
    <2>1. /\ linked' = linked \cup Queue(b) /\ haveData' = haveData \cup {b}
          /\ GoActivate(t) /\ UNCHANGED <<tip, haveUndo, halted>>
      <3>1. GoActivate(t) /\ UNCHANGED <<tip, haveUndo, halted>>
        BY Zenon, <1>4 DEF AcceptBlock
      <3>2. linked' = linked \cup Queue(b) /\ haveData' = haveData \cup {b}
        BY ZenonT(60), <1>4, AcceptLinks
      <3> QED BY Zenon, <3>1, <3>2
    <2> QED BY Zenon, <1>0, <2>1, NotDisconnecting, UndoKept
  <1>5. \A b \in Block : ~PruneOneBlockFile(b)
    BY Zenon DEF PruneOneBlockFile
  <1>6. ASSUME NEW t \in Thread, NEW b \in Block, InvalidateBlock(t, b)
        PROVE  UndoInv'
    <2>1. /\ tip' = IF Contains(tip, b) THEN pprev[b] ELSE tip
          /\ b \in mapBlockIndex \ {Genesis} /\ csMain = NULL /\ GoActivate(t)
          /\ UNCHANGED <<haveUndo, haveData, linked, halted>>
      BY Zenon, <1>6 DEF InvalidateBlock, Free
    <2>2. Ancestors[tip'] \subseteq Ancestors[tip]
      <3>1. b \in Block \ {Genesis}
        BY Zenon, <2>1
      <3>2. CASE Contains(tip, b)
        <4>1. pprev[b] \in Ancestors[tip]
          BY Zenon, <1>0, <3>1, <3>2, TreeFacts DEF Contains
        <4> QED BY Zenon, <1>0, <2>1, <3>2, <4>1, TreeFacts
      <3>3. CASE ~Contains(tip, b)
        BY Zenon, <2>1, <3>3
      <3> QED BY Zenon, <3>2, <3>3
    <2>3. \A u \in Thread : pc'[u] # "disconnect"
      <3>1. \A u \in Thread : pc[u] # "disconnect"
        <4>1. NULL \notin Thread
          BY Zenon, ChainStateAssumption DEF ChainStateAssumption
        <4>2. \A u \in Thread : csMain = u <=> pc[u] \in Inside
          BY Zenon, <1>0 DEF TypeInv, TypeOK
        <4>3. "disconnect" \in Inside
          BY Zenon DEF Inside
        <4> QED BY Zenon, <2>1, <4>1, <4>2, <4>3
      <3> QED BY Zenon, <1>0, <2>1, <3>1, NotDisconnecting
    <2>4. \A u \in Thread : pindexMostWork'[u] \in linked' \cup {NULL}
      BY Zenon, <1>0, <2>1, GoalStep DEF UndoInv, LinkInv, LinkedIsReceived
    <2> QED BY Zenon, <1>0, <2>1, <2>2, <2>3, <2>4 DEF UndoInv
  <1>7. ASSUME NEW t \in Thread, NEW b \in Block, InvalidateBlockFails(t, b)
        PROVE  FALSE
    BY Zenon, <1>7, NothingStuck
  <1>8. ASSUME NEW t \in Thread, NEW b \in Block,
               ResetBlockFailureFlags(t, b) \/ PreciousBlock(t, b)
        PROVE  UndoInv'
    <2>1. UNCHANGED <<tip, haveUndo, haveData, linked>> /\ GoActivate(t)
          /\ halted' \in {halted, "PruneBlockIndexCandidates"}
      BY Zenon, <1>8 DEF ResetBlockFailureFlags, PreciousBlock
    <2> QED BY <1>0, <2>1, NotDisconnecting, UndoKept
  <1>9. ASSUME NEW t \in Thread, LockMain(t)
        PROVE  UndoInv'
    <2>1. /\ csMain = NULL /\ UNCHANGED <<tip, haveUndo, haveData, linked, halted>>
          /\ \/ pc' = [pc EXCEPT ![t] = "find"] /\ UNCHANGED step
             \/ Return(t)
             \/ BeginStep(t, pindexMostWork[t]) /\ pindexMostWork[t] # NULL
      BY Zenon, <1>9 DEF LockMain, Free
    <2>2. CASE pc' = [pc EXCEPT ![t] = "find"] /\ UNCHANGED step
      <3>1. \A u \in Thread : pc'[u] = "disconnect" => pc[u] = "disconnect"
        BY Zenon, <1>0, <2>2
      <3> QED BY <1>0, <2>1, <2>2, <3>1, UndoKept
    <2>3. CASE Return(t)
      BY Zenon, <1>0, <2>1, <2>3, NotDisconnecting, UndoKept
    <2>4. CASE BeginStep(t, pindexMostWork[t]) /\ pindexMostWork[t] # NULL
      <3>1. pindexMostWork[t] \in Block
        BY Zenon, <1>0, <2>4, LinkedReceived DEF UndoInv
      <3> QED BY Zenon, <1>0, <2>1, <2>4, <3>1, UndoBegin
    <2> QED BY Zenon, <2>1, <2>2, <2>3, <2>4
  <1>10. ASSUME NEW t \in Thread, FindMostWorkChain(t)
         PROVE  UndoInv'
    <2>1. /\ csMain = t /\ UNCHANGED <<tip, haveUndo, haveData, linked>>
          /\ halted' \in {halted, "FindMostWorkChain"}
          /\ Return(t) \/ \E c \in setBlockIndexCandidates : BeginStep(t, c)
      BY Zenon, <1>10 DEF FindMostWorkChain, Finding
    <2>2. CASE Return(t)
      BY Zenon, <1>0, <2>1, <2>2, NotDisconnecting, UndoKept
    <2>3. ASSUME NEW c \in setBlockIndexCandidates, BeginStep(t, c)
          PROVE  UndoInv'
      <3>1. c \in Block
        BY Zenon, <1>0, LinkedReceived
      <3> QED BY <1>0, <2>1, <2>3, <3>1, UndoBegin
    <2> QED BY <2>1, <2>2, <2>3
  <1>11. ASSUME NEW t \in Thread, DropCandidate(t)
         PROVE  UndoInv'
    <2>1. UNCHANGED <<tip, haveUndo, haveData, linked, halted, pc, step>>
      BY Zenon, <1>0, <1>11, DropEffect
    <2> QED BY Zenon, <1>0, <2>1, UndoKept
  <1>12. ASSUME NEW t \in Thread, DisconnectTip(t)
         PROVE  UndoInv'
    <2>1. /\ UNCHANGED <<haveUndo, haveData, linked, step, halted, pindexMostWork>>
          /\ \/ tip' = tip /\ pc' = [pc EXCEPT ![t] = "connect"]
             \/ /\ tip' = pprev[tip] /\ tip \in Block \ {Genesis} /\ UNCHANGED pc
                /\ step.fork \in Ancestors[tip']
      BY Zenon, <1>12, DisconnectSucceeds
    <2>2. CASE tip' = tip /\ pc' = [pc EXCEPT ![t] = "connect"]
      <3>1. \A u \in Thread : pc'[u] = "disconnect" => pc[u] = "disconnect"
        BY Zenon, <1>0, <2>2
      <3> QED BY Zenon, <1>0, <2>1, <2>2, <3>1, UndoKept
    <2>3. CASE /\ tip' = pprev[tip] /\ tip \in Block \ {Genesis} /\ UNCHANGED pc
               /\ step.fork \in Ancestors[tip']
      <3>1. Ancestors[tip'] \subseteq Ancestors[tip]
        BY Zenon, <2>3, TreeFacts
      <3> QED BY Zenon, <1>0, <2>1, <2>3, <3>1 DEF UndoInv
    <2> QED BY Zenon, <2>1, <2>2, <2>3
  <1>13. ASSUME NEW t \in Thread, NEW b \in Block, ConnectTip(t, b)
         PROVE  UndoInv'
    <2>1. /\ tip' = b /\ b # Genesis /\ pprev[b] = tip /\ b \in haveData
          /\ haveUndo' = haveUndo \cup {b}
          /\ halted' \in {halted, "PruneBlockIndexCandidates"}
          /\ \E p \in {"finish", "connect"} : pc' = [pc EXCEPT ![t] = p]
          /\ csMain = t
          /\ UNCHANGED <<haveData, linked, pindexMostWork, step>>
      BY Zenon, <1>13 DEF ConnectTip, Connecting
    <2>2. \A u \in Thread : pc'[u] # "disconnect"
      <3>1. \A u \in Thread : u # t => pc[u] # "disconnect"
        BY Zenon, <1>0, <2>1 DEF TypeInv, TypeOK, Inside
      <3> QED BY Zenon, <1>0, <2>1, <3>1
    <2>3. Ancestors[b] = Ancestors[tip] \cup {b}
      BY Zenon, <2>1, TreeFacts
    <2> QED BY Zenon, <1>0, <2>1, <2>2, <2>3 DEF UndoInv
  <1>14. ASSUME NEW t \in Thread, NEW b \in Block, InvalidBlockFound(t, b)
         PROVE  UndoInv'
    <2>1. /\ UNCHANGED <<tip, haveUndo, haveData, linked, halted>>
          /\ csMain = t /\ pc' = [pc EXCEPT ![t] = "finish"]
      BY Zenon, <1>14 DEF InvalidBlockFound, Connecting
    <2>2. \A u \in Thread : pc'[u] # "disconnect"
      <3>1. \A u \in Thread : u # t => pc[u] # "disconnect"
        BY Zenon, <1>0, <2>1 DEF TypeInv, TypeOK, Inside
      <3> QED BY Zenon, <1>0, <2>1, <3>1
    <2> QED BY Zenon, <1>0, <2>1, <2>2, UndoKept
  <1>15. ASSUME NEW t \in Thread, NEW b \in Block, ConnectWithoutData(t, b)
         PROVE  FALSE
    <2>1. b \in Ancestors[pindexMostWork[t]] /\ pc[t] = "connect" /\ b \notin haveData
      BY Zenon, <1>15 DEF ConnectWithoutData, Connecting
    <2>2. pindexMostWork[t] \in linked
      BY Zenon, <1>0, <2>1 DEF UndoInv, TypeInv, Structure
    <2> QED BY Zenon, <1>0, <2>1, <2>2, LinkedReceived DEF ReceivedInv
  <1>16. ASSUME NEW t \in Thread, Connected(t) \/ FinishStep(t)
         PROVE  UndoInv'
    <2>1. /\ UNCHANGED <<tip, haveUndo, haveData, linked>>
          /\ csMain = t /\ \E p \in {"finish", "idle", "loop"} : pc' = [pc EXCEPT ![t] = p]
          /\ halted' \in {halted, "CheckForkWarningConditions"}
      BY Zenon, <1>16 DEF Connected, FinishStep
    <2>2. \A u \in Thread : pc'[u] # "disconnect"
      <3>1. \A u \in Thread : u # t => pc[u] # "disconnect"
        BY Zenon, <1>0, <2>1 DEF TypeInv, TypeOK, Inside
      <3> QED BY Zenon, <1>0, <2>1, <3>1
    <2> QED BY Zenon, <1>0, <2>1, <2>2, UndoKept
  <1>17. CASE UNCHANGED vars
    <2>1. UNCHANGED <<tip, haveUndo, haveData, linked, halted, pc, step>>
      BY Zenon, <1>17 DEF vars
    <2> QED BY Zenon, <1>0, <2>1, UndoKept
  <1> QED BY Zenon, <1>1, <1>2, <1>3, <1>4, <1>5, <1>6, <1>7, <1>8, <1>9, <1>10, <1>11,
             <1>12,
             <1>13, <1>14, <1>15, <1>16, <1>17
          DEF Next, ProcessNewBlock, OperatorCall, ActivateBestChain

(* Without pruning, no reorganisation and no invalidateblock fails for want of *)
(* a block or its undo data, and the node is never aborted (AbortNode).        *)
THEOREM NeverAborts ==
    ASSUME ~fPruneMode
    PROVE  Spec => [](halted # "abort")
  <1>1. UndoInv => halted # "abort"
    BY Zenon DEF UndoInv
  <1> QED BY <1>1, UndoInit, UndoStep, PTL DEF Spec


------------------------------------------------------------------------------
(* The fork warnings *)

(* A warning is on show *)
Flagged(w) == w.fLargeWorkForkFound \/ w.fLargeWorkInvalidChainFound

(* The active chain is not being changed *)
Settled == csMain = NULL \/ pc[csMain] = "find"

(* There are warnings about invalid chains only, and only deserved ones; while *)
(* ActivateBestChainStep moves the tip, they wait for its last act.            *)
WarnInv ==
    /\ UndoInv
    /\ pindexBestInvalid = NULL => warn.pindexBestForkTip = NULL /\ step.back = NULL
    /\ Flagged(warn) => ~fInitialDownload
    /\ Flagged(warn) /\ Settled => MustWarn(warn.pindexBestForkTip, tip, pindexBestInvalid)
    /\ halted # "CheckForkWarningConditions"

(* Initially there is no warning. *)
LEMMA WarnInit == Init => WarnInv
  <1> SUFFICES ASSUME Init PROVE WarnInv
    BY Zenon
  <1>1. ~Flagged(warn) /\ warn.pindexBestForkTip = NULL /\ step.back = NULL /\ halted = "no"
    BY Zenon DEF Init, NoWarnings, NoStep, Flagged
  <1> QED BY Zenon, <1>1, UndoInit DEF WarnInv

(* What CheckForkWarningConditions leaves on show is deserved. *)
LEMMA CheckedWarning ==
    ASSUME NEW w \in Warnings, NEW top \in Block, NEW bad \in BlockOrNull,
           Flagged(w) => ~fInitialDownload, NEW v, v = CheckForkWarningConditions(w, top, bad)
    PROVE  /\ v.pindexBestForkTip \in {w.pindexBestForkTip, NULL}
           /\ Flagged(v) => ~fInitialDownload /\ MustWarn(v.pindexBestForkTip, top, bad)
  <1> DEFINE forkTip == RememberedForkTip(w, top)
             known   == forkTip # NULL /\ w.pindexBestForkBase # NULL
  <1>1. forkTip \in {w.pindexBestForkTip, NULL}
    BY Zenon DEF RememberedForkTip
  <1>2. CASE fInitialDownload
    BY Zenon, <1>2 DEF CheckForkWarningConditions
  <1>3. CASE ~fInitialDownload /\ MustWarn(forkTip, top, bad)
    <2>1. v = [w EXCEPT !.pindexBestForkTip = forkTip,
                        !.fLargeWorkForkFound = @ \/ known,
                        !.fLargeWorkInvalidChainFound = @ \/ ~known]
      BY Zenon, <1>3 DEF CheckForkWarningConditions
    <2>2. v.pindexBestForkTip = forkTip
      BY Zenon, <2>1 DEF Warnings
    <2> QED BY Zenon, <1>1, <1>3, <2>2
  <1>4. CASE ~fInitialDownload /\ ~MustWarn(forkTip, top, bad)
    <2>1. v = [w EXCEPT !.pindexBestForkTip = forkTip,
                        !.fLargeWorkForkFound = FALSE,
                        !.fLargeWorkInvalidChainFound = FALSE]
      BY Zenon, <1>4 DEF CheckForkWarningConditions
    <2>2. v.pindexBestForkTip = forkTip /\ ~Flagged(v)
      BY Zenon, <2>1 DEF Warnings, Flagged
    <2> QED BY Zenon, <1>1, <2>2
  <1> QED BY Zenon, <1>2, <1>3, <1>4

(* InvalidChainFound never takes a warning's reason away. *)
LEMMA MoreInvalidMonotone ==
    ASSUME TypeInv, NEW c \in Block, NEW f
    PROVE  /\ MoreInvalid(c) \in Block
           /\ MustWarn(f, tip, pindexBestInvalid) => MustWarn(f, tip, MoreInvalid(c))
  <1>1. /\ pindexBestInvalid \in BlockOrNull /\ NULL \notin Block /\ tip \in Block
        /\ nChainWork[c] \in Int /\ nChainWork[tip] \in Int
        /\ pindexBestInvalid # NULL => nChainWork[pindexBestInvalid] \in Int
    BY BlockTreeAssumption DEF TypeInv, TypeOK, BlockOrNull
  <1>2. CASE pindexBestInvalid = NULL \/ nChainWork[c] > nChainWork[pindexBestInvalid]
    <2>1. MoreInvalid(c) = c
      BY Zenon, <1>2 DEF MoreInvalid
    <2>2. GetBlockProof(tip) * InvalidLead \in Int
      BY <1>1, ForkWarningAssumption, BlockTreeAssumption DEF GetBlockProof
    <2> QED BY <1>1, <1>2, <2>1, <2>2 DEF MustWarn
  <1>3. CASE ~(pindexBestInvalid = NULL \/ nChainWork[c] > nChainWork[pindexBestInvalid])
    <2>1. MoreInvalid(c) = pindexBestInvalid
      BY Zenon, <1>3 DEF MoreInvalid
    <2> QED BY Zenon, <1>1, <1>3, <2>1 DEF BlockOrNull
  <1> QED BY Zenon, <1>2, <1>3

(* A step that does not touch the warnings, and leaves the active chain alone  *)
(* or unsettled, keeps them right.                                             *)
LEMMA WarnKept ==
    ASSUME WarnInv, UndoInv', warn' = warn, halted' # "CheckForkWarningConditions",
           step'.back \in {step.back, NULL}, Settled' => tip' = tip /\ Settled,
           pindexBestInvalid' = pindexBestInvalid
               \/ \E c \in Block : pindexBestInvalid' = MoreInvalid(c)
    PROVE  WarnInv'
  <1>1. TypeInv /\ NULL \notin Block
    BY Zenon, BlockTreeAssumption DEF WarnInv, UndoInv, ReceivedInv, LinkInv
  <1>2. /\ pindexBestInvalid' = NULL => pindexBestInvalid = NULL
        /\ MustWarn(warn.pindexBestForkTip, tip, pindexBestInvalid)
               => MustWarn(warn.pindexBestForkTip, tip, pindexBestInvalid')
    BY Zenon, <1>1, MoreInvalidMonotone
  <1> QED BY Zenon, <1>2 DEF WarnInv


(* Without pruning and without reconsiderblock, every step keeps the warnings  *)
(* right.                                                                      *)
LEMMA WarnStep ==
    ASSUME ~fPruneMode, "reconsiderblock" \notin Rpc
    PROVE  WarnInv /\ [Next]_vars => WarnInv'
  <1> SUFFICES ASSUME WarnInv, [Next]_vars
               PROVE  WarnInv'
    BY Zenon
  <1>0. /\ UndoInv /\ UndoInv' /\ TypeInv /\ TypeInv' /\ NULL \notin Block /\ NULL \notin Thread
        /\ halted # "CheckForkWarningConditions"
        /\ pc \in [Thread -> {"idle", "loop"} \cup Inside]
        /\ tip \in Block /\ tip' \in Block /\ warn \in Warnings
    BY Zenon, UndoStep, BlockTreeAssumption, ChainStateAssumption
       DEF WarnInv, UndoInv, ReceivedInv, LinkInv, TypeInv, TypeOK
  <1>1. ASSUME UNCHANGED <<warn, pindexBestInvalid, tip, step, csMain>>, csMain = NULL,
               halted' # "CheckForkWarningConditions"
        PROVE  WarnInv'
    BY Zenon, <1>0, <1>1, WarnKept DEF Settled
  <1>2. ASSUME NEW b \in Block \ {Genesis}, AcceptHeader(b) \/ RejectHeader(b)
        PROVE  WarnInv'
    <2>1. /\ UNCHANGED <<warn, pindexBestInvalid, tip, step, csMain>> /\ csMain = NULL
          /\ halted' \in {halted, "AcceptBlockHeader"}
      BY Zenon, <1>2 DEF AcceptHeader, RejectHeader, Free
    <2> QED BY Zenon, <1>0, <1>1, <2>1
  <1>3. ASSUME NEW t \in Thread, NEW b \in Block \ {Genesis}, NEW r \in BOOLEAN,
               IgnoreBlock(t, b, r) \/ RejectBlock(t, b, r) \/ AcceptBlock(t, b, r)
        PROVE  WarnInv'
    <2>1. UNCHANGED <<warn, pindexBestInvalid, tip, step, csMain, halted>> /\ csMain = NULL
      BY Zenon, <1>3 DEF IgnoreBlock, RejectBlock, AcceptBlock, GoActivate, Free
    <2> QED BY Zenon, <1>0, <1>1, <2>1
  <1>4. \A b \in Block : ~PruneOneBlockFile(b)
    BY Zenon DEF PruneOneBlockFile
  <1>5. ASSUME NEW t \in Thread, NEW b \in Block, InvalidateBlock(t, b)
        PROVE  WarnInv'
    <2>1. /\ pindexBestInvalid' = MoreInvalid(b)
          /\ warn' = CheckForkWarningConditions(warn, tip', MoreInvalid(b))
          /\ UNCHANGED halted
      BY Zenon, <1>5 DEF InvalidateBlock
    <2>2. pindexBestInvalid' \in Block
      BY Zenon, <1>0, <2>1, MoreInvalidMonotone
    <2>3. Flagged(warn') => ~fInitialDownload /\ MustWarn(warn'.pindexBestForkTip, tip', pindexBestInvalid')
      BY Zenon, <1>0, <2>1, <2>2, CheckedWarning DEF WarnInv, BlockOrNull
    <2> QED BY Zenon, <1>0, <2>1, <2>2, <2>3 DEF WarnInv
  <1>6. ASSUME NEW t \in Thread, NEW b \in Block,
               InvalidateBlockFails(t, b) \/ ResetBlockFailureFlags(t, b)
        PROVE  FALSE
    <2>1. ~ResetBlockFailureFlags(t, b)
      BY Zenon DEF ResetBlockFailureFlags
    <2> QED BY <1>0, <1>6, <2>1, NothingStuck
  <1>7. ASSUME NEW t \in Thread, NEW b \in Block, PreciousBlock(t, b)
        PROVE  WarnInv'
    <2>1. /\ UNCHANGED <<warn, pindexBestInvalid, tip, step, csMain>> /\ csMain = NULL
          /\ halted' \in {halted, "PruneBlockIndexCandidates"}
      BY Zenon, <1>7 DEF PreciousBlock, GoActivate, Free
    <2> QED BY Zenon, <1>0, <1>1, <2>1
  <1>8. ASSUME NEW t \in Thread, LockMain(t) \/ FindMostWorkChain(t)
        PROVE  WarnInv'
    <2>1. /\ UNCHANGED <<warn, pindexBestInvalid, tip>> /\ Settled
          /\ halted' \in {halted, "FindMostWorkChain"}
      BY Zenon, <1>8 DEF LockMain, FindMostWorkChain, Finding, Free, Settled
    <2>2. step' = step \/ step'.back = NULL
      BY <1>8 DEF LockMain, FindMostWorkChain, Return, BeginStep, NoStep
    <2> QED BY <1>0, <2>1, <2>2, WarnKept
  <1>9. ASSUME NEW t \in Thread, DropCandidate(t)
        PROVE  WarnInv'
    <2>1. /\ UNCHANGED <<warn, tip, step>> /\ Settled
          /\ halted' \in {halted, "FindMostWorkChain"}
          /\ \E c \in setBlockIndexCandidates : pindexBestInvalid' \in {pindexBestInvalid, MoreInvalid(c)}
      BY Zenon, <1>9 DEF DropCandidate, Drop, Finding, Settled
    <2>2. setBlockIndexCandidates \subseteq Block
      BY Zenon, <1>0 DEF TypeInv, TypeOK
    <2> QED BY Zenon, <1>0, <2>1, <2>2, WarnKept
  <1>10. ASSUME NEW t \in Thread, DisconnectTip(t)
         PROVE  WarnInv'
    <2>1. UNCHANGED <<warn, pindexBestInvalid, step, csMain, halted>> /\ csMain = t
          /\ pc'[t] \in {"disconnect", "connect"}
      BY Zenon, <1>0, <1>10, DisconnectSucceeds
    <2>2. ~Settled'
      BY Zenon, <1>0, <2>1 DEF Settled
    <2> QED BY Zenon, <1>0, <2>1, <2>2, WarnKept
  <1>11. ASSUME NEW t \in Thread, NEW b \in Block, ConnectTip(t, b) \/ ConnectWithoutData(t, b)
         PROVE  WarnInv'
    <2>1. /\ UNCHANGED <<warn, pindexBestInvalid, step, csMain>> /\ csMain = t
          /\ pc[t] = "connect"
          /\ pc' = pc \/ \E p \in {"finish", "connect"} : pc' = [pc EXCEPT ![t] = p]
          /\ halted' \in {halted, "PruneBlockIndexCandidates", "abort"}
      BY Zenon, <1>11 DEF ConnectTip, ConnectWithoutData, Connecting
    <2>2. ~Settled'
      BY Zenon, <1>0, <2>1 DEF Settled
    <2> QED BY <1>0, <2>1, <2>2, WarnKept
  <1>12. ASSUME NEW t \in Thread, Connected(t)
         PROVE  WarnInv'
    <2>1. /\ UNCHANGED <<warn, pindexBestInvalid, step, csMain, halted>> /\ csMain = t
          /\ pc' = [pc EXCEPT ![t] = "finish"]
      BY Zenon, <1>12 DEF Connected
    <2>2. ~Settled'
      BY Zenon, <1>0, <2>1 DEF Settled
    <2> QED BY <1>0, <2>1, <2>2, WarnKept
  <1>13. ASSUME NEW t \in Thread, NEW b \in Block, InvalidBlockFound(t, b)
         PROVE  WarnInv'
    <2>1. /\ pindexBestInvalid' = MoreInvalid(b)
          /\ warn' = CheckForkWarningConditions(warn, tip, MoreInvalid(b))
          /\ UNCHANGED <<halted, csMain>> /\ csMain = t /\ pc' = [pc EXCEPT ![t] = "finish"]
      BY Zenon, <1>13 DEF InvalidBlockFound, Connecting
    <2>2. pindexBestInvalid' \in Block
      BY Zenon, <1>0, <2>1, MoreInvalidMonotone
    <2>3. Flagged(warn') => ~fInitialDownload
      BY Zenon, <1>0, <2>1, <2>2, CheckedWarning DEF WarnInv, BlockOrNull
    <2>4. ~Settled'
      BY Zenon, <1>0, <2>1 DEF Settled
    <2> QED BY Zenon, <1>0, <2>1, <2>2, <2>3, <2>4 DEF WarnInv
  <1>14. ASSUME NEW t \in Thread, FinishStep(t)
         PROVE  WarnInv'
    <2> DEFINE known == IF step.back = NULL THEN warn ELSE RememberFork(warn, tip, step.back)
    <2>1. /\ warn' = CheckForkWarningConditions(known, tip, pindexBestInvalid)
          /\ halted' = IF WarnsWithoutInvalid(known, tip, pindexBestInvalid)
                       THEN "CheckForkWarningConditions" ELSE halted
          /\ step' = NoStep /\ UNCHANGED <<tip, pindexBestInvalid>>
      BY Zenon, <1>14 DEF FinishStep
    <2>2. /\ pindexBestInvalid \in BlockOrNull /\ step.back \in BlockOrNull
          /\ warn.pindexBestForkTip \in BlockOrNull
      BY Zenon, <1>0 DEF TypeInv, TypeOK, BlockOrNull, Warnings
    <2>3. /\ known \in Warnings /\ (Flagged(known) <=> Flagged(warn))
          /\ pindexBestInvalid = NULL => known = warn
      <3>1. CASE step.back = NULL
        BY Zenon, <1>0, <3>1
      <3>2. CASE step.back # NULL
        <4>1. PICK u, v : known = warn
                  \/ known = [warn EXCEPT !.pindexBestForkTip = u, !.pindexBestForkBase = v]
          BY Zenon, <3>2 DEF RememberFork
        <4>2. Flagged(known) <=> Flagged(warn)
          BY Zenon, <1>0, <4>1 DEF Warnings, Flagged
        <4>3. step.back \in Block
          BY Zenon, <2>2, <3>2 DEF BlockOrNull
        <4>4. known \in Warnings
          BY Zenon, <1>0, <3>2, <4>3, WarningsType
        <4> QED BY Zenon, <3>2, <4>2, <4>4 DEF WarnInv
      <3> QED BY Zenon, <3>1, <3>2
    <2> HIDE DEF known
    <2>4. /\ warn'.pindexBestForkTip \in {known.pindexBestForkTip, NULL}
          /\ Flagged(warn') => ~fInitialDownload
                  /\ MustWarn(warn'.pindexBestForkTip, tip, pindexBestInvalid)
      BY Zenon, <1>0, <2>1, <2>2, <2>3, CheckedWarning DEF WarnInv
    <2>5. ~WarnsWithoutInvalid(known, tip, pindexBestInvalid)
      BY Zenon, <2>3 DEF WarnInv, WarnsWithoutInvalid, RememberedForkTip, MustWarn
    <2>6. step'.back = NULL
      BY Zenon, <2>1 DEF NoStep
    <2> QED BY Zenon, <1>0, <2>1, <2>3, <2>4, <2>5, <2>6 DEF WarnInv
  <1>15. CASE UNCHANGED vars
    <2>1. UNCHANGED <<warn, pindexBestInvalid, tip, step, csMain, pc, halted>>
      BY Zenon, <1>15 DEF vars
    <2>2. Settled' <=> Settled
      BY Zenon, <2>1 DEF Settled
    <2> QED BY <1>0, <2>1, <2>2, WarnKept
  <1> QED BY Zenon, <1>2, <1>3, <1>4, <1>5, <1>6, <1>7, <1>8, <1>9, <1>10, <1>11, <1>12,
             <1>13,
             <1>14, <1>15
          DEF Next, ProcessNewBlock, OperatorCall, ActivateBestChain

(* WarningsNotStale: without pruning and without reconsiderblock, a warning    *)
(* on show when no thread is in ActivateBestChain is still deserved, whatever  *)
(* reorganisations and invalid chains came since it was raised.                *)
THEOREM WarningsNotStaleAlways ==
    ASSUME ~fPruneMode, "reconsiderblock" \notin Rpc
    PROVE  Spec => []WarningsNotStale
  <1>1. WarnInv => WarningsNotStale
    BY Zenon DEF WarnInv, WarningsNotStale, Flagged, Settled, Quiescent, Free
  <1> QED BY <1>1, WarnInit, WarnStep, PTL DEF Spec

(* AssertionsHold: without operator calls and without pruning, the asserts of  *)
(* AcceptBlockHeader, FindMostWorkChain and PruneBlockIndexCandidates hold,    *)
(* and CheckForkWarningConditions reads no null pointer, for any number of     *)
(* threads.                                                                    *)
THEOREM AssertionsHoldAlways ==
    ASSUME ~fPruneMode, Rpc = {}
    PROVE  Spec => []AssertionsHold
  <1>1. "reconsiderblock" \notin Rpc
    BY Zenon
  <1>2. CauseInv /\ OrderInv /\ WarnInv /\ halted # "FindMostWorkChain" => AssertionsHold
    BY Zenon DEF CauseInv, OrderInv, WarnInv, AssertionsHold, AssertSites
  <1> QED BY <1>1, <1>2, CauseInit, CauseStep, OrderInit, OrderStep, WarnInit, WarnStep,
             FindMostWorkChainSafe, PTL DEF Spec


------------------------------------------------------------------------------
(* One thread in ActivateBestChain *)

(* No candidate is better than b *)
NoBetter(b) == \A c \in setBlockIndexCandidates : ~Worse(b, c, nSequenceId)

(* No candidate beats the chain a thread works towards, or the tip while it is *)
(* not in ActivateBestChain.  With a second thread this is false: it can       *)
(* accept a block while the first is between two steps, with its goal chosen.  *)
SelectInv ==
    /\ OrderInv
    /\ UndoInv
    /\ \A t \in Thread : /\ pc[t] = "idle" => NoBetter(tip)
                         /\ pindexMostWork[t] # NULL => NoBetter(pindexMostWork[t])

(* Initially the tip is the only candidate. *)
LEMMA SelectInit == Init => SelectInv
  <1> SUFFICES ASSUME Init PROVE SelectInv
    BY Zenon
  <1>1. OrderInv /\ UndoInv
    BY Zenon, OrderInit, UndoInit
  <1>2. \A t \in Thread : pindexMostWork[t] = NULL
    BY Zenon DEF Init
  <1>3. setBlockIndexCandidates = {tip}
    BY Zenon DEF Init
  <1> QED BY Zenon, <1>1, <1>2, <1>3 DEF SelectInv, NoBetter, OrderInv

(* A step that adds no candidate and chooses nothing keeps the choice right. *)
LEMMA SelectKept ==
    ASSUME SelectInv, OrderInv', UndoInv', UNCHANGED nSequenceId,
           setBlockIndexCandidates' \subseteq setBlockIndexCandidates,
           \A t \in Thread :
               /\ pc'[t] = "idle" => tip' = tip /\ (pc[t] = "idle" \/ tip = pindexMostWork[t])
               /\ pindexMostWork'[t] \in {pindexMostWork[t], NULL}
    PROVE  SelectInv'
  <1>1. \A b : NoBetter(b) => NoBetter(b)'
    BY Zenon DEF NoBetter
  <1>2. tip # NULL
    <2>1. tip \in Block
      BY Zenon, TipObeys DEF SelectInv
    <2> QED BY Zenon, <2>1, BlockTreeAssumption
  <1>3. \A t \in Thread : pc'[t] = "idle" => NoBetter(tip)'
    BY Zenon, <1>1, <1>2 DEF SelectInv, NoBetter
  <1>4. \A t \in Thread : pindexMostWork'[t] # NULL => NoBetter(pindexMostWork[t])'
    BY Zenon, <1>1 DEF SelectInv, NoBetter
  <1> QED BY Zenon, <1>3, <1>4 DEF SelectInv

(* With one thread, without operator calls and without pruning, every step     *)
(* keeps the choice right.                                                     *)
LEMMA SelectStep ==
    ASSUME ~fPruneMode, Rpc = {}, NEW t, Thread = {t}
    PROVE  SelectInv /\ [Next]_vars => SelectInv'
  <1> SUFFICES ASSUME SelectInv, [Next]_vars
               PROVE  SelectInv'
    BY Zenon
  <1>0. /\ OrderInv' /\ UndoInv /\ UndoInv' /\ t \in Thread /\ NULL \notin Block /\ tip \in Block
        /\ pc \in [Thread -> {"idle", "loop"} \cup Inside]
        /\ pindexMostWork \in [Thread -> mapBlockIndex \cup {NULL}]
    BY Zenon, OrderStep, UndoStep, BlockTreeAssumption
       DEF SelectInv, UndoInv, ReceivedInv, LinkInv, TypeInv, TypeOK
  <1>1. ASSUME pc'[t] # "idle", pindexMostWork'[t] = NULL
        PROVE  SelectInv'
    BY Zenon, <1>0, <1>1 DEF SelectInv
  <1>2. ASSUME UNCHANGED nSequenceId, setBlockIndexCandidates' \subseteq setBlockIndexCandidates,
               pc'[t] = "idle" => tip' = tip /\ (pc[t] = "idle" \/ tip = pindexMostWork[t]),
               pindexMostWork'[t] \in {pindexMostWork[t], NULL}
        PROVE  SelectInv'
    BY Zenon, <1>0, <1>2, SelectKept
  <1>3. ASSUME NEW b \in Block \ {Genesis}, AcceptHeader(b) \/ RejectHeader(b)
        PROVE  SelectInv'
    <2>1. UNCHANGED <<nSequenceId, setBlockIndexCandidates, tip, pc, pindexMostWork>>
      BY Zenon, <1>3 DEF AcceptHeader, RejectHeader
    <2> QED BY Zenon, <1>2, <2>1
  <1>4. ASSUME NEW u \in Thread, NEW b \in Block \ {Genesis}, NEW r \in BOOLEAN,
               IgnoreBlock(u, b, r) \/ AcceptBlock(u, b, r)
        PROVE  SelectInv'
    <2>1. GoActivate(u)
      BY Zenon, <1>4 DEF IgnoreBlock, AcceptBlock
    <2>2. pc'[t] = "loop" /\ pindexMostWork'[t] = NULL
      BY Zenon, <1>0, <2>1 DEF GoActivate
    <2> QED BY <1>1, <2>2
  <1>5. ASSUME NEW u \in Thread, NEW b \in Block \ {Genesis}, NEW r \in BOOLEAN,
               RejectBlock(u, b, r)
        PROVE  SelectInv'
    <2>1. UNCHANGED <<nSequenceId, setBlockIndexCandidates, tip, pc, pindexMostWork>>
      BY Zenon, <1>5 DEF RejectBlock
    <2> QED BY <1>2, <2>1
  <1>6. \A b \in Block : ~PruneOneBlockFile(b)
    BY Zenon DEF PruneOneBlockFile
  <1>7. \A u \in Thread, b \in Block : ~OperatorCall(u, b)
    BY Zenon, NoOperator
  <1>8. LockMain(t) => SelectInv'
    <2> SUFFICES ASSUME LockMain(t) PROVE SelectInv'
      BY Zenon
    <2>1. UNCHANGED <<nSequenceId, setBlockIndexCandidates, tip>>
      BY Zenon DEF LockMain
    <2>2. /\ pc'[t] \in {"find", "disconnect"} \/ (pc'[t] = "idle" /\ tip = pindexMostWork[t])
          /\ pindexMostWork'[t] \in {pindexMostWork[t], NULL}
      BY Zenon, <1>0 DEF LockMain, Return, BeginStep
    <2> QED BY <1>2, <2>1, <2>2
  <1>9. FindMostWorkChain(t) => SelectInv'
    <2> SUFFICES ASSUME FindMostWorkChain(t) PROVE SelectInv'
      BY Zenon
    <2>1. UNCHANGED <<nSequenceId, setBlockIndexCandidates, tip>>
      BY Zenon DEF FindMostWorkChain
    <2>2. CASE setBlockIndexCandidates = {} /\ Return(t)
      <3>1. \A b : NoBetter(b)'
        BY Zenon, <2>1, <2>2 DEF NoBetter
      <3>2. pindexMostWork'[t] = NULL
        BY Zenon, <1>0, <2>2 DEF Return
      <3>3. NoBetter(tip)'
        BY Zenon, <2>1, <2>2 DEF NoBetter
      <3> QED BY <1>0, <3>2, <3>3 DEF SelectInv
    <2>3. ASSUME NEW c \in setBlockIndexCandidates, IsBest(c, setBlockIndexCandidates),
                 IF c = tip THEN Return(t) ELSE BeginStep(t, c)
          PROVE  SelectInv'
      <3>1. nSequenceId \in [Block -> Int] /\ setBlockIndexCandidates \subseteq Block
        BY Zenon DEF SelectInv, UndoInv, ReceivedInv, LinkInv, TypeInv, TypeOK
      <3>2. NoBetter(c)
        BY Zenon, <2>3, <3>1, WorseOrder DEF IsBest, NoBetter
      <3>3. CASE c = tip
        <4>1. pindexMostWork'[t] = NULL
          BY Zenon, <1>0, <2>3, <3>3 DEF Return
        <4>2. NoBetter(tip)'
          BY Zenon, <2>1, <3>2, <3>3 DEF NoBetter
        <4> QED BY <1>0, <4>1, <4>2 DEF SelectInv
      <3>4. CASE c # tip
        <4>1. pindexMostWork'[t] = c /\ pc'[t] = "disconnect"
          BY Zenon, <1>0, <2>3, <3>4 DEF BeginStep
        <4>2. NoBetter(pindexMostWork[t])'
          BY Zenon, <2>1, <3>2, <4>1 DEF NoBetter
        <4> QED BY <1>0, <4>1, <4>2 DEF SelectInv
      <3> QED BY <3>3, <3>4
    <2> QED BY Zenon, <2>2, <2>3 DEF FindMostWorkChain
  <1>10. DropCandidate(t) => SelectInv'
    <2> SUFFICES ASSUME DropCandidate(t) PROVE SelectInv'
      BY Zenon
    <2>1. UNCHANGED <<nSequenceId, tip, pc, pindexMostWork>> /\ pc[t] = "find"
      BY Zenon DEF DropCandidate, Finding
    <2>2. setBlockIndexCandidates' \subseteq setBlockIndexCandidates
      BY Zenon DEF DropCandidate, Drop
    <2> QED BY <1>2, <2>1, <2>2
  <1>11. DisconnectTip(t) => SelectInv'
    <2> SUFFICES ASSUME DisconnectTip(t) PROVE SelectInv'
      BY Zenon
    <2>1. UNCHANGED <<nSequenceId, setBlockIndexCandidates>>
      BY Zenon DEF DisconnectTip
    <2>2. pc'[t] \in {"disconnect", "connect"} /\ UNCHANGED pindexMostWork
      BY Zenon, <1>0, DisconnectSucceeds
    <2> QED BY <1>2, <2>1, <2>2
  <1>12. ASSUME NEW b \in Block,
                ConnectTip(t, b) \/ InvalidBlockFound(t, b) \/ ConnectWithoutData(t, b)
         PROVE  SelectInv'
    <2>1. /\ UNCHANGED <<nSequenceId, pindexMostWork>> /\ pc[t] = "connect"
          /\ pc' = pc \/ \E p \in {"finish", "connect"} : pc' = [pc EXCEPT ![t] = p]
      BY Zenon, <1>12 DEF ConnectTip, InvalidBlockFound, ConnectWithoutData, Connecting
    <2>2. setBlockIndexCandidates' \subseteq setBlockIndexCandidates
      BY Zenon, <1>12 DEF ConnectTip, InvalidBlockFound, ConnectWithoutData, NotWorse
    <2>3. pc'[t] # "idle"
      BY Zenon, <1>0, <2>1
    <2> QED BY Zenon, <1>2, <2>1, <2>2, <2>3
  <1>13. Connected(t) => SelectInv'
    <2> SUFFICES ASSUME Connected(t) PROVE SelectInv'
      BY Zenon
    <2>1. /\ UNCHANGED <<nSequenceId, setBlockIndexCandidates, pindexMostWork>>
          /\ pc' = [pc EXCEPT ![t] = "finish"]
      BY Zenon DEF Connected
    <2>2. pc'[t] # "idle"
      BY Zenon, <1>0, <2>1
    <2> QED BY <1>2, <2>1, <2>2
  <1>14. FinishStep(t) => SelectInv'
    <2> SUFFICES ASSUME FinishStep(t) PROVE SelectInv'
      BY Zenon
    <2> DEFINE goal == IF step.back = NULL THEN pindexMostWork[t] ELSE NULL
    <2>1. /\ UNCHANGED <<nSequenceId, setBlockIndexCandidates, tip>>
          /\ pindexMostWork' = [pindexMostWork EXCEPT ![t] = IF goal = tip THEN NULL ELSE goal]
          /\ pc' = [pc EXCEPT ![t] = IF goal = tip THEN "idle" ELSE "loop"]
      BY Zenon DEF FinishStep
    <2>2. goal \in {pindexMostWork[t], NULL}
      BY Zenon
    <2> HIDE DEF goal
    <2>3. /\ pc'[t] = "idle" => goal = tip
          /\ pindexMostWork'[t] \in {goal, NULL}
      BY Zenon, <1>0, <2>1
    <2> QED BY <1>0, <1>2, <2>1, <2>2, <2>3
  <1>15. CASE UNCHANGED vars
    <2>1. UNCHANGED <<nSequenceId, setBlockIndexCandidates, tip, pc, pindexMostWork>>
      BY Zenon, <1>15 DEF vars
    <2> QED BY Zenon, <1>2, <2>1
  <1>16. ASSUME NEW u \in Thread, ActivateBestChain(u)
         PROVE  SelectInv'
    <2>1. u = t
      BY Zenon
    <2> QED BY Zenon, <1>8, <1>9, <1>10, <1>11, <1>12, <1>13, <1>14, <1>16, <2>1
            DEF ActivateBestChain
  <1> QED BY Zenon, <1>3, <1>4, <1>5, <1>6, <1>7, <1>15, <1>16 DEF Next, ProcessNewBlock

(* BestChainActive: with one thread, without operator calls and without        *)
(* pruning, whenever ActivateBestChain has returned no complete chain that is  *)
(* not known to be invalid beats the active one, for every tree of blocks and  *)
(* every order in which headers and blocks arrive.                             *)
THEOREM BestChainActiveAlways ==
    ASSUME ~fPruneMode, Rpc = {}, NEW t, Thread = {t}
    PROVE  Spec => []BestChainActive
  <1>1. ASSUME SelectInv, Quiescent, NEW b \in linked, Ancestors[b] \cap Failed = {}
        PROVE  ~Worse(tip, b, nSequenceId)
    <2>1. /\ nSequenceId \in [Block -> Int] /\ setBlockIndexCandidates \subseteq Block
          /\ b \in Block /\ tip \in Block
      BY Zenon, <1>1 DEF SelectInv, UndoInv, ReceivedInv, LinkInv, TypeInv, TypeOK
    <2>2. NoBetter(tip)
      BY Zenon, <1>1 DEF SelectInv, Quiescent
    <2>3. b \in setBlockIndexCandidates \/ Beaten(b)
      BY Zenon, <1>1, <2>1, TreeFacts DEF SelectInv, OrderInv
    <2>4. CASE b \in setBlockIndexCandidates
      BY Zenon, <2>2, <2>4 DEF NoBetter
    <2>5. CASE Beaten(b)
      BY Zenon, <2>1, <2>2, <2>5, WorseTransitive DEF NoBetter, Beaten
    <2> QED BY <2>3, <2>4, <2>5
  <1>2. SelectInv => BestChainActive
    BY Zenon, <1>1 DEF BestChainActive
  <1> QED BY <1>2, SelectInit, SelectStep, PTL DEF Spec

(* CandidatesExact: under the same conditions setBlockIndexCandidates then     *)
(* holds exactly the blocks that CheckBlockIndex wants in it.                  *)
THEOREM CandidatesExactAlways ==
    ASSUME ~fPruneMode, Rpc = {}, NEW t, Thread = {t}
    PROVE  Spec => []CandidatesExact
  <1>1. ASSUME SelectInv, CauseInv, Quiescent, NEW b \in mapBlockIndex
        PROVE  /\ (/\ ~Worse(b, tip, nSequenceId) /\ Ancestors[b] \subseteq processed
                   /\ Ancestors[b] \cap failedValid = {}) => b \in setBlockIndexCandidates
               /\ b \in setBlockIndexCandidates =>
                     ~Worse(b, tip, nSequenceId) /\ Ancestors[b] \subseteq processed
    <2>1. /\ nSequenceId \in [Block -> Int] /\ setBlockIndexCandidates \subseteq Block
          /\ b \in Block /\ tip \in Block /\ LinkedIsReceived
      BY Zenon, <1>1 DEF SelectInv, UndoInv, ReceivedInv, LinkInv, TypeInv, TypeOK
    <2>2. NoBetter(tip)
      BY Zenon, <1>1 DEF SelectInv, Quiescent
    <2>3. ASSUME ~Worse(b, tip, nSequenceId), Ancestors[b] \subseteq processed,
                 Ancestors[b] \cap failedValid = {}, b \notin setBlockIndexCandidates
          PROVE  FALSE
      <3>1. b \in linked
        BY Zenon, <1>1, <2>1, <2>3, GapBelow DEF SelectInv, OrderInv, CompleteInv
      <3>2. b \notin Failed
        BY Zenon, <1>1, <2>3 DEF CauseInv
      <3>3. PICK c \in setBlockIndexCandidates : Worse(b, c, nSequenceId)
        BY Zenon, <1>1, <2>3, <3>1, <3>2 DEF SelectInv, OrderInv, Beaten
      <3>4. b = tip \/ Worse(tip, b, nSequenceId)
        BY Zenon, <2>1, <2>3, WorseOrder
      <3>5. Worse(tip, c, nSequenceId)
        BY Zenon, <2>1, <3>3, <3>4, WorseTransitive
      <3> QED BY Zenon, <2>2, <3>5 DEF NoBetter
    <2>4. b \in setBlockIndexCandidates => ~Worse(b, tip, nSequenceId)
      BY Zenon, <1>1 DEF SelectInv, OrderInv
    <2>5. b \in setBlockIndexCandidates => Ancestors[b] \subseteq processed
      BY Zenon, <2>1 DEF LinkedIsReceived
    <2> QED BY Zenon, <2>3, <2>4, <2>5
  <1>2. SelectInv /\ CauseInv => CandidatesExact
    BY Zenon, <1>1 DEF CandidatesExact
  <1>3. "reconsiderblock" \notin Rpc
    BY Zenon
  <1> QED BY <1>2, <1>3, SelectInit, SelectStep, CauseInit, CauseStep, PTL DEF Spec


==============================================================================
