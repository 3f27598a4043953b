------------------------------- MODULE MCUtxo -------------------------------
(***************************************************************************)
(* A small tree of blocks.  A coinbase appears on both branches (a1, b1)   *)
(* and again once it is spent completely (a3); a2 spends outputs it has    *)
(* created itself and the last output of another transaction; n2 would     *)
(* overwrite unspent outputs, d3 spends an output twice, s2 has a bad      *)
(* script, and the transaction r has no output that can be spent.          *)
(***************************************************************************)
EXTENDS Utxo, TLC

CONSTANTS g, a1, a2, a3, b1, n2, d3, s2

MCBlock == {g, a1, a2, a3, b1, n2, d3, s2}

MCpprev == a1 :> g @@ b1 :> g @@ a2 :> a1 @@ n2 :> a1 @@ s2 :> b1 @@ a3 :> a2 @@ d3 :> a2

MCHeight == g :> 0 @@ a1 :> 1 @@ b1 :> 1 @@ a2 :> 2 @@ n2 :> 2 @@ s2 :> 2 @@ a3 :> 3 @@ d3 :> 3

MCTxid == {"cb", "r", "t", "u"}

MCvtx == g :> <<>> @@ a1 :> <<"cb">> @@ b1 :> <<"cb">> @@ a2 :> <<"r", "t", "u">>
         @@ a3 :> <<"cb">> @@ n2 :> <<"cb">> @@ d3 :> <<"r", "t">> @@ s2 :> <<"r">>

MCvin == [cb |-> <<>>, r |-> <<>>,
          t |-> <<<<"cb", 1>>>>, u |-> <<<<"t", 1>>, <<"cb", 2>>>>]

MCvout == [cb |-> {1, 2}, r |-> {}, t |-> {1}, u |-> {1}]

MCCoins ==
  {Pruned} \cup
  UNION {[nHeight : 1..3, fCoinBase : {IsCoinBase(x)}, vout : (SUBSET Txout(x)) \ {{}}] : x \in MCTxid}

\* The same system, when a write of coins may fail, and when one of the block index may.
SpecWriteFailures == Init /\ [][Next \/ FlushCoinsFails]_vars

SpecIndexFailures == Init /\ [][Next \/ WriteBlockIndexFails]_vars
=============================================================================
