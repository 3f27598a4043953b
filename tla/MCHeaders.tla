------------------------------ MODULE MCHeaders ------------------------------
(***************************************************************************)
(* Periods of two blocks for retargets and for rule changes, on compact    *)
(* targets of three base-4 digits.  Blocks have version 1, or the chain id *)
(* 0x2020 with the flag of merged mining and nothing signalled, or signal  *)
(* for all deployments.                                                    *)
(***************************************************************************)
EXTENDS Headers

MCDeployment == {"BIP34", "BIP66", "BIP65", "CSV"}

MCvDeployments ==
  [BIP34 |-> [bit |-> 0, nStartTime |-> 90, nTimeout |-> 1000],
   BIP66 |-> [bit |-> 1, nStartTime |-> 110, nTimeout |-> 1000],
   BIP65 |-> [bit |-> 2, nStartTime |-> 90, nTimeout |-> 1000],
   CSV |-> [bit |-> 3, nStartTime |-> 110, nTimeout |-> 150]]

MCGenesis == [nTime |-> 100, nVersion |-> {0}, target |-> 512]

MCMined ==
  {[offset |-> 30, nVersion |-> {0}],
   [offset |-> -8, nVersion |-> {8, 21, 29}],
   [offset |-> 20, nVersion |-> {0, 1, 2, 3, 21, 29}]}
=============================================================================
