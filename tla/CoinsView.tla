------------------------------ MODULE CoinsView ------------------------------
(***************************************************************************)
(* What the layers of coins promise (CCoinsView, coins.h): three plain     *)
(* maps from transaction ids to coins, each with its best block.  Work on  *)
(* a block goes to a scratch copy that is kept as a whole or dropped, and  *)
(* what was saved last is what a restart finds.                            *)
(***************************************************************************)
CONSTANTS
  Txid, Coins,
  BlockHash

VARIABLES
  disk,     \* what is in the database: [coins, best]
  mem,      \* what pcoinsTip shows
  scratch   \* what the view of the block being worked on shows

viewVars == <<disk, mem, scratch>>

View == [coins : [Txid -> Coins], best : BlockHash]

Init == disk \in View /\ mem = disk /\ scratch = disk

\* The coins of a transaction change in the scratch copy.
Write(x, c) ==
  /\ scratch' = [scratch EXCEPT !.coins[x] = c]
  /\ UNCHANGED <<disk, mem>>

MoveTo(b) ==
  /\ scratch' = [scratch EXCEPT !.best = b]
  /\ UNCHANGED <<disk, mem>>

Commit == mem' = scratch /\ UNCHANGED <<disk, scratch>>

Discard == scratch' = mem /\ UNCHANGED <<disk, mem>>

Save == disk' = mem /\ UNCHANGED <<mem, scratch>>

Crash == mem' = disk /\ scratch' = disk /\ UNCHANGED disk

Next ==
  \/ Commit \/ Discard \/ Save \/ Crash
  \/ \E b \in BlockHash : MoveTo(b)
  \/ \E x \in Txid, c \in Coins : Write(x, c)

Spec == Init /\ [][Next]_viewVars
=============================================================================
