------------------------------ MODULE CoinsMap ------------------------------
(***************************************************************************)
(* What the stack of coin views of transaction/coins.h promises: each view *)
(* is a map from outpoints to unspent coins.  The database is the lowest,  *)
(* pcoinsTip lies on it, and a temporary view lies on pcoinsTip while a    *)
(* block is connected or disconnected.                                     *)
(***************************************************************************)
CONSTANTS OutPoints, Coins, NoCoin, Hashes, NullHash

VARIABLES dbCoins, tipCoins, viewCoins,   \* the three maps
          dbBest, tipBest, viewBest       \* the block each map belongs to

tipVars == <<tipCoins, tipBest>>
dbVars == <<dbCoins, dbBest>>
vars == <<dbVars, tipVars, viewCoins, viewBest>>

Init ==
    /\ dbCoins = [o \in OutPoints |-> NoCoin]
    /\ tipCoins = dbCoins /\ viewCoins = dbCoins
    /\ dbBest \in Hashes
    /\ tipBest = dbBest /\ viewBest = dbBest

AddCoin(o, coin) ==
    /\ viewCoins' = [viewCoins EXCEPT ![o] = coin]
    /\ UNCHANGED <<dbVars, tipVars, viewBest>>

SpendCoin(o) ==
    /\ viewCoins' = [viewCoins EXCEPT ![o] = NoCoin]
    /\ UNCHANGED <<dbVars, tipVars, viewBest>>

SetBestBlock(h) == viewBest' = h /\ UNCHANGED <<dbVars, tipVars, viewCoins>>

FlushView ==
    /\ tipCoins' = viewCoins /\ tipBest' = viewBest
    /\ UNCHANGED <<dbVars, viewCoins, viewBest>>

NewView ==
    /\ viewCoins' = tipCoins /\ viewBest' = tipBest
    /\ UNCHANGED <<dbVars, tipVars>>

FlushTip ==
    /\ dbCoins' = tipCoins /\ dbBest' = tipBest
    /\ UNCHANGED <<tipVars, viewCoins, viewBest>>

Next ==
    \/ \E o \in OutPoints : SpendCoin(o) \/ \E coin \in Coins : AddCoin(o, coin)
    \/ \E h \in Hashes : SetBestBlock(h)
    \/ FlushView \/ NewView \/ FlushTip

Spec == Init /\ [][Next]_vars
=============================================================================
