---------------------------- MODULE MCChainstate ----------------------------
(***************************************************************************)
(* Two forks after a1.  The transaction o1 -> o3 is in both, at different  *)
(* heights; a3 spends an output of its own block; o5 comes from a transfer *)
(* that both forks receive.  On a branch chain the second transaction of   *)
(* a1 is the stake transaction that spends the transfer after it.          *)
(***************************************************************************)
EXTENDS Chainstate

Coinbase(o) == [kind |-> "coinbase", ins |-> {}, outs |-> {o}]
Step2(o) == [kind |-> "step2", ins |-> {}, outs |-> {o}]
Pay(o, p) == [kind |-> "normal", ins |-> {o}, outs |-> {p}]

g == <<>>
a1 == <<1>>
a2 == <<1, 1>>
a3 == <<1, 1, 1>>
b2 == <<1, 2>>
b3 == <<1, 2, 1>>
MCBlocks == {g, a1, a2, a3, b2, b3}
MainTxs == [b \in MCBlocks |->
    CASE b = g  -> <<>>
      [] b = a1 -> <<Coinbase("o1")>>
      [] b = a2 -> <<Coinbase("o2"), Pay("o1", "o3")>>
      [] b = a3 -> <<Step2("o5"), Pay("o3", "o4"), Pay("o4", "o6")>>
      [] b = b2 -> <<Coinbase("o7"), Step2("o5")>>
      [] b = b3 -> <<Pay("o5", "o8"), Pay("o1", "o3")>>]

BranchTxs == [MainTxs EXCEPT ![a1] = <<Coinbase("o1"), Pay("o9", "o2"), Step2("o9")>>,
                             ![a2] = <<Pay("o1", "o3")>>]

MCOutPoints == {"o1", "o2", "o3", "o4", "o5", "o6", "o7", "o8"}
BranchOutPoints == MCOutPoints \cup {"o9"}
MCAddressOf == [o \in MCOutPoints |-> IF o \in {"o1", "o4", "o5", "o7"} THEN "x" ELSE "y"]
BranchAddressOf == [o \in BranchOutPoints |-> "x"]
=============================================================================
