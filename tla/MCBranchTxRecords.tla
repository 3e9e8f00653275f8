------------------------- MODULE MCBranchTxRecords -------------------------
(***************************************************************************)
(* Two forks that receive the same transfer and mine the same creation,    *)
(* and a block of each that receives a transfer its chain already has.     *)
(***************************************************************************)
EXTENDS BranchTxRecords

MCBlocks == {<<>>, <<1>>, <<1, 1>>, <<1, 1, 1>>, <<2>>, <<2, 1>>}

Create(i) == [kind |-> "create", id |-> i]
Send(i) == [kind |-> "send", id |-> i]
Recv(i) == [kind |-> "recv", id |-> i]

MCBlockTxs == [b \in MCBlocks |->
    CASE b = <<>>        -> <<>>
      [] b = <<1>>       -> <<Create("c1"), Recv("r1")>>
      [] b = <<1, 1>>    -> <<Send("s1"), Recv("r2")>>
      [] b = <<1, 1, 1>> -> <<Recv("r1")>>
      [] b = <<2>>       -> <<Recv("r1"), Send("s1")>>
      [] b = <<2, 1>>    -> <<Create("c1"), Recv("r2")>>]
MCIds == {"c1", "s1", "r1", "r2"}

\* Each creation is the first of its chain, and pays for that.
FirstPaid == [i \in MCIds |-> 0]
\* Creations pay for every branch there can be.
AmplyPaid == [i \in MCIds |-> 2]
=============================================================================
