------------------------- MODULE MCBlockActivation -------------------------
(***************************************************************************)
(* An instance of BlockActivation: two forks, the longer of which ends in  *)
(* a block that does not connect, and a block that AcceptBlock refuses.    *)
(***************************************************************************)
EXTENDS BlockActivation, TLC

MCBlocks == {<<>>, <<1>>, <<2>>, <<2, 1>>, <<2, 1, 1>>}
MCChainWork == [b \in MCBlocks |-> Len(b)]
MCAddress == [b \in MCBlocks |-> IF Len(b) = 0 THEN 0 ELSE 4 * Len(b) + b[Len(b)]]
MCBadContext == {<<2, 1, 1>>}
MCBadConnect == {<<2, 1>>}
\* One chain that two threads extend.
MCLine == {<<>>, <<1>>, <<1, 1>>, <<1, 1, 1>>}
MCLineWork == [b \in MCLine |-> Len(b)]

Symmetry == Permutations(Threads)
=============================================================================
