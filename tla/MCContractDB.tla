---------------------------- MODULE MCContractDB ----------------------------
(* Instances of ContractDB for TLC. *)
EXTENDS ContractDB

\* A main chain of five blocks and a fork of one from its second block.
MCBlocks == {<<>>, <<1>>, <<1, 1>>, <<1, 1, 1>>, <<1, 1, 1, 1>>, <<1, 1, 1, 1, 1>>,
             <<1, 1, 2>>}

\* Two forks from the genesis block, one of them two blocks long.
MCFork == {<<>>, <<1>>, <<2>>, <<2, 1>>}
=============================================================================
