------------------------------ MODULE MCMemPool ------------------------------
(***************************************************************************)
(* Instances of the memory pool.                                           *)
(***************************************************************************)
EXTENDS MemPool

\* 1 publishes contract 1, which 2 calls, sometimes with contract 2; 3
\* spends 1 and calls contract 2, sometimes with 1; 4 is plain, and
\* conflicts with 2.
MCSpends == <<{<<0, 1>>}, {<<0, 2>>}, {<<1, 1>>}, {<<0, 2>>, <<1, 2>>}>>
MCTouches == <<{{1}}, {{1, 2}, {1}}, {{1, 2}, {2}}, {{}}>>

\* 1 and 2 call the same contract, 3 spends 1.
ReorgSpends == <<{<<0, 1>>}, {<<0, 2>>}, {<<1, 1>>}>>
ReorgTouches == <<{{1}}, {{1}}, {{}}>>
============================================================================
