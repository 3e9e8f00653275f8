------------------------- MODULE MCMultiContractVM -------------------------
EXTENDS MultiContractVM

MakeTx(id, kind, address, calls, ends) ==
    [id |-> id, kind |-> kind, address |-> address, calls |-> calls, ends |-> ends, inputs |-> {}]
Plain(id, inputs) == [MakeTx(id, "plain", "a", <<>>, "ok") EXCEPT !.inputs = inputs]
Call(id, address, calls) == MakeTx(id, "call", address, calls, "ok")
Publish(id, address) == MakeTx(id, "publish", address, <<>>, "ok")
Failing(id, address, calls, how) == MakeTx(id, "call", address, calls, how)

\* A block from its groups.
BlockOf(groups) == [vtx |-> Concat(groups),
                    groupEnd |-> [k \in DOMAIN groups |-> Len(Concat(SubSeq(groups, 1, k)))]]

MCContracts == {"a", "b", "c", "d", "e", "f", "n"}
MCBase == [c \in MCContracts |-> IF c = "n" THEN Absent ELSE <<"old">>]

\* Independent groups, of which one publishes a contract and calls it.
Independent == BlockOf(<<<<Call("t1", "a", <<"b">>), Call("t2", "b", <<>>)>>,
                         <<Publish("t3", "n"), Call("t4", "n", <<"c">>)>>,
                         <<Plain("t5", {"u"}), Call("t6", "d", <<>>)>>,
                         <<Call("t7", "e", <<"f">>), Plain("t8", {})>>>>)
\* Two groups call the same contract.
Crossing == BlockOf(<<<<Call("t1", "a", <<>>)>>, <<Plain("t5", {}), Call("t2", "b", <<"a">>)>>,
                      <<Call("t3", "c", <<>>)>>, <<Call("t4", "d", <<"c">>)>>>>)
\* Two groups spend outputs of one transaction.
SharedInput == BlockOf(<<<<Plain("t1", {"u"}), Call("t2", "a", <<>>)>>, <<Plain("t3", {"u"})>>>>)
\* A transaction fails, after it has called another contract.
FailingBlock == BlockOf(<<<<Call("t1", "a", <<>>), Failing("t2", "a", <<"b">>, "false")>>,
                          <<Plain("t3", {}), Call("t4", "c", <<>>)>>, <<Call("t5", "d", <<>>)>>>>)
\* A transaction throws after it has called another contract; one group is
\* empty.
Throwing == BlockOf(<<<<Failing("t1", "a", <<"b">>, "throw"), Plain("t2", {})>>, <<>>, <<Plain("t3", {})>>>>)

\* Transactions that join the groups of two inputs, of two contracts, of an
\* input and a contract, and that share an input from an earlier block.
Coinbase == Plain("cb", {})
CallSpending(id, address, calls, inputs) == [Call(id, address, calls) EXCEPT !.inputs = inputs]
Joining == <<Coinbase, Plain("t1", {"u"}), Call("t2", "a", <<>>), CallSpending("t3", "a", <<>>, {"t1"}),
             Plain("t4", {"v"}), Plain("t5", {"t4", "w"}), Plain("t6", {"w"}), Plain("t7", {"t5", "x"})>>
Meeting == <<Coinbase, Call("t1", "a", <<>>), Plain("t2", {"u"}), Plain("t3", {"v"}),
             CallSpending("t4", "b", <<>>, {"t2"}), Call("t5", "b", <<"a">>), Plain("t6", {"t3", "t1"})>>
\* More groups than a block may have.
Many == <<Coinbase, Call("t1", "a", <<>>), Call("t2", "b", <<>>), Plain("t3", {"u"}),
          Call("t4", "c", <<>>), Call("t5", "a", <<>>), Call("t6", "c", <<"d">>)>>
\* t3 joins the groups of a and b; contract2group still has the old group
\* of c when t4 comes.
Stale == <<Coinbase, Call("t1", "a", <<>>), Call("t2", "b", <<"c">>), Call("t3", "a", <<"b">>),
           Call("t4", "c", <<>>)>>

MCTemplates == {Joining, Meeting, Many, Stale}
StaleOnly == {Stale}

\* In the same way u2 comes to be in a group before that of u1.
Overtaken == <<Coinbase, Call("t1", "a", <<>>), Call("t2", "b", <<>>), Call("u1", "d", <<"c">>),
               Call("t3", "b", <<"d">>), Call("u2", "e", <<"c">>), Call("t4", "a", <<"e">>)>>
OvertakenOnly == {Overtaken}

MCBlocks == {Independent, Crossing, SharedInput, FailingBlock, Throwing}
CrossingOnly == {Crossing}
ThrowingOnly == {Throwing}
=============================================================================
