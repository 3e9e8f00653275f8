------------------------------ MODULE Grouping ------------------------------
(***************************************************************************)
(* How a miner divides the transactions of a block into groups that can be *)
(* executed in parallel (BlockAssembler::GroupingTransaction).  A          *)
(* transaction joins the groups of the transactions it spends and of the   *)
(* contracts it uses; what it joins becomes one group.                     *)
(*                                                                         *)
(* A template is a sequence of transactions, the first of which is the     *)
(* coinbase.  The groups hold positions in the template; the entries of    *)
(* transactions that are not in the template, which the code adds to the   *)
(* groups and filters out again, are only in trans2group.                  *)
(***************************************************************************)
EXTENDS Integers, FiniteSets, Sequences, TLC

CONSTANTS MaxGroups,    \* MAX_GROUP_NUM
          MaxGroupSize  \* the largest uint16_t

ASSUME GroupingAssumption == {MaxGroups, MaxGroupSize} \subseteq Nat \ {0}

\* Step(s, 1), then Step(_, 2), ... up to Step(_, n).
Iterate(Step(_, _), s, n) ==
    LET after[i \in 0..n] == IF i = 0 THEN s ELSE Step(after[i - 1], i)
    IN  after[n]

Range(s) == {s[i] : i \in DOMAIN s}
Concat(seqs) == Iterate(LAMBDA s, k : s \o seqs[k], <<>>, Len(seqs))

\* contractData->contractAddrs
ContractAddrs(tx) == IF tx.kind = "plain" THEN {} ELSE {tx.address} \cup Range(tx.calls)

\* The entries of a map for the keys that it has.
At(f, S) == {f[x] : x \in S \cap DOMAIN f}
SetAll(f, S, v) == [x \in S |-> v] @@ f

\* Mutant: groups are joined but not merged.
MergeNothing(joined, groupId) == {}

\* The groups a transaction belongs to.
Joined(m, tx) == At(m.trans2group, tx.inputs) \cup At(m.contract2group, ContractAddrs(tx))

MergeGroups(joined, groupId) == {g \in joined : g > groupId}

\* contract2group keeps the group of a contract that tx does not use, also
\* when that group is merged into another and erased.
JoinGroups(m, tx, i, groupId, merge) ==
    LET moved == {h \in DOMAIN m.trans2group : m.trans2group[h] \in merge}
        members == {i} \cup UNION At(m.group2trans, merge \cup {groupId})
    IN  [group2trans    |-> SetAll([g \in DOMAIN m.group2trans \ merge |-> m.group2trans[g]],
                                   {groupId}, members),
         trans2group    |-> SetAll(m.trans2group, moved \cup tx.inputs \cup {tx.id}, groupId),
         contract2group |-> SetAll(m.contract2group, ContractAddrs(tx), groupId),
         nextGroupId    |-> IF groupId = m.nextGroupId THEN groupId + 1 ELSE m.nextGroupId]

AddTransaction(m, tx, i) ==
    LET own == IF tx.id \in DOMAIN m.trans2group THEN m.trans2group[tx.id] ELSE m.nextGroupId
        joined == Joined(m, tx)
        groupId == CHOOSE g \in {own} \cup joined : \A h \in {own} \cup joined : g <= h
    IN  JoinGroups(m, tx, i, groupId, MergeGroups(joined, groupId))

\* Group 0 is the coinbase.
Start(template) == [group2trans    |-> [g \in {0} |-> {1}],
                    trans2group    |-> [h \in {template[1].id} |-> 0],
                    contract2group |-> <<>>, nextGroupId |-> 1]

GroupAll(template) ==
    Iterate(LAMBDA m, i : AddTransaction(m, template[i + 1], i + 1), Start(template), Len(template) - 1)

----------------------------------------------------------------------------
\* The groups beyond MaxGroups go, one by one, to the smallest group, the
\* first of them; Broken when one would become too large.
Broken == <<>>

SmallestGroup(groups) ==
    CHOOSE k \in DOMAIN groups : \A j \in DOMAIN groups :
        Cardinality(groups[k]) < Cardinality(groups[j])
            \/ (Cardinality(groups[k]) = Cardinality(groups[j]) /\ k <= j)

AddToSmallest(groups, group) ==
    IF groups = Broken
       \/ Cardinality(groups[SmallestGroup(groups)]) + Cardinality(group) > MaxGroupSize
    THEN Broken
    ELSE [groups EXCEPT ![SmallestGroup(groups)] = @ \cup group]

LimitGroups(groups) ==
    LET n == IF Len(groups) < MaxGroups THEN Len(groups) ELSE MaxGroups
    IN  Iterate(LAMBDA all, k : AddToSmallest(all, groups[n + k]), SubSeq(groups, 1, n), Len(groups) - n)

\* Mutant: the comparison of GroupTransactionComparer is the other way round.
InOrderReversed(S, n) == SelectSeq([i \in 1..(n + 1) |-> n + 1 - i], LAMBDA i : i \in S)

\* The elements of S, a set of numbers up to n, from the least.
InOrder(S, n) == SelectSeq([i \in 1..(n + 1) |-> i - 1], LAMBDA i : i \in S)

\* The transactions group after group, and where each group ends.
Repackage(template, groups) ==
    LET members == [k \in DOMAIN groups |-> InOrder(groups[k], Len(template))]
        order == Concat(members)
    IN  [vtx |-> [i \in DOMAIN order |-> template[order[i]]],
         groupEnd |-> [k \in DOMAIN groups |-> Len(Concat(SubSeq(members, 1, k)))]]

\* The groups of the block, in the order of their numbers.
GroupingTransaction(template) ==
    LET m == GroupAll(template)
        ids == InOrder(DOMAIN m.group2trans, Len(template))
    IN  Repackage(template, LimitGroups([k \in DOMAIN ids |-> m.group2trans[ids[k]]]))
=============================================================================
