------------------------------- MODULE MemPool -------------------------------
(***************************************************************************)
(* The memory pool (transaction/txmempool.cpp) as AcceptToMemoryPool and   *)
(* ActivateBestChainStep use it.  Entries depend on each other in two      *)
(* ways: through their inputs, and through the contracts they use, which   *)
(* form a list per contract (contractLinksMap) in the order of the         *)
(* entries.                                                                *)
(*                                                                         *)
(* An operator of the pool takes the pool p and returns the pool after it. *)
(* Transactions and contracts are numbers, so that sets are visited in the *)
(* order of a std::set of hashes.  Sizes, fees and signature costs of      *)
(* packages change with the same calls as their counts and are left out.   *)
(***************************************************************************)
EXTENDS Integers, FiniteSets, SequencesExt

CONSTANTS N,          \* transactions are 1..N
          Contracts,  \* a set of numbers
          Spends,     \* [Txs -> sets of outpoints <<transaction, n>>]
          Touches,    \* [Txs -> sets of sets of contracts]: what it may use
          Publishes,  \* the transactions that publish a contract
          LimitAncestors, LimitDescendants,
          MaxOrder,   \* bound on the orders given to entries
          MaxEvict,   \* bound on the entries evicted together
          MaxHeight   \* bound on the blocks after genesis

Txs == 1..N

\* A publishing transaction uses its contract.  A call that runs again gives
\* up at most one contract: a second one would meet what otherDescendants
\* holds from the first, and CheckContract then dereferences the end of a
\* list.
ASSUME PoolAssumption ==
    /\ DOMAIN Spends = Txs /\ DOMAIN Touches = Txs
    /\ \A t \in Publishes : Cardinality(Touches[t]) = 1
    /\ \A t \in Txs : \A A, B \in Touches[t] : Cardinality(A \ B) <= 1

Coin == 0             \* the transaction that made a coin of the genesis block

IsSmartContract(t) == Touches[t] # {{}}
Prevouts(t) == {o[1] : o \in Spends[t]}

VARIABLES pool,       \* the entries, see Init
          data,       \* the data of vm: who wrote each contract, in order
          chain       \* the transactions of each block after genesis

vars == <<pool, data, chain>>

\* mapTx, and for its entries: GetOrder(), contractAddrs, the links, and
\* the counts with ancestors and with descendants.  aborted: an assertion
\* has failed, and the node is no more.
EmptyPool == [mapTx |-> {},
              order |-> [t \in Txs |-> 0],
              addrs |-> [t \in Txs |-> {}],
              parents |-> [t \in Txs |-> {}],
              children |-> [t \in Txs |-> {}],
              anc |-> [t \in Txs |-> 0],
              desc |-> [t \in Txs |-> 0],
              links |-> [c \in Contracts |-> <<>>],
              nextOrder |-> 1,
              aborted |-> FALSE]

NoData == [c \in Contracts |-> <<>>]

Init == pool = EmptyPool /\ data = NoData /\ chain = <<>>

----------------------------------------------------------------------------
\* The elements of a set of numbers, and a loop over them.
InOrder(S) == SelectSeq([i \in 1..N |-> i], LAMBDA i : i \in S)
ForEach(S, Op(_, _), p) == FoldLeft(Op, p, InOrder(S))

\* Everything reached from S along f, S included.
Closure(f, S) ==
    LET reach[n \in 0..N] == IF n = 0 THEN S
                             ELSE reach[n-1] \cup UNION {f[x] : x \in reach[n-1]}
    IN  reach[N]

\* f with the values g(x) on S.
Put(f, S, g(_)) == ForEach(S, LAMBDA h, x : [h EXCEPT ![x] = g(x)], f)

\* update_descendant_state and update_ancestor_state: for every pair <<a, d>>,
\* a gains (k = 1) or loses the descendant d.  Both assert a positive count.
Count(p, pairs, k) ==
    LET Update(e, q) == [q EXCEPT !.desc[e[1]] = @ + k, !.anc[e[2]] = @ + k,
                                  !.aborted = @ \/ q.desc[e[1]] + k <= 0 \/ q.anc[e[2]] + k <= 0]
    IN  FoldSet(Update, p, pairs)

\* UpdateChild and UpdateParent for the pair <<a, b>>.
Link(p, a, b) == [p EXCEPT !.children[a] = @ \cup {b}, !.parents[b] = @ \cup {a}]
Unlink(p, a, b) == [p EXCEPT !.children[a] = @ \ {b}, !.parents[b] = @ \ {a}]

\* The entries of a list before the first whose order is not below t's.
Before(p, t, list) ==
    LET later == {i \in DOMAIN list : p.order[list[i]] >= p.order[t]}
    IN  IF later = {} THEN list
        ELSE SubSeq(list, 1, (CHOOSE i \in later : \A j \in later : i <= j) - 1)

\* What is next to the element x of a list, as a set of at most one element.
Prev(list, x) == {list[i] : i \in {i \in DOMAIN list : i < Len(list) /\ list[i+1] = x}}
Next1(list, x) == {list[i] : i \in {i \in DOMAIN list : i > 1 /\ list[i-1] = x}}

SearchForParents(p, t, exclude) ==
    (Prevouts(t) \cap p.mapTx) \cup
    {Last(Before(p, t, p.links[c])) :
        c \in {c \in p.addrs[t] \ exclude : Before(p, t, p.links[c]) # <<>>}}

CalculateMemPoolAncestors(p, t, exclude) ==
    Closure(p.parents, SearchForParents(p, t, exclude))

\* Without allContractDependencies, a child that only shares a contract is
\* not followed.
CalculateDescendants(p, S, allContractDependencies) ==
    LET follow(x) == {y \in p.children[x] : \/ allContractDependencies
                                            \/ ~IsSmartContract(y)
                                            \/ x \in Prevouts(y)}
    IN  Closure([x \in Txs |-> follow(x)], S)

----------------------------------------------------------------------------
(* AddUnchecked, for an entry t with the ancestors anc.                    *)
\* Mutant: t goes to the end of the list whatever its order.
AddAtTheEnd(s, c, t) ==
    [s EXCEPT !.p.links[c] = Append(@, t),
              !.parents = @ \cup {Last(s.p.links[c]) : i \in DOMAIN s.p.links[c]}]

\* The list of contract c gets t; prev and next are t's new neighbours.
AddToContractLinks(s, c, t) ==
    LET p    == s.p
        list == p.links[c]
        pre  == Before(p, t, list)
        post == SubSeq(list, Len(pre) + 1, Len(list))
        \* inputs in the pool of earlier users of c that are not linked yet
        more == UNION {(Prevouts(l) \cap p.mapTx) \ p.parents[l] : l \in Range(pre)}
        prev == Last(pre)
        next == Head(post)
        \* next depends on prev otherwise than through c
        kept == \/ prev \in Prevouts(next)
                \/ \E d \in p.addrs[next] \ {c} : Prev(p.links[d], next) = {prev}
        cut  == pre # <<>> /\ post # <<>> /\ ~kept
        q    == [IF cut THEN Unlink(p, prev, next) ELSE p
                    EXCEPT !.links[c] = pre \o <<t>> \o post]
    IN  [parents |-> s.parents \cup (IF pre # <<>> THEN {prev} ELSE {}),
         anc |-> s.anc \cup more,
         p |-> IF post # <<>> THEN Link(q, t, next) ELSE q]

AddUnchecked(p, t, order, addrs, anc) ==
    LET new == [p EXCEPT !.mapTx = @ \cup {t}, !.order[t] = order,
                         !.addrs[t] = addrs, !.anc[t] = 1, !.desc[t] = 1]
        s   == ForEach(addrs, LAMBDA x, c : AddToContractLinks(x, c, t),
                       [parents |-> Prevouts(t), anc |-> anc, p |-> new])
        q   == ForEach(s.parents \cap p.mapTx, LAMBDA x, a : Link(x, a, t), s.p)
    IN  Count(q, s.anc \X {t}, 1)

----------------------------------------------------------------------------
(* Removal.                                                                *)
\* Mutant: the neighbours of t are not linked.
RemoveWithoutRelinking(p, t) ==
    ForEach(p.addrs[t], LAMBDA q, c : [q EXCEPT !.links[c] = SelectSeq(@, LAMBDA x : x # t)], p)

RemoveFromContractLinks(p, t) ==
    LET Drop(q, c) ==
            LET before == Prev(q.links[c], t)
                after  == Next1(q.links[c], t)
                r == [q EXCEPT !.links[c] = SelectSeq(@, LAMBDA x : x # t)]
            IN  IF before = {} \/ after = {} THEN r
                ELSE Link(r, CHOOSE a \in before : TRUE, CHOOSE b \in after : TRUE)
    IN  ForEach(p.addrs[t], Drop, p)

\* UpdateForRemoveFromMempool up to the contract lists: t leaves the counts
\* of its ancestors and descendants, and their links.
Sever(p, t, ancestors, descendants) ==
    [p EXCEPT
        !.children = Put(@, p.parents[t], LAMBDA x : p.children[x] \ {t}),
        !.parents = Put(@, p.children[t], LAMBDA x : p.parents[x] \ {t}),
        !.desc = Put(@, ancestors, LAMBDA x : p.desc[x] - 1),
        !.anc = Put(@, descendants, LAMBDA x : p.anc[x] - 1),
        !.aborted = \/ @
                    \/ \E x \in ancestors : p.desc[x] <= 1
                    \/ \E x \in descendants : p.anc[x] <= 1]

\* Mutant: entries related through t only still count each other.
ForgetPairs(p, t) ==
    LET descendants == CalculateDescendants(p, {t}, TRUE) \ {t}
    IN  RemoveFromContractLinks(Sever(p, t, Closure(p.parents, p.parents[t]), descendants), t)

\* One turn of its loop: an ancestor and a descendant of t may have been
\* related through t only.
UpdateForRemove(p, t) ==
    LET ancestors   == Closure(p.parents, p.parents[t])
        descendants == CalculateDescendants(p, {t}, TRUE) \ {t}
        r == RemoveFromContractLinks(Sever(p, t, ancestors, descendants), t)
        lost == {e \in ancestors \X descendants : e[2] \notin CalculateDescendants(r, {e[1]}, TRUE)}
    IN  Count(r, lost, -1)

RemoveUnchecked(p, t) ==
    [p EXCEPT !.mapTx = @ \ {t}, !.order[t] = 0, !.addrs[t] = {},
              !.parents[t] = {}, !.children[t] = {}, !.anc[t] = 0, !.desc[t] = 0]

RemoveStaged(p, stage) ==
    ForEach(stage, RemoveUnchecked, ForEach(stage, UpdateForRemove, p))

\* Mutant: the descendants stay.
RemoveAlone(p, t) == IF t \in p.mapTx THEN RemoveStaged(p, {t}) ELSE p

RemoveRecursive(p, t) ==
    LET txToRemove == IF t \in p.mapTx THEN {t}
                      ELSE {x \in p.mapTx : t \in Prevouts(x)}
    IN  RemoveStaged(p, CalculateDescendants(p, txToRemove, FALSE))

Conflicts(p, t) == {x \in p.mapTx \ {t} : Spends[x] \cap Spends[t] # {}}

RemoveForVector(p, vtx) ==
    FoldLeft(LAMBDA q, t :
                LET r == IF t \in q.mapTx THEN RemoveStaged(q, {t}) ELSE q
                IN  ForEach(Conflicts(r, t), RemoveRecursive, r),
             p, vtx)

\* Expire, TrimToSize and RemoveForReorg: some entries go, with what spends
\* them; the users of their contracts stay.
Evict(p, S) == RemoveStaged(p, CalculateDescendants(p, S, FALSE))
Victims(p) == {S \in SUBSET p.mapTx : Cardinality(S) <= MaxEvict}

Become(p, d) == pool' = p /\ data' = d

----------------------------------------------------------------------------
(* AcceptToMemoryPool: the checks that do not concern the pool have passed *)
(* and the fees suffice; the contract has run on d and used addrs.         *)
Confirms(blocks) == UNION {Range(blocks[h]) : h \in DOMAIN blocks}
Confirmed == Confirms(chain)

HaveInputs(p, t, confirmed) ==
    \A o \in Spends[t] : /\ o[1] \in {Coin} \cup confirmed \cup p.mapTx
                         /\ \A x \in confirmed : o \notin Spends[x]

\* A contract that is called has been published.
ExecuteContract(d, t, addrs, confirmed) ==
    \A x \in Publishes \ {t} : \A c \in UNION Touches[x] \cap addrs :
       x \in confirmed \cup Range(d[c])

CommitData(d, t, addrs) == [c \in Contracts |-> IF c \in addrs THEN Append(d[c], t) ELSE d[c]]

WithAddrs(p, t, order, addrs) == [p EXCEPT !.order[t] = order, !.addrs[t] = addrs]

Acceptable(p, d, t, addrs, order, confirmed) ==
    LET ancestors == CalculateMemPoolAncestors(WithAddrs(p, t, order, addrs), t, {})
        conflicts == Conflicts(p, t)
    IN  /\ t \notin p.mapTx \cup confirmed
        /\ HaveInputs(p, t, confirmed)
        /\ ExecuteContract(d, t, addrs, confirmed)
        /\ Cardinality(ancestors) + 1 <= LimitAncestors
        /\ \A a \in ancestors : p.desc[a] + 1 <= LimitDescendants
        /\ conflicts \cap ancestors = {}
        /\ conflicts = {} \/ Prevouts(t) \cap p.mapTx \subseteq UNION {Prevouts(x) : x \in conflicts}

AcceptToMemoryPoolWorker(p, t, addrs, order) ==
    AddUnchecked(RemoveStaged(p, CalculateDescendants(p, Conflicts(p, t), TRUE)), t, order, addrs,
                 CalculateMemPoolAncestors(WithAddrs(p, t, order, addrs), t, {}))

\* LimitMempoolSize comes last.
Limited(p, d) == \E S \in Victims(p) : Become(Evict(p, S), d)

AcceptToMemoryPool(t, addrs) ==
    LET order == pool.nextOrder
    IN  /\ ~pool.aborted
        /\ order <= MaxOrder
        /\ Acceptable(pool, data, t, addrs, order, Confirmed)
        /\ Limited([AcceptToMemoryPoolWorker(pool, t, addrs, order) EXCEPT !.nextOrder = @ + 1],
                   CommitData(data, t, addrs))
        /\ UNCHANGED chain

----------------------------------------------------------------------------
(* CheckContract: t ran again and used touched.  ancestors and descendants *)
(* are locals that keep their value from one contract to the next; resized *)
(* says whether the package sizes had to change, which sets them first.    *)
DropContract(s, c, t) ==
    LET p == s.p
        before == Prev(p.links[c], t)
        after  == Next1(p.links[c], t)
        prev == CHOOSE x \in before : TRUE
        next == CHOOSE x \in after : TRUE
        Desc(q, x) == CalculateDescendants(q, {x}, TRUE)
        Anc(q, x, e) == CalculateMemPoolAncestors(q, x, e)
        ancs == Anc(p, t, {c})
        cutPrev == before # {} /\ prev \notin ancs
        oAnc == IF cutPrev THEN (Anc(p, prev, {c}) \cup {prev}) \ ancs ELSE {}
        p1 == IF cutPrev THEN Unlink(p, prev, t) ELSE p
        cutNext == after # {} /\ t \notin Anc(p1, next, {c})
        p2 == IF cutNext THEN Unlink(p1, t, next) ELSE p1
        oDesc == IF cutNext THEN Desc(p1, next) \ Desc(p2, t) ELSE {}
        p3 == IF before # {} /\ after # {} THEN Link(p2, prev, next) ELSE p2
        p4 == [p3 EXCEPT !.links[c] = SelectSeq(@, LAMBDA x : x # t)]
        down == {e \in oAnc \X Desc(p4, t) : e[2] \notin Desc(p4, e[1])}
        ups == Anc(p4, t, {}) \cup {t}
        up == {e \in ups \X oDesc : e[1] \notin Anc(p4, e[2], {})}
    IN  IF p4.links[c] = <<>> THEN [s EXCEPT !.p = p4]
        ELSE [p |-> Count(Count(p4, down, -1), up, -1),
              ancestors |-> ups, descendants |-> Desc(p4, t)]

InsertContract(s, c, t) ==
    LET p == s.p
        pre  == Before(p, t, p.links[c])
        post == SubSeq(p.links[c], Len(pre) + 1, Len(p.links[c]))
        prev == Last(pre)
        next == Head(post)
        Desc(q, x) == CalculateDescendants(q, {x}, TRUE)
        Anc(q, x, e) == CalculateMemPoolAncestors(q, x, e)
        cut == pre # <<>> /\ post # <<>> /\ prev \notin Anc(p, next, {c})
        p1 == IF cut THEN Unlink(p, prev, next) ELSE p
        down == IF pre # <<>> /\ prev \notin s.ancestors
                THEN {e \in (Anc(p1, prev, {}) \cup {prev}) \X s.descendants : e[2] \notin Desc(p1, e[1])}
                ELSE {}
        p2 == IF pre # <<>> THEN Link(Count(p1, down, 1), prev, t) ELSE p1
        up == IF post # <<>> /\ next \notin s.descendants
              THEN (s.ancestors \ Desc(p2, next)) \X Desc(p2, next)
              ELSE {}
        p3 == IF post # <<>> THEN Link(Count(p2, up, 1), t, next) ELSE p2
    IN  [p |-> [p3 EXCEPT !.links[c] = pre \o <<t>> \o post],
         ancestors |-> Anc(p3, t, {}), descendants |-> Desc(p3, t)]

CheckContract(p, t, touched, resized) ==
    LET s0 == [p |-> p,
               ancestors |-> IF resized THEN CalculateMemPoolAncestors(p, t, {}) \cup {t} ELSE {},
               descendants |-> IF resized THEN CalculateDescendants(p, {t}, TRUE) ELSE {}]
        s1 == ForEach(p.addrs[t] \ touched, LAMBDA s, c : DropContract(s, c, t), s0)
        s2 == ForEach(touched \ p.addrs[t], LAMBDA s, c : InsertContract(s, c, t), s1)
    IN  [s2.p EXCEPT !.addrs[t] = touched]

----------------------------------------------------------------------------
(* ReacceptTransactions: outcome says what each contract uses when it runs *)
(* again, or that it fails.                                                *)
Fails == {-1}

\* Mutant: ancestors do not come first.
SortedByScore(p) == InOrder(p.mapTx)

GetSortedDepthAndScore(p) ==
    SortSeq(InOrder(p.mapTx), LAMBDA a, b : \/ p.anc[a] < p.anc[b]
                                            \/ p.anc[a] = p.anc[b] /\ a < b)

Outcomes(S) == {f \in [S -> {Fails} \cup UNION {Touches[t] : t \in S}] :
                   \A t \in S : f[t] \in {Fails} \cup Touches[t]}

RunAgain(p, outcome, resized, confirmed) ==
    LET Reaccept(s, t) ==
            IF outcome[t] = Fails \/ ~ExecuteContract(s.data, t, outcome[t], confirmed)
            THEN [s EXCEPT !.removes = Append(@, t)]
            ELSE [s EXCEPT !.p = CheckContract(@, t, outcome[t], t \in resized),
                           !.data = CommitData(@, t, outcome[t])]
    IN  FoldLeft(Reaccept, [data |-> NoData, p |-> p, removes |-> <<>>],
                 SelectSeq(GetSortedDepthAndScore(p), IsSmartContract))

Removed(s) == Become(FoldLeft(RemoveRecursive, s.p, s.removes), s.data)

ReacceptTransactions(p, confirmed) ==
    \E outcome \in Outcomes({t \in p.mapTx : IsSmartContract(t)}) :
       \E resized \in SUBSET {t \in DOMAIN outcome : outcome[t] \notin {Fails, p.addrs[t]}} :
          Removed(RunAgain(p, outcome, resized, confirmed))

----------------------------------------------------------------------------
(* PreCalculateTxOrder: an order for each transaction of a disconnected    *)
(* block, below those of the entries that spend it.                        *)
None == 0

\* t, the transaction of the block it must precede, and so on.
Followed(then, t) ==
    LET walk[n \in 1..N] ==
            IF n = 1 THEN <<t>>
            ELSE IF then[Last(walk[n-1])] = None THEN walk[n-1]
            ELSE Append(walk[n-1], then[Last(walk[n-1])])
    IN  walk[N]

\* before[t] is the first entry t must precede.  An input of t in the block
\* must precede t when t has to come first.  garbage is what comparing the
\* order of mapTx.end() gives: the code dereferences it when that input
\* precedes nothing.  The walk asserts that it stays in txOrders, where t is
\* not yet.
FindBefore(p, s, t, garbage) ==
    LET users == {x \in p.mapTx : t \in Prevouts(x)} \cup
                 IF t \in Publishes
                 THEN {Head(p.links[c]) : c \in {c \in UNION Touches[t] : p.links[c] # <<>>}}
                 ELSE {}
        first == CHOOSE x \in users : \A y \in users : p.order[x] <= p.order[y]
        later(x) == IF s.before[x] = None THEN garbage ELSE p.order[s.before[x]] > p.order[first]
        Input(r, o) ==
            LET line == Followed(r.then, o[1])
            IN  IF o[1] \notin s.done THEN r
                ELSE IF t \in Range(line) THEN [r EXCEPT !.p.aborted = TRUE]
                ELSE IF users # {} /\ later(Last(line)) THEN [r EXCEPT !.then[o[1]] = t]
                ELSE r
    IN  [FoldLeft(Input, s, SetToSeq(Spends[t])) EXCEPT !.done = @ \cup {t}, !.before[t] = IF users = {} THEN None ELSE first]

\* t and what follows it get consecutive orders from that of the entry they
\* precede; the entries and transactions of the block in the way move up.
GiveOrders(s, t) ==
    LET line  == Followed(s.then, t)
        entry == s.before[Last(line)]
        low   == IF entry = None THEN s.p.nextOrder ELSE s.p.order[entry]
        high  == low + Len(line) - 1
        \* what has an order from low up, as pairs, and how many come up to it
        taken == {e \in s.order2tx \cup {<<s.p.order[x], x>> : x \in s.p.mapTx} : e[1] >= low}
        rank(e) == Cardinality({f \in taken : f[1] <= e[1]})
        modifyItems == {e \in taken : \A f \in taken : f[1] <= e[1] => f[1] < high + rank(f)}
        moved == {e[2] : e \in modifyItems}
        at(x) == high + rank(CHOOSE e \in modifyItems :
                                e[2] = x /\ \A f \in modifyItems : f[2] = x => e[1] <= f[1])
        top   == high + Cardinality(modifyItems)
        fresh == IF entry = None THEN s.p.nextOrder + 1 ELSE s.p.nextOrder
        given == Put(s.orders, Range(line), LAMBDA x : low + (CHOOSE i \in DOMAIN line : line[i] = x) - 1)
    IN  IF s.orders[t] # 0 THEN s
        ELSE [s EXCEPT
                !.orders = Put(given, moved \cap s.done, at),
                !.order2tx = {e \in @ : e[1] \notin low..top}
                             \cup {<<high + rank(e), e[2]>> : e \in {e \in modifyItems : e[2] \in s.done}}
                             \cup {<<low + i - 1, line[i]>> : i \in DOMAIN line},
                !.p = [@ EXCEPT !.order = Put(@, moved \cap s.p.mapTx, at),
                                !.nextOrder = IF top + 1 > fresh THEN top + 1 ELSE fresh]]

PreCalculateTxOrder(p, vtx, garbage) ==
    LET s == FoldLeft(LAMBDA r, t : FindBefore(p, r, t, garbage),
                      [p |-> p,
                       before |-> [t \in Txs |-> None], then |-> [t \in Txs |-> None],
                       done |-> {}, order2tx |-> {}, orders |-> [t \in Txs |-> 0]],
                      vtx)
    IN  FoldLeft(GiveOrders, s, vtx)

----------------------------------------------------------------------------
(* UpdateTransactionsFromBlock: the entries added back get their children  *)
(* and count their descendants.                                            *)
UpdateForDescendants(s, t, vHashesToUpdate) ==
    LET index(x) == CHOOSE i \in DOMAIN vHashesToUpdate : vHashesToUpdate[i] = x
        cached == {x \in Txs : s.cache[x] # {}}
        walked == Closure([x \in Txs |-> s.p.children[x] \ cached], s.p.children[t])
        setAllDescendants == walked \cup
            UNION {s.cache[x] : x \in cached \cap UNION {s.p.children[y] : y \in walked}}
        modify == {x \in setAllDescendants :
                      x \in Range(vHashesToUpdate) => IsSmartContract(x) /\ index(x) <= index(t)}
    IN  [p |-> Count(s.p, {t} \X modify, 1), cache |-> [s.cache EXCEPT ![t] = modify]]

UpdateTransactionsFromBlock(added) ==
    LET vHashesToUpdate == added.vHashUpdate
        Update(s, t) ==
            LET children == {x \in s.p.mapTx : t \in Prevouts(x)} \ Range(vHashesToUpdate)
                q == ForEach(children, LAMBDA r, x : Link(r, t, x), s.p)
            IN  IF t \notin s.p.mapTx THEN s
                ELSE UpdateForDescendants([s EXCEPT !.p = q], t, vHashesToUpdate)
    IN  FoldLeft(Update, [p |-> added.p, cache |-> [t \in Txs |-> {}]], Reverse(vHashesToUpdate)).p

\* choice says what the contracts of the block use, and which of its
\* transactions are not accepted.
AddBack(pre, vtx, choice, confirmed) ==
    LET Add(s, t) ==
            LET ok == choice[t] # Fails /\ Acceptable(s.p, s.data, t, choice[t], pre.orders[t], confirmed)
            IN  IF ~ok THEN [s EXCEPT !.p = RemoveRecursive(@, t)]
                ELSE [data |-> CommitData(s.data, t, choice[t]),
                      p |-> AcceptToMemoryPoolWorker(s.p, t, choice[t], pre.orders[t]),
                      vHashUpdate |-> Append(s.vHashUpdate, t)]
    IN  FoldLeft(Add, [data |-> data, p |-> pre.p, vHashUpdate |-> <<>>], vtx)

UpdateMempoolForReorg(p, vtx, choice, garbage, confirmed) ==
    UpdateTransactionsFromBlock(
        AddBack(PreCalculateTxOrder(p, vtx, garbage), vtx, choice, confirmed))

----------------------------------------------------------------------------
(* ActivateBestChainStep connects a block; or it disconnects the last one  *)
(* and connects others, with the transactions vtx; InvalidateBlock only    *)
(* disconnects.                                                            *)
Blocks == {<<t>> : t \in Txs} \cup {<<t, u>> : t \in Txs, u \in Txs}

Valid(vtx, confirmed) ==
    \A i \in DOMAIN vtx :
       LET done == confirmed \cup {vtx[j] : j \in 1..(i-1)}
       IN  vtx[i] \notin done /\ HaveInputs(EmptyPool, vtx[i], done)

ConnectTip(vtx) ==
    /\ ~pool.aborted
    /\ Len(chain) < MaxHeight
    /\ Valid(vtx, Confirmed)
    /\ ReacceptTransactions(RemoveForVector(pool, vtx), Confirmed \cup Range(vtx))
    /\ chain' = Append(chain, vtx)

LimitedAndRerun(p, confirmed) ==
    \E S \in Victims(p) : ReacceptTransactions(Evict(p, S), confirmed)

Reorg(vtx) ==
    LET kept == Front(chain)
        confirmed == Confirms(kept) \cup Range(vtx)
        disconnected == SelectSeq(Last(chain), LAMBDA t : t \notin Range(vtx))
    IN  /\ ~pool.aborted
        /\ chain # <<>>
        /\ pool.nextOrder <= MaxOrder
        /\ Valid(vtx, Confirms(kept))
        /\ \E choice \in Outcomes(Range(disconnected)), garbage \in BOOLEAN :
              LimitedAndRerun(UpdateMempoolForReorg(RemoveForVector(pool, vtx), disconnected,
                                                    choice, garbage, confirmed),
                              confirmed)
        /\ chain' = IF vtx = <<>> THEN kept ELSE Append(kept, vtx)

Next == \/ \E t \in Txs : \E addrs \in Touches[t] : AcceptToMemoryPool(t, addrs)
        \/ \E vtx \in Blocks : ConnectTip(vtx)
        \/ \E vtx \in {<<>>} \cup Blocks : Reorg(vtx)

Spec == Init /\ [][Next]_vars

----------------------------------------------------------------------------
(* What MCTxMemPool::Check asserts of the links.                           *)
LinksExact ==
    \A t \in pool.mapTx :
       /\ pool.parents[t] = (Prevouts(t) \cap pool.mapTx)
                            \cup UNION {Prev(pool.links[c], t) : c \in pool.addrs[t]}
       /\ pool.children[t] = {x \in pool.mapTx : t \in Prevouts(x)}
                            \cup UNION {Next1(pool.links[c], t) : c \in pool.addrs[t]}

\* And of the counts; the number of descendants it checks only from below.
CountsExact ==
    \A t \in pool.mapTx :
       /\ pool.anc[t] = Cardinality(CalculateMemPoolAncestors(pool, t, {})) + 1
       /\ pool.desc[t] = Cardinality(CalculateDescendants(pool, {t}, TRUE))

\* When t last wrote contract c, 0 if never; and whether the users of each
\* contract last ran in the order of its list.
LastRun(c, t) == Max({0} \cup {i \in DOMAIN data[c] : data[c][i] = t})
RunInOrder ==
    \A c \in Contracts : \A i, j \in DOMAIN pool.links[c] :
       i < j => LastRun(c, pool.links[c][i]) < LastRun(c, pool.links[c][j])

\* The entries that stay use the contracts they used before.
SameContracts == \A t \in pool.mapTx \cap pool'.mapTx : pool'.addrs[t] = pool.addrs[t]

\* The pool is well formed: links lead from entries to entries only, and
\* nothing is kept of a transaction that has left (RemoveUnchecked).
TypeOK ==
    /\ pool.mapTx \subseteq Txs
    /\ \A f \in {pool.parents, pool.children} : f \in [Txs -> SUBSET pool.mapTx]
    /\ \A f \in {pool.order, pool.anc, pool.desc} : f \in [Txs -> Nat]
    /\ pool.addrs \in [Txs -> SUBSET Contracts]
    /\ \A c \in Contracts : Range(pool.links[c]) \subseteq pool.mapTx
    /\ \A t \in Txs \ pool.mapTx : pool.parents[t] \cup pool.children[t] \cup pool.addrs[t] = {}
    /\ pool.nextOrder \in Nat /\ pool.aborted \in BOOLEAN
    /\ \A c \in Contracts : data[c] \in Seq(Txs)
    /\ \A h \in DOMAIN chain : chain[h] \in Blocks

\* The list of a contract in contractLinksMap holds exactly the entries that
\* use it, in increasing order, through acceptance, replacement, eviction,
\* blocks, reorganisations that shift the orders, and contracts that use
\* other contracts when they run again; the pool stays well formed.
ListsExact ==
    TypeOK /\ \A c \in Contracts :
       LET list == pool.links[c]
       IN  /\ Range(list) = {t \in pool.mapTx : c \in pool.addrs[t]}
           /\ \A i, j \in DOMAIN list : i < j => pool.order[list[i]] < pool.order[list[j]]

\* Every entry can be mined after the entries it spends: whatever leaves the
\* pool takes along what spends it, although it leaves the users of its
\* contracts behind (Check: every input has a coin or an entry).
InputsAvailable == \A t \in pool.mapTx : HaveInputs(pool, t, Confirmed)

\* As long as no entry changes the contracts it uses, every step, a
\* reorganisation included, leaves in mapLinks exactly the parents and the
\* children that inputs and contract lists give (Check: setParentCheck and
\* setChildrenCheck).
LinksKept == [][LinksExact /\ SameContracts => LinksExact']_vars

\* A step that disconnects no block and changes no entry's contracts keeps
\* the counts with ancestors and descendants exact (Check: nCountCheck): when
\* a user of a contract leaves the middle of its list, the pairs that were
\* related through it alone are no longer counted.
CountsKept ==
    [][/\ LinksExact /\ CountsExact
       /\ SameContracts /\ IsPrefix(chain, chain')
       => CountsExact']_vars

\* ReacceptTransactions sorts by the count of ancestors, not by order; with
\* exact counts it still runs the users of every contract in the order of
\* the contract's list, so that each sees what its predecessors wrote.
OrderKept ==
    [][/\ RunInOrder /\ CountsExact
       /\ SameContracts /\ IsPrefix(chain, chain')
       => RunInOrder']_vars

\* UpdateDescendantState and UpdateAncestorState assert a positive count,
\* and PreCalculateTxOrder that a walk stays in txOrders.
NoAssertionFails == ~pool.aborted
============================================================================
