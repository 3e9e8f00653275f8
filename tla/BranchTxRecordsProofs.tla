----------------------- MODULE BranchTxRecordsProofs ------------------------
(***************************************************************************)
(* For every block tree, every placing of branch transactions in its       *)
(* blocks and any number of crashes: unless a crash has lost a change of   *)
(* tip, the records are those of the active chain, and no transfer is      *)
(* received twice or kept in mempool once received.                        *)
(***************************************************************************)
EXTENDS BranchTxRecords, WellFoundedInduction, TLAPS

Entries == [tx : Ids, block : Blocks]
SendsOf == [b \in Blocks |-> Sends(b)]
ReceivesOf == [b \in Blocks |-> Receives(b)]

\* The records r are those of the chain that ends in b.
Exact(r, F, b) ==
    \A i \in Ids, c \in Blocks : r[i] = c <=> c \in Chain(b) /\ i \in F[c]

ParentClosed(S) == \A b \in S : b # Genesis => Parent(b) \in S

\* The tip once the batch in work is written.
NewTip ==
    IF work = <<>> THEN tip
    ELSE IF work[1] = "connect" THEN work[2] ELSE Parent(work[2])

Records == [Ids -> Blocks \cup {NoBlock}]

Types ==
    /\ sent \in Records /\ recv \in Records
    /\ work \in {<<>>} \cup ({"connect", "disconnect"} \X Blocks)
    /\ lost \in BOOLEAN

Stored ==
    /\ stored \subseteq Blocks /\ tip \in stored /\ failed \subseteq stored
    /\ ParentClosed(stored)
    /\ coins \in [tip : Blocks, stored : SUBSET Blocks, failed : SUBSET Blocks]
    /\ coins.tip \in coins.stored /\ coins.failed \subseteq coins.stored
    /\ ParentClosed(coins.stored)

Created ==
    /\ created \in [mem : Seq(Entries), disk : Seq(Entries)]
    /\ IsInjective(created.mem) /\ IsInjective(created.disk)

\* Between the two batches: what is connected follows the tip and receives
\* nothing that is recorded; what is disconnected is the tip.
Working ==
    work # <<>> =>
        IF work[1] = "connect"
        THEN /\ work[2] \in stored /\ work[2] # Genesis /\ Parent(work[2]) = tip
             /\ \A i \in Receives(work[2]) : recv[i] = NoBlock
        ELSE work[2] = tip /\ tip # Genesis

Pooled ==
    /\ pool \in [txs : SUBSET Ids, cache : SUBSET Ids]
    /\ pool.cache = pool.txs
    /\ \A i \in pool.txs : recv[i] = NoBlock

\* The first batch is ahead of the tip, the second is not.
Recorded == ~lost => Exact(sent, SendsOf, NewTip) /\ Exact(recv, ReceivesOf, tip)

\* The inductive invariant.
IInv == Types /\ Stored /\ Created /\ Working /\ Pooled /\ Recorded

(***************************************************************************)
(* The block tree                                                          *)
(***************************************************************************)
\* A chain is that of its parent and its last block.
LEMMA ChainStep ==
    ASSUME NEW b \in Blocks, b # Genesis
    PROVE  /\ Parent(b) \in Blocks
           /\ Chain(b) = Chain(Parent(b)) \cup {b}
           /\ b \notin Chain(Parent(b))
<1>1. b \in Seq(Nat) /\ Len(b) \in Nat /\ Len(b) # 0
  BY TreeAssumption DEF Genesis
<1> DEFINE n == Len(b)
           p == SubSeq(b, 1, n - 1)
<1>2. p \in Seq(Nat) /\ Len(p) = n - 1 /\ p \in Blocks
  <2>1. n - 1 \in 0..Len(b)
    BY <1>1
  <2>2. p \in Blocks
    BY <2>1, TreeAssumption
  <2>3. \A h \in 0..Len(b) : Len(SubSeq(b, 1, h)) = h
    BY <1>1
  <2> QED
    BY <2>1, <2>2, <2>3, TreeAssumption, Zenon
<1>3. \A h \in 1..(n - 1) : SubSeq(p, 1, h) = SubSeq(b, 1, h)
  BY <1>1
<1>4. SubSeq(b, 1, n) = b
  BY <1>1
<1>5. \A h \in 1..(n - 1) : Len(SubSeq(b, 1, h)) = h
  BY <1>1
<1>6. Chain(b) = {SubSeq(b, 1, h) : h \in 1..n} /\ Parent(b) = p
  BY DEF Chain, GetAncestor, Parent, Height
<1>7. Chain(p) = {SubSeq(b, 1, h) : h \in 1..(n - 1)}
  <2>1. Chain(p) = {SubSeq(p, 1, h) : h \in 1..(n - 1)}
    BY <1>2 DEF Chain, GetAncestor, Height
  <2> QED
    BY <2>1, <1>3
<1>8. 1..n = (1..(n - 1)) \cup {n}
  BY <1>1
<1>9. {SubSeq(b, 1, h) : h \in 1..n} = {SubSeq(b, 1, h) : h \in 1..(n - 1)} \cup {SubSeq(b, 1, n)}
  BY <1>8, Zenon
<1>10. b \notin Chain(p)
  <2>1. ASSUME NEW h \in 1..(n - 1), b = SubSeq(b, 1, h) PROVE FALSE
    BY <2>1, <1>1, <1>5
  <2> QED
    BY <2>1, <1>7
<1> QED
  BY <1>2, <1>4, <1>6, <1>7, <1>9, <1>10, Zenon

\* A chain consists of blocks of the tree.
LEMMA ChainBlocks == ASSUME NEW b \in Blocks PROVE Chain(b) \subseteq Blocks
<1> SUFFICES ASSUME NEW h \in 1..Len(b) PROVE SubSeq(b, 1, h) \in Blocks
  BY Zenon DEF Chain, GetAncestor, Height
<1>1. h \in 0..Len(b)
  BY TreeAssumption
<1> QED
  BY <1>1, TreeAssumption

\* The ids of a block are ids.
LEMMA IdsOfBlock ==
    ASSUME NEW b \in Blocks
    PROVE  Sends(b) \subseteq Ids /\ Receives(b) \subseteq Ids /\ OfKind(b, {"create"}) \subseteq Ids
<1> DEFINE Tx == [kind : {"create", "send", "recv"}, id : Ids]
<1>1. BlockTxs[b] \in Seq(Tx)
  BY TreeAssumption, Zenon
<1>2. \A t \in Range(BlockTxs[b]) : t.id \in Ids
  <2> SUFFICES ASSUME NEW t \in Range(BlockTxs[b]) PROVE t.id \in Ids
    OBVIOUS
  <2>1. PICK k \in DOMAIN BlockTxs[b] : t = BlockTxs[b][k]
    BY Zenon DEF Range
  <2>2. t \in Tx
    <3> HIDE DEF Tx
    <3> QED
      BY <1>1, <2>1
  <2> QED
    BY <2>2
<1> QED
  BY <1>2 DEF Sends, Receives, OfKind

(***************************************************************************)
(* What a batch does to exact records                                      *)
(***************************************************************************)
\* Writing the records of the next block, none of which was there.
LEMMA ConnectExact ==
    ASSUME NEW b \in Blocks, b # Genesis, NEW r \in Records,
           NEW F \in [Blocks -> SUBSET Ids],
           Exact(r, F, Parent(b)), \A i \in F[b] : r[i] = NoBlock
    PROVE  Exact(Write(r, F[b], b), F, b)
<1> SUFFICES ASSUME NEW i \in Ids, NEW c \in Blocks
             PROVE  Write(r, F[b], b)[i] = c <=> c \in Chain(b) /\ i \in F[c]
  BY DEF Exact
<1>1. Write(r, F[b], b)[i] = IF i \in F[b] THEN b ELSE r[i]
  BY DEF Write
<1>2. r[i] = c <=> c \in Chain(Parent(b)) /\ i \in F[c]
  BY DEF Exact
<1>3. Chain(b) = Chain(Parent(b)) \cup {b} /\ b \notin Chain(Parent(b))
  BY ChainStep
<1>4. CASE i \in F[b]
  <2>1. r[i] # c
    BY <1>4, TreeAssumption
  <2> QED
    BY <1>1, <1>2, <1>3, <1>4, <2>1
<1>5. CASE i \notin F[b]
  BY <1>1, <1>2, <1>3, <1>5
<1> QED
  BY <1>4, <1>5

\* Erasing the records of the last block.
LEMMA DisconnectExact ==
    ASSUME NEW b \in Blocks, b # Genesis, NEW r \in Records,
           NEW F \in [Blocks -> SUBSET Ids], Exact(r, F, b)
    PROVE  Exact(Write(r, F[b], NoBlock), F, Parent(b))
<1> SUFFICES ASSUME NEW i \in Ids, NEW c \in Blocks
             PROVE  Write(r, F[b], NoBlock)[i] = c <=> c \in Chain(Parent(b)) /\ i \in F[c]
  BY DEF Exact
<1>1. Write(r, F[b], NoBlock)[i] = IF i \in F[b] THEN NoBlock ELSE r[i]
  BY DEF Write
<1>2. /\ r[i] = c <=> c \in Chain(b) /\ i \in F[c]
      /\ r[i] = b <=> b \in Chain(b) /\ i \in F[b]
  BY DEF Exact
<1>3. Chain(b) = Chain(Parent(b)) \cup {b} /\ b \notin Chain(Parent(b))
  BY ChainStep
<1>4. CASE i \in F[b]
  BY <1>1, <1>2, <1>3, <1>4, TreeAssumption
<1>5. CASE i \notin F[b]
  BY <1>1, <1>2, <1>3, <1>5
<1> QED
  BY <1>4, <1>5

\* A transfer is sent once on a chain, so the next block's are not recorded.
LEMMA SendsNew ==
    ASSUME NEW b \in Blocks, b # Genesis, NEW r \in Records, Exact(r, SendsOf, Parent(b)),
           NEW i \in Sends(b)
    PROVE  r[i] = NoBlock
<1>1. i \in Ids
  BY IdsOfBlock
<1>2. ASSUME NEW c \in Blocks, r[i] = c PROVE FALSE
  <2>1. c \in Chain(Parent(b)) /\ i \in Sends(c)
    BY <1>1, <1>2 DEF Exact, SendsOf
  <2>2. c \in Chain(b) \ {b}
    BY <2>1, ChainStep
  <2> QED
    BY <2>1, <2>2, SentOnceAssumption
<1> QED
  BY <1>1, <1>2 DEF Records

\* A batch leaves records.
LEMMA WriteType ==
    ASSUME NEW r \in Records, NEW ids, NEW b \in Blocks \cup {NoBlock}
    PROVE  Write(r, ids, b) \in Records
BY DEF Write, Records

(***************************************************************************)
(* The list of created branches                                            *)
(***************************************************************************)
\* AddCreated adds what is not there yet.
LEMMA AddCreatedInjective ==
    ASSUME NEW list \in Seq(Entries), IsInjective(list), NEW e \in Entries
    PROVE  AddCreated(list, e) \in Seq(Entries) /\ IsInjective(AddCreated(list, e))
<1>1. CASE Contains(list, e)
  BY <1>1 DEF AddCreated
<1>2. CASE ~Contains(list, e)
  <2>1. AddCreated(list, e) = Append(list, e)
    BY <1>2 DEF AddCreated
  <2>2. \A i \in 1..Len(list) : list[i] # e
    BY <1>2 DEF Contains
  <2> QED
    BY <2>1, <2>2 DEF IsInjective
<1> QED
  BY <1>1, <1>2

\* Taking an element out of a list without repetitions leaves none.
LEMMA RemoveAtInjective ==
    ASSUME NEW S, NEW list \in Seq(S), IsInjective(list), NEW k \in 1..Len(list)
    PROVE  RemoveAt(list, k) \in Seq(S) /\ IsInjective(RemoveAt(list, k))
<1> DEFINE n == Len(list)
           s == SubSeq(list, 1, k - 1)
           t == SubSeq(list, k + 1, n)
<1>1. s \in Seq(S) /\ Len(s) = k - 1 /\ \A i \in 1..(k - 1) : s[i] = list[i]
  OBVIOUS
<1>2. t \in Seq(S) /\ Len(t) = n - k /\ \A i \in 1..(n - k) : t[i] = list[k + i]
  OBVIOUS
<1> DEFINE u == s \o t
           pos(i) == IF i < k THEN i ELSE i + 1
<1>3. u \in Seq(S) /\ Len(u) = n - 1
  <2> HIDE DEF s, t
  <2> QED
    BY <1>1, <1>2
<1>4. \A i \in 1..(n - 1) : u[i] = list[pos(i)] /\ pos(i) \in 1..n
  <2> SUFFICES ASSUME NEW i \in 1..(n - 1) PROVE u[i] = list[pos(i)] /\ pos(i) \in 1..n
    BY Zenon
  <2> HIDE DEF s, t
  <2>1. CASE i < k
    BY <2>1, <1>1, <1>2
  <2>2. CASE ~(i < k)
    <3>1. i - (k - 1) \in 1..(n - k) /\ k + (i - (k - 1)) = i + 1
      BY <2>2
    <3>2. u[i] = t[i - (k - 1)]
      BY <2>2, <1>1, <1>2
    <3> QED
      BY <2>2, <3>1, <3>2, <1>2
  <2> QED
    BY <2>1, <2>2, Zenon
<1>5. \A i, j \in 1..(n - 1) : pos(i) = pos(j) => i = j
  OBVIOUS
<1>6. IsInjective(u)
  <2> HIDE DEF u, pos
  <2>1. DOMAIN u = 1..(n - 1) /\ DOMAIN list = 1..n
    BY <1>3
  <2> QED
    BY <2>1, <1>4, <1>5 DEF IsInjective
<1> QED
  BY <1>3, <1>6, Zenon DEF RemoveAt

\* The least of a nonempty set of positions.
LEMMA MinPosition ==
    ASSUME NEW n \in Nat, NEW I, I \subseteq 1..n, I # {}
    PROVE  Min(I) \in I
<1> DEFINE R == OpToRel(<, Nat)
<1>1. IsWellFoundedOn(R, Nat)
  BY NatLessThanWellFounded, Zenon
<1>2. I \subseteq Nat
  OBVIOUS
<1>3. PICK x \in I : \A y \in I : ~(<<y, x>> \in R)
  <2> HIDE DEF R
  <2> QED
    BY <1>1, <1>2, WFMin, Zenon
<1>4. ASSUME NEW y \in I
      PROVE  x <= y
  <2>1. ~(<<y, x>> \in {ss \in Nat \X Nat : ss[1] < ss[2]})
    BY <1>3, Zenon DEF OpToRel
  <2> QED
    BY <1>2, <2>1
<1>5. Min(I) = CHOOSE m \in I : \A y \in I : m <= y
  BY DEF Min
<1> QED
  BY <1>4, <1>5, Zenon

\* DelCreated takes one element out, or none.
LEMMA DelCreatedInjective ==
    ASSUME NEW list \in Seq(Entries), IsInjective(list), NEW id
    PROVE  DelCreated(list, id) \in Seq(Entries) /\ IsInjective(DelCreated(list, id))
<1> DEFINE I == {i \in 1..Len(list) : list[i].tx = id}
<1>1. CASE I = {}
  <2>1. DelCreated(list, id) = list
    BY <1>1 DEF DelCreated, RemoveFirstMatch
  <2> QED
    BY <2>1
<1>2. CASE I # {}
  <2>1. DelCreated(list, id) = RemoveAt(list, Min(I))
    BY <1>2 DEF DelCreated, RemoveFirstMatch, SelectInSeq
  <2>2. Min(I) \in 1..Len(list)
    BY <1>2, MinPosition
  <2> QED
    BY <2>1, <2>2, RemoveAtInjective
<1> QED
  BY <1>1, <1>2

\* Whatever Flush makes of the list, it stays a list without repetitions.
LEMMA UpdateCreatedInjective ==
    ASSUME NEW list \in Seq(Entries), IsInjective(list), NEW kind, NEW b \in Blocks,
           NEW new \in UpdateCreated(list, kind, b)
    PROVE  new \in Seq(Entries) /\ IsInjective(new)
<1> DEFINE ids == OfKind(b, {"create"})
           id == CHOOSE i \in ids : TRUE
<1>1. CASE ids = {}
  BY <1>1 DEF UpdateCreated
<1>2. CASE ids # {}
  <2>1. id \in ids
    BY <1>2
  <2>2. id \in Ids
    BY <2>1, IdsOfBlock
  <2>3. [tx |-> id, block |-> b] \in Entries
    BY <2>2 DEF Entries
  <2>4. new \in {AddCreated(list, [tx |-> id, block |-> b]), list, DelCreated(list, id)}
    BY <1>2, Zenon DEF UpdateCreated
  <2>5. CASE new = AddCreated(list, [tx |-> id, block |-> b])
    <3> HIDE DEF id
    <3> QED
      BY <2>3, <2>5, AddCreatedInjective
  <2>6. CASE new = DelCreated(list, id)
    <3> HIDE DEF id
    <3> QED
      BY <2>6, DelCreatedInjective
  <2> QED
    BY <2>4, <2>5, <2>6, Zenon
<1> QED
  BY <1>1, <1>2

(***************************************************************************)
(* The initial states                                                      *)
(***************************************************************************)
\* Nothing is recorded, and the chain of the genesis block is empty.
LEMMA InitInv == Init => IInv
<1> SUFFICES ASSUME Init PROVE IInv
  OBVIOUS
<1>1. <<>> \in Blocks
  BY TreeAssumption
<1>2. Types
  BY Zenon DEF Init, Types, NoRecords, Records
<1>3. Stored
  BY <1>1 DEF Init, Stored, ParentClosed, Genesis
<1>4. Created
  BY DEF Init, Created, IsInjective
<1>5. Working /\ Pooled
  BY DEF Init, Working, Pooled
<1>6. Chain(Genesis) = {}
  BY DEF Chain, Genesis, Height
<1>7. Exact(NoRecords, SendsOf, Genesis) /\ Exact(NoRecords, ReceivesOf, Genesis)
  BY <1>6, TreeAssumption DEF Exact, NoRecords
<1>8. Recorded
  BY <1>7, Zenon DEF Init, Recorded, NewTip
<1> QED
  BY <1>2, <1>3, <1>4, <1>5, <1>8 DEF IInv

(***************************************************************************)
(* The steps                                                               *)
(***************************************************************************)
recordVars == <<tip, sent, recv, work, lost>>

\* A step that changes neither the records nor the tip.
LEMMA RecordsKept ==
    ASSUME IInv, UNCHANGED recordVars, UNCHANGED created,
           stored \subseteq stored', Stored', Pooled'
    PROVE  IInv'
<1> USE DEF IInv, recordVars
<1>1. Types'
  BY DEF Types
<1>2. Created'
  BY DEF Created
<1>3. Working'
  BY DEF Working
<1>4. Recorded'
  BY DEF Recorded, NewTip
<1> QED
  BY <1>1, <1>2, <1>3, <1>4

\* A block that is stored follows a stored block.
LEMMA ProcessNewBlockInv ==
    ASSUME IInv, NEW b \in Blocks \ {Genesis}, ProcessNewBlock(b)
    PROVE  IInv'
<1>1. UNCHANGED recordVars /\ UNCHANGED <<created, pool, failed, coins>>
  BY DEF ProcessNewBlock, recordVars
<1>2. stored' = stored \cup {b} \/ stored' = stored
  BY DEF ProcessNewBlock
<1>3. Parent(b) \in stored
  BY DEF ProcessNewBlock
<1>4. Stored'
  BY <1>1, <1>2, <1>3 DEF IInv, Stored, ParentClosed, recordVars
<1>5. Pooled'
  BY <1>1 DEF IInv, Pooled, recordVars
<1> QED
  BY <1>1, <1>2, <1>4, <1>5, RecordsKept

\* InvalidBlockFound marks a stored block.
LEMMA ConnectTipFailsInv ==
    ASSUME IInv, NEW b \in Blocks, ConnectTipFails(b)
    PROVE  IInv'
<1>1. UNCHANGED recordVars /\ UNCHANGED <<created, pool, stored, coins>>
  BY DEF ConnectTipFails, recordVars
<1>2. failed' = failed \cup {b} /\ b \in stored
  BY DEF ConnectTipFails, Connectable
<1>4. Stored'
  BY <1>1, <1>2 DEF IInv, Stored, ParentClosed, recordVars
<1>5. Pooled'
  BY <1>1 DEF IInv, Pooled, recordVars
<1> QED
  BY <1>1, <1>4, <1>5, RecordsKept

\* FlushStateToDisk copies.
LEMMA FlushStateToDiskInv ==
    ASSUME IInv, FlushStateToDisk
    PROVE  IInv'
<1>1. UNCHANGED recordVars /\ UNCHANGED <<created, pool, stored, failed>>
  BY DEF FlushStateToDisk, recordVars
<1>2. coins' = [tip |-> tip, stored |-> stored, failed |-> failed]
  BY DEF FlushStateToDisk
<1>4. Stored'
  BY <1>1, <1>2 DEF IInv, Stored, ParentClosed, recordVars
<1>5. Pooled'
  BY <1>1 DEF IInv, Pooled, recordVars
<1> QED
  BY <1>1, <1>4, <1>5, RecordsKept

\* Mempool takes only what is not recorded.
LEMMA AcceptToMemoryPoolInv ==
    ASSUME IInv, NEW i \in UNION {Receives(b) : b \in Blocks}, AcceptToMemoryPool(i)
    PROVE  IInv'
<1>1. UNCHANGED recordVars /\ UNCHANGED <<created, stored, failed, coins>>
  BY DEF AcceptToMemoryPool, recordVars
<1>2. i \in Ids
  BY IdsOfBlock
<1>3. /\ pool' = [txs |-> pool.txs \cup {i}, cache |-> pool.cache \cup {i}]
      /\ recv[i] = NoBlock
  BY DEF AcceptToMemoryPool, CheckBranchDuplicateTx, IsTxRecvRepeat
<1>4. Stored'
  BY <1>1 DEF IInv, Stored, ParentClosed, recordVars
<1>5. Pooled'
  BY <1>1, <1>2, <1>3 DEF IInv, Pooled, recordVars
<1> QED
  BY <1>1, <1>4, <1>5, RecordsKept

\* Mempool drops a transfer and its entry of the cache together.
LEMMA RemoveUncheckedInv ==
    ASSUME IInv, NEW i \in Ids, RemoveUnchecked(i)
    PROVE  IInv'
<1>1. UNCHANGED recordVars /\ UNCHANGED <<created, stored, failed, coins>>
  BY DEF RemoveUnchecked, recordVars
<1>2. pool' = [txs |-> pool.txs \ {i}, cache |-> pool.cache \ {i}]
  BY DEF RemoveUnchecked
<1>4. Stored'
  BY <1>1 DEF IInv, Stored, ParentClosed, recordVars
<1>5. Pooled'
  BY <1>1, <1>2 DEF IInv, Pooled, recordVars
<1> QED
  BY <1>1, <1>4, <1>5, RecordsKept

\* The first batch: the list of branches.
LEMMA FlushFirstCreated ==
    ASSUME IInv, NEW kind, NEW b \in Blocks, FlushFirst(kind, b)
    PROVE  Created'
<1>1. PICK list \in UpdateCreated(created.mem, kind, b) : created' = [created EXCEPT !.mem = list]
  BY Zenon DEF FlushFirst
<1>2. created \in [mem : Seq(Entries), disk : Seq(Entries)] /\ IsInjective(created.mem)
      /\ IsInjective(created.disk)
  BY DEF IInv, Created
<1>3. created.mem \in Seq(Entries)
  BY <1>2
<1>4. list \in Seq(Entries) /\ IsInjective(list)
  BY <1>2, <1>3, UpdateCreatedInjective
<1>5. created'.mem = list /\ created'.disk = created.disk
      /\ created' \in [mem : Seq(Entries), disk : Seq(Entries)]
  BY <1>1, <1>2, <1>4
<1> QED
  BY <1>2, <1>4, <1>5, Zenon DEF Created

\* The sets of ids, as functions.
LEMMA OfTypes ==
    SendsOf \in [Blocks -> SUBSET Ids] /\ ReceivesOf \in [Blocks -> SUBSET Ids]
BY IdsOfBlock DEF SendsOf, ReceivesOf

\* The first batch of ConnectTip adds the transfers of the next block.
LEMMA ConnectTipInv ==
    ASSUME IInv, NEW b \in Blocks, ConnectTip(b)
    PROVE  IInv'
<1>1. /\ Idle /\ b \in stored /\ b # Genesis /\ Parent(b) = tip
      /\ \A i \in Receives(b) : recv[i] = NoBlock
      /\ FlushFirst("connect", b)
      /\ UNCHANGED <<tip, stored, failed, coins, recv, pool, lost>>
  BY DEF ConnectTip, Connectable, ConnectBlock, CheckBranchDuplicateTx, IsTxRecvRepeat
<1>2. sent' = Write(sent, Sends(b), b) /\ work' = <<"connect", b>>
  BY <1>1 DEF FlushFirst, Record
<1>3. Created'
  BY <1>1, FlushFirstCreated
<1>4. sent \in Records /\ recv \in Records /\ lost \in BOOLEAN
  BY DEF IInv, Types
<1>5. Types'
  <2>1. sent' \in Records
    BY <1>2, <1>4, WriteType
  <2> QED
    BY <2>1, <1>1, <1>2, <1>4 DEF Types
<1>6. Stored'
  BY <1>1 DEF IInv, Stored
<1>7. Working'
  BY <1>1, <1>2 DEF Working
<1>8. Pooled'
  BY <1>1 DEF IInv, Pooled
<1>9. Recorded'
  <2> SUFFICES ASSUME ~lost' PROVE Exact(sent', SendsOf, NewTip') /\ Exact(recv', ReceivesOf, tip')
    BY DEF Recorded
  <2>1. NewTip = tip /\ NewTip' = b
    BY <1>1, <1>2 DEF NewTip, Idle
  <2>2. Exact(sent, SendsOf, Parent(b)) /\ Exact(recv, ReceivesOf, tip)
    BY <1>1, <2>1 DEF IInv, Recorded
  <2>3. SendsOf[b] = Sends(b)
    BY DEF SendsOf
  <2>4. \A i \in SendsOf[b] : sent[i] = NoBlock
    BY <1>1, <1>4, <2>2, <2>3, SendsNew
  <2>5. Exact(Write(sent, SendsOf[b], b), SendsOf, b)
    BY <1>1, <1>4, <2>2, <2>4, ConnectExact, OfTypes
  <2> QED
    BY <1>1, <1>2, <2>1, <2>2, <2>3, <2>5
<1> QED
  BY <1>3, <1>5, <1>6, <1>7, <1>8, <1>9 DEF IInv

\* The first batch of DisconnectTip erases the transfers of the tip.
LEMMA DisconnectTipInv ==
    ASSUME IInv, DisconnectTip
    PROVE  IInv'
<1>1. /\ Idle /\ tip # Genesis
      /\ FlushFirst("disconnect", tip)
      /\ UNCHANGED <<tip, stored, failed, coins, recv, pool, lost>>
  BY DEF DisconnectTip
<1>2. sent' = Write(sent, Sends(tip), NoBlock) /\ work' = <<"disconnect", tip>>
  BY <1>1 DEF FlushFirst, Record
<1>b. tip \in Blocks
  BY DEF IInv, Stored
<1>3. Created'
  BY <1>1, <1>b, FlushFirstCreated
<1>4. sent \in Records /\ recv \in Records /\ lost \in BOOLEAN
  BY DEF IInv, Types
<1>5. Types'
  <2>1. sent' \in Records
    BY <1>2, <1>4, WriteType
  <2> QED
    BY <2>1, <1>1, <1>2, <1>4, <1>b DEF Types
<1>6. Stored'
  BY <1>1 DEF IInv, Stored
<1>7. Working'
  BY <1>1, <1>2 DEF Working
<1>8. Pooled'
  BY <1>1 DEF IInv, Pooled
<1>9. Recorded'
  <2> SUFFICES ASSUME ~lost' PROVE Exact(sent', SendsOf, NewTip') /\ Exact(recv', ReceivesOf, tip')
    BY DEF Recorded
  <2>1. NewTip = tip /\ NewTip' = Parent(tip)
    BY <1>1, <1>2 DEF NewTip, Idle
  <2>2. Exact(sent, SendsOf, tip) /\ Exact(recv, ReceivesOf, tip)
    BY <1>1, <2>1 DEF IInv, Recorded
  <2>3. SendsOf[tip] = Sends(tip)
    BY <1>b DEF SendsOf
  <2>4. Exact(Write(sent, SendsOf[tip], NoBlock), SendsOf, Parent(tip))
    BY <1>1, <1>4, <1>b, <2>2, DisconnectExact, OfTypes
  <2> QED
    BY <1>1, <1>2, <2>1, <2>2, <2>3, <2>4
<1> QED
  BY <1>3, <1>5, <1>6, <1>7, <1>8, <1>9 DEF IInv

\* The second batch, with the tip: the receipts of the block that is
\* connected are written and leave mempool.
LEMMA FinishConnectInv ==
    ASSUME IInv, FinishTip, work[1] = "connect"
    PROVE  IInv'
<1> DEFINE b == work[2]
<1>1. /\ work # <<>>
      /\ FlushSecond("connect", b)
      /\ tip' = b /\ pool' = RemoveForBlock(Receives(b))
      /\ UNCHANGED <<stored, failed, coins, sent, lost>>
  BY DEF FinishTip
<1>2. b \in Blocks /\ b \in stored /\ b # Genesis /\ Parent(b) = tip
      /\ \A i \in Receives(b) : recv[i] = NoBlock
  <2>1. b \in Blocks
    BY <1>1 DEF IInv, Types
  <2> QED
    BY <1>1, <2>1 DEF IInv, Working
<1>3. recv' = Write(recv, Receives(b), b) /\ created' = [created EXCEPT !.disk = created.mem]
      /\ work' = <<>>
  BY <1>1 DEF FlushSecond, Record
<1>4. sent \in Records /\ recv \in Records /\ lost \in BOOLEAN
  BY DEF IInv, Types
<1>c. NewTip = b /\ NewTip' = b
  BY <1>1, <1>3 DEF NewTip
<1> HIDE DEF b
<1>5. Types'
  <2>1. recv' \in Records
    BY <1>2, <1>3, <1>4, WriteType
  <2> QED
    BY <2>1, <1>1, <1>3, <1>4 DEF Types
<1>6. Stored'
  BY <1>1, <1>2 DEF IInv, Stored, ParentClosed
<1>7. Working'
  BY <1>3 DEF Working
<1>8. Created'
  BY <1>3 DEF IInv, Created
<1>9. Pooled'
  <2>1. pool \in [txs : SUBSET Ids, cache : SUBSET Ids] /\ pool.cache = pool.txs
        /\ \A i \in pool.txs : recv[i] = NoBlock
    BY DEF IInv, Pooled
  <2>2. pool' = [txs |-> pool.txs \ Receives(b), cache |-> pool.cache \ Receives(b)]
    BY <1>1 DEF RemoveForBlock
  <2>3. \A i \in pool.txs \ Receives(b) : recv'[i] = NoBlock
    BY <1>3, <2>1 DEF Write
  <2> QED
    BY <2>1, <2>2, <2>3 DEF Pooled
<1>10. Recorded'
  <2> SUFFICES ASSUME ~lost' PROVE Exact(sent', SendsOf, NewTip') /\ Exact(recv', ReceivesOf, tip')
    BY DEF Recorded
  <2>1. Exact(sent, SendsOf, b) /\ Exact(recv, ReceivesOf, Parent(b))
    BY <1>1, <1>2, <1>c DEF IInv, Recorded
  <2>2. ReceivesOf[b] = Receives(b)
    BY <1>2 DEF ReceivesOf
  <2>3. Exact(Write(recv, ReceivesOf[b], b), ReceivesOf, b)
    BY <1>2, <1>4, <2>1, <2>2, ConnectExact, OfTypes
  <2> QED
    BY <1>1, <1>3, <1>c, <2>1, <2>2, <2>3
<1> QED
  BY <1>5, <1>6, <1>7, <1>8, <1>9, <1>10 DEF IInv

\* ... and those of the block that is disconnected are erased.
LEMMA FinishDisconnectInv ==
    ASSUME IInv, FinishTip, work[1] # "connect"
    PROVE  IInv'
<1>1. /\ work # <<>>
      /\ FlushSecond(work[1], work[2])
      /\ tip' = Parent(work[2])
      /\ UNCHANGED <<stored, failed, coins, sent, lost, pool>>
  BY DEF FinishTip
<1>2. work[2] = tip /\ tip # Genesis
  BY <1>1 DEF IInv, Working
<1>b. tip \in Blocks /\ tip \in stored /\ Parent(tip) \in stored
  BY <1>2 DEF IInv, Stored, ParentClosed
<1>3. recv' = Write(recv, Receives(tip), NoBlock) /\ created' = [created EXCEPT !.disk = created.mem]
      /\ work' = <<>>
  BY <1>1, <1>2 DEF FlushSecond, Record
<1>4. sent \in Records /\ recv \in Records /\ lost \in BOOLEAN
  BY DEF IInv, Types
<1>c. NewTip = Parent(tip) /\ NewTip' = Parent(tip)
  BY <1>1, <1>2, <1>3 DEF NewTip
<1>5. Types'
  <2>1. recv' \in Records
    BY <1>3, <1>4, WriteType
  <2> QED
    BY <2>1, <1>1, <1>3, <1>4 DEF Types
<1>6. Stored'
  BY <1>1, <1>2, <1>b DEF IInv, Stored, ParentClosed
<1>7. Working'
  BY <1>3 DEF Working
<1>8. Created'
  BY <1>3 DEF IInv, Created
<1>9. Pooled'
  <2>1. pool \in [txs : SUBSET Ids, cache : SUBSET Ids] /\ pool.cache = pool.txs
        /\ \A i \in pool.txs : recv[i] = NoBlock
    BY DEF IInv, Pooled
  <2>2. \A i \in pool.txs : recv'[i] = NoBlock
    BY <1>3, <2>1 DEF Write
  <2> QED
    BY <1>1, <2>1, <2>2 DEF Pooled
<1>10. Recorded'
  <2> SUFFICES ASSUME ~lost' PROVE Exact(sent', SendsOf, NewTip') /\ Exact(recv', ReceivesOf, tip')
    BY DEF Recorded
  <2>1. Exact(sent, SendsOf, Parent(tip)) /\ Exact(recv, ReceivesOf, tip)
    BY <1>1, <1>c DEF IInv, Recorded
  <2>2. ReceivesOf[tip] = Receives(tip)
    BY <1>b DEF ReceivesOf
  <2>3. Exact(Write(recv, ReceivesOf[tip], NoBlock), ReceivesOf, Parent(tip))
    BY <1>2, <1>4, <1>b, <2>1, DisconnectExact, OfTypes
  <2> QED
    BY <1>1, <1>2, <1>3, <1>c, <2>1, <2>2, <2>3
<1> QED
  BY <1>5, <1>6, <1>7, <1>8, <1>9, <1>10 DEF IInv

\* A restart returns to the flushed tip; if that is another one, or a batch
\* was missing, the records are given up.
LEMMA CrashAndRestartInv ==
    ASSUME IInv, CrashAndRestart
    PROVE  IInv'
<1>1. /\ lost' = (lost \/ ~Idle \/ coins.tip # tip)
      /\ tip' = coins.tip /\ stored' = coins.stored /\ failed' = coins.failed
      /\ created' = [created EXCEPT !.mem = created.disk]
      /\ pool' = [txs |-> {}, cache |-> {}]
      /\ work' = <<>>
      /\ UNCHANGED <<coins, sent, recv>>
  BY DEF CrashAndRestart
<1>2. Types'
  <2>1. lost' \in BOOLEAN
    BY <1>1, Zenon
  <2> QED
    BY <2>1, <1>1 DEF IInv, Types
<1>3. Stored'
  BY <1>1 DEF IInv, Stored, ParentClosed
<1>4. Created'
  BY <1>1 DEF IInv, Created
<1>5. Working' /\ Pooled'
  BY <1>1 DEF Working, Pooled
<1>6. Recorded'
  <2> SUFFICES ASSUME ~lost' PROVE Exact(sent', SendsOf, NewTip') /\ Exact(recv', ReceivesOf, tip')
    BY DEF Recorded
  <2>1. ~lost /\ Idle /\ coins.tip = tip
    BY <1>1, Zenon
  <2>2. NewTip = tip /\ NewTip' = tip
    BY <1>1, <2>1 DEF NewTip, Idle
  <2> QED
    BY <1>1, <2>1, <2>2 DEF IInv, Recorded
<1> QED
  BY <1>2, <1>3, <1>4, <1>5, <1>6 DEF IInv

(***************************************************************************)
(* The theorems                                                            *)
(***************************************************************************)
\* IInv is an invariant: what the records hold follows the tip batch by
\* batch through every connection, disconnection and restart.
THEOREM RecordsInvariant == Spec => []IInv
<1>1. IInv /\ [Next]_vars => IInv'
  <2> SUFFICES ASSUME IInv, [Next]_vars PROVE IInv'
    OBVIOUS
  <2>1. CASE UNCHANGED vars
    <3>1. UNCHANGED recordVars /\ UNCHANGED <<created, stored, pool, failed, coins>>
      BY <2>1 DEF vars, recordVars
    <3>2. Stored'
      BY <3>1 DEF IInv, Stored, ParentClosed, recordVars
    <3>3. Pooled'
      BY <3>1 DEF IInv, Pooled, recordVars
    <3> QED
      BY <3>1, <3>2, <3>3, RecordsKept
  <2>2. ASSUME NEW b \in Blocks \ {Genesis}, ProcessNewBlock(b) PROVE IInv'
    BY <2>2, ProcessNewBlockInv
  <2>3. ASSUME NEW b \in Blocks, ConnectTip(b) PROVE IInv'
    BY <2>3, ConnectTipInv
  <2>4. ASSUME NEW b \in Blocks, ConnectTipFails(b) PROVE IInv'
    BY <2>4, ConnectTipFailsInv
  <2>5. CASE DisconnectTip
    BY <2>5, DisconnectTipInv
  <2>6. CASE FinishTip
    BY <2>6, FinishConnectInv, FinishDisconnectInv
  <2>7. CASE FlushStateToDisk
    BY <2>7, FlushStateToDiskInv
  <2>8. ASSUME NEW i \in UNION {Receives(b) : b \in Blocks}, AcceptToMemoryPool(i) PROVE IInv'
    BY <2>8, AcceptToMemoryPoolInv
  <2>9. ASSUME NEW i \in Ids, RemoveUnchecked(i) PROVE IInv'
    BY <2>9, RemoveUncheckedInv
  <2>10. CASE CrashAndRestart
    BY <2>10, CrashAndRestartInv
  <2> QED
    BY <2>1, <2>2, <2>3, <2>4, <2>5, <2>6, <2>7, <2>8, <2>9, <2>10, Zenon DEF Next
<1> QED
  BY <1>1, InitInv, PTL DEF Spec

\* The records on disk are those of the active chain, unless a crash has
\* lost a change of tip.
THEOREM RecordsAreExact == Spec => []RecordsExact
<1>1. IInv => RecordsExact
  <2> SUFFICES ASSUME IInv PROVE RecordsExact
    OBVIOUS
  <2>1. Range(created.mem) \subseteq Entries
    <3>1. created.mem \in Seq(Entries)
      BY DEF IInv, Created
    <3>2. ASSUME NEW e \in Range(created.mem) PROVE e \in Entries
      <4>1. PICK k \in DOMAIN created.mem : e = created.mem[k]
        BY Zenon DEF Range
      <4> QED
        BY <3>1, <4>1
    <3> QED
      BY <3>2
  <2>2. TypeOK
    BY <2>1 DEF IInv, TypeOK, Types, Stored, Created, Pooled, Entries, Records
  <2>3. ASSUME Idle, ~lost PROVE HoldsExactly(sent, Sends) /\ HoldsExactly(recv, Receives)
    <3>1. NewTip = tip
      BY <2>3 DEF NewTip, Idle
    <3>2. Exact(sent, SendsOf, tip) /\ Exact(recv, ReceivesOf, tip)
      BY <2>3, <3>1 DEF IInv, Recorded
    <3> QED
      BY <3>2 DEF Exact, HoldsExactly, SendsOf, ReceivesOf
  <2> QED
    BY <2>2, <2>3 DEF RecordsExact
<1> QED
  BY <1>1, RecordsInvariant, PTL

\* No transfer is received twice on the active chain: CheckBranchDuplicateTx
\* asks records that are exact whenever it is asked.
THEOREM ReceivedAtMostOnce == Spec => []NoDoubleReceive
<1>1. IInv => NoDoubleReceive
  <2> SUFFICES ASSUME IInv, ~lost, NEW b \in Chain(tip), NEW c \in Chain(tip), b # c,
                      NEW i \in Receives(b) \cap Receives(c)
               PROVE  FALSE
    BY DEF NoDoubleReceive, ReceivedOnce
  <2>1. b \in Blocks /\ c \in Blocks
    BY ChainBlocks DEF IInv, Stored
  <2>2. i \in Ids
    BY <2>1, IdsOfBlock
  <2>3. recv[i] = b /\ recv[i] = c
    BY <2>1, <2>2 DEF IInv, Recorded, Exact, ReceivesOf
  <2> QED
    BY <2>3
<1> QED
  BY <1>1, RecordsInvariant, PTL

\* Mempool holds no transfer that the active chain has received.
THEOREM PoolIsUnreceived == Spec => []PoolUnreceived
<1>1. IInv => PoolUnreceived
  <2> SUFFICES ASSUME IInv PROVE PoolUnreceived
    OBVIOUS
  <2>1. pool.cache = pool.txs
    BY DEF IInv, Pooled
  <2>2. ASSUME ~lost, NEW b \in Chain(tip), NEW i \in pool.txs \cap Receives(b) PROVE FALSE
    <3>1. b \in Blocks
      BY ChainBlocks DEF IInv, Stored
    <3>2. i \in Ids
      BY <3>1, IdsOfBlock
    <3>3. recv[i] = b
      BY <2>2, <3>1, <3>2 DEF IInv, Recorded, Exact, ReceivesOf
    <3> QED
      BY <3>1, <3>3, TreeAssumption DEF IInv, Pooled
  <2> QED
    BY <2>1, <2>2 DEF PoolUnreceived
<1> QED
  BY <1>1, RecordsInvariant, PTL
=============================================================================
