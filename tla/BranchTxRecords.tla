-------------------------- MODULE BranchTxRecords --------------------------
(***************************************************************************)
(* The records of cross-chain transactions (BranchChainTxRecordsDb): which *)
(* block of the active chain holds a transfer sent or a branch created     *)
(* here, and which transfers have been received, so that none is received  *)
(* twice.  ConnectTip and DisconnectTip write them to disk at once, in two *)
(* batches; the coins reach the disk only at the next FlushStateToDisk.    *)
(*                                                                         *)
(* A block is the sequence of choices that leads to it from the genesis    *)
(* block <<>>: its height is its length, its ancestors are its prefixes.   *)
(***************************************************************************)
EXTENDS Integers, SequencesExt

CONSTANTS
    Blocks,          \* the block tree: a prefix-closed set of sequences
    NoBlock,
    BlockTxs,        \* the branch transactions of a block: kind and id
    Ids,             \* ids: of a transfer received, that of the original
    Paid,            \* the mortgage a creation pays, as a power of two
    MaxPowForCreateChainMortgage,
    MaxCrashes

ASSUME TreeAssumption ==
    /\ Blocks \subseteq Seq(Nat) /\ NoBlock \notin Blocks
    /\ <<>> \in Blocks
    /\ \A b \in Blocks : \A h \in 0..Len(b) : SubSeq(b, 1, h) \in Blocks
    /\ BlockTxs \in [Blocks -> Seq([kind : {"create", "send", "recv"}, id : Ids])]

VARIABLES
    tip,       \* chainActive.Tip()
    stored,    \* blocks with data
    refused,   \* blocks that failed CheckBlock when they arrived (history)
    failed,    \* blocks with BLOCK_FAILED_VALID
    coins,     \* what FlushStateToDisk wrote last: tip, stored, failed
    sent,      \* on disk, DB_BRANCH_CHAIN_TX_DATA: the block of an id
    recv,      \* on disk, DB_BRANCH_CHAIN_RECV_TX_DATA
    created,   \* m_vCreatedBranchTxs, and its copy on disk
    pool,      \* received transfers in mempool, and g_pBranchTxRecordCache
    work,      \* the batch still to be written by Flush, if any
    crashes,
    lost       \* a crash has lost a change of tip

vars == <<tip, stored, refused, failed, coins, sent, recv, created, pool, work, crashes, lost>>

Genesis == <<>>
Height(b) == Len(b)
GetAncestor(b, h) == SubSeq(b, 1, h)
Parent(b) == GetAncestor(b, Height(b) - 1)
Chain(b) == {GetAncestor(b, h) : h \in 1..Height(b)}

OfKind(b, kinds) == {tx.id : tx \in {t \in Range(BlockTxs[b]) : t.kind \in kinds}}
Sends(b) == OfKind(b, {"create", "send"})
Receives(b) == OfKind(b, {"recv"})

\* The inputs of a transfer or a creation are spent once on a chain; what
\* makes a receipt unique is CheckBranchDuplicateTx.
ASSUME SentOnceAssumption ==
    \A b \in Blocks : \A c \in Chain(b) \ {b} : Sends(b) \cap Sends(c) = {}

Idle == work = <<>>
NoRecords == [i \in Ids |-> NoBlock]

(***************************************************************************)
(* The checks                                                              *)
(***************************************************************************)
\* GetCreateBranchMortgage; a block that has no index yet counts them all.
GetCreateBranchMortgage(b, indexed) ==
    LET counted == IF indexed
                   THEN SelectSeq(created.mem, LAMBDA c : Height(b) > Height(c.block))
                   ELSE created.mem
    IN  Min({Len(counted), MaxPowForCreateChainMortgage})

CheckBlock(b, indexed) ==
    /\ Cardinality(OfKind(b, {"create"})) <= 1
    /\ \A i \in OfKind(b, {"create"}) : Paid[i] >= GetCreateBranchMortgage(b, indexed)
    /\ \A i, j \in DOMAIN BlockTxs[b] :
           i # j /\ BlockTxs[b][i].kind = "recv" => BlockTxs[b][i] # BlockTxs[b][j]

IsTxRecvRepeat(i) == recv[i] # NoBlock

\* Mutant: only what the block or the pool holds is looked at.
CheckBranchDuplicateTxCached(i, cache) == i \notin cache

CheckBranchDuplicateTx(i, cache) == i \notin cache /\ ~IsTxRecvRepeat(i)

(***************************************************************************)
(* BranchChainTxRecordsDb::Flush                                           *)
(***************************************************************************)
Write(records, ids, b) == [i \in Ids |-> IF i \in ids THEN b ELSE records[i]]

AddCreated(list, entry) == IF Contains(list, entry) THEN list ELSE Append(list, entry)

\* The first entry of the transaction goes.
DelCreated(list, id) == RemoveFirstMatch(list, LAMBDA c : c.tx = id)

\* DelBranchChainTxRecord leaves txnVersion uninitialized: the list of a
\* creation may or may not be updated.
UpdateCreated(list, kind, b) ==
    LET ids == OfKind(b, {"create"}) IN
    IF ids = {} THEN {list}
    ELSE LET id == CHOOSE i \in ids : TRUE
         IN  IF kind = "connect" THEN {AddCreated(list, [tx |-> id, block |-> b])}
             ELSE {list, DelCreated(list, id)}

Record(kind, b) == IF kind = "connect" THEN b ELSE NoBlock

\* The first batch; the list of branches changes in memory.
FlushFirst(kind, b) ==
    /\ sent' = Write(sent, Sends(b), Record(kind, b))
    /\ \E list \in UpdateCreated(created.mem, kind, b) : created' = [created EXCEPT !.mem = list]
    /\ work' = <<kind, b>>

\* Mutant: a disconnected block keeps its receipts.
FlushSecondAddOnly(kind, b) ==
    /\ recv' = IF kind = "connect" THEN Write(recv, Receives(b), b) ELSE recv
    /\ created' = [created EXCEPT !.disk = created.mem]
    /\ work' = <<>>

FlushSecond(kind, b) ==
    /\ recv' = Write(recv, Receives(b), Record(kind, b))
    /\ created' = [created EXCEPT !.disk = created.mem]
    /\ work' = <<>>

(***************************************************************************)
(* The actions                                                             *)
(***************************************************************************)
Init ==
    /\ tip = Genesis /\ stored = {Genesis} /\ refused = {} /\ failed = {}
    /\ coins = [tip |-> Genesis, stored |-> {Genesis}, failed |-> {}]
    /\ sent = NoRecords /\ recv = NoRecords
    /\ created = [mem |-> <<>>, disk |-> <<>>]
    /\ pool = [txs |-> {}, cache |-> {}]
    /\ work = <<>>
    /\ crashes = 0 /\ lost = FALSE

\* ProcessNewBlock up to AcceptBlock; the header may be known or not.
ProcessNewBlock(b) ==
    /\ Idle
    /\ b \notin stored /\ Parent(b) \in stored
    /\ \E indexed \in BOOLEAN :
           IF CheckBlock(b, indexed)
           THEN stored' = stored \cup {b} /\ UNCHANGED refused
           ELSE refused' = refused \cup {b} /\ UNCHANGED stored
    /\ UNCHANGED <<tip, failed, coins, sent, recv, created, pool, work, crashes, lost>>

\* CheckBlock again, if the block is read from disk, then the duplicates.
ConnectBlock(b, fromDisk) ==
    /\ fromDisk => CheckBlock(b, TRUE)
    /\ \A i \in Receives(b) : CheckBranchDuplicateTx(i, {})

Connectable(b) ==
    /\ Idle
    /\ b \in stored \ failed /\ b # Genesis /\ Parent(b) = tip

ConnectTip(b) ==
    /\ Connectable(b)
    /\ \E fromDisk \in BOOLEAN : ConnectBlock(b, fromDisk)
    /\ FlushFirst("connect", b)
    /\ UNCHANGED <<tip, stored, refused, failed, coins, recv, pool, crashes, lost>>

\* InvalidBlockFound.
ConnectTipFails(b) ==
    /\ Connectable(b)
    /\ \E fromDisk \in BOOLEAN : ~ConnectBlock(b, fromDisk)
    /\ failed' = failed \cup {b}
    /\ UNCHANGED <<tip, stored, refused, coins, sent, recv, created, pool, work, crashes, lost>>

DisconnectTip ==
    /\ Idle
    /\ tip # Genesis
    /\ FlushFirst("disconnect", tip)
    /\ UNCHANGED <<tip, stored, refused, failed, coins, recv, pool, crashes, lost>>

\* Mutant: the transactions of the block stay in the pool.
RemoveForBlockNothing(ids) == pool

\* RemoveUnchecked drops the entry of the cache with the transaction.
RemoveForBlock(ids) == [txs |-> pool.txs \ ids, cache |-> pool.cache \ ids]

\* The rest of ConnectTip or DisconnectTip, up to UpdateTip.
FinishTip ==
    /\ work # <<>>
    /\ FlushSecond(work[1], work[2])
    /\ IF work[1] = "connect"
       THEN tip' = work[2] /\ pool' = RemoveForBlock(Receives(work[2]))
       ELSE tip' = Parent(work[2]) /\ UNCHANGED pool
    /\ UNCHANGED <<stored, refused, failed, coins, sent, crashes, lost>>

FlushStateToDisk ==
    /\ Idle
    /\ coins' = [tip |-> tip, stored |-> stored, failed |-> failed]
    /\ UNCHANGED <<tip, stored, refused, failed, sent, recv, created, pool, work, crashes, lost>>

\* A transfer from a peer, from the wallet, or of a disconnected block.
AcceptToMemoryPool(i) ==
    /\ Idle
    /\ i \notin pool.txs
    /\ CheckBranchDuplicateTx(i, pool.cache)
    /\ pool' = [txs |-> pool.txs \cup {i}, cache |-> pool.cache \cup {i}]
    /\ UNCHANGED <<tip, stored, refused, failed, coins, sent, recv, created, work, crashes, lost>>

\* Expiry or eviction.
RemoveUnchecked(i) ==
    /\ Idle
    /\ i \in pool.txs
    /\ pool' = [txs |-> pool.txs \ {i}, cache |-> pool.cache \ {i}]
    /\ UNCHANGED <<tip, stored, refused, failed, coins, sent, recv, created, work, crashes, lost>>

\* The records are as they were written; the chain is that of the coins.
CrashAndRestart ==
    /\ crashes < MaxCrashes
    /\ crashes' = crashes + 1
    /\ lost' = (lost \/ ~Idle \/ coins.tip # tip)
    /\ tip' = coins.tip /\ stored' = coins.stored /\ failed' = coins.failed
    /\ created' = [created EXCEPT !.mem = created.disk]
    /\ pool' = [txs |-> {}, cache |-> {}]
    /\ work' = <<>>
    /\ UNCHANGED <<refused, coins, sent, recv>>

Next ==
    \/ \E b \in Blocks \ {Genesis} : ProcessNewBlock(b)
    \/ \E b \in Blocks : ConnectTip(b)
    \/ \E b \in Blocks : ConnectTipFails(b)
    \/ DisconnectTip
    \/ FinishTip
    \/ FlushStateToDisk
    \/ \E i \in UNION {Receives(b) : b \in Blocks} : AcceptToMemoryPool(i)
    \/ \E i \in Ids : RemoveUnchecked(i)
    \/ CrashAndRestart

Spec == Init /\ [][Next]_vars

(***************************************************************************)
(* Properties                                                              *)
(***************************************************************************)
\* The list of created branches names no creation of a block twice ("add
\* before then (del and add) in same case"), whatever deletions it missed.
TypeOK ==
    /\ tip \in stored /\ stored \subseteq Blocks /\ failed \subseteq stored
    /\ sent \in [Ids -> Blocks \cup {NoBlock}] /\ recv \in [Ids -> Blocks \cup {NoBlock}]
    /\ pool.txs \subseteq Ids
    /\ IsInjective(created.mem)
    /\ Range(created.mem) \subseteq [tx : Ids, block : Blocks]

HoldsExactly(records, Of(_)) ==
    \A i \in Ids, b \in Blocks : records[i] = b <=> b \in Chain(tip) /\ i \in Of(b)

\* Unless a crash has lost a change of tip, between two changes of tip the
\* records on disk are those of the active chain: reorganisations, refused
\* blocks and clean restarts neither leave nor lose one, and the list of
\* created branches has no creation twice.
RecordsExact ==
    /\ TypeOK
    /\ Idle /\ ~lost => HoldsExactly(sent, Sends) /\ HoldsExactly(recv, Receives)

ReceivedOnce ==
    \A b, c \in Chain(tip) : b # c => Receives(b) \cap Receives(c) = {}

\* ... and no transfer is received twice on the active chain, although
\* blocks on both forks, and two blocks of one fork, hold it.
NoDoubleReceive == ~lost => ReceivedOnce

\* ... and mempool holds no transfer that the active chain has received;
\* the cache that CheckBranchDuplicateTx consults is exactly the pool.
PoolUnreceived ==
    /\ pool.cache = pool.txs
    /\ Idle /\ ~lost => \A b \in Chain(tip) : pool.txs \cap Receives(b) = {}

\* A block is not refused for transfers that only itself received
\* (IsTxRecvRepeat: "same block is not duplicate").
SameBlockNoDuplicate ==
    \A b \in failed : \E i \in Receives(b) : recv[i] # b

\* The list of created branches holds only branches of the active chain
\* (getallbranchinfo: "get all created branch chain info").
CreatedOnChain ==
    Idle => \A k \in DOMAIN created.mem : created.mem[k].block \in Chain(tip)

\* What CheckBlock says of a block does not depend on the active chain
\* ("These are checks that are independent of context").
CheckBlockContextFree ==
    Idle => /\ \A b \in stored : CheckBlock(b, TRUE)
            /\ \A b \in refused : ~CheckBlock(b, TRUE)
=============================================================================
