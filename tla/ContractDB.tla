----------------------------- MODULE ContractDB -----------------------------
(***************************************************************************)
(* The contract state database, vm/contractdb.cpp, driven by the chain     *)
(* state of validation/validation.cpp.                                     *)
(*                                                                         *)
(* ContractDataDB stores, for every contract, the data each block wrote,   *)
(* indexed by block height and block hash, so that the contract can be     *)
(* read as of any fork.  A cache (contractData) is filled lazily from      *)
(* LevelDB (db), is written through when a block is connected, loses the   *)
(* data of abandoned forks once a block is CheckDepth deep, and forgets    *)
(* all but the newest write of what is older than the removal height.      *)
(*                                                                         *)
(* A block is the sequence of choices that leads to it from the genesis    *)
(* block <<>>, so its height is its length and its ancestors are its       *)
(* prefixes.  The data a block writes for a contract is determined by the  *)
(* block (ConnectBlock compares it with the Merkle roots of the header),   *)
(* so "the data of c at b" is represented by b itself.                     *)
(***************************************************************************)
EXTENDS Integers, Sequences

CONSTANTS
    Contracts,        \* contract ids
    Blocks,           \* the block tree: a prefix-closed set of sequences
    CheckDepth,       \* -checkblocks / nPowTargetSpacing
    RedeemSafeHeight, \* REDEEM_SAFE_HEIGHT
    MaxRewind         \* how far the flushed tip and a reorganisation may
                      \* lie behind the highest block ever connected

ASSUME TreeAssumption ==
    /\ Blocks \subseteq Seq(Nat)
    /\ <<>> \in Blocks
    /\ \A b \in Blocks : \A h \in 0..Len(b) : SubSeq(b, 1, h) \in Blocks

ASSUME DepthAssumption ==
    CheckDepth \in Nat /\ RedeemSafeHeight \in Nat /\ MaxRewind \in Nat

\* What is older than the removal height is kept only in its newest version.
ASSUME RewindAssumption ==
    MaxRewind <= CheckDepth + RedeemSafeHeight + CheckDepth + 1

VARIABLES
    contractData,  \* the cache: one DBContractContext per contract
    removeBatch,   \* keys UpdateBlockContractToDisk marked for deletion
    removes,       \* contracts to drop from the cache
    db,            \* LevelDB: the heights, the hashes per height, the data
    writes,        \* which contracts each block writes (fixed block contents)
    pc,            \* where ConnectTip / FlushStateToDisk stands
    tip,           \* pcoinsTip's best block; while connecting, its new child
    invalid,       \* blocks whose nStatus has a BLOCK_FAILED bit
    disk,          \* failure bits of the block index database and best block
                   \* of the coins database
    peak,          \* history: height of the highest block ever connected
    trusted        \* history: the newest block of the active chain whose
                   \* contract state the database is still expected to hold

cacheVars == <<contractData, removeBatch, removes>>
chainVars == <<tip, invalid>>
ghostVars == <<peak, trusted>>
vars == <<contractData, removeBatch, removes, db, writes, pc, tip,
          invalid, disk, peak, trusted>>

(***************************************************************************)
(* Blocks                                                                  *)
(***************************************************************************)
Height(b) == Len(b)
GetAncestor(b, h) == SubSeq(b, 1, h)
Parent(b) == GetAncestor(b, Height(b) - 1)
Heights == {Height(b) : b \in Blocks}
Max(S) == CHOOSE h \in S : \A g \in S : g <= h
Min(S) == CHOOSE h \in S : \A g \in S : h <= g
At(S, h) == {b \in S : Height(b) = h}
IsAncestor(a, b) == Height(a) <= Height(b) /\ a = GetAncestor(b, Height(a))

(***************************************************************************)
(* The cached context of a contract.  vecBlockHash of the item at height h *)
(* is At(hashes, h); vecBlockContractData is filled in for the blocks in   *)
(* loaded.  An item read from disk has no hashes until they are needed.    *)
(***************************************************************************)
NoContext == [cached |-> FALSE, items |-> {}, hashes |-> {},
              loaded |-> {}, dirty |-> {}]
NoRemoval == [c \in Contracts |-> [data |-> {}, heights |-> {}]]

\* The record db.Read(contractId) returns; without items there is none.
DbContext(c) == [NoContext EXCEPT !.cached = db[c].items # {}, !.items = db[c].items]

Context(c) == IF contractData[c].cached THEN contractData[c] ELSE DbContext(c)

\* vecBlockHash of the item at height h, read from disk when it is empty.
HashesAt(c, ctx, h) ==
    IF At(ctx.hashes, h) = {} THEN At(db[c].hashes, h) ELSE At(ctx.hashes, h)

(***************************************************************************)
(* GetContractContext(c, prev): the newest item of prev's own chain.       *)
(***************************************************************************)
Matches(c, ctx, prev) ==
    {h \in ctx.items : h <= Height(prev)
                       /\ GetAncestor(prev, h) \in HashesAt(c, ctx, h)}

Found(c, ctx, prev) ==
    LET m == Matches(c, ctx, prev) IN IF m = {} THEN -1 ELSE Max(m)

\* The context after the lookup has loaded what it came across.
AfterGet(c, prev) ==
    LET ctx == Context(c)
        r   == Found(c, ctx, prev)
        visited == {h \in ctx.items : r <= h /\ h <= Height(prev)}
    IN  [ctx EXCEPT
           !.hashes = @ \cup UNION {HashesAt(c, ctx, h) : h \in visited},
           !.loaded = @ \cup {b \in db[c].data : r >= 0 /\ b = GetAncestor(prev, r)}]

\* What the caller gets: the height, and whether there was data to return.
Lookup(c, prev) ==
    LET ctx == Context(c)
        r   == Found(c, ctx, prev)
    IN  [height |-> r,
         data   |-> r >= 0 => GetAncestor(prev, r) \in ctx.loaded \cup db[c].data]

GetAll(S, prev) ==
    [c \in Contracts |-> IF c \in S THEN AfterGet(c, prev) ELSE contractData[c]]

Init ==
    /\ contractData = [c \in Contracts |-> NoContext]
    /\ removeBatch = NoRemoval
    /\ removes = {}
    /\ db = [c \in Contracts |-> [items |-> {}, hashes |-> {}, data |-> {}]]
    /\ writes \in {w \in [Blocks -> SUBSET Contracts] : w[<<>>] = {}}
    /\ pc = "idle"
    /\ tip = <<>>
    /\ invalid = {}
    /\ disk = [tip |-> <<>>, invalid |-> {}]
    /\ peak = 0
    /\ trusted = <<>>

\* The mempool, the miner and the RPCs read a contract as of the tip.
ReadAtTip(c) ==
    /\ pc = "idle"
    /\ contractData' = GetAll({c}, tip)
    /\ UNCHANGED <<removeBatch, removes, db, writes, pc, chainVars, disk, ghostVars>>

(***************************************************************************)
(* ConnectBlock(b).  The virtual machine reads every contract of the block *)
(* as of its parent; a wrong read shows up as a Merkle root mismatch and   *)
(* the block is marked invalid.                                            *)
(***************************************************************************)
\* The newest write of c on the chain of b, or -1.
LastWrite(c, b) ==
    LET w == {h \in 0..Height(b) : c \in writes[GetAncestor(b, h)]}
    IN  IF w = {} THEN -1 ELSE Max(w)

ReadsCorrectly(c, b) == Lookup(c, b) = [height |-> LastWrite(c, b), data |-> TRUE]

Fork(a, b) ==
    GetAncestor(a, Max({h \in 0..Height(a) : h <= Height(b)
                                             /\ GetAncestor(a, h) = GetAncestor(b, h)}))

CanConnect(b) ==
    /\ pc = "idle"
    /\ b \in Blocks \ (invalid \cup {<<>>})
    /\ Parent(b) = tip
    /\ Height(b) <= Height(Fork(trusted, disk.tip)) + MaxRewind

RejectBlock(b) ==
    /\ CanConnect(b)
    /\ \E c \in writes[b] : ~ReadsCorrectly(c, tip)
    /\ contractData' = GetAll(writes[b], tip)
    /\ invalid' = invalid \cup {b}
    /\ UNCHANGED <<removeBatch, removes, db, writes, pc, tip, disk, ghostVars>>

\* Mutant: the write is filed one height too high.
InsertWriteTooHigh(ctx, b) ==
    [cached |-> TRUE,
     items  |-> ctx.items \cup {Height(b) + 1},
     hashes |-> ctx.hashes \cup {b},
     loaded |-> ctx.loaded \cup {b},
     dirty  |-> ctx.dirty \cup {Height(b) + 1}]

\* WriteBlockContractContextToDisk: into the item of b's height, creating it
\* if need be; an item whose hashes were never read from disk stays unread.
InsertWrite(ctx, b) ==
    [cached |-> TRUE,
     items  |-> ctx.items \cup {Height(b)},
     hashes |-> ctx.hashes \cup {b},
     loaded |-> ctx.loaded \cup {b},
     dirty  |-> ctx.dirty \cup {Height(b)}]

WriteBlockContractContextToDisk(b) ==
    /\ CanConnect(b)
    /\ \A c \in writes[b] : ReadsCorrectly(c, tip)
    /\ contractData' = [c \in Contracts |->
           IF c \in writes[b] THEN InsertWrite(AfterGet(c, tip), b) ELSE contractData[c]]
    /\ db' = [c \in Contracts |->
           IF c \in writes[b] THEN [db[c] EXCEPT !.data = @ \cup {b}] ELSE db[c]]
    /\ tip' = b
    /\ pc' = "written"
    /\ UNCHANGED <<removeBatch, removes, writes, invalid, disk, ghostVars>>

(***************************************************************************)
(* UpdateBlockContractToDisk(b), for the cached contracts.  Items at or    *)
(* below the confirmed height keep only the hash on b's chain; of the      *)
(* items below the removal height only the newest is kept.                 *)
(***************************************************************************)
ConfirmBlockHeight(blockHeight) == blockHeight - CheckDepth

\* Mutant: without the margin for redeeming and for checking blocks.
RemoveBlockHeightNoMargin(blockHeight) == ConfirmBlockHeight(blockHeight)

RemoveBlockHeight(blockHeight) ==
    ConfirmBlockHeight(blockHeight) - RedeemSafeHeight - CheckDepth

Confirmed(ctx, b) == {h \in ctx.items : h <= ConfirmBlockHeight(Height(b))}

Known(c, ctx, b) ==
    ctx.hashes \cup UNION {HashesAt(c, ctx, h) : h \in Confirmed(ctx, b)}

\* A hash missing from mapBlockIndex is stale as well, and is never on b's chain.
Stale(c, ctx, b) ==
    {x \in Known(c, ctx, b) : /\ Height(x) \in Confirmed(ctx, b)
                              /\ x # GetAncestor(b, Height(x))}

\* Mutant: the oldest of the old items is kept instead of the newest.
GoneButOldest(ctx, b) ==
    LET old == {h \in ctx.items : h < RemoveBlockHeight(Height(b))}
    IN  IF old = {} THEN {} ELSE old \ {Min(old)}

Gone(ctx, b) ==
    LET old == {h \in ctx.items : h < RemoveBlockHeight(Height(b))}
    IN  IF old = {} THEN {} ELSE old \ {Max(old)}

\* assert(vecBlockHash.size() == 1 && vecBlockContractData.size() == 1)
AssertOneHash(b) ==
    \A c \in Contracts : LET ctx == contractData[c] IN
        \A h \in Confirmed(ctx, b) :
            At(Known(c, ctx, b) \ Stale(c, ctx, b), h) # {}

AfterUpdate(c, b) ==
    LET ctx  == contractData[c]
        kept == {x \in Known(c, ctx, b) \ Stale(c, ctx, b) : Height(x) \notin Gone(ctx, b)}
        read == {x \in db[c].data : Height(x) \in Confirmed(ctx, b)
                                    /\ At(ctx.hashes, Height(x)) = {}}
    IN  [ctx EXCEPT !.items  = @ \ Gone(ctx, b),
                    !.hashes = kept,
                    !.loaded = (@ \cup read) \cap kept,
                    !.dirty  = {}]

RemovalOf(c, b) ==
    LET ctx == contractData[c]
    IN  [data |-> Stale(c, ctx, b)
                    \cup {x \in Known(c, ctx, b) : Height(x) \in Gone(ctx, b)},
         heights |-> Gone(ctx, b)]

\* Mutant: an item that only lost stale hashes is not rewritten.
DbAfterUpdateNewOnly(c, b) ==
    LET ctx   == contractData[c]
        stale == Stale(c, ctx, b)
    IN  [db[c] EXCEPT
           !.items  = ctx.items \ Gone(ctx, b),
           !.hashes = {x \in @ : Height(x) \notin ctx.dirty}
                        \cup {x \in Known(c, ctx, b) \ stale : Height(x) \in ctx.dirty}]

\* The height keys of the dirty items and the list of heights are rewritten.
DbAfterUpdate(c, b) ==
    LET ctx   == contractData[c]
        stale == Stale(c, ctx, b)
        dirty == ctx.dirty \cup {Height(x) : x \in stale}
    IN  [db[c] EXCEPT
           !.items  = ctx.items \ Gone(ctx, b),
           !.hashes = {x \in @ : Height(x) \notin dirty}
                        \cup {x \in Known(c, ctx, b) \ stale : Height(x) \in dirty}]

IsCached(c) == contractData[c].cached

UpdateBlockContractToDisk ==
    /\ pc = "written"
    /\ AssertOneHash(tip)
    /\ contractData' = [c \in Contracts |->
           IF IsCached(c) THEN AfterUpdate(c, tip) ELSE contractData[c]]
    /\ removeBatch' = [c \in Contracts |->
           IF IsCached(c) THEN RemovalOf(c, tip) ELSE NoRemoval[c]]
    /\ removes' = {c \in Contracts : \E h \in Heights :
                      /\ h < RemoveBlockHeight(Height(tip))
                      /\ IsCached(c) /\ AfterUpdate(c, tip).items = {h}}
    /\ db' = [c \in Contracts |->
           IF IsCached(c) THEN DbAfterUpdate(c, tip) ELSE db[c]]
    /\ pc' = "flush"
    /\ peak' = IF Height(tip) > peak THEN Height(tip) ELSE peak
    /\ trusted' = IF trusted = Parent(tip) THEN tip ELSE trusted
    /\ UNCHANGED <<writes, chainVars, disk>>

(***************************************************************************)
(* DisconnectTip leaves the contract database alone: it is fork-indexed.   *)
(***************************************************************************)
DisconnectTip ==
    /\ pc = "idle"
    /\ Height(tip) > 0
    /\ Height(tip) > peak - MaxRewind
    /\ tip' = Parent(tip)
    /\ pc' = "flush"
    /\ trusted' = IF trusted = tip THEN tip' ELSE trusted
    /\ UNCHANGED <<cacheVars, db, writes, invalid, disk, peak>>

(***************************************************************************)
(* FlushStateToDisk: optionally the block index and then the coins         *)
(* database, in two writes; in every mode PruneContractContext at the end. *)
(***************************************************************************)
PeriodicFlush == pc = "idle" /\ pc' = "flush"
                 /\ UNCHANGED <<cacheVars, db, writes, chainVars, disk, ghostVars>>

FlushIndex ==
    /\ pc = "flush"
    /\ disk' = [disk EXCEPT !.invalid = invalid]
    /\ pc' \in {"flushCoins", "prune"}
    /\ UNCHANGED <<cacheVars, db, writes, chainVars, ghostVars>>

FlushCoins ==
    /\ pc = "flushCoins"
    /\ disk' = [disk EXCEPT !.tip = tip]
    /\ pc' = "prune"
    /\ UNCHANGED <<cacheVars, db, writes, chainVars, ghostVars>>

PruneContractContext ==
    /\ pc \in {"flush", "prune"}
    /\ db' = [c \in Contracts |-> [db[c] EXCEPT
           !.data   = @ \ removeBatch[c].data,
           !.hashes = {x \in @ : Height(x) \notin removeBatch[c].heights}]]
    /\ contractData' = [c \in Contracts |->
           IF c \in removes THEN NoContext ELSE contractData[c]]
    /\ removeBatch' = NoRemoval
    /\ removes' = {}
    /\ pc' = "idle"
    /\ UNCHANGED <<writes, chainVars, disk, ghostVars>>

(***************************************************************************)
(* The process stops, at any point or because the assertion failed, and is *)
(* started again: LoadBlockIndexDB and LoadChainTip restore the chain from *)
(* disk, the cache of the contract database starts empty.                  *)
(***************************************************************************)
Restart ==
    /\ contractData' = [c \in Contracts |-> NoContext]
    /\ removeBatch' = NoRemoval
    /\ removes' = {}
    /\ pc' = "idle"
    /\ tip' = disk.tip
    /\ invalid' = disk.invalid
    /\ trusted' = Fork(trusted, disk.tip)
    /\ UNCHANGED <<db, writes, disk, peak>>

Next ==
    \/ \E b \in Blocks : \/ RejectBlock(b)
                         \/ WriteBlockContractContextToDisk(b)
    \/ \E c \in Contracts : ReadAtTip(c)
    \/ UpdateBlockContractToDisk
    \/ DisconnectTip
    \/ PeriodicFlush
    \/ FlushIndex
    \/ FlushCoins
    \/ PruneContractContext
    \/ Restart

Spec == Init /\ [][Next]_vars

(***************************************************************************)
(* Properties                                                              *)
(***************************************************************************)
Contexts == [cached : BOOLEAN, items : SUBSET Heights, hashes : SUBSET Blocks,
             loaded : SUBSET Blocks, dirty : SUBSET Heights]
Records == [items : SUBSET Heights, hashes : SUBSET Blocks, data : SUBSET Blocks]
Removals == [data : SUBSET Blocks, heights : SUBSET Heights]

\* Every variable keeps the shape contractdb.h and validation.cpp declare.
TypeOK ==
    /\ contractData \in [Contracts -> Contexts]
    /\ removeBatch \in [Contracts -> Removals]
    /\ removes \subseteq Contracts
    /\ db \in [Contracts -> Records]
    /\ writes \in [Blocks -> SUBSET Contracts]
    /\ pc \in {"idle", "written", "flush", "flushCoins", "prune"}
    /\ tip \in Blocks /\ invalid \subseteq Blocks
    /\ disk \in [tip : Blocks, invalid : SUBSET Blocks]
    /\ peak \in Heights
    /\ trusted \in Blocks

\* As long as the active chain was reached from a state the database holds,
\* GetContractContext at the tip returns, for every contract, the data of the
\* nearest block of the tip's own chain that wrote the contract.
TipReads ==
    pc = "idle" /\ trusted = tip => \A c \in Contracts : ReadsCorrectly(c, tip)

\* If the process stops now, then after the restart every contract reads
\* correctly as of the last block that the flushed chain shares with the
\* active chain.
DurableReads ==
    LET b == Fork(trusted, disk.tip)
    IN  \A c \in Contracts :
          LET r == LastWrite(c, b)
          IN  /\ Found(c, DbContext(c), b) = r
              /\ r >= 0 => GetAncestor(b, r) \in db[c].data

\* ConnectBlock marks no block invalid: every block of the model is valid.
ValidBlocksAccepted == invalid = {}

\* UpdateBlockContractToDisk's assertion holds whenever it is reached.
OneHashAsserted == pc = "written" => AssertOneHash(tip)

(***************************************************************************)
(* The inductive invariant behind TipReads and DurableReads.               *)
(***************************************************************************)
\* The write of c that is in the cache but not yet in the lists on disk.
Fresh(c) == IF pc = "written" /\ c \in writes[tip] THEN {tip} ELSE {}

\* An item of the cache has either all the hashes the disk has, or none yet.
InSync(c) ==
    LET ctx == contractData[c] IN
    IF ctx.cached
    THEN /\ ctx.items = db[c].items \cup {Height(x) : x \in Fresh(c)}
         /\ ctx.dirty = {Height(x) : x \in Fresh(c)}
         /\ Fresh(c) \subseteq ctx.hashes
         /\ \A x \in ctx.hashes \ Fresh(c) : Height(x) \in db[c].items
         /\ \A h \in ctx.items : At(ctx.hashes, h) \ Fresh(c)
                                   \in {{}, At(db[c].hashes, h) \ Fresh(c)}
    ELSE ctx = NoContext /\ Fresh(c) = {}

\* Only writes are recorded, and a recorded write has its data.
Sound(c) ==
    /\ \A x \in db[c].hashes \cup contractData[c].hashes : c \in writes[x]
    /\ \A x \in db[c].hashes : Height(x) \in db[c].items =>
           x \in db[c].data \ removeBatch[c].data
    /\ Fresh(c) \subseteq db[c].data
    /\ removeBatch[c].heights \cap db[c].items = {}

\* The heights at which the lists on disk name the block of a's chain.
Recorded(c, a) ==
    {k \in db[c].items : k <= Height(a) /\ GetAncestor(a, k) \in db[c].hashes}

\* Every write on the trusted chain is recorded on disk, or is superseded by
\* a recorded one that is older than the removal height.
Complete(c) ==
    \A h \in 0..Height(trusted) : c \in writes[GetAncestor(trusted, h)] =>
        \E k \in Recorded(c, trusted) :
            k = h \/ (h < k /\ k < RemoveBlockHeight(peak))

ChainInv ==
    /\ IsAncestor(trusted, tip)
    /\ pc = "written" => trusted # tip
    /\ pc \in {"idle", "written"} => removeBatch = NoRemoval /\ removes = {}
    /\ peak <= Height(Fork(trusted, disk.tip)) + MaxRewind
    /\ pc = "written" => Height(tip) <= Height(Fork(trusted, disk.tip)) + MaxRewind

\* The cache, the lists on disk and the data on disk agree on the writes of
\* the trusted chain, which is never further behind than the removal height.
IndInv ==
    /\ TypeOK
    /\ ChainInv
    /\ \A c \in Contracts : InSync(c) /\ Sound(c) /\ Complete(c)
=============================================================================
