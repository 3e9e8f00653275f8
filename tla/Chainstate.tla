----------------------------- MODULE Chainstate -----------------------------
(***************************************************************************)
(* The unspent coins on disk: blocks connected and disconnected in memory, *)
(* the flush in batches (MCCoinsViewDB::BatchWrite), a crash between any   *)
(* two of them, and the repair at the next start (ReplayBlocks).  With the *)
(* coins goes the list of coins of each address (CoinListDB).              *)
(*                                                                         *)
(* pcoinsTip is the map that CoinsCache shows it to be.  A coin is the     *)
(* height of the block that made it.                                       *)
(***************************************************************************)
EXTENDS Integers, Sequences

CONSTANTS
    Blocks, NoBlock,            \* the block tree: a prefix-closed set of sequences
    BlockTxs,                   \* the transactions of a block, in order
    OutPoints, NoCoin,
    Addresses, AddressOf,       \* the address each outpoint pays
    MainChain,                  \* Params().IsMainChain()
    MaxCrashes

Genesis == <<>>
Height(b) == Len(b)
GetAncestor(b, h) == SubSeq(b, 1, h)
Parent(b) == GetAncestor(b, Height(b) - 1)

Tx == [kind : {"coinbase", "step2", "normal"}, ins : SUBSET OutPoints, outs : SUBSET OutPoints]

ASSUME TreeAssumption ==
    /\ Blocks \subseteq Seq(Nat) /\ NoBlock \notin Blocks
    /\ Genesis \in Blocks
    /\ \A b \in Blocks : \A h \in 0..Height(b) : GetAncestor(b, h) \in Blocks
    /\ BlockTxs \in [Blocks -> Seq(Tx)]
    /\ BlockTxs[Genesis] = <<>>

ASSUME ConstantsAssumption ==
    /\ AddressOf \in [OutPoints -> Addresses]
    /\ MainChain \in BOOLEAN
    /\ MaxCrashes \in Nat

\* An outpoint carries the hash of the transaction that makes it, and a chain
\* holds a transaction once: what it spends is spent once, a coinbase carries
\* its height, CheckBranchDuplicateTx refuses a second receipt.
ASSUME MadeOnceAssumption ==
    \A b \in Blocks : \A h \in 1..Height(b) :
        \A i \in DOMAIN BlockTxs[b], j \in DOMAIN BlockTxs[GetAncestor(b, h)] :
            \/ BlockTxs[b][i].outs \cap BlockTxs[GetAncestor(b, h)][j].outs = {}
            \/ h = Height(b) /\ i = j

VARIABLES
    db,      \* coins, DB_BEST_BLOCK and DB_HEAD_BLOCKS
    tip,     \* pcoinsTip: coins and best block
    lists,   \* coin lists: on disk, and as GetList shows them
    pc,      \* run; coins or lists: within a flush; down
    crashes

vars == <<db, tip, lists, pc, crashes>>

NoCoins == [o \in OutPoints |-> NoCoin]
Unspent(coins) == {o \in OutPoints : coins[o] # NoCoin}

\* Step(s, 1), then Step(_, 2), ... up to Step(_, n).
Iterate(Step(_, _), s, n) ==
    LET after[i \in 0..n] == IF i = 0 THEN s ELSE Step(after[i - 1], i)
    IN  after[n]

(***************************************************************************)
(* The effect of a block on the coins                                      *)
(***************************************************************************)
\* isBranch2ndBlockTx: the stake transaction of the first block of a branch.
Branch2ndBlockTx(b, i) == i = 2 /\ Height(b) = 1 /\ ~MainChain

\* A coinbase has no inputs, and those of a transfer from the main chain
\* (IsBranchChainTransStep2) are not coins of this chain.
Inputs(tx) == IF tx.kind = "normal" THEN tx.ins ELSE {}

Spend(coins, tx, height) ==
    [o \in OutPoints |-> IF o \in tx.outs THEN height
                         ELSE IF o \in Inputs(tx) THEN NoCoin ELSE coins[o]]

UpdateCoins(coins, b, i) ==
    IF Branch2ndBlockTx(b, i) THEN coins ELSE Spend(coins, BlockTxs[b][i], Height(b))

\* The coins before transaction i of b, when b is connected to coins.
Before(coins, b, i) == Iterate(LAMBDA c, j : UpdateCoins(c, b, j), coins, i - 1)

ConnectBlock(coins, b) == Before(coins, b, Len(BlockTxs[b]) + 1)

HaveInputs(coins, b) ==
    \A i \in DOMAIN BlockTxs[b] :
        \/ Branch2ndBlockTx(b, i)
        \/ \A o \in Inputs(BlockTxs[b][i]) : Before(coins, b, i)[o] # NoCoin

\* The coins of the chain that ends in b.
utxo[b \in Blocks] == IF b = Genesis THEN NoCoins ELSE ConnectBlock(utxo[Parent(b)], b)

\* Outputs are spent and inputs restored from the undo data of b.
UndoTx(coins, b, i) ==
    LET tx   == BlockTxs[b][i]
        undo == Before(utxo[Parent(b)], b, i)
    IN  IF Branch2ndBlockTx(b, i) THEN coins
        ELSE [o \in OutPoints |-> IF o \in Inputs(tx) THEN undo[o]
                                  ELSE IF o \in tx.outs THEN NoCoin ELSE coins[o]]

\* Mutant: the transactions are undone in the order of the block.
DisconnectBlockForward(coins, b) ==
    Iterate(LAMBDA c, i : UndoTx(c, b, i), coins, Len(BlockTxs[b]))

DisconnectBlock(coins, b) ==
    LET n == Len(BlockTxs[b])
    IN  Iterate(LAMBDA c, i : UndoTx(c, b, n + 1 - i), coins, n)

RollforwardBlock(coins, b) ==
    Iterate(LAMBDA c, i : Spend(c, BlockTxs[b][i], Height(b)), coins, Len(BlockTxs[b]))

\* The height of LastCommonAncestor.
ForkHeight(b, c) ==
    CHOOSE h \in 0..Height(b) :
        /\ h <= Height(c) /\ GetAncestor(b, h) = GetAncestor(c, h)
        /\ \A k \in (h + 1)..Height(b) : k <= Height(c) => GetAncestor(b, k) # GetAncestor(c, k)

Rollback(coins, old, fork) ==
    Iterate(LAMBDA c, i : DisconnectBlock(c, GetAncestor(old, Height(old) + 1 - i)),
            coins, Height(old) - fork)

Rollforward(coins, new, fork) ==
    Iterate(LAMBDA c, i : RollforwardBlock(c, GetAncestor(new, fork + i)), coins, Height(new) - fork)

\* What ReplayBlocks makes of the coins on disk between two tips; before the
\* first flush there is no old one.
Replay(coins, old, new) ==
    IF old = NoBlock THEN Rollforward(coins, new, 0)
    ELSE LET fork == ForkHeight(old, new)
         IN  Rollforward(Rollback(coins, old, fork), new, fork)

(***************************************************************************)
(* The actions                                                             *)
(***************************************************************************)
Init ==
    /\ db = [coins |-> NoCoins, best |-> NoBlock, heads |-> <<>>]
    /\ tip = [coins |-> NoCoins, best |-> Genesis]
    /\ lists = [disk |-> {}, shown |-> {}]
    /\ pc = "run"
    /\ crashes = 0

\* Mutant: a spent coin stays in its list.
ImportCoinsAddOnly(old, new) ==
    lists.shown \cup {o \in Unspent(new) : old[o] # new[o]}

\* ImportCoins: a spent coin leaves its list, a new one enters it once.
ImportCoins(old, new) ==
    LET changed == {o \in OutPoints : old[o] # new[o]}
    IN  (lists.shown \ changed) \cup (changed \cap Unspent(new))

ConnectTip(b) ==
    LET coins == ConnectBlock(tip.coins, b) IN
    /\ pc = "run"
    /\ b # Genesis /\ Parent(b) = tip.best
    /\ HaveInputs(tip.coins, b)
    /\ tip' = [coins |-> coins, best |-> b]
    /\ lists' = [lists EXCEPT !.shown = ImportCoins(tip.coins, coins)]
    /\ UNCHANGED <<db, pc, crashes>>

DisconnectTip ==
    LET coins == DisconnectBlock(tip.coins, tip.best) IN
    /\ pc = "run"
    /\ tip.best # Genesis
    /\ tip' = [coins |-> coins, best |-> Parent(tip.best)]
    /\ lists' = [lists EXCEPT !.shown = ImportCoins(tip.coins, coins)]
    /\ UNCHANGED <<db, pc, crashes>>

\* FlushStateToDisk; the block index and the undo data are on disk before.
StartFlush ==
    /\ pc = "run"
    /\ pc' = "coins"
    /\ UNCHANGED <<db, tip, lists, crashes>>

\* Mutant: the heads of an interrupted flush are not consulted.
OldTipBest == db.best

OldTip == IF db.heads # <<>> THEN db.heads[2] ELSE db.best

\* Some coins go to disk because the batch exceeds -dbbatchsize.
WritePartialBatch(some) ==
    /\ pc = "coins"
    /\ some # {}
    /\ db' = [coins |-> [o \in OutPoints |-> IF o \in some THEN tip.coins[o] ELSE db.coins[o]],
              best  |-> NoBlock,
              heads |-> <<tip.best, OldTip>>]
    /\ UNCHANGED <<tip, lists, pc, crashes>>

\* CoinListDB::Flush, in batches of whole lists.
WriteLists(some) ==
    LET written == {o \in OutPoints : AddressOf[o] \in some} IN
    /\ pc \in {"coins", "lists"}
    /\ lists.disk # lists.shown
    /\ lists' = [lists EXCEPT !.disk = (@ \ written) \cup (lists.shown \cap written)]
    /\ pc' = "lists"
    /\ UNCHANGED <<db, tip, crashes>>

FinalBatch ==
    /\ pc \in {"coins", "lists"}
    /\ lists.disk = lists.shown
    /\ db' = [coins |-> tip.coins, best |-> tip.best, heads |-> <<>>]
    /\ pc' = "run"
    /\ UNCHANGED <<tip, lists, crashes>>

Crash ==
    /\ pc # "down"
    /\ crashes < MaxCrashes
    /\ pc' = "down"
    /\ crashes' = crashes + 1
    /\ tip' = [coins |-> NoCoins, best |-> NoBlock]
    /\ lists' = [lists EXCEPT !.shown = lists.disk]
    /\ UNCHANGED db

\* The database is consistent: LoadChainTip, or Genesis is connected.
Load ==
    /\ pc = "down"
    /\ db.heads = <<>>
    /\ tip' = [coins |-> db.coins, best |-> IF db.best = NoBlock THEN Genesis ELSE db.best]
    /\ pc' = "run"
    /\ UNCHANGED <<db, lists, crashes>>

\* The cache of ReplayBlocks is flushed like pcoinsTip, but to the database
\* directly: no coin list learns of it.
ReplayBlocks ==
    /\ pc = "down"
    /\ db.heads # <<>>
    /\ tip' = [coins |-> Replay(db.coins, db.heads[2], db.heads[1]), best |-> db.heads[1]]
    /\ pc' = "coins"
    /\ UNCHANGED <<db, lists, crashes>>

Next ==
    \/ \E b \in Blocks : ConnectTip(b)
    \/ DisconnectTip
    \/ StartFlush
    \/ \E some \in SUBSET {o \in OutPoints : db.coins[o] # tip.coins[o]} : WritePartialBatch(some)
    \/ \E some \in SUBSET Addresses : WriteLists(some)
    \/ FinalBatch
    \/ Crash \/ Load \/ ReplayBlocks

Spec == Init /\ [][Next]_vars

(***************************************************************************)
(* Properties                                                              *)
(***************************************************************************)
Maps == [OutPoints -> Nat \cup {NoCoin}]

\* The variables keep the shape the code gives them.
TypeOK ==
    /\ db \in [coins : Maps, best : Blocks \cup {NoBlock},
               heads : {<<>>} \cup (Blocks \X (Blocks \cup {NoBlock}))]
    /\ tip \in [coins : Maps, best : Blocks \cup {NoBlock}]
    /\ lists \in [disk : SUBSET OutPoints, shown : SUBSET OutPoints]
    /\ pc \in {"run", "coins", "lists", "down"}
    /\ crashes \in 0..MaxCrashes

\* pcoinsTip has exactly the unspent coins of its chain, with their heights:
\* after any reorganisation, and after ReplayBlocks has repaired a database
\* that a crash, or several, left between two tips.
TipIsUtxo == TypeOK /\ (pc # "down" => tip.coins = utxo[tip.best])

\* A database that names a best block holds the coins of that block, and one
\* with DB_HEAD_BLOCKS holds at each outpoint what one of the two tips has.
DiskIsUtxo ==
    IF db.heads = <<>>
    THEN db.coins = IF db.best = NoBlock THEN NoCoins ELSE utxo[db.best]
    ELSE \A o \in OutPoints :
            \/ db.coins[o] = utxo[db.heads[1]][o]
            \/ db.coins[o] = IF db.heads[2] = NoBlock THEN NoCoin ELSE utxo[db.heads[2]][o]

\* GetList names every unspent coin of the chain.
ListsComplete == pc # "down" => Unspent(tip.coins) \subseteq lists.shown

\* As long as no crash happens GetList names exactly the unspent coins.
ListsExact == crashes = 0 => lists.shown = Unspent(tip.coins)
=============================================================================
