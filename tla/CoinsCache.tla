----------------------------- MODULE CoinsCache -----------------------------
(***************************************************************************)
(* MCCoinsViewCache, transaction/coins.cpp: the cache pcoinsTip on the     *)
(* coins database, and a temporary cache (view) on pcoinsTip.              *)
(*                                                                         *)
(* An entry of cacheCoins is a coin, NoCoin when it is spent, and the      *)
(* flags DIRTY (differs from the base) and FRESH (the base has no unspent  *)
(* coin, so a spent entry need not be written).  Both are optimisations:   *)
(* the caches must behave like the plain maps of CoinsMap.                 *)
(***************************************************************************)
EXTENDS Integers

CONSTANTS OutPoints, Coins, NoCoin, Hashes, NullHash

ASSUME CoinAssumption == NoCoin \notin Coins
ASSUME HashAssumption == NullHash \notin Hashes

VARIABLES
    db,    \* chainstate: the unspent coins and the best block
    tip,   \* pcoinsTip
    view   \* the view of ConnectTip or DisconnectTip

vars == <<db, tip, view>>

EmptyCache == [present |-> {}, coin |-> [o \in OutPoints |-> NoCoin],
               dirty |-> {}, fresh |-> {}, hashBlock |-> NullHash]

\* What a cache on the coins of base shows.
Content(cache, base) ==
    [o \in OutPoints |-> IF o \in cache.present THEN cache.coin[o] ELSE base[o]]

tipCoins == Content(tip, db.coins)
viewCoins == Content(view, tipCoins)

BestBlock(cache, best) == IF cache.hashBlock = NullHash THEN best ELSE cache.hashBlock
tipBest == BestBlock(tip, db.best)
viewBest == BestBlock(view, tipBest)

(***************************************************************************)
(* Operations on one cache                                                 *)
(***************************************************************************)
\* The base only returns coins that are not spent.
FetchCoin(cache, base, o) ==
    IF o \in cache.present \/ base[o] = NoCoin THEN cache
    ELSE [cache EXCEPT !.present = @ \cup {o}, !.coin[o] = base[o]]

\* Mutant: DIRTY is not consulted before FRESH is set.
AddCoinAlwaysFresh(cache, o, coin, overwrite) ==
    [cache EXCEPT !.present = @ \cup {o},
                  !.coin[o] = coin,
                  !.dirty   = @ \cup {o},
                  !.fresh   = IF overwrite THEN @ ELSE @ \cup {o}]

AddCoin(cache, o, coin, overwrite) ==
    [cache EXCEPT !.present = @ \cup {o},
                  !.coin[o] = coin,
                  !.dirty   = @ \cup {o},
                  !.fresh   = IF ~overwrite /\ o \notin cache.dirty THEN @ \cup {o} ELSE @]

SpendCoin(cache, o) ==
    IF o \notin cache.present THEN cache
    ELSE IF o \in cache.fresh
    THEN [cache EXCEPT !.present = @ \ {o}, !.coin[o] = NoCoin,
                       !.dirty = @ \ {o}, !.fresh = @ \ {o}]
    ELSE [cache EXCEPT !.coin[o] = NoCoin, !.dirty = @ \cup {o}]

\* Mutant: the flags are not tested.
UncacheAny(cache, o) ==
    [cache EXCEPT !.present = @ \ {o}, !.coin[o] = NoCoin, !.dirty = @ \ {o}, !.fresh = @ \ {o}]

Uncache(cache, o) ==
    IF o \in cache.present \ (cache.dirty \cup cache.fresh)
    THEN [cache EXCEPT !.present = @ \ {o}, !.coin[o] = NoCoin]
    ELSE cache

\* BatchWrite throws logic_error("FRESH flag misapplied to cache entry ...").
FreshMisapplied(cache, child) ==
    \E o \in child.dirty \cap child.fresh :
        o \in cache.present /\ cache.coin[o] # NoCoin

\* Mutant: FRESH is copied to an entry that was there before.
BatchWriteCopiesFresh(cache, child) ==
    LET spent   == {o \in child.dirty : child.coin[o] = NoCoin}
        ignored == (spent \cap child.fresh) \ cache.present
        erased  == spent \cap cache.fresh \cap cache.present
        written == child.dirty \ (ignored \cup erased)
    IN  [present   |-> (cache.present \ erased) \cup written,
         coin      |-> [o \in OutPoints |-> IF o \in written \cup erased
                                            THEN child.coin[o] ELSE cache.coin[o]],
         dirty     |-> (cache.dirty \ erased) \cup written,
         fresh     |-> (cache.fresh \ erased) \cup (written \cap child.fresh),
         hashBlock |-> child.hashBlock]

BatchWrite(cache, child) ==
    LET spent   == {o \in child.dirty : child.coin[o] = NoCoin}
        ignored == (spent \cap child.fresh) \ cache.present
        erased  == spent \cap cache.fresh \cap cache.present
        written == child.dirty \ (ignored \cup erased)
    IN  [present   |-> (cache.present \ erased) \cup written,
         coin      |-> [o \in OutPoints |-> IF o \in written \cup erased
                                            THEN child.coin[o] ELSE cache.coin[o]],
         dirty     |-> (cache.dirty \ erased) \cup written,
         fresh     |-> (cache.fresh \ erased)
                         \cup {o \in written \ cache.present : o \in child.fresh},
         hashBlock |-> child.hashBlock]

(***************************************************************************)
(* The stack of views                                                      *)
(***************************************************************************)
Init ==
    /\ \E h \in Hashes : db = [coins |-> [o \in OutPoints |-> NoCoin], best |-> h]
    /\ tip = EmptyCache
    /\ view = EmptyCache

\* GetCoin, HaveCoin and AccessCoin of pcoinsTip and of the view.
FetchTip(o) == tip' = FetchCoin(tip, db.coins, o) /\ UNCHANGED <<db, view>>

\* A fetch of the view goes through pcoinsTip when the view has no entry.
FetchedTip(o) == IF o \in view.present THEN tip ELSE FetchCoin(tip, db.coins, o)

FetchView(o) ==
    /\ tip' = FetchedTip(o)
    /\ view' = FetchCoin(view, tipCoins, o)
    /\ UNCHANGED db

\* ApplyTxInUndo asks HaveCoin before it passes possible_overwrite = FALSE;
\* AddCoins passes it for every output but a coinbase's, whose transaction id
\* is new to the chain.
AddToView(o, coin, overwrite) ==
    /\ overwrite \/ viewCoins[o] = NoCoin
    /\ view' = AddCoin(view, o, coin, overwrite)
    /\ UNCHANGED <<db, tip>>

SpendFromView(o) ==
    /\ tip' = FetchedTip(o)
    /\ view' = SpendCoin(FetchCoin(view, tipCoins, o), o)
    /\ UNCHANGED db

SetBestBlock(h) == view' = [view EXCEPT !.hashBlock = h] /\ UNCHANGED <<db, tip>>

\* GetBestBlock remembers the hash of the base in both caches.
GetBestBlock ==
    /\ tip' = IF view.hashBlock = NullHash THEN [tip EXCEPT !.hashBlock = tipBest] ELSE tip
    /\ view' = [view EXCEPT !.hashBlock = viewBest]
    /\ UNCHANGED db

\* ConnectBlock and DisconnectBlock leave the hash of a block in the view.
FlushView ==
    /\ view.hashBlock # NullHash
    /\ ~FreshMisapplied(tip, view)
    /\ tip' = BatchWrite(tip, view)
    /\ view' = [EmptyCache EXCEPT !.hashBlock = view.hashBlock]
    /\ UNCHANGED db

\* The view is dropped, flushed or not, and the next one is constructed.
NewView == view' = EmptyCache /\ UNCHANGED <<db, tip>>

UncacheTip(o) == tip' = Uncache(tip, o) /\ UNCHANGED <<db, view>>

\* Mutant: the hash is written without the assertion.
FlushTipAnyHash ==
    /\ db' = [coins |-> [o \in OutPoints |->
                            IF o \in tip.dirty THEN tip.coin[o] ELSE db.coins[o]],
              best  |-> tip.hashBlock]
    /\ tip' = [EmptyCache EXCEPT !.hashBlock = tip.hashBlock]
    /\ UNCHANGED view

\* MCCoinsViewDB::BatchWrite asserts that the hash is not null.
FlushTip ==
    /\ tip.hashBlock # NullHash
    /\ db' = [coins |-> [o \in OutPoints |->
                            IF o \in tip.dirty THEN tip.coin[o] ELSE db.coins[o]],
              best  |-> tip.hashBlock]
    /\ tip' = [EmptyCache EXCEPT !.hashBlock = tip.hashBlock]
    /\ UNCHANGED view

Next ==
    \/ \E o \in OutPoints :
         \/ FetchTip(o) \/ FetchView(o) \/ SpendFromView(o) \/ UncacheTip(o)
         \/ \E coin \in Coins, overwrite \in BOOLEAN : AddToView(o, coin, overwrite)
    \/ \E h \in Hashes : SetBestBlock(h)
    \/ GetBestBlock \/ FlushView \/ NewView \/ FlushTip

Spec == Init /\ [][Next]_vars

(***************************************************************************)
(* Properties                                                              *)
(***************************************************************************)
Maps == [OutPoints -> Coins \cup {NoCoin}]
Caches == [present : SUBSET OutPoints, coin : Maps, dirty : SUBSET OutPoints,
           fresh : SUBSET OutPoints, hashBlock : Hashes \cup {NullHash}]

\* The views keep the shape coins.h declares.
TypeOK ==
    /\ db \in [coins : Maps, best : Hashes]
    /\ tip \in Caches
    /\ view \in Caches

\* The flags mean what coins.h says: an entry that is not DIRTY equals the
\* base's coin, and for a FRESH entry the base has no unspent coin.
FlagsSound(cache, base) ==
    /\ cache.fresh \subseteq cache.dirty /\ cache.dirty \subseteq cache.present
    /\ \A o \in cache.present \ cache.dirty : cache.coin[o] = base[o]
    /\ \A o \in cache.fresh : base[o] = NoCoin

\* The flags of both caches stay sound through fetches, additions, spends,
\* flushes of either cache and Uncache.
FlagsInv == FlagsSound(tip, db.coins) /\ FlagsSound(view, tipCoins)

\* Flush never throws "FRESH flag misapplied".
NeverMisapplied == ~FreshMisapplied(tip, view)

\* The caches behave like the plain maps of CoinsMap.
Map == INSTANCE CoinsMap WITH dbCoins <- db.coins, dbBest <- db.best

\* Every step of the caches is a step of the maps: no coin is lost, revived or
\* kept by an optimisation.
CachesAreMaps == Map!Spec
=============================================================================
