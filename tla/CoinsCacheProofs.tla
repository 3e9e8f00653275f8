-------------------------- MODULE CoinsCacheProofs --------------------------
(***************************************************************************)
(* The flags of the coin caches are sound, Flush never throws, and the     *)
(* stack of caches implements the maps of CoinsMap.                        *)
(***************************************************************************)
EXTENDS CoinsCache, TLAPS

(***************************************************************************)
(* One cache on its base                                                   *)
(***************************************************************************)
\* FetchCoin changes nothing that can be seen.
LEMMA FetchSound ==
    ASSUME NEW cache \in Caches, NEW base \in Maps, NEW o \in OutPoints,
           FlagsSound(cache, base)
    PROVE  /\ FetchCoin(cache, base, o) \in Caches
           /\ FlagsSound(FetchCoin(cache, base, o), base)
           /\ Content(FetchCoin(cache, base, o), base) = Content(cache, base)
           /\ FetchCoin(cache, base, o).hashBlock = cache.hashBlock
<1> DEFINE new == FetchCoin(cache, base, o)
<1>1. CASE o \in cache.present \/ base[o] = NoCoin
  BY <1>1 DEF FetchCoin
<1>2. CASE ~(o \in cache.present \/ base[o] = NoCoin)
  <2>1. new \in Caches /\ new.hashBlock = cache.hashBlock
    BY <1>2 DEF FetchCoin, Caches, Maps
  <2>2. FlagsSound(new, base) /\ Content(new, base) = Content(cache, base)
    BY <1>2 DEF FetchCoin, FlagsSound, Content, Caches, Maps
  <2> QED BY <2>1, <2>2
<1> QED BY <1>1, <1>2

\* AddCoin sets the coin of one outpoint, when it is told truly whether the
\* outpoint may have a coin.
LEMMA AddSound ==
    ASSUME NEW cache \in Caches, NEW base \in Maps, NEW o \in OutPoints,
           NEW coin \in Coins, NEW overwrite \in BOOLEAN,
           FlagsSound(cache, base),
           overwrite \/ Content(cache, base)[o] = NoCoin
    PROVE  /\ AddCoin(cache, o, coin, overwrite) \in Caches
           /\ FlagsSound(AddCoin(cache, o, coin, overwrite), base)
           /\ Content(AddCoin(cache, o, coin, overwrite), base)
                = [Content(cache, base) EXCEPT ![o] = coin]
           /\ AddCoin(cache, o, coin, overwrite).hashBlock = cache.hashBlock
BY DEF AddCoin, FlagsSound, Content, Caches, Maps

\* SpendCoin, after the fetch, leaves no coin at the outpoint.
LEMMA SpendSound ==
    ASSUME NEW cache \in Caches, NEW base \in Maps, NEW o \in OutPoints,
           FlagsSound(cache, base),
           o \in cache.present \/ base[o] = NoCoin
    PROVE  /\ SpendCoin(cache, o) \in Caches
           /\ FlagsSound(SpendCoin(cache, o), base)
           /\ Content(SpendCoin(cache, o), base)
                = [Content(cache, base) EXCEPT ![o] = NoCoin]
           /\ SpendCoin(cache, o).hashBlock = cache.hashBlock
<1> DEFINE new == SpendCoin(cache, o)
<1>1. CASE o \notin cache.present
  BY <1>1 DEF SpendCoin, Content, Maps
<1>2. CASE o \in cache.present /\ o \in cache.fresh
  <2>1. new = [present |-> cache.present \ {o}, coin |-> [cache.coin EXCEPT ![o] = NoCoin],
               dirty |-> cache.dirty \ {o}, fresh |-> cache.fresh \ {o},
               hashBlock |-> cache.hashBlock]
    BY <1>2 DEF SpendCoin, Caches
  <2> HIDE DEF new
  <2>2. new \in Caches
    BY <2>1 DEF Caches, Maps
  <2>3. /\ new.present = cache.present \ {o} /\ new.dirty = cache.dirty \ {o}
        /\ new.fresh = cache.fresh \ {o} /\ new.coin[o] = NoCoin
        /\ \A p \in OutPoints \ {o} : new.coin[p] = cache.coin[p]
    BY <2>1 DEF Caches, Maps
  <2>4. FlagsSound(new, base)
    BY <2>3 DEF FlagsSound, Caches
  <2>5. base[o] = NoCoin
    BY <1>2 DEF FlagsSound
  <2>6. Content(new, base) = [Content(cache, base) EXCEPT ![o] = NoCoin]
    BY <2>3, <2>5 DEF Content
  <2> QED BY <2>1, <2>2, <2>4, <2>6 DEF new
<1>3. CASE o \in cache.present /\ o \notin cache.fresh
  <2>1. new = [present |-> cache.present, coin |-> [cache.coin EXCEPT ![o] = NoCoin],
               dirty |-> cache.dirty \cup {o}, fresh |-> cache.fresh,
               hashBlock |-> cache.hashBlock]
    BY <1>3 DEF SpendCoin, Caches
  <2> HIDE DEF new
  <2>2. new \in Caches
    BY <2>1 DEF Caches, Maps
  <2>3. /\ new.present = cache.present /\ new.dirty = cache.dirty \cup {o}
        /\ new.fresh = cache.fresh /\ new.coin[o] = NoCoin
        /\ \A p \in OutPoints \ {o} : new.coin[p] = cache.coin[p]
    BY <2>1 DEF Caches, Maps
  <2>4. FlagsSound(new, base)
    BY <1>3, <2>3 DEF FlagsSound, Caches
  <2>5. Content(new, base) = [Content(cache, base) EXCEPT ![o] = NoCoin]
    BY <1>3, <2>3 DEF Content
  <2> QED BY <2>1, <2>2, <2>4, <2>5 DEF new
<1> QED BY <1>1, <1>2, <1>3

\* Uncache changes nothing that can be seen.
LEMMA UncacheSound ==
    ASSUME NEW cache \in Caches, NEW base \in Maps, NEW o \in OutPoints,
           FlagsSound(cache, base)
    PROVE  /\ Uncache(cache, o) \in Caches
           /\ FlagsSound(Uncache(cache, o), base)
           /\ Content(Uncache(cache, o), base) = Content(cache, base)
           /\ Uncache(cache, o).hashBlock = cache.hashBlock
BY DEF Uncache, FlagsSound, Content, Caches, Maps

\* BatchWrite makes a cache show what its child shows.
LEMMA BatchWriteSound ==
    ASSUME NEW cache \in Caches, NEW base \in Maps, NEW child \in Caches,
           FlagsSound(cache, base), FlagsSound(child, Content(cache, base))
    PROVE  /\ BatchWrite(cache, child) \in Caches
           /\ FlagsSound(BatchWrite(cache, child), base)
           /\ Content(BatchWrite(cache, child), base)
                = Content(child, Content(cache, base))
           /\ BatchWrite(cache, child).hashBlock = child.hashBlock
<1> DEFINE new == BatchWrite(cache, child)
<1>1. new \in Caches /\ new.hashBlock = child.hashBlock
  BY DEF BatchWrite, Caches, Maps
<1>2. FlagsSound(new, base)
  BY DEF BatchWrite, FlagsSound, Content, Caches, Maps
<1>3. \A o \in OutPoints :
         Content(new, base)[o] = Content(child, Content(cache, base))[o]
  BY DEF BatchWrite, FlagsSound, Content, Caches, Maps
<1>4. Content(new, base) = Content(child, Content(cache, base))
  BY <1>3 DEF Content
<1> QED BY <1>1, <1>2, <1>4

\* A new cache shows its base.
LEMMA EmptySound ==
    ASSUME NEW base \in Maps, NEW h \in Hashes \cup {NullHash}
    PROVE  LET cache == [EmptyCache EXCEPT !.hashBlock = h]
           IN  /\ cache \in Caches
               /\ FlagsSound(cache, base)
               /\ Content(cache, base) = base
               /\ cache.hashBlock = h
BY DEF EmptyCache, FlagsSound, Content, Caches, Maps

\* The same of the constructor's cache, which knows no hash.
LEMMA NewSound ==
    ASSUME NEW base \in Maps
    PROVE  /\ EmptyCache \in Caches
           /\ FlagsSound(EmptyCache, base)
           /\ Content(EmptyCache, base) = base
           /\ EmptyCache.hashBlock = NullHash
BY DEF EmptyCache, FlagsSound, Content, Caches, Maps

\* A cache of coins on coins shows coins.
LEMMA ContentType ==
    ASSUME NEW cache \in Caches, NEW base \in Maps
    PROVE  Content(cache, base) \in Maps
BY DEF Content, Caches, Maps

(***************************************************************************)
(* The stack                                                               *)
(***************************************************************************)
Inv == TypeOK /\ FlagsInv

\* What the steps need of the invariant, on the maps the caches show.
LEMMA Shown ==
    ASSUME Inv
    PROVE  /\ db.coins \in Maps /\ db.best \in Hashes
           /\ tip \in Caches /\ view \in Caches
           /\ tipCoins \in Maps /\ viewCoins \in Maps
           /\ tipBest \in Hashes /\ viewBest \in Hashes
           /\ FlagsSound(tip, db.coins) /\ FlagsSound(view, tipCoins)
<1>1. /\ db.coins \in Maps /\ db.best \in Hashes
      /\ tip \in Caches /\ view \in Caches
      /\ FlagsSound(tip, db.coins) /\ FlagsSound(view, tipCoins)
  BY DEF Inv, TypeOK, FlagsInv
<1>2. tipCoins \in Maps
  BY <1>1, ContentType DEF tipCoins
<1>3. viewCoins \in Maps
  BY <1>1, <1>2, ContentType DEF viewCoins
<1>4. tip.hashBlock \in Hashes \cup {NullHash} /\ view.hashBlock \in Hashes \cup {NullHash}
  BY <1>1 DEF Caches
<1>5. tipBest \in Hashes /\ viewBest \in Hashes
  BY <1>1, <1>4 DEF tipBest, viewBest, BestBlock
<1> QED BY <1>1, <1>2, <1>3, <1>5

\* Initially the caches are empty.
LEMMA InitInv == Init => Inv /\ Map!Init
<1> SUFFICES ASSUME Init PROVE Inv /\ Map!Init
  OBVIOUS
<1> DEFINE none == [o \in OutPoints |-> NoCoin]
<1>1. none \in Maps /\ db.coins = none /\ db \in [coins : Maps, best : Hashes]
  BY DEF Init, Maps
<1>3. /\ EmptyCache \in Caches /\ FlagsSound(EmptyCache, none)
      /\ Content(EmptyCache, none) = none /\ EmptyCache.hashBlock = NullHash
  BY <1>1, NewSound
<1>4. tipCoins = none /\ viewCoins = none /\ tipBest = db.best /\ viewBest = db.best
  BY <1>1, <1>3 DEF Init, tipCoins, viewCoins, tipBest, viewBest, BestBlock
<1>5. Inv
  BY <1>1, <1>3, <1>4 DEF Init, Inv, TypeOK, FlagsInv
<1>6. Map!Init
  BY <1>1, <1>4 DEF Init, Map!Init
<1> QED BY <1>5, <1>6

\* A step that leaves the maps alone is a stutter of CoinsMap.
LEMMA Unseen ==
    ASSUME UNCHANGED db, tipCoins' = tipCoins, viewCoins' = viewCoins,
           tipBest' = tipBest, viewBest' = viewBest
    PROVE  UNCHANGED Map!vars
BY DEF Map!vars, Map!dbVars, Map!tipVars

\* A fetch through pcoinsTip changes nothing that can be seen of it.
LEMMA FetchedTipSound ==
    ASSUME Inv, NEW o \in OutPoints
    PROVE  /\ FetchedTip(o) \in Caches
           /\ FlagsSound(FetchedTip(o), db.coins)
           /\ Content(FetchedTip(o), db.coins) = tipCoins
           /\ FetchedTip(o).hashBlock = tip.hashBlock
BY Shown, FetchSound DEF FetchedTip, tipCoins

\* A read of pcoinsTip keeps the invariant and is a stutter.
LEMMA FetchTipStep ==
    ASSUME Inv, NEW o \in OutPoints, FetchTip(o)
    PROVE  Inv' /\ UNCHANGED Map!vars
<1>1. /\ tip' \in Caches /\ FlagsSound(tip', db.coins)
      /\ Content(tip', db.coins) = tipCoins /\ tip'.hashBlock = tip.hashBlock
  BY Shown, FetchSound DEF FetchTip, tipCoins
<1>2. /\ tipCoins' = tipCoins /\ viewCoins' = viewCoins
      /\ tipBest' = tipBest /\ viewBest' = viewBest
  BY <1>1 DEF FetchTip, tipCoins, viewCoins, tipBest, viewBest, BestBlock
<1> QED BY <1>1, <1>2, Shown, Unseen DEF FetchTip, Inv, TypeOK, FlagsInv

\* An eviction from pcoinsTip is a stutter.
LEMMA UncacheTipStep ==
    ASSUME Inv, NEW o \in OutPoints, UncacheTip(o)
    PROVE  Inv' /\ UNCHANGED Map!vars
<1>1. /\ tip' \in Caches /\ FlagsSound(tip', db.coins)
      /\ Content(tip', db.coins) = tipCoins /\ tip'.hashBlock = tip.hashBlock
  BY Shown, UncacheSound DEF UncacheTip, tipCoins
<1>2. /\ tipCoins' = tipCoins /\ viewCoins' = viewCoins
      /\ tipBest' = tipBest /\ viewBest' = viewBest
  BY <1>1 DEF UncacheTip, tipCoins, viewCoins, tipBest, viewBest, BestBlock
<1> QED BY <1>1, <1>2, Shown, Unseen DEF UncacheTip, Inv, TypeOK, FlagsInv

\* A read of the view, which may load pcoinsTip too, is a stutter.
LEMMA FetchViewStep ==
    ASSUME Inv, NEW o \in OutPoints, FetchView(o)
    PROVE  Inv' /\ UNCHANGED Map!vars
<1>1. /\ tip' \in Caches /\ FlagsSound(tip', db.coins)
      /\ Content(tip', db.coins) = tipCoins /\ tip'.hashBlock = tip.hashBlock
  BY FetchedTipSound DEF FetchView
<1>2. /\ view' \in Caches /\ FlagsSound(view', tipCoins)
      /\ Content(view', tipCoins) = viewCoins /\ view'.hashBlock = view.hashBlock
  BY Shown, FetchSound DEF FetchView, viewCoins
<1>3. /\ tipCoins' = tipCoins /\ viewCoins' = viewCoins
      /\ tipBest' = tipBest /\ viewBest' = viewBest
  BY <1>1, <1>2 DEF FetchView, tipCoins, viewCoins, tipBest, viewBest, BestBlock
<1> QED BY <1>1, <1>2, <1>3, Shown, Unseen DEF FetchView, Inv, TypeOK, FlagsInv

\* GetBestBlock keeps the hashes that are seen.
LEMMA GetBestBlockStep ==
    ASSUME Inv, GetBestBlock
    PROVE  Inv' /\ UNCHANGED Map!vars
<1>1. /\ tip' \in Caches /\ FlagsSound(tip', db.coins)
      /\ Content(tip', db.coins) = tipCoins
      /\ tip'.hashBlock \in {tip.hashBlock, tipBest}
  BY Shown DEF GetBestBlock, Caches, FlagsSound, Content, tipCoins
<1>2. /\ view' \in Caches /\ FlagsSound(view', tipCoins)
      /\ Content(view', tipCoins) = viewCoins /\ view'.hashBlock = viewBest
  BY Shown DEF GetBestBlock, Caches, FlagsSound, Content, viewCoins
<1>3. tipCoins' = tipCoins /\ viewCoins' = viewCoins
  BY <1>1, <1>2 DEF GetBestBlock, tipCoins, viewCoins
<1>4. tipBest' = tipBest /\ viewBest' = viewBest
  BY <1>1, <1>2, Shown, HashAssumption DEF GetBestBlock, tipBest, viewBest, BestBlock
<1> QED BY <1>1, <1>2, <1>3, <1>4, Shown, Unseen DEF GetBestBlock, Inv, TypeOK, FlagsInv

\* An addition to the view is one to its map.
LEMMA AddStep ==
    ASSUME Inv, NEW o \in OutPoints, NEW coin \in Coins, NEW overwrite \in BOOLEAN,
           AddToView(o, coin, overwrite)
    PROVE  Inv' /\ Map!AddCoin(o, coin)
<1>1. /\ view' \in Caches /\ FlagsSound(view', tipCoins)
      /\ Content(view', tipCoins) = [viewCoins EXCEPT ![o] = coin]
      /\ view'.hashBlock = view.hashBlock
  BY Shown, AddSound DEF AddToView, viewCoins
<1>2. /\ tipCoins' = tipCoins /\ viewCoins' = [viewCoins EXCEPT ![o] = coin]
      /\ tipBest' = tipBest /\ viewBest' = viewBest
  BY <1>1 DEF AddToView, tipCoins, viewCoins, tipBest, viewBest, BestBlock
<1> QED BY <1>1, <1>2, Shown
        DEF AddToView, Inv, TypeOK, FlagsInv, Map!AddCoin, Map!dbVars, Map!tipVars

\* A spend from the view is one from its map.
LEMMA SpendStep ==
    ASSUME Inv, NEW o \in OutPoints, SpendFromView(o)
    PROVE  Inv' /\ Map!SpendCoin(o)
<1> DEFINE got == FetchCoin(view, tipCoins, o)
<1>1. /\ tip' \in Caches /\ FlagsSound(tip', db.coins)
      /\ Content(tip', db.coins) = tipCoins /\ tip'.hashBlock = tip.hashBlock
  BY FetchedTipSound DEF SpendFromView
<1>2. /\ got \in Caches /\ FlagsSound(got, tipCoins)
      /\ Content(got, tipCoins) = viewCoins /\ got.hashBlock = view.hashBlock
  BY Shown, FetchSound DEF viewCoins
<1>3. o \in got.present \/ tipCoins[o] = NoCoin
  BY Shown DEF FetchCoin, Caches
<1> HIDE DEF got
<1>4. /\ SpendCoin(got, o) \in Caches /\ FlagsSound(SpendCoin(got, o), tipCoins)
      /\ Content(SpendCoin(got, o), tipCoins) = [viewCoins EXCEPT ![o] = NoCoin]
      /\ SpendCoin(got, o).hashBlock = view.hashBlock
  BY <1>2, <1>3, Shown, SpendSound
<1>5. view' = SpendCoin(got, o) /\ UNCHANGED db
  BY DEF SpendFromView, got
<1>6. /\ tipCoins' = tipCoins /\ viewCoins' = [viewCoins EXCEPT ![o] = NoCoin]
      /\ tipBest' = tipBest /\ viewBest' = viewBest
  BY <1>1, <1>4, <1>5 DEF tipCoins, viewCoins, tipBest, viewBest, BestBlock
<1> QED BY <1>1, <1>4, <1>5, <1>6, Shown
        DEF Inv, TypeOK, FlagsInv, Map!SpendCoin, Map!dbVars, Map!tipVars

\* SetBestBlock names the block of the view.
LEMMA SetBestBlockStep ==
    ASSUME Inv, NEW h \in Hashes, SetBestBlock(h)
    PROVE  Inv' /\ Map!SetBestBlock(h)
<1>1. /\ view' \in Caches /\ FlagsSound(view', tipCoins)
      /\ Content(view', tipCoins) = viewCoins /\ view'.hashBlock = h
  BY Shown DEF SetBestBlock, Caches, FlagsSound, Content, viewCoins
<1>2. /\ tipCoins' = tipCoins /\ viewCoins' = viewCoins
      /\ tipBest' = tipBest /\ viewBest' = h
  BY <1>1, HashAssumption DEF SetBestBlock, tipCoins, viewCoins, tipBest, viewBest, BestBlock
<1> QED BY <1>1, <1>2, Shown
        DEF SetBestBlock, Inv, TypeOK, FlagsInv, Map!SetBestBlock, Map!dbVars, Map!tipVars

\* A flush of the view gives pcoinsTip the view's map.
LEMMA FlushViewStep ==
    ASSUME Inv, FlushView
    PROVE  Inv' /\ Map!FlushView
<1>1. /\ tip' \in Caches /\ FlagsSound(tip', db.coins)
      /\ Content(tip', db.coins) = viewCoins /\ tip'.hashBlock = view.hashBlock
  BY Shown, BatchWriteSound DEF FlushView, tipCoins, viewCoins
<1>2. UNCHANGED db /\ tipCoins' = viewCoins
  BY <1>1 DEF FlushView, tipCoins
<1>3. /\ view' \in Caches /\ FlagsSound(view', viewCoins)
      /\ Content(view', viewCoins) = viewCoins /\ view'.hashBlock = view.hashBlock
  <2>1. view.hashBlock \in Hashes \cup {NullHash}
    BY Shown DEF Caches
  <2> QED BY <2>1, Shown, EmptySound DEF FlushView
<1>4. viewCoins' = viewCoins
  BY <1>2, <1>3 DEF viewCoins
<1>5. tipBest' = viewBest /\ viewBest' = viewBest
  BY <1>1, <1>3 DEF FlushView, tipBest, viewBest, BestBlock
<1> QED BY <1>1, <1>2, <1>3, <1>4, <1>5, Shown
        DEF Inv, TypeOK, FlagsInv, Map!FlushView, Map!dbVars

\* A new view shows pcoinsTip.
LEMMA NewViewStep ==
    ASSUME Inv, NewView
    PROVE  Inv' /\ Map!NewView
<1>1. /\ view' \in Caches /\ FlagsSound(view', tipCoins)
      /\ Content(view', tipCoins) = tipCoins /\ view'.hashBlock = NullHash
  BY Shown, NewSound DEF NewView
<1>2. /\ tipCoins' = tipCoins /\ viewCoins' = tipCoins
      /\ tipBest' = tipBest /\ viewBest' = tipBest
  BY <1>1 DEF NewView, tipCoins, viewCoins, tipBest, viewBest, BestBlock
<1> QED BY <1>1, <1>2, Shown
        DEF NewView, Inv, TypeOK, FlagsInv, Map!NewView, Map!dbVars, Map!tipVars

\* A flush of pcoinsTip gives the database its map.
LEMMA FlushTipStep ==
    ASSUME Inv, FlushTip
    PROVE  Inv' /\ Map!FlushTip
<1>1. db'.coins = tipCoins /\ db'.best = tip.hashBlock
  BY Shown DEF FlushTip, FlagsSound, tipCoins, Content, Caches, Maps
<1>2. tip.hashBlock \in Hashes /\ tipBest = tip.hashBlock
  BY Shown DEF FlushTip, Caches, tipBest, BestBlock
<1>3. db' \in [coins : Maps, best : Hashes]
  BY <1>1, <1>2, Shown DEF FlushTip
<1>4. /\ tip' \in Caches /\ FlagsSound(tip', tipCoins)
      /\ Content(tip', tipCoins) = tipCoins /\ tip'.hashBlock = tip.hashBlock
  BY <1>2, Shown, EmptySound DEF FlushTip
<1>5. tipCoins' = tipCoins /\ UNCHANGED view
  BY <1>1, <1>4 DEF tipCoins, FlushTip
<1>6. viewCoins' = viewCoins /\ tipBest' = tipBest /\ viewBest' = viewBest
  BY <1>1, <1>2, <1>4, <1>5 DEF viewCoins, tipBest, viewBest, BestBlock
<1> QED BY <1>1, <1>2, <1>3, <1>4, <1>5, <1>6, Shown
        DEF Inv, TypeOK, FlagsInv, Map!FlushTip, Map!tipVars

\* Every step keeps the invariant and is a step or a stutter of CoinsMap.
LEMMA NextInv == Inv /\ [Next]_vars => Inv' /\ [Map!Next]_(Map!vars)
<1> SUFFICES ASSUME Inv, [Next]_vars PROVE Inv' /\ [Map!Next]_(Map!vars)
  OBVIOUS
<1>1. CASE \E o \in OutPoints : FetchTip(o) \/ FetchView(o) \/ UncacheTip(o)
  BY <1>1, FetchTipStep, FetchViewStep, UncacheTipStep
<1>2. CASE \E o \in OutPoints : SpendFromView(o)
  BY <1>2, SpendStep DEF Map!Next
<1>3. CASE \E o \in OutPoints, coin \in Coins, overwrite \in BOOLEAN :
             AddToView(o, coin, overwrite)
  BY <1>3, AddStep DEF Map!Next
<1>4. CASE \E h \in Hashes : SetBestBlock(h)
  BY <1>4, SetBestBlockStep DEF Map!Next
<1>5. CASE GetBestBlock
  BY <1>5, GetBestBlockStep
<1>6. CASE FlushView \/ NewView \/ FlushTip
  BY <1>6, FlushViewStep, NewViewStep, FlushTipStep DEF Map!Next
<1>7. CASE UNCHANGED vars
  <2>1. tipCoins' = tipCoins /\ tipBest' = tipBest
    BY <1>7 DEF vars, tipCoins, tipBest
  <2>2. viewCoins' = viewCoins /\ viewBest' = viewBest
    BY <1>7, <2>1 DEF vars, viewCoins, viewBest
  <2> QED BY <1>7, <2>1, <2>2, Unseen DEF vars, Inv, TypeOK, FlagsInv
<1> QED BY <1>1, <1>2, <1>3, <1>4, <1>5, <1>6, <1>7 DEF Next

(***************************************************************************)
(* Theorems                                                                *)
(***************************************************************************)
\* In every reachable state the DIRTY and FRESH flags of both caches say the
\* truth about their base.
THEOREM FlagsCorrect == Spec => [](TypeOK /\ FlagsInv)
<1>1. Init => Inv
  BY InitInv
<1>2. Inv /\ [Next]_vars => Inv'
  BY NextInv
<1>3. Inv => TypeOK /\ FlagsInv
  BY DEF Inv
<1> QED BY <1>1, <1>2, <1>3, PTL DEF Spec

\* Both caches, the database and the best blocks keep their declared shape.
THEOREM TypeCorrect == Spec => []TypeOK
  BY FlagsCorrect, PTL

\* BatchWrite never throws "FRESH flag misapplied".
THEOREM FlushNeverThrows == Spec => []NeverMisapplied
<1>1. Init => Inv
  BY InitInv
<1>2. Inv /\ [Next]_vars => Inv'
  BY NextInv
<1>3. Inv => NeverMisapplied
  BY Shown DEF NeverMisapplied, FreshMisapplied, FlagsSound, tipCoins, Content, Caches, Maps
<1> QED BY <1>1, <1>2, <1>3, PTL DEF Spec

\* The caches implement the maps: with any number of outpoints and coins, what
\* a view shows is what plain maps would show.
THEOREM CachesImplementMaps == Spec => CachesAreMaps
<1>1. Init => Inv /\ Map!Init
  BY InitInv
<1>2. Inv /\ [Next]_vars => Inv' /\ [Map!Next]_(Map!vars)
  BY NextInv
<1> QED BY <1>1, <1>2, PTL DEF Spec, CachesAreMaps, Map!Spec
=============================================================================
