-------------------------- MODULE ContractDBProofs --------------------------
(***************************************************************************)
(* For every block tree, every set of contracts and every depth that       *)
(* satisfies the assumptions of ContractDB: type correctness, what a       *)
(* lookup finds, what each action preserves, the inductive invariant and   *)
(* what follows from it.                                                   *)
(***************************************************************************)
EXTENDS ContractDB, NaturalsInduction, WellFoundedInduction, TLAPS

(***************************************************************************)
(* The block tree.  GetAncestor, MCBlockIndex::GetAncestor in the code, is *)
(* used through these three facts only.                                    *)
(***************************************************************************)

\* GetAncestor returns a block of the tree at the height it was asked for.
LEMMA AncestorType ==
    ASSUME NEW b \in Blocks, NEW h \in 0..Height(b)
    PROVE  GetAncestor(b, h) \in Blocks /\ Height(GetAncestor(b, h)) = h
<1>1. b \in Seq(Nat)
  BY TreeAssumption
<1>2. Len(SubSeq(b, 1, h)) = h
  BY <1>1 DEF Height
<1> QED
  BY <1>1, <1>2, TreeAssumption DEF Height, GetAncestor

\* A block is its own ancestor at its own height.
LEMMA AncestorSelf ==
    ASSUME NEW b \in Blocks
    PROVE  Height(b) \in Nat /\ GetAncestor(b, Height(b)) = b
<1>1. b \in Seq(Nat)
  BY TreeAssumption
<1> QED
  BY <1>1 DEF Height, GetAncestor

\* The ancestors of an ancestor are the ancestors of the block.
LEMMA AncestorTrans ==
    ASSUME NEW b \in Blocks, NEW h \in 0..Height(b), NEW k \in 0..h
    PROVE  GetAncestor(GetAncestor(b, h), k) = GetAncestor(b, k)
<1>1. b \in Seq(Nat)
  BY TreeAssumption
<1> QED
  BY <1>1 DEF Height, GetAncestor

\* The walk of every chain ends in the genesis block.
LEMMA AncestorGenesis ==
    ASSUME NEW b \in Blocks
    PROVE  GetAncestor(b, 0) = <<>>
<1>1. b \in Seq(Nat)
  BY TreeAssumption
<1> QED
  BY <1>1 DEF GetAncestor

(***************************************************************************)
(* The maximum of a bounded, nonempty set of heights.                      *)
(***************************************************************************)
\* Max picks the greatest element of a nonempty set of heights up to n.
LEMMA MaxHeight ==
    ASSUME NEW n \in Nat, NEW S, S \subseteq 0..n, S # {}
    PROVE  Max(S) \in S /\ \A y \in S : y <= Max(S)
<1> DEFINE T == {t \in Nat : n - t \in S}
           R == OpToRel(<, Nat)
<1>1. PICK z \in S : TRUE
  BY Zenon
<1>2. n - z \in T
  OBVIOUS
<1>3. PICK m \in T : \A t \in T : ~(<<t, m>> \in R)
  <2>1. T \subseteq Nat /\ T # {}
    BY Zenon, <1>2
  <2>2. IsWellFoundedOn(R, Nat)
    BY Zenon, NatLessThanWellFounded
  <2> HIDE DEF T, R
  <2> QED BY Zenon, <2>1, <2>2, WFMin
<1>4. ASSUME NEW t \in T
      PROVE  m <= t
  <2>1. ~(<<t, m>> \in {ss \in Nat \X Nat : ss[1] < ss[2]})
    BY <1>3, Zenon DEF OpToRel
  <2> QED
    BY <2>1
<1>5. \A y \in S : n - m >= y
  <2> TAKE y \in S
  <2>1. n - y \in T
    OBVIOUS
  <2>2. m <= n - y
    BY <1>4, <2>1, Zenon
  <2> QED
    BY <2>2
<1> QED
  BY Zenon, <1>5 DEF Max

\* An ancestor shares all its own ancestors with the block.
LEMMA AncestorShares ==
    ASSUME NEW a \in Blocks, NEW b \in Blocks, IsAncestor(a, b)
    PROVE  /\ Height(a) \in 0..Height(b)
           /\ \A h \in 0..Height(a) : GetAncestor(a, h) = GetAncestor(b, h)
<1>1. Height(a) \in Nat /\ Height(b) \in Nat
  BY AncestorSelf
<1>2. Height(a) \in 0..Height(b) /\ a = GetAncestor(b, Height(a))
  BY <1>1 DEF IsAncestor
<1> QED
  BY <1>1, <1>2, AncestorTrans

\* The parent of a block that is not the genesis block lies one height below it.
LEMMA ParentType ==
    ASSUME NEW b \in Blocks, Height(b) > 0
    PROVE  /\ Parent(b) \in Blocks
           /\ Height(Parent(b)) = Height(b) - 1
           /\ IsAncestor(Parent(b), b)
<1>1. Height(b) \in Nat
  BY AncestorSelf
<1>2. Height(b) - 1 \in 0..Height(b)
  BY <1>1
<1> QED
  BY <1>1, <1>2, AncestorType DEF Parent, IsAncestor

\* FindFork: the newest block that two chains share.
LEMMA ForkIsShared ==
    ASSUME NEW a \in Blocks, NEW b \in Blocks
    PROVE  /\ Fork(a, b) \in Blocks
           /\ IsAncestor(Fork(a, b), a)
           /\ IsAncestor(Fork(a, b), b)
           /\ \A h \in 0..Height(a) :
                h <= Height(b) /\ GetAncestor(a, h) = GetAncestor(b, h)
                  => h <= Height(Fork(a, b))
<1> DEFINE S == {h \in 0..Height(a) : h <= Height(b)
                                      /\ GetAncestor(a, h) = GetAncestor(b, h)}
<1>1. Height(a) \in Nat /\ Height(b) \in Nat
  BY AncestorSelf
<1>2. 0 \in S
  BY <1>1, AncestorGenesis
<1>3. Max(S) \in S /\ \A y \in S : y <= Max(S)
  <2>1. S \subseteq 0..Height(a) /\ S # {}
    BY <1>2
  <2> HIDE DEF S
  <2> QED BY Zenon, <1>1, <2>1, MaxHeight
<1>4. Fork(a, b) = GetAncestor(a, Max(S))
  BY DEF Fork
<1>5. Fork(a, b) \in Blocks /\ Height(Fork(a, b)) = Max(S)
  BY <1>3, <1>4, AncestorType
<1> QED
  BY <1>1, <1>3, <1>4, <1>5 DEF IsAncestor

(***************************************************************************)
(* Type correctness.                                                       *)
(***************************************************************************)
\* Loading a context and looking a contract up yields a context.
LEMMA GetType ==
    ASSUME TypeOK, NEW c \in Contracts, NEW prev \in Blocks
    PROVE  AfterGet(c, prev) \in Contexts
<1>1. Context(c) \in Contexts
  BY Zenon DEF TypeOK, Context, DbContext, NoContext, Contexts, Records
<1>2. \A h : HashesAt(c, Context(c), h) \subseteq Blocks
  BY <1>1 DEF TypeOK, HashesAt, At, Contexts, Records
<1>3. \A r : {b \in db[c].data : r >= 0 /\ b = GetAncestor(prev, r)} \subseteq Blocks
  BY DEF TypeOK, Records
<1> QED
  BY ZenonT(40), <1>1, <1>2, <1>3 DEF AfterGet, Contexts

\* What UpdateBlockContractToDisk computes from a context is well formed.
LEMMA UpdateType ==
    ASSUME TypeOK, NEW c \in Contracts, NEW b \in Blocks
    PROVE  /\ AfterUpdate(c, b) \in Contexts
           /\ RemovalOf(c, b) \in Removals
           /\ DbAfterUpdate(c, b) \in Records
<1> DEFINE ctx == contractData[c]
<1>1. ctx \in Contexts /\ db[c] \in Records
  BY DEF TypeOK
<1>2. Gone(ctx, b) \subseteq Heights
  BY <1>1 DEF Gone, Contexts
<1>3. Known(c, ctx, b) \subseteq Blocks
  BY <1>1 DEF Known, HashesAt, At, Contexts, Records
<1>4. Stale(c, ctx, b) \subseteq Blocks
  BY <1>3 DEF Stale
<1>5. AfterUpdate(c, b) \in Contexts
  BY Zenon, <1>1, <1>2, <1>3 DEF AfterUpdate, Contexts
<1>6. RemovalOf(c, b) \in Removals
  BY <1>2, <1>3, <1>4 DEF RemovalOf, Removals
<1>7. DbAfterUpdate(c, b) \in Records
  BY Zenon, <1>1, <1>3 DEF DbAfterUpdate, Contexts, Records
<1> QED
  BY <1>5, <1>6, <1>7

\* The initial state is well typed.
LEMMA InitTypeOK == Init => TypeOK
<1>1. <<>> \in Blocks
  BY TreeAssumption
<1>2. 0 \in Heights
  BY <1>1, AncestorGenesis, AncestorType, AncestorSelf DEF Heights
<1>3. NoContext \in Contexts
  BY DEF NoContext, Contexts
<1> QED
  BY <1>1, <1>2, <1>3 DEF Init, TypeOK, NoRemoval, Removals, Records

\* Every action keeps the variables well typed.
LEMMA NextTypeOK == TypeOK /\ [Next]_vars => TypeOK'
<1> SUFFICES ASSUME TypeOK, [Next]_vars
             PROVE  TypeOK'
  OBVIOUS
<1>0. NoContext \in Contexts
  BY DEF NoContext, Contexts
<1>1. ASSUME NEW b \in Blocks, RejectBlock(b)
      PROVE  TypeOK'
  BY <1>1, GetType DEF RejectBlock, GetAll, TypeOK, ghostVars
<1>2. ASSUME NEW b \in Blocks, WriteBlockContractContextToDisk(b)
      PROVE  TypeOK'
  <2>1. \A c \in Contracts : InsertWrite(AfterGet(c, tip), b) \in Contexts
    <3> TAKE c \in Contracts
    <3>1. AfterGet(c, tip) \in Contexts
      BY GetType DEF TypeOK
    <3>2. Height(b) \in Heights
      BY DEF Heights
    <3> QED
      BY <3>1, <3>2 DEF InsertWrite, Contexts
  <2>2. contractData' \in [Contracts -> Contexts]
    BY <1>2, <2>1 DEF WriteBlockContractContextToDisk, TypeOK
  <2>3. db' \in [Contracts -> Records]
    <3>1. ASSUME NEW c \in Contracts
          PROVE  [db[c] EXCEPT !.data = @ \cup {b}] \in Records
      BY DEF TypeOK, Records
    <3> QED
      BY <1>2, <3>1 DEF WriteBlockContractContextToDisk, TypeOK
  <2> QED
    BY <1>2, <2>2, <2>3 DEF WriteBlockContractContextToDisk, TypeOK, ghostVars
<1>3. ASSUME NEW c \in Contracts, ReadAtTip(c)
      PROVE  TypeOK'
  BY <1>3, GetType DEF ReadAtTip, GetAll, TypeOK, ghostVars, chainVars
<1>4. CASE UpdateBlockContractToDisk
  <2>1. peak' \in Heights
    BY <1>4 DEF UpdateBlockContractToDisk, TypeOK, Heights
  <2>2. trusted' \in Blocks
    BY <1>4 DEF UpdateBlockContractToDisk, TypeOK
  <2>3. contractData' \in [Contracts -> Contexts]
    BY <1>4, UpdateType DEF UpdateBlockContractToDisk, TypeOK
  <2>4. db' \in [Contracts -> Records]
    BY <1>4, UpdateType DEF UpdateBlockContractToDisk, TypeOK
  <2>5. removeBatch' \in [Contracts -> Removals]
    BY <1>4, UpdateType DEF UpdateBlockContractToDisk, TypeOK, NoRemoval, Removals
  <2> QED
    BY <1>4, <2>1, <2>2, <2>3, <2>4, <2>5
    DEF UpdateBlockContractToDisk, TypeOK, chainVars
<1>5. CASE DisconnectTip
  BY <1>5, ParentType DEF DisconnectTip, TypeOK, cacheVars
<1>6. CASE PeriodicFlush
  BY <1>6 DEF PeriodicFlush, TypeOK, cacheVars, chainVars, ghostVars
<1>7. CASE FlushIndex
  BY <1>7 DEF FlushIndex, TypeOK, cacheVars, chainVars, ghostVars
<1>8. CASE FlushCoins
  BY Zenon, <1>8 DEF FlushCoins, TypeOK, cacheVars, chainVars, ghostVars
<1>9. CASE PruneContractContext
  <2>1. ASSUME NEW c \in Contracts
        PROVE  [db[c] EXCEPT !.data   = @ \ removeBatch[c].data,
                             !.hashes = {x \in @ : Height(x) \notin removeBatch[c].heights}]
                 \in Records
    BY ZenonT(40) DEF TypeOK, Records
  <2>2. db' \in [Contracts -> Records]
    BY Zenon, <1>9, <2>1 DEF PruneContractContext
  <2> QED
    BY ZenonT(40), <1>0, <1>9, <2>2
    DEF PruneContractContext, TypeOK, NoRemoval, Removals, chainVars, ghostVars
<1>10. CASE Restart
  BY <1>0, <1>10, ForkIsShared DEF Restart, TypeOK, NoRemoval, Removals
<1>11. CASE UNCHANGED vars
  BY <1>11 DEF vars, TypeOK
<1> QED
  BY <1>1, <1>2, <1>3, <1>4, <1>5, <1>6, <1>7, <1>8, <1>9, <1>10, <1>11 DEF Next

\* The cache, the database and the chain state keep their declared shape.
THEOREM TypeCorrect == Spec => []TypeOK
<1> QED
  BY InitTypeOK, NextTypeOK, PTL DEF Spec

(***************************************************************************)
(* Reading.  The cache shows what the lists on disk say, and these lists   *)
(* say enough about every block that is not too far behind the peak.       *)
(***************************************************************************)
\* The heights of the tree are natural numbers.
LEMMA HeightsNat == Heights \subseteq Nat
  BY AncestorSelf DEF Heights

\* The removal depth reaches back further than any rewind.
LEMMA RewindBound ==
    ASSUME NEW p \in Nat, NEW f \in Nat, p <= f + MaxRewind
    PROVE  RemoveBlockHeight(p) - 1 <= f /\ RemoveBlockHeight(p) \in Int
  BY DepthAssumption, RewindAssumption DEF RemoveBlockHeight, ConfirmBlockHeight

\* What the database owes the trusted block it also owes its ancestors, down
\* to the removal height.
LEMMA CompleteBelow ==
    ASSUME TypeOK, NEW c \in Contracts, Complete(c),
           NEW a \in Blocks, IsAncestor(a, trusted),
           RemoveBlockHeight(peak) - 1 <= Height(a),
           RemoveBlockHeight(peak) \in Int,
           NEW h \in 0..Height(a), c \in writes[GetAncestor(a, h)]
    PROVE  \E k \in Recorded(c, a) : k = h \/ (h < k /\ k < RemoveBlockHeight(peak))
<1>1. trusted \in Blocks /\ Height(a) \in Nat /\ Height(trusted) \in Nat
  BY AncestorSelf DEF TypeOK
<1>2. Height(a) \in 0..Height(trusted)
      /\ \A i \in 0..Height(a) : GetAncestor(a, i) = GetAncestor(trusted, i)
  BY <1>1, AncestorShares
<1>3. PICK k \in Recorded(c, trusted) : k = h \/ (h < k /\ k < RemoveBlockHeight(peak))
  BY <1>1, <1>2 DEF Complete
<1>4. k \in db[c].items /\ k \in Nat
  BY <1>3, HeightsNat DEF Recorded, TypeOK, Records
<1>5. k <= Height(a)
  BY <1>1, <1>3, <1>4
<1>6. k \in Recorded(c, a)
  BY <1>1, <1>2, <1>3, <1>4, <1>5 DEF Recorded
<1> QED
  BY <1>3, <1>6

\* The lists on disk are looked up by height and hash.
LEMMA MatchesOnDisk ==
    ASSUME TypeOK, NEW c \in Contracts, NEW a \in Blocks
    PROVE  Matches(c, DbContext(c), a) = Recorded(c, a)
<1>1. Height(a) \in Nat /\ db[c].items \subseteq Nat
  BY Zenon, AncestorSelf, HeightsNat DEF TypeOK, Records
<1>2. DbContext(c).items = db[c].items /\ DbContext(c).hashes = {}
  BY DEF DbContext, NoContext
<1>3. \A h : HashesAt(c, DbContext(c), h) = At(db[c].hashes, h)
  BY <1>2 DEF HashesAt, At
<1>4. \A h \in db[c].items : h <= Height(a) => Height(GetAncestor(a, h)) = h
  BY <1>1, AncestorType
<1> QED
  BY <1>2, <1>3, <1>4 DEF Matches, Recorded, At

\* A lookup on disk finds the newest write on the chain of a, with its data.
LEMMA DiskLookup ==
    ASSUME TypeOK, NEW c \in Contracts, Sound(c), Complete(c),
           NEW a \in Blocks, IsAncestor(a, trusted),
           RemoveBlockHeight(peak) - 1 <= Height(a),
           RemoveBlockHeight(peak) \in Int
    PROVE  /\ Found(c, DbContext(c), a) = LastWrite(c, a)
           /\ LastWrite(c, a) >= 0 => GetAncestor(a, LastWrite(c, a)) \in db[c].data
<1> DEFINE M == Recorded(c, a)
           W == {h \in 0..Height(a) : c \in writes[GetAncestor(a, h)]}
<1>1. Height(a) \in Nat /\ db[c].items \subseteq Nat
  BY Zenon, AncestorSelf, HeightsNat DEF TypeOK, Records
<1>2. M \subseteq W
  BY <1>1 DEF Recorded, Sound
<1>3. Found(c, DbContext(c), a) = IF M = {} THEN -1 ELSE Max(M)
  BY MatchesOnDisk DEF Found
<1>4. LastWrite(c, a) = IF W = {} THEN -1 ELSE Max(W)
  BY DEF LastWrite
<1>5. CASE W = {}
  BY <1>2, <1>3, <1>4, <1>5
<1>6. CASE W # {}
  <2>1. Max(W) \in W /\ \A y \in W : y <= Max(W)
    <3>1. W \subseteq 0..Height(a)
      OBVIOUS
    <3> HIDE DEF W
    <3> QED BY Zenon, <1>1, <1>6, <3>1, MaxHeight
  <2> DEFINE w == Max(W)
  <2>2. w \in 0..Height(a) /\ c \in writes[GetAncestor(a, w)]
    BY <2>1
  <2> HIDE DEF w
  <2>3. PICK k \in M : k = w \/ (w < k /\ k < RemoveBlockHeight(peak))
    BY <2>2, CompleteBelow
  <2>4. k \in W /\ k \in Nat
    BY <1>2, <2>3 
  <2>5. k <= w
    BY <2>1, <2>4 DEF w
  <2>6. k = w
    BY <2>2, <2>3, <2>4, <2>5
  <2>7. w \in M
    BY <2>3, <2>6
  <2>8. Max(M) \in M /\ \A y \in M : y <= Max(M)
    <3>1. M \subseteq 0..Height(a) /\ M # {}
      BY <1>2, <2>7
    <3> HIDE DEF M
    <3> QED BY Zenon, <1>1, <3>1, MaxHeight
  <2>9. Max(M) \in W
    BY <1>2, <2>8
  <2>10. Max(M) = w
    <3>1. w <= Max(M) /\ Max(M) <= w
      BY <2>1, <2>7, <2>8, <2>9 DEF w
    <3>2. Max(M) \in 0..Height(a)
      BY <2>9
    <3> HIDE DEF M
    <3> QED BY <2>2, <3>1, <3>2
  <2>11. GetAncestor(a, w) \in db[c].data
    <3>1. w \in db[c].items /\ GetAncestor(a, w) \in db[c].hashes
      BY <2>7 DEF Recorded
    <3>2. Height(GetAncestor(a, w)) = w
      BY <2>2, AncestorType
    <3> QED BY <3>1, <3>2 DEF Sound
  <2> QED
    BY <1>3, <1>4, <1>6, <2>7, <2>10, <2>11 DEF w
<1> QED
  BY <1>5, <1>6

(***************************************************************************)
(* The cache between two blocks.                                           *)
(***************************************************************************)
\* A context whose items have all the hashes of the disk, or none yet.
Loaded(ctx, d) ==
    /\ ctx.items = d.items
    /\ ctx.dirty = {}
    /\ \A x \in ctx.hashes : Height(x) \in d.items
    /\ \A h \in ctx.items : At(ctx.hashes, h) \in {{}, At(d.hashes, h)}

\* Whether it is in the cache or not, the context the lookup starts from
\* agrees with the disk.
LEMMA ContextLoaded ==
    ASSUME TypeOK, NEW c \in Contracts, InSync(c), Fresh(c) = {}
    PROVE  Loaded(Context(c), db[c])
<1>1. CASE contractData[c].cached
  BY ZenonT(40), <1>1 DEF InSync, Loaded, Context
<1>2. CASE ~contractData[c].cached
  BY <1>2 DEF Loaded, Context, DbContext, NoContext, At
<1> QED
  BY <1>1, <1>2

\* The hashes of an item are the same whether they come from the cache or
\* from the disk.
LEMMA HashesLoaded ==
    ASSUME NEW c, NEW ctx, Loaded(ctx, db[c]), NEW h \in ctx.items
    PROVE  HashesAt(c, ctx, h) = At(db[c].hashes, h)
  BY DEF HashesAt, Loaded

\* A lookup only adds to the context what the disk has.
LEMMA GetLoaded ==
    ASSUME TypeOK, NEW c \in Contracts, InSync(c), Fresh(c) = {}, NEW prev \in Blocks
    PROVE  /\ Loaded(AfterGet(c, prev), db[c])
           /\ ~AfterGet(c, prev).cached => AfterGet(c, prev) = NoContext
<1> DEFINE ctx == Context(c)
           r   == Found(c, ctx, prev)
           visited == {h \in ctx.items : r <= h /\ h <= Height(prev)}
           g   == AfterGet(c, prev)
<1>1. Loaded(ctx, db[c])
  BY ContextLoaded
<1>2. \A h \in visited : HashesAt(c, ctx, h) = At(db[c].hashes, h)
  BY <1>1, HashesLoaded
<1>3. ctx \in Contexts
  BY Zenon DEF TypeOK, Context, DbContext, NoContext, Contexts, Records
<1>4. /\ g.items = ctx.items /\ g.dirty = ctx.dirty /\ g.cached = ctx.cached
      /\ g.hashes = ctx.hashes \cup UNION {HashesAt(c, ctx, h) : h \in visited}
      /\ g.loaded = ctx.loaded \cup {b \in db[c].data : r >= 0 /\ b = GetAncestor(prev, r)}
      /\ g \in Contexts
  <2> HIDE DEF ctx
  <2>1. g \in Contexts
    BY GetType
  <2> QED
    BY Zenon, <1>3, <2>1 DEF AfterGet, Contexts, ctx
<1> HIDE DEF ctx, r, g
<1>5. \A x : x \in g.hashes <=>
             x \in ctx.hashes \/ \E h \in visited : x \in At(db[c].hashes, h)
  BY <1>2, <1>4
<1>6. \A x \in g.hashes : Height(x) \in db[c].items
  BY <1>1, <1>5 DEF Loaded, At
<1>7. ASSUME NEW h \in g.items
      PROVE  At(g.hashes, h) \in {{}, At(db[c].hashes, h)}
  <2>1. At(ctx.hashes, h) \in {{}, At(db[c].hashes, h)}
    BY <1>1, <1>4, <1>7 DEF Loaded
  <2>2. CASE h \in visited
    <3>1. At(g.hashes, h) = At(db[c].hashes, h)
      BY <1>5, <2>1, <2>2 DEF At
    <3> QED BY <3>1
  <2>3. CASE h \notin visited
    <3>1. At(g.hashes, h) = At(ctx.hashes, h)
      BY <1>5, <2>3 DEF At
    <3> QED BY <2>1, <3>1
  <2> QED BY <2>2, <2>3
<1>8. Loaded(g, db[c])
  BY <1>1, <1>4, <1>6, <1>7 DEF Loaded
<1>9. ASSUME ~g.cached
      PROVE  g = NoContext
  <2>1. ctx = NoContext
    <3>1. ~contractData[c].cached /\ db[c].items = {}
      BY Zenon, <1>4, <1>9 DEF ctx, Context, DbContext, NoContext
    <3> QED
      BY Zenon, <3>1 DEF ctx, Context, DbContext, NoContext
  <2>2. r = -1 /\ visited = {}
    BY <2>1 DEF r, Found, Matches, NoContext
  <2>3. g.items = {} /\ g.hashes = {} /\ g.loaded = {} /\ g.dirty = {} /\ g.cached = FALSE
    BY <1>4, <2>1, <2>2 DEF NoContext
  <2> QED
    BY <1>4, <2>3 DEF NoContext, Contexts
<1> QED
  BY <1>8, <1>9 DEF g

\* GetContractContext returns the newest write on the chain of a trusted
\* block, through the cache.
LEMMA CacheLookup ==
    ASSUME TypeOK, NEW c \in Contracts, InSync(c), Fresh(c) = {}, Sound(c), Complete(c),
           NEW a \in Blocks, IsAncestor(a, trusted),
           RemoveBlockHeight(peak) - 1 <= Height(a),
           RemoveBlockHeight(peak) \in Int
    PROVE  ReadsCorrectly(c, a)
<1> DEFINE ctx == Context(c)
<1>1. Loaded(ctx, db[c]) /\ DbContext(c).items = db[c].items
  BY ContextLoaded DEF DbContext, NoContext
<1>2. \A h \in ctx.items : HashesAt(c, ctx, h) = HashesAt(c, DbContext(c), h)
  <2>1. \A h : HashesAt(c, DbContext(c), h) = At(db[c].hashes, h)
    BY DEF HashesAt, At, DbContext, NoContext
  <2> QED BY Zenon, <1>1, <2>1, HashesLoaded
<1>3. Matches(c, ctx, a) = Matches(c, DbContext(c), a)
  BY <1>1, <1>2 DEF Matches, Loaded
<1>4. Found(c, ctx, a) = LastWrite(c, a)
  BY <1>3, DiskLookup, Zenon DEF Found
<1> QED
  BY Zenon, <1>4, DiskLookup DEF ReadsCorrectly, Lookup

(***************************************************************************)
(* The chain.                                                              *)
(***************************************************************************)
\* Being an ancestor is reflexive and transitive.
LEMMA AncestorOrder ==
    ASSUME NEW a \in Blocks, NEW b \in Blocks, NEW d \in Blocks,
           IsAncestor(a, b), IsAncestor(b, d)
    PROVE  IsAncestor(a, d) /\ IsAncestor(a, a)
<1>1. Height(a) \in Nat /\ Height(b) \in Nat /\ Height(d) \in Nat
  BY AncestorSelf
<1>2. Height(a) \in 0..Height(b) /\ Height(b) \in 0..Height(d)
  BY <1>1 DEF IsAncestor
<1>3. a = GetAncestor(d, Height(a))
  BY <1>1, <1>2, AncestorShares DEF IsAncestor
<1> QED
  BY <1>1, <1>2, <1>3, AncestorSelf DEF IsAncestor

\* Two ancestors of one block are on one chain.
LEMMA AncestorLinear ==
    ASSUME NEW a \in Blocks, NEW b \in Blocks, NEW d \in Blocks,
           IsAncestor(a, d), IsAncestor(b, d), Height(a) <= Height(b)
    PROVE  IsAncestor(a, b)
<1>1. Height(a) \in Nat /\ Height(b) \in Nat /\ Height(d) \in Nat
  BY AncestorSelf
<1>2. Height(a) \in 0..Height(b)
  BY <1>1
<1>3. GetAncestor(b, Height(a)) = GetAncestor(d, Height(a))
  BY <1>2, AncestorShares
<1> QED
  BY <1>2, <1>3 DEF IsAncestor

\* Every common ancestor of two blocks is at most as high as their fork.
LEMMA ForkIsHighest ==
    ASSUME NEW a \in Blocks, NEW b \in Blocks, NEW d \in Blocks,
           IsAncestor(d, a), IsAncestor(d, b)
    PROVE  Height(d) <= Height(Fork(a, b))
<1>1. Height(d) \in 0..Height(a) /\ Height(d) <= Height(b)
      /\ GetAncestor(a, Height(d)) = GetAncestor(b, Height(d))
  BY AncestorSelf DEF IsAncestor
<1> QED
  BY <1>1, ForkIsShared

\* The chain part of the invariant bounds how far the trusted block, and the
\* block a restart returns to, can be behind.
LEMMA TrustedIsRecent ==
    ASSUME TypeOK, ChainInv
    PROVE  /\ Fork(trusted, disk.tip) \in Blocks
           /\ IsAncestor(Fork(trusted, disk.tip), trusted)
           /\ RemoveBlockHeight(peak) \in Int
           /\ RemoveBlockHeight(peak) - 1 <= Height(Fork(trusted, disk.tip))
           /\ RemoveBlockHeight(peak) - 1 <= Height(trusted)
           /\ IsAncestor(trusted, trusted)
<1> DEFINE f == Fork(trusted, disk.tip)
<1>1. trusted \in Blocks /\ disk.tip \in Blocks /\ peak \in Nat
  BY HeightsNat DEF TypeOK
<1>2. f \in Blocks /\ IsAncestor(f, trusted)
  BY <1>1, ForkIsShared
<1>3. Height(f) \in Nat /\ Height(trusted) \in Nat /\ Height(f) <= Height(trusted)
  BY <1>1, <1>2, AncestorSelf DEF IsAncestor
<1>4. peak <= Height(f) + MaxRewind
  BY DEF ChainInv
<1>5. RemoveBlockHeight(peak) \in Int /\ RemoveBlockHeight(peak) - 1 <= Height(f)
  <2> HIDE DEF f
  <2> QED BY <1>1, <1>3, <1>4, RewindBound
<1>6. IsAncestor(trusted, trusted)
  BY <1>1, AncestorSelf DEF IsAncestor
<1> QED
  BY <1>2, <1>3, <1>5, <1>6

\* Reorganisations and restarts are bounded by what the database keeps.
LEMMA ChainStep == TypeOK /\ TypeOK' /\ ChainInv /\ Next => ChainInv'
<1> SUFFICES ASSUME TypeOK, TypeOK', ChainInv, Next
             PROVE  ChainInv'
  OBVIOUS
<1> DEFINE f == Fork(trusted, disk.tip)
<1>a. /\ trusted \in Blocks /\ tip \in Blocks /\ disk.tip \in Blocks
      /\ Height(trusted) \in Nat /\ Height(tip) \in Nat /\ peak \in Nat
      /\ tip' \in Blocks /\ trusted' \in Blocks
  BY AncestorSelf, HeightsNat DEF TypeOK
<1>b. f \in Blocks /\ IsAncestor(f, trusted) /\ IsAncestor(f, disk.tip) /\ Height(f) \in Nat
  BY <1>a, ForkIsShared, AncestorSelf
<1>c. MaxRewind \in Nat
  BY DepthAssumption
<1>d. peak <= Height(f) + MaxRewind
  BY DEF ChainInv
<1>1. ASSUME NEW b \in Blocks, RejectBlock(b)
      PROVE  ChainInv'
  BY <1>1 DEF RejectBlock, CanConnect, ChainInv, ghostVars, NoRemoval
<1>2. ASSUME NEW b \in Blocks, WriteBlockContractContextToDisk(b)
      PROVE  ChainInv'
  <2>1. Height(b) \in Nat /\ Height(b) > 0
    <3>1. b # <<>> /\ Height(b) \in Nat
      BY <1>2, AncestorSelf DEF WriteBlockContractContextToDisk, CanConnect
    <3>2. GetAncestor(b, 0) = <<>>
      BY AncestorGenesis
    <3> QED BY <3>1, <3>2, AncestorSelf
  <2>2. IsAncestor(tip, b) /\ Height(tip) = Height(b) - 1
    BY <1>2, <2>1, ParentType DEF WriteBlockContractContextToDisk, CanConnect
  <2>3. IsAncestor(trusted, b)
    BY <1>a, <2>2, AncestorOrder DEF ChainInv
  <2>4. trusted # b
    BY <1>a, <2>1, <2>2 DEF ChainInv, IsAncestor
  <2> QED
    BY <1>2, <2>3, <2>4
    DEF WriteBlockContractContextToDisk, CanConnect, ChainInv, ghostVars, NoRemoval
<1>3. ASSUME NEW c \in Contracts, ReadAtTip(c)
      PROVE  ChainInv'
  BY <1>3 DEF ReadAtTip, ChainInv, ghostVars, chainVars, NoRemoval
<1>4. CASE UpdateBlockContractToDisk
  <2>1. /\ pc = "written" /\ pc' = "flush" /\ tip' = tip /\ disk' = disk
        /\ peak' = IF Height(tip) > peak THEN Height(tip) ELSE peak
        /\ trusted' = IF trusted = Parent(tip) THEN tip ELSE trusted
    BY <1>4, Zenon DEF UpdateBlockContractToDisk, chainVars
  <2>2. IsAncestor(tip, tip) /\ IsAncestor(trusted, tip)
    BY <1>a, AncestorSelf DEF IsAncestor, ChainInv
  <2>3. IsAncestor(trusted', tip') /\ IsAncestor(f, trusted')
    BY <1>a, <1>b, <2>1, <2>2, AncestorOrder
  <2>4. Height(f) <= Height(Fork(trusted', disk.tip)) /\ Fork(trusted', disk.tip) \in Blocks
    BY <1>a, <1>b, <2>3, ForkIsHighest, ForkIsShared
  <2>5. peak' <= Height(f) + MaxRewind
    BY <1>d, <2>1 DEF ChainInv
  <2>6. peak' \in Nat /\ Height(Fork(trusted', disk.tip)) \in Nat
    BY <1>a, <2>1, <2>4, AncestorSelf
  <2>7. peak' <= Height(Fork(trusted', disk.tip)) + MaxRewind
    <3> HIDE DEF f
    <3> QED BY <1>b, <1>c, <2>4, <2>5, <2>6
  <2> QED
    BY <2>1, <2>3, <2>7 DEF ChainInv
<1>5. CASE DisconnectTip
  <2>1. /\ pc' = "flush" /\ tip' = Parent(tip) /\ disk' = disk /\ peak' = peak
        /\ trusted' = IF trusted = tip THEN Parent(tip) ELSE trusted
        /\ Height(tip) > 0 /\ Height(tip) > peak - MaxRewind
    BY <1>5 DEF DisconnectTip
  <2>2. Height(tip') = Height(tip) - 1 /\ IsAncestor(tip', tip)
    BY <1>a, <2>1, ParentType
  <2>3. CASE trusted = tip
    <3>1. trusted' = tip' /\ IsAncestor(trusted', tip')
      BY <1>a, <2>1, <2>3, AncestorSelf DEF IsAncestor
    <3>2. Height(Fork(tip', disk.tip)) \in Nat
      BY <1>a, ForkIsShared, AncestorSelf
    <3>3. CASE Height(f) <= Height(tip')
      <4>1. IsAncestor(f, tip')
        <5> HIDE DEF f
        <5> QED BY <1>a, <1>b, <2>2, <2>3, <3>3, AncestorLinear
      <4>2. Height(f) <= Height(Fork(tip', disk.tip))
        <5> HIDE DEF f
        <5> QED BY <1>a, <1>b, <4>1, ForkIsHighest
      <4>3. peak' <= Height(Fork(tip', disk.tip)) + MaxRewind
        <5> HIDE DEF f
        <5> QED BY <1>a, <1>b, <1>c, <1>d, <2>1, <3>2, <4>2
      <4> QED BY <2>1, <3>1, <4>3 DEF ChainInv
    <3>4. CASE ~(Height(f) <= Height(tip'))
      <4>1. IsAncestor(tip', f)
        <5>1. Height(tip') <= Height(f)
          <6> HIDE DEF f
          <6> QED BY <1>a, <1>b, <2>2, <3>4
        <5> HIDE DEF f
        <5> QED BY <1>a, <1>b, <2>2, <2>3, <5>1, AncestorLinear
      <4>2. IsAncestor(tip', disk.tip)
        <5> HIDE DEF f
        <5> QED BY <1>a, <1>b, <4>1, AncestorOrder
      <4>3. Height(tip') <= Height(Fork(tip', disk.tip))
        BY <1>a, <3>1, <4>2, ForkIsHighest
      <4>4. peak' <= Height(Fork(tip', disk.tip)) + MaxRewind
        BY <1>a, <1>c, <2>1, <2>2, <3>2, <4>3
      <4> QED BY <2>1, <3>1, <4>4 DEF ChainInv
    <3> QED BY <3>3, <3>4
  <2>4. CASE trusted # tip
    <3>1. Height(trusted) <= Height(tip')
      BY <1>a, <2>2, <2>4, AncestorSelf DEF ChainInv, IsAncestor
    <3>2. IsAncestor(trusted, tip')
      BY <1>a, <2>2, <3>1, AncestorLinear DEF ChainInv
    <3> QED BY <1>d, <2>1, <2>4, <3>2 DEF ChainInv
  <2> QED BY <2>3, <2>4
<1>6. CASE PeriodicFlush
  BY <1>6 DEF PeriodicFlush, ChainInv, cacheVars, chainVars, ghostVars
<1>7. CASE FlushIndex
  <2>1. disk'.tip = disk.tip /\ pc' \in {"flushCoins", "prune"}
    BY <1>7 DEF FlushIndex, TypeOK
  <2> QED
    BY <1>7, <2>1 DEF FlushIndex, ChainInv, cacheVars, chainVars, ghostVars
<1>8. CASE FlushCoins
  <2>1. /\ disk'.tip = tip /\ pc' = "prune" /\ tip' = tip /\ trusted' = trusted
        /\ peak' = peak
    BY <1>8 DEF FlushCoins, TypeOK, chainVars, ghostVars
  <2>2. IsAncestor(trusted, tip) /\ IsAncestor(trusted, trusted)
    BY <1>a, AncestorSelf DEF ChainInv, IsAncestor
  <2>3. Height(trusted) <= Height(Fork(trusted, tip)) /\ Height(Fork(trusted, tip)) \in Nat
    BY <1>a, <2>2, ForkIsHighest, ForkIsShared, AncestorSelf
  <2>4. Height(f) <= Height(trusted)
    BY <1>b DEF IsAncestor
  <2>5. peak <= Height(Fork(trusted, tip)) + MaxRewind
    <3> HIDE DEF f
    <3> QED BY <1>a, <1>b, <1>c, <1>d, <2>3, <2>4
  <2> QED BY <2>1, <2>2, <2>5 DEF ChainInv
<1>9. CASE PruneContractContext
  BY Zenon, <1>9 DEF PruneContractContext, ChainInv, chainVars, ghostVars, NoRemoval
<1>10. CASE Restart
  <2>1. /\ disk' = disk /\ pc' = "idle" /\ tip' = disk.tip /\ trusted' = f
        /\ peak' = peak /\ removeBatch' = NoRemoval /\ removes' = {}
    BY <1>10 DEF Restart
  <2>2. IsAncestor(f, f)
    BY <1>b, AncestorSelf DEF IsAncestor
  <2>3. Height(f) <= Height(Fork(f, disk.tip)) /\ Height(Fork(f, disk.tip)) \in Nat
    <3> HIDE DEF f
    <3> QED BY <1>a, <1>b, <2>2, ForkIsHighest, ForkIsShared, AncestorSelf
  <2>4. peak <= Height(Fork(f, disk.tip)) + MaxRewind
    <3> HIDE DEF f
    <3> QED BY <1>a, <1>b, <1>c, <1>d, <2>3
  <2> QED
    BY <1>b, <2>1, <2>4 DEF ChainInv, NoRemoval
<1> QED
  BY <1>1, <1>2, <1>3, <1>4, <1>5, <1>6, <1>7, <1>8, <1>9, <1>10 DEF Next

(***************************************************************************)
(* The database, one contract at a time.                                   *)
(***************************************************************************)
ContractInv(c) == InSync(c) /\ Sound(c) /\ Complete(c)

\* Lookups leave everything as it is but for what they load into the cache.
LEMMA GetStep ==
    ASSUME TypeOK, NEW c \in Contracts, ContractInv(c), pc = "idle",
           NEW S, contractData' = GetAll(S, tip), pc' = "idle",
           UNCHANGED <<removeBatch, removes, db, writes, tip, disk, ghostVars>>
    PROVE  ContractInv(c)'
<1> DEFINE g == contractData'[c]
<1>1. Fresh(c) = {} /\ Fresh(c)' = {}
  BY DEF Fresh
<1>2. tip \in Blocks
  BY DEF TypeOK
<1>3. IF g.cached THEN Loaded(g, db[c]) ELSE g = NoContext
  <2>1. CASE c \in S
    BY <1>1, <1>2, <2>1, GetLoaded DEF GetAll, ContractInv
  <2>2. CASE c \notin S
    <3>1. g = contractData[c]
      BY <2>2 DEF GetAll
    <3>2. \A X : X \ {} = X
      OBVIOUS
    <3>3. CASE contractData[c].cached
      <4>1. Loaded(contractData[c], db[c])
        BY <1>1, <3>3, ContextLoaded DEF ContractInv, Context
      <4> QED BY <3>1, <3>3, <4>1
    <3>4. CASE ~contractData[c].cached
      BY <3>1, <3>4, Zenon DEF ContractInv, InSync
    <3> QED BY <3>3, <3>4
  <2> QED BY <2>1, <2>2
<1>4. InSync(c)'
  BY <1>1, <1>3, Zenon DEF InSync, Loaded
<1>5. g.hashes \subseteq db[c].hashes
  BY <1>3, SMTT(20) DEF Loaded, NoContext, At
<1>6. Sound(c)'
  BY <1>1, <1>5, Zenon DEF Sound, ContractInv
<1>7. Complete(c)'
  BY DEF Complete, Recorded, ContractInv, ghostVars
<1> QED
  BY <1>4, <1>6, <1>7 DEF ContractInv

\* Connecting a block puts its write into the cache and its data on disk,
\* but not yet into the lists on disk.
LEMMA WriteStep ==
    ASSUME TypeOK, NEW c \in Contracts, ContractInv(c), ChainInv,
           NEW b \in Blocks, WriteBlockContractContextToDisk(b)
    PROVE  ContractInv(c)'
<1> DEFINE g == AfterGet(c, tip)
<1>0. /\ pc = "idle" /\ pc' = "written" /\ tip' = b
      /\ writes' = writes /\ removeBatch' = removeBatch
      /\ removeBatch = NoRemoval /\ peak' = peak /\ trusted' = trusted
      /\ contractData'[c] = IF c \in writes[b] THEN InsertWrite(g, b) ELSE contractData[c]
      /\ db'[c] = IF c \in writes[b] THEN [db[c] EXCEPT !.data = @ \cup {b}] ELSE db[c]
  BY DEF WriteBlockContractContextToDisk, CanConnect, ChainInv, ghostVars
<1>1. Fresh(c) = {} /\ Fresh(c)' = IF c \in writes[b] THEN {b} ELSE {}
  BY <1>0 DEF Fresh
<1>2. Loaded(g, db[c])
  BY <1>1, GetLoaded DEF ContractInv, TypeOK
<1>3. /\ db'[c].items = db[c].items /\ db'[c].hashes = db[c].hashes
      /\ db[c].data \subseteq db'[c].data
      /\ c \in writes[b] => b \in db'[c].data
  BY <1>0 DEF TypeOK, Records
<1>4. CASE c \in writes[b]
  <2>1. /\ contractData'[c].cached
        /\ contractData'[c].items = g.items \cup {Height(b)}
        /\ contractData'[c].hashes = g.hashes \cup {b}
        /\ contractData'[c].dirty = g.dirty \cup {Height(b)}
    BY <1>0, <1>4 DEF InsertWrite
  <2> HIDE DEF g
  <2>2. InSync(c)'
    <3>1. {Height(x) : x \in Fresh(c)'} = {Height(b)}
      BY <1>1, <1>4
    <3>2. \A x \in contractData'[c].hashes \ Fresh(c)' : Height(x) \in db[c].items
      BY <1>1, <1>2, <1>4, <2>1, Zenon DEF Loaded
    <3>3. ASSUME NEW h \in contractData'[c].items
          PROVE  At(contractData'[c].hashes, h) \ {b}
                   \in {{}, At(db[c].hashes, h) \ {b}}
      <4>1. At(contractData'[c].hashes, h) \ {b} = At(g.hashes, h) \ {b}
        BY <2>1 DEF At
      <4>2. At(g.hashes, h) \in {{}, At(db[c].hashes, h)}
        BY <1>2, <2>1, <3>3 DEF Loaded, At
      <4> QED BY <4>1, <4>2
    <3> QED
      BY <1>1, <1>2, <1>3, <1>4, <2>1, <3>1, <3>2, <3>3 DEF InSync, Loaded
  <2>3. g.hashes \subseteq db[c].hashes
    BY <1>2 DEF Loaded, At
  <2>4. Sound(c)'
    BY <1>0, <1>1, <1>3, <1>4, <2>1, <2>3 DEF Sound, ContractInv
  <2>5. Complete(c)'
    BY <1>0, <1>3 DEF Complete, Recorded, ContractInv
  <2> QED BY <2>2, <2>4, <2>5 DEF ContractInv
<1>5. CASE c \notin writes[b]
  <2>1. InSync(c)'
    BY <1>0, <1>1, <1>3, <1>5 DEF InSync, ContractInv
  <2>2. Sound(c)'
    BY <1>0, <1>1, <1>3, <1>5 DEF Sound, ContractInv
  <2>3. Complete(c)'
    BY <1>0, <1>3, <1>5 DEF Complete, Recorded, ContractInv
  <2> QED BY <2>1, <2>2, <2>3 DEF ContractInv
<1> QED
  BY <1>4, <1>5

\* Between blocks, the steps that leave the database and its cache alone
\* keep the invariant when the trusted block moves to an ancestor that is
\* recent enough.
LEMMA ChainOnlyStep ==
    ASSUME TypeOK, NEW c \in Contracts, ContractInv(c), pc # "written", pc' # "written",
           ChainInv', trusted' \in Blocks, IsAncestor(trusted', trusted),
           RemoveBlockHeight(peak) - 1 <= Height(trusted'),
           RemoveBlockHeight(peak) \in Int,
           UNCHANGED <<contractData, removeBatch, db, writes, peak>>
    PROVE  ContractInv(c)'
<1>1. Fresh(c) = {} /\ Fresh(c)' = {}
  BY DEF Fresh
<1>2. InSync(c)' /\ Sound(c)'
  BY <1>1, Zenon DEF InSync, Sound, ContractInv
<1>3. \A h \in 0..Height(trusted') : c \in writes[GetAncestor(trusted', h)] =>
        \E k \in Recorded(c, trusted') : k = h \/ (h < k /\ k < RemoveBlockHeight(peak))
  BY CompleteBelow, Zenon DEF ContractInv
<1>4. Complete(c)'
  BY <1>3 DEF Complete, Recorded
<1> QED
  BY <1>2, <1>4 DEF ContractInv

\* Pruning deletes only keys that no list refers to.
LEMMA PruneStep ==
    ASSUME TypeOK, NEW c \in Contracts, ContractInv(c), PruneContractContext
    PROVE  ContractInv(c)'
<1>0. /\ pc \in {"flush", "prune"} /\ pc' = "idle"
      /\ writes' = writes /\ removeBatch' = NoRemoval /\ peak' = peak
      /\ trusted' = trusted
      /\ contractData'[c] = IF c \in removes THEN NoContext ELSE contractData[c]
      /\ db'[c] = [db[c] EXCEPT
            !.data   = @ \ removeBatch[c].data,
            !.hashes = {x \in @ : Height(x) \notin removeBatch[c].heights}]
  BY Zenon DEF PruneContractContext, ghostVars
<1>1. Fresh(c) = {} /\ Fresh(c)' = {}
  BY <1>0 DEF Fresh
<1>2. /\ db'[c].items = db[c].items
      /\ db'[c].data = db[c].data \ removeBatch[c].data
      /\ db'[c].hashes = {x \in db[c].hashes : Height(x) \notin removeBatch[c].heights}
  <2>1. db[c] \in Records
    BY DEF TypeOK
  <2> QED BY <1>0, <2>1 DEF Records
<1>3. \A h \in db[c].items : At(db'[c].hashes, h) = At(db[c].hashes, h)
  BY <1>2, Zenon DEF ContractInv, Sound, At
<1>4. InSync(c)'
  <2>1. CASE c \in removes
    BY <1>0, <1>1, <2>1 DEF InSync, NoContext
  <2>2. CASE c \notin removes
    BY <1>0, <1>1, <1>2, <1>3, <2>2 DEF InSync, ContractInv
  <2> QED BY <2>1, <2>2
<1>5. Sound(c)'
  <2>1. contractData'[c].hashes \subseteq contractData[c].hashes
    BY <1>0 DEF NoContext
  <2>2. removeBatch'[c].data = {} /\ removeBatch'[c].heights = {}
    BY <1>0 DEF NoRemoval
  <2> QED
    BY <1>0, <1>1, <1>2, <2>1, <2>2 DEF Sound, ContractInv
<1>6. Recorded(c, trusted)' = Recorded(c, trusted)
  <2>1. Height(trusted) \in Nat /\ trusted \in Blocks /\ db[c].items \subseteq Nat
    BY Zenon, AncestorSelf, HeightsNat DEF TypeOK, Records
  <2>2. \A k \in db[c].items : k <= Height(trusted) => Height(GetAncestor(trusted, k)) = k
    BY <2>1, AncestorType
  <2>3. \A k \in db[c].items : k \notin removeBatch[c].heights
    BY DEF Sound, ContractInv
  <2> QED
    BY <1>0, <1>2, <2>2, <2>3 DEF Recorded
<1>7. Complete(c)'
  BY <1>0, <1>6 DEF Complete, ContractInv
<1> QED
  BY Zenon, <1>4, <1>5, <1>7 DEF ContractInv

\* A restart loses the cache and returns to the newest shared block.
LEMMA RestartStep ==
    ASSUME TypeOK, NEW c \in Contracts, ContractInv(c), ChainInv, Restart
    PROVE  ContractInv(c)'
<1>0. /\ pc' = "idle" /\ writes' = writes /\ removeBatch' = NoRemoval /\ peak' = peak
      /\ trusted' = Fork(trusted, disk.tip)
      /\ contractData'[c] = NoContext /\ db' = db
  BY DEF Restart
<1>1. Fresh(c)' = {}
  BY <1>0 DEF Fresh
<1>2. InSync(c)'
  <2>1. contractData'[c].cached = FALSE
    BY <1>0 DEF NoContext
  <2> QED BY <1>0, <1>1, <2>1, Zenon DEF InSync
<1>3. Sound(c)'
  <2>1. removeBatch'[c].data = {} /\ removeBatch'[c].heights = {}
    BY <1>0 DEF NoRemoval
  <2>2. contractData'[c].hashes = {}
    BY <1>0 DEF NoContext
  <2>3. \A x \in db'[c].hashes \cup contractData'[c].hashes : c \in writes'[x]
    BY <1>0, <2>2 DEF Sound, ContractInv
  <2>4. \A x \in db'[c].hashes : Height(x) \in db'[c].items =>
            x \in db'[c].data \ removeBatch'[c].data
    BY <1>0, <2>1 DEF Sound, ContractInv
  <2> QED
    BY <1>1, <2>1, <2>3, <2>4 DEF Sound
<1>4. \A h \in 0..Height(trusted') : c \in writes[GetAncestor(trusted', h)] =>
        \E k \in Recorded(c, trusted') : k = h \/ (h < k /\ k < RemoveBlockHeight(peak))
  BY <1>0, TrustedIsRecent, CompleteBelow DEF ContractInv
<1>5. Complete(c)'
  BY <1>0, <1>4, Zenon DEF Complete, Recorded
<1> QED
  BY <1>2, <1>3, <1>5 DEF ContractInv

(***************************************************************************)
(* The update of a block, and the inductive invariant                      *)
(***************************************************************************)
\* UpdateBlockContractToDisk computes one list of heights and hashes for the
\* cache and for the disk.
LEMMA UpdateFields ==
    ASSUME TypeOK, NEW c \in Contracts, NEW b \in Blocks,
           NEW K, K = Known(c, contractData[c], b),
           NEW S, S = Stale(c, contractData[c], b),
           NEW G, G = Gone(contractData[c], b)
    PROVE  /\ AfterUpdate(c, b).cached = contractData[c].cached
           /\ AfterUpdate(c, b).items = contractData[c].items \ G
           /\ AfterUpdate(c, b).hashes = {x \in K \ S : Height(x) \notin G}
           /\ AfterUpdate(c, b).dirty = {}
           /\ RemovalOf(c, b).data = S \cup {x \in K : Height(x) \in G}
           /\ RemovalOf(c, b).heights = G
           /\ DbAfterUpdate(c, b).items = contractData[c].items \ G
           /\ DbAfterUpdate(c, b).data = db[c].data
           /\ DbAfterUpdate(c, b).hashes =
                LET dirty == contractData[c].dirty \cup {Height(x) : x \in S}
                IN  {x \in db[c].hashes : Height(x) \notin dirty}
                      \cup {x \in K \ S : Height(x) \in dirty}
<1>1. contractData[c] \in Contexts /\ db[c] \in Records
  BY DEF TypeOK
<1>2. /\ AfterUpdate(c, b).cached = contractData[c].cached
      /\ AfterUpdate(c, b).items = contractData[c].items \ G
      /\ AfterUpdate(c, b).hashes = {x \in K \ S : Height(x) \notin G}
      /\ AfterUpdate(c, b).dirty = {}
  BY <1>1 DEF AfterUpdate, Contexts
<1>3. /\ RemovalOf(c, b).data = S \cup {x \in K : Height(x) \in G}
      /\ RemovalOf(c, b).heights = G
  BY DEF RemovalOf
<1>4. /\ DbAfterUpdate(c, b).items = contractData[c].items \ G
      /\ DbAfterUpdate(c, b).data = db[c].data
      /\ DbAfterUpdate(c, b).hashes =
           LET dirty == contractData[c].dirty \cup {Height(x) : x \in S}
           IN  {x \in db[c].hashes : Height(x) \notin dirty}
                 \cup {x \in K \ S : Height(x) \in dirty}
  BY <1>1 DEF DbAfterUpdate, Records
<1> QED
  BY <1>2, <1>3, <1>4

\* Updating the disk merges the new write, drops abandoned forks and old
\* versions, and keeps what the trusted chain needs.
LEMMA UpdateStep ==
    ASSUME TypeOK, TypeOK', NEW c \in Contracts, ContractInv(c), ChainInv, ChainInv',
           UpdateBlockContractToDisk
    PROVE  ContractInv(c)'
<1> DEFINE ctx == contractData[c]
           F   == Fresh(c)
           K   == Known(c, ctx, tip)
           S   == Stale(c, ctx, tip)
           G   == Gone(ctx, tip)
           D   == ctx.dirty \cup {Height(x) : x \in S}
<1>a. /\ pc = "written" /\ pc' = "flush" /\ tip' = tip /\ writes' = writes
      /\ disk' = disk /\ AssertOneHash(tip)
  BY Zenon DEF UpdateBlockContractToDisk, chainVars
<1>p. peak' = IF Height(tip) > peak THEN Height(tip) ELSE peak
  BY DEF UpdateBlockContractToDisk
<1>t. trusted' = IF trusted = Parent(tip) THEN tip ELSE trusted
  BY DEF UpdateBlockContractToDisk
<1>r. /\ ctx.cached =>
           /\ contractData'[c] = AfterUpdate(c, tip)
           /\ removeBatch'[c] = RemovalOf(c, tip)
           /\ db'[c] = DbAfterUpdate(c, tip)
      /\ ~ctx.cached =>
           contractData'[c] = ctx /\ removeBatch'[c] = NoRemoval[c] /\ db'[c] = db[c]
  BY Zenon DEF UpdateBlockContractToDisk, IsCached
<1>b. F = (IF c \in writes[tip] THEN {tip} ELSE {}) /\ Fresh(c)' = {}
  BY <1>a DEF Fresh
<1>c. /\ tip \in Blocks /\ trusted \in Blocks /\ trusted' \in Blocks
      /\ Height(tip) \in Nat /\ Height(trusted) \in Nat /\ Height(trusted') \in Nat
      /\ peak \in Nat /\ peak' \in Nat
      /\ db[c].items \subseteq Nat /\ ctx.items \subseteq Nat
  BY Zenon, AncestorSelf, HeightsNat DEF TypeOK, Records, Contexts
\* How far the trusted chain reaches, and that the tip's chain contains it.
<1>d. /\ RemoveBlockHeight(peak) \in Int /\ RemoveBlockHeight(peak') \in Int
      /\ RemoveBlockHeight(Height(tip)) \in Int
      /\ RemoveBlockHeight(peak) <= RemoveBlockHeight(peak')
      /\ RemoveBlockHeight(Height(tip)) <= RemoveBlockHeight(peak')
  BY <1>p, <1>c, DepthAssumption DEF RemoveBlockHeight, ConfirmBlockHeight
<1>e. RemoveBlockHeight(peak') - 1 <= Height(trusted')
  <2>1. peak' <= Height(Fork(trusted', disk'.tip)) + MaxRewind /\ disk'.tip \in Blocks
    BY DEF ChainInv, TypeOK
  <2>2. /\ Fork(trusted', disk'.tip) \in Blocks
        /\ IsAncestor(Fork(trusted', disk'.tip), trusted')
    BY <1>c, <2>1, ForkIsShared, Zenon
  <2>3. /\ Height(Fork(trusted', disk'.tip)) \in Nat
        /\ Height(Fork(trusted', disk'.tip)) <= Height(trusted')
    BY <2>2, AncestorSelf DEF IsAncestor
  <2>4. RemoveBlockHeight(peak') - 1 <= Height(Fork(trusted', disk'.tip))
    BY <1>c, <2>1, <2>3, RewindBound
  <2> QED BY <1>c, <1>d, <2>3, <2>4
<1>f. /\ \A h \in 0..Height(trusted) : GetAncestor(trusted, h) = GetAncestor(tip, h)
      /\ \A h \in 0..Height(trusted') : GetAncestor(trusted', h) = GetAncestor(tip, h)
      /\ Height(trusted) <= Height(trusted')
      /\ Height(trusted') <= Height(tip)
  <2>1. IsAncestor(trusted, tip) /\ IsAncestor(trusted', tip)
    BY <1>a DEF ChainInv
  <2>2. Height(trusted) <= Height(tip)
    BY <2>1 DEF IsAncestor
  <2> QED BY <1>t, <1>c, <2>1, <2>2, AncestorShares
<1>g. \A h \in 0..Height(trusted') : h > Height(trusted) => h = Height(tip) /\ trusted' = tip
  <2>1. CASE trusted = Parent(tip)
    <3>1. Height(tip) > 0
      <4>1. Height(tip) = 0 => tip = <<>> /\ GetAncestor(trusted, 0) = <<>>
        BY <1>c, AncestorSelf, AncestorGenesis
      <4>2. IsAncestor(trusted, tip) /\ trusted # tip
        BY <1>a DEF ChainInv
      <4> QED BY <1>c, <4>1, <4>2, AncestorSelf DEF IsAncestor
    <3>2. Height(trusted) = Height(tip) - 1 /\ trusted' = tip
      BY <1>t, <1>c, <2>1, <3>1, ParentType
    <3> QED BY <1>c, <3>2
  <2>2. CASE trusted # Parent(tip)
    BY <1>t, <1>c, <2>2
  <2> QED BY <2>1, <2>2
<1>1. CASE ~ctx.cached
  <2>1. ctx = NoContext /\ F = {} /\ c \notin writes[tip]
    BY <1>1, <1>b, Zenon DEF InSync, ContractInv
  <2>2. db'[c] = db[c] /\ contractData'[c] = NoContext
        /\ removeBatch'[c].data = {} /\ removeBatch'[c].heights = {}
    BY <1>1, <1>r, <2>1 DEF NoRemoval
  <2>3. InSync(c)'
    BY <1>b, <2>2, SMTT(20) DEF InSync, NoContext
  <2>4. Sound(c)'
    <3>1. /\ \A x \in db[c].hashes : c \in writes[x]
          /\ \A x \in db[c].hashes : Height(x) \in db[c].items => x \in db[c].data
      BY Zenon DEF Sound, ContractInv
    <3>2. contractData'[c].hashes = {}
      BY <2>2 DEF NoContext
    <3> QED BY <1>a, <1>b, <2>2, <3>1, <3>2, Zenon DEF Sound
  <2>5. ASSUME NEW h \in 0..Height(trusted'), c \in writes[GetAncestor(trusted', h)]
        PROVE  \E k \in Recorded(c, trusted)' : k = h \/ (h < k /\ k < RemoveBlockHeight(peak'))
    <3>1. h \in 0..Height(trusted)
      BY <1>c, <1>g, <2>1, <2>5, AncestorSelf
    <3>2. PICK k \in Recorded(c, trusted) : k = h \/ (h < k /\ k < RemoveBlockHeight(peak))
      BY <1>f, <2>5, <3>1 DEF Complete, ContractInv
    <3>3. k \in Recorded(c, trusted)'
      BY <1>c, <1>f, <2>2, <3>2, SMTT(20) DEF Recorded
    <3>4. k = h \/ (h < k /\ k < RemoveBlockHeight(peak'))
      BY <1>c, <1>d, <3>2 DEF Recorded
    <3> QED BY <3>3, <3>4
  <2>6. Complete(c)'
    BY <1>a, <2>5 DEF Complete
  <2> QED BY <2>3, <2>4, <2>6 DEF ContractInv
<1>2. CASE ctx.cached
  <2>1. /\ contractData'[c].cached
        /\ contractData'[c].items = ctx.items \ G
        /\ contractData'[c].hashes = {x \in K \ S : Height(x) \notin G}
        /\ contractData'[c].dirty = {}
        /\ removeBatch'[c].data = S \cup {x \in K : Height(x) \in G}
        /\ removeBatch'[c].heights = G
        /\ db'[c].items = ctx.items \ G
        /\ db'[c].data = db[c].data
        /\ db'[c].hashes = {x \in db[c].hashes : Height(x) \notin D}
                             \cup {x \in K \ S : Height(x) \in D}
    <3>1. /\ contractData'[c] = AfterUpdate(c, tip)
          /\ removeBatch'[c] = RemovalOf(c, tip)
          /\ db'[c] = DbAfterUpdate(c, tip)
          /\ tip \in Blocks
      BY <1>2, <1>r, <1>c, Zenon
    <3> QED
      BY <1>2, <3>1, UpdateFields, SMTT(20)
  <2>2. /\ ctx.items = db[c].items \cup {Height(x) : x \in F}
        /\ ctx.dirty = {Height(x) : x \in F}
        /\ F \subseteq ctx.hashes
        /\ \A x \in ctx.hashes \ F : Height(x) \in db[c].items
        /\ \A h \in ctx.items : At(ctx.hashes, h) \ F \in {{}, At(db[c].hashes, h) \ F}
    BY <1>2, Zenon DEF InSync, ContractInv
  <2>3. \A x : x \in K <=> \/ x \in ctx.hashes
                           \/ /\ Height(x) \in Confirmed(ctx, tip)
                              /\ x \in HashesAt(c, ctx, Height(x))
    BY DEF Known, HashesAt, At
  <2>4. \A x : x \in S <=> /\ x \in K
                           /\ Height(x) \in Confirmed(ctx, tip)
                           /\ x # GetAncestor(tip, Height(x))
    BY DEF Stale
  <2>5. \A x : x \in F <=> x = tip /\ c \in writes[tip]
    BY <1>b
  <2>6. Confirmed(ctx, tip) \subseteq ctx.items
    BY DEF Confirmed
  <2> HIDE DEF ctx, F, K, S, G
  \* What is known is fresh or recorded on disk under a listed height.
  <2>7. \A x \in K : x \in F \/ (x \in db[c].hashes /\ Height(x) \in db[c].items)
    <3> TAKE x \in K
    <3>1. CASE x \in ctx.hashes /\ x \notin F
      BY <2>2, <3>1 DEF At
    <3>2. CASE x \notin ctx.hashes
      <4>1. Height(x) \in ctx.items /\ x \in HashesAt(c, ctx, Height(x))
        BY <2>3, <2>6, <3>2
      <4>2. At(ctx.hashes, Height(x)) = {} /\ x \in db[c].hashes
        BY <3>2, <4>1 DEF HashesAt, At
      <4>3. Height(x) \notin {Height(y) : y \in F}
        BY <2>2, <4>2 DEF At
      <4> QED BY <2>2, <4>1, <4>2, <4>3
    <3> QED BY <3>1, <3>2
  <2>8. \A x \in K : Height(x) \in ctx.items
    BY <2>2, <2>7
  \* The hash of the tip's chain at a listed height is known if it must be
  \* rewritten.
  <2>9. ASSUME NEW k \in ctx.items, k <= Height(tip),
               \/ GetAncestor(tip, k) \in db[c].hashes
               \/ GetAncestor(tip, k) \in K
               \/ GetAncestor(tip, k) \in F
        PROVE  GetAncestor(tip, k) \in db'[c].hashes
    <3> DEFINE y == GetAncestor(tip, k)
    <3>1. Height(y) = k
      BY <1>c, <2>9, AncestorType DEF ctx
    <3>2. y \notin S
      BY <2>4, <3>1
    <3>3. CASE y \in K
      BY <2>1, <2>7, <2>2, <3>1, <3>2, <3>3
    <3>4. CASE y \in F
      BY <2>2, <2>3, <3>3, <3>4, Zenon
    <3>5. CASE y \in db[c].hashes /\ y \notin K
      <4>1. k \notin D
        <5>1. SUFFICES ASSUME k \in D PROVE FALSE
          OBVIOUS
        <5>2. CASE k \in ctx.dirty
          <6>1. k = Height(tip) /\ tip \in F
            BY <2>2, <2>5, <5>2, Zenon
          <6> QED
            BY <1>c, <2>2, <2>3, <3>5, <6>1, AncestorSelf, Zenon
        <5>3. CASE k \notin ctx.dirty
          <6>1. k \in Confirmed(ctx, tip)
            BY <2>4, <5>1, <5>3
          <6>2. y \notin HashesAt(c, ctx, k) /\ y \notin ctx.hashes
            BY <2>3, <3>1, <3>5, <6>1
          <6>3. At(ctx.hashes, k) # {} /\ y \in At(db[c].hashes, k)
            BY <3>1, <3>5, <6>2 DEF HashesAt, At
          <6>4. At(ctx.hashes, k) \ F = At(ctx.hashes, k) /\ y \notin F
            BY <2>2, <5>3, <6>2, Zenon DEF At
          <6> QED
            BY <2>2, <6>2, <6>3, <6>4, Zenon DEF At
        <5> QED BY <5>2, <5>3
      <4> QED BY <2>1, <3>1, <3>5, <4>1
    <3> QED BY <2>9, <3>3, <3>4, <3>5
  <2>10. InSync(c)'
    <3>1. \A x \in contractData'[c].hashes : Height(x) \in db'[c].items
      BY <2>1, <2>8
    <3>2. ASSUME NEW h \in contractData'[c].items
          PROVE  At(contractData'[c].hashes, h) \in {{}, At(db'[c].hashes, h)}
      <4>1. h \in ctx.items /\ h \notin G
        BY <2>1, <3>2
      <4>2. At(contractData'[c].hashes, h) = At(K \ S, h)
        BY <2>1, <4>1 DEF At
      <4>3. CASE h \in D
        BY <2>1, <4>2, <4>3 DEF At
      <4>4. CASE h \notin D
        <5>1. At(S, h) = {} /\ At(F, h) = {}
          BY <2>2, <4>4 DEF At
        <5>2. At(db'[c].hashes, h) = At(db[c].hashes, h)
          BY <2>1, <4>4 DEF At
        <5>3. At(ctx.hashes, h) \in {{}, At(db[c].hashes, h)}
          <6>1. At(ctx.hashes, h) \ F = At(ctx.hashes, h)
                /\ At(db[c].hashes, h) \ F = At(db[c].hashes, h)
            BY <5>1 DEF At
          <6> QED BY Zenon, <2>2, <4>1, <6>1
        <5>4. At(K, h) \in {{}, At(db[c].hashes, h)}
          <6>1. CASE h \in Confirmed(ctx, tip)
            <7>1. HashesAt(c, ctx, h) = At(db[c].hashes, h)
              BY <5>3 DEF HashesAt
            <7>2. At(K, h) = At(db[c].hashes, h)
              BY <2>3, <5>3, <6>1, <7>1 DEF At
            <7> QED BY <7>2
          <6>2. CASE h \notin Confirmed(ctx, tip)
            <7>1. At(K, h) = At(ctx.hashes, h)
              BY <2>3, <6>2 DEF At
            <7> QED BY <5>3, <7>1
          <6> QED BY <6>1, <6>2, Zenon
        <5>5. At(K \ S, h) = At(K, h)
          BY <5>1 DEF At
        <5> QED BY <4>2, <5>2, <5>4, <5>5
      <4> QED BY <4>3, <4>4
    <3> QED BY <1>b, <2>1, <3>1, <3>2 DEF InSync
  <2>11. Sound(c)'
    <3>1. /\ \A x \in db[c].hashes \cup ctx.hashes : c \in writes[x]
          /\ \A x \in db[c].hashes : Height(x) \in db[c].items => x \in db[c].data
          /\ F \subseteq db[c].data
      BY Zenon DEF Sound, ContractInv, ctx, F
    <3>2. \A x \in db'[c].hashes \cup contractData'[c].hashes : c \in writes'[x]
      BY <1>a, <2>1, <2>5, <2>7, <3>1
    <3>3. ASSUME NEW x \in db'[c].hashes, Height(x) \in db'[c].items
          PROVE  x \in db'[c].data \ removeBatch'[c].data
      <4>1. x \notin S
        BY <2>1, <3>3
      <4>2. x \in db[c].data
        BY <2>1, <2>2, <2>7, <3>1, <3>3
      <4> QED BY <2>1, <3>3, <4>1, <4>2
    <3> QED BY <1>b, <2>1, <3>2, <3>3 DEF Sound
  <2>12. ASSUME NEW h \in 0..Height(trusted'), c \in writes[GetAncestor(trusted', h)]
         PROVE  \E k \in Recorded(c, trusted)' : k = h \/ (h < k /\ k < RemoveBlockHeight(peak'))
    <3>1. PICK k \in ctx.items :
            /\ k <= Height(trusted')
            /\ GetAncestor(tip, k) \in db[c].hashes \/ GetAncestor(tip, k) \in F
            /\ k = h \/ (h < k /\ k < RemoveBlockHeight(peak))
      <4>1. CASE h <= Height(trusted)
        <5>1. PICK i \in Recorded(c, trusted) : i = h \/ (h < i /\ i < RemoveBlockHeight(peak))
          BY <1>c, <1>f, <2>12, <4>1, SMTT(20) DEF Complete, ContractInv
        <5> QED BY <1>c, <1>f, <2>2, <5>1, SMTT(20) DEF Recorded
      <4>2. CASE ~(h <= Height(trusted))
        <5>1. h = Height(tip) /\ trusted' = tip /\ tip \in F
          BY <1>c, <1>g, <2>5, <2>12, <4>2, AncestorSelf
        <5> QED BY <1>c, <2>2, <5>1, AncestorSelf, SMTT(20)
      <4> QED BY <4>1, <4>2, Zenon
    <3>2. k \in Nat
      BY <1>c DEF ctx
    <3>3. CASE k \notin G
      <4>1. k \in Recorded(c, trusted)'
        BY <1>c, <1>f, <2>1, <2>9, <3>1, <3>2, <3>3, SMTT(20) DEF Recorded
      <4>2. k = h \/ (h < k /\ k < RemoveBlockHeight(peak'))
        BY <1>d, <3>1, <3>2
      <4> QED BY <4>1, <4>2
    <3>4. CASE k \in G
      <4> DEFINE old == {i \in ctx.items : i < RemoveBlockHeight(Height(tip))}
                 m == Max(old)
      <4>1. G = IF old = {} THEN {} ELSE old \ {m}
        BY DEF G, Gone
      <4>2. m \in old /\ k <= m /\ k # m
        <5>1. old \subseteq 0..RemoveBlockHeight(Height(tip)) /\ k \in old
          <6>1. k \in old
            BY <3>4, <4>1, Zenon
          <6>2. ASSUME NEW i \in old PROVE i \in 0..RemoveBlockHeight(Height(tip))
            <7>1. i \in Nat /\ i < RemoveBlockHeight(Height(tip))
              BY <1>c
            <7> QED BY <1>d, <7>1
          <6> QED BY <6>1, <6>2, Zenon
        <5>2. RemoveBlockHeight(Height(tip)) \in Nat
          BY <1>d, <3>2, <5>1
        <5>3. m \in old /\ \A i \in old : i <= m
          <6> HIDE DEF old
          <6> QED BY Zenon, <5>1, <5>2, MaxHeight
        <5> QED BY <3>4, <4>1, <5>1, <5>3
      <4>3. m \in ctx.items /\ m < RemoveBlockHeight(Height(tip)) /\ m \notin G /\ m \in Nat
        BY <1>c, <4>1, <4>2, Zenon DEF ctx
      <4> HIDE DEF m, old
      <4>4. m <= Height(trusted') /\ m < RemoveBlockHeight(peak')
        BY <1>c, <1>d, <1>e, <4>3
      <4>5. m \in Confirmed(ctx, tip)
        BY <1>c, <4>3, DepthAssumption DEF Confirmed, RemoveBlockHeight, ConfirmBlockHeight
      <4>6. At(K \ S, m) # {}
        BY <1>a, <4>5, Zenon DEF AssertOneHash, ctx, K, S
      <4>7. GetAncestor(tip, m) \in K
        BY <2>4, <4>5, <4>6 DEF At
      <4>8. GetAncestor(tip, m) \in db'[c].hashes
        BY <1>c, <1>f, <2>9, <4>3, <4>4, <4>7
      <4>9. m \in Recorded(c, trusted)'
        BY <1>c, <1>f, <2>1, <4>3, <4>4, <4>8 DEF Recorded
      <4>10. h < m
        BY <3>1, <3>2, <4>2, <4>3
      <4> QED BY <4>4, <4>9, <4>10, Zenon
    <3> QED BY <3>3, <3>4
  <2>13. Complete(c)'
    BY <1>a, <2>12 DEF Complete
  <2> QED BY <2>10, <2>11, <2>13 DEF ContractInv
<1> QED
  BY <1>1, <1>2

(***************************************************************************)
(* The theorems.                                                           *)
(***************************************************************************)
\* The initial database is empty and owes nothing to the genesis block.
LEMMA InitIndInv == Init => IndInv
<1> SUFFICES ASSUME Init PROVE IndInv
  OBVIOUS
<1>1. TypeOK
  BY InitTypeOK
<1>2. <<>> \in Blocks
  BY TreeAssumption
<1>3. Height(<<>>) = 0
  BY <1>2, AncestorGenesis, AncestorSelf, AncestorType
<1>4. IsAncestor(<<>>, <<>>)
  BY <1>2, <1>3, AncestorSelf DEF IsAncestor
<1>5. Height(Fork(<<>>, <<>>)) \in Nat
  BY <1>2, ForkIsShared, AncestorSelf
<1>6. ChainInv
  BY <1>4, <1>5, DepthAssumption DEF Init, ChainInv
<1>7. ASSUME NEW c \in Contracts
      PROVE  InSync(c) /\ Sound(c) /\ Complete(c)
  <2>1. contractData[c] = NoContext /\ Fresh(c) = {}
        /\ db[c] = [items |-> {}, hashes |-> {}, data |-> {}]
        /\ removeBatch[c] = [data |-> {}, heights |-> {}]
    BY <1>7, Zenon DEF Init, Fresh, NoRemoval
  <2>2. InSync(c)
    <3>1. ~contractData[c].cached
      BY <2>1, SMTT(20) DEF NoContext
    <3> QED
      BY <2>1, <3>1, Zenon DEF InSync
  <2>4. Sound(c)
    BY <2>1, SMTT(20) DEF Sound, NoContext
  <2>3. Complete(c)
    BY <1>2, <1>3, AncestorGenesis DEF Complete, Init
  <2> QED BY <2>2, <2>3, <2>4
<1> QED
  BY <1>1, <1>6, <1>7 DEF IndInv

\* Every action preserves the invariant.
LEMMA NextIndInv == IndInv /\ [Next]_vars => IndInv'
<1> SUFFICES ASSUME IndInv, [Next]_vars
             PROVE  IndInv'
  OBVIOUS
<1>1. TypeOK /\ ChainInv /\ \A c \in Contracts : ContractInv(c)
  BY DEF IndInv, ContractInv
<1>2. TypeOK'
  BY <1>1, NextTypeOK
<1>3. CASE UNCHANGED vars
  <2>1. /\ contractData' = contractData /\ removeBatch' = removeBatch
        /\ removes' = removes /\ db' = db /\ writes' = writes /\ pc' = pc
        /\ tip' = tip /\ disk' = disk /\ peak' = peak /\ trusted' = trusted
    BY <1>3 DEF vars
  <2>2. ChainInv'
    BY <1>1, <2>1 DEF ChainInv
  <2>3. ASSUME NEW c \in Contracts
        PROVE  ContractInv(c)'
    <3>1. Fresh(c)' = Fresh(c)
      BY <2>1 DEF Fresh
    <3>2. InSync(c)'
      BY Zenon, <1>1, <2>1, <3>1 DEF InSync, ContractInv
    <3>3. Sound(c)'
      BY <1>1, <2>1, <3>1, Zenon DEF Sound, ContractInv
    <3>4. Complete(c)'
      BY <1>1, <2>1, Zenon DEF Complete, Recorded, ContractInv
    <3> QED BY <3>2, <3>3, <3>4 DEF ContractInv
  <2> QED BY <1>2, <2>2, <2>3 DEF IndInv, ContractInv
<1>4. CASE Next
  <2>1. ChainInv'
    BY <1>1, <1>2, <1>4, ChainStep
  <2>2. ASSUME NEW c \in Contracts
        PROVE  ContractInv(c)'
    <3>0. ContractInv(c)
      BY <1>1
    <3>1. ASSUME NEW b \in Blocks, RejectBlock(b)
          PROVE  ContractInv(c)'
      BY <1>1, <3>0, <3>1, GetStep, Zenon DEF RejectBlock, CanConnect
    <3>2. ASSUME NEW b \in Blocks, WriteBlockContractContextToDisk(b)
          PROVE  ContractInv(c)'
      BY <1>1, <3>0, <3>2, WriteStep
    <3>3. ASSUME NEW d \in Contracts, ReadAtTip(d)
          PROVE  ContractInv(c)'
      BY <1>1, <3>0, <3>3, GetStep DEF ReadAtTip, chainVars
    <3>4. CASE UpdateBlockContractToDisk
      BY <1>1, <1>2, <2>1, <3>0, <3>4, UpdateStep
    <3>5. CASE DisconnectTip
      <4>1. /\ pc = "idle" /\ pc' = "flush" /\ tip \in Blocks
            /\ Height(tip) > 0 /\ trusted \in Blocks
            /\ trusted' = IF trusted = tip THEN Parent(tip) ELSE trusted
            /\ UNCHANGED <<contractData, removeBatch, db, writes, peak>>
        BY <1>1, <3>5 DEF DisconnectTip, cacheVars, TypeOK
      <4>2. IsAncestor(trusted', trusted) /\ trusted' \in Blocks
        BY <1>1, <1>2, <4>1, ParentType, TrustedIsRecent, Zenon DEF TypeOK
      <4>3. RemoveBlockHeight(peak) \in Int /\ RemoveBlockHeight(peak) - 1 <= Height(trusted')
        <5>1. /\ peak' \in Nat /\ trusted' \in Blocks /\ disk'.tip \in Blocks
              /\ peak' <= Height(Fork(trusted', disk'.tip)) + MaxRewind
          BY <1>2, <2>1, HeightsNat DEF TypeOK, ChainInv
        <5>2. /\ Fork(trusted', disk'.tip) \in Blocks
              /\ IsAncestor(Fork(trusted', disk'.tip), trusted')
          BY <5>1, ForkIsShared
        <5>3. /\ Height(Fork(trusted', disk'.tip)) \in Nat /\ Height(trusted') \in Nat
              /\ Height(Fork(trusted', disk'.tip)) <= Height(trusted')
          BY <5>1, <5>2, AncestorSelf DEF IsAncestor
        <5>4. /\ RemoveBlockHeight(peak') \in Int
              /\ RemoveBlockHeight(peak') - 1 <= Height(Fork(trusted', disk'.tip))
          BY <5>1, <5>3, RewindBound
        <5>5. peak' = peak
          BY <4>1
        <5> QED BY <5>3, <5>4, <5>5
      <4> QED BY <1>1, <2>1, <3>0, <4>1, <4>2, <4>3, ChainOnlyStep
    <3>6. CASE PeriodicFlush \/ FlushIndex \/ FlushCoins
      <4>1. /\ pc # "written" /\ pc' # "written" /\ trusted' = trusted
            /\ UNCHANGED <<contractData, removeBatch, db, writes, peak>>
        BY <3>6 DEF PeriodicFlush, FlushIndex, FlushCoins, cacheVars, ghostVars
      <4> QED
        BY <1>1, <1>2, <2>1, <3>0, <4>1, TrustedIsRecent, ChainOnlyStep, Zenon DEF TypeOK
    <3>7. CASE PruneContractContext
      BY <1>1, <3>0, <3>7, PruneStep
    <3>8. CASE Restart
      BY <1>1, <3>0, <3>8, RestartStep
    <3> QED
      BY <1>4, <3>1, <3>2, <3>3, <3>4, <3>5, <3>6, <3>7, <3>8 DEF Next
  <2> QED BY <1>2, <2>1, <2>2 DEF IndInv, ContractInv
<1> QED
  BY <1>3, <1>4

\* The cache, the lists and the data on disk stay consistent through
\* connections, reorganisations, flushes, pruning and restarts.
THEOREM Consistent == Spec => []IndInv
<1> QED
  BY InitIndInv, NextIndInv, PTL DEF Spec

\* Contracts read correctly as of the tip, whatever was connected,
\* disconnected, flushed, pruned or restarted before.
THEOREM ReadsAtTip == Spec => []TipReads
<1>1. IndInv => TipReads
  <2> SUFFICES ASSUME IndInv, pc = "idle", trusted = tip, NEW c \in Contracts
               PROVE  ReadsCorrectly(c, tip)
    BY Zenon DEF TipReads
  <2>1. /\ TypeOK /\ ChainInv /\ InSync(c) /\ Sound(c) /\ Complete(c)
        /\ Fresh(c) = {} /\ tip \in Blocks
    BY Zenon DEF IndInv, Fresh, TypeOK
  <2>2. /\ RemoveBlockHeight(peak) \in Int
        /\ RemoveBlockHeight(peak) - 1 <= Height(tip)
        /\ IsAncestor(tip, trusted)
    BY <2>1, TrustedIsRecent
  <2> QED
    BY <2>1, <2>2, CacheLookup
<1> QED
  BY <1>1, Consistent, PTL

\* Contracts read correctly after a stop at any moment and a restart, as of
\* the newest block that the flushed chain shares with the active one.
THEOREM ReadsAfterRestart == Spec => []DurableReads
<1>1. IndInv => DurableReads
  <2> SUFFICES ASSUME IndInv PROVE DurableReads
    OBVIOUS
  <2> DEFINE b == Fork(trusted, disk.tip)
  <2>1. TypeOK /\ ChainInv /\ \A c \in Contracts : Sound(c) /\ Complete(c)
    BY DEF IndInv
  <2>2. ASSUME NEW c \in Contracts
        PROVE  /\ Found(c, DbContext(c), b) = LastWrite(c, b)
               /\ LastWrite(c, b) >= 0 => GetAncestor(b, LastWrite(c, b)) \in db[c].data
    BY <2>1, TrustedIsRecent, DiskLookup, Zenon
  <2> QED
    BY <2>2, Zenon DEF DurableReads
<1> QED
  BY <1>1, Consistent, PTL
=============================================================================
