-------------------------- MODULE ChainstateProofs --------------------------
(***************************************************************************)
(* For every block tree, every placing of transactions in its blocks that  *)
(* makes no outpoint twice on a chain, every split of a flush into batches *)
(* and any number of crashes: the coins in memory are those of the tip,    *)
(* and those on disk are repaired to those of the tip they were on their   *)
(* way to.  On a branch chain the same holds as long as there is no crash. *)
(*                                                                         *)
(* What a loop of the code computes is a recursive function of the number  *)
(* of its rounds.  Facts about it are proved by induction in the form that *)
(* needs no operator as parameter: a set of numbers that holds 0 and, with *)
(* each number, the next, holds them all.                                  *)
(***************************************************************************)
EXTENDS Chainstate, WellFoundedInduction, TLAPS

(***************************************************************************)
(* Induction and recursion                                                 *)
(***************************************************************************)

\* A set with 0 that is closed under successor holds every number.
LEMMA Induct ==
    ASSUME NEW S, 0 \in S, \A n \in Nat : n \in S => n + 1 \in S
    PROVE  Nat \subseteq S
<1> DEFINE T == Nat \ S
<1> SUFFICES ASSUME T # {} PROVE FALSE
  OBVIOUS
<1>1. IsWellFoundedOn(OpToRel(<, Nat), Nat)
  BY NatLessThanWellFounded, Zenon
<1>2. T \subseteq Nat
  OBVIOUS
<1> HIDE DEF T
<1>3. PICK x \in T : \A y \in T : ~(<<y, x>> \in OpToRel(<, Nat))
  BY <1>1, <1>2, WFMin, Zenon
<1>4. x \in Nat /\ x \notin S /\ x # 0
  BY DEF T
<1>5. x - 1 \in Nat /\ x - 1 < x /\ (x - 1) + 1 = x
  BY <1>4
<1>6. x - 1 \notin S
  BY <1>4, <1>5
<1>7. x - 1 \in T
  BY <1>5, <1>6 DEF T
<1>8. <<x - 1, x>> \in OpToRel(<, Nat)
  BY <1>4, <1>5 DEF OpToRel
<1> QED
  BY <1>3, <1>7, <1>8, Zenon

\* The same up to a bound.
LEMMA InductTo ==
    ASSUME NEW n \in Nat, NEW S, 0 \in S, \A i \in 1..n : i - 1 \in S => i \in S
    PROVE  0..n \subseteq S
<1> DEFINE T == {i \in Nat : i <= n => i \in S}
<1>1. 0 \in T
  OBVIOUS
<1>2. ASSUME NEW i \in Nat, i \in T PROVE i + 1 \in T
  <2> SUFFICES ASSUME i + 1 <= n PROVE i + 1 \in S
    OBVIOUS
  <2>1. i + 1 \in 1..n /\ (i + 1) - 1 = i /\ i <= n
    OBVIOUS
  <2>2. i \in S
    BY <1>2, <2>1
  <2> QED
    BY <2>1, <2>2
<1>3. Nat \subseteq T
  <2> HIDE DEF T
  <2> QED
    BY <1>1, <1>2, Induct
<1> QED
  BY <1>3

\* The results of the rounds 0 to n of a loop that starts with s.
RunOf(S, n, s, F) == {f \in [0..n -> S] : f[0] = s /\ \A i \in 1..n : f[i] = F[i][f[i - 1]]}

\* n rounds of a loop have a result, whatever the body F of each round.
LEMMA RunExists ==
    ASSUME NEW n \in Nat, NEW S, NEW s \in S, NEW F \in [1..n -> [S -> S]]
    PROVE  RunOf(S, n, s, F) # {}
<1> DEFINE Good == {k \in 0..n : RunOf(S, k, s, F) # {}}
<1>1. 0 \in Good
  <2>1. [i \in 0..0 |-> s] \in RunOf(S, 0, s, F)
    BY DEF RunOf
  <2> QED
    BY <2>1
<1>2. ASSUME NEW k \in 1..n, k - 1 \in Good PROVE k \in Good
  <2>1. PICK f \in RunOf(S, k - 1, s, F) : TRUE
    BY <1>2
  <2> DEFINE h == [i \in 0..k |-> IF i = k THEN F[k][f[k - 1]] ELSE f[i]]
  <2>2. f[k - 1] \in S /\ F[k][f[k - 1]] \in S
    BY <2>1 DEF RunOf
  <2>3. h \in [0..k -> S]
    BY <2>1, <2>2 DEF RunOf
  <2>4. h[0] = s /\ \A i \in 0..(k - 1) : h[i] = f[i]
    BY <2>1 DEF RunOf
  <2>5. h[k] = F[k][f[k - 1]]
    OBVIOUS
  <2> HIDE DEF h
  <2>6. ASSUME NEW i \in 1..k PROVE h[i] = F[i][h[i - 1]]
    <3>1. CASE i = k
      BY <3>1, <2>4, <2>5
    <3>2. CASE i # k
      BY <3>2, <2>1, <2>4 DEF RunOf
    <3> QED
      BY <3>1, <3>2
  <2>7. h \in RunOf(S, k, s, F)
    BY <2>3, <2>4, <2>6 DEF RunOf
  <2> QED
    BY <2>7
<1>3. 0..n \subseteq Good
  <2> HIDE DEF Good
  <2> QED
    BY <1>1, <1>2, InductTo, Zenon
<1> QED
  BY <1>3

\* Two runs of a loop with the same bodies agree as long as both last.
LEMMA RunUnique ==
    ASSUME NEW n \in Nat, NEW m \in 0..n, NEW S, NEW s \in S,
           NEW F, NEW G, \A i \in 1..m : F[i] = G[i],
           NEW f \in RunOf(S, n, s, F), NEW g \in RunOf(S, m, s, G)
    PROVE  f[m] = g[m]
<1> DEFINE Same == {i \in 0..m : f[i] = g[i]}
<1>1. 0 \in Same /\ \A i \in 1..m : i - 1 \in Same => i \in Same
  BY DEF RunOf
<1>2. m \in Nat /\ m \in 0..m
  OBVIOUS
<1>3. m \in Same
  <2> HIDE DEF Same
  <2> QED
    BY <1>1, <1>2, InductTo
<1> QED
  BY <1>3

(***************************************************************************)
(* The transactions of a block                                             *)
(***************************************************************************)
\* UpdateCoins makes a map of a map.
LEMMA UpdateCoinsType ==
    ASSUME NEW b \in Blocks, NEW i \in DOMAIN BlockTxs[b], NEW c \in Maps
    PROVE  UpdateCoins(c, b, i) \in Maps
<1>1. Height(b) \in Nat
  BY TreeAssumption DEF Height
<1> QED
  BY <1>1 DEF UpdateCoins, Spend, Maps

\* ConnectBlock applies the transactions of a block one after the other.
LEMMA BeforeRun ==
    ASSUME NEW b \in Blocks, NEW c \in Maps
    PROVE  \E f \in [0..Len(BlockTxs[b]) -> Maps] :
              /\ f[0] = c
              /\ \A i \in 1..Len(BlockTxs[b]) : f[i] = UpdateCoins(f[i - 1], b, i)
              /\ \A i \in 0..Len(BlockTxs[b]) : Before(c, b, i + 1) = f[i]
<1> DEFINE n == Len(BlockTxs[b])
           F == [i \in 1..n |-> [x \in Maps |-> UpdateCoins(x, b, i)]]
<1>1. n \in Nat /\ DOMAIN BlockTxs[b] = 1..n
  BY TreeAssumption
<1>2. F \in [1..n -> [Maps -> Maps]]
  BY <1>1, UpdateCoinsType, Zenon
<1> HIDE DEF n
<1>3. PICK f \in RunOf(Maps, n, c, F) : TRUE
  <2> HIDE DEF F
  <2> QED
    BY <1>1, <1>2, RunExists
<1>4. ASSUME NEW i \in 1..n PROVE f[i] = UpdateCoins(f[i - 1], b, i)
  <2>1. i - 1 \in 0..n
    BY <1>1
  <2> QED
    BY <2>1, Zenon DEF RunOf
<1>5. ASSUME NEW k \in 0..n PROVE Before(c, b, k + 1) = f[k]
  <2> DEFINE Runs(g) == g = [i \in 0..k |-> IF i = 0 THEN c ELSE UpdateCoins(g[i - 1], b, i)]
             g == CHOOSE h : Runs(h)
  <2>1. Runs([i \in 0..k |-> f[i]])
    BY <1>1, <1>4 DEF RunOf
  <2>2. Runs(g)
    <3> HIDE DEF Runs
    <3> QED
      BY <2>1
  <2> HIDE DEF g
  <2>3. k \in Nat /\ k \in 0..k /\ 0 \in 0..k
    BY <1>1
  <2>4. g[0] = f[0]
    BY <2>2, <2>3 DEF RunOf
  <2>5. ASSUME NEW i \in 1..k, g[i - 1] = f[i - 1] PROVE g[i] = f[i]
    BY <1>1, <2>2, <2>5, <1>4
  <2> DEFINE Same == {i \in 0..k : g[i] = f[i]}
  <2>6. 0 \in Same /\ \A i \in 1..k : i - 1 \in Same => i \in Same
    BY <2>3, <2>4, <2>5
  <2>7. k \in Same
    <3> HIDE DEF Same
    <3> QED
      BY <2>3, <2>6, InductTo, Zenon
  <2>8. (k + 1) - 1 = k
    BY <2>3
  <2>9. Before(c, b, k + 1) = g[k]
    BY <2>8 DEF Before, Iterate, g
  <2> QED
    BY <2>7, <2>9
<1> HIDE DEF F
<1> QED
  BY <1>4, <1>5 DEF RunOf, n

\* Outpoints that transaction i of b spends or makes.
TouchedBy(b, i) ==
    IF Branch2ndBlockTx(b, i) THEN {} ELSE Inputs(BlockTxs[b][i]) \cup BlockTxs[b][i].outs
Touched(b) == UNION {TouchedBy(b, i) : i \in DOMAIN BlockTxs[b]}

\* The transactions of a block are a sequence and its height is a number.
LEMMA TxsOf ==
    ASSUME NEW b \in Blocks
    PROVE  /\ Len(BlockTxs[b]) \in Nat
           /\ DOMAIN BlockTxs[b] = 1..Len(BlockTxs[b])
           /\ Height(b) \in Nat
  BY TreeAssumption DEF Height

\* The ancestors of a block are blocks, and each is the parent of the next.
LEMMA Ancestors ==
    ASSUME NEW b \in Blocks, NEW h \in 0..Height(b)
    PROVE  /\ GetAncestor(b, h) \in Blocks
           /\ Height(GetAncestor(b, h)) = h
           /\ \A k \in 0..h : GetAncestor(GetAncestor(b, h), k) = GetAncestor(b, k)
           /\ h # 0 => GetAncestor(b, h) # Genesis /\ Parent(GetAncestor(b, h)) = GetAncestor(b, h - 1)
           /\ h = Height(b) => GetAncestor(b, h) = b
           /\ h = 0 => GetAncestor(b, h) = Genesis
<1>1. b \in Seq(Nat) /\ Len(b) \in Nat /\ h \in 0..Len(b) /\ Height(b) = Len(b)
  BY TreeAssumption DEF Height
<1>2. GetAncestor(b, h) \in Blocks
  BY TreeAssumption
<1>3. Len(SubSeq(b, 1, h)) = h /\ SubSeq(b, 1, h) \in Seq(Nat)
  BY <1>1
<1>4. \A k \in 0..h : SubSeq(SubSeq(b, 1, h), 1, k) = SubSeq(b, 1, k)
  BY <1>1, <1>3
<1>5. h = Len(b) => SubSeq(b, 1, h) = b
  BY <1>1
<1>6. h # 0 => h - 1 \in 0..h /\ SubSeq(b, 1, h) # <<>>
  BY <1>1, <1>3
<1>7. h = 0 => SubSeq(b, 1, h) = <<>>
  BY <1>1
<1> QED
  BY <1>1, <1>2, <1>3, <1>4, <1>5, <1>6, <1>7 DEF GetAncestor, Height, Parent, Genesis

\* A block but the first has a parent with the same ancestors.
LEMMA ParentOf ==
    ASSUME NEW b \in Blocks, b # Genesis
    PROVE  /\ Parent(b) \in Blocks /\ Height(b) \in Nat \ {0} /\ Height(Parent(b)) = Height(b) - 1
           /\ \A k \in 0..(Height(b) - 1) : GetAncestor(Parent(b), k) = GetAncestor(b, k)
<1>1. b \in Seq(Nat) /\ Height(b) \in Nat /\ Height(b) # 0
  BY TreeAssumption DEF Height, Genesis
<1>2. Height(b) - 1 \in 0..Height(b)
  BY <1>1
<1> QED
  BY <1>1, <1>2, Ancestors DEF Parent

\* The coins before each transaction follow from those before the last.
LEMMA BeforeStep ==
    ASSUME NEW b \in Blocks, NEW c \in Maps
    PROVE  /\ Before(c, b, 1) = c
           /\ \A i \in 1..(Len(BlockTxs[b]) + 1) : Before(c, b, i) \in Maps
           /\ \A i \in 1..Len(BlockTxs[b]) : Before(c, b, i + 1) = UpdateCoins(Before(c, b, i), b, i)
<1> DEFINE n == Len(BlockTxs[b])
<1>1. PICK f \in [0..n -> Maps] :
              /\ f[0] = c
              /\ \A i \in 1..n : f[i] = UpdateCoins(f[i - 1], b, i)
              /\ \A i \in 0..n : Before(c, b, i + 1) = f[i]
  BY BeforeRun
<1>2. n \in Nat
  BY TxsOf
<1> HIDE DEF n
<1>3. ASSUME NEW i \in 1..(n + 1) PROVE Before(c, b, i) = f[i - 1] /\ f[i - 1] \in Maps
  <2>1. i - 1 \in 0..n /\ (i - 1) + 1 = i
    BY <1>2
  <2> QED
    BY <1>1, <2>1
<1>4. Before(c, b, 1) = c
  BY <1>1, <1>2, <1>3
<1>5. ASSUME NEW i \in 1..n PROVE Before(c, b, i + 1) = UpdateCoins(Before(c, b, i), b, i)
  <2>1. i \in 0..n /\ i \in 1..(n + 1)
    BY <1>2
  <2> QED
    BY <1>1, <1>3, <2>1
<1> QED
  BY <1>3, <1>4, <1>5 DEF n

\* A transaction determines the coin of what it touches, and of nothing else.
LEMMA UpdateCoinsAt ==
    ASSUME NEW b \in Blocks, NEW i \in DOMAIN BlockTxs[b], NEW c \in Maps, NEW o \in OutPoints
    PROVE  /\ o \notin TouchedBy(b, i) => UpdateCoins(c, b, i)[o] = c[o]
           /\ o \in TouchedBy(b, i) =>
                 UpdateCoins(c, b, i)[o] = IF o \in BlockTxs[b][i].outs THEN Height(b) ELSE NoCoin
  BY DEF UpdateCoins, Spend, TouchedBy

\* So it does in RollforwardBlock, on the main chain.
LEMMA SpendAt ==
    ASSUME NEW b \in Blocks, NEW i \in DOMAIN BlockTxs[b], NEW c \in Maps, NEW o \in OutPoints, MainChain
    PROVE  LET d == Spend(c, BlockTxs[b][i], Height(b))
           IN  /\ d \in Maps
               /\ o \notin TouchedBy(b, i) => d[o] = c[o]
               /\ o \in TouchedBy(b, i) => d[o] = IF o \in BlockTxs[b][i].outs THEN Height(b) ELSE NoCoin
<1>1. ~Branch2ndBlockTx(b, i)
  BY DEF Branch2ndBlockTx
<1>2. Height(b) \in Nat
  BY TxsOf
<1> QED
  BY <1>1, <1>2 DEF Spend, TouchedBy, Maps

\* An outpoint no transaction before i touches keeps its coin.
LEMMA BeforeUntouched ==
    ASSUME NEW b \in Blocks, NEW c \in Maps, NEW o \in OutPoints,
           NEW i \in 1..(Len(BlockTxs[b]) + 1), \A j \in 1..(i - 1) : o \notin TouchedBy(b, j)
    PROVE  Before(c, b, i)[o] = c[o]
<1> DEFINE n == Len(BlockTxs[b])
           Same == {k \in 0..(i - 1) : Before(c, b, k + 1)[o] = c[o]}
<1>1. n \in Nat /\ DOMAIN BlockTxs[b] = 1..n
  BY TxsOf
<1> HIDE DEF n
<1>2. 0 \in Same
  BY <1>1, BeforeStep DEF n
<1>3. ASSUME NEW k \in 1..(i - 1), k - 1 \in Same PROVE k \in Same
  <2>1. k \in 1..n /\ k \in 1..(n + 1) /\ (k - 1) + 1 = k
    BY <1>1 DEF n
  <2>2. Before(c, b, k + 1) = UpdateCoins(Before(c, b, k), b, k) /\ Before(c, b, k) \in Maps
    BY <2>1, BeforeStep DEF n
  <2>3. Before(c, b, k)[o] = c[o]
    BY <1>3, <2>1
  <2>4. k \in DOMAIN BlockTxs[b] /\ o \notin TouchedBy(b, k)
    BY <1>1, <2>1
  <2> QED
    BY <2>2, <2>3, <2>4, UpdateCoinsAt
<1>4. i - 1 \in Nat /\ i - 1 \in 0..(i - 1) /\ (i - 1) + 1 = i
  BY <1>1 DEF n
<1>5. i - 1 \in Same
  <2> HIDE DEF Same
  <2> QED
    BY <1>2, <1>3, <1>4, InductTo, Zenon
<1> QED
  BY <1>4, <1>5

\* An outpoint that is not there and that no transaction before i makes is not there.
LEMMA BeforeNotMade ==
    ASSUME NEW b \in Blocks, NEW c \in Maps, NEW o \in OutPoints, c[o] = NoCoin,
           NEW i \in 1..(Len(BlockTxs[b]) + 1), \A j \in 1..(i - 1) : o \notin BlockTxs[b][j].outs
    PROVE  Before(c, b, i)[o] = NoCoin
<1> DEFINE n == Len(BlockTxs[b])
           Same == {k \in 0..(i - 1) : Before(c, b, k + 1)[o] = NoCoin}
<1>1. n \in Nat /\ DOMAIN BlockTxs[b] = 1..n
  BY TxsOf
<1> HIDE DEF n
<1>2. 0 \in Same
  BY <1>1, BeforeStep DEF n
<1>3. ASSUME NEW k \in 1..(i - 1), k - 1 \in Same PROVE k \in Same
  <2>1. k \in 1..n /\ k \in 1..(n + 1) /\ (k - 1) + 1 = k
    BY <1>1 DEF n
  <2>2. Before(c, b, k + 1) = UpdateCoins(Before(c, b, k), b, k) /\ Before(c, b, k) \in Maps
    BY <2>1, BeforeStep DEF n
  <2>3. Before(c, b, k)[o] = NoCoin
    BY <1>3, <2>1
  <2>4. k \in DOMAIN BlockTxs[b] /\ o \notin BlockTxs[b][k].outs
    BY <1>1, <2>1
  <2> QED
    BY <2>2, <2>3, <2>4, UpdateCoinsAt
<1>4. i - 1 \in Nat /\ i - 1 \in 0..(i - 1) /\ (i - 1) + 1 = i
  BY <1>1 DEF n
<1>5. i - 1 \in Same
  <2> HIDE DEF Same
  <2> QED
    BY <1>2, <1>3, <1>4, InductTo, Zenon
<1> QED
  BY <1>4, <1>5

\* ConnectBlock makes a map of a map.
LEMMA ConnectBlockType ==
    ASSUME NEW b \in Blocks, NEW c \in Maps
    PROVE  ConnectBlock(c, b) \in Maps
<1>1. Len(BlockTxs[b]) + 1 \in 1..(Len(BlockTxs[b]) + 1)
  BY TxsOf
<1> QED
  BY <1>1, BeforeStep DEF ConnectBlock

(***************************************************************************)
(* The coins of a chain, and undoing a block                               *)
(***************************************************************************)
\* The coins of a chain follow from those of its parent.
LEMMA UtxoStep ==
    /\ utxo \in [Blocks -> Maps]
    /\ utxo[Genesis] = NoCoins
    /\ \A b \in Blocks : b # Genesis => utxo[b] = ConnectBlock(utxo[Parent(b)], b)
<1> DEFINE F(b) == [h \in 1..Height(b) |-> [c \in Maps |-> ConnectBlock(c, GetAncestor(b, h))]]
           R(b) == RunOf(Maps, Height(b), NoCoins, F(b))
           r(b) == CHOOSE f \in R(b) : TRUE
           w == [b \in Blocks |-> r(b)[Height(b)]]
           Fixed(u) == u = [b \in Blocks |-> IF b = Genesis THEN NoCoins ELSE ConnectBlock(u[Parent(b)], b)]
<1>1. NoCoins \in Maps
  BY DEF NoCoins, Maps
<1>2. ASSUME NEW b \in Blocks PROVE Height(b) \in Nat /\ F(b) \in [1..Height(b) -> [Maps -> Maps]]
  <2>1. Height(b) \in Nat
    BY TxsOf
  <2>2. \A h \in 1..Height(b) : GetAncestor(b, h) \in Blocks
    BY <2>1, Ancestors
  <2> QED
    BY <2>1, <2>2, ConnectBlockType
<1>3. ASSUME NEW b \in Blocks PROVE r(b) \in R(b)
  <2>1. R(b) # {}
    <3> HIDE DEF F
    <3> QED
      BY <1>1, <1>2, RunExists
  <2> HIDE DEF R
  <2> QED
    BY <2>1
<1>4. ASSUME NEW b \in Blocks, b # Genesis PROVE w[b] = ConnectBlock(w[Parent(b)], b)
  <2> DEFINE n == Height(b)
             p == Parent(b)
  <2>1. n \in Nat \ {0} /\ p \in Blocks /\ Height(p) = n - 1 /\ n - 1 \in 0..n
    BY <1>4, ParentOf
  <2>2. \A k \in 0..(n - 1) : GetAncestor(p, k) = GetAncestor(b, k)
    BY <1>4, ParentOf
  <2>3. GetAncestor(b, n) = b
    BY <2>1, Ancestors
  <2>4. \A h \in 1..(n - 1) : F(b)[h] = F(p)[h]
    BY <2>1, <2>2
  <2>5. r(b) \in RunOf(Maps, n, NoCoins, F(b)) /\ r(p) \in RunOf(Maps, n - 1, NoCoins, F(p))
    BY <1>3, <2>1, Zenon
  <2>6. F(b)[n] = [c \in Maps |-> ConnectBlock(c, b)]
    BY <2>1, <2>3
  <2>7. w[b] = r(b)[n] /\ w[p] = r(p)[n - 1]
    BY <2>1
  <2> HIDE DEF F, r, w, n, p
  <2>8. r(b)[n - 1] = r(p)[n - 1]
    <3> DEFINE k == n - 1
               G == F(b)
               Gp == F(p)
               f == r(b)
               fp == r(p)
    <3>1. n \in Nat /\ k \in 0..n
      BY <2>1
    <3>2. \A h \in 1..k : G[h] = Gp[h]
      BY <2>4
    <3>3. f \in RunOf(Maps, n, NoCoins, G) /\ fp \in RunOf(Maps, k, NoCoins, Gp)
      BY <2>5
    <3> HIDE DEF k, G, Gp, f, fp
    <3>4. f[k] = fp[k]
      BY <1>1, <3>1, <3>2, <3>3, RunUnique
    <3> QED
      BY <3>4 DEF k, f, fp
  <2>9. r(b)[n] = F(b)[n][r(b)[n - 1]] /\ r(b)[n - 1] \in Maps
    BY <2>1, <2>5 DEF RunOf
  <2> QED
    BY <2>6, <2>7, <2>8, <2>9 DEF p
<1>5. w \in [Blocks -> Maps]
  <2> SUFFICES ASSUME NEW b \in Blocks PROVE r(b)[Height(b)] \in Maps
    OBVIOUS
  <2> HIDE DEF r
  <2> QED
    BY <1>2, <1>3 DEF RunOf
<1>6. w[Genesis] = NoCoins
  <2>1. Height(Genesis) = 0 /\ Genesis \in Blocks
    BY TreeAssumption DEF Height, Genesis
  <2> HIDE DEF r
  <2> QED
    BY <1>3, <2>1 DEF RunOf
<1>7. Fixed(w)
  <2>1. w = [b \in Blocks |-> w[b]]
    OBVIOUS
  <2> HIDE DEF w
  <2> QED
    BY <1>4, <1>6, <2>1, Zenon
<1>8. Fixed(utxo)
  <2> HIDE DEF Fixed
  <2> QED
    BY <1>7, Zenon DEF utxo, Fixed
<1>9. ASSUME NEW b \in Blocks
      PROVE  utxo[b] = IF b = Genesis THEN NoCoins ELSE ConnectBlock(utxo[Parent(b)], b)
  BY <1>8
<1>10. \A b \in Blocks : utxo[b] \in Maps
  <2> DEFINE Good == {n \in Nat : \A b \in Blocks : Height(b) = n => utxo[b] \in Maps}
  <2>1. 0 \in Good
    <3> SUFFICES ASSUME NEW b \in Blocks, Height(b) = 0 PROVE utxo[b] \in Maps
      OBVIOUS
    <3>1. b = Genesis
      BY ParentOf
    <3> QED
      BY <1>1, <1>9, <3>1
  <2>2. ASSUME NEW n \in Nat, n \in Good PROVE n + 1 \in Good
    <3> SUFFICES ASSUME NEW b \in Blocks, Height(b) = n + 1 PROVE utxo[b] \in Maps
      OBVIOUS
    <3>1. b # Genesis
      BY DEF Genesis, Height
    <3>2. Parent(b) \in Blocks /\ Height(Parent(b)) = n
      BY <3>1, ParentOf
    <3>3. utxo[Parent(b)] \in Maps
      BY <2>2, <3>2
    <3> QED
      BY <1>9, <3>1, <3>3, ConnectBlockType
  <2>3. Nat \subseteq Good
    <3> HIDE DEF Good
    <3> QED
      BY <2>1, <2>2, Induct
  <2> QED
    BY <2>3, TxsOf, Zenon
<1>11. utxo = [b \in Blocks |-> utxo[b]]
  BY <1>8
<1>12. Genesis \in Blocks
  BY TreeAssumption
<1> QED
  BY <1>9, <1>10, <1>11, <1>12, Zenon

\* A chain has no coin that none of its transactions makes.
LEMMA UtxoNotMade ==
    ASSUME NEW b \in Blocks, NEW o \in OutPoints,
           \A h \in 1..Height(b) : \A j \in DOMAIN BlockTxs[GetAncestor(b, h)] :
               o \notin BlockTxs[GetAncestor(b, h)][j].outs
    PROVE  utxo[b][o] = NoCoin
<1> DEFINE S == {h \in 0..Height(b) : utxo[GetAncestor(b, h)][o] = NoCoin}
<1>1. Height(b) \in Nat
  BY TxsOf
<1>2. 0 \in S
  <2>1. 0 \in 0..Height(b) /\ GetAncestor(b, 0) = Genesis
    BY <1>1, Ancestors
  <2> QED
    BY <2>1, UtxoStep DEF NoCoins
<1>3. ASSUME NEW h \in 1..Height(b), h - 1 \in S PROVE h \in S
  <2> DEFINE c == GetAncestor(b, h)
             n == Len(BlockTxs[c])
  <2>1. h \in 0..Height(b) /\ h # 0
    BY <1>1
  <2>2. c \in Blocks /\ c # Genesis /\ Parent(c) = GetAncestor(b, h - 1) /\ Parent(c) \in Blocks
    BY <2>1, Ancestors, ParentOf
  <2>3. utxo[c] = Before(utxo[Parent(c)], c, n + 1) /\ utxo[Parent(c)] \in Maps
    BY <2>2, UtxoStep DEF ConnectBlock
  <2>4. utxo[Parent(c)][o] = NoCoin
    BY <1>3, <2>2
  <2>5. n \in Nat /\ DOMAIN BlockTxs[c] = 1..n /\ n + 1 \in 1..(n + 1) /\ (n + 1) - 1 = n
    BY <2>2, TxsOf
  <2>6. \A j \in 1..n : o \notin BlockTxs[c][j].outs
    BY <2>5
  <2> HIDE DEF c
  <2>7. utxo[c][o] = NoCoin
    BY <2>2, <2>3, <2>4, <2>5, <2>6, BeforeNotMade
  <2> QED
    BY <2>1, <2>7 DEF c
<1>4. Height(b) \in S
  <2> HIDE DEF S
  <2> QED
    BY <1>1, <1>2, <1>3, InductTo
<1>5. GetAncestor(b, Height(b)) = b
  BY <1>1, Ancestors
<1> QED
  BY <1>4, <1>5

\* UndoTx makes a map of a map.
LEMMA UndoTxType ==
    ASSUME NEW b \in Blocks, b # Genesis, NEW i \in DOMAIN BlockTxs[b], NEW c \in Maps
    PROVE  UndoTx(c, b, i) \in Maps
<1>1. i \in 1..(Len(BlockTxs[b]) + 1)
  BY TxsOf
<1>2. utxo[Parent(b)] \in Maps
  BY ParentOf, UtxoStep
<1>3. Before(utxo[Parent(b)], b, i) \in Maps
  BY <1>1, <1>2, BeforeStep
<1> QED
  BY <1>3 DEF UndoTx, Maps

\* What transaction i touches is restored to what it was before.
LEMMA UndoTxAt ==
    ASSUME NEW b \in Blocks, b # Genesis, NEW i \in DOMAIN BlockTxs[b], NEW c \in Maps, NEW o \in OutPoints
    PROVE  UndoTx(c, b, i)[o] = IF o \in TouchedBy(b, i) THEN Before(utxo[Parent(b)], b, i)[o] ELSE c[o]
<1> DEFINE p == Parent(b)
           n == Len(BlockTxs[b])
<1>1. CASE o \notin TouchedBy(b, i)
  BY <1>1 DEF UndoTx, TouchedBy
<1>2. CASE o \in TouchedBy(b, i) /\ o \in Inputs(BlockTxs[b][i])
  BY <1>2 DEF UndoTx, TouchedBy
<1>3. CASE o \in TouchedBy(b, i) /\ o \notin Inputs(BlockTxs[b][i])
  <2>1. o \in BlockTxs[b][i].outs /\ UndoTx(c, b, i)[o] = NoCoin
    BY <1>3 DEF UndoTx, TouchedBy
  <2>2. /\ p \in Blocks /\ Height(b) \in Nat \ {0} /\ Height(p) = Height(b) - 1
        /\ \A k \in 0..(Height(b) - 1) : GetAncestor(p, k) = GetAncestor(b, k)
    BY ParentOf
  <2>3. i \in 1..(n + 1) /\ n \in Nat /\ DOMAIN BlockTxs[b] = 1..n
    BY TxsOf
  <2>4. utxo[p][o] = NoCoin
    <3>1. ASSUME NEW h \in 1..Height(p), NEW j \in DOMAIN BlockTxs[GetAncestor(p, h)]
          PROVE  o \notin BlockTxs[GetAncestor(p, h)][j].outs
      <4>1. GetAncestor(p, h) = GetAncestor(b, h) /\ h \in 1..Height(b) /\ h # Height(b)
        BY <2>2
      <4> QED
        BY <2>1, <4>1, MadeOnceAssumption
    <3> QED
      BY <2>2, <3>1, UtxoNotMade
  <2>5. \A j \in 1..(i - 1) : o \notin BlockTxs[b][j].outs
    <3> SUFFICES ASSUME NEW j \in 1..(i - 1) PROVE o \notin BlockTxs[b][j].outs
      OBVIOUS
    <3>1. j \in DOMAIN BlockTxs[b] /\ i # j
      BY <2>3
    <3>2. Height(b) \in 1..Height(b) /\ Height(b) \in 0..Height(b)
      BY <2>2
    <3>3. GetAncestor(b, Height(b)) = b
      BY <3>2, Ancestors
    <3> QED
      BY <2>1, <3>1, <3>2, <3>3, MadeOnceAssumption
  <2>6. utxo[p] \in Maps
    BY <2>2, UtxoStep
  <2>7. Before(utxo[p], b, i)[o] = NoCoin
    <3> HIDE DEF p
    <3> QED
      BY <2>3, <2>4, <2>5, <2>6, BeforeNotMade
  <2> QED
    BY <1>3, <2>1, <2>7
<1> QED
  BY <1>1, <1>2, <1>3

\* DisconnectBlock undoes the transactions one after the other.
LEMMA UndoRun ==
    ASSUME NEW b \in Blocks, b # Genesis, NEW c \in Maps
    PROVE  \E f \in [0..Len(BlockTxs[b]) -> Maps] :
              /\ f[0] = c
              /\ \A i \in 1..Len(BlockTxs[b]) : f[i] = UndoTx(f[i - 1], b, Len(BlockTxs[b]) + 1 - i)
              /\ DisconnectBlock(c, b) = f[Len(BlockTxs[b])]
<1> DEFINE n == Len(BlockTxs[b])
           F == [i \in 1..n |-> [x \in Maps |-> UndoTx(x, b, Len(BlockTxs[b]) + 1 - i)]]
<1>1. n \in Nat
  BY TxsOf
<1>2. \A i \in 1..n, x \in Maps : UndoTx(x, b, Len(BlockTxs[b]) + 1 - i) \in Maps
  <2> SUFFICES ASSUME NEW i \in 1..n, NEW x \in Maps PROVE UndoTx(x, b, Len(BlockTxs[b]) + 1 - i) \in Maps
    OBVIOUS
  <2>1. Len(BlockTxs[b]) + 1 - i \in DOMAIN BlockTxs[b]
    BY TxsOf
  <2> QED
    BY <2>1, UndoTxType
<1>3. F \in [1..n -> [Maps -> Maps]]
  BY <1>2
<1> HIDE DEF n
<1>4. PICK f \in RunOf(Maps, n, c, F) : TRUE
  <2> HIDE DEF F
  <2> QED
    BY <1>1, <1>3, RunExists
<1>5. ASSUME NEW i \in 1..n PROVE f[i] = UndoTx(f[i - 1], b, Len(BlockTxs[b]) + 1 - i)
  <2>1. i - 1 \in 0..n
    BY <1>1
  <2> QED
    BY <2>1, Zenon DEF RunOf
<1> DEFINE Runs(g) == g = [i \in 0..n |-> IF i = 0 THEN c ELSE UndoTx(g[i - 1], b, Len(BlockTxs[b]) + 1 - i)]
           g == CHOOSE h : Runs(h)
<1>6. Runs(f)
  BY <1>1, <1>5 DEF RunOf
<1>7. Runs(g)
  <2> HIDE DEF Runs
  <2> QED
    BY <1>6
<1> HIDE DEF g
<1> DEFINE Same == {i \in 0..n : g[i] = f[i]}
<1>8. 0 \in Same
  BY <1>1, <1>7 DEF RunOf
<1>9. ASSUME NEW i \in 1..n, i - 1 \in Same PROVE i \in Same
  <2>1. i \in 0..n /\ i - 1 \in 0..n /\ i # 0
    BY <1>1
  <2>2. g[i - 1] = f[i - 1]
    BY <1>9
  <2>3. g[i] = UndoTx(g[i - 1], b, Len(BlockTxs[b]) + 1 - i)
    BY <1>7, <2>1
  <2> QED
    BY <1>5, <2>1, <2>2, <2>3
<1>10. g[n] = f[n]
  <2> HIDE DEF Same
  <2>1. n \in 0..n
    BY <1>1
  <2>2. n \in Same
    BY <1>1, <1>8, <1>9, <2>1, InductTo, Zenon
  <2> QED
    BY <2>2 DEF Same
<1>11. DisconnectBlock(c, b) = g[n]
  BY DEF DisconnectBlock, Iterate, g, n
<1> QED
  BY <1>1, <1>5, <1>10, <1>11 DEF RunOf, n

\* DisconnectBlock makes a map of a map.
LEMMA DisconnectBlockType ==
    ASSUME NEW b \in Blocks, b # Genesis, NEW c \in Maps
    PROVE  DisconnectBlock(c, b) \in Maps
<1> DEFINE n == Len(BlockTxs[b])
<1>1. PICK f \in [0..n -> Maps] : DisconnectBlock(c, b) = f[n]
  BY UndoRun
<1>2. n \in 0..n
  BY TxsOf
<1> QED
  BY <1>1, <1>2

\* DisconnectBlock makes of any coins, at what b touches, those of its parent.
LEMMA DisconnectAt ==
    ASSUME NEW b \in Blocks, b # Genesis, NEW c \in Maps, NEW o \in OutPoints
    PROVE  DisconnectBlock(c, b)[o] = IF o \in Touched(b) THEN utxo[Parent(b)][o] ELSE c[o]
<1> DEFINE n == Len(BlockTxs[b])
           u(i) == Before(utxo[Parent(b)], b, i)
           Late(k) == \E j \in (n + 1 - k)..n : o \in TouchedBy(b, j)
<1>1. n \in Nat /\ DOMAIN BlockTxs[b] = 1..n
  BY TxsOf
<1>2. PICK f \in [0..n -> Maps] :
              /\ f[0] = c
              /\ \A i \in 1..n : f[i] = UndoTx(f[i - 1], b, n + 1 - i)
              /\ DisconnectBlock(c, b) = f[n]
  BY UndoRun
<1>3. utxo[Parent(b)] \in Maps
  BY ParentOf, UtxoStep
<1>4. \A i \in 1..n : u(i + 1) = UpdateCoins(u(i), b, i) /\ u(i) \in Maps
  <2> SUFFICES ASSUME NEW i \in 1..n PROVE u(i + 1) = UpdateCoins(u(i), b, i) /\ u(i) \in Maps
    OBVIOUS
  <2>1. i \in 1..(n + 1)
    BY <1>1
  <2> QED
    BY <1>3, <2>1, BeforeStep
<1>5. u(1) = utxo[Parent(b)]
  BY <1>3, BeforeStep
<1> HIDE DEF n, u
<1> DEFINE S == {k \in 0..n : f[k][o] = IF Late(k) THEN u(n + 1 - k)[o] ELSE c[o]}
<1>6. 0 \in S
  <2>1. ~Late(0)
    BY <1>1
  <2> QED
    BY <1>1, <1>2, <2>1
<1>7. ASSUME NEW k \in 1..n, k - 1 \in S PROVE k \in S
  <2> DEFINE m == n + 1 - k
  <2>1. k \in 0..n /\ k - 1 \in 0..n /\ m \in 1..n /\ m + 1 = n + 1 - (k - 1)
    BY <1>1
  <2>2. f[k - 1] \in Maps /\ f[k] = UndoTx(f[k - 1], b, m)
    BY <1>2, <2>1
  <2>3. f[k][o] = IF o \in TouchedBy(b, m) THEN u(m)[o] ELSE f[k - 1][o]
    BY <1>1, <2>1, <2>2, UndoTxAt DEF u
  <2>4. f[k - 1][o] = IF Late(k - 1) THEN u(m + 1)[o] ELSE c[o]
    BY <1>7, <2>1
  <2>5. u(m + 1) = UpdateCoins(u(m), b, m) /\ u(m) \in Maps
    BY <1>4, <2>1
  <2>6. o \notin TouchedBy(b, m) => u(m + 1)[o] = u(m)[o]
    BY <1>1, <2>1, <2>5, UpdateCoinsAt
  <2>7. m..n = {m} \cup (m + 1)..n
    BY <1>1, <2>1
  <2>8. Late(k) <=> o \in TouchedBy(b, m) \/ Late(k - 1)
    BY <2>1, <2>7
  <2> HIDE DEF Late, m
  <2>9. f[k][o] = IF Late(k) THEN u(m)[o] ELSE c[o]
    BY <2>3, <2>4, <2>6, <2>8
  <2> QED
    BY <2>1, <2>9 DEF m
<1>8. n \in S
  <2> HIDE DEF S
  <2>1. n \in 0..n
    BY <1>1
  <2> QED
    BY <1>1, <1>6, <1>7, <2>1, InductTo, Zenon
<1>9. n + 1 - n = 1
  BY <1>1
<1>10. Late(n) <=> o \in Touched(b)
  BY <1>1, <1>9 DEF Touched
<1> HIDE DEF Late
<1> QED
  BY <1>2, <1>5, <1>8, <1>9, <1>10

\* What a block does not touch has the coin it had.
LEMMA UtxoUntouched ==
    ASSUME NEW b \in Blocks, b # Genesis, NEW o \in OutPoints, o \notin Touched(b)
    PROVE  utxo[b][o] = utxo[Parent(b)][o]
<1> DEFINE n == Len(BlockTxs[b])
<1>1. utxo[Parent(b)] \in Maps /\ utxo[b] = Before(utxo[Parent(b)], b, n + 1)
  BY ParentOf, UtxoStep DEF ConnectBlock
<1>2. n + 1 \in 1..(n + 1) /\ \A j \in 1..((n + 1) - 1) : o \notin TouchedBy(b, j)
  BY TxsOf DEF Touched
<1> QED
  BY <1>1, <1>2, BeforeUntouched

\* A block that is disconnected from its own coins leaves those of its parent.
LEMMA DisconnectTipCoins ==
    ASSUME NEW b \in Blocks, b # Genesis
    PROVE  DisconnectBlock(utxo[b], b) = utxo[Parent(b)]
<1> DEFINE d == DisconnectBlock(utxo[b], b)
<1>1. utxo[b] \in Maps /\ utxo[Parent(b)] \in Maps
  BY ParentOf, UtxoStep
<1>2. d \in Maps
  BY <1>1, DisconnectBlockType
<1>3. ASSUME NEW o \in OutPoints PROVE d[o] = utxo[Parent(b)][o]
  BY <1>1, DisconnectAt, UtxoUntouched
<1> HIDE DEF d
<1> QED
  BY <1>1, <1>2, <1>3 DEF Maps, d

\* RollforwardBlock applies the transactions one after the other.
LEMMA RollforwardBlockRun ==
    ASSUME NEW b \in Blocks, NEW c \in Maps, MainChain
    PROVE  \E f \in [0..Len(BlockTxs[b]) -> Maps] :
              /\ f[0] = c
              /\ \A i \in 1..Len(BlockTxs[b]) : f[i] = Spend(f[i - 1], BlockTxs[b][i], Height(b))
              /\ RollforwardBlock(c, b) = f[Len(BlockTxs[b])]
<1> DEFINE n == Len(BlockTxs[b])
           F == [i \in 1..n |-> [x \in Maps |-> Spend(x, BlockTxs[b][i], Height(b))]]
<1>1. n \in Nat
  BY TxsOf
<1>2. \A i \in 1..n, x \in Maps : Spend(x, BlockTxs[b][i], Height(b)) \in Maps
  BY TxsOf DEF Spend, Maps
<1>3. F \in [1..n -> [Maps -> Maps]]
  BY <1>2
<1> HIDE DEF n
<1>4. PICK f \in RunOf(Maps, n, c, F) : TRUE
  <2> HIDE DEF F
  <2> QED
    BY <1>1, <1>3, RunExists
<1>5. ASSUME NEW i \in 1..n PROVE f[i] = Spend(f[i - 1], BlockTxs[b][i], Height(b))
  <2>1. i - 1 \in 0..n
    BY <1>1
  <2> QED
    BY <2>1, Zenon DEF RunOf
<1> DEFINE Runs(g) == g = [i \in 0..n |-> IF i = 0 THEN c ELSE Spend(g[i - 1], BlockTxs[b][i], Height(b))]
           g == CHOOSE h : Runs(h)
<1>6. Runs(f)
  BY <1>1, <1>5 DEF RunOf
<1>7. Runs(g)
  <2> HIDE DEF Runs
  <2> QED
    BY <1>6
<1> HIDE DEF g
<1> DEFINE Same == {i \in 0..n : g[i] = f[i]}
<1>8. 0 \in Same
  BY <1>1, <1>7 DEF RunOf
<1>9. ASSUME NEW i \in 1..n, i - 1 \in Same PROVE i \in Same
  <2>1. i \in 0..n /\ i - 1 \in 0..n /\ i # 0
    BY <1>1
  <2>2. g[i - 1] = f[i - 1]
    BY <1>9
  <2>3. g[i] = Spend(g[i - 1], BlockTxs[b][i], Height(b))
    BY <1>7, <2>1
  <2> QED
    BY <1>5, <2>1, <2>2, <2>3
<1>10. g[n] = f[n]
  <2> HIDE DEF Same
  <2>1. n \in 0..n
    BY <1>1
  <2>2. n \in Same
    BY <1>1, <1>8, <1>9, <2>1, InductTo, Zenon
  <2> QED
    BY <2>2 DEF Same
<1>11. RollforwardBlock(c, b) = g[n]
  BY DEF RollforwardBlock, Iterate, g, n
<1> QED
  BY <1>1, <1>5, <1>10, <1>11 DEF RunOf, n

\* RollforwardBlock makes a map of a map.
LEMMA RollforwardBlockType ==
    ASSUME NEW b \in Blocks, NEW c \in Maps, MainChain
    PROVE  RollforwardBlock(c, b) \in Maps
<1> DEFINE n == Len(BlockTxs[b])
<1>1. PICK f \in [0..n -> Maps] : RollforwardBlock(c, b) = f[n]
  BY RollforwardBlockRun
<1>2. n \in 0..n
  BY TxsOf
<1> QED
  BY <1>1, <1>2

\* RollforwardBlock makes of any coins, at what b touches, those ConnectBlock makes.
LEMMA RollforwardBlockAt ==
    ASSUME NEW b \in Blocks, NEW c \in Maps, NEW d \in Maps, NEW o \in OutPoints, MainChain
    PROVE  RollforwardBlock(c, b)[o] = IF o \in Touched(b) THEN ConnectBlock(d, b)[o] ELSE c[o]
<1> DEFINE n == Len(BlockTxs[b])
           u(i) == Before(d, b, i)
           Early(k) == \E j \in 1..k : o \in TouchedBy(b, j)
<1>1. n \in Nat /\ DOMAIN BlockTxs[b] = 1..n
  BY TxsOf
<1>2. PICK f \in [0..n -> Maps] :
              /\ f[0] = c
              /\ \A i \in 1..n : f[i] = Spend(f[i - 1], BlockTxs[b][i], Height(b))
              /\ RollforwardBlock(c, b) = f[n]
  BY RollforwardBlockRun
<1>3. \A i \in 1..n : u(i + 1) = UpdateCoins(u(i), b, i) /\ u(i) \in Maps
  <2> SUFFICES ASSUME NEW i \in 1..n PROVE u(i + 1) = UpdateCoins(u(i), b, i) /\ u(i) \in Maps
    OBVIOUS
  <2>1. i \in 1..(n + 1)
    BY <1>1
  <2> QED
    BY <2>1, BeforeStep
<1> HIDE DEF n, u
<1> DEFINE S == {k \in 0..n : f[k][o] = IF Early(k) THEN u(k + 1)[o] ELSE c[o]}
<1>4. 0 \in S
  <2>1. ~Early(0)
    BY <1>1
  <2> QED
    BY <1>1, <1>2, <2>1
<1>5. ASSUME NEW k \in 1..n, k - 1 \in S PROVE k \in S
  <2>1. k \in 0..n /\ k - 1 \in 0..n /\ (k - 1) + 1 = k
    BY <1>1
  <2>2. f[k - 1] \in Maps /\ f[k] = Spend(f[k - 1], BlockTxs[b][k], Height(b))
    BY <1>2, <2>1
  <2>3. /\ o \notin TouchedBy(b, k) => f[k][o] = f[k - 1][o]
        /\ o \in TouchedBy(b, k) => f[k][o] = IF o \in BlockTxs[b][k].outs THEN Height(b) ELSE NoCoin
    BY <1>1, <2>1, <2>2, SpendAt
  <2>4. f[k - 1][o] = IF Early(k - 1) THEN u(k)[o] ELSE c[o]
    BY <1>5, <2>1
  <2>5. u(k + 1) = UpdateCoins(u(k), b, k) /\ u(k) \in Maps
    BY <1>3, <2>1
  <2>6. /\ o \notin TouchedBy(b, k) => u(k + 1)[o] = u(k)[o]
        /\ o \in TouchedBy(b, k) => u(k + 1)[o] = IF o \in BlockTxs[b][k].outs THEN Height(b) ELSE NoCoin
    BY <1>1, <2>1, <2>5, UpdateCoinsAt
  <2>7. 1..k = {k} \cup 1..(k - 1)
    BY <1>1, <2>1
  <2>8. Early(k) <=> o \in TouchedBy(b, k) \/ Early(k - 1)
    BY <2>1, <2>7
  <2> HIDE DEF Early
  <2>9. f[k][o] = IF Early(k) THEN u(k + 1)[o] ELSE c[o]
    BY <2>3, <2>4, <2>6, <2>8
  <2> QED
    BY <2>1, <2>9
<1>6. n \in S
  <2> HIDE DEF S
  <2>1. n \in 0..n
    BY <1>1
  <2> QED
    BY <1>1, <1>4, <1>5, <2>1, InductTo, Zenon
<1>7. Early(n) <=> o \in Touched(b)
  BY <1>1 DEF Touched
<1>8. ConnectBlock(d, b) = u(n + 1)
  BY DEF ConnectBlock, u, n
<1> HIDE DEF Early
<1> QED
  BY <1>2, <1>6, <1>7, <1>8

\* Rollback disconnects the blocks from old down to the fork.
LEMMA RollbackRun ==
    ASSUME NEW old \in Blocks, NEW fork \in 0..Height(old), NEW c \in Maps
    PROVE  \E f \in [0..(Height(old) - fork) -> Maps] :
              /\ f[0] = c
              /\ \A i \in 1..(Height(old) - fork) : f[i] = DisconnectBlock(f[i - 1], GetAncestor(old, Height(old) + 1 - i))
              /\ Rollback(c, old, fork) = f[Height(old) - fork]
<1> DEFINE n == (Height(old) - fork)
           F == [i \in 1..n |-> [x \in Maps |-> DisconnectBlock(x, GetAncestor(old, Height(old) + 1 - i))]]
<1>1. n \in Nat
  BY TxsOf
<1>2. \A i \in 1..n, x \in Maps : DisconnectBlock(x, GetAncestor(old, Height(old) + 1 - i)) \in Maps
  <2> SUFFICES ASSUME NEW i \in 1..n, NEW x \in Maps
               PROVE  DisconnectBlock(x, GetAncestor(old, Height(old) + 1 - i)) \in Maps
    OBVIOUS
  <2>1. Height(old) + 1 - i \in 0..Height(old) /\ Height(old) + 1 - i # 0
    BY TxsOf
  <2>2. /\ GetAncestor(old, Height(old) + 1 - i) \in Blocks
        /\ GetAncestor(old, Height(old) + 1 - i) # Genesis
    BY <2>1, Ancestors
  <2> QED
    BY <2>2, DisconnectBlockType
<1>3. F \in [1..n -> [Maps -> Maps]]
  BY <1>2
<1> HIDE DEF n
<1>4. PICK f \in RunOf(Maps, n, c, F) : TRUE
  <2> HIDE DEF F
  <2> QED
    BY <1>1, <1>3, RunExists
<1>5. ASSUME NEW i \in 1..n PROVE f[i] = DisconnectBlock(f[i - 1], GetAncestor(old, Height(old) + 1 - i))
  <2>1. i - 1 \in 0..n
    BY <1>1
  <2> QED
    BY <2>1, Zenon DEF RunOf
<1> DEFINE Runs(g) == g = [i \in 0..n |-> IF i = 0 THEN c ELSE DisconnectBlock(g[i - 1], GetAncestor(old, Height(old) + 1 - i))]
           g == CHOOSE h : Runs(h)
<1>6. Runs(f)
  BY <1>1, <1>5 DEF RunOf
<1>7. Runs(g)
  <2> HIDE DEF Runs
  <2> QED
    BY <1>6
<1> HIDE DEF g
<1> DEFINE Same == {i \in 0..n : g[i] = f[i]}
<1>8. 0 \in Same
  BY <1>1, <1>7 DEF RunOf
<1>9. ASSUME NEW i \in 1..n, i - 1 \in Same PROVE i \in Same
  <2>1. i \in 0..n /\ i - 1 \in 0..n /\ i # 0
    BY <1>1
  <2>2. g[i - 1] = f[i - 1]
    BY <1>9
  <2>3. g[i] = DisconnectBlock(g[i - 1], GetAncestor(old, Height(old) + 1 - i))
    BY <1>7, <2>1
  <2> QED
    BY <1>5, <2>1, <2>2, <2>3
<1>10. g[n] = f[n]
  <2> HIDE DEF Same
  <2>1. n \in 0..n
    BY <1>1
  <2>2. n \in Same
    BY <1>1, <1>8, <1>9, <2>1, InductTo, Zenon
  <2> QED
    BY <2>2 DEF Same
<1>11. Rollback(c, old, fork) = g[n]
  BY DEF Rollback, Iterate, g, n
<1> QED
  BY <1>1, <1>5, <1>10, <1>11 DEF RunOf, n

\* Rollforward applies the blocks after the fork up to new.
LEMMA RollforwardRun ==
    ASSUME NEW new \in Blocks, NEW fork \in 0..Height(new), NEW c \in Maps, MainChain
    PROVE  \E f \in [0..(Height(new) - fork) -> Maps] :
              /\ f[0] = c
              /\ \A i \in 1..(Height(new) - fork) : f[i] = RollforwardBlock(f[i - 1], GetAncestor(new, fork + i))
              /\ Rollforward(c, new, fork) = f[Height(new) - fork]
<1> DEFINE n == (Height(new) - fork)
           F == [i \in 1..n |-> [x \in Maps |-> RollforwardBlock(x, GetAncestor(new, fork + i))]]
<1>1. n \in Nat
  BY TxsOf
<1>2. \A i \in 1..n, x \in Maps : RollforwardBlock(x, GetAncestor(new, fork + i)) \in Maps
  <2> SUFFICES ASSUME NEW i \in 1..n, NEW x \in Maps
               PROVE  RollforwardBlock(x, GetAncestor(new, fork + i)) \in Maps
    OBVIOUS
  <2>1. fork + i \in 0..Height(new)
    BY TxsOf
  <2>2. GetAncestor(new, fork + i) \in Blocks
    BY <2>1, Ancestors
  <2> QED
    BY <2>2, RollforwardBlockType
<1>3. F \in [1..n -> [Maps -> Maps]]
  BY <1>2
<1> HIDE DEF n
<1>4. PICK f \in RunOf(Maps, n, c, F) : TRUE
  <2> HIDE DEF F
  <2> QED
    BY <1>1, <1>3, RunExists
<1>5. ASSUME NEW i \in 1..n PROVE f[i] = RollforwardBlock(f[i - 1], GetAncestor(new, fork + i))
  <2>1. i - 1 \in 0..n
    BY <1>1
  <2> QED
    BY <2>1, Zenon DEF RunOf
<1> DEFINE Runs(g) == g = [i \in 0..n |-> IF i = 0 THEN c ELSE RollforwardBlock(g[i - 1], GetAncestor(new, fork + i))]
           g == CHOOSE h : Runs(h)
<1>6. Runs(f)
  BY <1>1, <1>5 DEF RunOf
<1>7. Runs(g)
  <2> HIDE DEF Runs
  <2> QED
    BY <1>6
<1> HIDE DEF g
<1> DEFINE Same == {i \in 0..n : g[i] = f[i]}
<1>8. 0 \in Same
  BY <1>1, <1>7 DEF RunOf
<1>9. ASSUME NEW i \in 1..n, i - 1 \in Same PROVE i \in Same
  <2>1. i \in 0..n /\ i - 1 \in 0..n /\ i # 0
    BY <1>1
  <2>2. g[i - 1] = f[i - 1]
    BY <1>9
  <2>3. g[i] = RollforwardBlock(g[i - 1], GetAncestor(new, fork + i))
    BY <1>7, <2>1
  <2> QED
    BY <1>5, <2>1, <2>2, <2>3
<1>10. g[n] = f[n]
  <2> HIDE DEF Same
  <2>1. n \in 0..n
    BY <1>1
  <2>2. n \in Same
    BY <1>1, <1>8, <1>9, <2>1, InductTo, Zenon
  <2> QED
    BY <2>2 DEF Same
<1>11. Rollforward(c, new, fork) = g[n]
  BY DEF Rollforward, Iterate, g, n
<1> QED
  BY <1>1, <1>5, <1>10, <1>11 DEF RunOf, n

(***************************************************************************)
(* Replaying a chain over coins that may have seen it already              *)
(***************************************************************************)
\* Outpoints that the blocks of the chain of b above height h touch.
TouchedAbove(b, h) == UNION {Touched(GetAncestor(b, k)) : k \in (h + 1)..Height(b)}

\* What no block above height h touches has the coin it had there.
LEMMA ChainUntouched ==
    ASSUME NEW b \in Blocks, NEW h \in 0..Height(b), NEW o \in OutPoints, o \notin TouchedAbove(b, h)
    PROVE  utxo[b][o] = utxo[GetAncestor(b, h)][o]
<1> DEFINE S == {k \in 0..(Height(b) - h) : utxo[GetAncestor(b, h + k)][o] = utxo[GetAncestor(b, h)][o]}
<1>1. Height(b) \in Nat
  BY TxsOf
<1>2. 0 \in S
  BY <1>1
<1>3. ASSUME NEW k \in 1..(Height(b) - h), k - 1 \in S PROVE k \in S
  <2> DEFINE c == GetAncestor(b, h + k)
  <2>1. h + k \in 0..Height(b) /\ h + k # 0 /\ h + k \in (h + 1)..Height(b) /\ (h + k) - 1 = h + (k - 1)
    BY <1>1
  <2>2. c \in Blocks /\ c # Genesis /\ Parent(c) = GetAncestor(b, h + (k - 1))
    BY <2>1, Ancestors
  <2>3. o \notin Touched(c)
    BY <2>1 DEF TouchedAbove
  <2>4. utxo[c][o] = utxo[Parent(c)][o]
    BY <2>2, <2>3, UtxoUntouched
  <2> QED
    BY <1>3, <2>2, <2>4
<1>4. Height(b) - h \in S
  <2> HIDE DEF S
  <2>1. Height(b) - h \in Nat /\ Height(b) - h \in 0..(Height(b) - h)
    BY <1>1
  <2> QED
    BY <1>2, <1>3, <2>1, InductTo
<1>5. h + (Height(b) - h) = Height(b) /\ Height(b) \in 0..Height(b)
  BY <1>1
<1>6. GetAncestor(b, Height(b)) = b
  BY <1>5, Ancestors
<1> QED
  BY <1>4, <1>5, <1>6

\* Rollback makes of any coins, at what the old chain touches above the fork,
\* those of the fork.
LEMMA RollbackAt ==
    ASSUME NEW old \in Blocks, NEW fork \in 0..Height(old), NEW c \in Maps
    PROVE  /\ Rollback(c, old, fork) \in Maps
           /\ \A o \in OutPoints :
                 Rollback(c, old, fork)[o] =
                     IF o \in TouchedAbove(old, fork) THEN utxo[GetAncestor(old, fork)][o] ELSE c[o]
<1> DEFINE H == Height(old)
           n == H - fork
           Late(k) == TouchedAbove(old, H - k)
<1>1. H \in Nat /\ n \in Nat /\ fork \in 0..H
  BY TxsOf
<1>2. PICK f \in [0..n -> Maps] :
              /\ f[0] = c
              /\ \A i \in 1..n : f[i] = DisconnectBlock(f[i - 1], GetAncestor(old, H + 1 - i))
              /\ Rollback(c, old, fork) = f[n]
  BY RollbackRun
<1>3. ASSUME NEW o \in OutPoints
      PROVE  f[n][o] = IF o \in TouchedAbove(old, fork) THEN utxo[GetAncestor(old, fork)][o] ELSE c[o]
  <2> DEFINE S == {k \in 0..n : f[k][o] = IF o \in Late(k) THEN utxo[GetAncestor(old, H - k)][o] ELSE c[o]}
  <2>1. 0 \in S
    <3>1. o \notin Late(0)
      BY <1>1 DEF TouchedAbove
    <3> QED
      BY <1>1, <1>2, <3>1
  <2>2. ASSUME NEW k \in 1..n, k - 1 \in S PROVE k \in S
    <3> DEFINE m == H + 1 - k
               b == GetAncestor(old, m)
    <3>1. /\ k \in 0..n /\ k - 1 \in 0..n /\ m \in 0..H /\ m # 0 /\ m - 1 = H - k
          /\ H - (k - 1) = m /\ (H - k) + 1 = m
      BY <1>1
    <3>2. b \in Blocks /\ b # Genesis /\ Parent(b) = GetAncestor(old, H - k)
      BY <3>1, Ancestors
    <3>3. f[k - 1] \in Maps /\ f[k] = DisconnectBlock(f[k - 1], b)
      BY <1>2, <3>1
    <3>4. f[k][o] = IF o \in Touched(b) THEN utxo[Parent(b)][o] ELSE f[k - 1][o]
      BY <3>2, <3>3, DisconnectAt
    <3>5. f[k - 1][o] = IF o \in Late(k - 1) THEN utxo[b][o] ELSE c[o]
      BY <2>2, <3>1
    <3>6. o \notin Touched(b) => utxo[b][o] = utxo[Parent(b)][o]
      BY <3>2, UtxoUntouched
    <3>7. m..H = {m} \cup (m + 1)..H
      BY <1>1, <3>1
    <3>8. o \in Late(k) <=> o \in Touched(b) \/ o \in Late(k - 1)
      <4>1. Late(k) = UNION {Touched(GetAncestor(old, h)) : h \in m..H}
        BY <3>1 DEF TouchedAbove
      <4>2. Late(k - 1) = UNION {Touched(GetAncestor(old, h)) : h \in (m + 1)..H}
        BY <3>1 DEF TouchedAbove
      <4> HIDE DEF Late, m, H
      <4> QED
        BY <3>7, <4>1, <4>2
    <3> HIDE DEF Late, b
    <3>9. f[k][o] = IF o \in Late(k) THEN utxo[GetAncestor(old, H - k)][o] ELSE c[o]
      BY <3>2, <3>4, <3>5, <3>6, <3>8
    <3> QED
      BY <3>1, <3>9
  <2>3. n \in S
    <3> HIDE DEF S
    <3>1. n \in 0..n
      BY <1>1
    <3> QED
      BY <1>1, <2>1, <2>2, <3>1, InductTo, Zenon
  <2>4. H - n = fork
    BY <1>1
  <2> QED
    BY <2>3, <2>4
<1>4. f[n] \in Maps
  BY <1>1, <1>2
<1> QED
  BY <1>2, <1>3, <1>4

\* Rollforward makes of any coins, at what the new chain touches above the
\* fork, those of the new tip.
LEMMA RollforwardAt ==
    ASSUME NEW new \in Blocks, NEW fork \in 0..Height(new), NEW c \in Maps, MainChain
    PROVE  /\ Rollforward(c, new, fork) \in Maps
           /\ \A o \in OutPoints :
                 Rollforward(c, new, fork)[o] = IF o \in TouchedAbove(new, fork) THEN utxo[new][o] ELSE c[o]
<1> DEFINE n == Height(new) - fork
           Early(k) == UNION {Touched(GetAncestor(new, h)) : h \in (fork + 1)..(fork + k)}
<1>1. Height(new) \in Nat /\ n \in Nat /\ fork + n = Height(new)
  BY TxsOf
<1>2. PICK f \in [0..n -> Maps] :
              /\ f[0] = c
              /\ \A i \in 1..n : f[i] = RollforwardBlock(f[i - 1], GetAncestor(new, fork + i))
              /\ Rollforward(c, new, fork) = f[n]
  BY RollforwardRun
<1>3. ASSUME NEW o \in OutPoints
      PROVE  f[n][o] = IF o \in TouchedAbove(new, fork) THEN utxo[new][o] ELSE c[o]
  <2> DEFINE S == {k \in 0..n : f[k][o] = IF o \in Early(k) THEN utxo[GetAncestor(new, fork + k)][o] ELSE c[o]}
  <2>1. 0 \in S
    <3>1. o \notin Early(0)
      BY <1>1
    <3> QED
      BY <1>1, <1>2, <3>1
  <2>2. ASSUME NEW k \in 1..n, k - 1 \in S PROVE k \in S
    <3> DEFINE m == fork + k
               b == GetAncestor(new, m)
    <3>1. /\ k \in 0..n /\ k - 1 \in 0..n /\ m \in 0..Height(new) /\ m # 0
          /\ fork + (k - 1) = m - 1
      BY <1>1
    <3>2. b \in Blocks /\ b # Genesis /\ Parent(b) = GetAncestor(new, m - 1) /\ Parent(b) \in Blocks
      BY <3>1, Ancestors, ParentOf
    <3>3. f[k - 1] \in Maps /\ f[k] = RollforwardBlock(f[k - 1], b)
      BY <1>2, <3>1
    <3>4. utxo[Parent(b)] \in Maps /\ utxo[b] = ConnectBlock(utxo[Parent(b)], b)
      BY <3>2, UtxoStep
    <3>5. f[k][o] = IF o \in Touched(b) THEN utxo[b][o] ELSE f[k - 1][o]
      BY <3>2, <3>3, <3>4, RollforwardBlockAt
    <3>6. f[k - 1][o] = IF o \in Early(k - 1) THEN utxo[Parent(b)][o] ELSE c[o]
      BY <2>2, <3>1, <3>2
    <3>7. o \notin Touched(b) => utxo[b][o] = utxo[Parent(b)][o]
      BY <3>2, UtxoUntouched
    <3>8. (fork + 1)..m = {m} \cup (fork + 1)..(m - 1)
      <4>1. fork \in Nat /\ m \in Nat /\ fork + 1 <= m
        BY <1>1
      <4> HIDE DEF m
      <4> QED
        BY <4>1
    <3>9. o \in Early(k) <=> o \in Touched(b) \/ o \in Early(k - 1)
      <4>1. Early(k) = UNION {Touched(GetAncestor(new, h)) : h \in (fork + 1)..m}
        OBVIOUS
      <4>2. Early(k - 1) = UNION {Touched(GetAncestor(new, h)) : h \in (fork + 1)..(m - 1)}
        BY <3>1
      <4> HIDE DEF Early, m
      <4> QED
        BY <3>8, <4>1, <4>2
    <3> HIDE DEF Early, b
    <3>10. f[k][o] = IF o \in Early(k) THEN utxo[b][o] ELSE c[o]
      BY <3>5, <3>6, <3>7, <3>9
    <3> QED
      BY <3>1, <3>10 DEF b
  <2>3. n \in S
    <3> HIDE DEF S
    <3>1. n \in 0..n
      BY <1>1
    <3> QED
      BY <1>1, <2>1, <2>2, <3>1, InductTo, Zenon
  <2>4. Early(n) = TouchedAbove(new, fork)
    BY <1>1 DEF TouchedAbove
  <2>5. GetAncestor(new, fork + n) = new
    <3>1. Height(new) \in 0..Height(new)
      BY <1>1
    <3> QED
      BY <1>1, <3>1, Ancestors
  <2> HIDE DEF Early
  <2> QED
    BY <2>3, <2>4, <2>5
<1>4. f[n] \in Maps
  BY <1>1, <1>2
<1> QED
  BY <1>2, <1>3, <1>4

\* A bounded nonempty set has a greatest element.
LEMMA MaxOf ==
    ASSUME NEW n \in Nat, NEW P, P \subseteq 0..n, 0 \in P
    PROVE  \E h \in P : \A k \in (h + 1)..n : k \notin P
<1> DEFINE S == {m \in 0..n : \E h \in P : h <= m /\ \A k \in (h + 1)..m : k \notin P}
<1>1. 0 \in S
  OBVIOUS
<1>2. ASSUME NEW m \in 1..n, m - 1 \in S PROVE m \in S
  <2>1. CASE m \in P
    BY <2>1
  <2>2. CASE m \notin P
    <3>1. PICK h \in P : h <= m - 1 /\ \A k \in (h + 1)..(m - 1) : k \notin P
      BY <1>2
    <3>2. h <= m /\ \A k \in (h + 1)..m : k \notin P
      BY <3>1, <2>2
    <3> QED
      BY <3>2
  <2> QED
    BY <2>1, <2>2
<1>3. n \in S
  <2> HIDE DEF S
  <2> QED
    BY <1>1, <1>2, InductTo
<1> QED
  BY <1>3

\* LastCommonAncestor is an ancestor of both.
LEMMA ForkHeightOf ==
    ASSUME NEW b \in Blocks, NEW c \in Blocks
    PROVE  /\ ForkHeight(b, c) \in 0..Height(b) /\ ForkHeight(b, c) \in 0..Height(c)
           /\ GetAncestor(b, ForkHeight(b, c)) = GetAncestor(c, ForkHeight(b, c))
<1> DEFINE P == {h \in 0..Height(b) : h <= Height(c) /\ GetAncestor(b, h) = GetAncestor(c, h)}
           Top(h) == /\ h <= Height(c) /\ GetAncestor(b, h) = GetAncestor(c, h)
                     /\ \A k \in (h + 1)..Height(b) : k <= Height(c) => GetAncestor(b, k) # GetAncestor(c, k)
<1>1. Height(b) \in Nat /\ Height(c) \in Nat
  BY TxsOf
<1>2. GetAncestor(b, 0) = Genesis /\ GetAncestor(c, 0) = Genesis
  BY <1>1, Ancestors
<1>3. 0 \in P
  BY <1>1, <1>2
<1>4. PICK h \in P : \A k \in (h + 1)..Height(b) : k \notin P
  <2>1. P \subseteq 0..Height(b)
    OBVIOUS
  <2> HIDE DEF P
  <2> QED
    BY <1>1, <1>3, <2>1, MaxOf, Zenon
<1>5. h \in 0..Height(b) /\ Top(h)
  BY <1>1, <1>4
<1>6. ForkHeight(b, c) = CHOOSE x \in 0..Height(b) : Top(x)
  BY DEF ForkHeight
<1>7. ForkHeight(b, c) \in 0..Height(b) /\ Top(ForkHeight(b, c))
  <2> HIDE DEF Top
  <2> QED
    BY <1>5, <1>6
<1> QED
  BY <1>1, <1>7

\* Coins that are, at each outpoint, those of one of two tips.
Between(c, old, new) ==
    \A o \in OutPoints :
        \/ c[o] = utxo[new][o]
        \/ c[o] = IF old = NoBlock THEN NoCoin ELSE utxo[old][o]

\* ReplayBlocks repairs coins that are, at each outpoint, those of either tip:
\* what neither chain touches above the fork was the same on both.
LEMMA ReplayExact ==
    ASSUME NEW c \in Maps, NEW old \in Blocks \cup {NoBlock}, NEW new \in Blocks,
           Between(c, old, new), MainChain
    PROVE  Replay(c, old, new) = utxo[new]
<1>1. utxo[new] \in Maps
  BY UtxoStep
<1>2. CASE old = NoBlock
  <2>1. 0 \in 0..Height(new) /\ GetAncestor(new, 0) = Genesis
    BY TxsOf, Ancestors
  <2>2. Replay(c, old, new) = Rollforward(c, new, 0)
    BY <1>2 DEF Replay
  <2>3. Rollforward(c, new, 0) \in Maps
    BY <2>1, RollforwardAt
  <2>4. ASSUME NEW o \in OutPoints PROVE Rollforward(c, new, 0)[o] = utxo[new][o]
    <3>1. Rollforward(c, new, 0)[o] = IF o \in TouchedAbove(new, 0) THEN utxo[new][o] ELSE c[o]
      BY <2>1, RollforwardAt
    <3>2. CASE o \notin TouchedAbove(new, 0)
      <4>1. utxo[new][o] = utxo[Genesis][o]
        BY <2>1, <3>2, ChainUntouched
      <4>2. utxo[Genesis][o] = NoCoin
        BY UtxoStep DEF NoCoins
      <4>3. c[o] = utxo[new][o]
        BY <1>2, <4>1, <4>2 DEF Between
      <4> QED
        BY <3>1, <3>2, <4>3
    <3> QED
      BY <3>1, <3>2
  <2> QED
    BY <1>1, <2>2, <2>3, <2>4 DEF Maps
<1>3. CASE old # NoBlock
  <2> DEFINE fork == ForkHeight(old, new)
             back == Rollback(c, old, fork)
             r == Rollforward(back, new, fork)
  <2>1. old \in Blocks
    BY <1>3
  <2>2. fork \in 0..Height(old) /\ fork \in 0..Height(new) /\ GetAncestor(old, fork) = GetAncestor(new, fork)
    BY <2>1, ForkHeightOf
  <2>3. Replay(c, old, new) = r
    BY <1>3 DEF Replay
  <2> HIDE DEF fork
  <2>4. back \in Maps
    BY <2>1, <2>2, RollbackAt
  <2>5. ASSUME NEW o \in OutPoints
        PROVE  back[o] = IF o \in TouchedAbove(old, fork) THEN utxo[GetAncestor(new, fork)][o] ELSE c[o]
    BY <2>1, <2>2, RollbackAt
  <2> HIDE DEF back
  <2>6. r \in Maps
    BY <2>2, <2>4, RollforwardAt
  <2>7. ASSUME NEW o \in OutPoints PROVE r[o] = utxo[new][o]
    <3>1. r[o] = IF o \in TouchedAbove(new, fork) THEN utxo[new][o] ELSE back[o]
      BY <2>2, <2>4, RollforwardAt
    <3>2. CASE o \notin TouchedAbove(new, fork)
      <4>1. utxo[new][o] = utxo[GetAncestor(new, fork)][o]
        BY <2>2, <3>2, ChainUntouched
      <4>2. CASE o \in TouchedAbove(old, fork)
        BY <2>5, <3>1, <3>2, <4>1, <4>2
      <4>3. CASE o \notin TouchedAbove(old, fork)
        <5>1. utxo[old][o] = utxo[GetAncestor(old, fork)][o]
          BY <2>1, <2>2, <4>3, ChainUntouched
        <5>2. c[o] = utxo[new][o]
          BY <1>3, <2>2, <4>1, <5>1 DEF Between
        <5> QED
          BY <2>5, <3>1, <3>2, <4>3, <5>2
      <4> QED
        BY <4>2, <4>3
    <3> QED
      BY <3>1, <3>2
  <2> HIDE DEF r
  <2> QED
    BY <1>1, <2>3, <2>6, <2>7 DEF Maps
<1> QED
  BY <1>2, <1>3

(***************************************************************************)
(* The inductive invariant                                                 *)
(***************************************************************************)
\* While the node runs, the coins in memory are those of the tip, and an
\* unfinished flush is on its way to that tip.
Running ==
    IF pc = "down" THEN crashes > 0
    ELSE /\ tip.best \in Blocks /\ tip.coins = utxo[tip.best]
         /\ db.heads # <<>> => pc # "run" /\ db.heads[1] = tip.best

IInv == TypeOK /\ Running /\ DiskIsUtxo

\* The lists follow the coins until a crash, on a branch chain too.
Lists == [disk : SUBSET OutPoints, shown : SUBSET OutPoints]
LInv == lists \in Lists /\ crashes \in Nat /\ (pc = "down" => crashes > 0) /\ ListsExact

\* ImportCoins keeps the lists those of the coins.
LEMMA ImportCoinsExact ==
    ASSUME NEW old, NEW new, lists.shown = Unspent(old)
    PROVE  ImportCoins(old, new) = Unspent(new)
  BY DEF ImportCoins, Unspent

\* The empty set of coins is a map.
LEMMA NoCoinsMaps == NoCoins \in Maps
  BY DEF NoCoins, Maps

\* The invariant holds of a new node.
LEMMA InitInv == Init => IInv
<1> SUFFICES ASSUME Init PROVE IInv
  OBVIOUS
<1>1. TypeOK
  <2>1. 0 \in 0..MaxCrashes /\ Genesis \in Blocks
    BY TreeAssumption, ConstantsAssumption
  <2> QED
    BY <2>1, NoCoinsMaps DEF Init, TypeOK
<1>2. Running
  BY UtxoStep, TreeAssumption DEF Init, Running
<1>3. DiskIsUtxo
  BY DEF Init, DiskIsUtxo
<1> QED
  BY <1>1, <1>2, <1>3 DEF IInv

\* Connecting a block keeps the invariant.
LEMMA ConnectTipInv == ASSUME IInv, NEW b \in Blocks, ConnectTip(b) PROVE IInv'
<1>1. pc = "run" /\ b # Genesis /\ Parent(b) = tip.best /\ tip.coins = utxo[Parent(b)] /\ db.heads = <<>>
  BY DEF IInv, Running, ConnectTip
<1>2. tip' = [coins |-> utxo[b], best |-> b]
  BY <1>1, UtxoStep DEF ConnectTip
<1>3. utxo[b] \in Maps
  BY UtxoStep
<1>4. lists' \in [disk : SUBSET OutPoints, shown : SUBSET OutPoints]
  BY DEF IInv, TypeOK, ConnectTip, ImportCoins
<1>5. UNCHANGED <<db, pc, crashes>>
  BY DEF ConnectTip
<1>6. TypeOK'
  BY <1>2, <1>3, <1>4, <1>5 DEF IInv, TypeOK
<1>7. Running'
  BY <1>1, <1>2, <1>5 DEF IInv, Running
<1>8. DiskIsUtxo'
  BY <1>5 DEF IInv, DiskIsUtxo
<1> QED
  BY <1>6, <1>7, <1>8 DEF IInv

\* Disconnecting the tip keeps it: undoing a block inverts it.
LEMMA DisconnectTipInv == ASSUME IInv, DisconnectTip PROVE IInv'
<1> DEFINE b == tip.best
<1>1. pc = "run" /\ b \in Blocks /\ b # Genesis /\ tip.coins = utxo[b] /\ db.heads = <<>>
  BY DEF IInv, Running, DisconnectTip
<1>2. DisconnectBlock(tip.coins, b) = utxo[Parent(b)] /\ Parent(b) \in Blocks /\ utxo[Parent(b)] \in Maps
  BY <1>1, DisconnectTipCoins, ParentOf, UtxoStep
<1>3. tip' = [coins |-> utxo[Parent(b)], best |-> Parent(b)]
  BY <1>2 DEF DisconnectTip
<1>4. lists' \in [disk : SUBSET OutPoints, shown : SUBSET OutPoints]
  BY DEF IInv, TypeOK, DisconnectTip, ImportCoins
<1>5. UNCHANGED <<db, pc, crashes>>
  BY DEF DisconnectTip
<1>6. TypeOK'
  BY <1>2, <1>3, <1>4, <1>5 DEF IInv, TypeOK
<1>7. Running'
  BY <1>1, <1>2, <1>3, <1>5 DEF IInv, Running
<1>8. DiskIsUtxo'
  BY <1>5 DEF IInv, DiskIsUtxo
<1> QED
  BY <1>6, <1>7, <1>8 DEF IInv

(***************************************************************************)
(* The flush, the crash and the repair                                     *)
(***************************************************************************)
\* Beginning a flush keeps it.
LEMMA StartFlushInv == ASSUME IInv, StartFlush PROVE IInv'
<1>1. TypeOK'
  BY DEF IInv, TypeOK, StartFlush
<1>2. Running'
  BY DEF IInv, Running, StartFlush
<1>3. DiskIsUtxo'
  BY DEF IInv, DiskIsUtxo, StartFlush
<1> QED
  BY <1>1, <1>2, <1>3 DEF IInv

\* Within a flush each coin on disk is that of the old tip or that of the new.
LEMMA DiskBetween ==
    ASSUME IInv, pc \in {"coins", "lists"}
    PROVE  Between(db.coins, OldTip, tip.best) /\ OldTip \in Blocks \cup {NoBlock}
<1>1. CASE db.heads = <<>>
  BY <1>1 DEF IInv, TypeOK, DiskIsUtxo, Between, OldTip, NoCoins
<1>2. CASE db.heads # <<>>
  <2>1. OldTip = db.heads[2] /\ db.heads[1] = tip.best /\ db.heads \in Blocks \X (Blocks \cup {NoBlock})
    BY <1>2 DEF IInv, TypeOK, Running, OldTip
  <2> QED
    BY <1>2, <2>1 DEF IInv, DiskIsUtxo, Between
<1> QED
  BY <1>1, <1>2

\* A partial batch keeps it, whichever coins it holds.
LEMMA WritePartialBatchInv ==
    ASSUME IInv, NEW some \in SUBSET OutPoints, WritePartialBatch(some)
    PROVE  IInv'
<1> DEFINE new == [o \in OutPoints |-> IF o \in some THEN tip.coins[o] ELSE db.coins[o]]
<1>1. pc = "coins" /\ tip.best \in Blocks /\ tip.coins = utxo[tip.best] /\ tip.coins \in Maps /\ db.coins \in Maps
  BY DEF IInv, TypeOK, Running, WritePartialBatch
<1>2. Between(db.coins, OldTip, tip.best) /\ OldTip \in Blocks \cup {NoBlock}
  BY <1>1, DiskBetween
<1>3. db' = [coins |-> new, best |-> NoBlock, heads |-> <<tip.best, OldTip>>] /\ UNCHANGED <<tip, lists, pc, crashes>>
  BY DEF WritePartialBatch
<1>4. new \in Maps
  BY <1>1 DEF Maps
<1>5. Between(new, OldTip, tip.best)
  BY <1>1, <1>2 DEF Between
<1> HIDE DEF new
<1>6. TypeOK'
  BY <1>1, <1>2, <1>3, <1>4 DEF IInv, TypeOK
<1>7. Running'
  BY <1>1, <1>3, Zenon DEF IInv, Running
<1>8. DiskIsUtxo'
  <2>1. db'.heads # <<>> /\ db'.heads[1] = tip.best /\ db'.heads[2] = OldTip /\ db'.coins = new
    BY <1>3
  <2> QED
    BY <1>5, <2>1 DEF DiskIsUtxo, Between
<1> QED
  BY <1>6, <1>7, <1>8 DEF IInv

\* Writing the lists keeps it.
LEMMA WriteListsInv ==
    ASSUME IInv, NEW some \in SUBSET Addresses, WriteLists(some)
    PROVE  IInv'
<1>1. TypeOK'
  BY DEF IInv, TypeOK, WriteLists
<1>2. Running'
  BY DEF IInv, Running, WriteLists
<1>3. DiskIsUtxo'
  BY DEF IInv, DiskIsUtxo, WriteLists
<1> QED
  BY <1>1, <1>2, <1>3 DEF IInv

\* The final batch keeps it.
LEMMA FinalBatchInv == ASSUME IInv, FinalBatch PROVE IInv'
<1>1. tip.best \in Blocks /\ tip.coins = utxo[tip.best] /\ tip.coins \in Maps
  BY DEF IInv, TypeOK, Running, FinalBatch
<1>2. db' = [coins |-> tip.coins, best |-> tip.best, heads |-> <<>>] /\ pc' = "run" /\ UNCHANGED <<tip, lists, crashes>>
  BY DEF FinalBatch
<1>3. TypeOK'
  BY <1>1, <1>2 DEF IInv, TypeOK
<1>4. Running'
  BY <1>1, <1>2 DEF IInv, Running
<1>5. DiskIsUtxo'
  BY <1>1, <1>2, TreeAssumption DEF DiskIsUtxo
<1> QED
  BY <1>3, <1>4, <1>5 DEF IInv

\* A crash keeps it.
LEMMA CrashInv == ASSUME IInv, Crash PROVE IInv'
<1>1. TypeOK'
  BY NoCoinsMaps, ConstantsAssumption DEF IInv, TypeOK, Crash
<1>2. Running'
  BY ConstantsAssumption DEF IInv, TypeOK, Running, Crash
<1>3. DiskIsUtxo'
  BY DEF IInv, DiskIsUtxo, Crash
<1> QED
  BY <1>1, <1>2, <1>3 DEF IInv

\* Loading a consistent database keeps it.
LEMMA LoadInv == ASSUME IInv, Load PROVE IInv'
<1> DEFINE b == IF db.best = NoBlock THEN Genesis ELSE db.best
<1>1. pc = "down" /\ db.heads = <<>> /\ db.coins \in Maps /\ db.best \in Blocks \cup {NoBlock}
  BY DEF IInv, TypeOK, Load
<1>2. tip' = [coins |-> db.coins, best |-> b] /\ pc' = "run" /\ UNCHANGED <<db, lists, crashes>>
  BY DEF Load
<1>3. b \in Blocks /\ db.coins = utxo[b]
  BY <1>1, UtxoStep, TreeAssumption DEF IInv, DiskIsUtxo
<1> HIDE DEF b
<1>4. TypeOK'
  BY <1>1, <1>2, <1>3 DEF IInv, TypeOK
<1>5. Running'
  BY <1>1, <1>2, <1>3 DEF IInv, Running
<1>6. DiskIsUtxo'
  BY <1>2 DEF IInv, DiskIsUtxo
<1> QED
  BY <1>4, <1>5, <1>6 DEF IInv

\* Replaying an inconsistent one keeps it.
LEMMA ReplayBlocksInv ==
    ASSUME IInv, ReplayBlocks, MainChain \/ MaxCrashes = 0
    PROVE  IInv'
<1>1. pc = "down" /\ db.heads # <<>> /\ db.coins \in Maps /\ crashes > 0 /\ crashes <= MaxCrashes
  BY ConstantsAssumption DEF IInv, TypeOK, Running, ReplayBlocks
<1>2. MainChain
  BY <1>1, ConstantsAssumption DEF IInv, TypeOK
<1> DEFINE new == db.heads[1]
           old == db.heads[2]
<1>3. new \in Blocks /\ old \in Blocks \cup {NoBlock} /\ Between(db.coins, old, new)
  BY <1>1 DEF IInv, TypeOK, DiskIsUtxo, Between
<1>4. Replay(db.coins, old, new) = utxo[new]
  <2> HIDE DEF old, new
  <2> QED
    BY <1>1, <1>2, <1>3, ReplayExact
<1>5. tip' = [coins |-> utxo[new], best |-> new] /\ pc' = "coins" /\ UNCHANGED <<db, lists, crashes>>
  BY <1>4 DEF ReplayBlocks
<1>6. utxo[new] \in Maps
  BY <1>3, UtxoStep
<1>7. TypeOK'
  <2> HIDE DEF new
  <2> QED
    BY <1>3, <1>5, <1>6 DEF IInv, TypeOK
<1>8. Running'
  BY <1>3, <1>5 DEF IInv, Running
<1>9. DiskIsUtxo'
  BY <1>5 DEF IInv, DiskIsUtxo
<1> QED
  BY <1>7, <1>8, <1>9 DEF IInv

(***************************************************************************)
(* The theorems                                                            *)
(***************************************************************************)
\* IInv is an invariant: through every reorganisation, flush, crash and repair.
THEOREM ChainstateInvariant ==
    ASSUME MainChain \/ MaxCrashes = 0
    PROVE  Spec => []IInv
<1>1. IInv /\ [Next]_vars => IInv'
  <2> SUFFICES ASSUME IInv, [Next]_vars PROVE IInv'
    OBVIOUS
  <2>1. CASE UNCHANGED vars
    BY <2>1 DEF vars, IInv, TypeOK, Running, DiskIsUtxo
  <2>2. ASSUME NEW b \in Blocks, ConnectTip(b) PROVE IInv'
    BY <2>2, ConnectTipInv
  <2>3. CASE DisconnectTip
    BY <2>3, DisconnectTipInv
  <2>4. CASE StartFlush
    BY <2>4, StartFlushInv
  <2>5. ASSUME NEW some \in SUBSET {o \in OutPoints : db.coins[o] # tip.coins[o]}, WritePartialBatch(some)
        PROVE  IInv'
    BY <2>5, WritePartialBatchInv
  <2>6. ASSUME NEW some \in SUBSET Addresses, WriteLists(some) PROVE IInv'
    BY <2>6, WriteListsInv
  <2>7. CASE FinalBatch
    BY <2>7, FinalBatchInv
  <2>8. CASE Crash
    BY <2>8, CrashInv
  <2>9. CASE Load
    BY <2>9, LoadInv
  <2>10. CASE ReplayBlocks
    BY <2>10, ReplayBlocksInv
  <2> QED
    BY <2>1, <2>2, <2>3, <2>4, <2>5, <2>6, <2>7, <2>8, <2>9, <2>10, Zenon DEF Next
<1> QED
  BY <1>1, InitInv, PTL DEF Spec

\* pcoinsTip holds exactly the unspent coins of its chain, with their heights,
\* however often a flush or the repair of one was interrupted.
THEOREM TipIsUnspentSet ==
    ASSUME MainChain \/ MaxCrashes = 0
    PROVE  Spec => []TipIsUtxo
<1>1. IInv => TipIsUtxo
  BY DEF IInv, Running, TipIsUtxo
<1> QED
  BY <1>1, ChainstateInvariant, PTL

\* The database holds the coins of the block it names, or at each outpoint
\* those of one of the two tips it names.
THEOREM DiskIsUnspentSet ==
    ASSUME MainChain \/ MaxCrashes = 0
    PROVE  Spec => []DiskIsUtxo
<1>1. IInv => DiskIsUtxo
  BY DEF IInv
<1> QED
  BY <1>1, ChainstateInvariant, PTL

\* As long as no crash happens the lists name exactly the unspent coins, on a
\* branch chain as well.
THEOREM ListsAreExact == Spec => []ListsExact
<1>1. Init => LInv
  <2>1. Unspent(NoCoins) = {}
    BY DEF Unspent, NoCoins
  <2>2. [disk |-> {}, shown |-> {}] \in Lists
    BY DEF Lists
  <2> QED
    BY <2>1, <2>2 DEF Init, LInv, ListsExact
<1>2. LInv /\ [Next]_vars => LInv'
  <2> SUFFICES ASSUME LInv, [Next]_vars PROVE LInv'
    OBVIOUS
  <2>1. CASE UNCHANGED vars
    BY <2>1 DEF vars, LInv, ListsExact
  <2>2. ASSUME NEW b \in Blocks, ConnectTip(b) PROVE LInv'
    BY <2>2, ImportCoinsExact DEF ConnectTip, LInv, ListsExact, Lists, ImportCoins
  <2>3. CASE DisconnectTip
    BY <2>3, ImportCoinsExact DEF DisconnectTip, LInv, ListsExact, Lists, ImportCoins
  <2>4. CASE StartFlush
    BY <2>4 DEF StartFlush, LInv, ListsExact
  <2>5. ASSUME NEW some \in SUBSET {o \in OutPoints : db.coins[o] # tip.coins[o]}, WritePartialBatch(some)
        PROVE  LInv'
    BY <2>5 DEF WritePartialBatch, LInv, ListsExact
  <2>6. ASSUME NEW some \in SUBSET Addresses, WriteLists(some) PROVE LInv'
    BY <2>6 DEF WriteLists, LInv, ListsExact, Lists
  <2>7. CASE FinalBatch
    BY <2>7 DEF FinalBatch, LInv, ListsExact
  <2>8. CASE Crash
    BY <2>8 DEF Crash, LInv, ListsExact, Lists
  <2>9. CASE Load
    BY <2>9 DEF Load, LInv, ListsExact
  <2>10. CASE ReplayBlocks
    BY <2>10 DEF ReplayBlocks, LInv, ListsExact
  <2> QED
    BY <2>1, <2>2, <2>3, <2>4, <2>5, <2>6, <2>7, <2>8, <2>9, <2>10, Zenon DEF Next
<1>3. LInv => ListsExact
  BY DEF LInv
<1> QED
  BY <1>1, <1>2, <1>3, PTL DEF Spec
=============================================================================
