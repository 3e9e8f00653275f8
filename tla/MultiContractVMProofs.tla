----------------------- MODULE MultiContractVMProofs -----------------------
(***************************************************************************)
(* For every block, any number of threads and every schedule: what a pool  *)
(* of threads makes of the contracts of a block, if Execute and CheckCross *)
(* accept it, is what one thread makes of it.                              *)
(***************************************************************************)
EXTENDS MultiContractVM, WellFoundedInduction, TLAPS

(***************************************************************************)
(* Induction and recursion                                                 *)
(***************************************************************************)

\* A set with 0 that is closed under successor holds every number.
LEMMA Induct ==
    ASSUME NEW S, 0 \in S, \A n \in Nat : n \in S => n + 1 \in S
    PROVE  Nat \subseteq S
<1> DEFINE T == Nat \ S
<1> SUFFICES ASSUME T # {} PROVE FALSE
  OBVIOUS
<1>1. IsWellFoundedOn(OpToRel(<, Nat), Nat)
  BY NatLessThanWellFounded, Zenon
<1>2. T \subseteq Nat
  OBVIOUS
<1> HIDE DEF T
<1>3. PICK x \in T : \A y \in T : ~(<<y, x>> \in OpToRel(<, Nat))
  BY <1>1, <1>2, WFMin, Zenon
<1>4. x \in Nat /\ x \notin S /\ x # 0
  BY DEF T
<1>5. x - 1 \in Nat /\ x - 1 < x /\ (x - 1) + 1 = x
  BY <1>4
<1>6. x - 1 \notin S
  BY <1>4, <1>5
<1>7. x - 1 \in T
  BY <1>5, <1>6 DEF T
<1>8. <<x - 1, x>> \in OpToRel(<, Nat)
  BY <1>4, <1>5 DEF OpToRel
<1> QED
  BY <1>3, <1>7, <1>8, Zenon

\* The same up to a bound.
LEMMA InductTo ==
    ASSUME NEW n \in Nat, NEW S, 0 \in S, \A i \in 1..n : i - 1 \in S => i \in S
    PROVE  0..n \subseteq S
<1> DEFINE T == {i \in Nat : i <= n => i \in S}
<1>1. 0 \in T
  OBVIOUS
<1>2. ASSUME NEW i \in Nat, i \in T PROVE i + 1 \in T
  <2> SUFFICES ASSUME i + 1 <= n PROVE i + 1 \in S
    OBVIOUS
  <2>1. i + 1 \in 1..n /\ (i + 1) - 1 = i /\ i <= n
    OBVIOUS
  <2>2. i \in S
    BY <1>2, <2>1
  <2> QED
    BY <2>1, <2>2
<1>3. Nat \subseteq T
  <2> HIDE DEF T
  <2> QED
    BY <1>1, <1>2, Induct
<1> QED
  BY <1>3

\* The results of the rounds 0 to n of a loop that starts with s.
RunOf(S, n, s, F) == {f \in [0..n -> S] : f[0] = s /\ \A i \in 1..n : f[i] = F[i][f[i - 1]]}

\* n rounds of a loop have a result, whatever the body F of each round.
LEMMA RunExists ==
    ASSUME NEW n \in Nat, NEW S, NEW s \in S, NEW F \in [1..n -> [S -> S]]
    PROVE  RunOf(S, n, s, F) # {}
<1> DEFINE Good == {k \in 0..n : RunOf(S, k, s, F) # {}}
<1>1. 0 \in Good
  <2>1. [i \in 0..0 |-> s] \in RunOf(S, 0, s, F)
    BY DEF RunOf
  <2> QED
    BY <2>1
<1>2. ASSUME NEW k \in 1..n, k - 1 \in Good PROVE k \in Good
  <2>1. PICK f \in RunOf(S, k - 1, s, F) : TRUE
    BY <1>2
  <2> DEFINE h == [i \in 0..k |-> IF i = k THEN F[k][f[k - 1]] ELSE f[i]]
  <2>2. f[k - 1] \in S /\ F[k][f[k - 1]] \in S
    BY <2>1 DEF RunOf
  <2>3. h \in [0..k -> S]
    BY <2>1, <2>2 DEF RunOf
  <2>4. h[0] = s /\ \A i \in 0..(k - 1) : h[i] = f[i]
    BY <2>1 DEF RunOf
  <2>5. h[k] = F[k][f[k - 1]]
    OBVIOUS
  <2> HIDE DEF h
  <2>6. ASSUME NEW i \in 1..k PROVE h[i] = F[i][h[i - 1]]
    <3>1. CASE i = k
      BY <3>1, <2>4, <2>5
    <3>2. CASE i # k
      BY <3>2, <2>1, <2>4 DEF RunOf
    <3> QED
      BY <3>1, <3>2
  <2>7. h \in RunOf(S, k, s, F)
    BY <2>3, <2>4, <2>6 DEF RunOf
  <2> QED
    BY <2>7
<1>3. 0..n \subseteq Good
  <2> HIDE DEF Good
  <2> QED
    BY <1>1, <1>2, InductTo, Zenon
<1> QED
  BY <1>3

(***************************************************************************)
(* One transaction                                                         *)
(***************************************************************************)
Rets == {"ok", "false", "throw"}
Accs == [vm : Machines, out : Maps, ret : Rets]
Fresh(m) == [vm |-> [m EXCEPT !.cache = Empty], out |-> Empty, ret |-> "ok"]

\* A map with no entry is a map, and what two maps make is one.
LEMMA MapTypes ==
    /\ Empty \in Maps
    /\ \A c \in Contracts : Empty[c] = Absent
    /\ \A f, g \in Maps : Overlay(f, g) \in Maps
  BY DEF Empty, Overlay, Maps

\* A fresh machine is a machine, and a run starts with one.
LEMMA FreshTypes ==
    ASSUME NEW m \in Machines
    PROVE  /\ Fresh(m) \in Accs
           /\ Fresh(m).vm.data = m.data /\ Fresh(m).vm.cache = Empty
           /\ Fresh(m).out = Empty /\ Fresh(m).ret = "ok"
<1>1. Empty \in Maps
  BY MapTypes
<1> HIDE DEF Empty
<1> QED
  BY <1>1 DEF Fresh, Accs, Machines, Rets

\* What a contract holds when a frame starts is a value or nothing.
LEMMA ContextType ==
    ASSUME NEW m \in Machines, NEW c \in Contracts
    PROVE  GetContractContext(m, c) \in Values \cup {Absent}
  BY BaseAssumption DEF GetContractContext, Overlay, Machines, Maps

\* What a frame writes.
Written1(acc, tx, c) ==
    LET old == GetContractContext(acc.vm, c)
    IN  IF old = Absent THEN <<tx.id>> ELSE Append(old, tx.id)

\* It is a value.
LEMMA Written1Type ==
    ASSUME NEW acc \in Accs, NEW tx \in Tx, NEW c \in Contracts
    PROVE  Written1(acc, tx, c) \in Values /\ Written1(acc, tx, c) # Absent
<1>1. acc.vm \in Machines /\ tx.id \in STRING
  BY DEF Accs, Tx
<1>2. GetContractContext(acc.vm, c) \in Values \cup {Absent}
  BY <1>1, ContextType
<1> DEFINE old == GetContractContext(acc.vm, c)
<1>3. <<tx.id>> \in Values /\ (old \in Values => Append(old, tx.id) \in Values)
  <2> HIDE DEF old
  <2> QED
    BY <1>1 DEF Values
<1>4. Written1(acc, tx, c) \in Values
  BY <1>2, <1>3 DEF Written1
<1> QED
  BY <1>4, BaseAssumption

\* A frame does nothing after a failure; it throws; or it writes its contract.
LEMMA FrameCases ==
    ASSUME NEW acc \in Accs, NEW tx \in Tx, NEW c \in Contracts
    PROVE  LET r == Frame(acc, tx, c) IN
           /\ r \in Accs
           /\ r.vm.data = acc.vm.data
           /\ acc.ret # "ok" => r = acc
           /\ acc.ret = "ok" /\ (GetContractContext(acc.vm, c) = Absent) # (tx.kind = "publish")
                 => r.ret = "throw" /\ r.out = acc.out /\ r.vm = acc.vm
           /\ acc.ret = "ok" /\ ~((GetContractContext(acc.vm, c) = Absent) # (tx.kind = "publish"))
                 => /\ r.ret = "ok"
                    /\ r.out = [acc.out EXCEPT ![c] = Written1(acc, tx, c)]
                    /\ r.vm.cache = [acc.vm.cache EXCEPT ![c] = Written1(acc, tx, c)]
<1> DEFINE old == GetContractContext(acc.vm, c)
           new == Written1(acc, tx, c)
           r == Frame(acc, tx, c)
<1>1. new \in Values
  BY Written1Type
<1>2. acc.vm \in Machines /\ acc.vm.data \in Maps /\ acc.vm.cache \in Maps /\ acc.out \in Maps /\ acc.ret \in Rets
  BY DEF Accs, Machines
<1>3. r = IF acc.ret # "ok" THEN acc
          ELSE IF (old = Absent) # (tx.kind = "publish") THEN [acc EXCEPT !.ret = "throw"]
          ELSE [acc EXCEPT !.vm.cache[c] = new, !.out[c] = new]
  BY DEF Frame, Written1
<1> HIDE DEF old, new, r
<1>4. [acc.out EXCEPT ![c] = new] \in Maps /\ [acc.vm.cache EXCEPT ![c] = new] \in Maps
  BY <1>1, <1>2 DEF Maps
<1>5. CASE acc.ret # "ok"
  BY <1>3, <1>5 DEF old, new, r
<1>6. CASE acc.ret = "ok" /\ (old = Absent) # (tx.kind = "publish")
  <2>1. r = [acc EXCEPT !.ret = "throw"]
    BY <1>3, <1>6
  <2>2. r \in Accs /\ r.vm = acc.vm /\ r.out = acc.out /\ r.ret = "throw"
    BY <2>1 DEF Accs, Rets
  <2> QED
    BY <1>6, <2>2 DEF old, new, r
<1>7. CASE acc.ret = "ok" /\ ~((old = Absent) # (tx.kind = "publish"))
  <2>1. r = [acc EXCEPT !.vm.cache[c] = new, !.out[c] = new]
    BY <1>3, <1>7
  <2>2. /\ r = [vm |-> [acc.vm EXCEPT !.cache[c] = new], out |-> [acc.out EXCEPT ![c] = new], ret |-> acc.ret]
    BY <2>1, Zenon DEF Accs
  <2>3. [acc.vm EXCEPT !.cache[c] = new] = [data |-> acc.vm.data, cache |-> [acc.vm.cache EXCEPT ![c] = new]]
    BY <1>2 DEF Machines
  <2>4. r = [vm |-> [data |-> acc.vm.data, cache |-> [acc.vm.cache EXCEPT ![c] = new]],
             out |-> [acc.out EXCEPT ![c] = new], ret |-> "ok"]
    BY <2>2, <2>3, <1>7
  <2>5. r \in Accs
    BY <1>2, <1>4, <2>4 DEF Accs, Machines, Rets
  <2> QED
    BY <1>7, <2>4, <2>5 DEF old, new, r
<1> QED
  BY <1>5, <1>6, <1>7

\* The contracts a transaction runs are a sequence of contracts.
LEMMA FramesType ==
    ASSUME NEW tx \in Tx
    PROVE  /\ Len(Frames(tx)) \in Nat
           /\ \A i \in 1..Len(Frames(tx)) : Frames(tx)[i] \in Contracts
           /\ tx.kind # "plain" /\ tx.ends = "ok" =>
                 ContractAddrs(tx) = {Frames(tx)[i] : i \in 1..Len(Frames(tx))}
           /\ tx.kind # "plain" => {Frames(tx)[i] : i \in 1..Len(Frames(tx))} \subseteq ContractAddrs(tx)
<1>1. tx.calls \in Seq(Contracts) /\ tx.address \in Contracts
  BY DEF Tx
<1>2. Frames(tx) \in Seq(Contracts)
  BY <1>1 DEF Frames
<1>3. Len(tx.calls) \in Nat /\ DOMAIN tx.calls = 1..Len(tx.calls)
  BY <1>1
<1>4. tx.kind # "plain" => ContractAddrs(tx) = {tx.address} \cup {tx.calls[i] : i \in 1..Len(tx.calls)}
  BY <1>3 DEF ContractAddrs, Range
<1>5. Len(Frames(tx)) \in Nat /\ \A i \in 1..Len(Frames(tx)) : Frames(tx)[i] \in Contracts
  BY <1>2
<1>6. CASE tx.ends = "ok"
  <2>1. Frames(tx) = Append(tx.calls, tx.address)
    BY <1>6 DEF Frames
  <2>2. /\ Len(Frames(tx)) = Len(tx.calls) + 1
        /\ \A i \in 1..Len(tx.calls) : Frames(tx)[i] = tx.calls[i]
        /\ Frames(tx)[Len(tx.calls) + 1] = tx.address
    BY <1>1, <2>1
  <2>3. {Frames(tx)[i] : i \in 1..Len(Frames(tx))} = {tx.address} \cup {tx.calls[i] : i \in 1..Len(tx.calls)}
    BY <1>3, <2>2
  <2> QED
    BY <1>4, <1>5, <2>3, Zenon
<1>7. CASE tx.ends # "ok"
  <2>1. Frames(tx) = tx.calls
    BY <1>7 DEF Frames
  <2> QED
    BY <1>4, <1>5, <1>7, <2>1
<1> QED
  BY <1>6, <1>7

\* The contracts of a transaction.
LEMMA AddrsType == ASSUME NEW tx \in Tx PROVE ContractAddrs(tx) \subseteq Contracts
<1>1. tx.address \in Contracts /\ tx.calls \in Seq(Contracts)
  BY DEF Tx
<1>2. \A i \in DOMAIN tx.calls : tx.calls[i] \in Contracts
  BY <1>1
<1> QED
  BY <1>1, <1>2 DEF ContractAddrs, Range

\* The frames of tx, run one after the other in machine m.
Framed(m, tx) ==
    Iterate(LAMBDA acc, i : Frame(acc, tx, Frames(tx)[i]), Fresh(m), Len(Frames(tx)))

\* They are a run.
LEMMA FrameRun ==
    ASSUME NEW m \in Machines, NEW tx \in Tx
    PROVE  \E f \in [0..Len(Frames(tx)) -> Accs] :
              /\ f[0] = Fresh(m)
              /\ \A i \in 1..Len(Frames(tx)) : f[i] = Frame(f[i - 1], tx, Frames(tx)[i])
              /\ Framed(m, tx) = f[Len(Frames(tx))]
<1> DEFINE n == Len(Frames(tx))
           F == [i \in 1..n |-> [x \in Accs |-> Frame(x, tx, Frames(tx)[i])]]
<1>1. n \in Nat
  BY FramesType
<1>2. \A i \in 1..n, x \in Accs : Frame(x, tx, Frames(tx)[i]) \in Accs
  BY FramesType, FrameCases, Zenon
<1>3. F \in [1..n -> [Accs -> Accs]]
  BY <1>2
<1> HIDE DEF n
<1>4. PICK f \in RunOf(Accs, n, Fresh(m), F) : TRUE
  <2> HIDE DEF F
  <2> QED
    BY <1>1, <1>3, FreshTypes, RunExists
<1>5. ASSUME NEW i \in 1..n PROVE f[i] = Frame(f[i - 1], tx, Frames(tx)[i])
  <2>1. i - 1 \in 0..n
    BY <1>1
  <2> QED
    BY <2>1, Zenon DEF RunOf
<1> DEFINE Runs(g) == g = [i \in 0..n |-> IF i = 0 THEN Fresh(m) ELSE Frame(g[i - 1], tx, Frames(tx)[i])]
           g == CHOOSE h : Runs(h)
<1>6. Runs(f)
  BY <1>1, <1>5 DEF RunOf
<1>7. Runs(g)
  <2> HIDE DEF Runs
  <2> QED
    BY <1>6
<1> HIDE DEF g
<1> DEFINE Same == {i \in 0..n : g[i] = f[i]}
<1>8. 0 \in Same
  BY <1>1, <1>7 DEF RunOf
<1>9. ASSUME NEW i \in 1..n, i - 1 \in Same PROVE i \in Same
  <2>1. i \in 0..n /\ i - 1 \in 0..n /\ i # 0
    BY <1>1
  <2>2. g[i - 1] = f[i - 1]
    BY <1>9
  <2>3. g[i] = Frame(g[i - 1], tx, Frames(tx)[i])
    BY <1>7, <2>1
  <2> QED
    BY <1>5, <2>1, <2>2, <2>3
<1>10. g[n] = f[n]
  <2> HIDE DEF Same
  <2>1. n \in 0..n
    BY <1>1
  <2>2. n \in Same
    BY <1>1, <1>8, <1>9, <2>1, InductTo, Zenon
  <2> QED
    BY <2>2 DEF Same
<1>11. Framed(m, tx) = g[n]
  BY DEF Framed, Iterate, g, n
<1> QED
  BY <1>1, <1>5, <1>10, <1>11 DEF RunOf, n


\* What holds after i frames: the data of the machine is untouched, the cache
\* has what the result has, and as long as nothing throws that is an entry
\* for each contract whose frame has returned.
FrameInv(m, tx, a, i) ==
    /\ a.vm.data = m.data /\ a.vm.cache = a.out
    /\ a.ret \in {"ok", "throw"}
    /\ a.ret = "ok" => \A c \in Contracts : a.out[c] # Absent <=> \E j \in 1..i : Frames(tx)[j] = c

\* A frame preserves it.
LEMMA FrameInvStep ==
    ASSUME NEW m \in Machines, NEW tx \in Tx, NEW i \in 1..Len(Frames(tx)), NEW a \in Accs,
           FrameInv(m, tx, a, i - 1)
    PROVE  FrameInv(m, tx, Frame(a, tx, Frames(tx)[i]), i)
<1> DEFINE c == Frames(tx)[i]
           r == Frame(a, tx, c)
           throws == (GetContractContext(a.vm, c) = Absent) # (tx.kind = "publish")
           new == Written1(a, tx, c)
<1>1. c \in Contracts /\ Len(Frames(tx)) \in Nat
  BY FramesType
<1>2. new # Absent
  BY <1>1, Written1Type
<1>3. /\ r.vm.data = a.vm.data
      /\ a.ret # "ok" => r = a
      /\ a.ret = "ok" /\ throws => r.ret = "throw" /\ r.out = a.out /\ r.vm = a.vm
      /\ a.ret = "ok" /\ ~throws => /\ r.ret = "ok"
                                   /\ r.out = [a.out EXCEPT ![c] = new]
                                   /\ r.vm.cache = [a.vm.cache EXCEPT ![c] = new]
  BY <1>1, FrameCases
<1>4. a.out \in Maps
  BY DEF Accs
<1> HIDE DEF r, throws, new
<1>5. CASE a.ret # "ok"
  BY <1>3, <1>5 DEF FrameInv, r
<1>6. CASE a.ret = "ok" /\ throws
  BY <1>3, <1>6 DEF FrameInv, r
<1>7. CASE a.ret = "ok" /\ ~throws
  <2>1. ASSUME NEW d \in Contracts PROVE r.out[d] # Absent <=> \E j \in 1..i : Frames(tx)[j] = d
    <3>1. CASE d = c
      BY <3>1, <1>1, <1>2, <1>3, <1>4, <1>7 DEF Maps
    <3>2. CASE d # c
      <4>1. r.out[d] = a.out[d]
        BY <3>2, <1>3, <1>4, <1>7 DEF Maps
      <4>2. a.out[d] # Absent <=> \E j \in 1..(i - 1) : Frames(tx)[j] = d
        BY <1>7 DEF FrameInv
      <4>3. (\E j \in 1..(i - 1) : Frames(tx)[j] = d) <=> \E j \in 1..i : Frames(tx)[j] = d
        BY <3>2, <1>1
      <4> QED
        BY <4>1, <4>2, <4>3
    <3> QED
      BY <3>1, <3>2
  <2>2. r.vm.data = m.data /\ r.vm.cache = r.out /\ r.ret = "ok"
    BY <1>3, <1>7 DEF FrameInv
  <2> QED
    BY <2>1, <2>2 DEF FrameInv, r
<1> QED
  BY <1>5, <1>6, <1>7

\* So it holds of the whole run.
LEMMA FramedInv ==
    ASSUME NEW m \in Machines, NEW tx \in Tx
    PROVE  Framed(m, tx) \in Accs /\ FrameInv(m, tx, Framed(m, tx), Len(Frames(tx)))
<1> DEFINE n == Len(Frames(tx))
<1>1. PICK f \in [0..n -> Accs] :
              /\ f[0] = Fresh(m)
              /\ \A i \in 1..n : f[i] = Frame(f[i - 1], tx, Frames(tx)[i])
              /\ Framed(m, tx) = f[n]
  BY FrameRun
<1>2. n \in Nat
  BY FramesType
<1> DEFINE Good == {i \in 0..n : FrameInv(m, tx, f[i], i)}
<1>3. 0 \in Good
  <2>1. FrameInv(m, tx, Fresh(m), 0)
    <3> HIDE DEF Fresh
    <3> QED
      BY FreshTypes, MapTypes DEF FrameInv
  <2> QED
    BY <1>1, <1>2, <2>1
<1>4. ASSUME NEW i \in 1..n, i - 1 \in Good PROVE i \in Good
  <2>1. i \in 0..n /\ f[i - 1] \in Accs
    BY <1>2
  <2>2. FrameInv(m, tx, f[i - 1], i - 1)
    BY <1>4
  <2>3. FrameInv(m, tx, Frame(f[i - 1], tx, Frames(tx)[i]), i)
    BY <2>1, <2>2, FrameInvStep
  <2> QED
    BY <1>1, <2>1, <2>3
<1>5. n \in Good
  <2> HIDE DEF Good, n
  <2> QED
    BY <1>2, <1>3, <1>4, InductTo
<1> QED
  BY <1>1, <1>2, <1>5

\* Does a frame throw.
Throws(acc, tx, c) == (GetContractContext(acc.vm, c) = Absent) # (tx.kind = "publish")

\* How a frame ends and what it adds to the result.
LEMMA FrameOutcome ==
    ASSUME NEW acc \in Accs, NEW tx \in Tx, NEW c \in Contracts
    PROVE  /\ Frame(acc, tx, c).ret = IF acc.ret # "ok" THEN acc.ret
                                      ELSE IF Throws(acc, tx, c) THEN "throw" ELSE "ok"
           /\ Frame(acc, tx, c).out = IF acc.ret = "ok" /\ ~Throws(acc, tx, c)
                                      THEN [acc.out EXCEPT ![c] = Written1(acc, tx, c)] ELSE acc.out
<1> DEFINE r == Frame(acc, tx, c)
           throws == (GetContractContext(acc.vm, c) = Absent) # (tx.kind = "publish")
           new == Written1(acc, tx, c)
<1>1. /\ acc.ret # "ok" => r = acc
      /\ acc.ret = "ok" /\ throws => r.ret = "throw" /\ r.out = acc.out /\ r.vm = acc.vm
      /\ acc.ret = "ok" /\ ~throws => /\ r.ret = "ok"
                                     /\ r.out = [acc.out EXCEPT ![c] = new]
                                     /\ r.vm.cache = [acc.vm.cache EXCEPT ![c] = new]
  BY FrameCases
<1>2. throws = Throws(acc, tx, c)
  BY DEF Throws
<1> HIDE DEF r, throws, new
<1> QED
  BY <1>1, <1>2 DEF r, new

\* A frame reads the machine at its own contract only.
LEMMA FrameAgree ==
    ASSUME NEW tx \in Tx, NEW c \in Contracts, NEW a \in Accs, NEW b \in Accs,
           a.out = b.out, a.ret = b.ret, a.vm.cache = a.out, b.vm.cache = b.out,
           a.vm.data[c] = b.vm.data[c]
    PROVE  /\ Frame(a, tx, c).out = Frame(b, tx, c).out
           /\ Frame(a, tx, c).ret = Frame(b, tx, c).ret
<1>1. GetContractContext(a.vm, c) = GetContractContext(b.vm, c)
  BY DEF GetContractContext, Overlay
<1>2. Written1(a, tx, c) = Written1(b, tx, c) /\ Throws(a, tx, c) = Throws(b, tx, c)
  BY <1>1 DEF Written1, Throws
<1> DEFINE r == Frame(a, tx, c)
           q == Frame(b, tx, c)
<1>3. /\ r.ret = IF a.ret # "ok" THEN a.ret ELSE IF Throws(a, tx, c) THEN "throw" ELSE "ok"
      /\ r.out = IF a.ret = "ok" /\ ~Throws(a, tx, c) THEN [a.out EXCEPT ![c] = Written1(a, tx, c)] ELSE a.out
  BY FrameOutcome
<1>4. /\ q.ret = IF b.ret # "ok" THEN b.ret ELSE IF Throws(b, tx, c) THEN "throw" ELSE "ok"
      /\ q.out = IF b.ret = "ok" /\ ~Throws(b, tx, c) THEN [b.out EXCEPT ![c] = Written1(b, tx, c)] ELSE b.out
  BY FrameOutcome
<1> HIDE DEF r, q
<1>5. r.out = q.out /\ r.ret = q.ret
  BY <1>2, <1>3, <1>4
<1> QED
  BY <1>5 DEF r, q

\* So two machines with the same data of the contracts that a transaction
\* uses give it the same result.
LEMMA FramedAgree ==
    ASSUME NEW tx \in Tx, tx.kind # "plain", NEW m \in Machines, NEW w \in Machines,
           \A c \in ContractAddrs(tx) : m.data[c] = w.data[c]
    PROVE  Framed(m, tx).out = Framed(w, tx).out /\ Framed(m, tx).ret = Framed(w, tx).ret
<1> DEFINE n == Len(Frames(tx))
<1>1. PICK f \in [0..n -> Accs] :
              /\ f[0] = Fresh(m)
              /\ \A i \in 1..n : f[i] = Frame(f[i - 1], tx, Frames(tx)[i])
              /\ Framed(m, tx) = f[n]
  BY FrameRun
<1>2. PICK g \in [0..n -> Accs] :
              /\ g[0] = Fresh(w)
              /\ \A i \in 1..n : g[i] = Frame(g[i - 1], tx, Frames(tx)[i])
              /\ Framed(w, tx) = g[n]
  BY FrameRun
<1>3. n \in Nat
  BY FramesType
<1> DEFINE Same == {i \in 0..n : /\ FrameInv(m, tx, f[i], i) /\ FrameInv(w, tx, g[i], i)
                                /\ f[i].out = g[i].out /\ f[i].ret = g[i].ret}
<1>4. 0 \in Same
  <2>1. FrameInv(m, tx, Fresh(m), 0) /\ FrameInv(w, tx, Fresh(w), 0)
    <3> HIDE DEF Fresh
    <3> QED
      BY FreshTypes, MapTypes DEF FrameInv
  <2>2. Fresh(m).out = Fresh(w).out /\ Fresh(m).ret = Fresh(w).ret
    BY DEF Fresh
  <2> QED
    BY <1>1, <1>2, <1>3, <2>1, <2>2
<1>5. ASSUME NEW i \in 1..n, i - 1 \in Same PROVE i \in Same
  <2> DEFINE a == f[i - 1]
             b == g[i - 1]
             c == Frames(tx)[i]
  <2>1. i \in 0..n /\ a \in Accs /\ b \in Accs
    BY <1>3
  <2>2. /\ FrameInv(m, tx, a, i - 1) /\ FrameInv(w, tx, b, i - 1)
        /\ a.out = b.out /\ a.ret = b.ret
    BY <1>5
  <2>3. f[i] = Frame(a, tx, c) /\ g[i] = Frame(b, tx, c)
    BY <1>1, <1>2
  <2>4. FrameInv(m, tx, f[i], i) /\ FrameInv(w, tx, g[i], i)
    BY <2>1, <2>2, <2>3, FrameInvStep
  <2>5. c \in Contracts /\ c \in ContractAddrs(tx)
    BY FramesType
  <2>6. a.vm.data[c] = b.vm.data[c] /\ a.vm.cache = a.out /\ b.vm.cache = b.out
    BY <2>2, <2>5 DEF FrameInv
  <2> HIDE DEF a, b, c
  <2>7. Frame(a, tx, c).out = Frame(b, tx, c).out /\ Frame(a, tx, c).ret = Frame(b, tx, c).ret
    BY <2>1, <2>2, <2>5, <2>6, FrameAgree
  <2> QED
    BY <2>1, <2>3, <2>4, <2>7
<1>6. n \in Same
  <2> HIDE DEF Same, n
  <2>1. 0..n \subseteq Same
    BY <1>3, <1>4, <1>5, InductTo, Zenon
  <2> QED
    BY <1>3, <2>1
<1> QED
  BY <1>1, <1>2, <1>6

\* ExecuteContract returns the result of the frames, and a failure of tx.
LEMMA ExecuteIs ==
    ASSUME NEW tx \in Tx, NEW m \in Machines
    PROVE  LET r == ExecuteContract(m, tx) IN
           /\ r \in Accs
           /\ tx.kind = "plain" => r.vm = m /\ r.out = Empty /\ r.ret = "ok"
           /\ tx.kind # "plain" =>
                 /\ r.out = Framed(m, tx).out /\ r.vm = Framed(m, tx).vm
                 /\ r.ret = IF Framed(m, tx).ret = "ok" THEN tx.ends ELSE Framed(m, tx).ret
<1> DEFINE r == Framed(m, tx)
<1>1. ExecuteContract(m, tx) = IF tx.kind = "plain" THEN [Fresh(m) EXCEPT !.vm = m]
                               ELSE IF r.ret = "ok" THEN [r EXCEPT !.ret = tx.ends] ELSE r
  BY DEF ExecuteContract, Framed, Fresh
<1>2. r \in Accs /\ Fresh(m) \in Accs /\ Fresh(m).out = Empty /\ Fresh(m).ret = "ok"
  BY FramedInv, FreshTypes
<1>3. tx.ends \in Rets
  BY DEF Tx, Rets
<1> HIDE DEF r
<1>4. [r EXCEPT !.ret = tx.ends] \in Accs /\ [Fresh(m) EXCEPT !.vm = m] \in Accs
  BY <1>2, <1>3 DEF Accs
<1>5. /\ [r EXCEPT !.ret = tx.ends].out = r.out /\ [r EXCEPT !.ret = tx.ends].vm = r.vm
      /\ [r EXCEPT !.ret = tx.ends].ret = tx.ends
  BY <1>2 DEF Accs
<1>6. /\ [Fresh(m) EXCEPT !.vm = m].out = Empty /\ [Fresh(m) EXCEPT !.vm = m].vm = m
      /\ [Fresh(m) EXCEPT !.vm = m].ret = "ok"
  BY <1>2 DEF Accs
<1>7. CASE tx.kind = "plain"
  BY <1>1, <1>4, <1>6, <1>7
<1>8. CASE tx.kind # "plain" /\ r.ret = "ok"
  BY <1>1, <1>4, <1>5, <1>8 DEF r
<1>9. CASE tx.kind # "plain" /\ r.ret # "ok"
  BY <1>1, <1>2, <1>9 DEF r
<1> QED
  BY <1>7, <1>8, <1>9

\* What a transaction does, whatever it is: it leaves the data of the machine
\* alone; one that ends well has written exactly the contracts that it uses;
\* only one that is to fail returns false.
Outcome(r, m, tx) ==
    /\ r \in Accs
    /\ r.vm.data = m.data
    /\ tx.kind = "plain" => r.vm = m /\ r.out = Empty /\ r.ret = "ok"
    /\ tx.kind # "plain" => r.vm.cache = r.out
    /\ r.ret = "ok" => \A c \in Contracts : r.out[c] # Absent <=> c \in ContractAddrs(tx)
    /\ r.ret = "ok" => tx.kind = "plain" \/ tx.ends = "ok"
    /\ r.ret = "false" => tx.kind # "plain" /\ tx.ends = "false"

\* ExecuteContract does that.
LEMMA ExecuteFacts ==
    ASSUME NEW tx \in Tx, NEW m \in Machines
    PROVE  Outcome(ExecuteContract(m, tx), m, tx)
<1> DEFINE r == ExecuteContract(m, tx)
           q == Framed(m, tx)
           F == {Frames(tx)[i] : i \in 1..Len(Frames(tx))}
<1>1. /\ r \in Accs
      /\ tx.kind = "plain" => r.vm = m /\ r.out = Empty /\ r.ret = "ok"
      /\ tx.kind # "plain" => /\ r.out = q.out /\ r.vm = q.vm
                             /\ r.ret = IF q.ret = "ok" THEN tx.ends ELSE q.ret
  BY ExecuteIs
<1>2. /\ q.vm.data = m.data /\ q.vm.cache = q.out
      /\ q.ret \in {"ok", "throw"}
      /\ q.ret = "ok" => \A c \in Contracts : q.out[c] # Absent <=> c \in F
  BY FramedInv DEF FrameInv
<1>3. tx.kind # "plain" /\ tx.ends = "ok" => ContractAddrs(tx) = F
  BY FramesType
<1>4. tx.kind = "plain" => ContractAddrs(tx) = {}
  BY DEF ContractAddrs
<1>5. \A c \in Contracts : Empty[c] = Absent
  BY MapTypes
<1> HIDE DEF r, q, F
<1> SUFFICES Outcome(r, m, tx)
  BY DEF r
<1>6. CASE tx.kind = "plain"
  BY <1>1, <1>4, <1>5, <1>6 DEF Outcome
<1>7. CASE tx.kind # "plain"
  <2>1. r.out = q.out /\ r.vm = q.vm /\ r.vm.data = m.data /\ r.vm.cache = r.out
    BY <1>1, <1>2, <1>7
  <2>2. CASE q.ret = "ok"
    BY <1>1, <1>2, <1>3, <1>7, <2>1, <2>2 DEF Outcome
  <2>3. CASE q.ret # "ok"
    BY <1>1, <1>2, <1>7, <2>1, <2>3 DEF Outcome
  <2> QED
    BY <2>2, <2>3
<1> QED
  BY <1>6, <1>7

\* The result of a transaction depends on the contracts that it uses only.
LEMMA ExecuteAgree ==
    ASSUME NEW tx \in Tx, NEW m \in Machines, NEW w \in Machines,
           \A c \in ContractAddrs(tx) : m.data[c] = w.data[c]
    PROVE  /\ ExecuteContract(m, tx).out = ExecuteContract(w, tx).out
           /\ ExecuteContract(m, tx).ret = ExecuteContract(w, tx).ret
<1>1. CASE tx.kind = "plain"
  BY <1>1, ExecuteIs
<1>2. CASE tx.kind # "plain"
  <2>1. Framed(m, tx).out = Framed(w, tx).out /\ Framed(m, tx).ret = Framed(w, tx).ret
    BY <1>2, FramedAgree
  <2>2. /\ ExecuteContract(m, tx).out = Framed(m, tx).out
        /\ ExecuteContract(m, tx).ret = IF Framed(m, tx).ret = "ok" THEN tx.ends ELSE Framed(m, tx).ret
    BY <1>2, ExecuteIs
  <2>3. /\ ExecuteContract(w, tx).out = Framed(w, tx).out
        /\ ExecuteContract(w, tx).ret = IF Framed(w, tx).ret = "ok" THEN tx.ends ELSE Framed(w, tx).ret
    BY <1>2, ExecuteIs
  <2> QED
    BY <2>1, <2>2, <2>3
<1> QED
  BY <1>1, <1>2

(***************************************************************************)
(* The last result for a contract                                          *)
(***************************************************************************)
\* v is the last entry for c among the results o of the transactions at P.
LastOf(v, o, P, c) ==
    \/ v = Absent /\ \A j \in P : o[j][c] = Absent
    \/ /\ v # Absent
       /\ \E j \in P : o[j][c] = v /\ \A i \in P : i > j => o[i][c] = Absent

\* There is at most one.
LEMMA LastUnique ==
    ASSUME NEW P \in SUBSET Nat, NEW c, NEW o, NEW v, NEW w, LastOf(v, o, P, c), LastOf(w, o, P, c)
    PROVE  v = w
<1>1. CASE v = Absent
  BY <1>1 DEF LastOf
<1>2. CASE w = Absent
  BY <1>2 DEF LastOf
<1>3. CASE v # Absent /\ w # Absent
  <2>1. PICK j \in P : o[j][c] = v /\ \A i \in P : i > j => o[i][c] = Absent
    BY <1>3 DEF LastOf
  <2>2. PICK k \in P : o[k][c] = w /\ \A i \in P : i > k => o[i][c] = Absent
    BY <1>3 DEF LastOf
  <2>3. ~(j > k) /\ ~(k > j)
    BY <1>3, <2>1, <2>2
  <2>4. j \in Nat /\ k \in Nat
    OBVIOUS
  <2>5. j = k
    BY <2>3, <2>4
  <2> QED
    BY <2>1, <2>2, <2>5
<1> QED
  BY <1>1, <1>2, <1>3

\* It changes with a transaction that comes after the others.
LEMMA LastAdd ==
    ASSUME NEW P \in SUBSET Nat, NEW k \in Nat, \A j \in P : j < k,
           NEW c, NEW o, NEW q, \A j \in P : q[j] = o[j], NEW v, LastOf(v, o, P, c)
    PROVE  LastOf(IF q[k][c] # Absent THEN q[k][c] ELSE v, q, P \cup {k}, c)
<1>1. CASE q[k][c] # Absent
  <2>1. \A i \in P \cup {k} : ~(i > k)
    OBVIOUS
  <2> QED
    BY <1>1, <2>1 DEF LastOf
<1>2. CASE q[k][c] = Absent
  <2>1. CASE v = Absent
    BY <1>2, <2>1 DEF LastOf
  <2>2. CASE v # Absent
    <3>1. PICK j \in P : o[j][c] = v /\ \A i \in P : i > j => o[i][c] = Absent
      BY <2>2 DEF LastOf
    <3>2. q[j][c] = v /\ \A i \in P \cup {k} : i > j => q[i][c] = Absent
      BY <1>2, <3>1
    <3> QED
      BY <1>2, <2>2, <3>2 DEF LastOf
  <2> QED
    BY <2>1, <2>2
<1> QED
  BY <1>1, <1>2

\* It does not change with transactions that have no entry.
LEMMA LastMore ==
    ASSUME NEW Q \in SUBSET Nat, NEW P \in SUBSET Q, NEW c, NEW o, \A j \in Q \ P : o[j][c] = Absent,
           NEW v, LastOf(v, o, P, c)
    PROVE  LastOf(v, o, Q, c)
<1>1. CASE v = Absent
  BY <1>1 DEF LastOf
<1>2. CASE v # Absent
  <2>1. PICK j \in P : o[j][c] = v /\ \A i \in P : i > j => o[i][c] = Absent
    BY <1>2 DEF LastOf
  <2>2. j \in Q /\ \A i \in Q : i > j => o[i][c] = Absent
    BY <2>1
  <2> QED
    BY <1>2, <2>1, <2>2 DEF LastOf
<1> QED
  BY <1>1, <1>2

(***************************************************************************)
(* The invariant                                                           *)
(***************************************************************************)
Positions == DOMAIN block.vtx

\* The transactions that t has executed.
Done(t) == {k \in Positions : by[k] = t /\ k \notin task[t]}

\* The queue: what has been taken is what comes before the next group, a
\* group as a whole; a thread goes through what it has taken in order, and
\* what is still to be executed has no result.
Queue ==
    /\ pc # "executing" => \A t \in Threads : task[t] = {}
    /\ \A k \in Positions : by[k] # Absent <=> k <= Offset(block, next)
    /\ \A g \in Groups(block) : \A j, k \in Group(block, g) : by[j] = by[k]
    /\ \A t \in Threads : \A k \in task[t] : by[k] = t /\ outs[k] = Empty
    /\ \A t \in Threads : \A k \in task[t], j \in Done(t) : j < k
    /\ \A k \in Positions : by[k] = Absent => outs[k] = Empty

\* What a machine holds is a result of a transaction its thread has taken.
Traces ==
    \A t \in Threads, c \in Contracts :
        vm[t].data[c] # Absent \/ vm[t].cache[c] # Absent =>
            \E k \in Positions : by[k] = t /\ outs[k][c] # Absent

\* Only a transaction that fails sets interrupt.
Interrupted ==
    interrupt => \E k \in Positions : block.vtx[k].kind # "plain" /\ block.vtx[k].ends = "false"

\* The result of k is that of a machine that holds what thread t has
\* written before.
Replayed(t, k) ==
    \E m \in Machines :
        /\ \A c \in Contracts : LastOf(m.data[c], outs, Done(t) \cap 1..(k - 1), c)
        /\ ExecuteContract(m, block.vtx[k]).out = outs[k]
        /\ ExecuteContract(m, block.vtx[k]).ret = "ok"

\* As long as nothing has failed, a machine holds the last results of the
\* transactions its thread has executed, and each has the result that it has
\* after those before it.
Faithful ==
    ~interrupt /\ ~caught =>
        \A t \in Threads :
            /\ vm[t].cache = Empty
            /\ \A c \in Contracts : LastOf(vm[t].data[c], outs, Done(t), c)
            /\ \A k \in Done(t) : Replayed(t, k)

\* What Execute and CheckCross have returned.
Checked ==
    pc = "checked" =>
        /\ next \notin Groups(block)
        /\ result = [executed |-> ~interrupt, independent |-> CheckCross, data |-> FinalData]

IInv == TypeOK /\ Queue /\ Traces /\ Interrupted /\ Faithful /\ Checked

\* The shape of a block: groups follow each other and cover it.
LEMMA BlockFacts ==
    ASSUME NEW b \in Blocks \cup Mined
    PROVE  LET n == Len(b.groupEnd)
               N == Len(b.vtx)
           IN  /\ n \in Nat \ {0} /\ N \in Nat \ {0}
               /\ Groups(b) = 1..n /\ DOMAIN b.vtx = 1..N
               /\ \A k \in 1..N : b.vtx[k] \in Tx
               /\ \A g \in 1..(n + 1) : Offset(b, g) \in 0..N
               /\ \A g, h \in 1..(n + 1) : g <= h => Offset(b, g) <= Offset(b, h)
               /\ \A g \in 1..n : Group(b, g) = (Offset(b, g) + 1)..Offset(b, g + 1)
               /\ \A g \in 1..n : Group(b, g) \subseteq 1..N
               /\ Offset(b, 1) = 0 /\ Offset(b, n + 1) = N
<1> DEFINE n == Len(b.groupEnd)
           N == Len(b.vtx)
           e == b.groupEnd
<1>1. b.vtx \in Seq(Tx) /\ e \in Seq(Nat) /\ CheckBlockGroupSize(b)
  BY BlocksAssumption
<1>2. n \in Nat /\ N \in Nat /\ DOMAIN e = 1..n /\ DOMAIN b.vtx = 1..N
  BY <1>1
<1>3. \A k \in 1..N : b.vtx[k] \in Tx
  BY <1>1
<1>4. /\ n \in 1..MaxGroups /\ N > 0 /\ e[n] = N
      /\ \A g, h \in 1..n : g <= h => e[g] <= e[h]
  BY <1>1 DEF CheckBlockGroupSize
<1>5. \A g \in 1..n : e[g] \in Nat
  BY <1>1, <1>2
<1>6. n \in Nat \ {0} /\ N \in Nat \ {0}
  BY <1>2, <1>4, GroupingAssumption
<1>7. \A g \in 1..(n + 1) : Offset(b, g) = IF g = 1 THEN 0 ELSE e[g - 1]
  BY DEF Offset
<1>8. \A g \in 1..n : Group(b, g) = (Offset(b, g) + 1)..e[g]
  BY DEF Group
<1> HIDE DEF n, N, e
<1>9. \A g \in 1..n : e[g] \in 0..N
  <2> SUFFICES ASSUME NEW g \in 1..n PROVE e[g] \in 0..N
    OBVIOUS
  <2>1. n \in 1..n /\ g <= n
    BY <1>6
  <2> QED
    BY <1>4, <1>5, <1>6, <2>1
<1>10. \A g \in 1..n : Offset(b, g + 1) = e[g]
  BY <1>6, <1>7
<1>11. \A g \in 1..(n + 1) : Offset(b, g) \in 0..N
  BY <1>6, <1>7, <1>9
<1>12. ASSUME NEW g \in 1..(n + 1), NEW h \in 1..(n + 1), g <= h PROVE Offset(b, g) <= Offset(b, h)
  <2>1. CASE g = 1
    BY <2>1, <1>7, <1>11, <1>6
  <2>2. CASE g # 1
    <3>1. g - 1 \in 1..n /\ h - 1 \in 1..n /\ g - 1 <= h - 1 /\ h # 1
      BY <2>2, <1>12, <1>6
    <3> QED
      BY <3>1, <2>2, <1>4, <1>7
  <2> QED
    BY <2>1, <2>2
<1>13. \A g \in 1..n : Group(b, g) = (Offset(b, g) + 1)..Offset(b, g + 1)
  BY <1>8, <1>10
<1>14. ASSUME NEW g \in 1..n PROVE Group(b, g) \subseteq 1..N
  <2>1. Offset(b, g) \in 0..N /\ Offset(b, g + 1) \in 0..N
    BY <1>6, <1>11
  <2> QED
    BY <2>1, <1>13, <1>6
<1>15. Offset(b, 1) = 0 /\ Offset(b, n + 1) = N
  BY <1>6, <1>7, <1>10, <1>4
<1>16. Groups(b) = 1..n
  BY <1>2 DEF Groups, e, n
<1> QED
  BY <1>2, <1>3, <1>6, <1>11, <1>12, <1>13, <1>14, <1>15, <1>16 DEF n, N

\* The invariant holds at the start.
LEMMA InitStep == ASSUME Init PROVE IInv
<1>1. /\ block \in Blocks \cup Mined /\ template \in Templates \cup {<<>>}
      /\ pc \in {"idle", "executing"} /\ next = 1
      /\ vm = [t \in Threads |-> NewVM] /\ task = [t \in Threads |-> {}]
      /\ interrupt = FALSE /\ caught = FALSE /\ result = NoResult
      /\ outs = [k \in DOMAIN block.vtx |-> Empty]
      /\ by = [k \in DOMAIN block.vtx |-> Absent]
  BY DEF Init
<1> USE DEF NewVM
<1>2. LET N == Len(block.vtx) IN
      /\ N \in Nat /\ DOMAIN block.vtx = 1..N /\ Offset(block, 1) = 0
      /\ Len(block.groupEnd) \in Nat \ {0} /\ Groups(block) = 1..Len(block.groupEnd)
      /\ \A g \in Groups(block) : Group(block, g) \subseteq DOMAIN block.vtx
  BY <1>1, BlockFacts, Zenon
<1>3. Empty \in Maps /\ \A c \in Contracts : Empty[c] = Absent
  BY MapTypes
<1>4. \A k \in DOMAIN block.vtx : by[k] = Absent /\ outs[k] = Empty
  BY <1>1
<1>5. Absent \notin Threads
  BY BaseAssumption
<1>6. NewVM \in Machines /\ NoResult \in [executed : BOOLEAN, independent : BOOLEAN, data : Maps]
  BY <1>3 DEF Machines, NoResult
<1> HIDE DEF NewVM
<1>7. TypeOK
  <2>1. 1 \in 1..(Len(block.groupEnd) + 1)
    BY <1>2
  <2>2. vm \in [Threads -> Machines] /\ task \in [Threads -> SUBSET (1..Offset(block, 1))]
    BY <1>1, <1>6
  <2>3. outs \in [DOMAIN block.vtx -> Maps] /\ by \in [DOMAIN block.vtx -> Threads \cup {Absent}]
    BY <1>1, <1>3
  <2> QED
    BY <1>1, <1>6, <2>1, <2>2, <2>3, Zenon DEF TypeOK
<1>8. Queue
  <2>1. \A t \in Threads : task[t] = {}
    BY <1>1
  <2>2. \A k \in DOMAIN block.vtx : ~(k <= Offset(block, 1))
    BY <1>2
  <2>3. \A g \in Groups(block) : \A j, k \in Group(block, g) : by[j] = by[k]
    BY <1>2, <1>4
  <2> QED
    BY <1>1, <1>4, <2>1, <2>2, <2>3 DEF Queue, Positions
<1>9. \A t \in Threads : Done(t) = {}
  BY <1>4, <1>5 DEF Done, Positions
<1>10. \A t \in Threads : vm[t].data = Empty /\ vm[t].cache = Empty
  BY <1>1 DEF NewVM
<1>11. Traces
  BY <1>3, <1>10 DEF Traces
<1>12. Faithful
  <2>1. \A t \in Threads, c \in Contracts : LastOf(vm[t].data[c], outs, Done(t), c)
    BY <1>3, <1>9, <1>10 DEF LastOf
  <2> QED
    BY <1>9, <1>10, <2>1 DEF Faithful
<1>13. Interrupted /\ Checked
  BY <1>1 DEF Interrupted, Checked
<1> QED
  BY <1>7, <1>8, <1>11, <1>12, <1>13 DEF IInv

\* Execute starts anew, whatever the machines held.
LEMMA ExecuteStep ==
    ASSUME NEW b \in Blocks \cup Mined, NEW w \in Templates \cup {<<>>}, IInv, Execute(b, w)
    PROVE  IInv'
<1>0. task = [t \in Threads |-> {}]
  <2>1. task \in [Threads -> SUBSET (1..Offset(block, next))]
    BY DEF IInv, TypeOK
  <2>2. \A t \in Threads : task[t] = {}
    BY DEF IInv, Queue, Execute
  <2> QED
    BY <2>1, <2>2
<1>1. /\ block' \in Blocks \cup Mined /\ template' \in Templates \cup {<<>>}
      /\ pc' \in {"idle", "executing"} /\ next' = 1
      /\ vm' = [t \in Threads |-> NewVM] /\ task' = [t \in Threads |-> {}]
      /\ interrupt' = FALSE /\ caught' = FALSE /\ result' = NoResult
      /\ outs' = [k \in DOMAIN block'.vtx |-> Empty]
      /\ by' = [k \in DOMAIN block'.vtx |-> Absent]
  BY <1>0 DEF Execute, ClearData
<1> USE DEF NewVM
<1>2. LET N == Len(block'.vtx) IN
      /\ N \in Nat /\ DOMAIN block'.vtx = 1..N /\ Offset(block', 1) = 0
      /\ Len(block'.groupEnd) \in Nat \ {0} /\ Groups(block') = 1..Len(block'.groupEnd)
      /\ \A g \in Groups(block') : Group(block', g) \subseteq DOMAIN block'.vtx
  BY <1>1, BlockFacts, Zenon
<1>3. Empty \in Maps /\ \A c \in Contracts : Empty[c] = Absent
  BY MapTypes
<1>4. \A k \in DOMAIN block'.vtx : by'[k] = Absent /\ outs'[k] = Empty
  BY <1>1
<1>5. Absent \notin Threads
  BY BaseAssumption
<1>6. NewVM \in Machines /\ NoResult \in [executed : BOOLEAN, independent : BOOLEAN, data : Maps]
  BY <1>3 DEF Machines, NoResult
<1> HIDE DEF NewVM
<1>7. TypeOK'
  <2>1. 1 \in 1..(Len(block'.groupEnd) + 1)
    BY <1>2
  <2>2. vm' \in [Threads -> Machines] /\ task' \in [Threads -> SUBSET (1..Offset(block', 1))]
    BY <1>1, <1>6
  <2>3. outs' \in [DOMAIN block'.vtx -> Maps] /\ by' \in [DOMAIN block'.vtx -> Threads \cup {Absent}]
    BY <1>1, <1>3
  <2> QED
    BY <1>1, <1>6, <2>1, <2>2, <2>3, Zenon DEF TypeOK
<1>8. Queue'
  <2>1. \A t \in Threads : task'[t] = {}
    BY <1>1
  <2>2. \A k \in DOMAIN block'.vtx : ~(k <= Offset(block', 1))
    BY <1>2
  <2>3. \A g \in Groups(block') : \A j, k \in Group(block', g) : by'[j] = by'[k]
    BY <1>2, <1>4
  <2> QED
    BY <1>1, <1>4, <2>1, <2>2, <2>3 DEF Queue, Positions
<1>9. \A t \in Threads : Done(t)' = {}
  BY <1>4, <1>5 DEF Done, Positions
<1>10. \A t \in Threads : vm'[t].data = Empty /\ vm'[t].cache = Empty
  BY <1>1 DEF NewVM
<1>11. Traces'
  BY <1>3, <1>10 DEF Traces
<1>12. Faithful'
  <2>1. \A t \in Threads, c \in Contracts : LastOf(vm'[t].data[c], outs', Done(t)', c)
    BY <1>3, <1>9, <1>10 DEF LastOf
  <2> QED
    BY <1>9, <1>10, <2>1 DEF Faithful
<1>13. Interrupted' /\ Checked'
  BY <1>1 DEF Interrupted, Checked
<1> QED
  BY <1>7, <1>8, <1>11, <1>12, <1>13 DEF IInv

\* No transaction is in two groups, and what is in the next group comes after
\* what was taken.
LEMMA GroupFacts ==
    ASSUME TypeOK, next \in Groups(block)
    PROVE  /\ next \in Nat /\ next + 1 \in 1..(Len(block.groupEnd) + 1)
           /\ Offset(block, next) \in Nat /\ Offset(block, next + 1) \in Nat
           /\ Offset(block, next) <= Offset(block, next + 1)
           /\ Group(block, next) = (Offset(block, next) + 1)..Offset(block, next + 1)
           /\ Group(block, next) \subseteq Positions
           /\ Positions \subseteq Nat
           /\ \A g \in Groups(block) : g # next => Group(block, g) \cap Group(block, next) = {}
<1> DEFINE n == Len(block.groupEnd)
           N == Len(block.vtx)
           off(g) == Offset(block, g)
<1>1. block \in Blocks \cup Mined
  BY DEF TypeOK
<1>2. /\ n \in Nat \ {0} /\ N \in Nat \ {0}
      /\ Groups(block) = 1..n /\ DOMAIN block.vtx = 1..N
      /\ \A g \in 1..(n + 1) : off(g) \in 0..N
      /\ \A g, h \in 1..(n + 1) : g <= h => off(g) <= off(h)
      /\ \A g \in 1..n : Group(block, g) = (off(g) + 1)..off(g + 1)
      /\ \A g \in 1..n : Group(block, g) \subseteq 1..N
  BY <1>1, BlockFacts
<1> HIDE DEF n, N, off
<1>3. next \in 1..n /\ next \in 1..(n + 1) /\ next + 1 \in 1..(n + 1) /\ next <= next + 1
  BY <1>2
<1>4. off(next) \in Nat /\ off(next + 1) \in Nat /\ off(next) <= off(next + 1)
  BY <1>2, <1>3
<1>5. ASSUME NEW g \in 1..n, g # next PROVE Group(block, g) \cap Group(block, next) = {}
  <2>1. g \in 1..(n + 1) /\ g + 1 \in 1..(n + 1)
    BY <1>2
  <2>2. off(g) \in Nat /\ off(g + 1) \in Nat
    BY <1>2, <2>1
  <2>3. g + 1 <= next \/ next + 1 <= g
    BY <1>2, <1>3, <1>5
  <2>4. off(g + 1) <= off(next) \/ off(next + 1) <= off(g)
    BY <1>2, <1>3, <2>1, <2>3
  <2>5. Group(block, g) = (off(g) + 1)..off(g + 1) /\ Group(block, next) = (off(next) + 1)..off(next + 1)
    BY <1>2, <1>3
  <2> QED
    BY <1>4, <2>2, <2>4, <2>5
<1> QED
  BY <1>2, <1>3, <1>4, <1>5 DEF Positions, n, off

\* Take.
LEMMA TakeStep ==
    ASSUME NEW t \in Threads, IInv, Take(t)
    PROVE  IInv'
<1> DEFINE G == Group(block, next)
           lo == Offset(block, next)
           hi == Offset(block, next + 1)
<1>1. TypeOK /\ Queue /\ Traces /\ Interrupted /\ Faithful
  BY DEF IInv
<1>2. /\ pc = "executing" /\ task[t] = {} /\ next \in Groups(block)
      /\ task' = [task EXCEPT ![t] = G]
      /\ by' = [k \in DOMAIN by |-> IF k \in G THEN t ELSE by[k]]
      /\ next' = next + 1
      /\ block' = block /\ template' = template /\ pc' = pc /\ vm' = vm /\ interrupt' = interrupt
      /\ outs' = outs /\ result' = result /\ caught' = caught
  BY DEF Take
<1>3. /\ next \in Nat /\ next + 1 \in 1..(Len(block.groupEnd) + 1)
      /\ lo \in Nat /\ hi \in Nat /\ lo <= hi /\ G = (lo + 1)..hi
      /\ G \subseteq Positions /\ Positions \subseteq Nat
      /\ \A g \in Groups(block) : g # next => Group(block, g) \cap G = {}
  BY <1>1, <1>2, GroupFacts
<1>4. /\ task \in [Threads -> SUBSET (1..lo)] /\ by \in [Positions -> Threads \cup {Absent}]
      /\ block \in Blocks \cup Mined /\ t # Absent
  BY <1>1, BaseAssumption DEF TypeOK, Positions
<1>5. Positions' = Positions /\ Offset(block, next)' = hi
  BY <1>2 DEF Positions, Offset
<1> HIDE DEF G, lo, hi
<1>6. \A s \in Threads : task'[s] = IF s = t THEN G ELSE task[s]
  BY <1>2, <1>4
<1>7. by' \in [Positions -> Threads \cup {Absent}] /\ \A k \in Positions : by'[k] = IF k \in G THEN t ELSE by[k]
  BY <1>2, <1>4
<1>8. \A k \in Positions : by[k] # Absent <=> k <= lo
  BY <1>1 DEF Queue, lo
<1>9. \A k \in G : k > lo /\ k \in Positions /\ by[k] = Absent
  BY <1>3, <1>8
<1>10. \A s \in Threads : task[s] \subseteq 1..lo /\ task[s] \cap G = {}
  BY <1>3, <1>4
<1>11. TypeOK'
  <2>1. task' \in [Threads -> SUBSET (1..hi)]
    BY <1>2, <1>3, <1>4
  <2> QED
    BY <1>1, <1>2, <1>3, <1>5, <1>7, <2>1, Zenon DEF TypeOK, Positions
<1>12. ASSUME NEW s \in Threads PROVE Done(s)' = Done(s)
  <2>1. ASSUME NEW k \in Positions PROVE (by'[k] = s /\ k \notin task'[s]) <=> (by[k] = s /\ k \notin task[s])
    <3>1. CASE k \in G
      <4>1. by[k] # s
        BY <1>9, <3>1, BaseAssumption
      <4>2. by'[k] = t /\ (s = t => k \in task'[s])
        BY <1>6, <1>7, <3>1
      <4> QED
        BY <4>1, <4>2
    <3>2. CASE k \notin G
      BY <3>2, <1>2, <1>6, <1>7
    <3> QED
      BY <3>1, <3>2
  <2> QED
    BY <2>1, <1>5, Zenon DEF Done
<1>13. Queue'
  <2>1. ASSUME NEW k \in Positions PROVE by'[k] # Absent <=> k <= hi
    <3>1. CASE k \in G
      BY <3>1, <1>3, <1>4, <1>7
    <3>2. CASE k \notin G
      BY <3>2, <1>3, <1>7, <1>8
    <3> QED
      BY <3>1, <3>2
  <2>2. ASSUME NEW g \in Groups(block), NEW j \in Group(block, g), NEW k \in Group(block, g)
        PROVE  by'[j] = by'[k]
    <3>1. Group(block, g) \subseteq Positions
      BY <1>4, BlockFacts, Zenon DEF Positions
    <3>2. CASE g = next
      BY <3>1, <3>2, <1>7 DEF G
    <3>3. CASE g # next
      <4>1. j \notin G /\ k \notin G
        BY <1>3, <3>3
      <4>2. by[j] = by[k]
        BY <1>1 DEF Queue
      <4> QED
        BY <4>1, <4>2, <3>1, <1>7
    <3> QED
      BY <3>2, <3>3
  <2>3. ASSUME NEW s \in Threads, NEW k \in task'[s] PROVE by'[k] = s /\ outs'[k] = Empty
    <3>1. CASE s = t
      <4>1. k \in G
        BY <3>1, <1>6
      <4>2. outs[k] = Empty
        BY <4>1, <1>1, <1>9 DEF Queue
      <4> QED
        BY <3>1, <4>1, <4>2, <1>2, <1>7, <1>9
    <3>2. CASE s # t
      <4>1. k \in task[s] /\ k \notin G
        BY <3>2, <1>6, <1>10
      <4>2. by[k] = s /\ outs[k] = Empty
        BY <4>1, <1>1 DEF Queue
      <4>3. k \in Positions
        <5>1. \A N \in Nat : lo \in 0..N => 1..lo \subseteq 1..N
          BY <1>3
        <5>2. Len(block.vtx) \in Nat /\ lo \in 0..Len(block.vtx) /\ Positions = 1..Len(block.vtx)
          <6>1. next \in 1..(Len(block.groupEnd) + 1)
            BY <1>1 DEF TypeOK
          <6> QED
            BY <6>1, <1>4, BlockFacts DEF Positions, lo
        <5> QED
          BY <4>1, <1>10, <5>1, <5>2
      <4> QED
        BY <4>1, <4>2, <4>3, <1>2, <1>7
    <3> QED
      BY <3>1, <3>2
  <2>4. ASSUME NEW s \in Threads, NEW k \in task'[s], NEW j \in Done(s)' PROVE j < k
    <3>1. j \in Done(s)
      BY <1>12
    <3>2. CASE s = t
      <4>1. k \in G /\ j \in Positions /\ by[j] = t
        BY <3>1, <3>2, <1>6 DEF Done
      <4>2. j <= lo /\ k > lo
        BY <4>1, <1>4, <1>8, <1>9
      <4> QED
        BY <4>1, <4>2, <1>3
    <3>3. CASE s # t
      <4>1. k \in task[s]
        BY <3>3, <1>6
      <4> QED
        BY <3>1, <4>1, <1>1 DEF Queue
    <3> QED
      BY <3>2, <3>3
  <2>5. ASSUME NEW k \in Positions, by'[k] = Absent PROVE outs'[k] = Empty
    <3>1. by[k] = Absent
      BY <2>5, <1>4, <1>7
    <3> QED
      BY <3>1, <1>1, <1>2 DEF Queue
  <2> QED
    BY <1>2, <1>5, <2>1, <2>2, <2>3, <2>4, <2>5 DEF Queue
<1>14. Traces'
  <2>1. ASSUME NEW s \in Threads, NEW c \in Contracts, NEW k \in Positions, by[k] = s, outs[k][c] # Absent
        PROVE  by'[k] = s /\ outs'[k][c] # Absent
    <3>1. k \notin G
      BY <1>9, <2>1, BaseAssumption
    <3> QED
      BY <3>1, <2>1, <1>2, <1>7
  <2> QED
    BY <1>1, <1>2, <1>5, <2>1 DEF Traces
<1>15. Interrupted'
  BY <1>1, <1>2, <1>5, Zenon DEF Interrupted
<1>16. Faithful'
  BY <1>1, <1>2, <1>12, Zenon DEF Faithful, Replayed
<1>17. Checked'
  BY <1>2 DEF Checked
<1> QED
  BY <1>11, <1>13, <1>14, <1>15, <1>16, <1>17 DEF IInv

\* What Execute returns depends on the machines and the block only.
LEMMA VerdictSame ==
    ASSUME block' = block, vm' = vm
    PROVE  CheckCross' = CheckCross /\ FinalData' = FinalData
<1>1. ContractCross' = ContractCross
  BY Zenon DEF ContractCross
<1>2. CheckCross' = CheckCross
  BY <1>1, Zenon DEF CheckCross
<1>3. FinalData' = FinalData
  BY Zenon DEF FinalData
<1> QED
  BY <1>2, <1>3

\* The queue is as it was if pc alone changes.
LEMMA QueueSame ==
    ASSUME Queue, block' = block, next' = next, task' = task, outs' = outs, by' = by,
           pc' # "executing" => \A t \in Threads : task[t] = {}
    PROVE  Queue'
<1>1. Positions' = Positions /\ Offset(block, next)' = Offset(block, next)
  BY Zenon DEF Positions, Offset
<1>2. \A t \in Threads : Done(t)' = Done(t)
  BY <1>1, Zenon DEF Done
<1>3. \A t \in Threads : \A k \in task'[t], j \in Done(t)' : j < k
  BY <1>2, Zenon DEF Queue
<1>4. (\A g \in Groups(block) : \A j, k \in Group(block, g) : by[j] = by[k])'
  <2>1. ASSUME NEW g \in Groups(block'), NEW j \in Group(block', g), NEW k \in Group(block', g)
        PROVE  by'[j] = by'[k]
    <3>1. g \in Groups(block) /\ j \in Group(block, g) /\ k \in Group(block, g)
      BY Zenon
    <3>2. \A i \in Groups(block) : \A x, y \in Group(block, i) : by[x] = by[y]
      BY Zenon DEF Queue
    <3> QED
      BY <3>1, <3>2, Zenon
  <2> QED
    BY <2>1, Zenon
<1>5. \A k \in Positions' : by'[k] # Absent <=> k <= Offset(block, next)'
  BY <1>1, Zenon DEF Queue
<1>6. \A k \in Positions' : by'[k] = Absent => outs'[k] = Empty
  BY <1>1, Zenon DEF Queue
<1>7. \A t \in Threads : \A k \in task'[t] : by'[k] = t /\ outs'[k] = Empty
  BY Zenon DEF Queue
<1>8. pc' # "executing" => \A t \in Threads : task'[t] = {}
  BY Zenon
<1> QED
  BY <1>3, <1>4, <1>5, <1>6, <1>7, <1>8, Zenon DEF Queue

\* So are the machines and what they can replay.
LEMMA FaithfulSame ==
    ASSUME Faithful, block' = block, vm' = vm, task' = task, outs' = outs, by' = by,
           interrupt' = interrupt, caught' = caught
    PROVE  Faithful'
<1>1. \A t \in Threads : Done(t)' = Done(t)
  BY Zenon DEF Done, Positions
<1>2. ASSUME NEW t \in Threads, NEW k, Replayed(t, k) PROVE Replayed(t, k)'
  <2>1. Done(t)' = Done(t)
    BY <1>1, Zenon
  <2> QED
    BY <1>2, <2>1, Zenon DEF Replayed
<1>3. ASSUME ~interrupt, ~caught, NEW t \in Threads
      PROVE  /\ vm'[t].cache = Empty
             /\ \A c \in Contracts : LastOf(vm'[t].data[c], outs', Done(t)', c)
             /\ \A k \in Done(t)' : Replayed(t, k)'
  <2>1. /\ vm[t].cache = Empty
        /\ \A c \in Contracts : LastOf(vm[t].data[c], outs, Done(t), c)
        /\ \A k \in Done(t) : Replayed(t, k)
    BY <1>3, Zenon DEF Faithful
  <2>2. Done(t)' = Done(t)
    BY <1>1, Zenon
  <2>3. \A k \in Done(t)' : Replayed(t, k)'
    BY <1>2, <2>1, <2>2, Zenon
  <2> QED
    BY <2>1, <2>2, <2>3, Zenon
<1> QED
  BY <1>3, Zenon DEF Faithful

\* Wait.
LEMMA WaitStep ==
    ASSUME IInv, Wait
    PROVE  IInv'
<1>1. TypeOK /\ Queue /\ Traces /\ Interrupted /\ Faithful
  BY DEF IInv
<1>2. /\ next \notin Groups(block) /\ \A t \in Threads : task[t] = {}
      /\ pc' = "checked"
      /\ result' = [executed |-> ~interrupt, independent |-> CheckCross, data |-> FinalData]
      /\ block' = block /\ template' = template /\ next' = next /\ vm' = vm /\ task' = task
      /\ interrupt' = interrupt /\ outs' = outs /\ by' = by /\ caught' = caught
  BY DEF Wait
<1>3. Positions' = Positions /\ \A t \in Threads : Done(t)' = Done(t)
  BY <1>2 DEF Positions, Done
<1>4. CheckCross' = CheckCross /\ FinalData' = FinalData
  BY <1>2, VerdictSame, Zenon
<1>5. FinalData \in Maps
  <2>1. \A t \in Threads : vm[t].data \in Maps
    BY <1>1 DEF TypeOK, Machines
  <2>2. ASSUME NEW c \in Contracts, \E t \in Threads : vm[t].data[c] # Absent
        PROVE  vm[CHOOSE t \in Threads : vm[t].data[c] # Absent].data[c] \in Values \cup {Absent}
    BY <2>1, <2>2, Zenon DEF Maps
  <2> QED
    BY <2>2 DEF FinalData, Maps
<1>6. TypeOK'
  <2>1. CheckCross \in BOOLEAN /\ (~interrupt) \in BOOLEAN
    BY <1>1 DEF CheckCross, TypeOK
  <2>2. result' \in [executed : BOOLEAN, independent : BOOLEAN, data : Maps]
    BY <1>2, <1>5, <2>1, Zenon
  <2> QED
    BY <1>1, <1>2, <2>2, Zenon DEF TypeOK, Offset
<1>7. Queue'
  BY <1>1, <1>2, QueueSame, Zenon
<1>8. Traces' /\ Interrupted'
  <2>1. ASSUME NEW t \in Threads, NEW c \in Contracts, vm'[t].data[c] # Absent \/ vm'[t].cache[c] # Absent
        PROVE  \E k \in Positions' : by'[k] = t /\ outs'[k][c] # Absent
    <3>1. vm[t].data[c] # Absent \/ vm[t].cache[c] # Absent
      BY <1>2, <2>1, Zenon
    <3>2. \E k \in Positions : by[k] = t /\ outs[k][c] # Absent
      BY <1>1, <3>1, Zenon DEF Traces
    <3> QED
      BY <1>2, <1>3, <3>2, Zenon
  <2>2. Interrupted'
    BY <1>1, <1>2, <1>3, Zenon DEF Interrupted
  <2> QED
    BY <2>1, <2>2, Zenon DEF Traces
<1>9. Faithful'
  BY <1>1, <1>2, FaithfulSame, Zenon
<1>10. Checked'
  BY <1>2, <1>4, Zenon DEF Checked
<1> QED
  BY <1>6, <1>7, <1>8, <1>9, <1>10 DEF IInv

\* What a thread has still to execute are positions of the block.
LEMMA TaskFacts ==
    ASSUME TypeOK, NEW t \in Threads, NEW k \in task[t]
    PROVE  k \in Positions /\ Positions \subseteq Nat \ {0} /\ block.vtx[k] \in Tx
<1>1. block \in Blocks \cup Mined /\ next \in 1..(Len(block.groupEnd) + 1)
      /\ task \in [Threads -> SUBSET (1..Offset(block, next))]
  BY DEF TypeOK
<1>2. /\ Len(block.vtx) \in Nat /\ Positions = 1..Len(block.vtx)
      /\ Offset(block, next) \in 0..Len(block.vtx)
      /\ \A i \in 1..Len(block.vtx) : block.vtx[i] \in Tx
  BY <1>1, BlockFacts DEF Positions
<1>3. k \in 1..Offset(block, next)
  BY <1>1
<1> QED
  BY <1>2, <1>3

\* The queue when t drops T, its first k included, and k has the result v.
LEMMA QueueStep ==
    ASSUME NEW t \in Threads, NEW k \in task[t], \A j \in task[t] : k <= j, TypeOK, Queue,
           NEW T, T = {} \/ T = task[t] \ {k}, task' = [task EXCEPT ![t] = T],
           NEW v, outs' = [outs EXCEPT ![k] = v] \/ outs' = outs,
           block' = block, by' = by, next' = next, pc' = pc
    PROVE  Queue'
<1>1. task \in [Threads -> SUBSET (1..Offset(block, next))] /\ outs \in [Positions -> Maps]
  BY DEF TypeOK, Positions
<1>2. k \in Positions /\ Positions \subseteq Nat
  BY TaskFacts
<1>3. \A s \in Threads : task'[s] = IF s = t THEN T ELSE task[s]
  BY <1>1
<1>4. \A s \in Threads : task'[s] \subseteq task[s] /\ k \notin task'[s]
  <2>1. by[k] = t
    BY DEF Queue
  <2>2. ASSUME NEW s \in Threads, s # t PROVE k \notin task[s]
    BY <2>1, <2>2 DEF Queue
  <2> QED
    BY <1>3, <2>2
<1>5. \A j \in Positions : j # k => outs'[j] = outs[j]
  BY <1>1
<1>6. Positions' = Positions /\ Offset(block, next)' = Offset(block, next)
  BY DEF Positions, Offset
<1>7. pc' # "executing" => \A s \in Threads : task'[s] = {}
  BY <1>4 DEF Queue
<1>8. ASSUME NEW s \in Threads, NEW j \in task'[s] PROVE by'[j] = s /\ outs'[j] = Empty
  <2>1. j \in task[s] /\ j # k
    BY <1>4
  <2>2. j \in Positions
    BY <2>1, TaskFacts
  <2> QED
    BY <2>1, <2>2, <1>5 DEF Queue
<1>9. ASSUME NEW s \in Threads, NEW j \in task'[s], NEW i \in Done(s)' PROVE i < j
  <2>1. j \in task[s] /\ j # k /\ j \in Nat
    BY <1>2, <1>4, TaskFacts, Zenon
  <2>2. i \in Positions /\ by[i] = s /\ i \notin task'[s]
    BY <1>6 DEF Done
  <2>3. CASE i \notin task[s]
    <3>1. i \in Done(s)
      BY <2>2, <2>3, Zenon DEF Done
    <3> QED
      BY <2>1, <3>1, Zenon DEF Queue
  <2>4. CASE i \in task[s]
    <3>1. s = t /\ T = task[t] \ {k}
      BY <2>1, <2>2, <2>4, <1>3
    <3>2. i = k
      BY <2>2, <2>4, <3>1, <1>3
    <3>3. k <= j
      BY <2>1, <3>1
    <3> QED
      BY <2>1, <3>2, <3>3, <1>2
  <2> QED
    BY <2>3, <2>4
<1>10. ASSUME NEW j \in Positions, by'[j] = Absent PROVE outs'[j] = Empty
  <2>1. by[k] = t /\ t # Absent
    BY BaseAssumption, Zenon DEF Queue
  <2>2. j # k /\ by[j] = Absent
    BY <1>10, <2>1
  <2>3. outs[j] = Empty
    BY <2>2, Zenon DEF Queue
  <2> QED
    BY <1>5, <2>2, <2>3, Zenon
<1>11. \A j \in Positions : by'[j] # Absent <=> j <= Offset(block, next)'
  BY <1>6, Zenon DEF Queue
<1>12. (\A g \in Groups(block) : \A i, j \in Group(block, g) : by[i] = by[j])'
  <2>1. \A g \in Groups(block) : \A i, j \in Group(block, g) : by[i] = by[j]
    BY Zenon DEF Queue
  <2> QED
    BY <2>1, Zenon
<1> QED
  BY <1>6, <1>7, <1>8, <1>9, <1>10, <1>11, <1>12, Zenon DEF Queue

\* The traces when t has executed k: the machine holds what it held, or the
\* result of k.
LEMMA TracesStep ==
    ASSUME NEW t \in Threads, NEW k \in task[t], TypeOK, Queue, Traces,
           NEW v \in Maps, outs' = [outs EXCEPT ![k] = v],
           NEW m \in Machines, vm' = [vm EXCEPT ![t] = m],
           \A c \in Contracts : m.data[c] # Absent \/ m.cache[c] # Absent =>
               vm[t].data[c] # Absent \/ vm[t].cache[c] # Absent \/ v[c] # Absent,
           block' = block, by' = by
    PROVE  Traces'
<1>1. vm \in [Threads -> Machines] /\ outs \in [Positions -> Maps] /\ k \in Positions
  BY TaskFacts, Zenon DEF TypeOK, Positions
<1>2. Positions' = Positions /\ by[k] = t /\ outs[k] = Empty
  BY Zenon DEF Positions, Queue
<1>3. \A c \in Contracts : Empty[c] = Absent
  BY MapTypes, Zenon
<1>4. outs'[k] = v /\ \A j \in Positions : j # k => outs'[j] = outs[j]
  BY <1>1
<1>5. ASSUME NEW c \in Contracts, NEW j \in Positions, outs[j][c] # Absent PROVE outs'[j][c] # Absent
  <2>1. j # k
    BY <1>2, <1>3, <1>5
  <2> QED
    BY <1>4, <1>5, <2>1, Zenon
<1>6. ASSUME NEW s \in Threads, NEW c \in Contracts,
             vm'[s].data[c] # Absent \/ vm'[s].cache[c] # Absent
      PROVE  \E j \in Positions : by'[j] = s /\ outs'[j][c] # Absent
  <2>1. CASE vm[s].data[c] # Absent \/ vm[s].cache[c] # Absent
    <3>1. PICK j \in Positions : by[j] = s /\ outs[j][c] # Absent
      BY <2>1, Zenon DEF Traces
    <3>2. by'[j] = s
      BY <3>1
    <3>3. outs'[j][c] # Absent
      BY <1>5, <3>1, Zenon
    <3> QED
      BY <3>2, <3>3, Zenon
  <2>2. CASE ~(vm[s].data[c] # Absent \/ vm[s].cache[c] # Absent)
    <3>1. s = t /\ vm'[s] = m
      BY <1>1, <1>6, <2>2, Zenon
    <3>2. v[c] # Absent
      BY <1>6, <2>2, <3>1
    <3> QED
      BY <1>1, <1>2, <1>4, <3>1, <3>2, Zenon
  <2> QED
    BY <2>1, <2>2, Zenon
<1>7. ASSUME NEW s \in Threads, NEW c \in Contracts,
             vm'[s].data[c] # Absent \/ vm'[s].cache[c] # Absent
      PROVE  \E j \in Positions' : by'[j] = s /\ outs'[j][c] # Absent
  <2>1. \E j \in Positions : by'[j] = s /\ outs'[j][c] # Absent
    BY <1>6, <1>7, Zenon
  <2> QED
    BY <1>2, <2>1, Zenon
<1> QED
  BY <1>7, Zenon DEF Traces

\* A thread executes a transaction that ends well.
LEMMA FaithfulStep ==
    ASSUME NEW t \in Threads, NEW k \in task[t], \A j \in task[t] : k <= j, TypeOK, Queue, Faithful,
           ~interrupt, ~caught, block' = block, by' = by,
           ExecuteContract(vm[t], block.vtx[k]).ret = "ok",
           outs' = [outs EXCEPT ![k] = ExecuteContract(vm[t], block.vtx[k]).out],
           vm' = [vm EXCEPT ![t] = CommitData(ExecuteContract(vm[t], block.vtx[k]).vm)],
           task' = [task EXCEPT ![t] = task[t] \ {k}]
    PROVE  Faithful'
<1> DEFINE r == ExecuteContract(vm[t], block.vtx[k])
<1>1. /\ vm \in [Threads -> Machines] /\ outs \in [Positions -> Maps]
      /\ task \in [Threads -> SUBSET (1..Offset(block, next))]
      /\ k \in Positions /\ Positions \subseteq Nat \ {0} /\ block.vtx[k] \in Tx
  BY TaskFacts, Zenon DEF TypeOK, Positions
<1>2. by[k] = t /\ Positions' = Positions
  BY Zenon DEF Queue, Positions
<1>3. /\ r \in Accs /\ r.vm.data = vm[t].data /\ r.ret = "ok"
      /\ block.vtx[k].kind = "plain" => r.vm = vm[t] /\ r.out = Empty
      /\ block.vtx[k].kind # "plain" => r.vm.cache = r.out
  <2>1. vm[t] \in Machines
    BY <1>1, Zenon
  <2>2. Outcome(r, vm[t], block.vtx[k]) /\ r.ret = "ok"
    BY <1>1, <2>1, ExecuteFacts, Zenon
  <2> HIDE DEF r
  <2> QED
    BY <2>2, Zenon DEF Outcome
<1>4. /\ vm[t].cache = Empty
      /\ \A c \in Contracts : LastOf(vm[t].data[c], outs, Done(t), c)
      /\ \A j \in Done(t) : Replayed(t, j)
  BY Zenon DEF Faithful
<1>5. /\ outs' = [outs EXCEPT ![k] = r.out]
      /\ vm' = [vm EXCEPT ![t] = CommitData(r.vm)]
  BY Zenon
<1> HIDE DEF r
<1>6. r.vm.cache = r.out
  BY <1>3, <1>4, Zenon
<1>7. outs'[k] = r.out /\ \A j \in Positions : j # k => outs'[j] = outs[j]
  BY <1>1, <1>5, Zenon
<1>8. /\ vm'[t].cache = Empty
      /\ \A c \in Contracts : vm'[t].data[c] = IF outs'[k][c] # Absent THEN outs'[k][c] ELSE vm[t].data[c]
  <2>1. vm'[t] = [data |-> Overlay(r.vm.cache, r.vm.data), cache |-> Empty]
    BY <1>1, <1>5, Zenon DEF CommitData
  <2>2. vm'[t].data = Overlay(outs'[k], vm[t].data) /\ vm'[t].cache = Empty
    BY <1>3, <1>6, <1>7, <2>1
  <2> QED
    BY <2>2, Zenon DEF Overlay
<1>9. Done(t) \subseteq Positions /\ Done(t)' = Done(t) \cup {k} /\ \A j \in Done(t) : j < k /\ j # k
  <2>1. task'[t] = task[t] \ {k}
    BY <1>1
  <2>2. Done(t)' = Done(t) \cup {k}
    BY <1>1, <1>2, <2>1, Zenon DEF Done
  <2>3. \A j \in Done(t) : j < k
    BY Zenon DEF Queue
  <2> QED
    BY <1>1, <2>2, <2>3, Zenon DEF Done
<1>10. ASSUME NEW c \in Contracts PROVE LastOf(vm'[t].data[c], outs', Done(t)', c)
  <2>1. \A j \in Done(t) : outs'[j] = outs[j]
    BY <1>7, <1>9
  <2>2. Done(t) \in SUBSET Nat /\ k \in Nat
    BY <1>1, <1>9, Zenon
  <2>3. LastOf(vm[t].data[c], outs, Done(t), c)
    BY <1>4, Zenon
  <2>4. LastOf(IF outs'[k][c] # Absent THEN outs'[k][c] ELSE vm[t].data[c], outs', Done(t) \cup {k}, c)
    BY <1>9, <2>1, <2>2, <2>3, LastAdd, Zenon
  <2> QED
    BY <1>8, <1>9, <2>4, Zenon
<1>11. Replayed(t, k)'
  <2>1. Done(t)' \cap 1..(k - 1) = Done(t)
    <3> DEFINE D == Done(t)
    <3>1. D \subseteq Nat \ {0} /\ k \in Nat \ {0} /\ Done(t)' = D \cup {k} /\ \A j \in D : j < k
      BY <1>1, <1>9, Zenon
    <3> HIDE DEF D
    <3>2. (D \cup {k}) \cap 1..(k - 1) = D
      <4>1. ASSUME NEW j \in D PROVE j \in 1..(k - 1)
        <5>1. j \in Nat \ {0} /\ k \in Nat /\ j < k
          BY <3>1, Zenon
        <5> QED
          BY <5>1
      <4>2. k \notin 1..(k - 1)
        <5>1. k \in Nat
          BY <3>1, Zenon
        <5> QED
          BY <5>1
      <4> QED
        BY <4>1, <4>2, Zenon
    <3> QED
      BY <3>1, <3>2, Zenon DEF D
  <2>2. \A j \in Done(t) : outs'[j] = outs[j]
    BY <1>7, <1>9
  <2>3. ASSUME NEW c \in Contracts PROVE LastOf(vm[t].data[c], outs', Done(t)' \cap 1..(k - 1), c)
    <3>1. LastOf(vm[t].data[c], outs, Done(t), c)
      BY <1>4, Zenon
    <3>2. LastOf(vm[t].data[c], outs', Done(t), c)
      <4>1. Done(t) \in SUBSET Nat
        BY <1>1, <1>9, Zenon
      <4> QED
        BY <2>2, <3>1, <4>1, Zenon DEF LastOf
    <3> QED
      BY <2>1, <3>2, Zenon
  <2>4. vm[t] \in Machines /\ ExecuteContract(vm[t], block'.vtx[k]).out = outs'[k]
        /\ ExecuteContract(vm[t], block'.vtx[k]).ret = "ok"
    BY <1>1, <1>7, Zenon DEF r
  <2> QED
    BY <2>3, <2>4, Zenon DEF Replayed
<1>12. ASSUME NEW s \in Threads, NEW j \in Done(s), Replayed(s, j),
              j # k, Done(s)' \cap 1..(j - 1) = Done(s) \cap 1..(j - 1),
              \A i \in Done(s) : outs'[i] = outs[i]
       PROVE  Replayed(s, j)'
  <2>1. PICK m \in Machines :
            /\ \A c \in Contracts : LastOf(m.data[c], outs, Done(s) \cap 1..(j - 1), c)
            /\ ExecuteContract(m, block.vtx[j]).out = outs[j]
            /\ ExecuteContract(m, block.vtx[j]).ret = "ok"
    BY <1>12, Zenon DEF Replayed
  <2>2. \A c \in Contracts : LastOf(m.data[c], outs', Done(s)' \cap 1..(j - 1), c)
    <3>1. \A i \in Done(s) \cap 1..(j - 1) : outs'[i] = outs[i]
      BY <1>12, Zenon
    <3>2. ASSUME NEW c \in Contracts PROVE LastOf(m.data[c], outs', Done(s) \cap 1..(j - 1), c)
      <4>1. LastOf(m.data[c], outs, Done(s) \cap 1..(j - 1), c)
        BY <2>1, Zenon
      <4> DEFINE P == Done(s) \cap 1..(j - 1)
      <4> HIDE DEF P
      <4>2. LastOf(m.data[c], outs, P, c) /\ \A i \in P : outs'[i] = outs[i]
        BY <3>1, <4>1, Zenon DEF P
      <4>3. P \in SUBSET Nat
        BY DEF P
      <4>4. LastOf(m.data[c], outs', P, c)
        BY <4>2, <4>3, Zenon DEF LastOf
      <4> QED
        BY <4>4, Zenon DEF P
    <3> QED
      BY <1>12, <3>2, Zenon
  <2>3. outs'[j] = outs[j]
    BY <1>12, Zenon
  <2> QED
    BY <2>1, <2>2, <2>3, Zenon DEF Replayed
<1>13. ASSUME NEW j \in Done(t) PROVE Replayed(t, j)'
  <2>1. Done(t)' \cap 1..(j - 1) = Done(t) \cap 1..(j - 1) /\ j # k
    <3>1. j \in Nat /\ k \in Nat /\ j < k
      BY <1>1, <1>9, Zenon
    <3>2. k \notin 1..(j - 1) /\ j # k
      BY <3>1
    <3> QED
      BY <1>9, <3>2, Zenon
  <2>2. \A i \in Done(t) : outs'[i] = outs[i]
    BY <1>7, <1>9, Zenon
  <2> QED
    BY <1>4, <1>12, <2>1, <2>2, Zenon
<1>14. ASSUME NEW s \in Threads, s # t
       PROVE  /\ vm'[s].cache = Empty
              /\ \A c \in Contracts : LastOf(vm'[s].data[c], outs', Done(s)', c)
              /\ \A j \in Done(s)' : Replayed(s, j)'
  <2>1. vm'[s] = vm[s] /\ task'[s] = task[s]
    BY <1>1, <1>14, Zenon
  <2>2. Done(s)' = Done(s) /\ k \notin Done(s) /\ Done(s) \subseteq Positions
    BY <1>2, <1>14, <2>1, Zenon DEF Done
  <2>3. \A i \in Done(s) : outs'[i] = outs[i]
    BY <1>7, <2>2, Zenon
  <2>4. /\ vm[s].cache = Empty
        /\ \A c \in Contracts : LastOf(vm[s].data[c], outs, Done(s), c)
        /\ \A j \in Done(s) : Replayed(s, j)
    BY Zenon DEF Faithful
  <2>5. ASSUME NEW c \in Contracts PROVE LastOf(vm[s].data[c], outs', Done(s), c)
    <3>1. LastOf(vm[s].data[c], outs, Done(s), c)
      BY <2>4, Zenon
    <3>2. Done(s) \in SUBSET Nat
      BY <1>1, <2>2, Zenon
    <3> QED
      BY <2>3, <3>1, <3>2, Zenon DEF LastOf
  <2>6. ASSUME NEW j \in Done(s) PROVE Replayed(s, j)'
    BY <1>12, <2>2, <2>3, <2>4, Zenon
  <2> QED
    BY <2>1, <2>2, <2>4, <2>5, <2>6, Zenon
<1>15. \A j \in Done(t)' : Replayed(t, j)'
  BY <1>9, <1>11, <1>13, Zenon
<1> QED
  BY <1>8, <1>10, <1>14, <1>15, Zenon DEF Faithful

\* DoExecute.
LEMMA DoExecuteStep ==
    ASSUME NEW t \in Threads, IInv, DoExecute(t)
    PROVE  IInv'
<1>1. TypeOK /\ Queue /\ Traces /\ Interrupted /\ Faithful
  BY DEF IInv
<1>2. PICK k \in task[t] :
        /\ \A j \in task[t] : k <= j
        /\ IF interrupt
           THEN Drop(t) /\ UNCHANGED <<vm, interrupt, outs, caught>>
           ELSE /\ outs' = [outs EXCEPT ![k] = ExecuteContract(vm[t], block.vtx[k]).out]
                /\ vm' = [vm EXCEPT ![t] = IF ExecuteContract(vm[t], block.vtx[k]).ret = "ok"
                                           THEN CommitData(ExecuteContract(vm[t], block.vtx[k]).vm)
                                           ELSE ExecuteContract(vm[t], block.vtx[k]).vm]
                /\ task' = [task EXCEPT ![t] = IF ExecuteContract(vm[t], block.vtx[k]).ret = "ok"
                                               THEN @ \ {k} ELSE {}]
                /\ IF ExecuteContract(vm[t], block.vtx[k]).ret = "false" THEN Stop(t) ELSE UNCHANGED interrupt
                /\ caught' = (caught \/ ExecuteContract(vm[t], block.vtx[k]).ret = "throw")
        /\ UNCHANGED <<block, template, pc, next, result, by>>
  BY Zenon DEF DoExecute
<1> DEFINE r == ExecuteContract(vm[t], block.vtx[k])
<1>3. /\ vm \in [Threads -> Machines] /\ outs \in [Positions -> Maps]
      /\ task \in [Threads -> SUBSET (1..Offset(block, next))]
      /\ k \in Positions /\ Positions \subseteq Nat /\ block.vtx[k] \in Tx
  BY <1>1, TaskFacts, Zenon DEF TypeOK, Positions
<1>4. pc = "executing"
  BY <1>1, Zenon DEF Queue
<1>5. /\ block' = block /\ template' = template /\ pc' = pc /\ next' = next
      /\ result' = result /\ by' = by /\ Offset(block, next)' = Offset(block, next)
      /\ Positions' = Positions
  BY <1>2, Zenon DEF Offset, Positions
<1>6. Checked'
  BY <1>4, <1>5 DEF Checked
<1>7. /\ r \in Accs /\ r.vm.data = vm[t].data
      /\ block.vtx[k].kind = "plain" => r.vm = vm[t] /\ r.out = Empty /\ r.ret = "ok"
      /\ block.vtx[k].kind # "plain" => r.vm.cache = r.out
      /\ r.ret = "false" => block.vtx[k].kind # "plain" /\ block.vtx[k].ends = "false"
  <2>1. vm[t] \in Machines
    BY <1>3
  <2>2. Outcome(r, vm[t], block.vtx[k])
    BY <1>3, <2>1, ExecuteFacts, Zenon
  <2> HIDE DEF r
  <2> QED
    BY <2>2, Zenon DEF Outcome
<1>8. r.vm \in Machines /\ r.out \in Maps /\ r.ret \in Rets
  BY <1>7, Zenon DEF Accs
<1>9. CASE interrupt
  <2>1. task' = [task EXCEPT ![t] = {}] /\ vm' = vm /\ interrupt' = interrupt /\ outs' = outs /\ caught' = caught
    BY <1>2, <1>9, Zenon DEF Drop
  <2>2. TypeOK'
    <3>1. task' \in [Threads -> SUBSET (1..Offset(block, next))]
      BY <1>3, <2>1
    <3> QED
      BY <1>1, <1>5, <2>1, <3>1 DEF TypeOK
  <2>3. Queue'
    BY <1>1, <1>2, <1>5, <2>1, QueueStep, Zenon
  <2>4. Traces' /\ Interrupted'
    BY <1>1, <1>5, <2>1, Zenon DEF Traces, Interrupted
  <2>5. Faithful'
    BY <1>9, <2>1 DEF Faithful
  <2> QED
    BY <1>6, <2>2, <2>3, <2>4, <2>5 DEF IInv
<1>10. CASE ~interrupt
  <2>1. /\ outs' = [outs EXCEPT ![k] = r.out]
        /\ vm' = [vm EXCEPT ![t] = IF r.ret = "ok" THEN CommitData(r.vm) ELSE r.vm]
        /\ task' = [task EXCEPT ![t] = IF r.ret = "ok" THEN task[t] \ {k} ELSE {}]
        /\ IF r.ret = "false" THEN interrupt' = TRUE ELSE interrupt' = interrupt
        /\ caught' = (caught \/ r.ret = "throw")
    BY <1>2, <1>10, Zenon DEF Stop
  <2> HIDE DEF r
  <2>2. CommitData(r.vm) \in Machines
    <3>1. r.vm.data \in Maps /\ r.vm.cache \in Maps
      BY <1>8, Zenon DEF Machines
    <3>2. Overlay(r.vm.cache, r.vm.data) \in Maps /\ Empty \in Maps
      BY <3>1, MapTypes
    <3> QED
      BY <3>2, Zenon DEF CommitData, Machines
  <2>3. TypeOK'
    <3>1. task' \in [Threads -> SUBSET (1..Offset(block, next))]
      BY <1>3, <2>1, Zenon
    <3>2. vm' \in [Threads -> Machines]
      BY <1>3, <1>8, <2>1, <2>2, Zenon
    <3>3. outs' \in [Positions -> Maps]
      BY <1>3, <1>8, <2>1, Zenon
    <3>4. interrupt' \in BOOLEAN /\ caught' \in BOOLEAN
      BY <1>1, <2>1, Zenon DEF TypeOK
    <3> QED
      BY <1>1, <1>5, <3>1, <3>2, <3>3, <3>4 DEF TypeOK, Positions
  <2>4. Queue'
    <3> DEFINE T == IF r.ret = "ok" THEN task[t] \ {k} ELSE {}
    <3>1. T = {} \/ T = task[t] \ {k}
      OBVIOUS
    <3>2. task' = [task EXCEPT ![t] = T] /\ outs' = [outs EXCEPT ![k] = r.out]
      BY <2>1
    <3> HIDE DEF T
    <3> QED
      BY <1>1, <1>2, <1>5, <3>1, <3>2, QueueStep, Zenon
  <2>5. Traces'
    <3> DEFINE m == IF r.ret = "ok" THEN CommitData(r.vm) ELSE r.vm
    <3>1. m \in Machines /\ vm' = [vm EXCEPT ![t] = m]
      BY <1>8, <2>1, <2>2
    <3>2. ASSUME NEW c \in Contracts, m.data[c] # Absent \/ m.cache[c] # Absent
          PROVE  vm[t].data[c] # Absent \/ vm[t].cache[c] # Absent \/ r.out[c] # Absent
      <4>1. r.vm.cache = vm[t].cache \/ r.vm.cache = r.out
        BY <1>7, Zenon
      <4>2. \A d \in Contracts : Empty[d] = Absent
        BY MapTypes
      <4>3. r.vm.data[c] # Absent \/ r.vm.cache[c] # Absent
        BY <3>2, <4>2, Zenon DEF CommitData, Overlay
      <4> QED
        BY <4>1, <4>3, <1>7, Zenon
    <3> HIDE DEF m
    <3>3. \A c \in Contracts : m.data[c] # Absent \/ m.cache[c] # Absent =>
               vm[t].data[c] # Absent \/ vm[t].cache[c] # Absent \/ r.out[c] # Absent
      BY <3>2
    <3>4. TypeOK /\ Queue /\ Traces /\ r.out \in Maps /\ outs' = [outs EXCEPT ![k] = r.out]
          /\ block' = block /\ by' = by
      BY <1>1, <1>5, <1>8, <2>1
    <3> QED
      BY <3>1, <3>3, <3>4, TracesStep, Zenon
  <2>6. Interrupted'
    BY <1>1, <1>3, <1>5, <1>7, <1>10, <2>1, Zenon DEF Interrupted
  <2>7. Faithful'
    <3>1. CASE r.ret = "ok" /\ ~caught
      <4>1. vm' = [vm EXCEPT ![t] = CommitData(r.vm)] /\ task' = [task EXCEPT ![t] = task[t] \ {k}]
        BY <2>1, <3>1
      <4> QED
        BY <1>1, <1>2, <1>5, <1>10, <2>1, <3>1, <4>1, FaithfulStep, Zenon DEF r
    <3>2. CASE r.ret # "ok" \/ caught
      <4>1. interrupt' \/ caught'
        BY <1>8, <2>1, <3>2, Zenon DEF Rets
      <4> QED
        BY <4>1 DEF Faithful
    <3> QED
      BY <3>1, <3>2
  <2> QED
    BY <1>6, <2>3, <2>4, <2>5, <2>6, <2>7 DEF IInv
<1> QED
  BY <1>9, <1>10

\* The invariant is inductive.
LEMMA Inductive == IInv /\ [Next]_vars => IInv'
<1> SUFFICES ASSUME IInv, [Next]_vars PROVE IInv'
  OBVIOUS
<1>1. ASSUME NEW b \in Blocks, Execute(b, <<>>) PROVE IInv'
  BY <1>1, ExecuteStep
<1>2. ASSUME NEW t \in Templates, Mine(t) PROVE IInv'
  <2>1. GroupingTransaction(t) \in Mined
    BY DEF Mined
  <2> QED
    BY <1>2, <2>1, ExecuteStep DEF Mine
<1>3. ASSUME NEW t \in Threads, Take(t) PROVE IInv'
  BY <1>3, TakeStep
<1>4. ASSUME NEW t \in Threads, DoExecute(t) PROVE IInv'
  BY <1>4, DoExecuteStep
<1>5. CASE Wait
  BY <1>5, WaitStep
<1>6. CASE UNCHANGED vars
  <2>1. /\ block' = block /\ template' = template /\ pc' = pc /\ next' = next /\ vm' = vm /\ task' = task
        /\ interrupt' = interrupt /\ outs' = outs /\ result' = result /\ by' = by /\ caught' = caught
    BY <1>6 DEF vars
  <2>2. Positions' = Positions /\ (\A t \in Threads : Done(t)' = Done(t)) /\ Offset(block, next)' = Offset(block, next)
    BY <2>1 DEF Positions, Done, Offset
  <2>3. CheckCross' = CheckCross /\ FinalData' = FinalData
    BY <2>1, VerdictSame, Zenon
  <2>4. TypeOK' /\ Queue'
    <3>1. TypeOK'
      BY <2>1, <2>2, Zenon DEF IInv, TypeOK
    <3>2. Queue'
      BY <2>1, QueueSame, Zenon DEF IInv, Queue
    <3> QED
      BY <3>1, <3>2
  <2>5. Traces' /\ Interrupted'
    BY <2>1, <2>2, Zenon DEF IInv, Traces, Interrupted
  <2>6. Faithful'
    BY <2>1, FaithfulSame, Zenon DEF IInv
  <2>7. Checked'
    BY <2>1, <2>3 DEF IInv, Checked
  <2> QED
    BY <2>4, <2>5, <2>6, <2>7 DEF IInv
<1> QED
  BY <1>1, <1>2, <1>3, <1>4, <1>5, <1>6 DEF Next

\* IInv is an invariant: for every block and every schedule of the threads.
THEOREM PoolInvariant == Spec => []IInv
<1>1. Init => IInv
  BY InitStep
<1> QED
  BY <1>1, Inductive, PTL DEF Spec

(***************************************************************************)
(* The reference                                                           *)
(***************************************************************************)
SeqAccs(b) == [vm : Machines, outs : [DOMAIN b.vtx -> Maps], ret : Rets]
SeqStart(b) == [vm |-> NewVM, outs |-> [k \in DOMAIN b.vtx |-> Empty], ret |-> "ok"]

\* A block is a sequence of transactions.
LEMMA VtxType ==
    ASSUME NEW b \in AllBlocks
    PROVE  Len(b.vtx) \in Nat /\ DOMAIN b.vtx = 1..Len(b.vtx) /\ \A k \in 1..Len(b.vtx) : b.vtx[k] \in Tx
<1>1. b.vtx \in Seq(Tx)
  <2>1. CASE b \in Blocks \cup Mined
    BY <2>1, BlocksAssumption
  <2>2. ASSUME NEW t \in Templates, b = OneGroup(t) PROVE b.vtx \in Seq(Tx)
    BY <2>2, TemplatesAssumption DEF OneGroup
  <2> QED
    BY <2>1, <2>2 DEF AllBlocks
<1> QED
  BY <1>1

\* The reference starts with a new machine.
LEMMA SeqStartType ==
    ASSUME NEW b
    PROVE  SeqStart(b) \in SeqAccs(b)
<1>1. Empty \in Maps
  BY MapTypes
<1> HIDE DEF Empty
<1> QED
  BY <1>1 DEF SeqStart, SeqAccs, NewVM, Machines, Rets

\* A committed machine is a machine.
LEMMA CommitType ==
    ASSUME NEW m \in Machines
    PROVE  CommitData(m) \in Machines /\ [m EXCEPT !.cache = Empty] \in Machines
<1>1. m.data \in Maps /\ m.cache \in Maps
  BY DEF Machines
<1>2. Overlay(m.cache, m.data) \in Maps /\ Empty \in Maps
  BY <1>1, MapTypes
<1> HIDE DEF Empty
<1> QED
  BY <1>1, <1>2 DEF CommitData, Machines

\* A step of the reference.
LEMMA SequentialTxType ==
    ASSUME NEW b \in AllBlocks, NEW k \in 1..Len(b.vtx), NEW acc \in SeqAccs(b)
    PROVE  SequentialTx(acc, b, k) \in SeqAccs(b)
<1> DEFINE r == ExecuteContract(acc.vm, b.vtx[k])
<1>1. b.vtx[k] \in Tx /\ k \in DOMAIN b.vtx
  BY VtxType
<1>2. acc.vm \in Machines /\ acc.outs \in [DOMAIN b.vtx -> Maps]
  BY DEF SeqAccs
<1>3. r \in Accs
  BY <1>1, <1>2, ExecuteFacts, Zenon DEF Outcome
<1>4. r.vm \in Machines /\ r.out \in Maps /\ r.ret \in Rets
  BY <1>3 DEF Accs
<1>5. CommitData(r.vm) \in Machines /\ [acc.vm EXCEPT !.cache = Empty] \in Machines
  BY <1>2, <1>4, CommitType, Zenon
<1>6. SequentialTx(acc, b, k) =
        IF acc.ret # "ok" THEN acc
        ELSE [vm   |-> IF r.ret = "ok" THEN CommitData(r.vm) ELSE [acc.vm EXCEPT !.cache = Empty],
              outs |-> [acc.outs EXCEPT ![k] = r.out],
              ret  |-> r.ret]
  BY DEF SequentialTx
<1> HIDE DEF r
<1>7. [acc.outs EXCEPT ![k] = r.out] \in [DOMAIN b.vtx -> Maps]
  BY <1>2, <1>4
<1> QED
  BY <1>4, <1>5, <1>6, <1>7 DEF SeqAccs

\* The reference is a run over the transactions of the block.
LEMMA SequentialRun ==
    ASSUME NEW b \in AllBlocks
    PROVE  \E f \in [0..Len(b.vtx) -> SeqAccs(b)] :
              /\ f[0] = SeqStart(b)
              /\ \A i \in 1..Len(b.vtx) : f[i] = SequentialTx(f[i - 1], b, i)
              /\ sequential[b] = f[Len(b.vtx)]
<1> DEFINE n == Len(b.vtx)
           F == [i \in 1..n |-> [x \in SeqAccs(b) |-> SequentialTx(x, b, i)]]
<1>1. n \in Nat
  BY VtxType
<1>2. \A i \in 1..n, x \in SeqAccs(b) : SequentialTx(x, b, i) \in SeqAccs(b)
  BY VtxType, SequentialTxType
<1>3. F \in [1..n -> [SeqAccs(b) -> SeqAccs(b)]]
  BY <1>2
<1> HIDE DEF n
<1>4. PICK f \in RunOf(SeqAccs(b), n, SeqStart(b), F) : TRUE
  <2> HIDE DEF F
  <2> QED
    BY <1>1, <1>3, SeqStartType, RunExists
<1>5. ASSUME NEW i \in 1..n PROVE f[i] = SequentialTx(f[i - 1], b, i)
  <2>1. i - 1 \in 0..n
    BY <1>1
  <2> QED
    BY <2>1, Zenon DEF RunOf
<1> DEFINE Runs(g) == g = [i \in 0..n |-> IF i = 0 THEN SeqStart(b) ELSE SequentialTx(g[i - 1], b, i)]
           g == CHOOSE h : Runs(h)
<1>6. Runs(f)
  BY <1>1, <1>5 DEF RunOf
<1>7. Runs(g)
  <2> HIDE DEF Runs
  <2> QED
    BY <1>6
<1> HIDE DEF g
<1> DEFINE Same == {i \in 0..n : g[i] = f[i]}
<1>8. 0 \in Same
  BY <1>1, <1>7 DEF RunOf
<1>9. ASSUME NEW i \in 1..n, i - 1 \in Same PROVE i \in Same
  <2>1. i \in 0..n /\ i - 1 \in 0..n /\ i # 0
    BY <1>1
  <2>2. g[i - 1] = f[i - 1]
    BY <1>9
  <2>3. g[i] = SequentialTx(g[i - 1], b, i)
    BY <1>7, <2>1
  <2> QED
    BY <1>5, <2>1, <2>2, <2>3
<1>10. g[n] = f[n]
  <2> HIDE DEF Same
  <2>1. n \in 0..n
    BY <1>1
  <2>2. n \in Same
    BY <1>1, <1>8, <1>9, <2>1, InductTo, Zenon
  <2> QED
    BY <2>2 DEF Same
<1>11. sequential[b] = g[n]
  BY DEF sequential, Iterate, SeqStart, g, n
<1> QED
  BY <1>1, <1>5, <1>10, <1>11, Zenon DEF RunOf, n

\* The reference refuses a block with a transaction that fails.
LEMMA FailingRefused ==
    ASSUME NEW b \in AllBlocks, NEW k \in DOMAIN b.vtx, b.vtx[k].kind # "plain", b.vtx[k].ends = "false"
    PROVE  sequential[b].ret # "ok"
<1> DEFINE N == Len(b.vtx)
<1>1. PICK f \in [0..N -> SeqAccs(b)] :
              /\ f[0] = SeqStart(b)
              /\ \A i \in 1..N : f[i] = SequentialTx(f[i - 1], b, i)
              /\ sequential[b] = f[N]
  BY SequentialRun
<1>2. N \in Nat /\ DOMAIN b.vtx = 1..N /\ b.vtx[k] \in Tx
  BY VtxType
<1> HIDE DEF N
<1> DEFINE Bad == {i \in 0..N : i >= k => f[i].ret # "ok"}
<1>3. 0 \in Bad
  BY <1>2
<1>4. ASSUME NEW i \in 1..N, i - 1 \in Bad PROVE i \in Bad
  <2> DEFINE r == ExecuteContract(f[i - 1].vm, b.vtx[i])
  <2>1. i \in 0..N /\ i - 1 \in 0..N
    BY <1>2
  <2>2. f[i] = SequentialTx(f[i - 1], b, i)
    BY <1>1
  <2>3. f[i - 1].ret # "ok" => f[i] = f[i - 1]
    BY <2>2 DEF SequentialTx
  <2>4. f[i - 1].ret = "ok" => f[i].ret = r.ret
    BY <2>2 DEF SequentialTx
  <2>5. i = k => r.ret # "ok"
    <3>1. f[i - 1].vm \in Machines
      BY <2>1, Zenon DEF SeqAccs
    <3>2. i = k => Outcome(r, f[i - 1].vm, b.vtx[k])
      BY <3>1, <1>2, ExecuteFacts, Zenon
    <3> QED
      BY <3>2, Zenon DEF Outcome
  <2>6. i > k => f[i - 1].ret # "ok"
    BY <1>2, <1>4, <2>1
  <2> QED
    BY <1>2, <2>1, <2>3, <2>4, <2>5, <2>6
<1>5. N \in Bad
  <2> HIDE DEF Bad
  <2>1. 0..N \subseteq Bad
    BY <1>2, <1>3, <1>4, InductTo, Zenon
  <2> QED
    BY <1>2, <2>1
<1> QED
  BY <1>1, <1>2, <1>5

\* What no other thread has written: when no contract is in two machines, the
\* result of a transaction at c is all that the other threads leave alone.
LEMMA NoOther ==
    ASSUME IInv, ~interrupt, ~caught, ~ContractCross, NEW c \in Contracts,
           NEW s \in Threads, NEW j \in Done(s), NEW t \in Threads, s # t, vm[t].data[c] # Absent
    PROVE  outs[j][c] = Absent
<1>1. LastOf(vm[s].data[c], outs, Done(s), c)
  BY DEF IInv, Faithful
<1>2. vm[s].data[c] = Absent
  BY DEF ContractCross
<1> QED
  BY <1>1, <1>2 DEF LastOf

\* A contract with a result is in the machine of the thread.
LEMMA HasData ==
    ASSUME IInv, ~interrupt, ~caught, NEW c \in Contracts,
           NEW t \in Threads, NEW k \in Done(t), outs[k][c] # Absent
    PROVE  vm[t].data[c] # Absent
<1>1. LastOf(vm[t].data[c], outs, Done(t), c)
  BY DEF IInv, Faithful
<1> QED
  BY <1>1 DEF LastOf

\* At the end every transaction was executed by some thread.
LEMMA AllDone ==
    ASSUME IInv, pc = "checked"
    PROVE  /\ block \in AllBlocks
           /\ Len(block.vtx) \in Nat /\ Positions = 1..Len(block.vtx)
           /\ \A k \in Positions : by[k] \in Threads /\ k \in Done(by[k])
           /\ \A t \in Threads : Done(t) = {k \in Positions : by[k] = t}
<1>1. TypeOK /\ Queue /\ next \notin Groups(block)
  BY DEF IInv, Checked
<1>2. /\ block \in Blocks \cup Mined /\ next \in 1..(Len(block.groupEnd) + 1)
      /\ by \in [Positions -> Threads \cup {Absent}]
  BY <1>1 DEF TypeOK, Positions
<1>3. /\ Len(block.groupEnd) \in Nat /\ Len(block.vtx) \in Nat
      /\ Groups(block) = 1..Len(block.groupEnd) /\ Positions = 1..Len(block.vtx)
      /\ Offset(block, Len(block.groupEnd) + 1) = Len(block.vtx)
  BY <1>2, BlockFacts DEF Positions
<1>4. next = Len(block.groupEnd) + 1
  BY <1>1, <1>2, <1>3
<1>5. \A k \in Positions : by[k] # Absent
  BY <1>1, <1>3, <1>4 DEF Queue
<1>6. \A t \in Threads : task[t] = {}
  BY <1>1 DEF Queue
<1>7. \A t \in Threads : Done(t) = {k \in Positions : by[k] = t}
  BY <1>6 DEF Done
<1>8. \A k \in Positions : by[k] \in Threads
  BY <1>2, <1>5
<1> QED
  BY <1>2, <1>3, <1>7, <1>8 DEF AllBlocks

\* The main argument: transaction by transaction, the reference gives the
\* results the threads gave.
LEMMA SameAsSequential ==
    ASSUME IInv, pc = "checked", ~interrupt, ~caught, ~ContractCross
    PROVE  /\ sequential[block].ret = "ok"
           /\ sequential[block].outs = outs
           /\ sequential[block].vm.data = FinalData
<1> DEFINE N == Len(block.vtx)
<1>1. /\ block \in AllBlocks /\ N \in Nat /\ Positions = 1..N
      /\ \A k \in Positions : by[k] \in Threads /\ k \in Done(by[k])
      /\ \A t \in Threads : Done(t) = {k \in Positions : by[k] = t}
  BY AllDone
<1>2. PICK f \in [0..N -> SeqAccs(block)] :
              /\ f[0] = SeqStart(block)
              /\ \A i \in 1..N : f[i] = SequentialTx(f[i - 1], block, i)
              /\ sequential[block] = f[N]
  BY <1>1, SequentialRun
<1>3. /\ vm \in [Threads -> Machines] /\ outs \in [Positions -> Maps]
      /\ \A k \in 1..N : block.vtx[k] \in Tx
  BY <1>1, VtxType, Zenon DEF IInv, TypeOK, Positions
<1>4. \A c \in Contracts : Empty[c] = Absent
  BY MapTypes
<1> HIDE DEF N
<1> DEFINE Good == {k \in 0..N :
                      /\ f[k].ret = "ok" /\ f[k].vm.cache = Empty
                      /\ \A j \in 1..N : f[k].outs[j] = IF j <= k THEN outs[j] ELSE Empty
                      /\ \A c \in Contracts : LastOf(f[k].vm.data[c], outs, 1..k, c)}
<1>5. 0 \in Good
  <2>1. f[0].ret = "ok" /\ f[0].vm.cache = Empty /\ f[0].vm.data = Empty
    BY <1>2 DEF SeqStart, NewVM
  <2>2. \A j \in 1..N : f[0].outs[j] = Empty
    BY <1>1, <1>2 DEF SeqStart, Positions
  <2>3. \A c \in Contracts : LastOf(Empty[c], outs, 1..0, c)
    BY <1>4 DEF LastOf
  <2>4. 0 \in 0..N /\ \A j \in 1..N : ~(j <= 0)
    BY <1>1
  <2> QED
    BY <2>1, <2>2, <2>3, <2>4, Zenon
<1>6. ASSUME NEW k \in 1..N, k - 1 \in Good PROVE k \in Good
  <2> DEFINE tx == block.vtx[k]
             t == by[k]
             a == f[k - 1]
             r == ExecuteContract(a.vm, tx)
  <2>1. /\ k \in 0..N /\ k - 1 \in 0..N /\ k \in Nat /\ k \in Positions /\ tx \in Tx
        /\ t \in Threads /\ k \in Done(t)
    BY <1>1, <1>3
  <2>2. /\ a \in SeqAccs(block) /\ a.ret = "ok" /\ a.vm.cache = Empty
        /\ \A j \in 1..N : a.outs[j] = IF j <= k - 1 THEN outs[j] ELSE Empty
        /\ \A c \in Contracts : LastOf(a.vm.data[c], outs, 1..(k - 1), c)
    BY <1>6, <2>1, Zenon
  <2> HIDE DEF Good
  <2>3. a.vm \in Machines /\ a.outs \in [Positions -> Maps]
    BY <2>2 DEF SeqAccs, Positions
  <2>4. PICK m \in Machines :
            /\ \A c \in Contracts : LastOf(m.data[c], outs, Done(t) \cap 1..(k - 1), c)
            /\ ExecuteContract(m, tx).out = outs[k]
            /\ ExecuteContract(m, tx).ret = "ok"
    <3>1. Replayed(t, k)
      BY <2>1, Zenon DEF IInv, Faithful
    <3> QED
      BY <3>1, Zenon DEF Replayed
  <2>5. \A c \in Contracts : outs[k][c] # Absent <=> c \in ContractAddrs(tx)
    <3>1. ExecuteContract(m, tx).ret = "ok" =>
              \A c \in Contracts : ExecuteContract(m, tx).out[c] # Absent <=> c \in ContractAddrs(tx)
      BY <2>1, ExecuteFacts, Zenon DEF Outcome
    <3> QED
      BY <2>4, <3>1, Zenon
  <2>6. ContractAddrs(tx) \subseteq Contracts
    BY <2>1, AddrsType, Zenon
  <2>7. ASSUME NEW c \in ContractAddrs(tx) PROVE m.data[c] = a.vm.data[c]
    <3>1. c \in Contracts /\ outs[k][c] # Absent
      BY <2>5, <2>6
    <3>2. vm[t].data[c] # Absent
      BY <2>1, <3>1, HasData
    <3> DEFINE P == Done(t) \cap 1..(k - 1)
               Q1 == 1..(k - 1)
    <3>3. P \subseteq Q1 /\ Q1 \in SUBSET Nat
      BY <2>1
    <3>4. ASSUME NEW j \in Q1 \ P PROVE outs[j][c] = Absent
      <4>1. j \in Positions /\ j \notin Done(t)
        BY <1>1, <2>1
      <4>2. by[j] \in Threads /\ j \in Done(by[j]) /\ by[j] # t
        BY <1>1, <2>1, <4>1
      <4> QED
        BY <2>1, <3>1, <3>2, <4>2, NoOther
    <3>5. LastOf(m.data[c], outs, P, c) /\ LastOf(a.vm.data[c], outs, Q1, c)
      BY <2>2, <2>4, <3>1, Zenon
    <3> HIDE DEF P, Q1, a
    <3>6. LastOf(m.data[c], outs, Q1, c)
      BY <3>3, <3>4, <3>5, LastMore, Zenon
    <3> QED
      BY <3>3, <3>5, <3>6, LastUnique, Zenon
  <2>8. r.out = outs[k] /\ r.ret = "ok"
    BY <2>1, <2>3, <2>4, <2>7, ExecuteAgree, Zenon
  <2>9. r \in Accs /\ r.vm.data = a.vm.data /\ r.vm.cache = outs[k]
    <3>1. /\ r \in Accs /\ r.vm.data = a.vm.data
          /\ tx.kind = "plain" => r.vm = a.vm /\ r.out = Empty
          /\ tx.kind # "plain" => r.vm.cache = r.out
      BY <2>1, <2>3, ExecuteFacts, Zenon DEF Outcome
    <3> QED
      BY <2>2, <2>8, <3>1, Zenon
  <2>10. f[k] = [vm |-> CommitData(r.vm), outs |-> [a.outs EXCEPT ![k] = r.out], ret |-> r.ret]
    BY <1>2, <2>2, <2>8 DEF SequentialTx
  <2> HIDE DEF a, r, t, tx
  <2>11. f[k].ret = "ok" /\ f[k].vm.cache = Empty /\ f[k].vm.data = Overlay(outs[k], a.vm.data)
    <3>1. f[k].ret = r.ret /\ f[k].vm = CommitData(r.vm)
      BY <2>10
    <3>2. CommitData(r.vm).cache = Empty /\ CommitData(r.vm).data = Overlay(r.vm.cache, r.vm.data)
      BY DEF CommitData
    <3> QED
      BY <2>8, <2>9, <3>1, <3>2, Zenon
  <2>12. ASSUME NEW j \in 1..N PROVE f[k].outs[j] = IF j <= k THEN outs[j] ELSE Empty
    <3>1. f[k].outs = [a.outs EXCEPT ![k] = outs[k]]
      BY <2>8, <2>10
    <3>2. a.outs \in [1..N -> Maps]
      BY <1>1, <2>3, Zenon
    <3>3. CASE j = k
      <4>1. f[k].outs[j] = outs[j]
        BY <3>1, <3>2, <3>3, Zenon
      <4>2. j <= k
        BY <2>1, <3>3
      <4> QED
        BY <4>1, <4>2, Zenon
    <3>4. CASE j # k
      <4>1. f[k].outs[j] = a.outs[j]
        BY <3>1, <3>2, <3>4
      <4>2. a.outs[j] = IF j <= k - 1 THEN outs[j] ELSE Empty
        BY <2>2, Zenon
      <4>3. j <= k - 1 <=> j <= k
        BY <1>1, <2>1, <3>4
      <4> QED
        BY <4>1, <4>2, <4>3, Zenon
    <3> QED
      BY <3>3, <3>4, Zenon
  <2>13. ASSUME NEW c \in Contracts PROVE LastOf(f[k].vm.data[c], outs, 1..k, c)
    <3> DEFINE P == 1..(k - 1)
    <3>1. P \in SUBSET Nat /\ P \cup {k} = 1..k /\ \A j \in P : j < k
      BY <2>1
    <3>2. LastOf(a.vm.data[c], outs, P, c)
      BY <2>2, Zenon
    <3> HIDE DEF P
    <3>3. LastOf(IF outs[k][c] # Absent THEN outs[k][c] ELSE a.vm.data[c], outs, P \cup {k}, c)
      BY <2>1, <3>1, <3>2, LastAdd, Zenon
    <3>4. f[k].vm.data[c] = IF outs[k][c] # Absent THEN outs[k][c] ELSE a.vm.data[c]
      BY <2>11 DEF Overlay
    <3> QED
      BY <3>1, <3>3, <3>4, Zenon
  <2> QED
    BY <2>1, <2>11, <2>12, <2>13, Zenon DEF Good
<1>7. N \in Good
  <2> HIDE DEF Good
  <2>1. 0..N \subseteq Good
    BY <1>1, <1>5, <1>6, InductTo, Zenon
  <2> QED
    BY <1>1, <2>1
<1>8. f[N] \in SeqAccs(block) /\ f[N].ret = "ok"
  BY <1>1, <1>7
<1>9. f[N].outs = outs
  <2>1. f[N].outs \in [Positions -> Maps]
    BY <1>8 DEF SeqAccs, Positions
  <2>2. \A j \in Positions : f[N].outs[j] = outs[j]
    BY <1>1, <1>7
  <2> QED
    BY <1>3, <2>1, <2>2
<1>10. ASSUME NEW c \in Contracts PROVE f[N].vm.data[c] = FinalData[c]
  <2>1. LastOf(f[N].vm.data[c], outs, Positions, c) /\ Positions \in SUBSET Nat
    BY <1>1, <1>7
  <2>2. CASE \E t \in Threads : vm[t].data[c] # Absent
    <3> DEFINE t == CHOOSE t \in Threads : vm[t].data[c] # Absent
    <3>1. t \in Threads /\ vm[t].data[c] # Absent
      BY <2>2
    <3>2. FinalData[c] = vm[t].data[c]
      BY <2>2 DEF FinalData
    <3> HIDE DEF t
    <3>3. LastOf(vm[t].data[c], outs, Done(t), c) /\ Done(t) \subseteq Positions
      BY <1>1, <3>1, Zenon DEF IInv, Faithful
    <3>4. ASSUME NEW j \in Positions \ Done(t) PROVE outs[j][c] = Absent
      <4>1. by[j] \in Threads /\ j \in Done(by[j]) /\ by[j] # t
        BY <1>1, <3>1
      <4> QED
        BY <3>1, <4>1, NoOther
    <3>5. LastOf(vm[t].data[c], outs, Positions, c)
      BY <2>1, <3>3, <3>4, LastMore
    <3> QED
      BY <2>1, <3>2, <3>5, LastUnique, Zenon
  <2>3. CASE ~\E t \in Threads : vm[t].data[c] # Absent
    <3>1. FinalData[c] = Absent
      BY <2>3 DEF FinalData
    <3>2. ASSUME NEW j \in Positions PROVE outs[j][c] = Absent
      <4>1. by[j] \in Threads /\ j \in Done(by[j])
        BY <1>1
      <4> QED
        BY <2>3, <4>1, HasData
    <3>3. LastOf(Absent, outs, Positions, c)
      BY <3>2 DEF LastOf
    <3> QED
      BY <2>1, <3>1, <3>3, LastUnique
  <2> QED
    BY <2>2, <2>3
<1>11. f[N].vm.data = FinalData
  <2>1. f[N].vm.data \in Maps
    BY <1>8 DEF SeqAccs, Machines
  <2> QED
    BY <1>10, <2>1, Zenon DEF Maps, FinalData
<1> QED
  BY <1>2, <1>8, <1>9, <1>11

\* Every transaction is in a group.
LEMMA InSomeGroup ==
    ASSUME TypeOK, NEW k \in Positions
    PROVE  \E g \in Groups(block) : k \in Group(block, g)
<1> DEFINE n == Len(block.groupEnd)
           N == Len(block.vtx)
           off(g) == Offset(block, g)
<1>1. block \in Blocks \cup Mined
  BY DEF TypeOK
<1>2. /\ n \in Nat \ {0} /\ N \in Nat \ {0} /\ Groups(block) = 1..n /\ Positions = 1..N
      /\ \A g \in 1..(n + 1) : off(g) \in 0..N
      /\ \A g \in 1..n : Group(block, g) = (off(g) + 1)..off(g + 1)
      /\ off(1) = 0 /\ off(n + 1) = N
  BY <1>1, BlockFacts DEF Positions
<1> HIDE DEF n, N, off
<1> DEFINE S == {g \in 0..n : off(g + 1) < k}
<1> SUFFICES ASSUME \A g \in 1..n : k \notin Group(block, g) PROVE FALSE
  BY <1>2, Zenon
<1>3. 0 \in S
  BY <1>2
<1>4. ASSUME NEW g \in 1..n, g - 1 \in S PROVE g \in S
  <2>1. off((g - 1) + 1) < k /\ (g - 1) + 1 = g /\ g \in 1..(n + 1) /\ g + 1 \in 1..(n + 1)
    BY <1>2, <1>4
  <2>2. off(g) \in Nat /\ off(g + 1) \in Nat /\ off(g) < k /\ k \in Nat
    BY <1>2, <2>1
  <2>3. k \notin (off(g) + 1)..off(g + 1)
    BY <1>2, Zenon
  <2> QED
    BY <1>2, <2>2, <2>3
<1>5. n \in S
  <2> HIDE DEF S
  <2>1. 0..n \subseteq S
    BY <1>2, <1>3, <1>4, InductTo, Zenon
  <2> QED
    BY <1>2, <2>1
<1> QED
  BY <1>2, <1>5

(***************************************************************************)
(* The theorems                                                            *)
(***************************************************************************)
\* Whatever thread executes which group of a block that is accepted, data and
\* results are those of its transactions executed one by one in the order of
\* the block (MultiContractVM::Execute and CheckCross in ConnectBlock).
THEOREM SerializableExecution == Spec => []Serializable
<1>1. ASSUME IInv PROVE Serializable
  <2>1. TypeOK
    BY <1>1 DEF IInv
  <2>2. ASSUME NEW s \in Threads, NEW t \in Threads, s # t PROVE task[s] \cap task[t] = {}
    BY <1>1, <2>2 DEF IInv, Queue
  <2>3. ASSUME pc = "checked", result.executed, result.independent, ~caught
        PROVE  result.data = sequential[block].vm.data /\ outs = sequential[block].outs
    <3>1. result = [executed |-> ~interrupt, independent |-> CheckCross, data |-> FinalData]
      BY <1>1, <2>3 DEF IInv, Checked
    <3>2. ~interrupt /\ ~ContractCross /\ result.data = FinalData
      BY <2>3, <3>1, Zenon DEF CheckCross
    <3> QED
      BY <1>1, <2>3, <3>2, SameAsSequential
  <2> QED
    BY <2>1, <2>2, <2>3 DEF Serializable
<1> QED
  BY <1>1, PoolInvariant, PTL

\* Execute refuses a block only if it has a transaction that fails, and accepts
\* one that is independent only if it has none, up to exceptions.
THEOREM VerdictIsSequential == Spec => []ExecutedIffValid
<1>1. ASSUME IInv PROVE ExecutedIffValid
  <2> SUFFICES ASSUME pc = "checked"
               PROVE  /\ ~result.executed => sequential[block].ret # "ok"
                      /\ result.executed /\ result.independent /\ ~caught => sequential[block].ret = "ok"
    BY DEF ExecutedIffValid
  <2>1. result = [executed |-> ~interrupt, independent |-> CheckCross, data |-> FinalData]
    BY <1>1, Zenon DEF IInv, Checked
  <2>2. ASSUME ~result.executed PROVE sequential[block].ret # "ok"
    <3>1. interrupt
      BY <2>1, <2>2, Zenon
    <3>2. PICK k \in Positions : block.vtx[k].kind # "plain" /\ block.vtx[k].ends = "false"
      BY <1>1, <3>1 DEF IInv, Interrupted
    <3>3. block \in AllBlocks
      BY <1>1, AllDone
    <3> QED
      BY <3>2, <3>3, FailingRefused DEF Positions
  <2>3. ASSUME result.executed, result.independent, ~caught PROVE sequential[block].ret = "ok"
    <3>1. ~interrupt /\ ~ContractCross
      BY <2>1, <2>3, Zenon DEF CheckCross
    <3> QED
      BY <1>1, <2>3, <3>1, SameAsSequential
  <2> QED
    BY <2>2, <2>3
<1> QED
  BY <1>1, PoolInvariant, PTL

\* CheckCross passes a block whose groups share no transaction and have written
\* no contract in common, after any earlier blocks and failures.
THEOREM IndependentGroupsAccepted == Spec => []IndependentAccepted
<1>1. ASSUME IInv PROVE IndependentAccepted
  <2> SUFFICES ASSUME pc = "checked", ~TxCross(block),
                      \A g, h \in Groups(block) : g # h => Written(g) \cap Written(h) = {}
               PROVE  result.independent
    BY DEF IndependentAccepted
  <2>1. result.independent = CheckCross
    BY <1>1 DEF IInv, Checked
  <2>2. ASSUME NEW s \in Threads, NEW t \in Threads, NEW c \in Contracts,
               s # t, vm[s].data[c] # Absent, vm[t].data[c] # Absent
        PROVE  FALSE
    <3>1. PICK j \in Positions : by[j] = s /\ outs[j][c] # Absent
      BY <1>1, <2>2, Zenon DEF IInv, Traces
    <3>2. PICK k \in Positions : by[k] = t /\ outs[k][c] # Absent
      BY <1>1, <2>2, Zenon DEF IInv, Traces
    <3>3. PICK g \in Groups(block) : j \in Group(block, g)
      BY <1>1, InSomeGroup DEF IInv
    <3>4. PICK h \in Groups(block) : k \in Group(block, h)
      BY <1>1, InSomeGroup DEF IInv
    <3>5. c \in Written(g) /\ c \in Written(h)
      BY <3>1, <3>2, <3>3, <3>4, Zenon DEF Written
    <3>6. g # h
      <4>1. \A i \in Groups(block) : \A x, y \in Group(block, i) : by[x] = by[y]
        BY <1>1, Zenon DEF IInv, Queue
      <4>2. ASSUME g = h PROVE FALSE
        <5>1. by[j] = by[k]
          BY <3>3, <3>4, <4>1, <4>2, Zenon
        <5> QED
          BY <2>2, <3>1, <3>2, <5>1, Zenon
      <4> QED
        BY <4>2
    <3> QED
      BY <3>5, <3>6
  <2> QED
    BY <2>1, <2>2, Zenon DEF CheckCross, ContractCross
<1> QED
  BY <1>1, PoolInvariant, PTL
=============================================================================
