----------------------- MODULE BlockActivationProofs ------------------------
(***************************************************************************)
(* For every block tree and any number of threads, commands and crashes:   *)
(* the blocks of the active chain have been connected and are not marked   *)
(* invalid, as long as one thread at a time activates a chain and the node *)
(* does not restart from a tip that the index it loads marks as invalid.   *)
(***************************************************************************)
EXTENDS BlockActivation, TLAPS

Flags == {"tree", "data", "scripts", "failed", "child"}
Lasting == {"data", "scripts"}

Types ==
    /\ status \in [Blocks -> SUBSET Flags] /\ disk \in [Blocks -> SUBSET Flags]
    /\ failedBlocks \subseteq Blocks /\ dirty \subseteq Blocks
    /\ tip \in Blocks /\ diskTip \in Blocks /\ oldTip \in Blocks

\* cs_main is held by the thread within a step or an invalidation, which has
\* a target; one thread at a time has one.
Locking ==
    /\ pc \in [Threads -> {"idle", "activate", "step", "invalidate"}]
    /\ target \in [Threads -> Blocks \cup {None}]
    /\ \A t \in Threads : pc[t] \in {"step", "invalidate"} <=> lock = t
    /\ \A t \in Threads : pc[t] \in {"step", "invalidate"} => target[t] # None
    /\ \A t \in Threads : pc[t] = "idle" => target[t] = None
    /\ \A t \in Threads : pc[t] = "invalidate" => target[t] # Genesis
    /\ \A t, u \in Threads : target[t] # None /\ target[u] # None => t = u

\* nChainTx # 0 and what hangs on it.
Linked ==
    /\ linked \subseteq Blocks /\ unlinked \subseteq Blocks
    /\ candidates \subseteq linked /\ tip \in linked
    /\ \A b \in linked : \A c \in Chain[b] : c \in linked /\ "data" \in status[c]
    /\ \A b \in unlinked : "data" \in status[b]

\* No block of the chain of b is marked invalid in st.
Sound(st, b) == \A c \in Chain[b] : ~FailedIn(st, c)

Connected == \A b \in Chain[tip] : "scripts" \in status[b]

\* The active chain, and the chain that a thread is moving to.
Valid ==
    /\ Sound(status, tip)
    /\ \A t \in Threads : target[t] # None /\ pc[t] # "invalidate" =>
           target[t] \in linked /\ Sound(status, target[t])

\* What a flush has written, and what it has still to write.
Durable ==
    /\ \A b \in Chain[diskTip] : Lasting \subseteq disk[b]
    /\ \A b \in Blocks : disk[b] \cap Lasting \subseteq status[b]
    /\ \A b \in Blocks \ dirty : status[b] \cap Lasting \subseteq disk[b]

Assumed == SerialActivation /\ ~CrashAnytime

\* The inductive invariant.
IInv == Assumed /\ Types /\ Locking /\ Linked /\ Connected /\ Valid /\ Durable

(***************************************************************************)
(* The block tree                                                          *)
(***************************************************************************)
\* GetAncestor stays in the tree, at the height it was asked for, and walks
\* the same chain whichever block of the chain it starts from.
LEMMA Ancestors ==
    ASSUME NEW b \in Blocks, NEW h \in 0..nHeight(b)
    PROVE  /\ GetAncestor(b, h) \in Blocks
           /\ nHeight(GetAncestor(b, h)) = h
           /\ \A k \in 0..h : GetAncestor(GetAncestor(b, h), k) = GetAncestor(b, k)
<1>1. b \in Seq(Nat)
  BY ConstantsAssumption
<1>2. Len(SubSeq(b, 1, h)) = h
  BY <1>1 DEF nHeight
<1>3. \A k \in 0..h : SubSeq(SubSeq(b, 1, h), 1, k) = SubSeq(b, 1, k)
  BY <1>1 DEF nHeight
<1>4. GetAncestor(b, h) \in Blocks
  BY ConstantsAssumption
<1> QED
  BY <1>2, <1>3, <1>4 DEF nHeight, GetAncestor

\* A block is its own ancestor at its own height; the first is the genesis
\* block.
LEMMA AncestorEnds ==
    ASSUME NEW b \in Blocks
    PROVE  nHeight(b) \in Nat /\ GetAncestor(b, nHeight(b)) = b /\ GetAncestor(b, 0) = Genesis
<1>1. b \in Seq(Nat)
  BY ConstantsAssumption
<1> QED
  BY <1>1 DEF nHeight, GetAncestor, Genesis

\* What a chain holds.
LEMMA ChainDef ==
    ASSUME NEW b \in Blocks
    PROVE  /\ Chain[b] = {GetAncestor(b, h) : h \in 0..nHeight(b)}
           /\ Chain[b] \subseteq Blocks
           /\ b \in Chain[b] /\ Genesis \in Chain[b]
<1>1. Chain[b] = {GetAncestor(b, h) : h \in 0..nHeight(b)}
  BY DEF Chain
<1>2. nHeight(b) \in 0..nHeight(b) /\ 0 \in 0..nHeight(b)
  BY AncestorEnds
<1>3. GetAncestor(b, nHeight(b)) \in Chain[b] /\ GetAncestor(b, 0) \in Chain[b]
  BY <1>1, <1>2
<1>4. Chain[b] \subseteq Blocks
  BY <1>1, Ancestors
<1> QED
  BY <1>1, <1>3, <1>4, AncestorEnds

\* The chain of an ancestor is part of the chain.
LEMMA ChainTrans ==
    ASSUME NEW b \in Blocks, NEW c \in Chain[b]
    PROVE  c \in Blocks /\ Chain[c] \subseteq Chain[b]
<1>1. PICK h \in 0..nHeight(b) : c = GetAncestor(b, h)
  BY ChainDef
<1>2. c \in Blocks /\ nHeight(c) = h /\ \A k \in 0..h : GetAncestor(c, k) = GetAncestor(b, k)
  BY <1>1, Ancestors
<1>3. \A k \in 0..h : k \in 0..nHeight(b)
  BY AncestorEnds
<1>4. Chain[c] = {GetAncestor(c, k) : k \in 0..h}
  BY <1>2, ChainDef
<1>5. ASSUME NEW d \in Chain[c] PROVE d \in Chain[b]
  <2>1. PICK k \in 0..h : d = GetAncestor(c, k)
    BY <1>4, <1>5
  <2>2. d = GetAncestor(b, k) /\ k \in 0..nHeight(b)
    BY <1>2, <1>3, <2>1
  <2> QED
    BY <2>2, ChainDef
<1> QED
  BY <1>2, <1>5

\* Of two ancestors of a block, one is an ancestor of the other.
LEMMA ChainTotal ==
    ASSUME NEW b \in Blocks, NEW c \in Chain[b], NEW d \in Chain[b]
    PROVE  c \in Chain[d] \/ d \in Chain[c]
<1>1. PICK h \in 0..nHeight(b) : c = GetAncestor(b, h)
  BY ChainDef
<1>2. PICK k \in 0..nHeight(b) : d = GetAncestor(b, k)
  BY ChainDef
<1>3. /\ c \in Blocks /\ nHeight(c) = h /\ \A j \in 0..h : GetAncestor(c, j) = GetAncestor(b, j)
      /\ d \in Blocks /\ nHeight(d) = k /\ \A j \in 0..k : GetAncestor(d, j) = GetAncestor(b, j)
  BY <1>1, <1>2, Ancestors
<1>4. nHeight(b) \in Nat
  BY AncestorEnds
<1>5. CASE h <= k
  <2>1. h \in 0..k
    BY <1>4, <1>5
  <2>2. c = GetAncestor(d, h)
    BY <1>1, <1>3, <2>1
  <2> QED
    BY <1>3, <2>1, <2>2, ChainDef
<1>6. CASE k <= h
  <2>1. k \in 0..h
    BY <1>4, <1>6
  <2>2. d = GetAncestor(c, k)
    BY <1>2, <1>3, <2>1
  <2> QED
    BY <1>3, <2>1, <2>2, ChainDef
<1> QED
  BY <1>4, <1>5, <1>6

\* The chain of a block is that of its parent and the block.
LEMMA ChainParent ==
    ASSUME NEW b \in Blocks, b # Genesis
    PROVE  Parent(b) \in Blocks /\ Chain[b] = Chain[Parent(b)] \cup {b}
<1> DEFINE n == nHeight(b)
<1>1. n \in Nat /\ n # 0
  BY AncestorEnds
<1>2. Parent(b) = GetAncestor(b, n - 1) /\ n - 1 \in 0..n
  BY <1>1 DEF Parent, GetAncestor, nHeight
<1>3. /\ Parent(b) \in Blocks /\ nHeight(Parent(b)) = n - 1
      /\ \A k \in 0..(n - 1) : GetAncestor(Parent(b), k) = GetAncestor(b, k)
  BY <1>2, Ancestors
<1>4. Chain[Parent(b)] = {GetAncestor(Parent(b), k) : k \in 0..(n - 1)}
  BY <1>3, ChainDef
<1>5. Chain[b] = {GetAncestor(b, k) : k \in 0..n}
  BY ChainDef
<1>6. 0..n = (0..(n - 1)) \cup {n}
  BY <1>1
<1>7. GetAncestor(b, n) = b
  BY AncestorEnds
<1> HIDE DEF n
<1>8. ASSUME NEW c \in Chain[b] PROVE c \in Chain[Parent(b)] \cup {b}
  <2>1. PICK k \in 0..n : c = GetAncestor(b, k)
    BY <1>5
  <2> QED
    BY <2>1, <1>3, <1>4, <1>6, <1>7
<1>9. Chain[Parent(b)] \subseteq Chain[b]
  <2>1. Parent(b) \in Chain[b]
    BY <1>2, <1>5
  <2> QED
    BY <2>1, ChainTrans
<1> QED
  BY <1>3, <1>8, <1>9, ChainDef

\* The block that a step towards m connects next is the child of the tip.
LEMMA NextBlock ==
    ASSUME NEW m \in Blocks, NEW b \in Chain[m] \ {m}
    PROVE  LET c == GetAncestor(m, nHeight(b) + 1)
           IN  c \in Chain[m] /\ Chain[c] = Chain[b] \cup {c} /\ c \notin Chain[b]
<1> DEFINE c == GetAncestor(m, nHeight(b) + 1)
           n == nHeight(m)
<1>1. PICK h \in 0..n : b = GetAncestor(m, h)
  BY ChainDef
<1>2. n \in Nat /\ GetAncestor(m, n) = m
  BY AncestorEnds
<1>3. h # n
  BY <1>1, <1>2
<1>4. b \in Blocks /\ nHeight(b) = h
  BY <1>1, Ancestors
<1>5. h + 1 \in 0..n /\ h \in 0..(h + 1) /\ h \in Nat
  BY <1>2, <1>3
<1>6. c = GetAncestor(m, h + 1)
  BY <1>4
<1> HIDE DEF c
<1>7. c \in Blocks /\ nHeight(c) = h + 1 /\ GetAncestor(c, h) = b
  BY <1>1, <1>5, <1>6, Ancestors
<1>8. c \in Chain[m]
  BY <1>5, <1>6, ChainDef
<1>9. c # Genesis
  <2>1. nHeight(Genesis) = 0
    BY DEF Genesis, nHeight
  <2> QED
    BY <1>5, <1>7, <2>1
<1>10. Parent(c) = b
  <2>1. Len(c) - 1 = h
    BY <1>5, <1>7 DEF nHeight
  <2> QED
    BY <1>7, <2>1 DEF Parent, GetAncestor
<1>11. Chain[c] = Chain[b] \cup {c}
  BY <1>7, <1>9, <1>10, ChainParent
<1>12. c \notin Chain[b]
  <2>1. ASSUME NEW k \in 0..h, c = GetAncestor(b, k) PROVE FALSE
    <3>1. nHeight(c) = k
      BY <1>4, <2>1, Ancestors
    <3> QED
      BY <1>5, <1>7, <3>1
  <2> QED
    BY <1>4, <2>1, ChainDef
<1> QED
  BY <1>8, <1>11, <1>12 DEF c

(***************************************************************************)
(* What the steps have in common                                           *)
(***************************************************************************)
\* No block loses its data or the mark that it was connected.
Grows == \A b \in Blocks : status[b] \cap Lasting \subseteq status'[b]

\* What gets one of the two is to be written.
NewIsDirty == \A b \in Blocks \ dirty' : status'[b] \cap Lasting \subseteq status[b]

\* The chains that threads move to stay free of invalid blocks.
TargetsSound ==
    \A t \in Threads : target'[t] # None /\ pc'[t] # "invalidate" =>
        target'[t] \in linked' /\ Sound(status', target'[t])

\* What is on disk stays behind what is in memory.
LEMMA DurableKept ==
    ASSUME IInv, Grows, NewIsDirty, dirty \subseteq dirty', UNCHANGED <<disk, diskTip>>
    PROVE  Durable'
<1>1. \A b \in Blocks : disk[b] \cap Lasting \subseteq status'[b]
  BY DEF IInv, Durable, Grows
<1>2. \A b \in Blocks \ dirty' : status'[b] \cap Lasting \subseteq disk[b]
  BY DEF IInv, Durable, NewIsDirty
<1> QED
  BY <1>1, <1>2 DEF IInv, Durable

\* A step that changes the index but not the tip.
LEMMA IndexInv ==
    ASSUME IInv, Locking', Linked', TargetsSound, Sound(status', tip),
           status' \in [Blocks -> SUBSET Flags], Grows, NewIsDirty,
           failedBlocks' \subseteq Blocks, dirty \subseteq dirty', dirty' \subseteq Blocks,
           oldTip' \in Blocks, UNCHANGED <<tip, disk, diskTip>>
    PROVE  IInv'
<1>1. Types'
  BY DEF IInv, Types
<1>2. Connected'
  <2> SUFFICES ASSUME NEW b \in Chain[tip] PROVE "scripts" \in status'[b]
    BY DEF Connected
  <2>1. b \in Blocks
    BY ChainDef DEF IInv, Types
  <2>2. "scripts" \in status[b]
    BY DEF IInv, Connected
  <2> QED
    BY <2>1, <2>2 DEF Grows, Lasting
<1>3. Valid'
  BY DEF Valid, TargetsSound
<1>4. Durable'
  BY DurableKept
<1> QED
  BY <1>1, <1>2, <1>3, <1>4 DEF IInv, Assumed

\* ... and links no block.
LEMMA LinkedKept ==
    ASSUME IInv, Grows, UNCHANGED <<linked, unlinked, tip>>, candidates' \subseteq linked
    PROVE  Linked'
<1>1. ASSUME NEW b \in Blocks, "data" \in status[b] PROVE "data" \in status'[b]
  BY <1>1 DEF Grows, Lasting
<1>2. /\ linked \subseteq Blocks /\ unlinked \subseteq Blocks /\ tip \in linked
      /\ \A b \in linked : \A c \in Chain[b] : c \in linked /\ "data" \in status[c]
      /\ \A b \in unlinked : "data" \in status[b]
  BY DEF IInv, Linked
<1>3. \A b \in linked : \A c \in Chain[b] : c \in linked /\ "data" \in status'[c]
  BY <1>1, <1>2
<1>4. \A b \in unlinked : "data" \in status'[b]
  BY <1>1, <1>2
<1> QED
  BY <1>2, <1>3, <1>4 DEF Linked

\* Chains stay sound when no block becomes failed.
LEMMA SoundKept ==
    ASSUME NEW st, NEW new, NEW b \in Blocks, Sound(st, b),
           \A c \in Chain[b] : FailedIn(new, c) => FailedIn(st, c)
    PROVE  Sound(new, b)
BY DEF Sound

\* Threads that do not move keep their targets.
LEMMA TargetsKept ==
    ASSUME IInv, linked \subseteq linked',
           \A t \in Threads : target'[t] # None /\ pc'[t] # "invalidate" =>
               target'[t] = target[t] /\ pc[t] # "invalidate",
           \A b \in Blocks : b \in linked /\ Sound(status, b) => Sound(status', b)
    PROVE  TargetsSound /\ Sound(status', tip)
<1>1. tip \in Blocks /\ tip \in linked /\ Sound(status, tip) /\ linked \subseteq Blocks
  BY DEF IInv, Types, Linked, Valid
<1>2. ASSUME NEW t \in Threads, target'[t] # None, pc'[t] # "invalidate"
      PROVE  target'[t] \in linked' /\ Sound(status', target'[t])
  <2>1. target'[t] = target[t] /\ pc[t] # "invalidate"
    BY <1>2
  <2>2. target[t] \in linked /\ Sound(status, target[t])
    BY <1>2, <2>1 DEF IInv, Valid
  <2> QED
    BY <1>1, <2>1, <2>2
<1> QED
  BY <1>1, <1>2 DEF TargetsSound

\* A thread that turns to ActivateBestChain has no target yet.
LEMMA TurnsToActivate ==
    ASSUME IInv, NEW t \in Threads, Idle(t), pc' = [pc EXCEPT ![t] = "activate"],
           UNCHANGED <<target, lock>>
    PROVE  /\ Locking'
           /\ \A u \in Threads : target'[u] # None /\ pc'[u] # "invalidate" =>
                  target'[u] = target[u] /\ pc[u] # "invalidate"
BY DEF IInv, Locking, Idle, Free

\* A header is added: no flag of another block changes.
LEMMA HeaderStatus ==
    ASSUME IInv, NEW b \in Blocks
    PROVE  /\ WithHeader(b) \in [Blocks -> SUBSET Flags]
           /\ \A c \in Blocks : status[c] \subseteq WithHeader(b)[c]
           /\ \A c \in Blocks : WithHeader(b)[c] \subseteq status[c] \cup {"tree"}
<1>1. status \in [Blocks -> SUBSET Flags]
  BY DEF IInv, Types
<1>2. CASE Known(b)
  BY <1>1, <1>2 DEF WithHeader
<1>3. CASE ~Known(b)
  <2>1. status[b] = {} /\ WithHeader(b) = [status EXCEPT ![b] = {"tree"}]
    BY <1>3 DEF Known, WithHeader
  <2> QED
    BY <1>1, <2>1 DEF Flags
<1> QED
  BY <1>2, <1>3

(***************************************************************************)
(* Headers and blocks                                                      *)
(***************************************************************************)
\* A new header.
LEMMA AcceptBlockHeaderInv ==
    ASSUME IInv, NEW b \in Blocks, AcceptBlockHeader(b)
    PROVE  IInv'
<1>1. /\ status' = WithHeader(b) /\ dirty' = dirty \cup {b}
      /\ UNCHANGED <<linked, unlinked, failedBlocks, candidates, tip, disk, diskTip, lock, pc, target, oldTip>>
  BY DEF AcceptBlockHeader, stored, threads
<1>2. Grows /\ NewIsDirty
  BY <1>1, HeaderStatus DEF Grows, NewIsDirty, Lasting
<1>3. Locking'
  BY <1>1 DEF IInv, Locking
<1>4. Linked'
  BY <1>1, <1>2, LinkedKept DEF IInv, Linked
<1>5. \A c \in Blocks : FailedIn(status', c) => FailedIn(status, c)
  BY <1>1, HeaderStatus DEF FailedIn
<1>6. \A c \in Blocks : Sound(status, c) => Sound(status', c)
  BY <1>5, ChainDef DEF Sound
<1>7. TargetsSound /\ Sound(status', tip)
  <2>1. linked \subseteq linked'
    BY <1>1
  <2>2. \A t \in Threads : target'[t] # None /\ pc'[t] # "invalidate" =>
               target'[t] = target[t] /\ pc[t] # "invalidate"
    BY <1>1
  <2> QED
    BY <1>6, <2>1, <2>2, TargetsKept
<1>8. /\ status' \in [Blocks -> SUBSET Flags] /\ failedBlocks' \subseteq Blocks
      /\ dirty \subseteq dirty' /\ dirty' \subseteq Blocks /\ oldTip' \in Blocks
  BY <1>1, HeaderStatus DEF IInv, Types
<1> QED
  BY <1>1, <1>2, <1>3, <1>4, <1>7, <1>8, IndexInv

\* A block below f gets a mark: it is on no chain free of invalid blocks if f
\* is invalid.
LEMMA BelowFailed ==
    ASSUME NEW st, NEW p \in Blocks, NEW f \in Chain[p], FailedIn(st, f),
           NEW b \in Blocks, Sound(st, b)
    PROVE  Chain[b] \cap (Chain[p] \ Chain[f]) = {}
<1> SUFFICES ASSUME NEW d \in Chain[b], d \in Chain[p], d \notin Chain[f] PROVE FALSE
  OBVIOUS
<1>1. f \in Chain[d]
  BY ChainTotal
<1>2. f \in Chain[b]
  BY <1>1, ChainTrans
<1> QED
  BY <1>2 DEF Sound

\* A header below a failed block: the blocks between are on no such chain.
LEMMA RejectBlockHeaderInv ==
    ASSUME IInv, NEW b \in Blocks, b # Genesis, RejectBlockHeader(b)
    PROVE  IInv'
<1>0. Parent(b) \in Blocks
  BY ChainParent
<1>1. UNCHANGED <<linked, unlinked, failedBlocks, candidates, tip, disk, diskTip, lock, pc, target, oldTip>>
  BY DEF RejectBlockHeader, stored, threads
<1>2. PICK walk \in SUBSET Blocks :
        /\ \A x \in Blocks : Sound(status, x) => Chain[x] \cap walk = {}
        /\ status' = [c \in Blocks |-> IF c \in walk THEN status[c] \cup {"child"} ELSE status[c]]
        /\ dirty' = dirty \cup walk
  <2>1. PICK f \in FailedAbove(b) :
          LET walk == Chain[Parent(b)] \ Chain[f] IN
          IF "failed" \in status[f]
          THEN /\ status' = [c \in Blocks |-> IF c \in walk THEN status[c] \cup {"child"} ELSE status[c]]
               /\ dirty' = dirty \cup walk
               /\ UNCHANGED aborted
          ELSE aborted' = TRUE /\ UNCHANGED <<status, dirty>>
    BY DEF RejectBlockHeader
  <2>2. CASE "failed" \in status[f]
    <3>1. f \in Chain[Parent(b)]
      BY <2>1 DEF FailedAbove
    <3>2. FailedIn(status, f)
      BY <2>2 DEF FailedIn
    <3>3. \A x \in Blocks : Sound(status, x) => Chain[x] \cap (Chain[Parent(b)] \ Chain[f]) = {}
      BY <1>0, <3>1, <3>2, BelowFailed
    <3>4. Chain[Parent(b)] \ Chain[f] \in SUBSET Blocks
      BY <1>0, ChainDef
    <3> QED
      BY <2>1, <2>2, <3>3, <3>4, Zenon
  <2>3. CASE "failed" \notin status[f]
    <3>1. UNCHANGED <<status, dirty>>
      BY <2>1, <2>3
    <3>2. status \in [Blocks -> SUBSET Flags]
      BY DEF IInv, Types
    <3>3. status' = [c \in Blocks |-> IF c \in {} THEN status[c] \cup {"child"} ELSE status[c]]
      BY <3>1, <3>2
    <3>4. dirty' = dirty \cup {}
      BY <3>1
    <3> WITNESS {} \in SUBSET Blocks
    <3> QED
      BY <3>3, <3>4
  <2> QED
    BY <2>2, <2>3
<1>3. status \in [Blocks -> SUBSET Flags] /\ failedBlocks \subseteq Blocks /\ dirty \subseteq Blocks /\ oldTip \in Blocks
  BY DEF IInv, Types
<1>4. status' \in [Blocks -> SUBSET Flags]
  BY <1>2, <1>3 DEF Flags
<1>5. Grows /\ NewIsDirty
  BY <1>2, <1>3 DEF Grows, NewIsDirty, Lasting
<1>6. Locking'
  BY <1>1 DEF IInv, Locking
<1>7. Linked'
  BY <1>1, <1>5, LinkedKept DEF IInv, Linked
<1>8. \A x \in Blocks : Sound(status, x) => Sound(status', x)
  <2> SUFFICES ASSUME NEW x \in Blocks, Sound(status, x), NEW c \in Chain[x] PROVE ~FailedIn(status', c)
    BY DEF Sound
  <2>1. c \in Blocks /\ c \notin walk
    BY <1>2, ChainDef
  <2>2. status'[c] = status[c]
    BY <1>2, <2>1
  <2> QED
    BY <2>2 DEF Sound, FailedIn
<1>9. TargetsSound /\ Sound(status', tip)
  <2>1. linked \subseteq linked'
    BY <1>1
  <2>2. \A t \in Threads : target'[t] # None /\ pc'[t] # "invalidate" =>
               target'[t] = target[t] /\ pc[t] # "invalidate"
    BY <1>1
  <2> QED
    BY <1>8, <2>1, <2>2, TargetsKept
<1> QED
  BY <1>1, <1>2, <1>3, <1>4, <1>5, <1>6, <1>7, <1>9, IndexInv

\* The blocks that a received block links have their data, and so have the
\* blocks before them.
LEMMA LinksInv ==
    ASSUME IInv, NEW b \in Blocks, b # Genesis, Parent(b) \in linked, NEW x \in Links(b)
    PROVE  /\ x \in Blocks
           /\ \A c \in Chain[x] : c \in linked \cup Links(b) /\ (c = b \/ "data" \in status[c])
<1>1. x \in Blocks /\ b \in Chain[x] /\ \A d \in Chain[x] \ Chain[b] : d \in unlinked
  BY ChainDef DEF Links
<1>2. /\ \A c \in Chain[Parent(b)] : c \in linked /\ "data" \in status[c]
      /\ \A c \in unlinked : "data" \in status[c]
  BY DEF IInv, Linked
<1>3. Chain[b] = Chain[Parent(b)] \cup {b} /\ b \in Links(b)
  BY ChainParent DEF Links
<1>4. ASSUME NEW c \in Chain[x] PROVE c \in linked \cup Links(b) /\ (c = b \/ "data" \in status[c])
  <2>1. CASE c \in Chain[b]
    BY <1>2, <1>3, <2>1
  <2>2. CASE c \notin Chain[b]
    <3>1. c \in Blocks /\ Chain[c] \subseteq Chain[x]
      BY <1>1, ChainTrans
    <3>2. b \in Chain[c]
      BY <1>1, <2>2, ChainTotal
    <3>3. c \in Links(b)
      BY <1>1, <3>1, <3>2 DEF Links
    <3> QED
      BY <1>1, <1>2, <2>2, <3>3
  <2> QED
    BY <2>1, <2>2
<1> QED
  BY <1>1, <1>4

\* AcceptBlock: a block without data is on no chain that is linked.
LEMMA ProcessNewBlockInv ==
    ASSUME IInv, NEW t \in Threads, NEW b \in Blocks, NEW r \in BOOLEAN, ProcessNewBlock(t, b, r)
    PROVE  IInv'
<1> DEFINE st == WithHeader(b)
<1>1. /\ Idle(t) /\ b # Genesis
      /\ UNCHANGED <<failedBlocks, tip, disk, diskTip, lock, target, oldTip>>
  BY DEF ProcessNewBlock, stored
<1>2. /\ failedBlocks \subseteq Blocks /\ dirty \subseteq Blocks /\ oldTip \in Blocks
      /\ linked \subseteq Blocks /\ candidates \subseteq linked /\ unlinked \subseteq Blocks /\ tip \in linked
      /\ \A x \in linked : \A c \in Chain[x] : c \in linked /\ "data" \in status[c]
      /\ \A c \in unlinked : "data" \in status[c]
  BY DEF IInv, Types, Linked
<1>3. /\ st \in [Blocks -> SUBSET Flags]
      /\ \A c \in Blocks : status[c] \subseteq st[c]
      /\ \A c \in Blocks : st[c] \subseteq status[c] \cup {"tree"}
  BY HeaderStatus
<1>4. Parent(b) \in Blocks
  BY <1>1, ChainParent
<1> HIDE DEF st
<1>5. CASE /\ status' = st
           /\ dirty' = IF Known(b) THEN dirty ELSE dirty \cup {b}
           /\ pc' = [pc EXCEPT ![t] = "activate"]
           /\ UNCHANGED <<linked, unlinked, candidates>>
  <2>1. Grows /\ NewIsDirty
    BY <1>3, <1>5 DEF Grows, NewIsDirty, Lasting
  <2>2. \A c \in Blocks : FailedIn(status', c) => FailedIn(status, c)
    BY <1>3, <1>5 DEF FailedIn
  <2>3. \A c \in Blocks : Sound(status, c) => Sound(status', c)
    BY <2>2, ChainDef DEF Sound
  <2>4. Linked'
    BY <1>1, <1>2, <1>5, <2>1, LinkedKept
  <2>5. /\ Locking'
        /\ \A u \in Threads : target'[u] # None /\ pc'[u] # "invalidate" =>
               target'[u] = target[u] /\ pc[u] # "invalidate"
    BY <1>1, <1>5, TurnsToActivate, Zenon
  <2>6. TargetsSound /\ Sound(status', tip)
    BY <1>5, <2>3, <2>5, TargetsKept, Zenon
  <2>7. dirty \subseteq dirty' /\ dirty' \subseteq Blocks
    BY <1>2, <1>5
  <2> QED
    BY <1>1, <1>2, <1>3, <1>5, <2>1, <2>4, <2>5, <2>6, <2>7, IndexInv, Zenon
<1>6. CASE /\ "data" \notin status[b]
           /\ status' = [st EXCEPT ![b] = @ \cup {"failed"}]
           /\ dirty' = dirty \cup {b}
           /\ UNCHANGED <<linked, unlinked, candidates, pc>>
  <2>1. Grows /\ NewIsDirty /\ status' \in [Blocks -> SUBSET Flags]
    BY <1>3, <1>6 DEF Grows, NewIsDirty, Lasting, Flags
  <2>2. \A c \in Blocks \ {b} : FailedIn(status', c) => FailedIn(status, c)
    BY <1>3, <1>6 DEF FailedIn
  <2>3. \A c \in Blocks : c \in linked /\ Sound(status, c) => Sound(status', c)
    <3> SUFFICES ASSUME NEW c \in linked, Sound(status, c), NEW d \in Chain[c] PROVE ~FailedIn(status', d)
      BY DEF Sound
    <3>1. d \in Blocks /\ d # b
      BY <1>2, <1>6
    <3> QED
      BY <2>2, <3>1 DEF Sound
  <2>4. Linked'
    BY <1>1, <1>2, <1>6, <2>1, LinkedKept
  <2>5. Locking'
    BY <1>1, <1>6 DEF IInv, Locking
  <2>6. TargetsSound /\ Sound(status', tip)
    <3>1. \A u \in Threads : target'[u] # None /\ pc'[u] # "invalidate" =>
               target'[u] = target[u] /\ pc[u] # "invalidate"
      BY <1>1, <1>6, Zenon
    <3> QED
      BY <1>6, <2>3, <3>1, TargetsKept, Zenon
  <2> QED
    BY <1>1, <1>2, <1>6, <2>1, <2>4, <2>5, <2>6, IndexInv
<1>7. CASE ReceivedBlockTransactions(b, st) /\ pc' = [pc EXCEPT ![t] = "activate"]
  <2>1. status' = [st EXCEPT ![b] = @ \cup {"data"}] /\ dirty' = dirty \cup {b}
    BY <1>7 DEF ReceivedBlockTransactions
  <2>2. Grows /\ NewIsDirty /\ status' \in [Blocks -> SUBSET Flags] /\ "data" \in status'[b]
    BY <1>3, <2>1 DEF Grows, NewIsDirty, Lasting, Flags
  <2>3. \A c \in Blocks : FailedIn(status', c) => FailedIn(status, c)
    BY <1>3, <2>1 DEF FailedIn
  <2>4. \A c \in Blocks : Sound(status, c) => Sound(status', c)
    BY <2>3, ChainDef DEF Sound
  <2>5. \A c \in Blocks : "data" \in status[c] => "data" \in status'[c]
    BY <2>2 DEF Grows, Lasting
  <2>6. Linked' /\ linked \subseteq linked'
    <3>1. CASE Parent(b) \in linked
      <4>1. /\ linked' = linked \cup Links(b) /\ unlinked' = unlinked \ Links(b)
            /\ candidates' \subseteq candidates \cup Links(b)
        BY <1>7, <3>1, Zenon DEF ReceivedBlockTransactions
      <4>2. \A x \in Links(b) : x \in Blocks /\ \A c \in Chain[x] :
                c \in linked \cup Links(b) /\ (c = b \/ "data" \in status[c])
        BY <1>1, <3>1, LinksInv
      <4>3. \A x \in Links(b) : \A c \in Chain[x] : c \in linked' /\ "data" \in status'[c]
        BY <2>2, <2>5, <4>1, <4>2, ChainDef
      <4>4. \A x \in linked : \A c \in Chain[x] : c \in linked' /\ "data" \in status'[c]
        BY <1>2, <2>5, <4>1
      <4>5. \A c \in unlinked' : "data" \in status'[c]
        BY <1>2, <2>5, <4>1
      <4> QED
        BY <1>1, <1>2, <4>1, <4>2, <4>3, <4>4, <4>5 DEF Linked
    <3>2. CASE Parent(b) \notin linked
      <4>1. /\ unlinked' \subseteq unlinked \cup {b}
            /\ UNCHANGED <<linked, candidates>>
        BY <1>7, <3>2, Zenon DEF ReceivedBlockTransactions
      <4>2. \A x \in linked : \A c \in Chain[x] : c \in linked /\ "data" \in status'[c]
        BY <1>2, <2>5
      <4>3. \A c \in unlinked' : "data" \in status'[c]
        BY <1>2, <2>2, <2>5, <4>1
      <4> QED
        BY <1>1, <1>2, <4>1, <4>2, <4>3 DEF Linked
    <3> QED
      BY <3>1, <3>2
  <2>7. /\ Locking'
        /\ \A u \in Threads : target'[u] # None /\ pc'[u] # "invalidate" =>
               target'[u] = target[u] /\ pc[u] # "invalidate"
    BY <1>1, <1>7, TurnsToActivate, Zenon
  <2>8. TargetsSound /\ Sound(status', tip)
    BY <2>4, <2>6, <2>7, TargetsKept, Zenon
  <2> QED
    BY <1>1, <1>2, <2>1, <2>2, <2>6, <2>7, <2>8, IndexInv, Zenon
<1> QED
  BY <1>5, <1>6, <1>7, Zenon DEF ProcessNewBlock, st

(***************************************************************************)
(* ActivateBestChain                                                       *)
(***************************************************************************)
\* FindMostWorkChain marks only blocks above a failed one that is not active.
LEMMA RemoveRejectedInv ==
    ASSUME IInv, RemoveRejected
    PROVE  /\ status' \in [Blocks -> SUBSET Flags] /\ candidates' \subseteq candidates
           /\ \A c \in Blocks : status[c] \cap Lasting \subseteq status'[c]
                                /\ status'[c] \cap Lasting \subseteq status[c]
           /\ \A x \in Blocks : Sound(status, x) => Sound(status', x)
<1> DEFINE above == UNION {AboveFailed(c) : c \in Rejected}
<1>1. /\ status' = [b \in Blocks |-> IF b \in above THEN status[b] \cup {"child"} ELSE status[b]]
      /\ candidates' \subseteq candidates
  BY DEF RemoveRejected
<1>2. status \in [Blocks -> SUBSET Flags] /\ candidates \subseteq Blocks
  BY DEF IInv, Types, Linked
<1>3. ASSUME NEW x \in Blocks, Sound(status, x), NEW d \in Chain[x], d \in above PROVE FALSE
  <2>1. PICK c \in Rejected : d \in AboveFailed(c)
    BY <1>3
  <2>2. PICK e \in Fork(c) : Failed(e)
    BY DEF Rejected, Usable
  <2>3. e \in Chain[d]
    BY <2>1, <2>2 DEF AboveFailed
  <2>4. e \in Chain[x]
    BY <2>3, ChainTrans
  <2> QED
    BY <1>3, <2>2, <2>4, Zenon DEF Sound, Failed
<1> HIDE DEF above
<1>4. \A x \in Blocks : Sound(status, x) => Sound(status', x)
  <2> SUFFICES ASSUME NEW x \in Blocks, Sound(status, x), NEW c \in Chain[x] PROVE ~FailedIn(status', c)
    BY DEF Sound
  <2>1. c \in Blocks /\ c \notin above
    BY <1>3, ChainDef
  <2>2. status'[c] = status[c]
    BY <1>1, <2>1
  <2> QED
    BY <2>2 DEF Sound, FailedIn
<1>5. status' \in [Blocks -> SUBSET Flags]
  BY <1>1, <1>2 DEF Flags
<1>6. \A c \in Blocks : status[c] \cap Lasting \subseteq status'[c]
                        /\ status'[c] \cap Lasting \subseteq status[c]
  BY <1>1, <1>2 DEF Lasting
<1> QED
  BY <1>1, <1>4, <1>5, <1>6

\* The chain that FindMostWorkChain returns has no invalid block.
LEMMA FoundSound ==
    ASSUME IInv, NEW m \in FindMostWorkChain
    PROVE  m \in linked /\ m \in Blocks /\ Sound(status, m)
<1>1. m \in candidates /\ Usable(m)
  BY DEF FindMostWorkChain, MostWork
<1>2. m \in linked /\ m \in Blocks
  BY <1>1 DEF IInv, Linked
<1> QED
  BY <1>1, <1>2 DEF IInv, Valid, Sound, Usable, Fork, Failed

\* The start of a turn.
LEMMA ActivateBestChainInv ==
    ASSUME IInv, NEW t \in Threads, ActivateBestChain(t)
    PROVE  IInv'
<1>1. /\ Free /\ pc[t] = "activate" /\ NoneActivates(t)
      /\ UNCHANGED <<linked, unlinked, failedBlocks, dirty, tip, disk, diskTip>>
  BY DEF ActivateBestChain, IInv, Assumed, stored
<1>2. /\ status' \in [Blocks -> SUBSET Flags] /\ candidates' \subseteq candidates
      /\ \A c \in Blocks : status[c] \cap Lasting \subseteq status'[c]
                           /\ status'[c] \cap Lasting \subseteq status[c]
      /\ \A x \in Blocks : Sound(status, x) => Sound(status', x)
  <2>1. CASE target[t] = None
    <3>1. RemoveRejected
      BY <2>1 DEF ActivateBestChain
    <3> QED
      BY <3>1, RemoveRejectedInv
  <2>2. CASE target[t] # None
    <3>1. UNCHANGED <<status, candidates>>
      BY <2>2 DEF ActivateBestChain
    <3> QED
      BY <3>1 DEF IInv, Types
  <2> QED
    BY <2>1, <2>2
<1>3. Grows /\ NewIsDirty
  BY <1>2 DEF Grows, NewIsDirty
<1>4. Linked'
  BY <1>1, <1>2, <1>3, LinkedKept DEF IInv, Linked
<1>5. Sound(status', tip)
  BY <1>2 DEF IInv, Valid, Types
<1>6. \A u \in Threads \ {t} : target[u] = None
  BY <1>1 DEF NoneActivates
<1>7. /\ pc \in [Threads -> {"idle", "activate", "step", "invalidate"}]
      /\ target \in [Threads -> Blocks \cup {None}]
      /\ \A u \in Threads : lock # u /\ pc[u] \in {"idle", "activate"}
  BY <1>1, ConstantsAssumption DEF IInv, Locking, Free
<1>8. CASE /\ pc' = [pc EXCEPT ![t] = "idle"] /\ target' = [target EXCEPT ![t] = None]
           /\ UNCHANGED <<lock, oldTip>>
  <2>1. \A u \in Threads : target'[u] = None
    BY <1>6, <1>7, <1>8
  <2>2. TargetsSound
    BY <2>1 DEF TargetsSound
  <2>3. Locking'
    BY <1>7, <1>8, <2>1 DEF Locking
  <2> QED
    BY <1>1, <1>2, <1>3, <1>4, <1>5, <1>8, <2>2, <2>3, IndexInv DEF IInv, Types
<1>9. ASSUME NEW m \in (IF target[t] = None THEN FindMostWorkChain ELSE {target[t]}),
             pc' = [pc EXCEPT ![t] = "step"], target' = [target EXCEPT ![t] = m],
             lock' = t, oldTip' = tip
      PROVE  IInv'
  <2>1. m \in linked /\ m \in Blocks /\ Sound(status, m)
    <3>1. CASE target[t] = None
      BY <1>9, <3>1, FoundSound
    <3>2. CASE target[t] # None
      BY <1>1, <1>9, <3>2 DEF IInv, Valid, Linked
    <3> QED
      BY <3>1, <3>2
  <2>2. m # None
    BY <2>1, ConstantsAssumption, Zenon
  <2>3. \A u \in Threads : target'[u] # None => u = t
    BY <1>6, <1>7, <1>9
  <2>4. target'[t] = m /\ pc'[t] = "step"
    BY <1>7, <1>9
  <2>5. TargetsSound
    BY <1>1, <1>2, <2>1, <2>3, <2>4, Zenon DEF TargetsSound
  <2>6. Locking'
    <3>1. pc' \in [Threads -> {"idle", "activate", "step", "invalidate"}]
          /\ target' \in [Threads -> Blocks \cup {None}]
      BY <1>7, <1>9, <2>1
    <3>2. \A u \in Threads : pc'[u] \in {"step", "invalidate"} <=> lock' = u
      BY <1>7, <1>9
    <3>3. \A u \in Threads : u # t => pc'[u] = pc[u] /\ target'[u] = target[u]
      BY <1>7, <1>9
    <3>4. \A u \in Threads : pc'[u] = "idle" => target'[u] = None
      BY <2>4, <3>3 DEF IInv, Locking
    <3> QED
      BY <1>7, <1>9, <2>2, <2>3, <2>4, <3>1, <3>2, <3>3, <3>4 DEF Locking
  <2>7. oldTip' \in Blocks /\ failedBlocks' \subseteq Blocks /\ dirty' \subseteq Blocks
    BY <1>1, <1>9 DEF IInv, Types
  <2> QED
    BY <1>1, <1>2, <1>3, <1>4, <1>5, <2>5, <2>6, <2>7, IndexInv
<1> QED
  BY <1>8, <1>9 DEF ActivateBestChain

\* The end of a step: the thread has no target, or none but the same.
LEMMA EndStepLocking ==
    ASSUME IInv, NEW t \in Threads, pc[t] = "step", NEW m, m \in {None, target[t], tip'},
           EndStep(t, m)
    PROVE  /\ Locking'
           /\ \A u \in Threads : target'[u] # None => u = t /\ target'[u] = m /\ m # tip'
<1>1. /\ lock' = None
      /\ target' = [target EXCEPT ![t] = IF m = tip' THEN None ELSE m]
      /\ pc' = [pc EXCEPT ![t] = IF m = tip' THEN "idle" ELSE "activate"]
  BY DEF EndStep
<1>2. /\ pc \in [Threads -> {"idle", "activate", "step", "invalidate"}]
      /\ target \in [Threads -> Blocks \cup {None}]
      /\ \A u \in Threads : pc[u] \in {"step", "invalidate"} <=> lock = u
      /\ target[t] # None
      /\ \A u \in Threads : target[u] # None => u = t
  BY DEF IInv, Locking
<1>3. \A u \in Threads \ {t} : pc'[u] = pc[u] /\ target'[u] = target[u] /\ target[u] = None
                               /\ pc'[u] \in {"idle", "activate"}
  BY <1>1, <1>2
<1>4. target'[t] = (IF m = tip' THEN None ELSE m) /\ pc'[t] = (IF m = tip' THEN "idle" ELSE "activate")
  BY <1>1, <1>2
<1>5. \A u \in Threads : target'[u] # None => u = t /\ target'[u] = m /\ m # tip'
  <2>1. SUFFICES ASSUME NEW u \in Threads, target'[u] # None
                 PROVE  u = t /\ target'[u] = m /\ m # tip'
    OBVIOUS
  <2>2. u = t
    <3>1. u # t => target'[u] = None
      BY <1>3
    <3> QED
      BY <2>1, <3>1
  <2> QED
    BY <1>4, <2>1, <2>2
<1>6. pc' \in [Threads -> {"idle", "activate", "step", "invalidate"}] /\ target' \in [Threads -> Blocks \cup {None}]
  <2>1. target[t] \in Blocks \cup {None}
    BY <1>2
  <2>2. (IF m = tip' THEN None ELSE m) \in Blocks \cup {None}
    BY <2>1
  <2>3. target' \in [Threads -> Blocks \cup {None}]
    BY <1>1, <1>2, <2>2
  <2>4. pc' \in [Threads -> {"idle", "activate", "step", "invalidate"}]
    BY <1>1, <1>2
  <2> QED
    BY <2>3, <2>4
<1>7. \A u \in Threads : lock' # u
  BY <1>1, ConstantsAssumption
<1> QED
  BY <1>3, <1>4, <1>5, <1>6, <1>7 DEF Locking

\* Disconnecting leaves a shorter chain, which is as valid.
LEMMA DisconnectTipInv ==
    ASSUME IInv, NEW t \in Threads, DisconnectTip(t)
    PROVE  IInv'
<1>1. /\ lock = t /\ tip' = Parent(tip)
      /\ \/ pc[t] = "step" /\ tip \notin Chain[target[t]]
         \/ pc[t] = "invalidate" /\ target[t] \in Chain[tip]
      /\ UNCHANGED <<status, linked, unlinked, failedBlocks, dirty, candidates, disk, diskTip>>
  BY Zenon DEF DisconnectTip, index, stored
<1>2. /\ tip \in Blocks /\ tip \in linked /\ target[t] \in Blocks
      /\ pc[t] = "invalidate" => target[t] # Genesis
  BY <1>1, Zenon DEF IInv, Types, Linked, Locking
<1>3. tip # Genesis
  <2>1. CASE pc[t] = "step"
    BY <1>1, <1>2, <2>1, ChainDef
  <2>2. CASE pc[t] = "invalidate"
    <3>1. Genesis \in Blocks /\ nHeight(Genesis) = 0
      BY ConstantsAssumption DEF nHeight, Genesis
    <3>2. Chain[Genesis] = {GetAncestor(Genesis, h) : h \in 0..0} /\ GetAncestor(Genesis, 0) = Genesis
      BY <3>1, ChainDef, AncestorEnds
    <3>3. \A b \in Chain[Genesis] : b = Genesis
      BY <3>2
    <3> QED
      BY <1>1, <1>2, <2>2, <3>3
  <2> QED
    BY <1>1, <2>1, <2>2, Zenon
<1>4. Parent(tip) \in Blocks /\ Chain[tip] = Chain[Parent(tip)] \cup {tip} /\ Parent(tip) \in Chain[tip]
  BY <1>2, <1>3, ChainParent, ChainDef
<1>5. /\ Locking' /\ oldTip' \in Blocks
      /\ \A u \in Threads : target'[u] # None /\ pc'[u] # "invalidate" =>
             target'[u] = target[u] /\ pc[u] # "invalidate"
  <2>1. CASE pc[t] = "step" /\ tip' = target[t]
    <3>1. EndStep(t, tip')
      BY <2>1, Zenon DEF DisconnectTip
    <3>2. /\ Locking'
          /\ \A u \in Threads : target'[u] # None => u = t /\ target'[u] = tip' /\ tip' # tip'
      BY <2>1, <3>1, EndStepLocking
    <3> QED
      BY <3>1, <3>2 DEF EndStep, IInv, Types
  <2>2. CASE ~(pc[t] = "step" /\ tip' = target[t])
    <3>1. UNCHANGED <<lock, pc, target, oldTip>>
      BY <2>2, Zenon DEF DisconnectTip, threads
    <3> QED
      BY <3>1 DEF IInv, Locking, Types
  <2> QED
    BY <2>1, <2>2, Zenon
<1>6. Types'
  BY <1>1, <1>4, <1>5, Zenon DEF IInv, Types
<1>7. Linked'
  BY <1>1, <1>2, <1>4, Zenon DEF IInv, Linked
<1>8. Connected'
  BY <1>1, <1>4 DEF IInv, Connected
<1>9. Valid'
  <2>1. Sound(status', tip')
    BY <1>1, <1>4, Zenon DEF IInv, Valid, Sound
  <2> QED
    BY <1>1, <1>5, <2>1, Zenon DEF IInv, Valid
<1>10. Durable'
  BY <1>1, Zenon DEF IInv, Durable
<1> QED
  BY <1>5, <1>6, <1>7, <1>8, <1>9, <1>10, Zenon DEF IInv, Assumed

\* The thread within a step, its target, and the block it connects next.
LEMMA InStep ==
    ASSUME IInv, NEW t \in Threads, pc[t] = "step", tip \in Chain[target[t]] \ {target[t]}
    PROVE  LET m == target[t]
               b == GetAncestor(m, nHeight(tip) + 1)
           IN  /\ m \in Blocks /\ m \in linked /\ Sound(status, m)
               /\ b \in Chain[m] /\ b \in Blocks /\ b \in linked /\ ~Failed(b)
               /\ Chain[b] = Chain[tip] \cup {b} /\ b \notin Chain[tip]
<1> DEFINE m == target[t]
           b == GetAncestor(m, nHeight(tip) + 1)
<1>1. m \in Blocks /\ m \in linked /\ Sound(status, m)
  BY Zenon DEF IInv, Locking, Valid
<1>2. b \in Chain[m] /\ Chain[b] = Chain[tip] \cup {b} /\ b \notin Chain[tip]
  BY <1>1, NextBlock
<1> HIDE DEF b, m
<1>3. b \in Blocks
  BY <1>1, <1>2, ChainTrans
<1>4. b \in linked
  BY <1>1, <1>2 DEF IInv, Linked
<1>5. ~Failed(b)
  BY <1>1, <1>2 DEF Sound, Failed
<1> QED
  BY <1>1, <1>2, <1>3, <1>4, <1>5, Zenon DEF b, m

\* Connecting the next block of a chain that has no invalid block.
LEMMA ConnectTipInv ==
    ASSUME IInv, NEW t \in Threads, ConnectTip(t)
    PROVE  IInv'
<1> DEFINE m == target[t]
           b == GetAncestor(m, nHeight(tip) + 1)
<1>1. /\ lock = t /\ pc[t] = "step" /\ tip \in Chain[m] \ {m}
      /\ tip' = b
      /\ status' = IF Failed(b) THEN status ELSE [status EXCEPT ![b] = @ \cup {"scripts"}]
      /\ dirty' = IF "scripts" \in status[b] /\ ~Failed(b) THEN dirty ELSE dirty \cup {b}
      /\ PruneBlockIndexCandidates(candidates, b)
      /\ IF ChainWork[b] > ChainWork[oldTip] \/ b = m
         THEN EndStep(t, m) ELSE UNCHANGED <<lock, pc, target, oldTip>>
      /\ UNCHANGED <<linked, unlinked, failedBlocks, disk, diskTip>>
  BY Zenon DEF ConnectTip, stored, threads
<1>2. /\ m \in Blocks /\ m \in linked /\ Sound(status, m)
      /\ b \in Chain[m] /\ b \in Blocks /\ b \in linked /\ ~Failed(b)
      /\ Chain[b] = Chain[tip] \cup {b}
  BY <1>1, InStep, Zenon
<1>3. /\ Locking' /\ oldTip' \in Blocks
      /\ \A u \in Threads : target'[u] # None /\ pc'[u] # "invalidate" => target'[u] = m
  <2>1. CASE ChainWork[b] > ChainWork[oldTip] \/ b = m
    <3>1. EndStep(t, m)
      BY <1>1, <2>1, Zenon
    <3>2. /\ Locking'
          /\ \A u \in Threads : target'[u] # None => u = t /\ target'[u] = m /\ m # tip'
      BY <1>1, <3>1, EndStepLocking, Zenon
    <3> QED
      BY <3>1, <3>2 DEF EndStep, IInv, Types
  <2>2. CASE ~(ChainWork[b] > ChainWork[oldTip] \/ b = m)
    <3>1. UNCHANGED <<lock, pc, target, oldTip>>
      BY <1>1, <2>2, Zenon
    <3>2. target[t] # None
      BY <1>1, Zenon DEF IInv, Locking
    <3>3. \A u \in Threads : target[u] # None => u = t
      BY <3>2 DEF IInv, Locking
    <3>4. Locking'
      BY <3>1 DEF IInv, Locking
    <3> QED
      BY <3>1, <3>3, <3>4, Zenon DEF IInv, Types
  <2> QED
    BY <2>1, <2>2, Zenon
<1> HIDE DEF b, m
<1>4. status \in [Blocks -> SUBSET Flags] /\ dirty \subseteq Blocks /\ failedBlocks \subseteq Blocks
      /\ diskTip \in Blocks /\ disk \in [Blocks -> SUBSET Flags]
  BY DEF IInv, Types
<1>5. status' = [status EXCEPT ![b] = @ \cup {"scripts"}]
  BY <1>1, <1>2, Zenon
<1>6. status' \in [Blocks -> SUBSET Flags] /\ "scripts" \in status'[b]
  BY <1>2, <1>4, <1>5 DEF Flags
<1>7. Grows /\ NewIsDirty /\ dirty \subseteq dirty' /\ dirty' \subseteq Blocks
  <2>1. Grows
    BY <1>4, <1>5 DEF Grows, Lasting
  <2>2. NewIsDirty
    BY <1>1, <1>2, <1>4, <1>5, Zenon DEF NewIsDirty, Lasting
  <2> QED
    BY <1>1, <1>2, <1>4, <2>1, <2>2, Zenon
<1>8. \A c \in Blocks : FailedIn(status', c) => FailedIn(status, c)
  BY <1>4, <1>5 DEF FailedIn
<1>9. \A x \in Blocks : Sound(status, x) => Sound(status', x)
  BY <1>8, ChainDef DEF Sound
<1>10. Types'
  BY <1>1, <1>2, <1>3, <1>4, <1>6, <1>7, Zenon DEF Types
<1>11. Linked'
  <2>1. candidates' \subseteq linked
    BY <1>1, Zenon DEF PruneBlockIndexCandidates, IInv, Linked
  <2>2. \A c \in Blocks : "data" \in status[c] => "data" \in status'[c]
    BY <1>7 DEF Grows, Lasting
  <2> QED
    BY <1>1, <1>2, <2>1, <2>2, Zenon DEF IInv, Linked
<1>12. Connected'
  <2> SUFFICES ASSUME NEW c \in Chain[b] PROVE "scripts" \in status'[c]
    BY <1>1 DEF Connected
  <2>1. CASE c = b
    BY <1>6, <2>1
  <2>2. CASE c \in Chain[tip]
    <3>1. "scripts" \in status[c] /\ c \in Blocks
      BY <2>2, ChainDef DEF IInv, Connected, Types
    <3> QED
      BY <1>7, <3>1 DEF Grows, Lasting
  <2> QED
    BY <1>2, <2>1, <2>2, Zenon
<1>13. Valid'
  <2>1. Sound(status, b)
    BY <1>2, ChainTrans DEF Sound
  <2>2. Sound(status', tip')
    BY <1>1, <1>2, <1>9, <2>1, Zenon
  <2> QED
    BY <1>1, <1>2, <1>3, <1>9, <2>2, Zenon DEF Valid
<1>14. Durable'
  BY <1>1, <1>7, DurableKept
<1> QED
  BY <1>3, <1>10, <1>11, <1>12, <1>13, <1>14 DEF IInv, Assumed

\* A block that does not connect is marked; nobody moves to its chain.
LEMMA ConnectTipFailsInv ==
    ASSUME IInv, NEW t \in Threads, ConnectTipFails(t)
    PROVE  IInv'
<1> DEFINE m == target[t]
           b == GetAncestor(m, nHeight(tip) + 1)
<1>1. /\ lock = t /\ pc[t] = "step" /\ tip \in Chain[m] \ {m}
      /\ status' = [status EXCEPT ![b] = @ \cup {"failed"}]
      /\ failedBlocks' = failedBlocks \cup {b} /\ dirty' = dirty \cup {b}
      /\ candidates' = candidates \ {b}
      /\ EndStep(t, None)
      /\ UNCHANGED <<linked, unlinked, tip, disk, diskTip>>
  BY Zenon DEF ConnectTipFails, stored
<1>2. b \in Blocks /\ b \notin Chain[tip]
  BY <1>1, InStep, Zenon
<1> HIDE DEF b, m
<1>3. tip \in Blocks /\ status \in [Blocks -> SUBSET Flags] /\ failedBlocks \subseteq Blocks
      /\ dirty \subseteq Blocks /\ oldTip \in Blocks
  BY DEF IInv, Types
<1>4. /\ Locking'
      /\ \A u \in Threads : target'[u] # None => u = t /\ target'[u] = None /\ None # tip'
  BY <1>1, EndStepLocking
<1>5. TargetsSound
  BY <1>4 DEF TargetsSound
<1>6. status' \in [Blocks -> SUBSET Flags] /\ Grows /\ NewIsDirty
  BY <1>1, <1>2, <1>3 DEF Flags, Grows, NewIsDirty, Lasting
<1>7. Linked'
  BY <1>1, <1>6, LinkedKept DEF IInv, Linked
<1>8. Sound(status', tip)
  <2> SUFFICES ASSUME NEW c \in Chain[tip] PROVE ~FailedIn(status', c)
    BY DEF Sound
  <2>1. c \in Blocks /\ c # b
    BY <1>2, <1>3, ChainDef
  <2>2. status'[c] = status[c]
    BY <1>1, <1>3, <2>1, Zenon
  <2> QED
    BY <2>2 DEF IInv, Valid, Sound, FailedIn
<1>9. oldTip' \in Blocks /\ failedBlocks' \subseteq Blocks /\ dirty \subseteq dirty' /\ dirty' \subseteq Blocks
  BY <1>1, <1>2, <1>3 DEF EndStep
<1> QED
  BY <1>1, <1>4, <1>5, <1>6, <1>7, <1>8, <1>9, IndexInv

(***************************************************************************)
(* The operator                                                            *)
(***************************************************************************)
\* An invalidation begins when nobody moves to another chain.
LEMMA StartInvalidateInv ==
    ASSUME IInv, NEW t \in Threads, NEW b \in Blocks, StartInvalidate(t, b)
    PROVE  IInv'
<1>1. /\ Free /\ pc[t] = "idle" /\ b # Genesis /\ NoneActivates(t)
      /\ lock' = t /\ oldTip' = tip
      /\ pc' = [pc EXCEPT ![t] = "invalidate"] /\ target' = [target EXCEPT ![t] = b]
      /\ UNCHANGED <<status, linked, unlinked, failedBlocks, dirty, candidates, tip, disk, diskTip>>
  BY DEF StartInvalidate, Command, Idle, index, stored, IInv, Assumed
<1>2. /\ pc \in [Threads -> {"idle", "activate", "step", "invalidate"}]
      /\ target \in [Threads -> Blocks \cup {None}]
      /\ \A u \in Threads : pc[u] \in {"idle", "activate"}
      /\ \A u \in Threads \ {t} : target[u] = None
  BY <1>1, ConstantsAssumption, Zenon DEF IInv, Locking, Free, NoneActivates
<1>3. \A u \in Threads \ {t} : pc'[u] = pc[u] /\ target'[u] = None
  BY <1>1, <1>2
<1>4. pc'[t] = "invalidate" /\ target'[t] = b /\ b # None
  BY <1>1, <1>2, ConstantsAssumption
<1>5. Locking'
  <2>1. pc' \in [Threads -> {"idle", "activate", "step", "invalidate"}]
        /\ target' \in [Threads -> Blocks \cup {None}]
    BY <1>1, <1>2
  <2> QED
    BY <1>1, <1>2, <1>3, <1>4, <2>1 DEF Locking
<1>6. TargetsSound
  BY <1>3, <1>4 DEF TargetsSound
<1>7. Grows /\ NewIsDirty
  BY <1>1 DEF Grows, NewIsDirty
<1>8. Linked'
  BY <1>1, Zenon DEF IInv, Linked
<1>9. Sound(status', tip)
  BY <1>1 DEF IInv, Valid
<1> QED
  BY <1>1, <1>5, <1>6, <1>7, <1>8, <1>9, IndexInv DEF IInv, Types

\* The blocks that an invalidation marks are not active any more.
LEMMA InvalidateBlockInv ==
    ASSUME IInv, NEW t \in Threads, InvalidateBlock(t)
    PROVE  IInv'
<1> DEFINE b == target[t]
           walk == IF b \in Chain[oldTip] THEN Chain[oldTip] \ Chain[b] ELSE {}
           st == [c \in Blocks |-> status[c] \cup (IF c \in walk THEN {"child"} ELSE {})
                                             \cup (IF c = b THEN {"failed"} ELSE {})]
<1>1. /\ lock = t /\ pc[t] = "invalidate" /\ b \notin Chain[tip]
      /\ status' = st /\ dirty' = dirty \cup walk \cup {b}
      /\ failedBlocks' = failedBlocks \cup {b}
      /\ candidates' = (candidates \ (walk \cup {b}))
                       \cup {c \in linked : ~FailedIn(st, c) /\ ~Worse(c, tip)}
      /\ lock' = None
      /\ pc' = [pc EXCEPT ![t] = "activate"] /\ target' = [target EXCEPT ![t] = None]
      /\ UNCHANGED <<linked, unlinked, tip, disk, diskTip, oldTip>>
  BY Zenon DEF InvalidateBlock, stored
<1>2. /\ tip \in Blocks /\ oldTip \in Blocks /\ status \in [Blocks -> SUBSET Flags]
      /\ dirty \subseteq Blocks /\ failedBlocks \subseteq Blocks
  BY DEF IInv, Types
<1>3. /\ pc \in [Threads -> {"idle", "activate", "step", "invalidate"}]
      /\ target \in [Threads -> Blocks \cup {None}]
      /\ \A u \in Threads : pc[u] \in {"step", "invalidate"} <=> lock = u
      /\ b # None /\ \A u \in Threads : target[u] # None => u = t
  BY <1>1, Zenon DEF IInv, Locking
<1>4. b \in Blocks
  BY <1>3
<1>5. walk \subseteq Blocks /\ Chain[tip] \cap walk = {}
  <2>1. CASE b \in Chain[oldTip]
    <3>1. ASSUME NEW d \in Chain[tip], d \in Chain[oldTip], d \notin Chain[b] PROVE FALSE
      <4>1. b \in Chain[d]
        BY <1>2, <2>1, <3>1, ChainTotal
      <4> QED
        BY <1>1, <1>2, <3>1, <4>1, ChainTrans, Zenon
    <3> QED
      BY <1>2, <2>1, <3>1, ChainDef, Zenon
  <2>2. CASE b \notin Chain[oldTip]
    BY <2>2
  <2> QED
    BY <2>1, <2>2, Zenon
<1> HIDE DEF walk
<1>6. \A c \in Blocks : status'[c] = status[c] \cup (IF c \in walk THEN {"child"} ELSE {})
                                               \cup (IF c = b THEN {"failed"} ELSE {})
  BY <1>1, Zenon
<1>7. status' \in [Blocks -> SUBSET Flags]
  BY <1>1, <1>2, Zenon DEF Flags
<1>8. candidates' \subseteq linked
  BY <1>1, Zenon DEF IInv, Linked
<1> HIDE DEF b, st
<1>9. Grows /\ NewIsDirty
  BY <1>6 DEF Grows, NewIsDirty, Lasting
<1>10. Sound(status', tip)
  <2> SUFFICES ASSUME NEW c \in Chain[tip] PROVE ~FailedIn(status', c)
    BY DEF Sound
  <2>1. c \in Blocks /\ c # b /\ c \notin walk
    BY <1>1, <1>2, <1>5, ChainDef, Zenon
  <2>2. status'[c] = status[c]
    BY <1>6, <2>1, Zenon
  <2> QED
    BY <2>2 DEF IInv, Valid, Sound, FailedIn
<1>11. \A u \in Threads : target'[u] = None
  BY <1>1, <1>3, Zenon
<1>12. Locking'
  <2>1. \A u \in Threads : lock' # u
    BY <1>1, ConstantsAssumption, Zenon
  <2>2. \A u \in Threads : pc'[u] \in {"idle", "activate"}
    BY <1>1, <1>3, Zenon
  <2>3. pc' \in [Threads -> {"idle", "activate", "step", "invalidate"}]
        /\ target' \in [Threads -> Blocks \cup {None}]
    BY <1>1, <1>3, Zenon
  <2> QED
    BY <1>11, <2>1, <2>2, <2>3 DEF Locking
<1>13. TargetsSound
  BY <1>11 DEF TargetsSound
<1>14. Linked'
  BY <1>1, <1>8, <1>9, LinkedKept
<1>15. /\ failedBlocks' \subseteq Blocks /\ dirty \subseteq dirty' /\ dirty' \subseteq Blocks
       /\ oldTip' \in Blocks
  BY <1>1, <1>2, <1>4, <1>5, Zenon
<1> QED
  BY <1>1, <1>7, <1>9, <1>10, <1>12, <1>13, <1>14, <1>15, IndexInv, Zenon

\* Clearing failure flags makes no chain invalid.
LEMMA ResetBlockFailureFlagsInv ==
    ASSUME IInv, NEW t \in Threads, NEW b \in Blocks, ResetBlockFailureFlags(t, b)
    PROVE  IInv'
<1> DEFINE below == {c \in Blocks : b \in Chain[c] /\ Failed(c)}
           all == below \cup {c \in Chain[b] : Failed(c)}
<1>1. /\ Idle(t)
      /\ status' = [c \in Blocks |-> IF c \in all THEN status[c] \ {"failed", "child"} ELSE status[c]]
      /\ dirty' = dirty \cup all
      /\ candidates' = candidates \cup {c \in below \cap linked : Worse(tip, c)}
      /\ failedBlocks' = failedBlocks \ below
      /\ pc' = [pc EXCEPT ![t] = "activate"]
      /\ UNCHANGED <<linked, unlinked, tip, disk, diskTip, lock, target, oldTip>>
  BY Zenon DEF ResetBlockFailureFlags, Command, stored
<1>2. /\ status \in [Blocks -> SUBSET Flags] /\ dirty \subseteq Blocks
      /\ failedBlocks \subseteq Blocks /\ oldTip \in Blocks /\ candidates \subseteq linked
  BY DEF IInv, Types, Linked
<1>3. all \subseteq Blocks
  BY ChainDef
<1> HIDE DEF all, below
<1>4. status' \in [Blocks -> SUBSET Flags] /\ Grows /\ NewIsDirty
  BY <1>1, <1>2 DEF Grows, NewIsDirty, Lasting
<1>5. \A c \in Blocks : FailedIn(status', c) => FailedIn(status, c)
  BY <1>1, <1>2 DEF FailedIn
<1>6. \A x \in Blocks : Sound(status, x) => Sound(status', x)
  BY <1>5, ChainDef, Zenon DEF Sound
<1>7. /\ Locking'
      /\ \A u \in Threads : target'[u] # None /\ pc'[u] # "invalidate" =>
             target'[u] = target[u] /\ pc[u] # "invalidate"
  BY <1>1, TurnsToActivate, Zenon
<1>8. TargetsSound /\ Sound(status', tip)
  BY <1>1, <1>6, <1>7, TargetsKept
<1>9. Linked'
  BY <1>1, <1>2, <1>4, LinkedKept
<1> QED
  BY <1>1, <1>2, <1>3, <1>4, <1>7, <1>8, <1>9, IndexInv

\* A preferred block becomes a candidate only if it is linked.
LEMMA PreciousBlockInv ==
    ASSUME IInv, NEW t \in Threads, NEW b \in Blocks, PreciousBlock(t, b)
    PROVE  IInv'
<1>1. /\ Idle(t) /\ pc' = [pc EXCEPT ![t] = "activate"]
      /\ UNCHANGED <<status, linked, unlinked, failedBlocks, dirty, tip, disk, diskTip, lock, target, oldTip>>
  BY DEF PreciousBlock, Command, stored
<1>2. candidates' \subseteq linked
  <2>1. candidates \subseteq linked
    BY DEF IInv, Linked
  <2>2. CASE Connectable(b)
    <3>1. candidates' \subseteq candidates \cup {b}
      BY <2>2 DEF PreciousBlock
    <3> QED
      BY <2>1, <2>2, <3>1 DEF Connectable
  <2>3. CASE ~Connectable(b)
    <3>1. candidates' \subseteq candidates
      BY <2>3 DEF PreciousBlock
    <3> QED
      BY <2>1, <3>1
  <2> QED
    BY <2>2, <2>3
<1>3. Grows /\ NewIsDirty
  BY <1>1 DEF Grows, NewIsDirty
<1>4. /\ Locking'
      /\ \A u \in Threads : target'[u] # None /\ pc'[u] # "invalidate" =>
             target'[u] = target[u] /\ pc[u] # "invalidate"
  BY <1>1, TurnsToActivate, Zenon
<1>5. TargetsSound /\ Sound(status', tip)
  BY <1>1, <1>4, TargetsKept
<1>6. Linked'
  BY <1>1, <1>2, <1>3, LinkedKept
<1> QED
  BY <1>1, <1>3, <1>4, <1>5, <1>6, IndexInv DEF IInv, Types

(***************************************************************************)
(* Disk, crash and restart                                                 *)
(***************************************************************************)
\* Only what is on disk changes, to what is in memory.
LEMMA FlushInv ==
    ASSUME IInv, disk' = Written, dirty' = {}, diskTip' \in {diskTip, tip},
           UNCHANGED <<status, linked, unlinked, failedBlocks, candidates, tip, lock, pc, target, oldTip>>
    PROVE  IInv'
<1>1. /\ status \in [Blocks -> SUBSET Flags] /\ disk \in [Blocks -> SUBSET Flags]
      /\ tip \in Blocks /\ diskTip \in Blocks
  BY DEF IInv, Types
<1>2. \A b \in Blocks : disk'[b] = IF b \in dirty THEN status[b] ELSE disk[b]
  BY Zenon DEF Written
<1>3. disk' \in [Blocks -> SUBSET Flags]
  BY <1>1 DEF Written
<1>4. /\ \A b \in Chain[diskTip] : Lasting \subseteq disk[b]
      /\ \A b \in Blocks : disk[b] \cap Lasting \subseteq status[b]
      /\ \A b \in Blocks \ dirty : status[b] \cap Lasting \subseteq disk[b]
  BY Zenon DEF IInv, Durable
<1>5. \A b \in Blocks : status[b] \cap Lasting = disk'[b] \cap Lasting
  BY <1>2, <1>4, Zenon
<1>6. \A b \in Chain[diskTip'] : Lasting \subseteq status[b]
  <2>1. CASE diskTip' = diskTip
    BY <1>1, <1>4, <2>1, ChainDef DEF Lasting
  <2>2. CASE diskTip' = tip
    BY <2>2, Zenon DEF IInv, Connected, Linked, Lasting
  <2> QED
    BY <2>1, <2>2
<1>7. \A b \in Chain[diskTip'] : Lasting \subseteq disk'[b]
  BY <1>1, <1>5, <1>6, ChainDef
<1>8. Durable'
  BY <1>5, <1>7, Zenon DEF Durable
<1>9. Types'
  BY <1>1, <1>3 DEF IInv, Types
<1>10. Locking' /\ Linked'
  BY Zenon DEF IInv, Locking, Linked
<1>11. Connected' /\ Valid'
  BY Zenon DEF IInv, Connected, Valid
<1> QED
  BY <1>8, <1>9, <1>10, <1>11 DEF IInv, Assumed

\* The tip that is loaded was connected when it was flushed, and the index
\* on disk marks no block of its chain.
LEMMA RestartInv ==
    ASSUME IInv, NEW t \in Threads, Restart(t)
    PROVE  IInv'
<1> DEFINE known == {b \in Blocks : disk[b] # {}}
           loaded == [b \in Blocks |->
               IF b \in known /\ ~FailedIn(disk, b) /\ \E c \in Chain[b] : FailedIn(disk, c)
               THEN disk[b] \cup {"child"} ELSE disk[b]]
           all == {b \in known : \A c \in Chain[b] : "data" \in disk[c]}
<1>1. /\ Sound(disk, diskTip)
      /\ status' = loaded /\ linked' = all
      /\ unlinked' = {b \in known \ all : "data" \in disk[b]}
      /\ failedBlocks' = {} /\ dirty' = {b \in Blocks : loaded[b] # disk[b]}
      /\ tip' = diskTip /\ candidates' \subseteq all
      /\ lock' = None /\ oldTip' = diskTip
      /\ pc' = [u \in Threads |-> IF u = t THEN "activate" ELSE "idle"]
      /\ target' = [u \in Threads |-> None]
      /\ UNCHANGED <<disk, diskTip>>
  BY Zenon DEF Restart, stored, IInv, Assumed, Sound
<1>2. disk \in [Blocks -> SUBSET Flags] /\ diskTip \in Blocks
      /\ \A b \in Chain[diskTip] : Lasting \subseteq disk[b]
  BY DEF IInv, Types, Durable
<1>3. /\ loaded \in [Blocks -> SUBSET Flags]
      /\ \A b \in Blocks : disk[b] \subseteq loaded[b] /\ loaded[b] \subseteq disk[b] \cup {"child"}
  BY <1>2 DEF Flags
<1>4. \A b \in Chain[diskTip] : b \in Blocks /\ loaded[b] = disk[b]
  <2> SUFFICES ASSUME NEW b \in Chain[diskTip] PROVE b \in Blocks /\ loaded[b] = disk[b]
    OBVIOUS
  <2>1. b \in Blocks /\ Chain[b] \subseteq Chain[diskTip]
    BY <1>2, ChainTrans
  <2>2. ~\E c \in Chain[b] : FailedIn(disk, c)
    BY <1>1, <2>1, Zenon DEF Sound
  <2> QED
    BY <2>1, <2>2
<1>5. diskTip \in all
  <2>1. \A c \in Chain[diskTip] : "data" \in disk[c]
    BY <1>2 DEF Lasting
  <2> QED
    BY <1>2, <2>1, ChainDef, Zenon
<1>6. all \subseteq Blocks /\ known \subseteq Blocks
  OBVIOUS
<1>7. \A b \in all : \A c \in Chain[b] : c \in all /\ "data" \in loaded[c]
  <2> SUFFICES ASSUME NEW b \in all, NEW c \in Chain[b] PROVE c \in all /\ "data" \in loaded[c]
    BY Zenon
  <2>1. b \in Blocks /\ \A d \in Chain[b] : "data" \in disk[d]
    BY Zenon
  <2>2. c \in Blocks /\ Chain[c] \subseteq Chain[b]
    BY <2>1, ChainTrans
  <2>3. "data" \in disk[c] /\ \A d \in Chain[c] : "data" \in disk[d]
    BY <2>1, <2>2
  <2> QED
    BY <1>3, <2>2, <2>3, Zenon
<1>8. \A b \in known \ all : "data" \in disk[b] => "data" \in loaded[b]
  BY <1>3, Zenon
<1> HIDE DEF known, loaded, all
<1>9. Types'
  BY <1>1, <1>2, <1>3, Zenon DEF Types
<1>10. Locking'
  <2>1. \A u \in Threads : lock' # u
    BY <1>1, ConstantsAssumption, Zenon
  <2>2. \A u \in Threads : pc'[u] \in {"idle", "activate"} /\ target'[u] = None
    BY <1>1, Zenon
  <2>3. pc' \in [Threads -> {"idle", "activate", "step", "invalidate"}]
        /\ target' \in [Threads -> Blocks \cup {None}]
    BY <1>1
  <2> QED
    BY <2>1, <2>2, <2>3 DEF Locking
<1>11. Linked'
  BY <1>1, <1>5, <1>6, <1>7, <1>8, Zenon DEF Linked
<1>12. Connected'
  BY <1>1, <1>2, <1>4, Zenon DEF Connected, Lasting
<1>13. Valid'
  <2>1. Sound(status', tip')
    BY <1>1, <1>4 DEF Sound, FailedIn
  <2> QED
    BY <1>1, <2>1, Zenon DEF Valid
<1>14. Durable'
  BY <1>1, <1>2, <1>3, Zenon DEF Durable, Lasting
<1> QED
  BY <1>9, <1>10, <1>11, <1>12, <1>13, <1>14 DEF IInv, Assumed

(***************************************************************************)
(* The theorems                                                            *)
(***************************************************************************)
\* The node starts with the genesis block.
LEMMA InitInv == Assumed /\ Init => IInv
<1> SUFFICES ASSUME Assumed, Init PROVE IInv
  OBVIOUS
<1>1. Genesis \in Blocks /\ nHeight(Genesis) = 0
  BY ConstantsAssumption DEF nHeight, Genesis
<1>2. Chain[Genesis] = {GetAncestor(Genesis, h) : h \in 0..0} /\ GetAncestor(Genesis, 0) = Genesis
  BY <1>1, ChainDef, AncestorEnds
<1>3. \A b \in Chain[Genesis] : b = Genesis
  BY <1>2
<1>4. /\ status \in [Blocks -> SUBSET Flags] /\ status[Genesis] = {"tree", "data", "scripts"}
      /\ disk = status
  BY <1>1 DEF Init, Flags
<1>5. Types
  BY <1>1, <1>4 DEF Init, Types
<1>6. Locking
  BY ConstantsAssumption DEF Init, Locking
<1>7. Linked
  BY <1>1, <1>3, <1>4, Zenon DEF Init, Linked
<1>8. Connected
  BY <1>3, <1>4, Zenon DEF Init, Connected
<1>9. Valid
  <2>1. Sound(status, Genesis)
    BY <1>3, <1>4 DEF Sound, FailedIn
  <2>2. \A t \in Threads : target[t] = None
    BY DEF Init
  <2> QED
    BY <2>1, <2>2 DEF Init, Valid
<1>10. Durable
  <2>1. \A b \in Chain[diskTip] : Lasting \subseteq disk[b]
    BY <1>3, <1>4 DEF Init, Lasting
  <2> QED
    BY <1>4, <2>1 DEF Durable
<1> QED
  BY <1>5, <1>6, <1>7, <1>8, <1>9, <1>10 DEF IInv

\* IInv is an invariant: the active chain and the chain a thread is moving
\* to stay linked and free of marks, in memory and in what a restart loads.
THEOREM ActivationInvariant == Assumed /\ Spec => []IInv
<1>1. IInv /\ [Next]_vars => IInv'
  <2> SUFFICES ASSUME IInv, [Next]_vars PROVE IInv'
    OBVIOUS
  <2>1. CASE UNCHANGED vars
    <3>1. UNCHANGED <<status, linked, unlinked, failedBlocks, dirty, candidates, tip, disk, diskTip,
                      lock, pc, target, oldTip>>
      BY <2>1 DEF vars, index, stored, threads
    <3>2. Types' /\ Durable'
      BY <3>1, Zenon DEF IInv, Types, Durable
    <3>3. Locking' /\ Linked'
      BY <3>1, Zenon DEF IInv, Locking, Linked
    <3>4. Connected' /\ Valid'
      BY <3>1, Zenon DEF IInv, Connected, Valid
    <3> QED
      BY <3>2, <3>3, <3>4 DEF IInv, Assumed
  <2>2. ASSUME NEW b \in Blocks \ {Genesis},
               AcceptBlockHeader(b) \/ RejectBlockHeader(b) \/ DuplicateHeader(b)
        PROVE  IInv'
    BY <2>1, <2>2, AcceptBlockHeaderInv, RejectBlockHeaderInv DEF DuplicateHeader
  <2>3. ASSUME NEW t \in Threads, NEW b \in Blocks, NEW r \in BOOLEAN, ProcessNewBlock(t, b, r)
        PROVE  IInv'
    BY <2>3, ProcessNewBlockInv
  <2>4. ASSUME NEW t \in Threads,
               ActivateBestChain(t) \/ DisconnectTip(t) \/ ConnectTip(t) \/ ConnectTipFails(t)
        PROVE  IInv'
    BY <2>4, ActivateBestChainInv, DisconnectTipInv, ConnectTipInv, ConnectTipFailsInv
  <2>5. ASSUME NEW t \in Threads, NEW b \in Blocks,
               StartInvalidate(t, b) \/ ResetBlockFailureFlags(t, b) \/ PreciousBlock(t, b)
        PROVE  IInv'
    BY <2>5, StartInvalidateInv, ResetBlockFailureFlagsInv, PreciousBlockInv
  <2>6. ASSUME NEW t \in Threads, InvalidateBlock(t) PROVE IInv'
    BY <2>6, InvalidateBlockInv
  <2>7. CASE FlushIndex
    BY <2>7, FlushInv DEF FlushIndex, threads
  <2>8. CASE FlushStateToDisk
    BY <2>8, FlushInv DEF FlushStateToDisk, threads
  <2>9. ASSUME NEW t \in Threads, Restart(t) PROVE IInv'
    BY <2>9, RestartInv
  <2> QED
    BY <2>1, <2>2, <2>3, <2>4, <2>5, <2>6, <2>7, <2>8, <2>9, Zenon DEF Next
<1> QED
  BY <1>1, InitInv, PTL DEF Spec

\* Blocks of the active chain have been connected and are not marked
\* invalid, whatever threads, peers, the operator and crashes do.
THEOREM ActiveChainIsValid == Assumed /\ Spec => []ActiveChainValid
<1>1. IInv => ActiveChainValid
  BY Zenon DEF IInv, Connected, Valid, Sound, ActiveChainValid, Failed
<1> QED
  BY <1>1, ActivationInvariant, PTL
=============================================================================
