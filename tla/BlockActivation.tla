-------------------------- MODULE BlockActivation --------------------------
(***************************************************************************)
(* The tree of known blocks and the choice of the active chain: headers    *)
(* and blocks arrive, ActivateBestChain connects and disconnects blocks,   *)
(* the operator invalidates, reconsiders and prefers blocks, the index and *)
(* the tip reach the disk, and the node crashes and loads them again.      *)
(*                                                                         *)
(* cs_main is held over a step of ActivateBestChain and over an operator's *)
(* command, and released between them: threads interleave there.  A block  *)
(* is the path to it from the genesis block.  Nothing is pruned.           *)
(***************************************************************************)
EXTENDS Integers, FiniteSets, Sequences

CONSTANTS
    Threads, Blocks, None,
    ChainWork,                \* nChainWork of each block
    Address,                  \* the order of their MCBlockIndex in memory
    BadContext, BadConnect,   \* blocks that AcceptBlock, ConnectBlock refuse
    MAX_FORK_BACK_BLOCKS, MIN_BLOCKS_TO_KEEP,
    \* Whether one thread at a time activates a chain; whether the operator
    \* also names blocks that are not linked, or descend from an invalid one;
    \* whether crashes come between writing the index and the tip after an
    \* invalidation.
    SerialActivation, AnyCommand, CrashAnytime,
    MaxCommands, MaxCrashes   \* bounds

Genesis == <<>>
Parent(b) == SubSeq(b, 1, Len(b) - 1)
nHeight(b) == Len(b)
GetAncestor(b, h) == SubSeq(b, 1, h)
Chain == [b \in Blocks |-> {GetAncestor(b, h) : h \in 0..nHeight(b)}]

ASSUME ConstantsAssumption ==
    /\ Blocks \subseteq Seq(Nat) /\ Genesis \in Blocks /\ None \notin Blocks \cup Threads
    /\ \A b \in Blocks : \A h \in 0..nHeight(b) : GetAncestor(b, h) \in Blocks
    /\ ChainWork \in [Blocks -> Nat] /\ Address \in [Blocks -> Nat]
    /\ \A b \in Blocks \ {Genesis} : ChainWork[Parent(b)] < ChainWork[b]
    /\ \A a, b \in Blocks : Address[a] = Address[b] => a = b
    /\ Genesis \notin BadContext \cup BadConnect

VARIABLES
    status,       \* nStatus: {} for a block that is not in mapBlockIndex
    linked,       \* blocks with nChainTx # 0
    unlinked,     \* mapBlocksUnlinked, by the second of each pair
    nSequenceId, nBlockSequenceId, nBlockReverseSequenceId, nLastPreciousChainwork,
    candidates,   \* setBlockIndexCandidates
    failedBlocks, \* g_failed_blocks
    minForkBack,  \* g_minForkBackHeight
    tip,          \* chainActive.Tip()
    dirty,        \* setDirtyBlockIndex
    disk,         \* nStatus in the block index database
    diskTip,      \* best block of the coins database
    lock,         \* the thread that holds cs_main between two actions
    pc, target,   \* of each thread: where it is, pindexMostWork or the block it invalidates
    oldTip,       \* pindexOldTip of the step, or invalid_walk_tip
    aborted,      \* an assertion failed
    commands, crashes

index == <<status, linked, unlinked, nSequenceId, nBlockSequenceId, failedBlocks, minForkBack, dirty>>
precious == <<nBlockReverseSequenceId, nLastPreciousChainwork>>
stored == <<disk, diskTip>>
threads == <<lock, pc, target, oldTip>>
bounds == <<commands, crashes>>
vars == <<index, precious, candidates, tip, stored, threads, aborted, bounds>>

Known(b) == status[b] # {}
FailedIn(st, b) == st[b] \cap {"failed", "child"} # {}
Failed(b) == FailedIn(status, b)
\* IsValid(BLOCK_VALID_TRANSACTIONS), and nChainTx # 0.
Connectable(b) == b \in linked /\ ~Failed(b)

\* MCBlockIndexWorkComparator: a sorts before b.
Less(seq, a, b) ==
    \/ ChainWork[a] < ChainWork[b]
    \/ /\ ChainWork[a] = ChainWork[b]
       /\ \/ seq[a] > seq[b]
          \/ seq[a] = seq[b] /\ Address[a] > Address[b]
Worse(a, b) == Less(nSequenceId, a, b)

Running == ~aborted
Free == Running /\ lock = None
Idle(t) == Free /\ pc[t] = "idle"
Command(t) == Idle(t) /\ commands < MaxCommands /\ commands' = commands + 1

Init ==
    /\ status = [b \in Blocks |-> IF b = Genesis THEN {"tree", "data", "scripts"} ELSE {}]
    /\ linked = {Genesis} /\ unlinked = {}
    /\ nSequenceId = [b \in Blocks |-> 0] /\ nBlockSequenceId = 1
    /\ nBlockReverseSequenceId = -1 /\ nLastPreciousChainwork = 0
    /\ candidates = {Genesis} /\ failedBlocks = {} /\ minForkBack = 0
    /\ tip = Genesis /\ dirty = {} /\ disk = status /\ diskTip = Genesis
    /\ lock = None /\ oldTip = Genesis
    /\ pc = [t \in Threads |-> "idle"] /\ target = [t \in Threads |-> None]
    /\ aborted = FALSE /\ commands = 0 /\ crashes = 0

(***************************************************************************)
(* Headers and blocks                                                      *)
(***************************************************************************)
UpdateForkBackHeight(height) ==
    IF height >= minForkBack + MAX_FORK_BACK_BLOCKS /\ height - MAX_FORK_BACK_BLOCKS > minForkBack
    THEN height - MAX_FORK_BACK_BLOCKS ELSE minForkBack

\* The failed blocks an unknown header descends from, as far as they are
\* looked for.
FailedAbove(b) ==
    IF "scripts" \in status[Parent(b)] THEN {} ELSE failedBlocks \cap Chain[Parent(b)]

NewHeader(b) ==
    /\ ~Known(b) /\ Known(Parent(b)) /\ ~Failed(Parent(b))
    /\ FailedAbove(b) = {}
    /\ nHeight(Parent(b)) >= minForkBack

\* The status of b once its header is accepted.
WithHeader(b) == IF Known(b) THEN status ELSE [status EXCEPT ![b] = {"tree"}]
HeaderAccepted(b) == IF Known(b) THEN ~Failed(b) ELSE NewHeader(b)
AddToBlockIndex(b) ==
    minForkBack' = IF Known(b) THEN minForkBack ELSE UpdateForkBackHeight(nHeight(b))

\* AcceptBlockHeader for a header that is new.
AcceptBlockHeader(b) ==
    /\ Free /\ NewHeader(b)
    /\ status' = WithHeader(b)
    /\ AddToBlockIndex(b)
    /\ dirty' = dirty \cup {b}
    /\ UNCHANGED <<linked, unlinked, nSequenceId, nBlockSequenceId, failedBlocks, precious, candidates, tip, stored, threads, aborted, bounds>>

\* AcceptBlockHeader for a header that is known, whether failed or not.
DuplicateHeader(b) == Free /\ Known(b) /\ UNCHANGED vars

\* AcceptBlockHeader for a header below a failed block: the blocks between
\* are marked.
RejectBlockHeader(b) ==
    /\ Free /\ ~Known(b) /\ Known(Parent(b)) /\ ~Failed(Parent(b))
    /\ \E f \in FailedAbove(b) :
         LET walk == Chain[Parent(b)] \ Chain[f] IN
         IF "failed" \in status[f]
         THEN /\ status' = [c \in Blocks |-> IF c \in walk THEN status[c] \cup {"child"} ELSE status[c]]
              /\ dirty' = dirty \cup walk
              /\ UNCHANGED aborted
         ELSE aborted' = TRUE /\ UNCHANGED <<status, dirty>>
    /\ UNCHANGED <<linked, unlinked, nSequenceId, nBlockSequenceId, failedBlocks, minForkBack, precious, candidates, tip, stored, threads, bounds>>

\* The blocks that a received block links: it and those that waited for it.
Links(b) ==
    {c \in Blocks : b \in Chain[c] /\ \A d \in Chain[c] \ Chain[b] : d \in unlinked} \cup {b}

\* The orders in which the queue takes them.
Orders(L) ==
    {o \in [L -> 0..(Cardinality(L) - 1)] :
        \A c, d \in L : c # d =>
            /\ o[c] # o[d]
            /\ nHeight(c) < nHeight(d) => o[c] < o[d]
            /\ {Parent(c), Parent(d)} \subseteq L /\ nHeight(c) = nHeight(d) /\ o[Parent(c)] < o[Parent(d)]
                   => o[c] < o[d]}

\* Mutant: a block whose parent is missing is not remembered.
ReceivedNotQueued(b, st) ==
    /\ status' = [st EXCEPT ![b] = @ \cup {"data"}]
    /\ dirty' = dirty \cup {b}
    /\ IF Parent(b) \in linked
       THEN LET seq == [nSequenceId EXCEPT ![b] = nBlockSequenceId] IN
            /\ linked' = linked \cup {b}
            /\ nSequenceId' = seq
            /\ nBlockSequenceId' = nBlockSequenceId + 1
            /\ candidates' = candidates \cup {c \in {b} : ~Less(seq, c, tip)}
       ELSE UNCHANGED <<linked, nSequenceId, nBlockSequenceId, candidates>>
    /\ UNCHANGED unlinked

ReceivedBlockTransactions(b, st) ==
    /\ status' = [st EXCEPT ![b] = @ \cup {"data"}]
    /\ dirty' = dirty \cup {b}
    /\ IF Parent(b) \in linked
       THEN LET L == Links(b) IN
            \E o \in Orders(L) :
              LET seq == [c \in Blocks |-> IF c \in L THEN nBlockSequenceId + o[c] ELSE nSequenceId[c]] IN
              /\ linked' = linked \cup L
              /\ unlinked' = unlinked \ L
              /\ nSequenceId' = seq
              /\ nBlockSequenceId' = nBlockSequenceId + Cardinality(L)
              /\ candidates' = candidates \cup {c \in L : ~Less(seq, c, tip)}
       ELSE /\ unlinked' = IF FailedIn(st, Parent(b)) THEN unlinked ELSE unlinked \cup {b}
            /\ UNCHANGED <<linked, nSequenceId, nBlockSequenceId, candidates>>

\* AcceptBlock stores only what it asked for, or what may be the next tip.
Wanted(b, requested) ==
    \/ requested
    \/ ChainWork[b] >= ChainWork[tip] /\ nHeight(b) <= nHeight(tip) + MIN_BLOCKS_TO_KEEP

\* ProcessNewBlock up to ActivateBestChain: a block that is not stored is
\* not refused either.
ProcessNewBlock(t, b, requested) ==
    /\ Idle(t) /\ b # Genesis /\ HeaderAccepted(b)
    /\ AddToBlockIndex(b)
    /\ \/ /\ "data" \in status[b] \/ ~Wanted(b, requested)
          /\ status' = WithHeader(b)
          /\ dirty' = IF Known(b) THEN dirty ELSE dirty \cup {b}
          /\ pc' = [pc EXCEPT ![t] = "activate"]
          /\ UNCHANGED <<linked, unlinked, nSequenceId, nBlockSequenceId, candidates>>
       \/ /\ "data" \notin status[b] /\ Wanted(b, requested) /\ b \in BadContext
          /\ status' = [WithHeader(b) EXCEPT ![b] = @ \cup {"failed"}]
          /\ dirty' = dirty \cup {b}
          /\ UNCHANGED <<linked, unlinked, nSequenceId, nBlockSequenceId, candidates, pc>>
       \/ /\ "data" \notin status[b] /\ Wanted(b, requested) /\ b \notin BadContext
          /\ ReceivedBlockTransactions(b, WithHeader(b))
          /\ pc' = [pc EXCEPT ![t] = "activate"]
    /\ UNCHANGED <<failedBlocks, precious, tip, stored, lock, target, oldTip, aborted, bounds>>

(***************************************************************************)
(* ActivateBestChain                                                       *)
(***************************************************************************)
\* The blocks of the chain of c that are not active.
Fork(c) == Chain[c] \ Chain[tip]
\* Mutant: only the candidate itself is looked at.
UsableTipOnly(c) == ~Failed(c)
Usable(c) == \A d \in Fork(c) : ~Failed(d)
\* Mutant: begin() for rbegin().
LeastWork(S) == {c \in S : \A d \in S : d = c \/ Worse(c, d)}
MostWork(S) == {c \in S : \A d \in S : d = c \/ Worse(d, c)}

FindMostWorkChain == MostWork({c \in candidates : Usable(c)})

\* The candidates it meets before: better, but on a failed chain.  What lies
\* above a failed block is marked, though not as dirty.
Rejected == {c \in candidates : ~Usable(c) /\ \A m \in FindMostWorkChain : Worse(m, c)}
AboveFailed(c) == {d \in Fork(c) : \A e \in Fork(c) : Failed(e) => e \in Chain[d] \ {d}}
LastFailed(c) == {d \in Fork(c) : Failed(d) /\ \A e \in Fork(c) : Failed(e) => e \in Chain[d]}
RemoveRejected ==
    LET above == UNION {AboveFailed(c) : c \in Rejected}
    IN  /\ status' = [b \in Blocks |-> IF b \in above THEN status[b] \cup {"child"} ELSE status[b]]
        /\ candidates' = candidates \ (above \cup UNION {LastFailed(c) : c \in Rejected})

NoneActivates(t) == \A u \in Threads \ {t} : target[u] = None

\* The start of a turn of the loop: what it read of an earlier turn it keeps.
ActivateBestChain(t) ==
    /\ Free /\ pc[t] = "activate"
    /\ SerialActivation => NoneActivates(t)
    /\ IF target[t] = None THEN RemoveRejected ELSE UNCHANGED <<status, candidates>>
    /\ LET S == IF target[t] = None THEN FindMostWorkChain ELSE {target[t]} IN
       IF S \subseteq {tip}
       THEN /\ pc' = [pc EXCEPT ![t] = "idle"] /\ target' = [target EXCEPT ![t] = None]
            /\ UNCHANGED <<lock, oldTip>>
       ELSE /\ pc' = [pc EXCEPT ![t] = "step"]
            /\ \E m \in S : target' = [target EXCEPT ![t] = m]
            /\ lock' = t /\ oldTip' = tip
    /\ UNCHANGED <<linked, unlinked, nSequenceId, nBlockSequenceId, failedBlocks, minForkBack, dirty, precious, tip, stored, aborted, bounds>>

\* The end of a step; the turn ends the loop when the tip is the target.
EndStep(t, m) ==
    /\ lock' = None
    /\ target' = [target EXCEPT ![t] = IF m = tip' THEN None ELSE m]
    /\ pc' = [pc EXCEPT ![t] = IF m = tip' THEN "idle" ELSE "activate"]
    /\ UNCHANGED oldTip

\* Of a step towards another chain, which ends at an ancestor of the tip, or
\* of an invalidation.
DisconnectTip(t) ==
    /\ Running /\ lock = t
    /\ \/ pc[t] = "step" /\ tip \notin Chain[target[t]]
       \/ pc[t] = "invalidate" /\ target[t] \in Chain[tip]
    /\ tip' = Parent(tip)
    /\ IF pc[t] = "step" /\ tip' = target[t] THEN EndStep(t, tip') ELSE UNCHANGED threads
    /\ UNCHANGED <<index, precious, candidates, stored, aborted, bounds>>

\* Mutant: the tip itself is pruned too.
PruneWithTip(S, newTip) ==
    /\ candidates' = {c \in S : Worse(newTip, c)}
    /\ aborted' = (candidates' = {})

\* Of the candidates, those that are not worse than the tip; the assertion
\* that some are left.
PruneBlockIndexCandidates(S, newTip) ==
    /\ candidates' = {c \in S : ~Worse(c, newTip)}
    /\ aborted' = (candidates' = {})

ConnectTip(t) ==
    LET b == GetAncestor(target[t], nHeight(tip) + 1) IN
    /\ Running /\ lock = t /\ pc[t] = "step" /\ tip \in Chain[target[t]] \ {target[t]}
    /\ b \notin BadConnect
    /\ tip' = b
    /\ status' = IF Failed(b) THEN status ELSE [status EXCEPT ![b] = @ \cup {"scripts"}]
    /\ dirty' = IF "scripts" \in status[b] /\ ~Failed(b) THEN dirty ELSE dirty \cup {b}
    /\ PruneBlockIndexCandidates(candidates, b)
    /\ IF ChainWork[b] > ChainWork[oldTip] \/ b = target[t]
       THEN EndStep(t, target[t]) ELSE UNCHANGED threads
    /\ UNCHANGED <<linked, unlinked, nSequenceId, nBlockSequenceId, failedBlocks, minForkBack, precious, stored, bounds>>

\* ConnectBlock fails: InvalidBlockFound, and pindexMostWork is forgotten.
ConnectTipFails(t) ==
    LET b == GetAncestor(target[t], nHeight(tip) + 1) IN
    /\ Running /\ lock = t /\ pc[t] = "step" /\ tip \in Chain[target[t]] \ {target[t]}
    /\ b \in BadConnect
    /\ status' = [status EXCEPT ![b] = @ \cup {"failed"}]
    /\ failedBlocks' = failedBlocks \cup {b}
    /\ dirty' = dirty \cup {b}
    /\ candidates' = candidates \ {b}
    /\ UNCHANGED tip
    /\ EndStep(t, None)
    /\ UNCHANGED <<linked, unlinked, nSequenceId, nBlockSequenceId, minForkBack, precious, stored, aborted, bounds>>

(***************************************************************************)
(* The operator                                                            *)
(***************************************************************************)
Named(b) == Known(b) /\ (AnyCommand \/ (b \in linked /\ \A c \in Chain[b] \ {b} : ~Failed(c)))

StartInvalidate(t, b) ==
    /\ Command(t) /\ b # Genesis /\ Named(b)
    /\ SerialActivation => NoneActivates(t)
    /\ lock' = t /\ oldTip' = tip
    /\ pc' = [pc EXCEPT ![t] = "invalidate"] /\ target' = [target EXCEPT ![t] = b]
    /\ UNCHANGED <<index, precious, candidates, tip, stored, aborted, crashes>>

\* InvalidateBlock, once the block is not active.
InvalidateBlock(t) ==
    LET b == target[t]
        walk == IF b \in Chain[oldTip] THEN Chain[oldTip] \ Chain[b] ELSE {}
        st == [c \in Blocks |-> status[c] \cup (IF c \in walk THEN {"child"} ELSE {})
                                          \cup (IF c = b THEN {"failed"} ELSE {})]
    IN
    /\ Running /\ lock = t /\ pc[t] = "invalidate" /\ b \notin Chain[tip]
    /\ status' = st
    /\ dirty' = dirty \cup walk \cup {b}
    /\ failedBlocks' = failedBlocks \cup {b}
    /\ candidates' = (candidates \ (walk \cup {b}))
                     \cup {c \in linked : ~FailedIn(st, c) /\ ~Worse(c, tip)}
    /\ lock' = None
    /\ pc' = [pc EXCEPT ![t] = "activate"] /\ target' = [target EXCEPT ![t] = None]
    /\ UNCHANGED <<linked, unlinked, nSequenceId, nBlockSequenceId, minForkBack, precious, tip, stored, oldTip, aborted, bounds>>

\* The flags of the block, its descendants and its ancestors.
ResetBlockFailureFlags(t, b) ==
    LET below == {c \in Blocks : b \in Chain[c] /\ Failed(c)}
        all == below \cup {c \in Chain[b] : Failed(c)}
    IN
    /\ Command(t) /\ Named(b)
    /\ status' = [c \in Blocks |-> IF c \in all THEN status[c] \ {"failed", "child"} ELSE status[c]]
    /\ dirty' = dirty \cup all
    /\ candidates' = candidates \cup {c \in below \cap linked : Worse(tip, c)}
    /\ failedBlocks' = failedBlocks \ below
    /\ pc' = [pc EXCEPT ![t] = "activate"]
    /\ UNCHANGED <<linked, unlinked, nSequenceId, nBlockSequenceId, minForkBack, precious, tip, stored, lock, target, oldTip, aborted, crashes>>

PreciousBlock(t, b) ==
    LET id == IF ChainWork[tip] > nLastPreciousChainwork THEN -1 ELSE nBlockReverseSequenceId
        seq == [nSequenceId EXCEPT ![b] = id]
    IN
    /\ Command(t) /\ Known(b) /\ ChainWork[b] >= ChainWork[tip]
    /\ nLastPreciousChainwork' = ChainWork[tip]
    /\ nBlockReverseSequenceId' = id - 1
    /\ nSequenceId' = seq
    /\ IF Connectable(b)
       THEN /\ candidates' = {c \in candidates \cup {b} : ~Less(seq, c, tip)}
            /\ aborted' = (candidates' = {})
       ELSE candidates' = candidates \ {b} /\ UNCHANGED aborted
    /\ pc' = [pc EXCEPT ![t] = "activate"]
    /\ UNCHANGED <<status, linked, unlinked, nBlockSequenceId, failedBlocks, minForkBack, dirty, tip, stored, lock, target, oldTip, crashes>>

(***************************************************************************)
(* Disk, crash and restart                                                 *)
(***************************************************************************)
Written == [b \in Blocks |-> IF b \in dirty THEN status[b] ELSE disk[b]]

\* FlushStateToDisk that writes the index only, and that also flushes the
\* coins.  After the last crash nothing reads what they write.
FlushIndex ==
    /\ Free /\ crashes < MaxCrashes /\ dirty # {}
    /\ disk' = Written /\ dirty' = {}
    /\ UNCHANGED <<status, linked, unlinked, nSequenceId, nBlockSequenceId, failedBlocks, minForkBack, precious, candidates, tip, diskTip, threads, aborted, bounds>>

FlushStateToDisk ==
    /\ Running /\ crashes < MaxCrashes /\ (dirty # {} \/ diskTip # tip)
    /\ disk' = Written /\ dirty' = {} /\ diskTip' = tip
    /\ UNCHANGED <<status, linked, unlinked, nSequenceId, nBlockSequenceId, failedBlocks, minForkBack, precious, candidates, tip, threads, aborted, bounds>>

\* LoadBlockIndexDB, LoadChainTip, and ActivateBestChain in ThreadImport.
\* InsertBlockIndex calls UpdateForkBackHeight before nHeight is set.
Restart(t) ==
    LET known == {b \in Blocks : disk[b] # {}}
        loaded == [b \in Blocks |->
            IF b \in known /\ ~FailedIn(disk, b) /\ \E c \in Chain[b] : FailedIn(disk, c)
            THEN disk[b] \cup {"child"} ELSE disk[b]]
        all == {b \in known : \A c \in Chain[b] : "data" \in disk[c]}
        zero == [b \in Blocks |-> 0]
    IN
    /\ Running /\ crashes < MaxCrashes /\ crashes' = crashes + 1
    /\ CrashAnytime \/ \A c \in Chain[diskTip] : ~FailedIn(disk, c)
    /\ status' = loaded
    /\ linked' = all
    /\ unlinked' = {b \in known \ all : "data" \in disk[b]}
    /\ nSequenceId' = zero /\ nBlockSequenceId' = 1
    /\ nBlockReverseSequenceId' = -1 /\ nLastPreciousChainwork' = 0
    /\ failedBlocks' = {} /\ minForkBack' = 0
    /\ dirty' = {b \in Blocks : loaded[b] # disk[b]}
    /\ tip' = diskTip
    /\ candidates' = {b \in all : ~FailedIn(loaded, b) /\ ~Less(zero, b, diskTip)}
    /\ aborted' = (candidates' = {})
    /\ lock' = None /\ oldTip' = diskTip
    /\ pc' = [u \in Threads |-> IF u = t THEN "activate" ELSE "idle"]
    /\ target' = [u \in Threads |-> None]
    /\ UNCHANGED <<stored, commands>>

Next ==
    \/ \E b \in Blocks \ {Genesis} : AcceptBlockHeader(b) \/ RejectBlockHeader(b) \/ DuplicateHeader(b)
    \/ \E t \in Threads, b \in Blocks, r \in BOOLEAN : ProcessNewBlock(t, b, r)
    \/ \E t \in Threads : ActivateBestChain(t) \/ DisconnectTip(t) \/ ConnectTip(t) \/ ConnectTipFails(t)
    \/ \E t \in Threads, b \in Blocks : StartInvalidate(t, b) \/ ResetBlockFailureFlags(t, b) \/ PreciousBlock(t, b)
    \/ \E t \in Threads : InvalidateBlock(t)
    \/ FlushIndex
    \/ FlushStateToDisk
    \/ \E t \in Threads : Restart(t)

Spec == Init /\ [][Next]_vars

(***************************************************************************)
(* Properties                                                              *)
(***************************************************************************)
\* The types, and that only the holder of cs_main is within a step.
TypeOK ==
    /\ status \in [Blocks -> SUBSET {"tree", "data", "scripts", "failed", "child"}]
    /\ linked \subseteq Blocks /\ unlinked \subseteq Blocks /\ candidates \subseteq Blocks
    /\ nSequenceId \in [Blocks -> Int]
    /\ failedBlocks \subseteq Blocks /\ dirty \subseteq Blocks
    /\ tip \in Blocks /\ diskTip \in Blocks
    /\ \A t \in Threads : pc[t] \in {"step", "invalidate"} <=> lock = t

\* No thread is activating a chain.
Quiet == Running /\ \A t \in Threads : pc[t] = "idle"

Invalid(b) == \E c \in Chain[b] : "failed" \in status[c]

\* No assertion of PruneBlockIndexCandidates and AcceptBlockHeader fails.
AssertionsHold == ~aborted

\* What CheckBlockIndex asserts, when no thread is between two steps: after a
\* fork that did not connect, the tip is no candidate until the next step.
CheckBlockIndex ==
    TypeOK /\ (Quiet => \A b \in Blocks : Known(b) =>
        /\ b \in linked <=> \A c \in Chain[b] : "data" \in status[c]
        /\ b \notin linked => nSequenceId[b] <= 0
        /\ "scripts" \in status[b] => \A c \in Chain[b] : "scripts" \in status[c]
        /\ Failed(b) => Invalid(b)
        /\ IF b \notin linked \/ Worse(b, tip) THEN b \notin candidates
           ELSE Invalid(b) \/ b \in candidates
        /\ "data" \in status[b] /\ b \notin linked /\ ~Invalid(b) => b \in unlinked
        /\ b \in linked \/ "data" \notin status[b] => b \notin unlinked)

\* When ActivateBestChain has returned in every thread, no chain whose blocks
\* are all there and not known to be invalid is better than the active one.
BestChainActive ==
    Quiet => \A b \in linked : Worse(tip, b) => Invalid(b)

\* Blocks of the active chain have been connected and are not invalid, while
\* no thread holds cs_main.
ActiveChainValid ==
    Free => \A b \in Chain[tip] : "scripts" \in status[b] /\ ~Failed(b)
=============================================================================
