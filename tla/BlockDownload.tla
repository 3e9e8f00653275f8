---------------------------- MODULE BlockDownload ----------------------------
(***************************************************************************)
(* Which block is asked of which peer (net/net_processing.cpp): headers    *)
(* from one peer at a time, blocks from several within a moving window,    *)
(* compact blocks, timeouts, stalling and disconnection.                   *)
(*                                                                         *)
(* Two threads act.  ThreadMessageHandler visits the peers in rounds: it   *)
(* handles a message of each and runs SendMessages for it, and lets go of  *)
(* cs_main between the bookkeeping of a received block and                 *)
(* ProcessNewBlock.  ThreadSocketHandler finalizes peers that are to be    *)
(* disconnected, once no round refers to them.                             *)
(*                                                                         *)
(* The blocks are those of one chain, numbered by height, all the peers    *)
(* are preferred and take compact blocks, and none is whitelisted.  Every  *)
(* caller of MarkBlockAsInFlight gives a pindex, so that fValidatedHeaders *)
(* is true and nBlocksInFlightValidHeaders equals nBlocksInFlight.  H is   *)
(* below MIN_BLOCKS_TO_KEEP: no block is too far ahead to be stored.       *)
(***************************************************************************)
EXTENDS Integers, FiniteSets, SequencesExt

CONSTANTS Peers,
          Nobody,       \* no peer
          Prompt,       \* the peers that stay and answer in time
          H,            \* height of the chain
          Window,       \* BLOCK_DOWNLOAD_WINDOW
          MaxInTransit, \* MAX_BLOCKS_IN_TRANSIT_PER_PEER
          MaxConnects   \* bound on the connections of a peer

ASSUME DownloadAssumption ==
    /\ Prompt \subseteq Peers /\ Prompt # {} /\ Nobody \notin Peers
    /\ {H, Window, MaxInTransit, MaxConnects} \subseteq Nat \ {0}

Blocks == 1..H

VARIABLES node,       \* mapNodeState and fDisconnect; up: the peer is in it
          inFlight,   \* mapBlocksInFlight: the peer a block is asked of
          nPeersWithValidatedDownloads, nSyncStarted,
          asked,      \* what each prompt peer has been asked and not sent
          bestHeader, \* the height of pindexBestHeader
          have,       \* the blocks with BLOCK_HAVE_DATA
          loop,       \* the round of ThreadMessageHandler: vNodesCopy, the peers
                      \* it has not come to, and the one it is at
          handling,   \* the block ProcessNewBlock is about to take, see Idle
          connects    \* how often each peer has connected

vars == <<node, inFlight, nPeersWithValidatedDownloads, nSyncStarted, asked,
          bestHeader, have, loop, handling, connects>>

Null == -1
Requests == {"block", "cmpct", "blocktxn", "headers"} \X Blocks

\* nStallingSince and nHeadersSyncTimeout are "off", "on", or "due" when the
\* time has passed; late says the same of nDownloadingSince.  queue is
\* vBlocksInFlight: blocks, with partialBlock or not.
NoState == [up |-> FALSE, fDisconnect |-> FALSE, sync |-> FALSE,
            headersTimer |-> "off", stalling |-> "off", late |-> FALSE,
            best |-> 0, common |-> Null, queue |-> <<>>, nBlocksInFlight |-> 0]

Fresh == [NoState EXCEPT !.up = TRUE]

Idle == [block |-> 0, clear |-> FALSE]

Init == /\ node = [p \in Peers |-> IF p \in Prompt THEN Fresh ELSE NoState]
        /\ inFlight = [b \in Blocks |-> Nobody]
        /\ nPeersWithValidatedDownloads = 0 /\ nSyncStarted = 0
        /\ asked = [p \in Prompt |-> {}]
        /\ bestHeader = 0 /\ have = {} /\ handling = Idle
        /\ loop = [copy |-> {}, todo |-> {}, cur |-> Nobody]
        /\ connects = [p \in Peers |-> IF p \in Prompt THEN MaxConnects ELSE 0]

\* chainActive.Height(): the blocks up to there are connected.
Tip == CHOOSE t \in 0..H : 1..t \subseteq have /\ t + 1 \notin have

Least(a, b) == IF a <= b THEN a ELSE b
Greatest(a, b) == IF a >= b THEN a ELSE b

----------------------------------------------------------------------------
(* The bookkeeping, on a record s of the variables it changes.             *)
State == [node |-> node, inFlight |-> inFlight, nPeers |-> nPeersWithValidatedDownloads,
          nSync |-> nSyncStarted, asked |-> asked]

Become(s) == /\ node' = s.node /\ inFlight' = s.inFlight
             /\ nPeersWithValidatedDownloads' = s.nPeers /\ nSyncStarted' = s.nSync
             /\ asked' = s.asked

\* Mutant: nStallingSince is not reset.
ReceivedKeepsStalling(s, b) ==
    LET p == s.inFlight[b]
    IN  IF p = Nobody THEN s
        ELSE [s EXCEPT !.inFlight[b] = Nobody,
                       !.nPeers = IF s.node[p].nBlocksInFlight = 1 THEN @ - 1 ELSE @,
                       !.node[p].nBlocksInFlight = @ - 1,
                       !.node[p].late = @ /\ Head(s.node[p].queue).block # b,
                       !.node[p].queue = SelectSeq(@, LAMBDA e : e.block # b)]

MarkBlockAsReceived(s, b) ==
    LET p == s.inFlight[b]
    IN  IF p = Nobody THEN s
        ELSE [s EXCEPT !.inFlight[b] = Nobody,
                       !.nPeers = IF s.node[p].nBlocksInFlight = 1 THEN @ - 1 ELSE @,
                       !.node[p].nBlocksInFlight = @ - 1,
                       !.node[p].late = @ /\ Head(s.node[p].queue).block # b,
                       !.node[p].queue = SelectSeq(@, LAMBDA e : e.block # b),
                       !.node[p].stalling = "off"]

\* Mutant: every block counts as a peer with downloads.
CountEachBlock(s, p, b, partial) ==
    IF s.inFlight[b] = p THEN s
    ELSE [s EXCEPT !.inFlight[b] = p, !.nPeers = @ + 1,
                   !.node[p].queue = Append(@, [block |-> b, partial |-> partial]),
                   !.node[p].nBlocksInFlight = @ + 1]

MarkBlockAsInFlight(s, p, b, partial) ==
    LET r     == MarkBlockAsReceived(s, b)
        first == r.node[p].nBlocksInFlight = 0
    IN  IF s.inFlight[b] = p THEN s
        ELSE [r EXCEPT !.inFlight[b] = p,
                       !.nPeers = IF first THEN @ + 1 ELSE @,
                       !.node[p].queue = Append(@, [block |-> b, partial |-> partial]),
                       !.node[p].nBlocksInFlight = @ + 1,
                       !.node[p].late = @ /\ ~first]

Ask(s, p, what) == IF p \in Prompt THEN [s EXCEPT !.asked[p] = @ \cup {what}] ELSE s

\* getdata messages for blocks, in this order, while the peer has room.
RequestAll(s, p, kind, bs) ==
    LET Request(r, b) ==
            IF r.node[p].nBlocksInFlight >= MaxInTransit THEN r
            ELSE Ask(MarkBlockAsInFlight(r, p, b, FALSE), p, <<kind, b>>)
    IN  FoldLeft(Request, s, bs)

Disconnect(s, p) == [s EXCEPT !.node[p].fDisconnect = TRUE]

----------------------------------------------------------------------------
(* SendMessages.                                                           *)
Missing(from, to) == {b \in from..to : b \notin have}
Free(s, S) == {b \in S : s.inFlight[b] = Nobody}
Ascending(S) == SelectSeq([i \in 1..H |-> i], LAMBDA i : i \in S)

\* The walk stops at the first block past the window that could be asked;
\* staller is the peer that holds up the window.
FindNextBlocksToDownload(s, p) ==
    LET n       == s.node[p]
        common  == Least(IF n.common = Null THEN Least(n.best, Tip) ELSE n.common, n.best)
        windowEnd == common + Window
        maxHeight == Least(n.best, windowEnd + 1)
        missing == Missing(common + 1, maxHeight)
        free    == Free(s, missing)
        waitingfor == IF missing = free THEN Nobody ELSE s.inFlight[Min(missing \ free)]
        toFetch == Ascending(free \ {windowEnd + 1})
    IN  IF n.best = 0 \/ n.best < Tip
        THEN [common |-> n.common, vBlocks |-> <<>>, staller |-> Nobody]
        ELSE [common |-> Greatest(common, Least(Tip, maxHeight)),
              vBlocks |-> SubSeq(toFetch, 1, Least(Len(toFetch), MaxInTransit - n.nBlocksInFlight)),
              staller |-> IF toFetch = <<>> /\ windowEnd + 1 \in free /\ waitingfor # p
                          THEN waitingfor ELSE Nobody]

GetBlockData(s, p) ==
    LET found == FindNextBlocksToDownload(s, p)
        r == RequestAll([s EXCEPT !.node[p].common = found.common], p, "block", found.vBlocks)
    IN  IF s.node[p].nBlocksInFlight >= MaxInTransit THEN s
        ELSE IF /\ r.node[p].nBlocksInFlight = 0 /\ found.staller # Nobody
                /\ r.node[found.staller].stalling = "off"
        THEN [r EXCEPT !.node[found.staller].stalling = "on"]
        ELSE r

\* Headers are asked of one peer, until they are close to today's.
StartSync(s, p) ==
    IF s.node[p].sync \/ (s.nSync # 0 /\ bestHeader # H) THEN s
    ELSE Ask([s EXCEPT !.node[p].sync = TRUE, !.node[p].headersTimer = "on", !.nSync = @ + 1],
             p, <<"headers", H>>)

Others(s, p) == {q \in Peers \ {p} : s.node[q].up}

\* Mutant: no timeouts.
NeverGiveUp(s, p) == s

CheckTimeouts(s, p) ==
    LET n == s.node[p]
    IN  IF \/ n.stalling = "due"
           \/ n.queue # <<>> /\ n.late
           \/ /\ n.sync /\ n.headersTimer = "due" /\ bestHeader # H
              /\ s.nSync = 1 /\ Others(s, p) # {}
        THEN Disconnect(s, p)
        ELSE IF n.sync /\ bestHeader = H THEN [s EXCEPT !.node[p].headersTimer = "off"]
        ELSE s

SendMessages(p) ==
    LET s == CheckTimeouts(StartSync(State, p), p)
    IN  /\ loop.cur = p /\ handling = Idle
        /\ loop' = [loop EXCEPT !.cur = Nobody]
        /\ IF node[p].fDisconnect THEN Become(State)
           ELSE Become(IF s.node[p].fDisconnect THEN s ELSE GetBlockData(s, p))
        /\ UNCHANGED <<bestHeader, have, handling, connects>>

----------------------------------------------------------------------------
(* Messages.  A prompt peer sends what it is asked for, the others what    *)
(* they like; none sends a block that fails CheckBlock.                    *)
Live(S) == {p \in S : node[p].up /\ ~node[p].fDisconnect}

NewRound ==
    /\ loop.cur = Nobody /\ Live(loop.todo) = {}
    /\ loop' = [copy |-> Live(Peers), todo |-> Live(Peers), cur |-> Nobody]
    /\ UNCHANGED <<node, inFlight, nPeersWithValidatedDownloads, nSyncStarted, asked, bestHeader,
                   have, handling, connects>>

ProcessMessages(p) ==
    /\ loop.cur = Nobody /\ p \in Live(loop.todo)
    /\ loop' = [loop EXCEPT !.todo = @ \ {p}, !.cur = p]

NoMessage(p) ==
    /\ ProcessMessages(p) /\ Become(State)
    /\ UNCHANGED <<bestHeader, have, handling, connects>>

Sends(p, what) == p \in Prompt => what \in asked[p]

Answered(s, p, what) == IF p \in Prompt THEN [s EXCEPT !.asked[p] = @ \ {what}] ELSE s

\* ProcessHeadersMessage for headers that end at height h.  direct is
\* CanDirectFetch: then what is missing up to h is asked for, from the
\* earliest, unless it is too much.
DirectFetch(s, p, h) ==
    LET free  == Free(s, Missing(Tip + 1, h))
        large == /\ Cardinality(free) > MaxInTransit
                 /\ \/ Cardinality(free) > MaxInTransit + 1
                    \/ Tip + 1 \notin free
        \* the only block in flight is asked for as a compact block
        kind  == IF Free(s, Blocks) = Blocks /\ h - 1 <= Tip THEN "cmpct" ELSE "block"
    IN  IF large \/ h < Tip THEN s ELSE RequestAll(s, p, kind, Ascending(free))

UpdateBlockAvailability(s, p, h) == [s EXCEPT !.node[p].best = Greatest(@, h)]

ProcessHeadersMessage(s, p, h, direct) ==
    LET r == UpdateBlockAvailability(s, p, h)
    IN  IF direct THEN DirectFetch(r, p, h) ELSE r

Headers(p, h, direct) ==
    /\ ProcessMessages(p) /\ Sends(p, <<"headers", h>>)
    /\ Become(ProcessHeadersMessage(Answered(State, p, <<"headers", h>>), p, h, direct))
    /\ bestHeader' = Greatest(bestHeader, h)
    /\ UNCHANGED <<have, handling, connects>>

\* clear: the block is marked as received after ProcessNewBlock.
Handle(b, clear) == handling' = [block |-> b, clear |-> clear]

Block(p, b) ==
    /\ ProcessMessages(p) /\ Sends(p, <<"block", b>>)
    /\ Become(MarkBlockAsReceived(Answered(State, p, <<"block", b>>), b))
    /\ Handle(b, FALSE)
    /\ UNCHANGED <<bestHeader, have, connects>>

IsPartial(s, p, b) == s.inFlight[b] = p /\ \E i \in DOMAIN s.node[p].queue :
                                              s.node[p].queue[i] = [block |-> b, partial |-> TRUE]

\* FillBlock gives status.
Fill(s, p, b, status) ==
    \/ /\ status = "INVALID"
       /\ Become(Disconnect(MarkBlockAsReceived(s, b), p)) /\ UNCHANGED handling
    \/ /\ status = "FAILED"
       /\ Become(Ask(s, p, <<"block", b>>)) /\ UNCHANGED handling
    \/ /\ status = "OK"
       /\ Become(MarkBlockAsReceived(s, b)) /\ Handle(b, FALSE)

Statuses(p) == {"OK", "FAILED"} \cup IF p \in Prompt THEN {} ELSE {"INVALID"}

BlockTxn(p, b, status) ==
    /\ ProcessMessages(p) /\ Sends(p, <<"blocktxn", b>>)
    /\ IF IsPartial(State, p, b) THEN Fill(Answered(State, p, <<"blocktxn", b>>), p, b, status)
       ELSE Become(Answered(State, p, <<"blocktxn", b>>)) /\ UNCHANGED handling
    /\ UNCHANGED <<bestHeader, have, connects>>

\* A compact block: InitData says init[1]; if that is "OK", init[2] is the
\* status of FillBlock, or "missing" when transactions are to be asked for.
InitData(p) == {<<"OK", "missing">>} \cup {<<"OK", status>> : status \in Statuses(p)}
                   \cup {<<status, "none">> : status \in Statuses(p) \ {"OK"}}

AskFor(s, p, what, b) == Become(Ask(s, p, <<what, b>>)) /\ UNCHANGED handling

Reconstruct(s, p, b, init) ==
    LET wasPartial == IsPartial(s, p, b)
        marked == MarkBlockAsInFlight(s, p, b, TRUE)
        r == [marked EXCEPT !.node[p].queue =
                [i \in DOMAIN @ |-> IF @[i].block = b THEN [@[i] EXCEPT !.partial = TRUE] ELSE @[i]]]
    IN  IF wasPartial THEN Become(s) /\ UNCHANGED handling
        ELSE IF init[1] = "INVALID"
        THEN Become(Disconnect(MarkBlockAsReceived(r, b), p)) /\ UNCHANGED handling
        ELSE IF init[1] = "FAILED" THEN AskFor(r, p, "block", b)
        ELSE IF init[2] = "missing" THEN AskFor(r, p, "blocktxn", b)
        ELSE Fill(r, p, b, init[2])

CmpctBlock(p, b, direct, init) ==
    LET answered == Answered(State, p, <<"cmpct", b>>)
        s       == UpdateBlockAvailability(answered, p, b)
        already == s.inFlight[b] # Nobody
        near    == b <= Tip + 2
        room    == ~already /\ s.node[p].nBlocksInFlight < MaxInTransit
    IN  /\ ProcessMessages(p) /\ Sends(p, <<"cmpct", b>>)
        /\ IF b - 1 > bestHeader
           THEN Become(answered) /\ UNCHANGED <<bestHeader, handling>>
           ELSE /\ bestHeader' = Greatest(bestHeader, b)
                /\ IF b \in have \/ ~(already \/ direct)
                   THEN Become(s) /\ UNCHANGED handling
                   ELSE IF near /\ (room \/ s.inFlight[b] = p)
                   THEN Reconstruct(s, p, b, init)
                   \* optimistically, although it is asked of another peer
                   ELSE IF near
                   THEN /\ Become(s)
                        /\ IF init = <<"OK", "OK">>
                           THEN Handle(b, TRUE) ELSE UNCHANGED handling
                   ELSE IF already THEN AskFor(s, p, "block", b)
                   ELSE Become(ProcessHeadersMessage(s, p, b, direct)) /\ UNCHANGED handling
        /\ UNCHANGED <<have, connects>>

\* A block whose parent's header is not known is not accepted.
StoreBlock(s) ==
    LET ok == handling.block - 1 <= bestHeader
    IN  /\ handling # Idle
        /\ Become(s)
        /\ have' = IF ok THEN have \cup {handling.block} ELSE have
        /\ bestHeader' = IF ok THEN Greatest(bestHeader, handling.block) ELSE bestHeader
        /\ handling' = Idle
        /\ UNCHANGED <<loop, connects>>

\* Mutant: the download state is not cleared afterwards.
StoreOnly == StoreBlock(State)

ProcessNewBlock ==
    StoreBlock(IF handling.clear THEN MarkBlockAsReceived(State, handling.block) ELSE State)

----------------------------------------------------------------------------
(* Connections and time.                                                   *)
InitializeNode(p) ==
    /\ ~node[p].up /\ connects[p] < MaxConnects
    /\ node' = [node EXCEPT ![p] = Fresh]
    /\ connects' = [connects EXCEPT ![p] = @ + 1]
    /\ UNCHANGED <<inFlight, nPeersWithValidatedDownloads, nSyncStarted, asked, bestHeader, have, loop, handling>>

\* The peer hangs up, or is evicted.
HangUp(p) ==
    /\ p \notin Prompt /\ node[p].up
    /\ Become(Disconnect(State, p))
    /\ UNCHANGED <<bestHeader, have, loop, handling, connects>>

Finalized(p) ==
    LET blocks == {e.block : e \in Range(node[p].queue)}
    IN  [State EXCEPT !.inFlight = [b \in Blocks |-> IF b \in blocks THEN Nobody ELSE @[b]],
                      !.nPeers = IF node[p].nBlocksInFlight # 0 THEN @ - 1 ELSE @,
                      !.nSync = IF node[p].sync THEN @ - 1 ELSE @,
                      !.node[p] = NoState]

FinalizeNode(p) ==
    /\ node[p].up /\ node[p].fDisconnect /\ p \notin loop.copy
    /\ Become(Finalized(p))
    /\ UNCHANGED <<bestHeader, have, loop, handling, connects>>

\* A prompt peer answers before its timers run out.
TimePasses(p) ==
    /\ p \notin Prompt /\ node[p].up
    /\ \/ /\ node[p].queue # <<>> /\ ~node[p].late
          /\ node' = [node EXCEPT ![p].late = TRUE]
       \/ /\ node[p].stalling = "on"
          /\ node' = [node EXCEPT ![p].stalling = "due"]
       \/ /\ node[p].headersTimer = "on"
          /\ node' = [node EXCEPT ![p].headersTimer = "due"]
    /\ UNCHANGED <<inFlight, nPeersWithValidatedDownloads, nSyncStarted, asked, bestHeader, have, loop, handling, connects>>

Answers(p) ==
    \/ \E direct \in BOOLEAN, h \in Blocks : Headers(p, h, direct)
    \/ \E b \in Blocks : Block(p, b)
    \/ \E b \in Blocks, status \in Statuses(p) : BlockTxn(p, b, status)
    \/ \E b \in Blocks, direct \in BOOLEAN, init \in InitData(p) : CmpctBlock(p, b, direct, init)

Next == \/ NewRound \/ ProcessNewBlock
        \/ \E p \in Peers : \/ SendMessages(p) \/ NoMessage(p) \/ Answers(p)
                            \/ InitializeNode(p) \/ HangUp(p) \/ FinalizeNode(p) \/ TimePasses(p)

\* ThreadMessageHandler always has a step to take: it comes to each peer
\* that stays in round after round.  A prompt peer answers every request,
\* ThreadSocketHandler finalizes, and time passes.
Fairness ==
    /\ \A p \in Prompt : /\ []<>(loop.cur = p) /\ []<>(loop.cur # p)
                         /\ \A what \in Requests : []<>(what \notin asked[p])
    /\ \A p \in Peers \ Prompt : WF_vars(FinalizeNode(p)) /\ WF_vars(TimePasses(p))

Spec == Init /\ [][Next]_vars /\ Fairness

----------------------------------------------------------------------------
Connected == {p \in Peers : node[p].up}

\* Blocks are in flight from connected peers only: FinalizeNode leaves no
\* entry behind that State() would not find.
TypeOK ==
    /\ node \in [Peers -> [up: BOOLEAN, fDisconnect: BOOLEAN, sync: BOOLEAN,
                           headersTimer: {"off", "on", "due"}, stalling: {"off", "on", "due"},
                           late: BOOLEAN, best: 0..H, common: -1..H,
                           queue: Seq([block: Blocks, partial: BOOLEAN]), nBlocksInFlight: Nat]]
    /\ inFlight \in [Blocks -> Connected \cup {Nobody}]
    /\ nPeersWithValidatedDownloads \in Nat /\ nSyncStarted \in Nat
    /\ asked \in [Prompt -> SUBSET Requests]
    /\ bestHeader \in 0..H /\ have \subseteq 1..bestHeader
    /\ handling \in [block: 0..H, clear: BOOLEAN]
    /\ loop \in [copy: SUBSET Connected, todo: SUBSET Connected, cur: Connected \cup {Nobody}]
    /\ connects \in [Peers -> 0..MaxConnects]

\* mapBlocksInFlight, the queues of the peers and the counters agree, and no
\* peer has more than MAX_BLOCKS_IN_TRANSIT_PER_PEER blocks in flight: what
\* FinalizeNode asserts when the last peer leaves, in every state.
InFlightExact ==
    /\ TypeOK
    /\ \A p \in Peers :
          LET queue == node[p].queue
          IN  /\ {b \in Blocks : inFlight[b] = p} = {e.block : e \in Range(queue)}
              /\ \A i, j \in DOMAIN queue : queue[i].block = queue[j].block => i = j
              /\ node[p].nBlocksInFlight = Len(queue)
              /\ Len(queue) <= MaxInTransit
    /\ nPeersWithValidatedDownloads = Cardinality({p \in Peers : node[p].queue # <<>>})
    /\ nSyncStarted = Cardinality({p \in Peers : node[p].sync})

\* A peer that SendMessages would disconnect for stalling still owes a
\* block: nStallingSince never outlives the blocks that held up the window.
StallingJustified == \A p \in Peers : node[p].stalling # "off" => node[p].queue # <<>>

\* A block that is stored, or on its way to ProcessNewBlock, is not in
\* flight, whichever peer it was asked of and whichever sent it.
NoUselessDownload ==
    /\ \A b \in have : inFlight[b] = Nobody
    /\ handling # Idle /\ ~handling.clear => inFlight[handling.block] = Nobody

\* Peers that are silent, slow or leave do not keep the node from
\* downloading the whole chain from one that answers.
AllDownloaded == <>(have = Blocks)
============================================================================
