-------------------------- MODULE MultiContractVM --------------------------
(***************************************************************************)
(* The contracts of a block executed by a pool of threads                  *)
(* (MultiContractVM).  The transactions of the block come in groups; a     *)
(* thread takes a group at a time from the queue of the pool and executes  *)
(* its transactions in order in the virtual machine of the thread, whose   *)
(* data it keeps until the next block.  CheckCross then decides whether    *)
(* the groups were independent and merges the data.                        *)
(*                                                                         *)
(* The block is one a miner has just made from a template (Grouping), or   *)
(* one that comes from elsewhere.  It is the sequence of its transactions  *)
(* and, for groupSize, the positions at which its groups end.              *)
(*                                                                         *)
(* The data of a contract is the sequence of the transactions that made    *)
(* it, so that every order of execution shows.                             *)
(***************************************************************************)
EXTENDS Grouping

CONSTANTS
    Threads,      \* the threads of the pool
    Contracts,
    Base,         \* the data of the contracts at the previous block
    Absent,       \* a contract that does not exist; an entry a map lacks
    Blocks,       \* blocks from elsewhere
    Templates     \* what a miner makes blocks from

\* Of a plain transaction, address, calls and ends mean nothing.
Tx == [id : STRING, kind : {"plain", "call", "publish"}, address : Contracts,
       calls : Seq(Contracts), ends : {"ok", "false", "throw"}, inputs : SUBSET STRING]

Values == Seq(STRING)
Maps == [Contracts -> Values \cup {Absent}]
Machines == [data : Maps, cache : Maps]

\* Groups may be empty.
CheckBlockGroupSize(b) ==
    LET n == Len(b.groupEnd) IN
    /\ n \in 1..MaxGroups
    /\ \A g, h \in 1..n : g <= h => b.groupEnd[g] <= b.groupEnd[h]
    /\ b.groupEnd[n] = Len(b.vtx) /\ Len(b.vtx) > 0

\* A template as a block of one group.
OneGroup(template) == [vtx |-> template, groupEnd |-> <<Len(template)>>]

Mined == {GroupingTransaction(t) : t \in Templates}
AllBlocks == Blocks \cup Mined \cup {OneGroup(t) : t \in Templates}

ASSUME BaseAssumption == Absent \notin Values \cup Threads /\ Base \in Maps

ASSUME TemplatesAssumption ==
    \A t \in Templates : t \in Seq(Tx) /\ Len(t) \in 1..MaxGroupSize /\ t[1].kind = "plain"

\* ConnectBlock refuses a block that does not pass CheckBlockGroupSize; that
\* GroupingTransaction makes one that does, its assertions say.
ASSUME BlocksAssumption ==
    \A b \in Blocks \cup Mined :
        b.vtx \in Seq(Tx) /\ b.groupEnd \in Seq(Nat) /\ CheckBlockGroupSize(b)

VARIABLES
    block,       \* the block being executed
    template,    \* what it was made from, if this node made it
    pc,          \* idle, executing, checked
    next,        \* the next group in the queue of threadPool
    vm,          \* per thread: data and cache
    task,        \* per thread: the positions left of its group, if any
    interrupt,
    outs,        \* vmOuts: txFinalData of each transaction
    result,      \* what Execute and CheckCross returned, and finalData
    by, caught   \* history: who took a transaction; was an exception caught

vars == <<block, template, pc, next, vm, task, interrupt, outs, result, by, caught>>

Empty == [c \in Contracts |-> Absent]
Overlay(f, g) == [c \in Contracts |-> IF f[c] # Absent THEN f[c] ELSE g[c]]
NewVM == [data |-> Empty, cache |-> Empty]
NoResult == [executed |-> FALSE, independent |-> FALSE, data |-> Empty]

Groups(b) == DOMAIN b.groupEnd
Offset(b, g) == IF g = 1 THEN 0 ELSE b.groupEnd[g - 1]
Group(b, g) == (Offset(b, g) + 1)..b.groupEnd[g]

(***************************************************************************)
(* ContractVM::ExecuteContract                                             *)
(***************************************************************************)
\* GetContractContext: cache, data of the thread, then the database.
GetContractContext(m, c) == Overlay(m.cache, Overlay(m.data, Base))[c]

\* A frame that returns sets the data of its contract.  A call of a contract
\* that does not exist, or a publication of one that does, throws.
Frame(acc, tx, c) ==
    LET old == GetContractContext(acc.vm, c)
        new == IF old = Absent THEN <<tx.id>> ELSE Append(old, tx.id)
    IN  IF acc.ret # "ok" THEN acc
        ELSE IF (old = Absent) # (tx.kind = "publish") THEN [acc EXCEPT !.ret = "throw"]
        ELSE [acc EXCEPT !.vm.cache[c] = new, !.out[c] = new]

\* The contracts tx calls return before the one it is sent to; after them tx
\* may end in a Lua error or, as by a send without coins, in an exception.
Frames(tx) == IF tx.ends = "ok" THEN Append(tx.calls, tx.address) ELSE tx.calls

ExecuteContract(m, tx) ==
    LET start == [vm |-> [m EXCEPT !.cache = Empty], out |-> Empty, ret |-> "ok"]
        r == Iterate(LAMBDA acc, i : Frame(acc, tx, Frames(tx)[i]), start, Len(Frames(tx)))
    IN  IF tx.kind = "plain" THEN [start EXCEPT !.vm = m]
        ELSE IF r.ret = "ok" THEN [r EXCEPT !.ret = tx.ends]
        ELSE r

CommitData(m) == [data |-> Overlay(m.cache, m.data), cache |-> Empty]

(***************************************************************************)
(* CheckCross                                                              *)
(***************************************************************************)
Dependencies(b, g) == UNION {{b.vtx[k].id} \cup b.vtx[k].inputs : k \in Group(b, g)}

TxCross(b) ==
    \E g, h \in Groups(b) : g # h /\ Dependencies(b, g) \cap Dependencies(b, h) # {}

ContractCross ==
    \E s, t \in Threads, c \in Contracts :
        s # t /\ vm[s].data[c] # Absent /\ vm[t].data[c] # Absent

\* Mutant: the data of threads that wrote the same contract is merged.
CheckCrossTxOnly == ~TxCross(block)

\* Mutant: the data of a thread is compared with itself too.
CheckCrossSelf ==
    ~TxCross(block) /\ \A t \in Threads, c \in Contracts : vm[t].data[c] = Absent

CheckCross == ~TxCross(block) /\ ~ContractCross

\* finalData, which the callers use when no contract is in two machines.
FinalData ==
    [c \in Contracts |->
        IF \E t \in Threads : vm[t].data[c] # Absent
        THEN vm[CHOOSE t \in Threads : vm[t].data[c] # Absent].data[c]
        ELSE Absent]

(***************************************************************************)
(* The actions                                                             *)
(***************************************************************************)
Init ==
    /\ block \in Blocks
    /\ template = <<>>
    /\ pc = "idle"
    /\ next = 1
    /\ vm = [t \in Threads |-> NewVM]
    /\ task = [t \in Threads |-> {}]
    /\ interrupt = FALSE
    /\ outs = [k \in DOMAIN block.vtx |-> Empty]
    /\ result = NoResult
    /\ by = [k \in DOMAIN block.vtx |-> Absent]
    /\ caught = FALSE

ClearData == [t \in Threads |-> NewVM]

Execute(b, t) ==
    /\ pc # "executing"
    /\ block' = b
    /\ template' = t
    /\ pc' = "executing"
    /\ next' = 1
    /\ vm' = ClearData
    /\ interrupt' = FALSE
    /\ outs' = [k \in DOMAIN b.vtx |-> Empty]
    /\ result' = NoResult
    /\ by' = [k \in DOMAIN b.vtx |-> Absent]
    /\ caught' = FALSE
    /\ UNCHANGED task

\* CreateNewBlock executes the block it has made, and so does ConnectBlock.
Mine(t) == Execute(GroupingTransaction(t), t)

\* A thread takes the next group of the queue.
Take(t) ==
    /\ pc = "executing"
    /\ task[t] = {}
    /\ next \in Groups(block)
    /\ task' = [task EXCEPT ![t] = Group(block, next)]
    /\ by' = [k \in DOMAIN by |-> IF k \in Group(block, next) THEN t ELSE by[k]]
    /\ next' = next + 1
    /\ UNCHANGED <<block, template, pc, vm, interrupt, outs, result, caught>>

\* Mutant: a failed transaction only ends its group.
StopQuietly(t) == UNCHANGED interrupt

Stop(t) == interrupt' = TRUE

\* Mutant: a thread that sees interrupt does not return.
DropSpin(t) == UNCHANGED task

Drop(t) == task' = [task EXCEPT ![t] = {}]

\* One transaction of DoExecute.  An exception ends the group without
\* setting interrupt; the cache keeps what the transaction had written.
DoExecute(t) ==
    \E k \in task[t] :
        LET r == ExecuteContract(vm[t], block.vtx[k]) IN
        /\ \A j \in task[t] : k <= j
        /\ IF interrupt
           THEN Drop(t) /\ UNCHANGED <<vm, interrupt, outs, caught>>
           ELSE /\ outs' = [outs EXCEPT ![k] = r.out]
                /\ vm' = [vm EXCEPT ![t] = IF r.ret = "ok" THEN CommitData(r.vm) ELSE r.vm]
                /\ task' = [task EXCEPT ![t] = IF r.ret = "ok" THEN @ \ {k} ELSE {}]
                /\ IF r.ret = "false" THEN Stop(t) ELSE UNCHANGED interrupt
                /\ caught' = (caught \/ r.ret = "throw")
        /\ UNCHANGED <<block, template, pc, next, result, by>>

\* threadPool.wait, then CheckCross.
Wait ==
    /\ pc = "executing"
    /\ next \notin Groups(block)
    /\ \A t \in Threads : task[t] = {}
    /\ pc' = "checked"
    /\ result' = [executed |-> ~interrupt, independent |-> CheckCross, data |-> FinalData]
    /\ UNCHANGED <<block, template, next, vm, task, interrupt, outs, by, caught>>

Next ==
    \/ \E b \in Blocks : Execute(b, <<>>)
    \/ \E t \in Templates : Mine(t)
    \/ \E t \in Threads : Take(t)
    \/ \E t \in Threads : DoExecute(t)
    \/ Wait

\* Some thread of the pool that can go on does, and the caller of Execute
\* waits for them.
Fairness == WF_vars((\E t \in Threads : Take(t) \/ DoExecute(t)) \/ Wait)

Spec == Init /\ [][Next]_vars /\ Fairness

(***************************************************************************)
(* The reference: one machine, the groups one after the other              *)
(***************************************************************************)
SequentialTx(acc, b, k) ==
    LET r == ExecuteContract(acc.vm, b.vtx[k]) IN
    IF acc.ret # "ok" THEN acc
    ELSE [vm   |-> IF r.ret = "ok" THEN CommitData(r.vm) ELSE [acc.vm EXCEPT !.cache = Empty],
          outs |-> [acc.outs EXCEPT ![k] = r.out],
          ret  |-> r.ret]

sequential[b \in AllBlocks] ==
    LET start == [vm |-> NewVM, outs |-> [k \in DOMAIN b.vtx |-> Empty], ret |-> "ok"]
    IN  Iterate(LAMBDA acc, k : SequentialTx(acc, b, k), start, Len(b.vtx))

(***************************************************************************)
(* Properties                                                              *)
(***************************************************************************)
\* The types; a thread holds positions of groups that were taken.
TypeOK ==
    /\ block \in Blocks \cup Mined
    /\ template \in Templates \cup {<<>>}
    /\ pc \in {"idle", "executing", "checked"}
    /\ next \in 1..(Len(block.groupEnd) + 1)
    /\ vm \in [Threads -> Machines]
    /\ task \in [Threads -> SUBSET (1..Offset(block, next))]
    /\ outs \in [DOMAIN block.vtx -> Maps]
    /\ result \in [executed : BOOLEAN, independent : BOOLEAN, data : Maps]
    /\ by \in [DOMAIN block.vtx -> Threads \cup {Absent}]
    /\ interrupt \in BOOLEAN /\ caught \in BOOLEAN

\* Whatever thread executed which group, a block whose contracts Execute and
\* CheckCross accept leaves the data, and gives each transaction the result,
\* that its transactions have in the order of the block, unless DoExecute
\* has caught an exception; no transaction is executed by two threads.
Serializable ==
    /\ TypeOK /\ \A s, t \in Threads : s # t => task[s] \cap task[t] = {}
    /\ pc = "checked" /\ result.executed /\ result.independent /\ ~caught =>
           /\ result.data = sequential[block].vm.data
           /\ outs = sequential[block].outs

\* A block is refused by Execute only if a transaction fails in the order of
\* the block; one that is accepted without an exception has none that fails.
ExecutedIffValid ==
    pc = "checked" =>
        /\ ~result.executed => sequential[block].ret # "ok"
        /\ result.executed /\ result.independent /\ ~caught => sequential[block].ret = "ok"

\* The contracts that the transactions of a group have written.
Written(g) == {c \in Contracts : \E k \in Group(block, g) : outs[k][c] # Absent}

\* Groups that share neither a contract nor a transaction pass CheckCross,
\* also after a failure: nothing is left of an earlier block.
IndependentAccepted ==
    pc = "checked" /\ ~TxCross(block)
      /\ (\A g, h \in Groups(block) : g # h => Written(g) \cap Written(h) = {})
        => result.independent

\* CheckCross refuses a block two groups of which use the same contract
\* ("check if group have contractid cross").
CrossDetected ==
    pc = "checked" /\ result.executed
      /\ (\E g, h \in Groups(block) : g # h /\ Written(g) \cap Written(h) # {})
        => ~result.independent

\* What a miner makes of a template has all its transactions, each once and
\* in a group in their order ("assert(total == vtx.size())"), passes
\* CheckBlockGroupSize, no group is empty and no two groups share an input.
MinedExact ==
    template # <<>> =>
        /\ Range(block.vtx) = Range(template) /\ Len(block.vtx) = Len(template)
        /\ \A g \in Groups(block) :
               LET txs == SubSeq(block.vtx, Offset(block, g) + 1, block.groupEnd[g])
               IN  txs # <<>> /\ txs = SelectSeq(template, LAMBDA tx : tx \in Range(txs))
        /\ CheckBlockGroupSize(block) /\ ~TxCross(block)

\* The contracts that the transactions of a group use.
Used(b, g) == UNION {ContractAddrs(b.vtx[k]) : k \in Group(b, g)}

\* The result of each transaction.
Results(b, outputs) == {<<b.vtx[k].id, outputs[k]>> : k \in DOMAIN b.vtx}

\* Grouping changes the order of the transactions but not what they do, if
\* the groups share no contract: one after the other they leave the data, and
\* give each transaction the result, that the order in which the miner chose
\* them gives.
MinedSame ==
    template # <<>> =>
        LET chosen == sequential[OneGroup(template)]
            mined  == sequential[block]
        IN  chosen.ret = "ok"
              /\ (\A g, h \in Groups(block) : g # h => Used(block, g) \cap Used(block, h) = {})
              => /\ mined.ret = "ok" /\ mined.vm = chosen.vm
                 /\ Results(block, mined.outs) = Results(OneGroup(template), chosen.outs)

\* ConnectBlock accepts the contracts of a block that this node has made.
MinedAccepted ==
    template # <<>> /\ pc = "checked" /\ sequential[block].ret = "ok"
        => result.executed /\ result.independent

\* Execute returns, also when a thread has set interrupt.
ExecuteReturns == pc = "executing" ~> pc = "checked"
=============================================================================
