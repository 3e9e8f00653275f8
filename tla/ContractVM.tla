---------------------------- MODULE ContractVM ----------------------------
(***************************************************************************)
(* One virtual machine (ContractVM) executing contract transactions one    *)
(* after the other: the stack of calls, with contracts calling each other  *)
(* and themselves, the coins they send and the data they change.           *)
(*                                                                         *)
(* The data of a contract is the number of changes made to it.             *)
(***************************************************************************)
EXTENDS Integers, Sequences

CONSTANTS
    Contracts, User, Absent,
    Payments, Amounts,        \* what a transaction may pay, a contract send
    MAX_INTERNAL_CALL_NUM,
    MaxTxs, MaxChanges        \* bounds: transactions, changes in each

Context == [coins : Nat, data : Nat]

ASSUME ConstantsAssumption ==
    /\ User \notin Contracts
    /\ Absent \notin Context
    /\ Payments \subseteq Nat /\ Amounts \subseteq Nat \ {0}
    /\ MAX_INTERNAL_CALL_NUM \in Nat \ {0}
    /\ MaxTxs \in Nat /\ MaxChanges \in Nat

VARIABLES
    saved,       \* the contexts before the transaction: data, or database
    cache,       \* contexts the transaction has set
    prev,        \* vmOut.txPrevData
    out,         \* vmOut.contractCoinsOut
    stack,       \* contractAddrs
    using,       \* usingLuaStates: contracts with a Lua state
    env,         \* PersistentData in the Lua state of a contract
    sender,      \* msg.sender in the environment of a contract
    tx, pc, txs,
    isPublish,   \* never assigned
    changes,     \* history: changes made by the transaction
    ledger       \* history: what went in and out with committed ones

vm == <<cache, prev, out, stack, using, env, sender, changes>>
vars == <<saved, vm, tx, pc, txs, isPublish, ledger>>

MaybeContext == Context \cup {Absent}
None == [c \in Contracts |-> Absent]
Zero == [c \in Contracts |-> 0]

Top == stack[Len(stack)]
Below == SubSeq(stack, 1, Len(stack) - 1)
On(s, c) == \E k \in 1..Len(s) : s[k] = c

\* GetData, then the database.
Lookup(c) == IF cache[c] # Absent THEN cache[c] ELSE saved[c]

(***************************************************************************)
(* The actions                                                             *)
(***************************************************************************)
Init ==
    /\ saved = None
    /\ cache = None /\ prev = None /\ out = Zero
    /\ stack = <<>> /\ using = {}
    /\ env = Zero /\ sender = [c \in Contracts |-> User]
    /\ tx = <<>> /\ pc = "idle" /\ txs = 0
    /\ isPublish \in BOOLEAN
    /\ changes = Zero
    /\ ledger = [c \in Contracts |-> [coins |-> 0, data |-> 0]]

\* Initialize, and PublishContract up to the script.
Publish(c, payment) ==
    /\ pc = "idle" /\ txs < MaxTxs
    /\ saved[c] = Absent
    /\ cache' = None /\ prev' = None /\ out' = Zero /\ changes' = Zero
    /\ stack' = <<c>> /\ using' = {c}
    /\ env' = [env EXCEPT ![c] = 0]
    /\ sender' = [sender EXCEPT ![c] = User]
    /\ tx' = [kind |-> "publish", target |-> c, payment |-> payment]
    /\ pc' = "run" /\ txs' = txs + 1
    /\ UNCHANGED <<saved, isPublish, ledger>>

\* Initialize, and CallContract up to the script.
Call(c, payment) ==
    /\ pc = "idle" /\ txs < MaxTxs
    /\ saved[c] # Absent
    /\ cache' = None /\ out' = Zero /\ changes' = Zero
    /\ prev' = [None EXCEPT ![c] = saved[c]]
    /\ stack' = <<c>> /\ using' = {c}
    /\ env' = [env EXCEPT ![c] = saved[c].data]
    /\ sender' = [sender EXCEPT ![c] = User]
    /\ tx' = [kind |-> "call", target |-> c, payment |-> payment]
    /\ pc' = "run" /\ txs' = txs + 1
    /\ UNCHANGED <<saved, isPublish, ledger>>

\* Mutant: a contract already on the stack gets a new Lua state.
GetLuaStateFresh(c) ==
    /\ using' = using \cup {c}
    /\ env' = [env EXCEPT ![c] = Lookup(c).data]
    /\ sender' = [sender EXCEPT ![c] = Top]

\* Mutant: a recycled Lua state keeps the msg it had.
GetLuaStateOldMsg(c) ==
    IF c \in using THEN UNCHANGED <<using, env, sender>>
    ELSE /\ using' = using \cup {c}
         /\ env' = [env EXCEPT ![c] = Lookup(c).data]
         /\ UNCHANGED sender

\* A contract already on the stack keeps its environment: SetMsgField makes
\* a new global msg, but the environment holds the one it was made with.
GetLuaState(c) ==
    IF c \in using THEN UNCHANGED <<using, env, sender>>
    ELSE /\ using' = using \cup {c}
         /\ env' = [env EXCEPT ![c] = Lookup(c).data]
         /\ sender' = [sender EXCEPT ![c] = Top]

DepthOK == Len(stack) < MAX_INTERNAL_CALL_NUM

\* callcontract, from the script of the contract on top.
InternalCallContract(c) ==
    /\ pc = "run" /\ ~isPublish
    /\ Lookup(c) # Absent
    /\ DepthOK
    /\ prev' = IF prev[c] = Absent THEN [prev EXCEPT ![c] = Lookup(c)] ELSE prev
    /\ GetLuaState(c)
    /\ stack' = Append(stack, c)
    /\ UNCHANGED <<saved, cache, out, changes, tx, pc, txs, isPublish, ledger>>

\* Mutant: the coins already sent are not counted.
EnoughCoinsEach(amount) == amount <= prev[Top].coins

EnoughCoins(amount) == out[Top] + amount <= prev[Top].coins

\* send, from the script of the contract on top.
SendCoins(amount) ==
    /\ pc = "run" /\ ~isPublish
    /\ Lookup(Top) # Absent
    /\ EnoughCoins(amount)
    /\ out' = [out EXCEPT ![Top] = @ + amount]
    /\ UNCHANGED <<saved, cache, prev, stack, using, env, sender, tx, pc, txs, isPublish, changes, ledger>>

\* The script changes PersistentData.
ChangeData ==
    /\ pc = "run"
    /\ changes[Top] < MaxChanges
    /\ env' = [env EXCEPT ![Top] = @ + 1]
    /\ changes' = [changes EXCEPT ![Top] = @ + 1]
    /\ UNCHANGED <<saved, cache, prev, out, stack, using, sender, tx, pc, txs, isPublish, ledger>>

\* The context CallContract sets when a frame of c returns.
Returned(c) == [coins |-> prev[c].coins - out[c], data |-> env[c]]

\* Mutant: the Lua state is released with the first frame that returns.
ReleaseLuaStateAlways == using' = using \ {Top}

\* The Lua state of a contract further down stays in use.
ReleaseLuaState == using' = IF On(Below, Top) THEN using ELSE using \ {Top}

\* A call within a transaction returns; one that found its contract on the
\* stack sets nothing.
ReturnInternal ==
    /\ pc = "run" /\ Len(stack) > 1
    /\ cache' = IF On(Below, Top) THEN cache ELSE [cache EXCEPT ![Top] = Returned(Top)]
    /\ ReleaseLuaState
    /\ stack' = Below
    /\ UNCHANGED <<saved, prev, out, env, sender, tx, pc, txs, isPublish, changes, ledger>>

\* The call or the publication itself returns; a call adds the payment.
ReturnTx ==
    /\ pc = "run" /\ Len(stack) = 1
    /\ cache' = [cache EXCEPT ![Top] =
           IF tx.kind = "publish" THEN [coins |-> tx.payment, data |-> env[Top]]
           ELSE [Returned(Top) EXCEPT !.coins = @ + tx.payment]]
    /\ ReleaseLuaState
    /\ stack' = Below
    /\ pc' = "done"
    /\ UNCHANGED <<saved, prev, out, env, sender, tx, txs, isPublish, changes, ledger>>

\* CommitData.
Commit ==
    /\ pc = "done"
    /\ saved' = [c \in Contracts |-> Lookup(c)]
    /\ ledger' = [c \in Contracts |->
           [coins |-> ledger[c].coins - out[c] + (IF c = tx.target THEN tx.payment ELSE 0),
            data  |-> ledger[c].data + changes[c]]]
    /\ pc' = "idle"
    /\ UNCHANGED <<vm, tx, txs, isPublish>>

\* A Lua error or an exception in any frame ends the transaction, or its
\* result is not committed: Initialize drops what it left.
Discard ==
    /\ pc \in {"run", "done"}
    /\ pc' = "idle"
    /\ UNCHANGED <<saved, vm, tx, txs, isPublish, ledger>>

Next ==
    \/ \E c \in Contracts, p \in Payments : Publish(c, p)
    \/ \E c \in Contracts, p \in Payments : Call(c, p)
    \/ \E c \in Contracts : InternalCallContract(c)
    \/ \E a \in Amounts : SendCoins(a)
    \/ ChangeData
    \/ ReturnInternal
    \/ ReturnTx
    \/ Commit
    \/ Discard

Spec == Init /\ [][Next]_vars

(***************************************************************************)
(* Properties                                                              *)
(***************************************************************************)
Tx == [kind : {"publish", "call"}, target : Contracts, payment : Payments]

\* The types; an empty stack exactly when no script runs.
TypeOK ==
    /\ saved \in [Contracts -> MaybeContext]
    /\ cache \in [Contracts -> MaybeContext]
    /\ prev \in [Contracts -> MaybeContext]
    /\ out \in [Contracts -> Nat] /\ env \in [Contracts -> Nat] /\ changes \in [Contracts -> Nat]
    /\ stack \in Seq(Contracts) /\ Len(stack) <= MAX_INTERNAL_CALL_NUM
    /\ using \subseteq Contracts
    /\ sender \in [Contracts -> Contracts \cup {User}]
    /\ pc \in {"idle", "run", "done"}
    /\ txs \in Nat /\ isPublish \in BOOLEAN
    /\ ledger \in [Contracts -> [coins : Int, data : Int]]
    /\ pc # "idle" => tx \in Tx
    /\ pc = "run" => stack # <<>>
    /\ pc = "done" => stack = <<>>

\* However contracts call each other, and whatever transactions fail, the
\* coins of a contract are those paid to it less those it sent, and its data
\* holds every change its scripts made.
BooksBalance ==
    \A c \in Contracts : saved[c] # Absent =>
        saved[c].coins = ledger[c].coins /\ saved[c].data = ledger[c].data

\* No contract sends more than it had when the transaction began, over all
\* its frames together.
NoOverspend ==
    pc # "idle" => \A c \in Contracts :
        out[c] > 0 => prev[c] # Absent /\ prev[c] = saved[c] /\ out[c] <= prev[c].coins

\* A contract has a Lua state exactly while it is on the stack.
LuaStatesInUse ==
    pc # "idle" => using = {c \in Contracts : On(stack, c)}

\* The sender a running script sees is the caller of the outermost frame of
\* its contract, also in a frame that contracts further up called.
SenderOfOutermost ==
    pc = "run" => \A k \in 1..Len(stack) :
        ~On(SubSeq(stack, 1, k - 1), stack[k]) =>
            sender[stack[k]] = IF k = 1 THEN User ELSE stack[k - 1]

\* A publication calls no contract ("can't call callcontract when
\* publishcontract").
NoCallInPublish == pc = "run" /\ tx.kind = "publish" => Len(stack) = 1
=============================================================================
