----------------------------- MODULE CheckQueue -----------------------------
(***************************************************************************)
(* The queue of script checks (validation/checkqueue.h), shared by the     *)
(* threads that connect blocks (each a master while it holds ControlMutex) *)
(* and the script-check worker threads.  A critical section of "mutex" is  *)
(* one action; the checks themselves run outside it.                       *)
(*                                                                         *)
(* A check is an element of Checks and returns TRUE iff it is in Passes.   *)
(* The order of the queue does not matter to the code ("As the order of    *)
(* booleans doesn't matter, it is used as a LIFO"), so queue and the       *)
(* batches vChecks are sets.  A batch stays in vChecks until the clean-up  *)
(* that subtracts it from nTodo: nNow is Cardinality(vChecks[t]).          *)
(***************************************************************************)
EXTENDS Integers, FiniteSets

CONSTANTS Workers, Masters, \* the threads that call Thread() and Wait()
          Checks, Passes,   \* the checks, and those that return TRUE
          nBatchSize        \* the largest batch

ASSUME QueueAssumption ==
    /\ Workers \cap Masters = {}
    /\ IsFiniteSet(Workers) /\ IsFiniteSet(Masters)
    /\ IsFiniteSet(Checks) /\ Passes \subseteq Checks
    /\ nBatchSize \in Nat \ {0}

VARIABLES pc,           \* where each thread is
          vChecks, fOk, \* the batch of each thread, and its outcome so far
          queue, nTodo, nIdle, nTotal, fAllOk,
          ControlMutex, \* the master that holds the control, or none
          added,        \* the checks added under the control held now
          fRet          \* what Wait() returned last

vars == <<pc, vChecks, fOk, queue, nTodo, nIdle, nTotal, fAllOk,
          ControlMutex, added, fRet>>

Threads == Workers \cup Masters
NoOne == {}

\* "new" and "idle": outside the queue.  "adding": holds the control.  "loop":
\* about to lock mutex in Loop.  "wait", "woken": in cond.wait, before and
\* after a notification.  "exec": runs its batch.  "returned": Wait() is over.
\* "gone": interrupted at shutdown.
PC == {"new", "idle", "adding", "loop", "wait", "woken", "exec", "returned",
       "gone"}

Init == /\ pc = [t \in Threads |-> IF t \in Workers THEN "new" ELSE "idle"]
        /\ vChecks = [t \in Threads |-> {}]
        /\ fOk = [t \in Threads |-> TRUE]
        /\ queue = {} /\ nTodo = 0 /\ nIdle = 0 /\ nTotal = 0
        /\ fAllOk = TRUE
        /\ ControlMutex = NoOne /\ added = {} /\ fRet = TRUE

----------------------------------------------------------------------------
(* Condition variables: the places of the threads after a notification of  *)
(* one, or of all, of the threads of S that wait.                          *)
NotifyOne(S) ==
    LET waiting == {t \in S : pc[t] = "wait"}
    IN  IF waiting = {} THEN {pc}
        ELSE {[pc EXCEPT ![t] = "woken"] : t \in waiting}

NotifyAll(S) ==
    [t \in Threads |-> IF t \in S /\ pc[t] = "wait" THEN "woken" ELSE pc[t]]

----------------------------------------------------------------------------
(* Thread(): a worker thread starts.                                       *)
Thread(w) == /\ w \in Workers /\ pc[w] = "new"
             /\ pc' = [pc EXCEPT ![w] = "loop"]
             /\ UNCHANGED <<vChecks, fOk, queue, nTodo, nIdle, nTotal, fAllOk,
                            ControlMutex, added, fRet>>

(* The constructor of MCCheckQueueControl.                                 *)
NewControl(m) ==
    /\ m \in Masters /\ pc[m] = "idle" /\ ControlMutex = NoOne
    /\ ControlMutex' = {m}
    /\ added' = {}
    /\ pc' = [pc EXCEPT ![m] = "adding"]
    /\ UNCHANGED <<vChecks, fOk, queue, nTodo, nIdle, nTotal, fAllOk, fRet>>

(* Add: the checks S of one transaction.                                   *)
Add(m, S) ==
    /\ m \in Masters /\ pc[m] = "adding"
    /\ queue' = queue \cup S
    /\ added' = added \cup S
    /\ nTodo' = nTodo + Cardinality(S)
    /\ CASE S = {}              -> pc' = pc
         [] Cardinality(S) = 1  -> pc' \in NotifyOne(Workers)
         [] OTHER               -> pc' = NotifyAll(Workers)
    /\ UNCHANGED <<vChecks, fOk, nIdle, nTotal, fAllOk, ControlMutex, fRet>>

(* Wait(), called by ConnectBlock or, after an early return, by the        *)
(* destructor of the control: the master enters Loop.                      *)
Wait(m) == /\ m \in Masters /\ pc[m] = "adding"
           /\ pc' = [pc EXCEPT ![m] = "loop"]
           /\ UNCHANGED <<vChecks, fOk, queue, nTodo, nIdle, nTotal, fAllOk,
                          ControlMutex, added, fRet>>

(* The end of the destructor.                                              *)
Leave(m) == /\ m \in Masters /\ pc[m] = "returned"
            /\ ControlMutex' = NoOne
            /\ pc' = [pc EXCEPT ![m] = "idle"]
            /\ UNCHANGED <<vChecks, fOk, queue, nTodo, nIdle, nTotal, fAllOk,
                           added, fRet>>

----------------------------------------------------------------------------
(* Loop, from "while (queue.empty())" to the end of the critical section   *)
(* or to cond.wait, for thread t, with the values the section has so far.  *)
BatchSize(total, idle) ==
    LET share == Cardinality(queue) \div (total + idle + 1)
        most  == IF share < nBatchSize THEN share ELSE nBatchSize
    IN  IF most > 1 THEN most ELSE 1

TakeBatch(t, p, ok, total, idle) ==
    /\ queue # {}
    /\ \E batch \in SUBSET queue :
          /\ batch # {}
          /\ Cardinality(batch) = BatchSize(total, idle)
          /\ vChecks' = [vChecks EXCEPT ![t] = batch]
          /\ queue' = queue \ batch
    /\ fOk' = [fOk EXCEPT ![t] = ok]
    /\ fAllOk' = ok
    /\ pc' = [p EXCEPT ![t] = "exec"]
    /\ nIdle' = idle
    /\ nTotal' = total
    /\ UNCHANGED fRet

\* Mutant: "reset the status for new work later" is forgotten.
ReturnNoReset(t, p, todo, ok, total, idle) ==
    /\ queue = {} /\ t \in Masters /\ todo = 0
    /\ fRet' = ok
    /\ fAllOk' = ok
    /\ pc' = [p EXCEPT ![t] = "returned"]
    /\ nIdle' = idle
    /\ nTotal' = total - 1
    /\ vChecks' = [vChecks EXCEPT ![t] = {}]
    /\ UNCHANGED <<queue, fOk>>

Return(t, p, todo, ok, total, idle) ==
    /\ queue = {} /\ t \in Masters /\ todo = 0
    /\ fRet' = ok
    /\ fAllOk' = TRUE
    /\ pc' = [p EXCEPT ![t] = "returned"]
    /\ nIdle' = idle
    /\ nTotal' = total - 1
    /\ vChecks' = [vChecks EXCEPT ![t] = {}]
    /\ UNCHANGED <<queue, fOk>>

Sleep(t, p, todo, ok, total, idle) ==
    /\ queue = {} /\ ~(t \in Masters /\ todo = 0)
    /\ fAllOk' = ok
    /\ pc' = [p EXCEPT ![t] = "wait"]
    /\ nIdle' = idle + 1
    /\ nTotal' = total
    /\ vChecks' = [vChecks EXCEPT ![t] = {}]
    /\ UNCHANGED <<queue, fOk, fRet>>

WhileQueueEmpty(t, p, todo, ok, total, idle) ==
    /\ nTodo' = todo
    /\ \/ TakeBatch(t, p, ok, total, idle)
       \/ Return(t, p, todo, ok, total, idle)
       \/ Sleep(t, p, todo, ok, total, idle)
    /\ UNCHANGED <<ControlMutex, added>>

(* A thread enters Loop: "first iteration".                                *)
FirstIteration(t) ==
    /\ pc[t] = "loop" /\ vChecks[t] = {}
    /\ WhileQueueEmpty(t, pc, nTodo, fAllOk, nTotal + 1, nIdle)

\* Mutant: the master is notified when the queue is empty, not when every
\* check is done.
CleanUpEarlyNotify(t) ==
    /\ pc[t] = "loop" /\ vChecks[t] # {}
    /\ LET todo == nTodo - Cardinality(vChecks[t])
       IN  \E p \in IF todo > 0 /\ queue = {} /\ t \notin Masters
                    THEN NotifyOne(Masters) ELSE {pc} :
              WhileQueueEmpty(t, p, todo, fAllOk /\ fOk[t], nTotal, nIdle)

(* The clean-up after a batch.                                             *)
CleanUp(t) ==
    /\ pc[t] = "loop" /\ vChecks[t] # {}
    /\ LET todo == nTodo - Cardinality(vChecks[t])
       IN  \E p \in IF todo = 0 /\ t \notin Masters THEN NotifyOne(Masters)
                    ELSE {pc} :
              WhileQueueEmpty(t, p, todo, fAllOk /\ fOk[t], nTotal, nIdle)

(* cond.wait returns to a notified thread.                                 *)
WakeUp(t) ==
    /\ pc[t] = "woken"
    /\ WhileQueueEmpty(t, pc, nTodo, fAllOk, nTotal, nIdle - 1)

\* Mutant: a batch taken after a failure is not given back.
ExecuteWhileOk(t) ==
    /\ pc[t] = "exec" /\ fOk[t]
    /\ fOk' = [fOk EXCEPT ![t] = @ /\ vChecks[t] \subseteq Passes]
    /\ pc' = [pc EXCEPT ![t] = "loop"]
    /\ UNCHANGED <<vChecks, queue, nTodo, nIdle, nTotal, fAllOk, ControlMutex,
                   added, fRet>>

(* "execute work": stops at the first check that fails, runs none when the *)
(* batch was taken after a failure.                                        *)
Execute(t) ==
    /\ pc[t] = "exec"
    /\ fOk' = [fOk EXCEPT ![t] = @ /\ vChecks[t] \subseteq Passes]
    /\ pc' = [pc EXCEPT ![t] = "loop"]
    /\ UNCHANGED <<vChecks, queue, nTodo, nIdle, nTotal, fAllOk, ControlMutex,
                   added, fRet>>

(* External: a condition variable may wake a thread for no reason.         *)
SpuriousWakeUp(t) ==
    /\ pc[t] = "wait"
    /\ pc' = [pc EXCEPT ![t] = "woken"]
    /\ UNCHANGED <<vChecks, fOk, queue, nTodo, nIdle, nTotal, fAllOk,
                   ControlMutex, added, fRet>>

(* threadGroup.interrupt_all() at shutdown: cond.wait throws in a worker,  *)
(* which leaves the counters as they are.                                  *)
Interrupt(w) ==
    /\ w \in Workers /\ pc[w] \in {"wait", "woken"}
    /\ pc' = [pc EXCEPT ![w] = "gone"]
    /\ UNCHANGED <<vChecks, fOk, queue, nTodo, nIdle, nTotal, fAllOk,
                   ControlMutex, added, fRet>>

Loop(t) == FirstIteration(t) \/ CleanUp(t) \/ WakeUp(t) \/ Execute(t)

Next == \/ \E m \in Masters : \/ NewControl(m) \/ Wait(m) \/ Leave(m)
                              \/ \E S \in SUBSET (Checks \ added) : Add(m, S)
        \/ \E t \in Threads : Loop(t) \/ SpuriousWakeUp(t)
        \/ \E w \in Workers : Thread(w) \/ Interrupt(w)

(* A thread in Loop that is neither waiting nor blocked keeps running.     *)
Fairness == \A t \in Threads : WF_vars(Loop(t))

Spec == Init /\ [][Next]_vars /\ Fairness

----------------------------------------------------------------------------
TypeOK == /\ pc \in [Threads -> PC]
          /\ vChecks \in [Threads -> SUBSET Checks]
          /\ fOk \in [Threads -> BOOLEAN]
          /\ queue \in SUBSET Checks
          /\ nTodo \in Nat /\ nIdle \in Nat /\ nTotal \in Nat
          /\ fAllOk \in BOOLEAN /\ fRet \in BOOLEAN
          /\ ControlMutex \in {NoOne} \cup {{m} : m \in Masters}
          /\ added \in SUBSET Checks

\* Wait() answers for exactly the checks added under its control, whichever
\* threads ran them and whatever happened under earlier controls: it returns
\* TRUE iff every one of them passes, with none left in the queue or in the
\* batch of a worker (the fRet of Loop).
WaitIsSound ==
    TypeOK /\ \A m \in Masters : pc[m] = "returned" =>
        /\ fRet <=> added \subseteq Passes
        /\ queue = {} /\ nTodo = 0
        /\ \A t \in Threads : vChecks[t] = {}

\* No wake-up of the master is lost: when it sleeps on condMaster, a worker
\* still holds a batch, and will notify it (the clean-up of Loop).
MasterWillBeWoken ==
    \A m \in Masters : pc[m] = "wait" => \E w \in Workers : vChecks[w] # {}

\* Wait() returns, even if every worker is interrupted meanwhile.
WaitReturns ==
    \A m \in Masters : pc[m] = "loop" ~> pc[m] = "returned"

============================================================================
