-------------------------- MODULE CheckQueueProofs --------------------------
(***************************************************************************)
(* Wait() of the queue of script checks is sound, for any number of worker *)
(* threads, masters and checks.                                            *)
(*                                                                         *)
(* The counters of the queue stand for sets that no thread sees whole: the *)
(* checks that are queued or in some batch, the threads that sleep, the    *)
(* threads in Loop.  The invariant says that they are their cardinalities, *)
(* that the batches are disjoint, and what the verdict accumulated in      *)
(* fAllOk and in the fOk of the threads knows of the checks of the control *)
(* held now.                                                               *)
(***************************************************************************)
EXTENDS CheckQueue, FiniteSetTheorems, TLAPS

\* The checks that are queued or in the batch of some thread.
Pending == {c \in Checks : c \in queue \/ \E t \in Threads : c \in vChecks[t]}

\* The threads that nIdle and nTotal count.
Idle == {t \in Threads : pc[t] \in {"wait", "woken", "gone"}}
Inside == {t \in Threads : pc[t] \in {"wait", "woken", "gone", "exec"} \/ vChecks[t] # {}}

Counters == /\ nTodo = Cardinality(Pending)
            /\ nIdle = Cardinality(Idle)
            /\ nTotal = Cardinality(Inside)

\* A check is in one place; a thread has a batch from when it takes it until
\* it has cleaned up.
Batches == /\ \A t \in Threads : vChecks[t] \cap queue = {}
           /\ \A t, u \in Threads : t # u => vChecks[t] \cap vChecks[u] = {}
           /\ \A t \in Threads : vChecks[t] # {} => pc[t] \in {"exec", "loop"}
           /\ \A t \in Threads : pc[t] = "exec" => vChecks[t] # {}

\* Only the master that holds ControlMutex is in the queue.
Control == /\ \A m \in Masters : pc[m] # "idle" <=> ControlMutex = {m}
           /\ \A w \in Workers : pc[w] \notin {"idle", "adding", "returned"}

\* A master is between its constructor and the return of Wait().
Using == \E m \in Masters : pc[m] \notin {"idle", "returned"}

\* What is known of the checks: those done passed if fAllOk, those of a batch
\* that was run passed if fOk, and some check failed if either is FALSE.
Verdict == /\ Pending \subseteq added
           /\ Using /\ fAllOk => added \ Pending \subseteq Passes
           /\ ~fAllOk => ~(added \subseteq Passes)
           /\ \A t \in Threads : vChecks[t] # {} =>
                 /\ ~fOk[t] => ~(added \subseteq Passes)
                 /\ pc[t] = "loop" /\ fOk[t] => vChecks[t] \subseteq Passes

\* Between two uses nothing is pending and the status is reset.
AtRest == Pending = {} /\ fAllOk = TRUE

Resting == /\ ControlMutex = NoOne => AtRest
           /\ \A m \in Masters : pc[m] = "returned" =>
                 AtRest /\ (fRet <=> added \subseteq Passes)

IInv == /\ TypeOK /\ Counters /\ Batches /\ Control /\ Verdict /\ Resting
        /\ MasterWillBeWoken

----------------------------------------------------------------------------
\* The sets that the counters stand for are finite.
LEMMA FiniteThreads == IsFiniteSet(Threads)
  BY QueueAssumption, FS_Union DEF Threads

LEMMA FiniteSets1 == IsFiniteSet(Pending) /\ IsFiniteSet(Idle) /\ IsFiniteSet(Inside)
  <1>1. Pending \in SUBSET Checks /\ Idle \in SUBSET Threads /\ Inside \in SUBSET Threads
    BY DEF Pending, Idle, Inside
  <1> QED
    BY <1>1, QueueAssumption, FiniteThreads, FS_Subset

\* A batch is part of what is pending, and its checks are in no other place.
LEMMA BatchPending ==
  ASSUME TypeOK, NEW t \in Threads
  PROVE  /\ vChecks[t] \subseteq Pending
         /\ Cardinality(Pending \ vChecks[t]) = Cardinality(Pending) - Cardinality(vChecks[t])
  <1>1. vChecks[t] \subseteq Pending
    BY DEF TypeOK, Pending
  <1>2. Pending \cap vChecks[t] = vChecks[t]
    BY <1>1
  <1> QED
    BY <1>1, <1>2, FiniteSets1, FS_Difference

\* One master at a time is in the queue.
LEMMA OneMaster ==
  ASSUME Control, NEW m \in Masters, NEW n \in Masters, pc[m] # "idle", pc[n] # "idle"
  PROVE  m = n
  BY DEF Control

\* When the queue is empty and a thread other than t has a check pending, it
\* is in the batch of a worker, unless a master other than m holds it.
LEMMA AnotherHolder ==
  ASSUME TypeOK, Control, Batches, NEW t \in Threads, NEW m \in Masters,
         pc[m] # "idle", m = t \/ vChecks[m] = {},
         queue = {}, Pending \ vChecks[t] # {}
  PROVE  \E w \in Workers : w # t /\ vChecks[w] # {}
  <1>1. PICK c \in Pending : c \notin vChecks[t]
    OBVIOUS
  <1>2. PICK u \in Threads : c \in vChecks[u]
    BY <1>1 DEF Pending
  <1>3. pc[u] # "idle"
    BY <1>2 DEF Batches
  <1>4. u \notin Masters
    BY <1>1, <1>2, <1>3, OneMaster
  <1> QED
    BY <1>1, <1>2, <1>4 DEF Threads

----------------------------------------------------------------------------
(* The part of Loop that its three entries share.                          *)
\* What the values of the section stand for when thread t reaches "while
\* (queue.empty())", its batch, if any, cleaned up.
Section(t, p, todo, ok, total, idle) ==
    /\ pc[t] \in {"loop", "woken"}
    /\ p \in [Threads -> PC]
    /\ \A u \in Threads : p[u] = pc[u] \/ (pc[u] = "wait" /\ p[u] = "woken")
    /\ todo = Cardinality(Pending \ vChecks[t])
    /\ idle = Cardinality(Idle \ {t})
    /\ total = Cardinality(Inside \cup {t})
    /\ ok \in BOOLEAN
    /\ vChecks[t] = {} => ok = fAllOk
    /\ Using /\ ok => added \ (Pending \ vChecks[t]) \subseteq Passes
    /\ ~ok => ~(added \subseteq Passes)
    /\ todo = 0 /\ vChecks[t] # {} => \A m \in Masters \ {t} : p[m] # "wait"

\* The section takes one of the three ways out; whichever it is, the rest of
\* the threads keep their batches.
LEMMA SectionShape ==
  ASSUME TypeOK, Batches, NEW t \in Threads, NEW p, NEW todo, NEW ok, NEW total, NEW idle,
         Section(t, p, todo, ok, total, idle), WhileQueueEmpty(t, p, todo, ok, total, idle)
  PROVE  /\ vChecks' \in [Threads -> SUBSET Checks]
         /\ queue' \in SUBSET Checks
         /\ \A u \in Threads \ {t} : vChecks'[u] = vChecks[u]
         /\ queue = queue' \cup vChecks'[t]
         /\ queue' \cap vChecks'[t] = {}
         /\ pc' \in [Threads -> PC]
         /\ \A u \in Threads \ {t} : pc'[u] = p[u]
         /\ pc'[t] \in {"exec", "returned", "wait"}
         /\ pc'[t] = "exec" <=> vChecks'[t] # {}
         /\ UNCHANGED <<ControlMutex, added>> /\ nTodo' = todo
  <1> USE DEF Section
  <1>1. UNCHANGED <<ControlMutex, added>> /\ nTodo' = todo
    BY DEF WhileQueueEmpty
  <1>2. CASE TakeBatch(t, p, ok, total, idle)
    BY <1>1, <1>2 DEF TakeBatch, TypeOK, PC
  <1>3. CASE Return(t, p, todo, ok, total, idle)
    BY <1>1, <1>3 DEF Return, TypeOK, PC
  <1>4. CASE Sleep(t, p, todo, ok, total, idle)
    BY <1>1, <1>4 DEF Sleep, TypeOK, PC
  <1> QED
    BY <1>2, <1>3, <1>4 DEF WhileQueueEmpty

\* What is pending after the section: all that was, but for t's old batch.
LEMMA SectionPending ==
  ASSUME TypeOK, Batches, NEW t \in Threads, NEW p, NEW todo, NEW ok, NEW total, NEW idle,
         Section(t, p, todo, ok, total, idle), WhileQueueEmpty(t, p, todo, ok, total, idle)
  PROVE  Pending' = Pending \ vChecks[t]
  <1>1. /\ vChecks' \in [Threads -> SUBSET Checks]
        /\ \A u \in Threads \ {t} : vChecks'[u] = vChecks[u]
        /\ queue = queue' \cup vChecks'[t]
    BY SectionShape
  <1>2. ASSUME NEW c \in Pending' PROVE c \in Pending \ vChecks[t]
    BY <1>1, <1>2 DEF Pending, Batches
  <1>3. ASSUME NEW c \in Pending, c \notin vChecks[t] PROVE c \in Pending'
    BY <1>1, <1>3 DEF Pending, Batches
  <1> QED
    BY <1>2, <1>3

\* nTodo, nIdle and nTotal after the section.
LEMMA SectionCounters ==
  ASSUME TypeOK, Batches, NEW t \in Threads, NEW p, NEW todo, NEW ok, NEW total, NEW idle,
         Section(t, p, todo, ok, total, idle), WhileQueueEmpty(t, p, todo, ok, total, idle)
  PROVE  Counters' /\ nTodo' \in Nat /\ nIdle' \in Nat /\ nTotal' \in Nat
  <1>1. /\ \A u \in Threads \ {t} : pc'[u] = p[u] /\ vChecks'[u] = vChecks[u]
        /\ pc'[t] = "exec" <=> vChecks'[t] # {}
        /\ nTodo' = todo
    BY SectionShape
  <1> USE DEF Section
  <1>2. Pending' = Pending \ vChecks[t]
    BY SectionPending
  <1>3. Idle' \ {t} = Idle \ {t} /\ Inside' \cup {t} = Inside \cup {t}
    BY <1>1 DEF Idle, Inside
  <1>4. IsFiniteSet(Idle \ {t}) /\ IsFiniteSet(Inside \cup {t}) /\ IsFiniteSet(Pending \ vChecks[t])
    BY FiniteSets1, FS_AddElement, FS_Difference
  <1>5. todo \in Nat /\ idle \in Nat /\ total \in Nat
    BY <1>4, FS_CardinalityType
  <1>6. CASE TakeBatch(t, p, ok, total, idle)
    <2>1. pc'[t] = "exec" /\ nIdle' = idle /\ nTotal' = total
      BY <1>6 DEF TakeBatch
    <2>2. Idle' = Idle \ {t} /\ Inside' = Inside \cup {t}
      BY <1>3, <2>1 DEF Idle, Inside
    <2> QED
      BY <1>1, <1>2, <1>5, <2>1, <2>2 DEF Counters
  <1>7. CASE Return(t, p, todo, ok, total, idle)
    <2>1. pc'[t] = "returned" /\ nIdle' = idle /\ nTotal' = total - 1
      BY <1>7, <1>1 DEF Return
    <2>2. Idle' = Idle \ {t} /\ Inside' = (Inside \cup {t}) \ {t}
      BY <1>1, <1>3, <2>1 DEF Idle, Inside
    <2>3. Cardinality(Inside') = total - 1 /\ IsFiniteSet(Inside')
      BY <1>4, <2>2, FS_RemoveElement
    <2>4. Cardinality(Inside') \in Nat
      BY <2>3, FS_CardinalityType
    <2> QED
      BY <1>1, <1>2, <1>5, <2>1, <2>2, <2>3, <2>4 DEF Counters
  <1>8. CASE Sleep(t, p, todo, ok, total, idle)
    <2>1. pc'[t] = "wait" /\ nIdle' = idle + 1 /\ nTotal' = total
      BY <1>8, <1>1 DEF Sleep
    <2>2. Idle' = (Idle \ {t}) \cup {t} /\ Inside' = Inside \cup {t}
      BY <1>3, <2>1 DEF Idle, Inside
    <2>3. Cardinality(Idle') = idle + 1
      BY <1>4, <2>2, FS_AddElement
    <2> QED
      BY <1>1, <1>2, <1>5, <2>1, <2>2, <2>3 DEF Counters
  <1> QED
    BY <1>6, <1>7, <1>8 DEF WhileQueueEmpty

\* The places of the threads, the control and the batches after the section.
LEMMA SectionPlaces ==
  ASSUME TypeOK, Batches, Control, NEW t \in Threads, NEW p, NEW todo, NEW ok, NEW total, NEW idle,
         Section(t, p, todo, ok, total, idle), WhileQueueEmpty(t, p, todo, ok, total, idle)
  PROVE  Batches' /\ Control'
  <1>1. /\ \A u \in Threads \ {t} : pc'[u] = p[u] /\ vChecks'[u] = vChecks[u]
        /\ queue = queue' \cup vChecks'[t]
        /\ queue' \cap vChecks'[t] = {}
        /\ pc'[t] \in {"exec", "returned", "wait"}
        /\ pc'[t] = "exec" <=> vChecks'[t] # {}
        /\ ControlMutex' = ControlMutex
    BY SectionShape
  <1> USE DEF Section
  <1>2. pc'[t] = "returned" => t \in Masters
    BY <1>1 DEF WhileQueueEmpty, TakeBatch, Return, Sleep
  <1>3. Batches'
    BY <1>1 DEF Batches
  <1>4. \A u \in Threads \ {t} : pc'[u] = pc[u] \/ (pc[u] = "wait" /\ pc'[u] = "woken")
    BY <1>1
  <1>5. Control'
    BY <1>1, <1>2, <1>4, QueueAssumption DEF Control, Threads
  <1> QED
    BY <1>3, <1>5

\* The verdict after the section.
LEMMA SectionVerdict ==
  ASSUME IInv, NEW t \in Threads, NEW p, NEW todo, NEW ok, NEW total, NEW idle,
         Section(t, p, todo, ok, total, idle), WhileQueueEmpty(t, p, todo, ok, total, idle)
  PROVE  Verdict' /\ Resting' /\ fAllOk' \in BOOLEAN /\ fRet' \in BOOLEAN
                  /\ fOk' \in [Threads -> BOOLEAN]
  <1>1. /\ \A u \in Threads \ {t} : pc'[u] = p[u] /\ vChecks'[u] = vChecks[u]
        /\ queue = queue' \cup vChecks'[t]
        /\ pc'[t] \in {"exec", "returned", "wait"}
        /\ pc'[t] = "exec" <=> vChecks'[t] # {}
        /\ ControlMutex' = ControlMutex /\ added' = added
    BY SectionShape DEF IInv
  <1> USE DEF Section, IInv
  <1>2. Pending' = Pending \ vChecks[t]
    BY SectionPending DEF IInv
  <1>3. \A u \in Threads \ {t} : pc'[u] = pc[u] \/ (pc[u] = "wait" /\ pc'[u] = "woken")
    BY <1>1
  <1>4. AtRest => AtRest' /\ vChecks[t] = {} /\ queue = {}
    <2>1. ASSUME AtRest PROVE Pending = {} /\ fAllOk = TRUE /\ vChecks[t] = {} /\ queue = {}
      BY <2>1 DEF AtRest, Pending, TypeOK
    <2>2. ASSUME AtRest PROVE fAllOk' = TRUE
      BY <2>1, <2>2 DEF WhileQueueEmpty, TakeBatch, Return, Sleep
    <2> QED
      BY <1>2, <2>1, <2>2 DEF AtRest
  <1>5. CASE Return(t, p, todo, ok, total, idle)
    <2>1. /\ t \in Masters /\ todo = 0 /\ fRet' = ok /\ fAllOk' = TRUE
          /\ pc'[t] = "returned" /\ fOk' = fOk /\ queue = {}
      BY <1>1, <1>5 DEF Return
    <2>2. Pending' = {}
      BY <1>2, <2>1, FiniteSets1, FS_Difference, FS_EmptySet
    <2>3. ControlMutex = {t}
      BY <2>1 DEF Control
    <2>4. Using
      BY <2>1 DEF Using
    <2>5. fRet' <=> added' \subseteq Passes
      BY <1>1, <1>2, <2>1, <2>2, <2>4
    <2>6. \A m \in Masters : m # t => pc[m] = "idle" /\ pc'[m] = "idle"
      BY <1>3, <2>1, OneMaster DEF Threads
    <2>7. Resting'
      BY <1>1, <2>1, <2>2, <2>3, <2>5, <2>6 DEF Resting, AtRest, NoOne
    <2>8. \A u \in Threads : vChecks'[u] = {}
      BY <2>2, SectionShape DEF Pending
    <2>9. ~Using'
      BY <2>1, <2>6 DEF Using
    <2>10. Verdict'
      BY <2>1, <2>2, <2>8, <2>9 DEF Verdict
    <2> QED
      BY <2>1, <2>7, <2>10 DEF TypeOK
  <1>6. CASE ~Return(t, p, todo, ok, total, idle)
    <2>1. /\ fRet' = fRet /\ fAllOk' = ok /\ pc'[t] \in {"exec", "wait"}
          /\ fOk' \in [Threads -> BOOLEAN]
          /\ \A u \in Threads \ {t} : fOk'[u] = fOk[u]
          /\ pc'[t] = "exec" => fOk'[t] = ok
      BY <1>1, <1>6 DEF WhileQueueEmpty, TakeBatch, Sleep, TypeOK
    <2>2. Resting'
      <3>1. ControlMutex' = NoOne => AtRest'
        BY <1>1, <1>4 DEF Resting
      <3>2. ASSUME NEW m \in Masters, pc'[m] = "returned"
            PROVE  AtRest' /\ (fRet' <=> added' \subseteq Passes)
        <4>1. m # t /\ m \in Threads /\ pc[m] = "returned"
          BY <1>3, <2>1, <3>2 DEF Threads
        <4> QED
          BY <1>1, <1>4, <2>1, <4>1 DEF Resting
      <3> QED
        BY <3>1, <3>2 DEF Resting
    <2>3. Using' => Using
      BY <1>3, <2>1 DEF Using, Threads, Control
    <2>4. Pending' \subseteq added' /\ (Using' /\ fAllOk' => added' \ Pending' \subseteq Passes)
      BY <1>1, <1>2, <2>1, <2>3 DEF Verdict
    <2>5. ~fAllOk' => ~(added' \subseteq Passes)
      BY <1>1, <2>1
    <2>6. \A u \in Threads : vChecks'[u] # {} =>
             /\ ~fOk'[u] => ~(added' \subseteq Passes)
             /\ pc'[u] = "loop" /\ fOk'[u] => vChecks'[u] \subseteq Passes
      BY <1>1, <1>3, <2>1 DEF Verdict
    <2> QED
      BY <2>1, <2>2, <2>4, <2>5, <2>6 DEF Verdict, TypeOK
  <1> QED
    BY <1>5, <1>6

\* No notification of the master is lost by the section.
LEMMA SectionWakes ==
  ASSUME IInv, NEW t \in Threads, NEW p, NEW todo, NEW ok, NEW total, NEW idle,
         Section(t, p, todo, ok, total, idle), WhileQueueEmpty(t, p, todo, ok, total, idle)
  PROVE  MasterWillBeWoken'
  <1>1. /\ \A u \in Threads \ {t} : pc'[u] = p[u] /\ vChecks'[u] = vChecks[u]
        /\ pc'[t] \in {"exec", "returned", "wait"}
        /\ pc'[t] = "exec" <=> vChecks'[t] # {}
    BY SectionShape DEF IInv
  <1> USE DEF Section, IInv
  <1>2. SUFFICES ASSUME NEW m \in Masters, pc'[m] = "wait"
                 PROVE  \E w \in Workers : vChecks'[w] # {}
    BY DEF MasterWillBeWoken
  <1>3. m \in Threads /\ pc[m] # "idle"
    BY <1>1, <1>2 DEF Threads
  <1>4. todo # 0 => Pending \ vChecks[t] # {}
    BY FS_EmptySet
  <1>5. CASE m = t
    <2>1. queue = {} /\ todo # 0
      BY <1>2, <1>5, <1>1 DEF WhileQueueEmpty, TakeBatch, Return, Sleep, TypeOK
    <2> QED
      BY <1>1, <1>3, <1>4, <1>5, <2>1, AnotherHolder DEF Threads
  <1>6. CASE m # t
    <2>1. pc[m] = "wait" /\ p[m] = "wait" /\ vChecks[m] = {}
      BY <1>1, <1>2, <1>3, <1>6 DEF Batches
    <2>2. t \in Workers
      BY <1>3, <1>6, OneMaster DEF Threads
    <2>3. CASE vChecks'[t] # {}
      BY <2>2, <2>3
    <2>4. CASE vChecks'[t] = {} /\ vChecks[t] = {}
      BY <1>1, <2>1, <2>4 DEF MasterWillBeWoken, Threads
    <2>5. CASE vChecks'[t] = {} /\ vChecks[t] # {}
      <3>1. queue = {} /\ todo # 0
        BY <1>1, <1>6, <2>1, <2>5 DEF WhileQueueEmpty, TakeBatch, Return, Sleep
      <3> QED
        BY <1>1, <1>3, <1>4, <2>1, <3>1, AnotherHolder DEF Threads
    <2> QED
      BY <2>3, <2>4, <2>5
  <1> QED
    BY <1>5, <1>6

\* The section preserves the invariant.
LEMMA SectionInv ==
  ASSUME IInv, NEW t \in Threads, NEW p, NEW todo, NEW ok, NEW total, NEW idle,
         Section(t, p, todo, ok, total, idle), WhileQueueEmpty(t, p, todo, ok, total, idle)
  PROVE  IInv'
  <1> USE DEF IInv
  <1>1. TypeOK'
    <2>1. ControlMutex' = ControlMutex /\ added' = added
      BY DEF WhileQueueEmpty
    <2> QED
      BY <2>1, SectionShape, SectionCounters, SectionVerdict DEF TypeOK
  <1> QED
    BY <1>1, SectionCounters, SectionPlaces, SectionVerdict, SectionWakes

----------------------------------------------------------------------------
(* The steps, one lemma each where a counter or a set changes.             *)
\* A thread enters Loop and is counted in nTotal.
LEMMA FirstIterationInv ==
  ASSUME IInv, NEW t \in Threads, FirstIteration(t)
  PROVE  IInv'
  <1> USE DEF IInv
  <1>1. /\ pc[t] = "loop" /\ vChecks[t] = {}
        /\ WhileQueueEmpty(t, pc, nTodo, fAllOk, nTotal + 1, nIdle)
    BY DEF FirstIteration
  <1>2. t \notin Idle /\ t \notin Inside
    BY <1>1 DEF Idle, Inside
  <1>3. nTotal + 1 = Cardinality(Inside \cup {t})
    BY <1>2, FiniteSets1, FS_AddElement DEF Counters
  <1>4. nIdle = Cardinality(Idle \ {t})
    BY <1>2, FiniteSets1, FS_RemoveElement DEF Counters
  <1>5. Pending \ vChecks[t] = Pending
    BY <1>1
  <1>6. Section(t, pc, nTodo, fAllOk, nTotal + 1, nIdle)
    BY <1>1, <1>3, <1>4, <1>5 DEF Section, TypeOK, Verdict, Counters
  <1> QED
    BY <1>1, <1>6, SectionInv

\* A thread woken in cond.wait leaves nIdle and looks at the queue again.
LEMMA WakeUpInv ==
  ASSUME IInv, NEW t \in Threads, WakeUp(t)
  PROVE  IInv'
  <1> USE DEF IInv
  <1>1. /\ pc[t] = "woken" /\ WhileQueueEmpty(t, pc, nTodo, fAllOk, nTotal, nIdle - 1)
    BY DEF WakeUp
  <1>2. t \in Idle /\ t \in Inside /\ vChecks[t] = {}
    BY <1>1 DEF Idle, Inside, Batches
  <1>3. nTotal = Cardinality(Inside \cup {t})
    BY <1>2, FiniteSets1, FS_AddElement DEF Counters
  <1>4. nIdle - 1 = Cardinality(Idle \ {t})
    BY <1>2, FiniteSets1, FS_RemoveElement DEF Counters
  <1>5. Pending \ vChecks[t] = Pending
    BY <1>2
  <1>6. Section(t, pc, nTodo, fAllOk, nTotal, nIdle - 1)
    BY <1>1, <1>2, <1>3, <1>4, <1>5 DEF Section, TypeOK, Verdict, Counters
  <1> QED
    BY <1>1, <1>6, SectionInv

\* The clean-up subtracts the batch, and notifies the only master that can be
\* waiting when nothing is left.
LEMMA CleanUpInv ==
  ASSUME IInv, NEW t \in Threads, CleanUp(t)
  PROVE  IInv'
  <1> USE DEF IInv
  <1> DEFINE todo == nTodo - Cardinality(vChecks[t])
             ok == fAllOk /\ fOk[t]
  <1>1. pc[t] = "loop" /\ vChecks[t] # {}
    BY DEF CleanUp
  <1>2. PICK p \in IF todo = 0 /\ t \notin Masters THEN NotifyOne(Masters) ELSE {pc} :
               WhileQueueEmpty(t, p, todo, ok, nTotal, nIdle)
    BY DEF CleanUp
  <1>3. /\ p \in [Threads -> PC]
        /\ \A u \in Threads : p[u] = pc[u] \/ (pc[u] = "wait" /\ p[u] = "woken")
    BY <1>2 DEF NotifyOne, TypeOK, PC, Threads
  <1>4. todo = 0 /\ t \notin Masters => \A m \in Masters : p[m] # "wait"
    <2>1. SUFFICES ASSUME todo = 0, t \notin Masters, NEW m \in Masters, p[m] = "wait"
                   PROVE  FALSE
      OBVIOUS
    <2>2. pc[m] = "wait"
      BY <1>3, <2>1 DEF Threads
    <2>3. PICK n \in Masters : pc[n] = "wait" /\ p = [pc EXCEPT ![n] = "woken"]
      BY <1>2, <2>1, <2>2 DEF NotifyOne
    <2>4. n = m
      BY <2>2, <2>3, OneMaster
    <2> QED
      BY <2>1, <2>3, <2>4 DEF TypeOK, Threads
  <1>5. todo = Cardinality(Pending \ vChecks[t])
    BY BatchPending DEF Counters
  <1>6. t \notin Idle /\ t \in Inside
    BY <1>1 DEF Idle, Inside
  <1>7. nTotal = Cardinality(Inside \cup {t})
    BY <1>6, FiniteSets1, FS_AddElement DEF Counters
  <1>8. nIdle = Cardinality(Idle \ {t})
    BY <1>6, FiniteSets1, FS_RemoveElement DEF Counters
  <1>9. \A m \in Masters \ {t} : t \in Masters => p[m] # "wait"
    BY <1>1, <1>3, OneMaster DEF Threads
  <1>10. /\ ok \in BOOLEAN
         /\ Using /\ ok => added \ (Pending \ vChecks[t]) \subseteq Passes
         /\ ~ok => ~(added \subseteq Passes)
    BY <1>1 DEF Verdict, TypeOK
  <1> HIDE DEF todo, ok
  <1>11. Section(t, p, todo, ok, nTotal, nIdle)
    BY <1>1, <1>3, <1>4, <1>5, <1>7, <1>8, <1>9, <1>10 DEF Section
  <1> QED
    BY <1>2, <1>11, SectionInv

\* A batch that is run settles the fOk of its thread and nothing else.
LEMMA ExecuteInv ==
  ASSUME IInv, NEW t \in Threads, Execute(t)
  PROVE  IInv'
  <1> USE DEF IInv
  <1>1. /\ pc[t] = "exec" /\ vChecks[t] # {} /\ pc' = [pc EXCEPT ![t] = "loop"]
        /\ fOk' = [fOk EXCEPT ![t] = @ /\ vChecks[t] \subseteq Passes]
        /\ UNCHANGED <<vChecks, queue, nTodo, nIdle, nTotal, fAllOk, ControlMutex, added, fRet>>
    BY DEF Execute, Batches
  <1>2. Pending' = Pending
    BY <1>1 DEF Pending
  <1>3. Idle' = Idle /\ Inside' = Inside
    BY <1>1 DEF Idle, Inside, TypeOK
  <1>4. TypeOK' /\ Counters'
    BY <1>1, <1>2, <1>3 DEF TypeOK, Counters, PC
  <1>5. Batches' /\ Control' /\ MasterWillBeWoken'
    BY <1>1 DEF TypeOK, Batches, Control, MasterWillBeWoken, Threads
  <1>6. Using' => Using
    BY <1>1 DEF Using, TypeOK, Threads
  <1>7. vChecks[t] \subseteq added
    BY BatchPending DEF Verdict
  <1>8. Verdict'
    <2>1. \A u \in Threads : u # t => fOk'[u] = fOk[u] /\ pc'[u] = pc[u]
      BY <1>1 DEF TypeOK
    <2>2. fOk'[t] = (fOk[t] /\ vChecks[t] \subseteq Passes)
      BY <1>1 DEF TypeOK
    <2> QED
      BY <1>1, <1>2, <1>6, <1>7, <2>1, <2>2 DEF Verdict
  <1>9. Resting'
    BY <1>1, <1>2 DEF Resting, AtRest, TypeOK, Threads
  <1> QED
    BY <1>4, <1>5, <1>8, <1>9

\* Add: the checks of S are new, so that nTodo grows by their number.
LEMMA AddInv ==
  ASSUME IInv, NEW m \in Masters, NEW S \in SUBSET (Checks \ added), Add(m, S)
  PROVE  IInv'
  <1> USE DEF IInv
  <1>1. /\ pc[m] = "adding" /\ queue' = queue \cup S /\ added' = added \cup S
        /\ nTodo' = nTodo + Cardinality(S)
        /\ UNCHANGED <<vChecks, fOk, nIdle, nTotal, fAllOk, ControlMutex, fRet>>
    BY DEF Add
  <1>2. /\ pc' \in [Threads -> PC]
        /\ \A u \in Threads : pc'[u] = pc[u] \/ (pc[u] = "wait" /\ pc'[u] = "woken")
    BY DEF Add, NotifyOne, NotifyAll, TypeOK, PC, Threads
  <1>3. Pending' = Pending \cup S /\ Pending \cap S = {} /\ \A t \in Threads : vChecks[t] \cap S = {}
    BY <1>1, BatchPending DEF Pending, Verdict, TypeOK
  <1>4. IsFiniteSet(S)
    BY QueueAssumption, FS_Subset
  <1>5. nTodo' = Cardinality(Pending') /\ nTodo' \in Nat
    <2>1. Pending' = Pending \cup S /\ Cardinality(Pending \cap S) = 0
      BY <1>3, FS_EmptySet
    <2>2. Cardinality(Pending) \in Nat /\ Cardinality(S) \in Nat
      BY <1>4, FiniteSets1, FS_CardinalityType
    <2>3. Cardinality(Pending') = Cardinality(Pending) + Cardinality(S)
      <3>1. Cardinality(Pending \cup S) = Cardinality(Pending) + Cardinality(S) - Cardinality(Pending \cap S)
        BY <1>4, FiniteSets1, FS_Union
      <3>2. Cardinality(Pending \cup S) = Cardinality(Pending) + Cardinality(S)
        BY <2>1, <2>2, <3>1
      <3> QED
        BY <2>1, <3>2, Zenon
    <2>4. nTodo' = Cardinality(Pending) + Cardinality(S)
      BY <1>1 DEF Counters
    <2>5. nTodo' = Cardinality(Pending')
      BY <2>3, <2>4, Zenon
    <2> QED
      BY <2>2, <2>4, <2>5
  <1>6. Idle' = Idle /\ Inside' = Inside
    BY <1>1, <1>2 DEF Idle, Inside
  <1>7. TypeOK' /\ Counters'
    BY <1>1, <1>2, <1>5, <1>6 DEF TypeOK, Counters
  <1>8. Batches' /\ Control'
    BY <1>1, <1>2, <1>3 DEF Batches, Control, Threads
  <1>9. MasterWillBeWoken'
    BY <1>1, <1>2 DEF MasterWillBeWoken, Threads
  <1>10. Using
    BY <1>1 DEF Using
  <1>11. Verdict'
    BY <1>1, <1>2, <1>3, <1>10 DEF Verdict
  <1>12. Resting'
    <2>1. ControlMutex = {m}
      BY <1>1 DEF Control
    <2>2. \A n \in Masters : pc'[n] # "returned"
      BY <1>1, <1>2, OneMaster DEF Threads
    <2> QED
      BY <1>1, <2>1, <2>2 DEF Resting, NoOne
  <1> QED
    BY <1>7, <1>8, <1>9, <1>11, <1>12

\* A step that only moves one thread within, or outside, the sets counted.
LEMMA MoveInv ==
  ASSUME IInv, NEW t \in Threads, NEW place \in PC,
         pc' = [pc EXCEPT ![t] = place],
         UNCHANGED <<vChecks, fOk, queue, nTodo, nIdle, nTotal, fAllOk, ControlMutex, added, fRet>>,
         vChecks[t] = {},
         \/ pc[t] \in {"wait", "woken"} /\ place = "woken"
         \/ pc[t] \in {"wait", "woken"} /\ place = "gone" /\ t \in Workers
         \/ pc[t] = "new" /\ place = "loop"
         \/ pc[t] = "adding" /\ place = "loop"
  PROVE  IInv'
  <1> USE DEF IInv
  <1>1. /\ pc'[t] = place
        /\ \A u \in Threads \ {t} : pc'[u] = pc[u]
    BY DEF TypeOK
  <1>2. Pending' = Pending
    BY DEF Pending
  <1>3. Idle' = Idle /\ Inside' = Inside
    BY <1>1 DEF Idle, Inside
  <1>4. TypeOK' /\ Counters'
    BY <1>2, <1>3 DEF TypeOK, Counters
  <1>5. Batches' /\ Control'
    BY <1>1, QueueAssumption DEF Batches, Control, Threads
  <1>6. MasterWillBeWoken'
    BY <1>1 DEF MasterWillBeWoken, Threads
  <1>7. Using' => Using
    BY <1>1, <1>5, QueueAssumption DEF Using, Threads, Control
  <1>8. Verdict'
    BY <1>1, <1>2, <1>7 DEF Verdict
  <1>9. Resting'
    BY <1>1, <1>2 DEF Resting, AtRest, Threads
  <1> QED
    BY <1>4, <1>5, <1>6, <1>8, <1>9

\* A master takes the control of a queue at rest.
LEMMA NewControlInv ==
  ASSUME IInv, NEW m \in Masters, NewControl(m)
  PROVE  IInv'
  <1> USE DEF IInv
  <1>1. /\ pc[m] = "idle" /\ ControlMutex = NoOne /\ ControlMutex' = {m} /\ added' = {}
        /\ pc' = [pc EXCEPT ![m] = "adding"]
        /\ UNCHANGED <<vChecks, fOk, queue, nTodo, nIdle, nTotal, fAllOk, fRet>>
        /\ m \in Threads
    BY DEF NewControl, Threads
  <1>2. /\ pc'[m] = "adding"
        /\ \A u \in Threads \ {m} : pc'[u] = pc[u]
    BY <1>1 DEF TypeOK
  <1>3. Pending' = Pending /\ Pending = {} /\ fAllOk = TRUE
    BY <1>1 DEF Pending, Resting, AtRest
  <1>4. \A t \in Threads : vChecks[t] = {}
    BY <1>3, BatchPending
  <1>5. Idle' = Idle /\ Inside' = Inside
    BY <1>1, <1>2 DEF Idle, Inside
  <1>6. TypeOK' /\ Counters'
    BY <1>1, <1>3, <1>5 DEF TypeOK, Counters, PC
  <1>7. \A n \in Masters : n # m => pc'[n] = "idle"
    BY <1>1, <1>2 DEF Control, Threads, NoOne
  <1>8. Batches' /\ Control'
    BY <1>1, <1>2, <1>4, <1>7, QueueAssumption DEF Batches, Control, Threads
  <1>9. MasterWillBeWoken' /\ Verdict' /\ Resting'
    BY <1>1, <1>2, <1>3, <1>4, <1>7 DEF MasterWillBeWoken, Verdict, Resting, AtRest, NoOne
  <1> QED
    BY <1>6, <1>8, <1>9

\* The master leaves, and the queue is at rest.
LEMMA LeaveInv ==
  ASSUME IInv, NEW m \in Masters, Leave(m)
  PROVE  IInv'
  <1> USE DEF IInv
  <1>1. /\ pc[m] = "returned" /\ ControlMutex' = NoOne
        /\ pc' = [pc EXCEPT ![m] = "idle"]
        /\ UNCHANGED <<vChecks, fOk, queue, nTodo, nIdle, nTotal, fAllOk, added, fRet>>
        /\ m \in Threads
    BY DEF Leave, Threads
  <1>2. /\ pc'[m] = "idle"
        /\ \A u \in Threads \ {m} : pc'[u] = pc[u]
    BY <1>1 DEF TypeOK
  <1>3. Pending' = Pending /\ Pending = {} /\ fAllOk = TRUE
    BY <1>1 DEF Pending, Resting, AtRest
  <1>4. \A t \in Threads : vChecks[t] = {}
    BY <1>3, BatchPending
  <1>5. Idle' = Idle /\ Inside' = Inside
    BY <1>1, <1>2 DEF Idle, Inside
  <1>6. TypeOK' /\ Counters'
    BY <1>1, <1>3, <1>5 DEF TypeOK, Counters, PC
  <1>7. \A n \in Masters : pc'[n] = "idle"
    BY <1>1, <1>2, OneMaster DEF Threads
  <1>8. Batches' /\ Control'
    BY <1>1, <1>2, <1>4, <1>7, QueueAssumption DEF Batches, Control, Threads, NoOne
  <1>9. MasterWillBeWoken' /\ Verdict' /\ Resting'
    BY <1>1, <1>3, <1>4, <1>7 DEF MasterWillBeWoken, Verdict, Using, Resting, AtRest
  <1> QED
    BY <1>6, <1>8, <1>9

----------------------------------------------------------------------------
\* The invariant is inductive: the constructor establishes it, and every
\* critical section of the queue and every batch that is run preserves it.
LEMMA InvInit == Init => IInv
  <1> SUFFICES ASSUME Init PROVE IInv
    OBVIOUS
  <1>1. Pending = {} /\ Idle = {} /\ Inside = {}
    BY DEF Init, Pending, Idle, Inside
  <1>2. TypeOK /\ Counters
    BY <1>1, FS_EmptySet DEF Init, TypeOK, Counters, PC, NoOne
  <1>3. Batches /\ Control
    BY QueueAssumption DEF Init, Batches, Control, NoOne, Threads
  <1>4. Verdict /\ Resting /\ MasterWillBeWoken
    BY <1>1, QueueAssumption DEF Init, Verdict, Using, Resting, AtRest, MasterWillBeWoken, Threads
  <1> QED
    BY <1>2, <1>3, <1>4 DEF IInv

\* Every step preserves the invariant.
LEMMA InvNext == IInv /\ [Next]_vars => IInv'
  <1> SUFFICES ASSUME IInv, [Next]_vars PROVE IInv'
    OBVIOUS
  <1>1. \A t \in Threads : pc[t] \in {"wait", "woken", "new", "adding"} => vChecks[t] = {}
    BY DEF IInv, Batches
  <1>2. ASSUME NEW m \in Masters, NewControl(m) PROVE IInv'
    BY <1>2, NewControlInv
  <1>3. ASSUME NEW m \in Masters, Wait(m) PROVE IInv'
    BY <1>1, <1>3, MoveInv DEF Wait, Threads, PC
  <1>4. ASSUME NEW m \in Masters, Leave(m) PROVE IInv'
    BY <1>4, LeaveInv
  <1>5. ASSUME NEW m \in Masters, NEW S \in SUBSET (Checks \ added), Add(m, S) PROVE IInv'
    BY <1>5, AddInv
  <1>6. ASSUME NEW t \in Threads, Loop(t) PROVE IInv'
    BY <1>6, FirstIterationInv, CleanUpInv, WakeUpInv, ExecuteInv DEF Loop
  <1>7. ASSUME NEW t \in Threads, SpuriousWakeUp(t) PROVE IInv'
    BY <1>1, <1>7, MoveInv DEF SpuriousWakeUp, PC
  <1>8. ASSUME NEW w \in Workers, Thread(w) PROVE IInv'
    BY <1>1, <1>8, MoveInv DEF Thread, Threads, PC
  <1>9. ASSUME NEW w \in Workers, Interrupt(w) PROVE IInv'
    BY <1>1, <1>9, MoveInv DEF Interrupt, Threads, PC
  <1>10. CASE UNCHANGED vars
    BY <1>10 DEF vars, IInv, TypeOK, Counters, Pending, Idle, Inside, Batches, Control, Verdict,
                 Using, Resting, AtRest, MasterWillBeWoken
  <1> QED
    BY <1>2, <1>3, <1>4, <1>5, <1>6, <1>7, <1>8, <1>9, <1>10 DEF Next

\* The invariant holds throughout.
THEOREM QueueInvariant == Spec => []IInv
  BY InvInit, InvNext, PTL DEF Spec

\* For any number of workers, masters and checks, Wait() returns TRUE iff all
\* the checks added under its control pass, and leaves nothing in the queue
\* or in a batch (the fRet of Loop).
THEOREM WaitSound == Spec => []WaitIsSound
  <1>1. IInv => WaitIsSound
    <2> SUFFICES ASSUME IInv, NEW m \in Masters, pc[m] = "returned"
                 PROVE  /\ fRet <=> added \subseteq Passes
                        /\ queue = {} /\ nTodo = 0
                        /\ \A t \in Threads : vChecks[t] = {}
      BY DEF WaitIsSound, IInv
    <2>1. Pending = {} /\ (fRet <=> added \subseteq Passes)
      BY DEF IInv, Resting, AtRest
    <2>2. queue = {} /\ \A t \in Threads : vChecks[t] = {}
      BY <2>1 DEF IInv, TypeOK, Pending
    <2>3. nTodo = 0
      BY <2>1, FS_EmptySet DEF IInv, Counters
    <2> QED
      BY <2>1, <2>2, <2>3
  <1> QED
    BY <1>1, QueueInvariant, PTL

\* A master that sleeps in Wait() has a worker that will notify it: the test
\* of nTodo and the notification of condMaster never miss each other.
THEOREM NoLostWakeUp == Spec => []MasterWillBeWoken
  <1>1. IInv => MasterWillBeWoken
    BY DEF IInv
  <1> QED
    BY <1>1, QueueInvariant, PTL

=============================================================================
