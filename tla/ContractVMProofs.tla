-------------------------- MODULE ContractVMProofs --------------------------
(***************************************************************************)
(* Coins and data of the contracts, for every instance of ContractVM.      *)
(*                                                                         *)
(* While a transaction runs the books of a contract on the stack are open: *)
(* its data is in its Lua state, and its cache entry, if any, is that of   *)
(* an earlier frame.  The invariant says what the Lua state holds then,    *)
(* and that the cache of every contract off the stack is settled.          *)
(***************************************************************************)
EXTENDS ContractVM, TLAPS

Published(c) == tx.kind = "publish" /\ c = tx.target

\* The context of c that accounts for all the transaction did so far.
Expected(c) == [coins |-> prev[c].coins - out[c], data |-> saved[c].data + changes[c]]

\* c has no frame on the stack, and its cache entry is up to date.
Settled(c) ==
    IF cache[c] = Absent THEN out[c] = 0 /\ changes[c] = 0
    ELSE prev[c] # Absent /\ cache[c] = Expected(c)

\* c has a frame on the stack.
Open(c) ==
    IF Published(c)
    THEN saved[c] = Absent /\ prev[c] = Absent /\ cache[c] = Absent /\ env[c] = changes[c]
    ELSE prev[c] # Absent /\ env[c] = saved[c].data + changes[c]

\* What was read before, and what was sent of it.
Spent(c) ==
    IF prev[c] = Absent THEN out[c] = 0 /\ (pc = "run" => cache[c] = Absent)
    ELSE prev[c] = saved[c] /\ out[c] <= prev[c].coins

\* The contract the finished transaction was sent to.
Finished(c) ==
    IF tx.kind = "publish"
    THEN /\ saved[c] = Absent /\ prev[c] = Absent
         /\ cache[c] = [coins |-> tx.payment, data |-> changes[c]]
    ELSE /\ prev[c] # Absent
         /\ cache[c] = [coins |-> prev[c].coins - out[c] + tx.payment,
                        data |-> saved[c].data + changes[c]]

Running ==
    pc = "run" =>
        /\ stack[1] = tx.target
        /\ \A c \in Contracts : IF On(stack, c) THEN Open(c) ELSE Settled(c)

Ended ==
    pc = "done" => \A c \in Contracts : IF c = tx.target THEN Finished(c) ELSE Settled(c)

Books ==
    \A c \in Contracts :
        IF saved[c] = Absent THEN ledger[c] = [coins |-> 0, data |-> 0]
        ELSE saved[c].coins = ledger[c].coins /\ saved[c].data = ledger[c].data

IInv ==
    /\ TypeOK
    /\ Books
    /\ pc # "idle" => \A c \in Contracts : Spent(c)
    /\ LuaStatesInUse
    /\ Running
    /\ Ended

-----------------------------------------------------------------------------
\* A call pushes its contract (contractAddrs.emplace_back).
LEMMA Pushed ==
    ASSUME NEW s \in Seq(Contracts), NEW c \in Contracts
    PROVE  /\ Append(s, c) \in Seq(Contracts)
           /\ Len(Append(s, c)) = Len(s) + 1
           /\ Append(s, c) # <<>>
           /\ s # <<>> => Append(s, c)[1] = s[1]
           /\ \A d : On(Append(s, c), d) <=> On(s, d) \/ d = c
<1>1. /\ Append(s, c) \in Seq(Contracts)
      /\ Len(Append(s, c)) = Len(s) + 1
      /\ \A i \in 1..Len(s) : Append(s, c)[i] = s[i]
      /\ Append(s, c)[Len(s) + 1] = c
  OBVIOUS
<1>2. \A d : On(Append(s, c), d) <=> On(s, d) \/ d = c
  BY <1>1 DEF On
<1>3. s # <<>> => Len(s) > 0
  OBVIOUS
<1> QED
  BY <1>1, <1>2, <1>3

\* A return pops it (contractAddrs.resize).
LEMMA Popped ==
    ASSUME NEW s \in Seq(Contracts), s # <<>>
    PROVE  LET t == SubSeq(s, 1, Len(s) - 1) IN
           /\ t \in Seq(Contracts)
           /\ Len(t) = Len(s) - 1
           /\ s[Len(s)] \in Contracts
           /\ Len(s) > 1 => t # <<>> /\ t[1] = s[1]
           /\ \A d : On(s, d) <=> On(t, d) \/ d = s[Len(s)]
<1>1. PICK n \in Nat : Len(s) = n + 1
  <2>1. Len(s) \in Nat /\ Len(s) # 0
    OBVIOUS
  <2> QED BY <2>1
<1> DEFINE t == SubSeq(s, 1, n)
<1>2. t \in Seq(Contracts) /\ Len(t) = n /\ \A i \in 1..n : t[i] = s[i]
  BY <1>1
<1> HIDE DEF t
<1>3. s[n + 1] \in Contracts
  BY <1>1
<1>4. n > 0 => t # <<>> /\ t[1] = s[1]
  BY <1>2
<1>5. \A d : On(s, d) <=> On(t, d) \/ d = s[n + 1]
  BY <1>1, <1>2 DEF On
<1>6. Len(s) - 1 = n /\ (Len(s) > 1 => n > 0)
  BY <1>1
<1> QED
  BY <1>1, <1>2, <1>3, <1>4, <1>5, <1>6, Zenon DEF t

\* The constructor's state, and the empty database.
LEMMA InitIInv == Init => IInv
<1> SUFFICES ASSUME Init PROVE IInv
  OBVIOUS
<1> USE ConstantsAssumption
<1>1. TypeOK
  BY DEF Init, TypeOK, None, Zero, MaybeContext, Context
<1> QED
  BY <1>1 DEF Init, IInv, Books, LuaStatesInUse, Running, Ended, None

\* Arithmetic of a contract that sent and changed nothing.
LEMMA AddZero ==
    \A i \in Int : 0 - 0 + i = i /\ 0 + i = i /\ i + 0 = i /\ i - 0 = i
OBVIOUS

\* Entries of the ledger with the same coins and data are the same.
LEMMA SameFields ==
    \A r, s \in [coins : Int, data : Int] : r.coins = s.coins /\ r.data = s.data => r = s
OBVIOUS

\* A transaction starts: Initialize leaves nothing of the one before.
LEMMA PublishIInv ==
    ASSUME IInv, NEW c \in Contracts, NEW p \in Payments, Publish(c, p)
    PROVE  IInv'
<1> USE ConstantsAssumption
<1>1. /\ stack' = <<c>> /\ <<c>> \in Seq(Contracts) /\ Len(<<c>>) = 1
      /\ <<c>> # <<>> /\ <<c>>[1] = c /\ \A d : On(<<c>>, d) <=> d = c
  BY DEF Publish, On
<1>2. TypeOK'
  BY <1>1 DEF IInv, TypeOK, Publish, None, Zero, MaybeContext, Context, Tx
<1>3. Books'
  BY DEF IInv, Books, Publish
<1>4. \A d \in Contracts : Spent(d)'
  BY DEF Publish, Spent, None, Zero
<1>5. LuaStatesInUse'
  BY <1>1 DEF Publish, LuaStatesInUse
<1>6. Running'
  <2>1. Open(c)'
    <3>1. env'[c] = 0 /\ changes'[c] = 0
      BY DEF IInv, TypeOK, Publish, Zero
    <3>2. saved'[c] = Absent /\ prev'[c] = Absent /\ cache'[c] = Absent
      BY DEF Publish, None
    <3>3. Published(c)'
      BY DEF Publish, Published
    <3> QED BY <3>1, <3>2, <3>3 DEF Open
  <2>2. ASSUME NEW d \in Contracts PROVE Settled(d)'
    BY DEF Publish, Settled, None, Zero
  <2>3. stack'[1] = tx'.target
    BY <1>1 DEF Publish
  <2> QED
    BY <1>1, <2>1, <2>2, <2>3, Zenon DEF Running
<1> QED
  BY <1>2, <1>3, <1>4, <1>5, <1>6 DEF IInv, Ended, Publish

\* The same for a call, whose contract is the first one read.
LEMMA CallIInv ==
    ASSUME IInv, NEW c \in Contracts, NEW p \in Payments, Call(c, p)
    PROVE  IInv'
<1> USE ConstantsAssumption
<1>1. /\ stack' = <<c>> /\ <<c>> \in Seq(Contracts) /\ Len(<<c>>) = 1
      /\ <<c>> # <<>> /\ <<c>>[1] = c /\ \A d : On(<<c>>, d) <=> d = c
  BY DEF Call, On
<1>2. saved[c] \in Context
  BY DEF IInv, TypeOK, Call, MaybeContext
<1>3. TypeOK'
  BY <1>1, <1>2 DEF IInv, TypeOK, Call, None, Zero, MaybeContext, Context, Tx
<1>4. Books'
  BY DEF IInv, Books, Call
<1>5. \A d \in Contracts : Spent(d)'
  BY <1>2 DEF Call, Spent, None, Zero, Context
<1>6. LuaStatesInUse'
  BY <1>1 DEF Call, LuaStatesInUse
<1>7. Running'
  <2>1. Open(c)'
    BY <1>2 DEF IInv, TypeOK, Call, Open, Published, None, Zero, Context
  <2>2. ASSUME NEW d \in Contracts, d # c PROVE Settled(d)'
    BY DEF Call, Settled, None, Zero
  <2>3. stack'[1] = tx'.target
    BY <1>1 DEF Call
  <2> QED
    BY <1>1, <2>1, <2>2, <2>3, Zenon DEF Running
<1> QED
  BY <1>3, <1>4, <1>5, <1>6, <1>7 DEF IInv, Ended, Call

\* A contract calls another, or one that is on the stack.
LEMMA InternalCallIInv ==
    ASSUME IInv, NEW c \in Contracts, InternalCallContract(c)
    PROVE  IInv'
<1> USE ConstantsAssumption
<1>1. /\ pc = "run" /\ pc' = "run" /\ stack \in Seq(Contracts) /\ stack # <<>>
      /\ stack' = Append(stack, c) /\ Len(stack) < MAX_INTERNAL_CALL_NUM
  BY DEF IInv, TypeOK, InternalCallContract, DepthOK
<1>2. /\ stack' \in Seq(Contracts) /\ Len(stack') = Len(stack) + 1
      /\ stack' # <<>> /\ stack'[1] = stack[1]
      /\ \A d : On(stack', d) <=> On(stack, d) \/ d = c
  BY <1>1, Pushed
<1>3. /\ \A d \in Contracts : d \in using <=> On(stack, d)
      /\ \A d \in Contracts : Spent(d)
      /\ \A d \in Contracts : IF On(stack, d) THEN Open(d) ELSE Settled(d)
  BY <1>1 DEF IInv, LuaStatesInUse, Running
<1>4. Lookup(c) \in Context /\ (prev[c] = Absent => cache[c] = Absent /\ saved[c] = Lookup(c))
  BY <1>1, <1>3 DEF IInv, TypeOK, InternalCallContract, Lookup, MaybeContext, Spent
<1>5. Top \in Contracts
  BY <1>1, Popped DEF Top
<1>6. TypeOK'
  <2>1. using' \subseteq Contracts /\ env' \in [Contracts -> Nat]
        /\ sender' \in [Contracts -> Contracts \cup {User}]
    <3>1. CASE c \in using
      BY <3>1 DEF IInv, TypeOK, InternalCallContract, GetLuaState
    <3>2. CASE c \notin using
      <4>1. Lookup(c).data \in Nat
        BY <1>4 DEF Context
      <4>2. /\ using' = using \cup {c}
            /\ env' = [env EXCEPT ![c] = Lookup(c).data]
            /\ sender' = [sender EXCEPT ![c] = Top]
        BY <3>2 DEF InternalCallContract, GetLuaState
      <4> QED BY <1>5, <4>1, <4>2 DEF IInv, TypeOK
    <3> QED BY <3>1, <3>2
  <2>2. prev' \in [Contracts -> MaybeContext]
    BY <1>4 DEF IInv, TypeOK, InternalCallContract, MaybeContext
  <2>3. Len(stack') <= MAX_INTERNAL_CALL_NUM
    BY <1>1, <1>2
  <2> QED
    BY <1>1, <1>2, <2>1, <2>2, <2>3 DEF IInv, TypeOK, InternalCallContract
<1>7. Books'
  BY DEF IInv, Books, InternalCallContract
<1>8. ASSUME NEW d \in Contracts PROVE Spent(d)'
  <2>1. CASE d = c /\ prev[c] = Absent
    <3>1. prev'[c] = saved[c] /\ saved[c] \in Context /\ out[c] = 0
      BY <1>3, <1>4, <2>1 DEF IInv, TypeOK, InternalCallContract, Spent
    <3> QED BY <2>1, <3>1 DEF InternalCallContract, Spent, Context
  <2>2. CASE ~(d = c /\ prev[c] = Absent)
    <3>1. prev'[d] = prev[d]
      BY <2>2 DEF IInv, TypeOK, InternalCallContract
    <3> QED BY <1>1, <1>3, <3>1 DEF InternalCallContract, Spent
  <2> QED BY <2>1, <2>2
<1>9. LuaStatesInUse'
  <2>1. using' = using \cup {c}
    BY DEF InternalCallContract, GetLuaState
  <2>2. \A d \in Contracts : d \in using' <=> On(stack', d)
    BY <1>2, <1>3, <2>1, Zenon
  <2>3. using' \subseteq Contracts
    BY <1>6 DEF TypeOK
  <2> QED BY <2>2, <2>3, Zenon DEF LuaStatesInUse
<1>10. Running'
  <2>1. stack'[1] = tx'.target
    BY <1>1, <1>2 DEF IInv, Running, InternalCallContract
  <2>2. ASSUME NEW d \in Contracts, d # c
        PROVE  (IF On(stack, d) THEN Open(d) ELSE Settled(d))'
    <3>1. prev'[d] = prev[d] /\ env'[d] = env[d]
      BY <2>2 DEF IInv, TypeOK, InternalCallContract, GetLuaState
    <3>2. saved' = saved /\ cache' = cache /\ out' = out /\ changes' = changes /\ tx' = tx
      BY DEF InternalCallContract
    <3>3. Open(d) => Open(d)'
      BY <3>1, <3>2 DEF Open, Published
    <3>4. Settled(d) => Settled(d)'
      BY <3>1, <3>2 DEF Settled, Expected
    <3>5. On(stack', d) <=> On(stack, d)
      BY <1>2, <2>2
    <3> QED BY <1>3, <3>3, <3>4, <3>5, Zenon
  <2>3. CASE On(stack, c)
    <3>1. Open(c)'
      BY <1>1, <1>3, <1>4, <2>3
         DEF IInv, TypeOK, InternalCallContract, GetLuaState, Open, Published, Context
    <3> QED
      BY <1>2, <2>1, <2>2, <3>1, Zenon DEF Running
  <2>4. CASE ~On(stack, c)
    <3>1. ~Published(c)
      <4>1. On(stack, stack[1])
        BY <1>1 DEF On
      <4> QED BY <1>1, <2>4, <4>1 DEF IInv, Running, Published
    <3>2. prev'[c] # Absent /\ env'[c] = Lookup(c).data
      BY <1>3, <1>4, <2>4 DEF IInv, TypeOK, InternalCallContract, GetLuaState, Context
    <3>3. Lookup(c).data = saved[c].data + changes[c]
      BY <1>3, <1>4, <2>4 DEF IInv, TypeOK, Settled, Expected, Lookup, Context, MaybeContext
    <3>4. Open(c)'
      BY <3>1, <3>2, <3>3 DEF Open, Published, InternalCallContract
    <3> QED
      BY <1>2, <2>1, <2>2, <3>4, Zenon DEF Running
  <2> QED
    BY <2>3, <2>4
<1> QED
  BY <1>1, <1>6, <1>7, <1>8, <1>9, <1>10 DEF IInv, Ended

\* The contract on top sends coins.
LEMMA SendIInv ==
    ASSUME IInv, NEW a \in Amounts, SendCoins(a)
    PROVE  IInv'
<1> USE ConstantsAssumption
<1>1. /\ pc = "run" /\ pc' = "run" /\ stack' = stack /\ stack \in Seq(Contracts) /\ stack # <<>>
      /\ a \in Nat
  BY DEF IInv, TypeOK, SendCoins
<1>2. Top \in Contracts /\ On(stack, Top)
  <2>1. Len(stack) \in 1..Len(stack)
    BY <1>1
  <2> QED BY <1>1, <2>1, Popped DEF Top, On
<1>3. Open(Top) /\ Spent(Top)
  BY <1>1, <1>2 DEF IInv, Running
<1>4. prev[Top] # Absent /\ prev[Top] \in Context
  BY <1>2, <1>3 DEF IInv, TypeOK, SendCoins, Lookup, Open, MaybeContext
<1>5. /\ out'[Top] = out[Top] + a /\ out'[Top] \in Nat /\ out'[Top] <= prev[Top].coins
      /\ \A d \in Contracts : d # Top => out'[d] = out[d]
  <2>1. out' = [out EXCEPT ![Top] = out[Top] + a] /\ out \in [Contracts -> Nat]
    BY DEF IInv, TypeOK, SendCoins
  <2>2. out[Top] + a <= prev[Top].coins
    BY DEF SendCoins, EnoughCoins
  <2> QED BY <1>1, <1>2, <2>1, <2>2
<1>6. TypeOK'
  <2>1. out' \in [Contracts -> Nat]
    <3>1. out' = [out EXCEPT ![Top] = out[Top] + a] /\ out \in [Contracts -> Nat]
      BY DEF IInv, TypeOK, SendCoins
    <3> QED BY <1>1, <1>2, <3>1
  <2> QED BY <1>1, <2>1 DEF IInv, TypeOK, SendCoins
<1>7. Books'
  BY DEF IInv, Books, SendCoins
<1>8. ASSUME NEW d \in Contracts PROVE Spent(d)'
  <2>1. CASE d = Top
    BY <1>3, <1>4, <1>5, <2>1 DEF SendCoins, Spent
  <2>2. CASE d # Top
    BY <1>1, <1>5, <2>2 DEF IInv, SendCoins, Spent
  <2> QED BY <2>1, <2>2
<1>9. LuaStatesInUse'
  BY DEF IInv, LuaStatesInUse, SendCoins
<1>10. Running'
  <2>1. ASSUME NEW d \in Contracts, On(stack, d) PROVE Open(d)'
    BY <1>1, <2>1 DEF IInv, Running, SendCoins, Open, Published
  <2>2. ASSUME NEW d \in Contracts, ~On(stack, d) PROVE Settled(d)'
    BY <1>1, <1>2, <1>5, <2>2 DEF IInv, Running, SendCoins, Settled, Expected
  <2> QED
    BY <1>1, <2>1, <2>2 DEF IInv, Running, SendCoins
<1> QED
  BY <1>1, <1>6, <1>7, <1>8, <1>9, <1>10 DEF IInv, Ended

\* The contract on top changes its data.
LEMMA ChangeIInv ==
    ASSUME IInv, ChangeData
    PROVE  IInv'
<1> USE ConstantsAssumption
<1>1. pc = "run" /\ pc' = "run" /\ stack' = stack /\ stack \in Seq(Contracts) /\ stack # <<>>
  BY DEF IInv, TypeOK, ChangeData
<1>2. Top \in Contracts /\ On(stack, Top)
  <2>1. Len(stack) \in 1..Len(stack)
    BY <1>1
  <2> QED BY <1>1, <2>1, Popped DEF Top, On
<1>3. /\ env'[Top] = env[Top] + 1 /\ changes'[Top] = changes[Top] + 1
      /\ \A d \in Contracts : d # Top => env'[d] = env[d] /\ changes'[d] = changes[d]
  BY <1>2 DEF IInv, TypeOK, ChangeData
<1>4. TypeOK'
  <2>1. env' \in [Contracts -> Nat] /\ changes' \in [Contracts -> Nat]
    <3>1. /\ env' = [env EXCEPT ![Top] = env[Top] + 1] /\ env \in [Contracts -> Nat]
          /\ changes' = [changes EXCEPT ![Top] = changes[Top] + 1] /\ changes \in [Contracts -> Nat]
      BY DEF IInv, TypeOK, ChangeData
    <3> QED BY <1>2, <3>1
  <2> QED BY <1>1, <2>1 DEF IInv, TypeOK, ChangeData
<1>5. Books'
  BY DEF IInv, Books, ChangeData
<1>6. \A d \in Contracts : Spent(d)'
  BY <1>1 DEF IInv, ChangeData, Spent
<1>7. LuaStatesInUse'
  BY DEF IInv, LuaStatesInUse, ChangeData
<1>8. Running'
  <2>1. ASSUME NEW d \in Contracts, On(stack, d) PROVE Open(d)'
    <3>1. CASE d = Top
      <4>1. prev[d] # Absent => prev[d] \in Context /\ prev[d] = saved[d]
        BY <1>1 DEF IInv, TypeOK, Spent, MaybeContext
      <4>2. Open(d) /\ changes[d] \in Nat
        BY <1>1, <2>1 DEF IInv, TypeOK, Running
      <4>3. CASE Published(d)
        BY <1>3, <3>1, <4>2, <4>3 DEF ChangeData, Open, Published
      <4>4. CASE ~Published(d)
        <5>1. prev[d] # Absent /\ env[d] = saved[d].data + changes[d] /\ saved[d].data \in Nat
          BY <4>1, <4>2, <4>4 DEF Open, Context
        <5>2. env'[d] = saved[d].data + changes'[d]
          BY <1>3, <3>1, <4>2, <5>1
        <5> QED BY <4>4, <5>1, <5>2 DEF ChangeData, Open, Published
      <4> QED BY <4>3, <4>4
    <3>2. CASE d # Top
      BY <1>1, <1>3, <2>1, <3>2 DEF IInv, Running, ChangeData, Open, Published
    <3> QED BY <3>1, <3>2
  <2>2. ASSUME NEW d \in Contracts, ~On(stack, d) PROVE Settled(d)'
    <3>1. d # Top
      BY <1>2, <2>2
    <3> QED BY <1>1, <1>3, <2>2, <3>1 DEF IInv, Running, ChangeData, Settled, Expected
  <2> QED
    BY <1>1, <2>1, <2>2 DEF IInv, Running, ChangeData
<1> QED
  BY <1>1, <1>4, <1>5, <1>6, <1>7, <1>8 DEF IInv, Ended

\* A frame of the contract returns: its Lua state survives below it, or its
\* cache entry is set.
LEMMA ReleaseIInv ==
    ASSUME IInv, pc = "run", ReleaseLuaState, stack' = Below
    PROVE  /\ stack' \in Seq(Contracts) /\ Len(stack') = Len(stack) - 1
           /\ Top \in Contracts /\ On(stack, Top)
           /\ Len(stack) > 1 => stack' # <<>> /\ stack'[1] = stack[1]
           /\ \A d : On(stack, d) <=> On(stack', d) \/ d = Top
           /\ using' = {d \in Contracts : On(stack', d)}
<1>1. stack \in Seq(Contracts) /\ stack # <<>>
  BY DEF IInv, TypeOK
<1>2. /\ stack' \in Seq(Contracts) /\ Len(stack') = Len(stack) - 1
      /\ Top \in Contracts
      /\ Len(stack) > 1 => stack' # <<>> /\ stack'[1] = stack[1]
      /\ \A d : On(stack, d) <=> On(stack', d) \/ d = Top
  BY <1>1, Popped DEF Below, Top
<1>3. using = {d \in Contracts : On(stack, d)}
  BY DEF IInv, LuaStatesInUse
<1>4. using' = IF On(stack', Top) THEN using ELSE using \ {Top}
  BY DEF ReleaseLuaState
<1>5. using' = {d \in Contracts : On(stack', d)}
  BY <1>2, <1>3, <1>4, Zenon
<1> QED
  BY <1>2, <1>5, Zenon

\* A call within the transaction returns.
LEMMA ReturnInternalIInv ==
    ASSUME IInv, ReturnInternal
    PROVE  IInv'
<1> USE ConstantsAssumption
<1>1. pc = "run" /\ pc' = "run" /\ Len(stack) > 1 /\ ReleaseLuaState /\ stack' = Below
      /\ Len(stack) <= MAX_INTERNAL_CALL_NUM /\ stack \in Seq(Contracts)
  BY DEF IInv, TypeOK, ReturnInternal
<1>2. /\ stack' \in Seq(Contracts) /\ Len(stack') = Len(stack) - 1
      /\ Top \in Contracts /\ On(stack, Top)
      /\ stack' # <<>> /\ stack'[1] = stack[1]
      /\ \A d : On(stack, d) <=> On(stack', d) \/ d = Top
      /\ using' = {d \in Contracts : On(stack', d)}
  BY <1>1, ReleaseIInv
<1>3. Open(Top) /\ Spent(Top)
  BY <1>1, <1>2 DEF IInv, Running
<1>4. ~On(stack', Top) => ~Published(Top)
  <2>1. On(stack', stack'[1])
    BY <1>2 DEF On
  <2> QED BY <1>1, <1>2, <2>1 DEF IInv, Running, Published
<1>5. ~On(stack', Top) =>
          /\ prev[Top] # Absent /\ prev[Top] = saved[Top] /\ prev[Top] \in Context
          /\ out[Top] <= prev[Top].coins /\ env[Top] = saved[Top].data + changes[Top]
  BY <1>2, <1>3, <1>4 DEF IInv, TypeOK, Open, Spent, MaybeContext
<1>6. ~On(stack', Top) => Returned(Top) \in Context /\ Returned(Top) = Expected(Top)
  <2> SUFFICES ASSUME ~On(stack', Top)
               PROVE  Returned(Top) \in Context /\ Returned(Top) = Expected(Top)
    OBVIOUS
  <2>1. out[Top] \in Nat /\ env[Top] \in Nat
    BY <1>2 DEF IInv, TypeOK
  <2>2. prev[Top].coins \in Nat /\ out[Top] <= prev[Top].coins
    BY <1>5 DEF Context
  <2>3. prev[Top].coins - out[Top] \in Nat
    BY <2>1, <2>2
  <2> QED BY <1>5, <2>1, <2>3 DEF Returned, Expected, Context
<1>7. cache' = IF On(stack', Top) THEN cache ELSE [cache EXCEPT ![Top] = Returned(Top)]
  BY <1>1 DEF ReturnInternal
<1>8. TypeOK'
  <2>1. cache' \in [Contracts -> MaybeContext]
    BY <1>2, <1>6, <1>7 DEF IInv, TypeOK, MaybeContext
  <2>2. Len(stack') <= MAX_INTERNAL_CALL_NUM
    BY <1>1, <1>2
  <2>3. using' \subseteq Contracts
    BY <1>2, Zenon
  <2> QED BY <1>1, <1>2, <2>1, <2>2, <2>3 DEF IInv, TypeOK, ReturnInternal
<1>9. Books'
  BY DEF IInv, Books, ReturnInternal
<1>10. ASSUME NEW d \in Contracts PROVE cache'[d] # cache[d] => d = Top /\ ~On(stack', Top)
  BY <1>2, <1>7 DEF IInv, TypeOK
<1>11. ASSUME NEW d \in Contracts PROVE Spent(d)'
  BY <1>1, <1>5, <1>10 DEF IInv, Spent, ReturnInternal
<1>12. Running'
  <2>1. ASSUME NEW d \in Contracts, On(stack', d) PROVE Open(d)'
    <3>1. cache'[d] = cache[d] /\ Open(d)
      BY <1>1, <1>2, <1>10, <2>1 DEF IInv, Running
    <3> QED BY <3>1 DEF ReturnInternal, Open, Published
  <2>2. ASSUME NEW d \in Contracts, ~On(stack', d), d # Top PROVE Settled(d)'
    <3>1. cache'[d] = cache[d] /\ Settled(d)
      BY <1>1, <1>2, <1>10, <2>2 DEF IInv, Running
    <3> QED BY <3>1 DEF ReturnInternal, Settled, Expected
  <2>3. ~On(stack', Top) => prev[Top] # Absent /\ cache'[Top] = Expected(Top) /\ cache'[Top] # Absent
    BY <1>2, <1>5, <1>6, <1>7 DEF IInv, TypeOK
  <2>4. ASSUME NEW d \in Contracts, ~On(stack', d), d = Top PROVE Settled(d)'
    BY <2>3, <2>4 DEF ReturnInternal, Settled, Expected
  <2> QED BY <1>1, <1>2, <2>1, <2>2, <2>4 DEF IInv, Running, ReturnInternal
<1>13. LuaStatesInUse'
  BY <1>2 DEF LuaStatesInUse
<1> QED
  BY <1>1, <1>8, <1>9, <1>11, <1>12, <1>13 DEF IInv, Ended

\* The transaction's own frame returns.
LEMMA ReturnTxIInv ==
    ASSUME IInv, ReturnTx
    PROVE  IInv'
<1> USE ConstantsAssumption
<1>1. pc = "run" /\ pc' = "done" /\ Len(stack) = 1 /\ ReleaseLuaState /\ stack' = Below
      /\ stack \in Seq(Contracts) /\ tx \in Tx /\ tx' = tx
  BY DEF IInv, TypeOK, ReturnTx
<1>2. /\ stack' \in Seq(Contracts) /\ Len(stack') = Len(stack) - 1
      /\ Top \in Contracts /\ On(stack, Top)
      /\ \A d : On(stack, d) <=> On(stack', d) \/ d = Top
      /\ using' = {d \in Contracts : On(stack', d)}
  BY <1>1, ReleaseIInv
<1>3. stack' = <<>> /\ \A d : ~On(stack', d)
  <2>1. Len(stack') = 0
    BY <1>1, <1>2
  <2>2. stack' = <<>>
    BY <1>2, <2>1
  <2> QED BY <2>1, <2>2 DEF On
<1>4. Top = tx.target /\ Open(Top) /\ Spent(Top)
  BY <1>1, <1>2 DEF IInv, Running, Top
<1>5. tx.payment \in Nat /\ out[Top] \in Nat /\ env[Top] \in Nat
  BY <1>1, <1>2 DEF IInv, TypeOK, Tx
<1>6. /\ cache'[Top] = IF tx.kind = "publish" THEN [coins |-> tx.payment, data |-> env[Top]]
                       ELSE [Returned(Top) EXCEPT !.coins = @ + tx.payment]
      /\ \A d \in Contracts : d # Top => cache'[d] = cache[d]
  BY <1>2 DEF IInv, TypeOK, ReturnTx
<1>7. ASSUME NEW c \in Contracts, c = Top PROVE Finished(c)'
  <2>1. CASE tx.kind = "publish"
    <3>1. /\ saved[c] = Absent /\ prev[c] = Absent /\ env[c] = changes[c]
          /\ cache'[c] = [coins |-> tx.payment, data |-> env[c]]
      BY <1>4, <1>6, <1>7, <2>1 DEF Open, Published
    <3> QED BY <1>1, <2>1, <3>1 DEF Finished, ReturnTx
  <2>2. CASE tx.kind # "publish"
    <3>1. prev[Top] # Absent /\ env[Top] = saved[Top].data + changes[Top]
      BY <1>4, <2>2 DEF Open, Published
    <3>2. cache'[Top] = [coins |-> prev[Top].coins - out[Top] + tx.payment, data |-> env[Top]]
      BY <1>6, <2>2 DEF Returned
    <3> QED BY <1>1, <1>7, <2>2, <3>1, <3>2 DEF Finished, ReturnTx
  <2> QED BY <2>1, <2>2
<1>8. cache'[Top] \in Context
  <2>1. CASE tx.kind = "publish"
    BY <1>5, <1>6, <2>1 DEF Context
  <2>2. CASE tx.kind # "publish"
    <3>1. prev[Top] \in Context /\ out[Top] <= prev[Top].coins
      BY <1>2, <1>4, <2>2 DEF IInv, TypeOK, Open, Published, Spent, MaybeContext
    <3> QED BY <1>5, <1>6, <2>2, <3>1 DEF Context, Returned
  <2> QED BY <2>1, <2>2
<1>9. TypeOK'
  <2>1. cache' \in [Contracts -> MaybeContext]
    <3>1. PICK x : cache' = [cache EXCEPT ![Top] = x]
      BY DEF ReturnTx
    <3> QED BY <1>2, <1>8, <3>1 DEF IInv, TypeOK, MaybeContext
  <2>2. Len(stack') <= MAX_INTERNAL_CALL_NUM
    BY <1>1, <1>2
  <2>3. using' \subseteq Contracts
    BY <1>2, Zenon
  <2> QED BY <1>1, <1>2, <1>3, <2>1, <2>2, <2>3 DEF IInv, TypeOK, ReturnTx
<1>10. Books'
  BY DEF IInv, Books, ReturnTx
<1>11. \A d \in Contracts : Spent(d)'
  BY <1>1 DEF IInv, Spent, ReturnTx
<1>12. Ended'
  <2>1. ASSUME NEW d \in Contracts, d # Top PROVE Settled(d)'
    <3>1. cache'[d] = cache[d] /\ Settled(d)
      BY <1>1, <1>2, <1>3, <1>6, <2>1 DEF IInv, Running
    <3> QED BY <3>1 DEF ReturnTx, Settled, Expected
  <2>2. ASSUME NEW d \in Contracts PROVE (IF d = tx.target THEN Finished(d) ELSE Settled(d))'
    BY <1>1, <1>4, <1>7, <2>1, Zenon
  <2> QED BY <2>2, Zenon DEF Ended
<1>13. LuaStatesInUse'
  BY <1>2 DEF LuaStatesInUse
<1> QED
  BY <1>1, <1>9, <1>10, <1>11, <1>12, <1>13 DEF IInv, Running

\* CommitData: the cache of the finished transaction is in the books.
LEMMA CommitIInv ==
    ASSUME IInv, Commit
    PROVE  IInv'
<1> USE ConstantsAssumption
<1>1. pc = "done" /\ pc' = "idle" /\ tx \in Tx
  BY DEF IInv, TypeOK, Commit
<1>2. ASSUME NEW c \in Contracts
      PROVE  /\ Lookup(c) \in MaybeContext
             /\ ledger[c] \in [coins : Int, data : Int]
             /\ out[c] \in Nat /\ changes[c] \in Nat /\ tx.payment \in Nat
             /\ saved[c] \in MaybeContext /\ cache[c] \in MaybeContext
  BY <1>1 DEF IInv, TypeOK, Lookup, Tx
<1>3. ASSUME NEW c \in Contracts
      PROVE  /\ saved'[c] = Lookup(c)
             /\ c = tx.target => ledger'[c].coins = ledger[c].coins - out[c] + tx.payment
             /\ c # tx.target => ledger'[c].coins = ledger[c].coins - out[c]
             /\ ledger'[c].data = ledger[c].data + changes[c]
  <2>1. saved'[c] = Lookup(c) /\ ledger'[c] =
            [coins |-> ledger[c].coins - out[c] + (IF c = tx.target THEN tx.payment ELSE 0),
             data  |-> ledger[c].data + changes[c]]
    BY DEF Commit
  <2>2. ledger[c].coins \in Int /\ out[c] \in Int
    BY <1>2
  <2>3. ledger[c].coins - out[c] + 0 = ledger[c].coins - out[c]
    BY <2>2
  <2>4. /\ ledger'[c].coins = ledger[c].coins - out[c] + (IF c = tx.target THEN tx.payment ELSE 0)
        /\ ledger'[c].data = ledger[c].data + changes[c]
    BY <2>1
  <2> QED BY <2>1, <2>3, <2>4, Zenon
<1>4. TypeOK'
  <2>1. saved' \in [Contracts -> MaybeContext]
    BY <1>2 DEF Commit
  <2>2. ASSUME NEW c \in Contracts
        PROVE  /\ ledger[c].coins - out[c] + (IF c = tx.target THEN tx.payment ELSE 0) \in Int
               /\ ledger[c].data + changes[c] \in Int
    <3>1. /\ ledger[c].coins \in Int /\ ledger[c].data \in Int
          /\ out[c] \in Int /\ changes[c] \in Int /\ tx.payment \in Int
      BY <1>2
    <3>2. (IF c = tx.target THEN tx.payment ELSE 0) \in Int
      BY <3>1
    <3> QED BY <3>1, <3>2
  <2>3. ledger' \in [Contracts -> [coins : Int, data : Int]]
    BY <2>2 DEF Commit
  <2>4. UNCHANGED <<cache, prev, out, stack, using, env, sender, changes, tx, txs, isPublish>>
    BY DEF Commit, vm
  <2> QED BY <1>1, <2>1, <2>3, <2>4 DEF IInv, TypeOK
<1>5. ASSUME NEW c \in Contracts
      PROVE  IF saved'[c] = Absent THEN ledger'[c] = [coins |-> 0, data |-> 0]
             ELSE saved'[c].coins = ledger'[c].coins /\ saved'[c].data = ledger'[c].data
  <2>1. Spent(c) /\ (c # tx.target => Settled(c)) /\ (c = tx.target => Finished(c))
    BY <1>1 DEF IInv, Ended
  <2>2. IF saved[c] = Absent THEN ledger[c] = [coins |-> 0, data |-> 0]
        ELSE saved[c].coins = ledger[c].coins /\ saved[c].data = ledger[c].data
    BY DEF IInv, Books
  <2>3. CASE c = tx.target /\ tx.kind = "publish"
    <3>1. /\ saved[c] = Absent /\ out[c] = 0
          /\ cache[c] = [coins |-> tx.payment, data |-> changes[c]]
      BY <2>1, <2>3 DEF Finished, Spent
    <3>2. cache[c] \in Context
      BY <1>2, <3>1 DEF Context
    <3>3. cache[c] # Absent
      BY <3>2
    <3>4. saved'[c] = cache[c]
      BY <1>3, <3>3 DEF Lookup
    <3>5. ledger[c].coins = 0 /\ ledger[c].data = 0
      BY <2>2, <3>1
    <3>6. ledger'[c].coins = 0 - 0 + tx.payment /\ ledger'[c].data = 0 + changes[c]
      BY <1>3, <2>3, <3>1, <3>5, Zenon
    <3>7. tx.payment \in Int /\ changes[c] \in Int
      BY <1>2
    <3>8. ledger'[c].coins = tx.payment /\ ledger'[c].data = changes[c]
      BY <3>6, <3>7, AddZero, Zenon
    <3>9. cache[c].coins = tx.payment /\ cache[c].data = changes[c]
      BY <3>1
    <3> QED BY <3>3, <3>4, <3>8, <3>9, Zenon
  <2>4. CASE c = tx.target /\ tx.kind # "publish"
    <3>1. /\ saved[c] # Absent
          /\ cache[c] = [coins |-> saved[c].coins - out[c] + tx.payment,
                         data |-> saved[c].data + changes[c]]
          /\ out[c] <= saved[c].coins
      BY <2>1, <2>4 DEF Finished, Spent
    <3>2. saved[c] \in Context
      BY <1>2, <3>1 DEF MaybeContext
    <3>3. saved[c].coins \in Nat /\ saved[c].data \in Nat
      BY <3>2 DEF Context
    <3>4. saved[c].coins - out[c] + tx.payment \in Nat /\ saved[c].data + changes[c] \in Nat
      <4>1. out[c] \in Nat /\ changes[c] \in Nat /\ tx.payment \in Nat /\ out[c] <= saved[c].coins
        BY <1>2, <3>1, Zenon
      <4>2. saved[c].coins - out[c] \in Nat
        BY <3>3, <4>1
      <4> QED BY <3>3, <4>1, <4>2
    <3>5. cache[c] \in Context
      <4> DEFINE coins == saved[c].coins - out[c] + tx.payment
                 data == saved[c].data + changes[c]
      <4>1. cache[c] = [coins |-> coins, data |-> data] /\ coins \in Nat /\ data \in Nat
        BY <3>1, <3>4, Zenon
      <4> HIDE DEF coins, data
      <4> QED BY <4>1 DEF Context
    <3>6. cache[c] # Absent
      BY <3>5
    <3>7. saved'[c] = cache[c]
      BY <1>3, <3>6 DEF Lookup
    <3>8. saved[c].coins = ledger[c].coins /\ saved[c].data = ledger[c].data
      BY <2>2, <3>1
    <3>9. ledger'[c].coins = cache[c].coins /\ ledger'[c].data = cache[c].data
      <4>1. /\ ledger'[c].coins = saved[c].coins - out[c] + tx.payment
            /\ ledger'[c].data = saved[c].data + changes[c]
        BY <1>3, <2>4, <3>8, Zenon
      <4>2. /\ cache[c].coins = saved[c].coins - out[c] + tx.payment
            /\ cache[c].data = saved[c].data + changes[c]
        BY <3>1
      <4> QED BY <4>1, <4>2, Zenon
    <3> QED BY <3>6, <3>7, <3>9, Zenon
  <2>5. CASE c # tx.target /\ cache[c] = Absent
    <3>1. saved'[c] = saved[c]
      BY <1>3, <2>5 DEF Lookup
    <3>2. out[c] = 0 /\ changes[c] = 0
      BY <2>1, <2>5 DEF Settled
    <3>3. ledger'[c].coins = ledger[c].coins - 0 /\ ledger'[c].data = ledger[c].data + 0
      BY <1>3, <2>5, <3>2
    <3>4. ledger[c].coins \in Int /\ ledger[c].data \in Int
      BY <1>2
    <3>5. ledger'[c].coins = ledger[c].coins /\ ledger'[c].data = ledger[c].data
      BY <3>3, <3>4, AddZero, Zenon
    <3>6. ledger[c] \in [coins : Int, data : Int] /\ ledger'[c] \in [coins : Int, data : Int]
      BY <1>2, <1>4 DEF TypeOK
    <3>7. ledger'[c] = ledger[c]
      BY <3>5, <3>6, SameFields, Zenon
    <3> QED BY <2>2, <3>1, <3>7
  <2>6. CASE c # tx.target /\ cache[c] # Absent
    <3>1. saved'[c] = cache[c]
      BY <1>3, <2>6 DEF Lookup
    <3>2. prev[c] # Absent /\ cache[c] = Expected(c)
      BY <2>1, <2>6 DEF Settled
    <3>3. saved[c] # Absent /\ prev[c] = saved[c]
      BY <2>1, <3>2 DEF Spent
    <3>4. cache[c].coins = saved[c].coins - out[c] /\ cache[c].data = saved[c].data + changes[c]
      BY <3>2, <3>3 DEF Expected
    <3>5. saved[c].coins = ledger[c].coins /\ saved[c].data = ledger[c].data
      BY <2>2, <3>3
    <3>6. ledger'[c].coins = ledger[c].coins - out[c] /\ ledger'[c].data = ledger[c].data + changes[c]
      BY <1>3, <2>6
    <3> QED BY <2>6, <3>1, <3>4, <3>5, <3>6
  <2> QED BY <2>3, <2>4, <2>5, <2>6
<1>6. Books'
  BY <1>5, Zenon DEF Books
<1> QED
  BY <1>1, <1>4, <1>6 DEF IInv, LuaStatesInUse, Running, Ended

\* A transaction that failed leaves the books as they were.
LEMMA DiscardIInv ==
    ASSUME IInv, Discard
    PROVE  IInv'
<1>1. TypeOK'
  BY DEF IInv, TypeOK, Discard, vm
<1>2. Books' /\ pc' = "idle"
  BY DEF IInv, Books, Discard
<1> QED
  BY <1>1, <1>2 DEF IInv, LuaStatesInUse, Running, Ended

\* A step that changes nothing.
LEMMA StutterIInv ==
    ASSUME IInv, UNCHANGED vars
    PROVE  IInv'
<1> USE DEF vars, vm
<1>1. TypeOK'
  BY DEF IInv, TypeOK
<1>2. Books' /\ LuaStatesInUse'
  BY DEF IInv, Books, LuaStatesInUse, On
<1>3. ASSUME NEW c \in Contracts
      PROVE  /\ Spent(c) => Spent(c)'
             /\ Settled(c) => Settled(c)'
             /\ Open(c) => Open(c)'
             /\ Finished(c) => Finished(c)'
             /\ \A s : On(s, c) <=> On(s, c)'
  BY DEF Spent, Settled, Expected, Open, Published, Finished, On
<1>4. pc' # "idle" => \A c \in Contracts : Spent(c)'
  BY <1>3 DEF IInv
<1>5. Running'
  BY <1>3 DEF IInv, Running, On
<1>6. Ended'
  BY <1>3 DEF IInv, Ended
<1> QED
  BY <1>1, <1>2, <1>4, <1>5, <1>6 DEF IInv

\* The invariant holds in every state.
THEOREM IInvAlways == Spec => []IInv
<1>1. IInv /\ [Next]_vars => IInv'
  BY PublishIInv, CallIInv, InternalCallIInv, SendIInv, ChangeIInv, ReturnInternalIInv,
     ReturnTxIInv, CommitIInv, DiscardIInv, StutterIInv DEF Next
<1> QED
  BY InitIInv, <1>1, PTL DEF Spec

\* The coins and the data of every contract are those of the committed
\* transactions, whatever contracts call each other and whichever frames of
\* CallContract set the cache.
THEOREM BooksBalanceAlways == Spec => []BooksBalance
<1>1. IInv => BooksBalance
  BY DEF IInv, Books, BooksBalance
<1> QED
  BY IInvAlways, <1>1, PTL

\* The frames of a contract together never send more than it had
\* (SendCoins compares with vmOut.txPrevData).
THEOREM NoOverspendAlways == Spec => []NoOverspend
<1>1. IInv => NoOverspend
  <2> SUFFICES ASSUME IInv, pc # "idle", NEW c \in Contracts, out[c] > 0
               PROVE  prev[c] # Absent /\ prev[c] = saved[c] /\ out[c] <= prev[c].coins
    BY DEF NoOverspend
  <2>1. Spent(c)
    BY DEF IInv
  <2>2. out[c] # 0
    OBVIOUS
  <2> QED BY <2>1, <2>2 DEF Spent
<1> QED
  BY IInvAlways, <1>1, PTL

\* A Lua state is in use exactly while its contract is on the stack
\* (ReleaseLuaState keeps it for the frames below).
THEOREM LuaStatesInUseAlways == Spec => []LuaStatesInUse
<1>1. IInv => LuaStatesInUse
  BY DEF IInv
<1> QED
  BY IInvAlways, <1>1, PTL

-----------------------------------------------------------------------------
\* The outermost frame of its contract, in terms of positions.
Outermost(s, k) == \A j \in 1..(k - 1) : s[j] # s[k]

\* The caller of frame k.
CallerOf(s, k) == IF k = 1 THEN User ELSE s[k - 1]

Senders == pc = "run" => \A k \in 1..Len(stack) :
               Outermost(stack, k) => sender[stack[k]] = CallerOf(stack, k)

\* SenderOfOutermost, without SubSeq.
LEMMA SendersByPosition == TypeOK /\ Senders => SenderOfOutermost
<1> SUFFICES ASSUME TypeOK, Senders, pc = "run", NEW k \in 1..Len(stack),
                    ~On(SubSeq(stack, 1, k - 1), stack[k])
             PROVE  sender[stack[k]] = IF k = 1 THEN User ELSE stack[k - 1]
  BY DEF SenderOfOutermost
<1>1. stack \in Seq(Contracts) /\ Len(stack) \in Nat /\ k \in Nat /\ 1 <= k /\ k <= Len(stack)
  BY DEF TypeOK
<1>2. PICK n \in Nat : k = n + 1 /\ n <= Len(stack) /\ k - 1 = n
  BY <1>1
<1>3. Len(SubSeq(stack, 1, n)) = n /\ \A j \in 1..n : SubSeq(stack, 1, n)[j] = stack[j]
  BY <1>1, <1>2
<1>4. Outermost(stack, k)
  BY <1>2, <1>3 DEF Outermost, On
<1> QED
  BY <1>4 DEF Senders, CallerOf

\* GetLuaState sets msg.sender when a contract enters the stack, and leaves
\* it to the frames above.
LEMMA SendersNext == IInv /\ Senders /\ [Next]_vars => Senders'
<1> SUFFICES ASSUME IInv, Senders, [Next]_vars, pc' = "run",
                    NEW k \in 1..Len(stack'), Outermost(stack', k)
             PROVE  sender'[stack'[k]] = CallerOf(stack', k)
  BY DEF Senders, Outermost, CallerOf
<1> USE DEF IInv
<1>1. stack \in Seq(Contracts) /\ Len(stack) \in Nat /\ sender \in [Contracts -> Contracts \cup {User}]
  BY DEF TypeOK
<1>2. ASSUME NEW c \in Contracts, stack' = <<c>>, sender' = [sender EXCEPT ![c] = User]
      PROVE  sender'[stack'[k]] = CallerOf(stack', k)
  <2>1. k = 1 /\ stack'[1] = c
    BY <1>2
  <2> QED
    BY <1>1, <1>2, <2>1 DEF CallerOf
<1>3. ASSUME NEW c \in Contracts, NEW p \in Payments, Publish(c, p) \/ Call(c, p)
      PROVE  sender'[stack'[k]] = CallerOf(stack', k)
  BY <1>2, <1>3 DEF Publish, Call
<1>4. ASSUME NEW c \in Contracts, InternalCallContract(c)
      PROVE  sender'[stack'[k]] = CallerOf(stack', k)
  <2>1. pc = "run" /\ stack' = Append(stack, c) /\ GetLuaState(c)
    BY <1>4 DEF InternalCallContract
  <2>2. /\ Len(stack') = Len(stack) + 1 /\ stack'[Len(stack) + 1] = c
        /\ \A i \in 1..Len(stack) : stack'[i] = stack[i] /\ stack[i] \in Contracts
    BY <1>1, <2>1
  <2>3. Len(stack) > 0
    BY <1>1, <2>1 DEF TypeOK
  <2>4. c \in using <=> \E i \in 1..Len(stack) : stack[i] = c
    BY <2>1 DEF LuaStatesInUse, On
  <2>5. CASE k = Len(stack) + 1
    <3>1. c \notin using
      BY <1>1, <2>2, <2>4, <2>5 DEF Outermost
    <3>2. sender'[c] = stack[Len(stack)]
      BY <1>1, <2>1, <3>1 DEF GetLuaState, Top
    <3>3. stack'[k] = c /\ CallerOf(stack', k) = stack[Len(stack)]
      BY <1>1, <2>2, <2>3, <2>5 DEF CallerOf
    <3> QED
      BY <3>2, <3>3, Zenon
  <2>6. CASE k \in 1..Len(stack)
    <3>1. stack'[k] = stack[k] /\ Outermost(stack, k) /\ CallerOf(stack', k) = CallerOf(stack, k)
      BY <1>1, <2>2, <2>6 DEF Outermost, CallerOf
    <3>2. sender'[stack[k]] = sender[stack[k]]
      BY <1>1, <2>1, <2>2, <2>4, <2>6 DEF GetLuaState
    <3> QED
      BY <2>1, <2>6, <3>1, <3>2 DEF Senders
  <2> QED
    BY <1>1, <2>2, <2>5, <2>6
<1>5. ASSUME ReturnInternal
      PROVE  sender'[stack'[k]] = CallerOf(stack', k)
  <2>1. pc = "run" /\ stack' = SubSeq(stack, 1, Len(stack) - 1) /\ sender' = sender /\ Len(stack) > 1
    BY <1>5 DEF ReturnInternal, Below
  <2>2. PICK n \in Nat : Len(stack) = n + 1
    <3>1. Len(stack) - 1 \in Nat /\ Len(stack) = (Len(stack) - 1) + 1
      BY <1>1, <2>1
    <3> QED
      BY <3>1, Zenon
  <2>3. Len(stack') = n /\ \A i \in 1..n : stack'[i] = stack[i]
    <3>1. Len(stack) - 1 = n /\ n <= Len(stack)
      BY <2>2
    <3>2. stack' = SubSeq(stack, 1, n)
      BY <2>1, <3>1, Zenon
    <3> QED
      BY <1>1, <3>1, <3>2
  <2>4. k \in 1..n /\ k \in 1..Len(stack) /\ (k # 1 => k - 1 \in 1..n) /\ \A j \in 1..(k - 1) : j \in 1..n
    BY <2>2, <2>3
  <2>5. stack'[k] = stack[k] /\ Outermost(stack, k)
    BY <2>3, <2>4, Zenon DEF Outermost
  <2>6. CallerOf(stack', k) = CallerOf(stack, k)
    BY <2>3, <2>4, Zenon DEF CallerOf
  <2> QED
    BY <2>1, <2>4, <2>5, <2>6 DEF Senders
<1>6. ASSUME pc = "run", stack' = stack, sender' = sender
      PROVE  sender'[stack'[k]] = CallerOf(stack', k)
  BY <1>6 DEF Senders, Outermost, CallerOf
<1>7. ASSUME NEW a \in Amounts, SendCoins(a)
      PROVE  sender'[stack'[k]] = CallerOf(stack', k)
  BY <1>6, <1>7 DEF SendCoins
<1>8. CASE ChangeData
  BY <1>6, <1>8 DEF ChangeData
<1>9. CASE ReturnTx \/ Commit \/ Discard
  BY <1>9 DEF ReturnTx, Commit, Discard
<1>10. CASE UNCHANGED vars
  BY <1>6, <1>10 DEF vars, vm
<1> QED
  BY <1>3, <1>4, <1>5, <1>7, <1>8, <1>9, <1>10 DEF Next

\* A running script sees as msg.sender the caller of the outermost frame of
\* its contract, however often contracts further up call it again
\* (GetLuaState and SetMsgField).
THEOREM SenderSeen == Spec => []SenderOfOutermost
<1>1. Init => Senders
  BY DEF Init, Senders
<1>2. IInv /\ Senders => SenderOfOutermost
  BY SendersByPosition DEF IInv
<1> QED
  BY <1>1, <1>2, SendersNext, IInvAlways, PTL DEF Spec
=============================================================================
