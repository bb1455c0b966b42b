------------------------- MODULE SwapExecutorProofs -------------------------
(***************************************************************************)
(* Theorems about SwapExecutor, for any number of calls and any amounts.   *)
(*                                                                         *)
(* The invariant says what the chain may hold of a call by the step it is  *)
(* at: its transactions carry its amount, there is one of each sort at     *)
(* most, none of the sort it is still preparing, and its router may pull   *)
(* no more of an unspent approval than that approval was for.  From it     *)
(* follow the properties, and that the calls implement SwapPromise.        *)
(***************************************************************************)
EXTENDS SwapExecutor, CollectionFacts

Routers == {"dex", "thor"}

\* Every transaction the node took and did not forget.
Sent == pool \cup {r.tx : r \in receipts}

\* The steps at which a call has yet to send the transaction it is at.
Preparing == Running \ {"wait"}

\* The pool starts at the next nonce, and no nonce is pending or mined twice.
Ordered ==
  /\ IsFiniteSet(pool)
  /\ \A t \in pool : t.nonce >= mined
  /\ \A t, u \in pool : t.nonce = u.nonce => t = u
  /\ \A r \in receipts : r.tx.nonce < mined

\* A transaction is its owner's, and the only one of its sort.
Owned ==
  /\ \A t \in Sent : pc[t.owner] # "idle" /\ t.amount = amt[t.owner]
  /\ \A t, u \in Sent : t.owner = u.owner /\ t.does = u.does => t = u

\* What a call has on the chain at each step.
Staged(s) ==
  /\ \A t \in Sent : t.owner = s /\ pc[s] \in Preparing => t.does # doing[s]
  /\ \A t \in Sent : t.owner = s => pc[s] # "allowance"
  /\ \A t \in Sent : t.owner = s /\ doing[s] = "approve" => t.does = "approve"
  /\ \A t \in pool : t.owner = s /\ doing[s] = "swap" => t.does = "swap"
  /\ pc[s] = "allowance" => doing[s] = "swap"
  /\ pc[s] \in {"allowance", "recheck"} => kind[s] \notin Native
  /\ doing[s] = "approve" => kind[s] \notin Native
  /\ \A t \in Sent : t.owner = s /\ t.does = "approve" => kind[s] \notin Native

\* What a call took, its swap took.
Pulled(s) ==
  /\ pulled[s] \in {0, amt[s]}
  /\ pulled[s] # 0 => \E r \in receipts : r.tx.owner = s /\ r.tx.does = "swap"

\* A router may still pull no more than one unspent approval was for.
Residue(r) ==
  (\E s \in Swaps : Router(s) = r /\ Approved(s)) =>
    \E s \in Swaps :
      /\ Router(s) = r /\ Approved(s)
      /\ allowance[r] = 0 \/ (pulled[s] = 0 /\ allowance[r] <= amt[s])

IInv ==
  /\ TypeOK
  /\ Ordered
  /\ Owned
  /\ \A s \in Swaps : Staged(s) /\ Pulled(s)
  /\ \A r \in Routers : Residue(r)
  /\ SuccessIsMined
  /\ FailuresHonest
----------------------------------------------------------------------------
\* The initial states satisfy the invariant.
LEMMA Initially == Init => IInv
<1> SUFFICES ASSUME Init PROVE IInv
  OBVIOUS
<1>1. Sent = {} /\ IsFiniteSet(pool)
  BY FS_EmptySet DEF Init, Sent
<1>2. TypeOK
  BY AmountsAssumption
  DEF Init, TypeOK, Running, Kinds, Native, Deposits, Errors, Txs
<1>3. Ordered /\ Owned /\ \A r \in Routers : Residue(r)
  BY <1>1 DEF Init, Ordered, Owned, Residue, Approved
<1>4. ASSUME NEW s \in Swaps PROVE Staged(s) /\ Pulled(s)
  BY <1>1 DEF Init, Staged, Pulled, Preparing, Running
<1>5. SuccessIsMined /\ FailuresHonest
  BY DEF Init, SuccessIsMined, FailuresHonest
<1>6. QED
  BY <1>1, <1>2, <1>3, <1>4, <1>5 DEF IInv

\* A swap a call sent is among the transactions that were sent.
LEMMA SentSwap ==
  ASSUME NEW s \in Swaps
  PROVE  SwapSent(s) <=> \E t \in Sent : t.owner = s /\ t.does = "swap"
BY DEF SwapSent, Sent

\* A step of one call, away from the chain: what it may change, and what must
\* hold of that call after it.
Alone(s) ==
  /\ UNCHANGED chain
  /\ \A v \in Swaps \ {s} :
       /\ pc'[v] = pc[v] /\ kind'[v] = kind[v] /\ amt'[v] = amt[v]
       /\ doing'[v] = doing[v] /\ err'[v] = err[v]
  /\ pc[s] = "idle" \/ (kind'[s] = kind[s] /\ amt'[s] = amt[s])
  /\ pc'[s] # "idle"
  /\ Staged(s)'
  /\ pc'[s] = "ok" => SwapSent(s) /\ \A t \in pool : t.owner = s => t.does # "swap"
  /\ pc'[s] = "failed" /\ SwapSent(s) => err'[s] \in {"send", "wait"}

\* Such a step keeps the invariant.
LEMMA CallStep ==
  ASSUME IInv, NEW s \in Swaps, TypeOK', Alone(s)
  PROVE  IInv'
<1> USE DEF IInv, Alone
<1>1. Sent' = Sent /\ pool' = pool /\ receipts' = receipts /\ mined' = mined
      /\ allowance' = allowance /\ pulled' = pulled
  BY DEF chain, Sent
<1>2. \A t \in Sent : t.owner \in Swaps
  BY DEF TypeOK, Txs, Sent
<1>3. \A t \in Sent : t.owner = s => kind'[s] = kind[s] /\ amt'[s] = amt[s]
  BY DEF Owned
<1>4. Ordered'
  BY <1>1 DEF Ordered
<1>5. Owned'
  BY <1>1, <1>2, <1>3 DEF Owned
<1>6. ASSUME NEW v \in Swaps PROVE Staged(v)'
  BY <1>1 DEF Staged
<1>7. ASSUME NEW v \in Swaps PROVE Pulled(v)'
  <2>1. CASE v = s /\ pc[s] = "idle"
    <3>1. \A t \in Sent : t.owner # s
      BY <2>1, <1>2 DEF Owned
    <3>2. pulled[s] = 0
      BY <2>1, <3>1 DEF Pulled, Sent
    <3>3. QED
      BY <2>1, <3>2, <1>1 DEF Pulled
  <2>2. CASE ~(v = s /\ pc[s] = "idle")
    BY <2>2, <1>1 DEF Pulled
  <2>3. QED
    BY <2>1, <2>2
<1>8. ASSUME NEW r \in Routers PROVE Residue(r)'
  <2>1. ASSUME NEW v \in Swaps
        PROVE  /\ Approved(v)' <=> Approved(v)
               /\ Approved(v) => Router(v)' = Router(v) /\ amt'[v] = amt[v]
    BY <1>1, <1>3 DEF Approved, Sent, Router
  <2>2. QED
    BY <1>1, <2>1 DEF Residue
<1>9. SuccessIsMined'
  BY <1>1 DEF SuccessIsMined, SwapSent
<1>10. FailuresHonest'
  BY <1>1 DEF FailuresHonest, SwapSent
<1>11. QED
  BY <1>4, <1>5, <1>6, <1>7, <1>8, <1>9, <1>10
----------------------------------------------------------------------------
\* The node's next nonce exists: the pending transactions cannot take every
\* nonce from the next mined one on.  It is not below the mined ones, and free.
LEMMA PendingNonceIsFree ==
  ASSUME IsFiniteSet(pool), mined \in Nat
  PROVE  PendingNonce \in Nat /\ PendingNonce >= mined
         /\ \A t \in pool : t.nonce # PendingNonce
<1> DEFINE c == Cardinality(pool)
           I == mined..(mined + c)
           Free == {n \in I : \A t \in pool : t.nonce # n}
<1>1. c \in Nat
  BY FS_CardinalityType
<1>2. Free # {}
  <2> SUFFICES ASSUME \A n \in I : \E t \in pool : t.nonce = n PROVE FALSE
    OBVIOUS
  <2> DEFINE T == {t \in pool : t.nonce \in I}
             f == [t \in T |-> t.nonce]
  <2>1. f \in Surjection(T, I)
    BY DEF Surjection
  <2>2. IsFiniteSet(T) /\ Cardinality(T) <= c
    BY FS_Subset
  <2>3. Cardinality(T) \in Nat
    BY <2>2, FS_CardinalityType
  <2>4. Cardinality(I) <= Cardinality(T)
    BY <2>1, <2>2, FS_Surjection
  <2>5. Cardinality(I) = c + 1
    BY <1>1, FS_Interval
  <2>6. QED
    BY <1>1, <2>2, <2>3, <2>4, <2>5
<1>3. Free \in SUBSET Nat
  BY <1>1
<1>4. Min(Free) \in Free
  BY <1>2, <1>3, MinOfNaturals
<1>5. PendingNonce = Min(Free)
  BY DEF PendingNonce
<1>6. QED
  BY <1>1, <1>4, <1>5
----------------------------------------------------------------------------
\* A call begins, or fails at its price: it has nothing on the chain yet.
LEMMA PricingStep ==
  ASSUME IInv, NEW s \in Swaps, Price(s) \/ PriceThorchain(s)
  PROVE  IInv'
<1> USE DEF IInv
<1>1. \A t \in Sent : t.owner # s
  BY DEF Owned, Price, PriceThorchain
<1>2. ~SwapSent(s) /\ ~SwapSent(s)'
  BY <1>1 DEF SwapSent, Sent, Price, PriceThorchain, chain
<1>3. Sent' = Sent /\ pool' = pool /\ UNCHANGED chain
  BY DEF Sent, chain, Price, PriceThorchain
<1>4. CASE Fail(s, "price") /\ UNCHANGED <<kind, amt, doing, nonce>>
  <2>1. TypeOK'
    BY <1>3, <1>4 DEF TypeOK, Fail, Goto, Errors, chain
  <2>2. Alone(s)
    BY <1>1, <1>2, <1>3, <1>4
    DEF Alone, TypeOK, Fail, Goto, Staged, Preparing, Running, Price, PriceThorchain
  <2>3. QED
    BY <2>1, <2>2, CallStep
<1>5. ASSUME NEW k \in Kinds, NEW does \in {"approve", "swap"}, NEW step \in Running,
             Begin(s, k, does, step), UNCHANGED nonce,
             step = "allowance" => does = "swap" /\ k \notin Native,
             step # "recheck", does = "approve" => k \notin Native
      PROVE  IInv'
  <2>1. PICK a \in 1..MaxAmount : amt' = [amt EXCEPT ![s] = a]
    BY <1>5 DEF Begin
  <2>2. TypeOK'
    BY <1>3, <1>5, <2>1, AmountsAssumption DEF TypeOK, Begin, Goto, chain
  <2>3. pc'[s] = step /\ kind'[s] = k /\ doing'[s] = does /\ pc[s] = "idle"
    BY <1>5 DEF Begin, Goto, TypeOK, Price, PriceThorchain
  <2>4. Staged(s)'
    BY <1>1, <1>3, <1>5, <2>3 DEF Staged, Preparing, Sent
  <2>5. \A v \in Swaps \ {s} : /\ pc'[v] = pc[v] /\ kind'[v] = kind[v]
                               /\ amt'[v] = amt[v] /\ doing'[v] = doing[v]
                               /\ err'[v] = err[v]
    <3>1. /\ pc' = [pc EXCEPT ![s] = step] /\ kind' = [kind EXCEPT ![s] = k]
          /\ doing' = [doing EXCEPT ![s] = does] /\ err' = err
      BY <1>5 DEF Begin, Goto
    <3>2. QED
      BY <2>1, <3>1 DEF TypeOK
  <2>6. Alone(s)
    BY <1>3, <2>3, <2>4, <2>5 DEF Alone, Running
  <2>7. QED
    BY <2>2, <2>6, CallStep
<1>6. CASE Price(s)
  BY <1>4, <1>5, <1>6 DEF Price, Running, Kinds, Native, Deposits
<1>7. CASE PriceThorchain(s)
  BY <1>4, <1>5, <1>7 DEF PriceThorchain, Running, Kinds, Native, Deposits
<1>8. QED
  BY <1>6, <1>7

\* The steps that only read the chain: the call fails with nothing sent for its
\* swap, or is ready for its next step.
LEMMA ReadingStep ==
  ASSUME IInv, NEW s \in Swaps,
         CheckAllowance(s) \/ Recheck(s) \/ Estimate(s) \/ ReadNonce(s)
  PROVE  IInv'
<1> USE DEF IInv
<1>1. Sent' = Sent /\ pool' = pool /\ UNCHANGED <<kind, amt, chain>>
  BY DEF Sent, chain, CheckAllowance, Recheck, Estimate, ReadNonce
<1>2. pc[s] \in Preparing /\ s \in Swaps
  BY DEF CheckAllowance, Recheck, Estimate, ReadNonce, Preparing, Running
<1>3. ~SwapSent(s)
  BY <1>2, SentSwap DEF Staged, TypeOK
<1>4. TypeOK'
  <2>1. PendingNonce \in Nat
    BY PendingNonceIsFree DEF Ordered, TypeOK
  <2>2. CASE CheckAllowance(s)
    BY <1>1, <2>2 DEF CheckAllowance, TypeOK, Fail, Goto, Errors, Running, chain
  <2>3. CASE Recheck(s)
    BY <1>1, <2>3 DEF Recheck, TypeOK, Fail, Goto, Errors, Running, chain
  <2>4. CASE Estimate(s)
    BY <1>1, <2>4 DEF Estimate, TypeOK, Fail, Goto, Errors, Running, chain
  <2>5. CASE ReadNonce(s)
    BY <1>1, <2>1, <2>5 DEF ReadNonce, TypeOK, Fail, Goto, Errors, Running, chain
  <2>6. QED
    BY <2>2, <2>3, <2>4, <2>5
<1>5. Alone(s)
  <2> USE DEF Alone, TypeOK, Fail, Goto, Staged, Preparing, Running
  <2>1. CASE CheckAllowance(s)
    BY <1>1, <1>2, <1>3, <2>1 DEF CheckAllowance
  <2>2. CASE Recheck(s)
    BY <1>1, <1>2, <1>3, <2>2 DEF Recheck
  <2>3. CASE Estimate(s)
    BY <1>1, <1>2, <1>3, <2>3 DEF Estimate
  <2>4. CASE ReadNonce(s)
    BY <1>1, <1>2, <1>3, <2>4 DEF ReadNonce
  <2>5. QED
    BY <2>1, <2>2, <2>3, <2>4
<1>6. QED
  BY <1>4, <1>5, CallStep

\* A call sees its receipt or its deadline, or its process ends: after its
\* approval nothing of it is pending and its swap is still to be sent.
LEMMA WaitingStep ==
  ASSUME IInv, NEW s \in Swaps, Wait(s) \/ Quit(s)
  PROVE  IInv'
<1> USE DEF IInv
<1>1. Sent' = Sent /\ pool' = pool /\ UNCHANGED <<kind, amt, chain>>
  BY DEF Sent, chain, Wait, Quit
<1>2. TypeOK'
  BY <1>1 DEF Wait, Proceed, Quit, TypeOK, Fail, Goto, Errors, Running, chain
<1>3. CASE Quit(s)
  <2>1. Alone(s)
    BY <1>1, <1>3
    DEF Alone, Quit, TypeOK, Goto, Staged, Preparing, Running
  <2>2. QED
    BY <1>2, <2>1, CallStep
<1>4. CASE Wait(s) /\ Fail(s, "wait")
  <2>1. Alone(s)
    BY <1>1, <1>4
    DEF Alone, Wait, TypeOK, Fail, Goto, Staged, Preparing, Running, Proceed
  <2>2. QED
    BY <1>2, <2>1, CallStep
<1>5. ASSUME NEW r \in receipts, r.tx = Tx(s), pc[s] = "wait", Proceed(s),
             UNCHANGED <<kind, amt, nonce, err, chain>>
      PROVE  IInv'
  <2>1. r.tx \in Sent /\ r.tx.owner = s /\ r.tx.does = doing[s]
    BY <1>5 DEF Sent, Tx
  <2>2. r.tx \notin pool
    BY DEF Ordered, TypeOK, Txs
  <2>3. \A t \in Sent : t.owner = s /\ t.does = doing[s] => t \notin pool
    BY <2>1, <2>2 DEF Owned
  <2>4. CASE doing[s] = "approve"
    <3>1. \A t \in Sent : t.owner = s => t.does = "approve" /\ t \notin pool
      BY <2>3, <2>4 DEF Staged
    <3>2. ~SwapSent(s)
      BY <3>1, SentSwap
    <3>3. Alone(s)
      BY <1>1, <1>5, <2>4, <3>1, <3>2
      DEF Alone, Proceed, TypeOK, Goto, Staged, Preparing, Running, Sent
    <3>4. QED
      BY <1>2, <3>3, CallStep
  <2>5. CASE doing[s] = "swap"
    <3>1. SwapSent(s) /\ \A t \in pool : t.owner = s => t.does # "swap"
      BY <2>1, <2>3, <2>5, SentSwap DEF Sent
    <3>2. Alone(s)
      BY <1>1, <1>5, <2>5, <3>1
      DEF Alone, Proceed, TypeOK, Goto, Staged, Preparing, Running
    <3>3. QED
      BY <1>2, <3>2, CallStep
  <2>6. QED
    BY <2>4, <2>5 DEF TypeOK
<1>6. QED
  BY <1>3, <1>4, <1>5 DEF Wait
----------------------------------------------------------------------------
\* The node takes what a call signed, or not: of that call nothing of this sort
\* was sent before, and the call is done preparing.
LEMMA SendStep ==
  ASSUME IInv, NEW s \in Swaps, Send(s)
  PROVE  IInv'
<1> USE DEF IInv
<1>1. pc[s] = "send" /\ UNCHANGED <<kind, amt, doing, nonce>>
  BY DEF Send
<1>2. CASE Fail(s, "send") /\ UNCHANGED chain
  <2>1. TypeOK'
    BY <1>1, <1>2 DEF TypeOK, Fail, Goto, Errors, chain
  <2>2. Sent' = Sent /\ pool' = pool
    BY <1>2 DEF Sent, chain
  <2>3. Alone(s)
    BY <1>1, <1>2, <2>2
    DEF Alone, TypeOK, Fail, Goto, Staged, Preparing, Running
  <2>4. QED
    BY <2>1, <2>3, CallStep
<1>3. CASE /\ Accept(Tx(s))
           /\ (Goto(s, "wait") /\ UNCHANGED err) \/ Fail(s, "send")
  <2> DEFINE new == Tx(s)
  <2>1. /\ new \in Txs /\ new.owner = s /\ new.does = doing[s]
        /\ new.amount = amt[s] /\ new.nonce >= mined
    BY <1>3, AmountsAssumption DEF Accept, Tx, Txs, TypeOK
  <2> HIDE DEF new
  <2>2. /\ pool' = {p \in pool : p.nonce # new.nonce} \cup {new}
        /\ UNCHANGED <<mined, receipts, allowance, balance, pulled>>
    BY <1>3 DEF Accept, new
  <2>3. /\ pc'[s] \in {"wait", "failed"}
        /\ pc'[s] = "failed" => err'[s] = "send"
        /\ \A v \in Swaps \ {s} : pc'[v] = pc[v] /\ err'[v] = err[v]
    BY <1>3 DEF TypeOK, Fail, Goto
  <2>4. \A t \in Sent : t.owner \in Swaps /\ (t.owner = s => t.does # doing[s])
    BY <1>1 DEF TypeOK, Txs, Sent, Staged, Preparing, Running
  <2>5. Sent' \subseteq Sent \cup {new} /\ pool' \subseteq pool \cup {new}
    BY <2>2 DEF Sent
  <2>6. TypeOK'
    BY <1>1, <1>3, <2>1, <2>2 DEF TypeOK, Fail, Goto, Errors, Running
  <2>7. Ordered'
    <3>1. IsFiniteSet(pool')
      BY <2>2, FS_Subset, FS_AddElement DEF Ordered
    <3>2. QED
      BY <2>1, <2>2, <3>1 DEF Ordered
  <2>8. Owned'
    BY <1>1, <2>1, <2>3, <2>4, <2>5 DEF Owned
  <2>9. ASSUME NEW v \in Swaps PROVE Staged(v)'
    <3>1. CASE v = s
      <4>1. pc'[s] \notin Preparing /\ pc'[s] \notin {"allowance", "recheck"}
        BY <2>3 DEF Preparing, Running
      <4>2. \A t \in Sent : t.owner = s /\ doing[s] = "approve" => t.does = "approve"
        BY DEF Staged
      <4>3. QED
        BY <1>1, <2>1, <2>5, <3>1, <4>1, <4>2 DEF Staged, TypeOK
    <3>2. CASE v # s
      BY <1>1, <2>1, <2>3, <2>5, <3>2 DEF Staged
    <3>3. QED
      BY <3>1, <3>2
  <2>10. ASSUME NEW v \in Swaps PROVE Pulled(v)'
    BY <1>1, <2>2 DEF Pulled
  <2>11. ASSUME NEW r \in Routers PROVE Residue(r)'
    BY <1>1, <2>2 DEF Residue, Router, Approved
  <2>12. SuccessIsMined'
    BY <2>2, <2>3 DEF SuccessIsMined
  <2>13. FailuresHonest'
    BY <2>1, <2>2, <2>3, <2>5 DEF FailuresHonest, SwapSent
  <2>14. QED
    BY <2>6, <2>7, <2>8, <2>9, <2>10, <2>11, <2>12, <2>13
<1>4. QED
  BY <1>2, <1>3 DEF Send

\* The node forgets a transaction.
LEMMA EvictStep ==
  ASSUME IInv, NEW t \in pool, Evict(t)
  PROVE  IInv'
<1> USE DEF IInv, Evict
<1>1. Sent' \subseteq Sent /\ pool' \subseteq pool /\ IsFiniteSet(pool')
  BY FS_Subset DEF Sent, Ordered
<1>2. TypeOK' /\ Ordered' /\ Owned'
  BY <1>1 DEF TypeOK, Ordered, Owned
<1>3. ASSUME NEW s \in Swaps PROVE Staged(s)' /\ Pulled(s)'
  BY <1>1 DEF Staged, Pulled
<1>4. ASSUME NEW r \in Routers PROVE Residue(r)'
  BY DEF Residue, Router, Approved
<1>5. SuccessIsMined' /\ FailuresHonest'
  BY DEF SuccessIsMined, FailuresHonest, SwapSent
<1>6. QED
  BY <1>2, <1>3, <1>4, <1>5
----------------------------------------------------------------------------
\* What the chain takes for a swap when its transaction is mined, it takes once.
LEMMA NothingPulledYet ==
  ASSUME IInv, NEW t \in pool, t.nonce = mined
  PROVE  t.owner \in Swaps /\ pulled[t.owner] = 0
<1> USE DEF IInv
<1>1. t \in Sent /\ t.owner \in Swaps /\ t.nonce \in Nat /\ t.does \in {"approve", "swap"}
  BY DEF Sent, TypeOK, Txs
<1>2. SUFFICES ASSUME NEW r \in receipts, r.tx.owner = t.owner, r.tx.does = "swap"
               PROVE  FALSE
  BY <1>1 DEF Pulled
<1>3. r.tx \in Sent
  BY DEF Sent
<1>4. t.does = "swap"
  BY <1>1, <1>2, <1>3 DEF Staged, TypeOK
<1>5. QED
  BY <1>1, <1>2, <1>3, <1>4 DEF Owned, Ordered

\* The chain mines the next transaction of the wallet, with whatever outcome.
LEMMA MineStep ==
  ASSUME IInv, NEW t \in pool, Mine(t)
  PROVE  IInv'
<1> USE DEF IInv
<1> DEFINE o == t.owner
<1>1. /\ t.nonce = mined /\ mined' = mined + 1 /\ pool' = pool \ {t}
      /\ UNCHANGED <<pc, kind, amt, doing, nonce, err>>
  BY DEF Mine
<1>2. PICK status \in {"ok", "reverted"} :
        receipts' = receipts \cup {[tx |-> t, status |-> status]}
  BY DEF Mine, MineApproval, MineSwap, MineReverted
<1>3. /\ t \in Sent /\ t \in Txs /\ o \in Swaps /\ t.amount = amt[o] /\ pulled[o] = 0
      /\ amt[o] \in 0..MaxAmount /\ mined \in Nat
  BY <1>1, NothingPulledYet DEF Sent, TypeOK, Txs, Owned
<1>4. Sent' = Sent
  <2> DEFINE new == [tx |-> t, status |-> status]
             Mined(R) == {r.tx : r \in R}
  <2>1. new.tx = t
    OBVIOUS
  <2> HIDE DEF new
  <2>2. Mined(receipts \cup {new}) = Mined(receipts) \cup {t}
    BY <2>1
  <2>3. receipts' = receipts \cup {new}
    BY <1>2 DEF new
  <2>4. Mined(receipts') = Mined(receipts) \cup {t}
    BY <2>2, <2>3
  <2>5. QED
    BY <1>1, <2>4 DEF Sent
<1>5. TypeOK'
  <2>1. receipts' \subseteq [tx : Txs, status : {"ok", "reverted"}]
    BY <1>2, <1>3 DEF TypeOK
  <2>2. Router(o) \in {"dex", "thor"}
    BY DEF Router
  <2>3. CASE MineApproval(t)
    BY <1>1, <1>3, <2>1, <2>2, <2>3 DEF TypeOK, MineApproval
  <2>4. CASE MineSwap(t)
    <3>1. pulled' \in [Swaps -> Nat]
      BY <1>3, <2>4, AmountsAssumption DEF TypeOK, MineSwap
    <3>2. allowance' \in [{"dex", "thor"} -> 0..MaxAmount] /\ balance' \in 0..Held
      BY <1>3, <2>2, <2>4, AmountsAssumption DEF TypeOK, MineSwap, Fundable
    <3>3. QED
      BY <1>1, <1>3, <2>1, <3>1, <3>2 DEF TypeOK
  <2>5. CASE MineReverted(t)
    BY <1>1, <1>3, <2>1, <2>5 DEF TypeOK, MineReverted
  <2>6. QED
    BY <2>3, <2>4, <2>5 DEF Mine
<1>6. Ordered'
  <2>1. IsFiniteSet(pool')
    BY <1>1, FS_Subset DEF Ordered
  <2>2. \A u \in pool : u.nonce \in Nat
    BY DEF TypeOK, Txs
  <2>3. \A r \in receipts : r.tx.nonce \in Nat
    BY DEF TypeOK, Txs
  <2>4. QED
    BY <1>1, <1>2, <1>3, <2>1, <2>2, <2>3 DEF Ordered
<1>7. Owned'
  BY <1>1, <1>4 DEF Owned
<1>8. ASSUME NEW s \in Swaps PROVE Staged(s)'
  BY <1>1, <1>4 DEF Staged
<1>9. ASSUME NEW s \in Swaps PROVE Pulled(s)'
  <2>1. CASE s = o /\ MineSwap(t)
    <3>1. pulled'[s] = amt[s]
      BY <1>3, <2>1, AmountsAssumption DEF MineSwap, TypeOK
    <3>2. [tx |-> t, status |-> status] \in receipts' /\ t.owner = s /\ t.does = "swap"
      BY <1>2, <2>1 DEF MineSwap
    <3>3. QED
      BY <1>1, <3>1, <3>2 DEF Pulled
  <2>2. CASE ~(s = o /\ MineSwap(t))
    <3>1. pulled'[s] = pulled[s]
      BY <2>2 DEF Mine, MineApproval, MineSwap, MineReverted, TypeOK
    <3>2. QED
      BY <1>1, <1>2, <3>1 DEF Pulled
  <2>3. QED
    BY <2>1, <2>2
<1>10. ASSUME NEW r \in Routers PROVE Residue(r)'
  <2>1. \A s \in Swaps : Router(s)' = Router(s)
    BY <1>1 DEF Router
  <2>2. ASSUME NEW s \in Swaps PROVE Approved(s) => Approved(s)'
    BY <1>2 DEF Approved
  <2>3. ASSUME NEW s \in Swaps, Approved(s)', ~Approved(s) PROVE s = o /\ MineApproval(t)
    BY <1>2, <2>3 DEF Approved, Mine, MineApproval, MineSwap, MineReverted
  <2>4. CASE MineApproval(t)
    <3>1. CASE r = Router(o)
      <4>1. Approved(o)'
        <5>1. [tx |-> t, status |-> "ok"] \in receipts' /\ t.does = "approve"
          BY <2>4 DEF MineApproval
        <5>2. QED
          BY <5>1 DEF Approved
      <4>2. allowance'[r] = amt[o] /\ pulled'[o] = 0
        BY <1>3, <2>4, <3>1 DEF MineApproval, TypeOK, Routers
      <4>3. QED
        BY <1>1, <1>3, <2>1, <3>1, <4>1, <4>2 DEF Residue, TypeOK
    <3>2. CASE r # Router(o)
      <4>1. allowance'[r] = allowance[r] /\ pulled' = pulled
        BY <2>4, <3>2 DEF MineApproval, TypeOK, Routers
      <4>2. QED
        BY <1>1, <2>1, <2>2, <2>3, <3>2, <4>1 DEF Residue
    <3>3. QED
      BY <3>1, <3>2
  <2>5. CASE MineReverted(t) /\ ~MineApproval(t)
    BY <1>1, <2>1, <2>2, <2>3, <2>5 DEF Residue, MineReverted
  <2>6. CASE MineSwap(t) /\ ~MineApproval(t)
    <3> SUFFICES ASSUME \E s \in Swaps : Router(s) = r /\ Approved(s)
                 PROVE  Residue(r)'
      BY <2>1, <2>3, <2>6 DEF Residue
    <3>1. PICK w \in Swaps : /\ Router(w) = r /\ Approved(w)
                             /\ allowance[r] = 0 \/ (pulled[w] = 0 /\ allowance[r] <= amt[w])
      BY DEF Residue
    <3>2. kind[w] \notin Native
      BY <3>1 DEF Approved, Sent, Staged
    <3>3. /\ \A s \in Swaps : s # o => pulled'[s] = pulled[s]
          /\ allowance[r] \in Nat /\ amt[w] \in Nat
      BY <2>6, AmountsAssumption DEF MineSwap, TypeOK, Routers
    <3>4. CASE r = Router(o) /\ kind[o] \notin Native
      <4>1. allowance[r] >= amt[o] /\ allowance'[r] = allowance[r] - amt[o]
        BY <1>3, <2>6, <3>4 DEF MineSwap, Fundable, TypeOK, Routers
      <4>2. allowance'[r] = 0 \/ (w # o /\ pulled[w] = 0 /\ allowance'[r] <= amt[w])
        BY <1>3, <3>1, <3>3, <4>1
      <4>3. QED
        BY <1>1, <2>1, <2>2, <3>1, <3>3, <4>2 DEF Residue
    <3>5. CASE r # Router(o) \/ kind[o] \in Native
      <4>1. allowance'[r] = allowance[r] /\ w # o
        BY <2>6, <3>1, <3>2, <3>5 DEF MineSwap, TypeOK, Routers
      <4>2. QED
        BY <1>1, <2>1, <2>2, <3>1, <3>3, <4>1 DEF Residue
    <3>6. QED
      BY <3>4, <3>5
  <2>7. QED
    BY <2>4, <2>5, <2>6 DEF Mine
<1>11. SuccessIsMined'
  BY <1>1, <1>2 DEF SuccessIsMined
<1>12. FailuresHonest'
  <2>1. \A s \in Swaps : SwapSent(s)' => SwapSent(s)
    BY <1>1, <1>2 DEF SwapSent
  <2>2. QED
    BY <1>1, <2>1 DEF FailuresHonest
<1>13. QED
  BY <1>5, <1>6, <1>7, <1>8, <1>9, <1>10, <1>11, <1>12
----------------------------------------------------------------------------
\* No step breaks the invariant.
LEMMA NextStep == IInv /\ [Next]_vars => IInv'
<1> SUFFICES ASSUME IInv, [Next]_vars PROVE IInv'
  OBVIOUS
<1>1. CASE UNCHANGED vars
  BY <1>1
  DEF vars, chain, IInv, TypeOK, Ordered, Owned, Staged, Pulled, Residue, Router,
      Approved, SuccessIsMined, FailuresHonest, SwapSent, Sent
<1>2. ASSUME NEW s \in Swaps, Price(s) \/ PriceThorchain(s) \/ Step(s) \/ Quit(s)
      PROVE  IInv'
  BY <1>2, PricingStep, ReadingStep, SendStep, WaitingStep
  DEF Step, FullSwap, Transfer, Deposit
<1>3. ASSUME NEW t \in pool, Mine(t) \/ Evict(t) PROVE IInv'
  BY <1>3, MineStep, EvictStep
<1>4. QED
  BY <1>1, <1>2, <1>3 DEF Next

\* What the chain holds of every call stays within what the call's step allows.
THEOREM Invariance == Spec => []IInv
<1>1. QED
  BY Initially, NextStep, PTL DEF Spec

\* The types of all variables, for any number of calls: in particular every
\* call finds a free nonce, and no allowance or balance falls below zero.
THEOREM TypesHold == Spec => []TypeOK
<1>1. IInv => TypeOK
  BY DEF IInv
<1>2. QED
  BY <1>1, Invariance, PTL

\* A call that reports success has its own swap mined.
THEOREM SuccessIsMinedHolds == Spec => []SuccessIsMined
<1>1. IInv => SuccessIsMined
  BY DEF IInv
<1>2. QED
  BY <1>1, Invariance, PTL

\* No call takes its amount from the wallet twice.
THEOREM PulledOnceHolds == Spec => []PulledOnce
<1>1. IInv => PulledOnce
  BY DEF IInv, Pulled, PulledOnce
<1>2. QED
  BY <1>1, Invariance, PTL

\* A call that failed before it sent its swap has no swap on its way.
THEOREM FailuresHonestHolds == Spec => []FailuresHonest
<1>1. IInv => FailuresHonest
  BY DEF IInv
<1>2. QED
  BY <1>1, Invariance, PTL

\* What a router may still pull once an approval was mined belongs to a call
\* that has not swapped.
THEOREM ResidueIsUnspentHolds == Spec => []ResidueIsUnspent
<1>1. IInv => ResidueIsUnspent
  BY DEF IInv, Residue, ResidueIsUnspent, TypeOK, Routers
<1>2. QED
  BY <1>1, Invariance, PTL
----------------------------------------------------------------------------
\* The state of SwapPromise that a state of the executor stands for.
Answers == [s \in Swaps |-> Answer(s)]
SwapStates == [s \in Swaps |-> SwapState(s)]
Sellers == {s \in Swaps : kind[s] \notin Native}

\* A swap of this call is mined, or still in the pool.
Mined(s) == \E r \in receipts : r.tx.owner = s /\ r.tx.does = "swap"
Pending(s) == \E t \in pool : t.owner = s /\ t.does = "swap"

\* No swap is both, and a call that is preparing a transaction has sent no swap.
LEMMA SwapStateIs ==
  ASSUME IInv, NEW s \in Swaps
  PROVE  /\ Mined(s) => ~Pending(s) /\ SwapState(s) = "mined"
         /\ Pending(s) => SwapState(s) = "pending"
         /\ ~Mined(s) /\ ~Pending(s) => SwapState(s) = "none"
         /\ pc[s] \in Preparing => ~Mined(s) /\ ~Pending(s)
<1>1. Mined(s) => ~Pending(s)
  <2> SUFFICES ASSUME NEW r \in receipts, r.tx.owner = s, r.tx.does = "swap",
                      NEW t \in pool, t.owner = s, t.does = "swap"
               PROVE  FALSE
    BY DEF Mined, Pending
  <2>1. r.tx = t
    BY DEF IInv, Owned, Sent
  <2>2. t.nonce \in Nat /\ mined \in Nat /\ t.nonce >= mined /\ t.nonce < mined
    BY <2>1 DEF IInv, Ordered, TypeOK, Txs
  <2>3. QED
    BY <2>2
<1>2. SwapState(s) = IF Mined(s) THEN "mined" ELSE IF Pending(s) THEN "pending" ELSE "none"
  BY DEF SwapState, SwapSent, Mined, Pending
<1>3. pc[s] \in Preparing => ~SwapSent(s)
  BY SentSwap DEF IInv, Staged, TypeOK
<1>4. QED
  BY <1>1, <1>2, <1>3 DEF SwapSent, Mined, Pending

\* A step of one call changes what that call told, and nothing else of the answers.
LEMMA OneTold ==
  ASSUME NEW s \in Swaps,
         \A v \in Swaps \ {s} : pc'[v] = pc[v] /\ doing'[v] = doing[v] /\ err'[v] = err[v]
  PROVE  Answers' = [Answers EXCEPT ![s] = Answer(s)']
<1>1. \A v \in Swaps \ {s} : Answer(v)' = Answer(v)
  BY DEF Answer
<1>2. QED
  BY <1>1 DEF Answers

\* A call tells its caller nothing while it prepares a transaction or waits for
\* its approval.
LEMMA Asked ==
  ASSUME IInv, NEW s \in Swaps
  PROVE  /\ pc[s] \in Preparing => Answer(s) = "asked"
         /\ pc[s] \in Running => Answer(s) \in {"asked", "sent"}
         /\ pc[s] = "wait" /\ doing[s] = "swap" => Answer(s) = "sent"
         /\ pc[s] = "wait" /\ doing[s] = "approve" => Answer(s) = "asked"
BY DEF Answer, Preparing, Running

\* Without a transaction sent, mined or lost, every swap is where it was.
LEMMA ChainStill ==
  ASSUME UNCHANGED chain
  PROVE  SwapStates' = SwapStates /\ pulled' = pulled /\ balance' = balance
BY DEF chain, SwapStates, SwapState, SwapSent
----------------------------------------------------------------------------
\* A fresh wallet owes nothing to anybody.
LEMMA PromiseInit == Init => Promise!Init
<1> SUFFICES ASSUME Init PROVE Promise!Init
  OBVIOUS
<1>1. Answers = [s \in Swaps |-> "idle"] /\ SwapStates = [s \in Swaps |-> "none"]
      /\ Sellers = {}
  BY DEF Init, Answers, Answer, Running, SwapStates, SwapState, SwapSent, Sellers, Native
<1>2. QED
  BY <1>1 DEF Init, Promise!Init, Answers, SwapStates, Sellers

\* A call begins, or is refused at its price.
LEMMA PricingKeeps ==
  ASSUME IInv, NEW s \in Swaps, Price(s) \/ PriceThorchain(s)
  PROVE  Promise!Ask(s) \/ Promise!Refuse(s)
<1>1. SwapStates' = SwapStates /\ UNCHANGED <<pulled, balance>>
  BY ChainStill DEF Price, PriceThorchain, chain
<1>2. Answers[s] = "idle" /\ pc \in [Swaps -> Running \cup {"idle", "ok", "failed", "killed"}]
  BY DEF IInv, TypeOK, Answers, Answer, Running, Price, PriceThorchain
<1>3. ASSUME Fail(s, "price"), UNCHANGED <<kind, amt, doing, nonce>> PROVE Promise!Refuse(s)
  <2>1. pc'[s] = "failed" /\ err'[s] = "price"
    BY <1>3 DEF Fail, Goto, IInv, TypeOK
  <2>2. Answer(s)' = "refused"
    BY <2>1 DEF Answer, Running
  <2>3. Answers' = [Answers EXCEPT ![s] = "refused"]
    BY <1>3, <2>2, OneTold DEF Fail, Goto, IInv, TypeOK
  <2>4. Sellers' = Sellers /\ amt' = amt
    BY <1>3 DEF Sellers
  <2>5. QED
    BY <1>1, <1>2, <2>3, <2>4
    DEF Promise!Refuse, Promise!Tell, Answers, SwapStates, Sellers
<1>4. ASSUME NEW k \in Kinds, NEW does \in {"approve", "swap"}, NEW step \in Preparing,
             Begin(s, k, does, step)
      PROVE  Promise!Ask(s)
  <2>1. PICK a \in 1..MaxAmount : amt' = [amt EXCEPT ![s] = a]
    BY <1>4 DEF Begin
  <2>2. /\ pc' = [pc EXCEPT ![s] = step] /\ kind' = [kind EXCEPT ![s] = k]
        /\ doing' = [doing EXCEPT ![s] = does] /\ err' = err
    BY <1>4 DEF Begin, Goto
  <2>3. Answer(s)' = "asked"
    BY <1>2, <2>2 DEF Answer, Preparing, Running
  <2>4. Answers' = [Answers EXCEPT ![s] = "asked"]
    BY <2>2, <2>3, OneTold DEF IInv, TypeOK
  <2>5. Sellers' \in {Sellers \ {s}, Sellers \cup {s}}
    BY <2>2 DEF Sellers, IInv, TypeOK
  <2>6. QED
    BY <1>1, <1>2, <2>1, <2>4, <2>5
    DEF Promise!Ask, Promise!Tell, Answers, SwapStates, Sellers
<1>5. CASE Price(s)
  BY <1>3, <1>4, <1>5 DEF Price, Preparing, Running, Kinds, Native, Deposits
<1>6. CASE PriceThorchain(s)
  BY <1>3, <1>4, <1>6 DEF PriceThorchain, Preparing, Running, Kinds, Native, Deposits
<1>7. QED
  BY <1>5, <1>6

\* The steps that read the chain refuse, or tell nothing yet.
LEMMA ReadingKeeps ==
  ASSUME IInv, NEW s \in Swaps,
         CheckAllowance(s) \/ Recheck(s) \/ Estimate(s) \/ ReadNonce(s)
  PROVE  Promise!Refuse(s) \/ UNCHANGED Promise!vars
<1>1. UNCHANGED <<kind, amt, chain>>
  BY DEF CheckAllowance, Recheck, Estimate, ReadNonce
<1>2. SwapStates' = SwapStates /\ UNCHANGED <<pulled, balance>> /\ Sellers' = Sellers
  BY <1>1, ChainStill DEF Sellers
<1>3. pc[s] \in Preparing
  BY DEF CheckAllowance, Recheck, Estimate, ReadNonce, Preparing, Running
<1>4. Answers[s] = "asked"
  BY <1>3, Asked DEF Answers
<1>5. \A v \in Swaps \ {s} : pc'[v] = pc[v] /\ doing'[v] = doing[v] /\ err'[v] = err[v]
  BY DEF CheckAllowance, Recheck, Estimate, ReadNonce, Fail, Goto, IInv, TypeOK
<1>6. \/ pc'[s] \in Preparing
      \/ pc'[s] = "failed" /\ err'[s] \in {"allowance", "insufficient", "estimate", "nonce"}
  BY DEF CheckAllowance, Recheck, Estimate, ReadNonce, Fail, Goto, IInv, TypeOK,
         Preparing, Running
<1>7. Answer(s)' \in {"asked", "refused"}
  BY <1>6 DEF Answer, Preparing, Running
<1>8. Answers' = Answers \/ Answers' = [Answers EXCEPT ![s] = "refused"]
  BY <1>4, <1>5, <1>7, OneTold DEF Answers
<1>9. QED
  BY <1>1, <1>2, <1>4, <1>8
  DEF Promise!Refuse, Promise!Tell, Promise!vars, Answers, SwapStates, Sellers

\* A call that stops waiting has seen its swap mined, goes on to its swap, or
\* leaves its caller unsure, as one does whose process ends.
LEMMA WaitingKeeps ==
  ASSUME IInv, NEW s \in Swaps, Wait(s) \/ Quit(s)
  PROVE  Promise!Succeed(s) \/ Promise!Doubt(s) \/ UNCHANGED Promise!vars
<1>1. UNCHANGED <<kind, amt, chain>>
  BY DEF Wait, Quit
<1>2. SwapStates' = SwapStates /\ UNCHANGED <<pulled, balance>> /\ Sellers' = Sellers
  BY <1>1, ChainStill DEF Sellers
<1>3. \A v \in Swaps \ {s} : pc'[v] = pc[v] /\ doing'[v] = doing[v] /\ err'[v] = err[v]
  BY DEF Wait, Quit, Proceed, Fail, Goto, IInv, TypeOK
<1>4. Answers' = [Answers EXCEPT ![s] = Answer(s)']
  BY <1>3, OneTold
<1>5. ASSUME Answer(s) \in {"asked", "sent"}, Answer(s)' = "unsure" PROVE Promise!Doubt(s)
  BY <1>1, <1>2, <1>4, <1>5
  DEF Promise!Doubt, Promise!Tell, Promise!Forget, Answers, SwapStates, Sellers
<1>6. CASE Quit(s)
  <2>1. pc[s] \in Running /\ pc'[s] = "killed"
    BY <1>6 DEF Quit, Goto, IInv, TypeOK
  <2>2. Answer(s)' = "unsure"
    BY <2>1 DEF Answer, Running
  <2>3. QED
    BY <1>5, <2>1, <2>2, Asked
<1>7. CASE Wait(s) /\ Fail(s, "wait")
  <2>1. pc[s] = "wait" /\ pc'[s] = "failed" /\ err'[s] = "wait"
    BY <1>7 DEF Wait, Fail, Goto, IInv, TypeOK
  <2>2. Answer(s)' = "unsure"
    BY <2>1 DEF Answer, Running
  <2>3. QED
    BY <1>5, <2>1, <2>2, Asked DEF Running
<1>8. ASSUME NEW r \in receipts, r.tx = Tx(s), pc[s] = "wait", Proceed(s)
      PROVE  Promise!Succeed(s) \/ UNCHANGED Promise!vars
  <2>1. CASE doing[s] = "approve"
    <3>1. pc'[s] \in Preparing
      BY <1>8, <2>1 DEF Proceed, Goto, Preparing, Running, IInv, TypeOK
    <3>2. Answer(s) = "asked" /\ Answer(s)' = "asked"
      BY <1>8, <2>1, <3>1, Asked DEF Answer, Preparing, Running
    <3>3. Answers' = Answers
      BY <1>4, <3>2 DEF Answers
    <3>4. QED
      BY <1>1, <1>2, <3>3 DEF Promise!vars, Answers, SwapStates, Sellers
  <2>2. CASE doing[s] = "swap"
    <3>1. pc'[s] = "ok" /\ Answer(s) = "sent"
      BY <1>8, <2>2, Asked DEF Proceed, Goto, IInv, TypeOK
    <3>2. Answer(s)' = "ok"
      BY <3>1 DEF Answer, Running
    <3>3. SwapState(s) = "mined"
      BY <1>8, <2>2, SwapStateIs DEF Mined, Tx
    <3>4. QED
      BY <1>1, <1>2, <1>4, <3>1, <3>2, <3>3
      DEF Promise!Succeed, Promise!Tell, Answers, SwapStates, Sellers
  <2>3. QED
    BY <2>1, <2>2 DEF IInv, TypeOK
<1>9. QED
  BY <1>6, <1>7, <1>8 DEF Wait
----------------------------------------------------------------------------
\* A transaction that the node takes puts out one pending swap at most.
LEMMA Displacing ==
  ASSUME IInv, NEW s \in Swaps, pc[s] = "send", Accept(Tx(s)), UNCHANGED doing
  PROVE  \E d \in Swaps :
           /\ d # s => Pending(d)
           /\ SwapStates' = IF doing[s] = "swap"
                            THEN [SwapStates EXCEPT ![d] = IF @ = "pending" THEN "none" ELSE @,
                                                    ![s] = "pending"]
                            ELSE [SwapStates EXCEPT ![d] = "none"]
<1> DEFINE new == Tx(s)
<1>1. new.owner = s /\ new.does = doing[s] /\ doing[s] \in {"approve", "swap"}
  BY DEF Tx, IInv, TypeOK
<1>2. /\ pool' = {p \in pool : p.nonce # new.nonce} \cup {new}
      /\ receipts' = receipts
  BY DEF Accept
<1> HIDE DEF new
<1>3. ~Mined(s) /\ ~Pending(s)
  BY SwapStateIs DEF Preparing, Running
<1>4. \A v \in Swaps : Mined(v)' <=> Mined(v)
  BY <1>2 DEF Mined
<1>5. Pending(s)' <=> doing[s] = "swap"
  BY <1>1, <1>2, <1>3 DEF Pending
<1>6. \A v \in Swaps \ {s} :
        Pending(v)' <=> \E p \in pool : /\ p.owner = v /\ p.does = "swap"
                                        /\ p.nonce # new.nonce
  BY <1>1, <1>2 DEF Pending
<1>7. ASSUME NEW v \in Swaps, ~Mined(v)
      PROVE  SwapState(v)' = IF Pending(v)' THEN "pending" ELSE "none"
  BY <1>4, <1>7 DEF SwapState, SwapSent, Mined, Pending
<1>8. ASSUME NEW v \in Swaps \ {s}, Pending(v)' <=> Pending(v)
      PROVE  SwapState(v)' = SwapState(v)
  BY <1>4, <1>8 DEF SwapState, SwapSent, Mined, Pending
<1>9. CASE \E p \in pool : p.does = "swap" /\ p.nonce = new.nonce
  <2>1. PICK p \in pool : p.does = "swap" /\ p.nonce = new.nonce
    BY <1>9
  <2>2. p.owner \in Swaps /\ p.owner # s /\ Pending(p.owner)
    BY <1>3, <2>1 DEF Pending, IInv, TypeOK, Txs
  <2>3. ~Pending(p.owner)'
    <3>1. \A q \in pool : q.owner = p.owner /\ q.does = "swap" => q = p
      BY <2>1 DEF IInv, Owned, Sent
    <3>2. QED
      BY <1>6, <2>1, <2>2, <3>1
  <2>4. SwapState(p.owner) = "pending" /\ SwapState(p.owner)' = "none"
    BY <1>7, <2>2, <2>3, SwapStateIs
  <2>5. ASSUME NEW v \in Swaps, v # s, v # p.owner PROVE SwapState(v)' = SwapState(v)
    <3>1. \A q \in pool : q.owner = v => q.nonce # new.nonce
      BY <2>1, <2>5 DEF IInv, Ordered
    <3>2. Pending(v)' <=> Pending(v)
      BY <1>6, <2>5, <3>1 DEF Pending
    <3>3. QED
      BY <1>8, <2>5, <3>2
  <2>6. SwapState(s) = "none" /\ SwapState(s)' = IF doing[s] = "swap" THEN "pending" ELSE "none"
    BY <1>3, <1>5, <1>7, SwapStateIs
  <2>7. QED
    BY <2>2, <2>4, <2>5, <2>6 DEF SwapStates
<1>10. CASE \A p \in pool : p.does = "swap" => p.nonce # new.nonce
  <2>1. ASSUME NEW v \in Swaps, v # s PROVE SwapState(v)' = SwapState(v)
    <3>1. Pending(v)' <=> Pending(v)
      BY <1>6, <1>10, <2>1 DEF Pending
    <3>2. QED
      BY <1>8, <2>1, <3>1
  <2>2. SwapState(s) = "none" /\ SwapState(s)' = IF doing[s] = "swap" THEN "pending" ELSE "none"
    BY <1>3, <1>5, <1>7, SwapStateIs
  <2>3. QED
    BY <2>1, <2>2 DEF SwapStates
<1>11. QED
  BY <1>9, <1>10

\* A call sends its swap, or its approval, or is unsure whether it did.
LEMMA SendKeeps ==
  ASSUME IInv, NEW s \in Swaps, Send(s)
  PROVE  Promise!Submit(s) \/ Promise!Doubt(s) \/ Promise!Lose \/ UNCHANGED Promise!vars
<1>1. pc[s] = "send" /\ UNCHANGED <<kind, amt, doing, nonce>>
  BY DEF Send
<1>2. Answers[s] = "asked" /\ Sellers' = Sellers
  BY <1>1, Asked DEF Answers, Preparing, Running, Sellers
<1>3. \A v \in Swaps \ {s} : pc'[v] = pc[v] /\ doing'[v] = doing[v] /\ err'[v] = err[v]
  BY DEF Send, Fail, Goto, IInv, TypeOK
<1>4. Answers' = [Answers EXCEPT ![s] = Answer(s)']
  BY <1>3, OneTold
<1>5. Fail(s, "send") => Answer(s)' = "unsure"
  <2>1. Fail(s, "send") => pc'[s] = "failed" /\ err'[s] = "send"
    BY DEF Fail, Goto, IInv, TypeOK
  <2>2. QED
    BY <2>1 DEF Answer, Running
<1>6. Goto(s, "wait") => Answer(s)' = IF doing[s] = "swap" THEN "sent" ELSE "asked"
  <2>1. Goto(s, "wait") => pc'[s] = "wait" /\ doing'[s] = doing[s]
    BY <1>1 DEF Goto, IInv, TypeOK
  <2>2. QED
    BY <2>1 DEF Answer, Running
<1>7. CASE Fail(s, "send") /\ UNCHANGED chain
  BY <1>1, <1>2, <1>4, <1>5, <1>7, ChainStill
  DEF Promise!Doubt, Promise!Tell, Promise!Forget, Answers, SwapStates, Sellers
<1>8. CASE Accept(Tx(s)) /\ (Goto(s, "wait") \/ Fail(s, "send"))
  <2>1. UNCHANGED <<pulled, balance>>
    BY <1>8 DEF Accept
  <2>2. PICK d \in Swaps :
          /\ d # s => Pending(d)
          /\ SwapStates' = IF doing[s] = "swap"
                           THEN [SwapStates EXCEPT ![d] = IF @ = "pending" THEN "none" ELSE @,
                                                   ![s] = "pending"]
                           ELSE [SwapStates EXCEPT ![d] = "none"]
    BY <1>1, <1>8, Displacing
  <2>3. CASE doing[s] = "swap"
    <3>1. Answer(s)' \in {"sent", "unsure"}
      BY <1>5, <1>6, <1>8, <2>3
    <3>2. QED
      BY <1>1, <1>2, <1>4, <2>1, <2>2, <2>3, <3>1
      DEF Promise!Submit, Promise!Tell, Answers, SwapStates, Sellers
  <2>4. CASE doing[s] = "approve"
    <3>1. \/ SwapStates' = SwapStates
          \/ SwapStates[d] = "pending" /\ SwapStates' = [SwapStates EXCEPT ![d] = "none"]
      <4>1. SwapState(s) = "none" /\ (d # s => SwapState(d) = "pending")
        BY <1>1, <2>2, SwapStateIs DEF Preparing, Running
      <4>2. QED
        BY <2>2, <2>4, <4>1 DEF SwapStates
    <3>2. Answer(s)' \in {"asked", "unsure"}
      BY <1>5, <1>6, <1>8, <2>4
    <3>3. CASE Answer(s)' = "asked"
      <4>1. Answers' = Answers
        BY <1>2, <1>4, <3>3 DEF Answers
      <4>2. QED
        BY <1>1, <1>2, <2>1, <3>1, <4>1
        DEF Promise!Lose, Promise!Forget, Promise!vars, Answers, SwapStates, Sellers
    <3>4. CASE Answer(s)' = "unsure"
      BY <1>1, <1>2, <1>4, <2>1, <3>1, <3>4
      DEF Promise!Doubt, Promise!Tell, Promise!Forget, Answers, SwapStates, Sellers
    <3>5. QED
      BY <3>2, <3>3, <3>4
  <2>5. QED
    BY <2>3, <2>4 DEF IInv, TypeOK
<1>9. QED
  BY <1>7, <1>8 DEF Send

\* The node forgets a swap, or an approval, of which nothing was promised.
LEMMA EvictKeeps ==
  ASSUME IInv, NEW t \in pool, Evict(t)
  PROVE  Promise!Lose \/ UNCHANGED Promise!vars
<1> DEFINE o == t.owner
<1>1. o \in Swaps /\ t.does \in {"approve", "swap"} /\ t \in Sent
  BY DEF IInv, TypeOK, Txs, Sent
<1>2. Answers' = Answers /\ Sellers' = Sellers /\ UNCHANGED <<amt, pulled, balance>>
  BY DEF Evict, Answers, Answer, Sellers
<1>3. pool' = pool \ {t} /\ receipts' = receipts
  BY DEF Evict
<1>4. ASSUME NEW v \in Swaps, v # o \/ t.does = "approve"
      PROVE  SwapState(v)' = SwapState(v)
  BY <1>3, <1>4 DEF SwapState, SwapSent
<1>5. CASE t.does = "approve"
  <2>1. SwapStates' = SwapStates
    BY <1>4, <1>5 DEF SwapStates
  <2>2. QED
    BY <1>2, <2>1 DEF Promise!vars, Answers, SwapStates, Sellers
<1>6. CASE t.does = "swap"
  <2>1. SwapState(o) = "pending" /\ ~Mined(o)
    BY <1>1, <1>6, SwapStateIs DEF Pending
  <2>2. \A q \in pool : q.owner = o /\ q.does = "swap" => q = t
    BY <1>6 DEF IInv, Owned, Sent
  <2>3. SwapState(o)' = "none"
    BY <1>3, <2>1, <2>2 DEF SwapState, SwapSent, Mined
  <2>4. SwapStates[o] = "pending" /\ SwapStates' = [SwapStates EXCEPT ![o] = "none"]
    BY <1>1, <1>4, <2>1, <2>3 DEF SwapStates
  <2>5. QED
    BY <1>1, <1>2, <2>4 DEF Promise!Lose, Promise!Forget, Answers, SwapStates, Sellers
<1>7. QED
  BY <1>1, <1>5, <1>6

\* The chain settles a swap for the amount its call agreed on, or for nothing,
\* or mines an approval, of which nothing was promised.
LEMMA MineKeeps ==
  ASSUME IInv, NEW t \in pool, Mine(t)
  PROVE  Promise!Settle(t.owner) \/ UNCHANGED Promise!vars
<1> DEFINE o == t.owner
<1>1. /\ o \in Swaps /\ t.does \in {"approve", "swap"} /\ t.nonce = mined
      /\ t.amount = amt[o] /\ amt[o] \in Nat /\ pulled[o] = 0 /\ balance \in Nat
  BY NothingPulledYet, AmountsAssumption DEF Mine, IInv, TypeOK, Txs, Owned, Sent
<1>2. Answers' = Answers /\ Sellers' = Sellers /\ amt' = amt /\ pool' = pool \ {t}
  BY DEF Mine, Answers, Answer, Sellers
<1>3. PICK status \in {"ok", "reverted"} :
        receipts' = receipts \cup {[tx |-> t, status |-> status]}
  BY DEF Mine, MineApproval, MineSwap, MineReverted
<1>4. ASSUME NEW v \in Swaps, v # o \/ t.does = "approve"
      PROVE  SwapState(v)' = SwapState(v)
  <2>1. Mined(v)' <=> Mined(v)
    BY <1>3, <1>4 DEF Mined
  <2>2. Pending(v)' <=> Pending(v)
    BY <1>2, <1>4 DEF Pending
  <2>3. QED
    BY <2>1, <2>2 DEF SwapState, SwapSent, Mined, Pending
<1>5. CASE t.does = "approve"
  <2>1. SwapStates' = SwapStates
    BY <1>4, <1>5 DEF SwapStates
  <2>2. UNCHANGED <<pulled, balance>>
    BY <1>5 DEF Mine, MineApproval, MineSwap, MineReverted
  <2>3. QED
    BY <1>2, <2>1, <2>2 DEF Promise!vars, Answers, SwapStates, Sellers
<1>6. CASE t.does = "swap"
  <2>1. SwapState(o) = "pending"
    BY <1>1, <1>6, SwapStateIs DEF Pending
  <2>2. Mined(o)'
    <3>1. [tx |-> t, status |-> status] \in receipts'
      BY <1>3
    <3>2. QED
      BY <1>6, <3>1 DEF Mined
  <2>3. SwapState(o)' = "mined"
    BY <2>2 DEF SwapState, Mined
  <2>4. SwapStates[o] = "pending" /\ SwapStates' = [SwapStates EXCEPT ![o] = "mined"]
    BY <1>1, <1>4, <2>1, <2>3 DEF SwapStates
  <2>5. CASE MineReverted(t)
    <3>1. UNCHANGED <<pulled, balance>>
      BY <2>5 DEF MineReverted
    <3>2. QED
      BY <1>2, <2>4, <3>1 DEF Promise!Settle, Answers, SwapStates, Sellers
  <2>6. CASE MineSwap(t)
    <3>1. pulled' = [pulled EXCEPT ![o] = amt[o]]
      <4>1. pulled[o] + t.amount = amt[o]
        BY <1>1
      <4>2. QED
        BY <2>6, <4>1 DEF MineSwap
    <3>2. IF o \in Sellers THEN amt[o] <= balance /\ balance' = balance - amt[o]
          ELSE UNCHANGED balance
      BY <1>1, <2>6 DEF MineSwap, Fundable, Sellers
    <3>3. QED
      BY <1>2, <2>4, <3>1, <3>2 DEF Promise!Settle, Answers, SwapStates, Sellers
  <2>7. QED
    BY <1>6, <2>5, <2>6 DEF Mine, MineApproval
<1>7. QED
  BY <1>1, <1>5, <1>6
----------------------------------------------------------------------------
\* Every step of the calls and of the chain is one of SwapPromise, or changes
\* nothing of what was promised.
LEMMA PromiseStep ==
  ASSUME IInv, [Next]_vars
  PROVE  [Promise!Next]_(Promise!vars)
<1>1. CASE UNCHANGED vars
  BY <1>1
  DEF vars, chain, Promise!vars, Answer, SwapState, SwapSent
<1>2. ASSUME NEW s \in Swaps, Price(s) \/ PriceThorchain(s) \/ Step(s) \/ Quit(s)
      PROVE  [Promise!Next]_(Promise!vars)
  BY <1>2, PricingKeeps, ReadingKeeps, SendKeeps, WaitingKeeps
  DEF Step, FullSwap, Transfer, Deposit, Promise!Next
<1>3. ASSUME NEW t \in pool, Mine(t) \/ Evict(t) PROVE [Promise!Next]_(Promise!vars)
  <2>1. t.owner \in Swaps
    BY DEF IInv, TypeOK, Txs
  <2>2. QED
    BY <1>3, <2>1, MineKeeps, EvictKeeps DEF Promise!Next
<1>4. QED
  BY <1>1, <1>2, <1>3 DEF Next

\* Calls that share a wallet keep the promise of SwapPromise, whatever becomes
\* of their nonces, approvals and answers.
THEOREM PromiseRefinement == Spec => ImplementsPromise
<1>1. QED
  BY PromiseInit, PromiseStep, Invariance, PTL DEF Spec, ImplementsPromise, Promise!Spec
=============================================================================
