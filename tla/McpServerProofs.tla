-------------------------- MODULE McpServerProofs --------------------------
(***************************************************************************)
(* Theorems about McpServer, for any set of calls, chains and wallets, any *)
(* caps and any number of runs.                                            *)
(*                                                                         *)
(* The invariant has three layers.  Guarded: the mutex protects spentUSD,  *)
(* so what a handler read as left is still left when it books.  Staged:    *)
(* what the position of a handler says of its booking and its trade.       *)
(* Sliced: each booking was cut off the bottom of all earlier ones of its  *)
(* run, so bookings are disjoint.                                          *)
(***************************************************************************)
EXTENDS McpServer, CollectionFacts

\* Handlers that still have their amount to book, that have booked and not
\* signed, and that have signed (or ended after signing).
Unbooked == {"idle", "resolve", "cap", "lock", "book"}
Cleared == {"logAllowed", "allowlist", "risk", "unlock", "flow", "dial", "execute"}
Signed == {"wait", "logOk", "logFailed", "ok", "failed", "killed"}

\* The mutex protects spentUSD from the read of what is left to the booking.
Guarded ==
  /\ spent <= Budget
  /\ \A h \in Calls :
       /\ pc[h] = "book" => mu = h /\ left[h] = Budget - spent
       /\ pc[h] = "dial" => mu = h

\* What the position of a handler says of its call.
Staged ==
  /\ \A h \in Calls :
       /\ pc[h] \in Unbooked => h \notin booked
       /\ pc[h] \in Cleared => h \in booked
       /\ pc[h] \in Running => runOf[h] = run
       /\ runOf[h] <= run
       /\ pc[h] # "idle" => req[h] \in Requests
       /\ pc[h] \in {"cap", "lock", "book"} => req[h].usd > 0
       /\ pc[h] \in {"lock", "book"} => req[h].usd <= MaxUSD
  /\ \A h \in booked : req[h].usd \in 1..MaxUSD
  /\ \A t \in trades : pc[t.call] \in Signed

\* Bookings of the present run lie above what is left, and are disjoint.
Sliced ==
  /\ \A h \in booked : runOf[h] = run => Budget - spent <= remaining[h]
  /\ BookingsDisjoint

\* The policy the handler has already checked for its chain and its token.
Checked ==
  \A h \in Calls :
    /\ pc[h] \in {"risk", "unlock", "flow", "dial", "execute"} =>
         key[h] \in Chains /\ ChainAllowed(key[h])
    /\ pc[h] \in {"unlock", "flow", "dial", "execute"} =>
         (<<key[h], req[h].token>> \in HighRisk =>
            AllowRisky \/ verdict[h] = "UNKNOWN")
    /\ pc[h] \in {"flow", "dial", "execute"} => signer[h] \in Wallets
    /\ pc[h] \notin {"idle", "resolve", "invalid", "killed"} => key[h] \in Chains

IInv == TypeOK /\ Guarded /\ Staged /\ Sliced /\ TradesBooked
             /\ Checked /\ TradesWithinPolicy
----------------------------------------------------------------------------
\* The ceiling of a run is a number, and one swap at the cap fits in it.
LEMMA BudgetNat == Budget \in Nat /\ MaxUSD \in Nat /\ MaxUSD <= Budget
BY OptionsAssumption DEF Budget

\* The fields of the arguments of a call, arrived or not.
LEMMA Arguments ==
  ASSUME NEW r \in Requests \cup {NoRequest}
  PROVE  /\ r.usd \in Nat
         /\ r.chain \in Chains \cup {None}
         /\ r \in Requests => r.token \in Tokens
BY OptionsAssumption DEF NoRequest

\* Every step keeps the types.  Booking subtracts from the budget, so spent
\* stays under it; a signed swap has the chain and the wallet of its handler.
LEMMA TypeStep ==
  ASSUME TypeOK, Guarded, Staged, Checked, [Next]_vars
  PROVE  TypeOK'
<1> USE OptionsAssumption, BudgetNat
    DEF TypeOK, Running, Outcomes, updates, budget, database
<1>1. ASSUME NEW h \in Calls, Arrive(h) PROVE TypeOK'
  BY <1>1 DEF Arrive, Goto
<1>2. ASSUME NEW h \in Calls, Resolve(h) PROVE TypeOK'
  <2>1. req[h].chain \in Chains \cup {None} /\ config.chain \in Chains
    BY Arguments DEF Config
  <2>2. key' \in [Calls -> Chains \cup {None}]
    BY <1>2, <2>1 DEF Resolve
  <2>3. pc' \in [Calls -> Running \cup Outcomes \cup {"idle", "killed"}]
    BY <1>2 DEF Resolve, Goto
  <2>4. QED
    BY <1>2, <2>2, <2>3 DEF Resolve
<1>3. ASSUME NEW h \in Calls, CheckCap(h) PROVE TypeOK'
  BY <1>3 DEF CheckCap, Goto, Write, Lines
<1>4. ASSUME NEW h \in Calls, ReserveLock(h) PROVE TypeOK'
  <2>1. Budget - spent \in Nat
    BY DEF Guarded
  <2>2. left' \in [Calls -> Nat]
    BY <1>4, <2>1 DEF ReserveLock
  <2>3. pc' \in [Calls -> Running \cup Outcomes \cup {"idle", "killed"}]
    BY <1>4 DEF ReserveLock, Goto
  <2>4. QED
    BY <1>4, <2>2, <2>3 DEF ReserveLock
<1>5. ASSUME NEW h \in Calls, ReserveBook(h) PROVE TypeOK'
  <2>1. req[h].usd \in Nat /\ left[h] \in Nat /\ left[h] = Budget - spent
    BY <1>5, Arguments DEF ReserveBook, Guarded
  <2>2. spent' \in Nat /\ remaining' \in [Calls -> Nat]
    BY <1>5, <2>1 DEF ReserveBook
  <2>3. pc' \in [Calls -> Running \cup Outcomes \cup {"idle", "killed"}]
    BY <1>5 DEF ReserveBook, Goto
  <2>4. booked' \subseteq Calls
    BY <1>5 DEF ReserveBook
  <2>5. QED
    BY <1>5, <2>2, <2>3, <2>4 DEF ReserveBook
<1>6. ASSUME NEW h \in Calls, LogBudgetRefusal(h) PROVE TypeOK'
  BY <1>6 DEF LogBudgetRefusal, Goto, Write, Lines
<1>7. ASSUME NEW h \in Calls, LogAllowed(h) PROVE TypeOK'
  BY <1>7 DEF LogAllowed, Goto, Write, Lines
<1>8. ASSUME NEW h \in Calls, CheckAllowlist(h) PROVE TypeOK'
  BY <1>8 DEF CheckAllowlist, Goto
<1>9. ASSUME NEW h \in Calls, CheckRisk(h) PROVE TypeOK'
  BY <1>9 DEF CheckRisk, Goto, Verdict, Verdicts
<1>10. ASSUME NEW h \in Calls, UnlockWallet(h) PROVE TypeOK'
  BY <1>10 DEF UnlockWallet, Goto, Pick
<1>11. ASSUME NEW h \in Calls, FlowLock(h) PROVE TypeOK'
  BY <1>11 DEF FlowLock, Goto
<1>12. ASSUME NEW h \in Calls, FlowDial(h) PROVE TypeOK'
  <2>1. key[h] \in Chains
    BY <1>12 DEF FlowDial, Checked
  <2>2. pc' \in [Calls -> Running \cup Outcomes \cup {"idle", "killed"}]
    BY <1>12 DEF FlowDial, Goto
  <2>3. QED
    BY <1>12, <2>1, <2>2 DEF FlowDial
<1>13. ASSUME NEW h \in Calls, Execute(h) PROVE TypeOK'
  <2>1. key[h] \in Chains /\ signer[h] \in Wallets
    BY <1>13 DEF Execute, Checked
  <2>2. req[h].usd \in Nat /\ req[h].token \in Tokens
    BY <1>13, Arguments DEF Execute, Staged
  <2>3. trades' \subseteq Trades
    BY <1>13, <2>1, <2>2 DEF Execute, Trades
  <2>4. pc' \in [Calls -> Running \cup Outcomes \cup {"idle", "killed"}]
    BY <1>13 DEF Execute, Goto
  <2>5. QED
    BY <1>13, <2>3, <2>4 DEF Execute
<1>14. ASSUME NEW h \in Calls, AwaitReceipt(h) PROVE TypeOK'
  BY <1>14 DEF AwaitReceipt, Goto
<1>15. ASSUME NEW h \in Calls, LogOutcome(h) PROVE TypeOK'
  BY <1>15 DEF LogOutcome, Goto, Write, Lines
<1>16. ASSUME NEW u \in Updates, UpdateStart(u) PROVE TypeOK'
  BY <1>16 DEF UpdateStart, UpdateSteps
<1>17. ASSUME NEW u \in Updates, UpdateChain(u) PROVE TypeOK'
  <2>1. ureq[u].chain \in Chains \cup {None}
    OBVIOUS
  <2>2. config' \in Config
    BY <1>17, <2>1 DEF UpdateChain, Config
  <2>3. upc' \in [Updates -> UpdateSteps]
    BY <1>17 DEF UpdateChain, UpdateSteps
  <2>4. QED
    BY <1>17, <2>2, <2>3 DEF UpdateChain
<1>18. ASSUME NEW u \in Updates, UpdateSlippage(u) PROVE TypeOK'
  BY <1>18 DEF UpdateSlippage, UpdateSteps
<1>19. ASSUME NEW u \in Updates, UpdatePick(u) PROVE TypeOK'
  BY <1>19 DEF UpdatePick, UpdateSteps
<1>20. ASSUME NEW u \in Updates, UpdateWallet(u) PROVE TypeOK'
  BY <1>20 DEF UpdateWallet, Config, UpdateSteps
<1>21. ASSUME NEW w \in Deletable, DeleteWallet(w) PROVE TypeOK'
  BY <1>21 DEF DeleteWallet
<1>22. CASE Restart
  BY <1>22 DEF Restart, UpdateSteps
<1>23. CASE UNCHANGED vars
  BY <1>23 DEF vars
<1>24. QED
  BY <1>1, <1>2, <1>3, <1>4, <1>5, <1>6, <1>7, <1>8, <1>9, <1>10, <1>11,
     <1>12, <1>13, <1>14, <1>15, <1>16, <1>17, <1>18, <1>19, <1>20, <1>21,
     <1>22, <1>23 DEF Next, Handler, Updater

\* Every step keeps the mutex over what was read as left: only its holder
\* books, and nobody else can take it meanwhile.
LEMMA GuardedStep ==
  ASSUME TypeOK, Guarded, [Next]_vars
  PROVE  Guarded'
<1> USE OptionsAssumption, BudgetNat DEF TypeOK, Guarded, updates, budget, database
<1>1. ASSUME NEW h \in Calls, Arrive(h) PROVE Guarded'
  BY <1>1 DEF Arrive, Goto
<1>2. ASSUME NEW h \in Calls, Resolve(h) PROVE Guarded'
  BY <1>2 DEF Resolve, Goto
<1>3. ASSUME NEW h \in Calls, CheckCap(h) PROVE Guarded'
  BY <1>3 DEF CheckCap, Goto
<1>4. ASSUME NEW h \in Calls, ReserveLock(h) PROVE Guarded'
  BY <1>4 DEF ReserveLock, Goto
<1>5. ASSUME NEW h \in Calls, ReserveBook(h) PROVE Guarded'
  <2>1. req[h].usd \in Nat /\ left[h] = Budget - spent /\ mu = h
    BY <1>5, Arguments DEF ReserveBook
  <2>2. spent' <= Budget
    BY <1>5, <2>1 DEF ReserveBook
  <2>3. \A g \in Calls : pc'[g] # "book" /\ pc'[g] # "dial"
    BY <1>5, <2>1 DEF ReserveBook, Goto
  <2>4. QED
    BY <2>2, <2>3
<1>6. ASSUME NEW h \in Calls, LogBudgetRefusal(h) PROVE Guarded'
  BY <1>6 DEF LogBudgetRefusal, Goto
<1>7. ASSUME NEW h \in Calls, LogAllowed(h) PROVE Guarded'
  BY <1>7 DEF LogAllowed, Goto
<1>8. ASSUME NEW h \in Calls, CheckAllowlist(h) PROVE Guarded'
  BY <1>8 DEF CheckAllowlist, Goto
<1>9. ASSUME NEW h \in Calls, CheckRisk(h) PROVE Guarded'
  BY <1>9 DEF CheckRisk, Goto
<1>10. ASSUME NEW h \in Calls, UnlockWallet(h) PROVE Guarded'
  BY <1>10 DEF UnlockWallet, Goto
<1>11. ASSUME NEW h \in Calls, FlowLock(h) PROVE Guarded'
  BY <1>11 DEF FlowLock, Goto
<1>12. ASSUME NEW h \in Calls, FlowDial(h) PROVE Guarded'
  BY <1>12 DEF FlowDial, Goto
<1>13. ASSUME NEW h \in Calls, Execute(h) PROVE Guarded'
  BY <1>13 DEF Execute, Goto
<1>14. ASSUME NEW h \in Calls, AwaitReceipt(h) PROVE Guarded'
  BY <1>14 DEF AwaitReceipt, Goto
<1>15. ASSUME NEW h \in Calls, LogOutcome(h) PROVE Guarded'
  BY <1>15 DEF LogOutcome, Goto
<1>16. ASSUME NEW u \in Updates, Updater(u) PROVE Guarded'
  BY <1>16 DEF Updater, UpdateStart, UpdateChain, UpdateSlippage,
     UpdatePick, UpdateWallet
<1>17. ASSUME NEW w \in Deletable, DeleteWallet(w) PROVE Guarded'
  BY <1>17 DEF DeleteWallet
<1>18. CASE Restart
  BY <1>18 DEF Restart, Running
<1>19. CASE UNCHANGED vars
  BY <1>19 DEF vars
<1>20. QED
  BY <1>1, <1>2, <1>3, <1>4, <1>5, <1>6, <1>7, <1>8, <1>9, <1>10, <1>11,
     <1>12, <1>13, <1>14, <1>15, <1>16, <1>17, <1>18, <1>19 DEF Next, Handler

\* Every step keeps what a handler's position says: a call is booked on the way
\* to its trade and not before, and its cap was checked on the way there.
LEMMA StagedStep ==
  ASSUME TypeOK, Staged, [Next]_vars
  PROVE  Staged'
<1> USE OptionsAssumption
    DEF TypeOK, Staged, Unbooked, Cleared, Signed, Running, updates, budget, database
<1>1. ASSUME NEW h \in Calls, Arrive(h) PROVE Staged'
  BY <1>1 DEF Arrive, Goto
<1>2. ASSUME NEW h \in Calls, Resolve(h) PROVE Staged'
  <2>1. CASE pc' = [pc EXCEPT ![h] = "invalid"]
    BY <1>2, <2>1 DEF Resolve
  <2>2. CASE pc' = [pc EXCEPT ![h] = "cap"] /\ req[h].usd > 0
    BY <1>2, <2>2 DEF Resolve
  <2>3. QED
    BY <1>2, <2>1, <2>2 DEF Resolve, Goto
<1>3. ASSUME NEW h \in Calls, CheckCap(h) PROVE Staged'
  <2>1. CASE pc' = [pc EXCEPT ![h] = "refusedCap"]
    BY <1>3, <2>1 DEF CheckCap
  <2>2. CASE pc' = [pc EXCEPT ![h] = "lock"] /\ req[h].usd <= MaxUSD
    BY <1>3, <2>2 DEF CheckCap
  <2>3. QED
    BY <1>3, <2>1, <2>2, BudgetNat, Arguments DEF CheckCap, Goto
<1>4. ASSUME NEW h \in Calls, ReserveLock(h) PROVE Staged'
  BY <1>4 DEF ReserveLock, Goto
<1>5. ASSUME NEW h \in Calls, ReserveBook(h) PROVE Staged'
  <2>1. req[h].usd \in 1..MaxUSD /\ pc[h] = "book" /\ runOf[h] = run
    BY <1>5, BudgetNat, Arguments DEF ReserveBook
  <2>2. CASE pc' = [pc EXCEPT ![h] = "logRefusal"] /\ UNCHANGED booked
    BY <1>5, <2>2 DEF ReserveBook
  <2>3. CASE pc' = [pc EXCEPT ![h] = "logAllowed"] /\ booked' = booked \cup {h}
    BY <2>1, <2>3, <1>5 DEF ReserveBook
  <2>4. QED
    BY <1>5, <2>2, <2>3 DEF ReserveBook, Goto
<1>6. ASSUME NEW h \in Calls, LogBudgetRefusal(h) PROVE Staged'
  BY <1>6 DEF LogBudgetRefusal, Goto
<1>7. ASSUME NEW h \in Calls, LogAllowed(h) PROVE Staged'
  BY <1>7 DEF LogAllowed, Goto
<1>8. ASSUME NEW h \in Calls, CheckAllowlist(h) PROVE Staged'
  BY <1>8 DEF CheckAllowlist, Goto
<1>9. ASSUME NEW h \in Calls, CheckRisk(h) PROVE Staged'
  BY <1>9 DEF CheckRisk, Goto
<1>10. ASSUME NEW h \in Calls, UnlockWallet(h) PROVE Staged'
  <2>1. CASE pc' = [pc EXCEPT ![h] = "error"]
    BY <1>10, <2>1 DEF UnlockWallet
  <2>2. CASE pc' = [pc EXCEPT ![h] = "flow"]
    BY <1>10, <2>2 DEF UnlockWallet
  <2>3. QED
    BY <1>10, <2>1, <2>2 DEF UnlockWallet, Goto
<1>11. ASSUME NEW h \in Calls, FlowLock(h) PROVE Staged'
  <2>1. CASE pc' = [pc EXCEPT ![h] = "execute"]
    BY <1>11, <2>1 DEF FlowLock
  <2>2. CASE pc' = [pc EXCEPT ![h] = "dial"]
    BY <1>11, <2>2 DEF FlowLock
  <2>3. QED
    BY <1>11, <2>1, <2>2 DEF FlowLock, Goto
<1>12. ASSUME NEW h \in Calls, FlowDial(h) PROVE Staged'
  <2>1. CASE pc' = [pc EXCEPT ![h] = "execute"]
    BY <1>12, <2>1 DEF FlowDial
  <2>2. CASE pc' = [pc EXCEPT ![h] = "error"]
    BY <1>12, <2>2 DEF FlowDial
  <2>3. QED
    BY <1>12, <2>1, <2>2 DEF FlowDial, Goto
<1>13. ASSUME NEW h \in Calls, Execute(h) PROVE Staged'
  <2>1. CASE pc' = [pc EXCEPT ![h] = "logFailed"] /\ UNCHANGED trades
    BY <1>13, <2>1 DEF Execute
  <2>2. CASE /\ pc' = [pc EXCEPT ![h] = "wait"]
             /\ trades' = trades \cup {[call |-> h, chain |-> key[h],
                                       token |-> req[h].token,
                                       wallet |-> signer[h], usd |-> req[h].usd]}
    BY <1>13, <2>2 DEF Execute
  <2>3. QED
    BY <1>13, <2>1, <2>2 DEF Execute, Goto
<1>14. ASSUME NEW h \in Calls, AwaitReceipt(h) PROVE Staged'
  BY <1>14 DEF AwaitReceipt, Goto
<1>15. ASSUME NEW h \in Calls, LogOutcome(h) PROVE Staged'
  <2>1. CASE pc' = [pc EXCEPT ![h] = "ok"] /\ pc[h] = "logOk"
    BY <1>15, <2>1 DEF LogOutcome
  <2>2. CASE pc' = [pc EXCEPT ![h] = "failed"] /\ pc[h] = "logFailed"
    BY <1>15, <2>2 DEF LogOutcome
  <2>3. QED
    BY <1>15, <2>1, <2>2 DEF LogOutcome, Goto
<1>16. ASSUME NEW u \in Updates, Updater(u) PROVE Staged'
  BY <1>16 DEF Updater, UpdateStart, UpdateChain, UpdateSlippage,
     UpdatePick, UpdateWallet
<1>17. ASSUME NEW w \in Deletable, DeleteWallet(w) PROVE Staged'
  BY <1>17 DEF DeleteWallet
<1>18. CASE Restart
  <2>1. \A g \in Calls : pc'[g] = IF pc[g] \in Running THEN "killed" ELSE pc[g]
    BY <1>18 DEF Restart
  <2>2. \A g \in Calls : /\ pc'[g] \notin Running
                         /\ (pc'[g] = pc[g] \/ pc'[g] = "killed")
    BY <2>1
  <2>3. UNCHANGED <<req, runOf, booked, trades>> /\ run' = run + 1
    BY <1>18 DEF Restart
  <2>4. ASSUME NEW g \in Calls
        PROVE  /\ pc'[g] \in Unbooked => g \notin booked
               /\ pc'[g] \in Cleared => g \in booked
               /\ pc'[g] # "idle" => req[g] \in Requests
               /\ pc[g] \in Signed => pc'[g] \in Signed
    <3>1. CASE pc[g] \in Running
      BY <2>1, <3>1
    <3>2. CASE pc[g] \notin Running
      BY <2>1, <3>2
    <3>3. QED
      BY <3>1, <3>2
  <2>5. \A t \in trades : t.call \in Calls
    BY DEF Trades
  <2>6. QED
    BY <2>2, <2>3, <2>4, <2>5
<1>19. CASE UNCHANGED vars
  BY <1>19 DEF vars
<1>20. QED
  BY <1>1, <1>2, <1>3, <1>4, <1>5, <1>6, <1>7, <1>8, <1>9, <1>10, <1>11,
     <1>12, <1>13, <1>14, <1>15, <1>16, <1>17, <1>18, <1>19 DEF Next, Handler

\* Only three kinds of step touch a booking or the arguments behind it: a call
\* arrives, a call books, the server is started again.
LEMMA BookingSteps ==
  ASSUME [Next]_vars
  PROVE  \/ \E h \in Calls : Arrive(h) \/ ReserveBook(h)
         \/ Restart
         \/ UNCHANGED <<req, runOf, run, spent, booked, remaining>>
<1> USE DEF updates, budget, database
<1>1. ASSUME NEW h \in Calls, Handler(h), ~ReserveBook(h)
      PROVE  UNCHANGED <<req, runOf, run, spent, booked, remaining>>
  BY <1>1 DEF Handler, Resolve, CheckCap, ReserveLock, LogBudgetRefusal, LogAllowed,
     CheckAllowlist, CheckRisk, UnlockWallet, FlowLock, FlowDial, Execute,
     AwaitReceipt, LogOutcome
<1>2. ASSUME NEW u \in Updates, Updater(u)
      PROVE  UNCHANGED <<req, runOf, run, spent, booked, remaining>>
  BY <1>2 DEF Updater, UpdateStart, UpdateChain, UpdateSlippage, UpdatePick,
     UpdateWallet
<1>3. ASSUME NEW w \in Deletable, DeleteWallet(w)
      PROVE  UNCHANGED <<req, runOf, run, spent, booked, remaining>>
  BY <1>3 DEF DeleteWallet
<1>4. CASE UNCHANGED vars
  BY <1>4 DEF vars
<1>5. QED
  BY <1>1, <1>2, <1>3, <1>4 DEF Next

\* Every step keeps the bookings disjoint: a new one is cut from the bottom of
\* what was left, below every earlier booking of the run.
LEMMA SlicedStep ==
  ASSUME TypeOK, Guarded, Staged, Sliced, [Next]_vars
  PROVE  Sliced'
<1> USE DEF Sliced, BookingsDisjoint
<1>1. Budget \in Nat /\ spent \in Nat /\ run \in Nat /\ booked \subseteq Calls
  BY BudgetNat DEF TypeOK
<1>2. \A h \in Calls : req[h].usd \in Nat /\ remaining[h] \in Nat /\ runOf[h] \in Nat
  BY Arguments DEF TypeOK
<1>3. ASSUME NEW h \in Calls, Arrive(h) PROVE Sliced'
  <2>1. h \notin booked
    BY <1>3 DEF Arrive, Staged, Unbooked
  <2>2. UNCHANGED <<spent, booked, remaining, run>>
    BY <1>3 DEF Arrive, budget
  <2>3. \A g \in booked : req'[g] = req[g] /\ runOf'[g] = runOf[g]
    BY <1>1, <1>3, <2>1 DEF Arrive, TypeOK
  <2>4. QED
    BY <2>2, <2>3
<1>4. ASSUME NEW h \in Calls, ReserveBook(h) PROVE Sliced'
  <2>1. /\ h \notin booked
        /\ runOf[h] = run
        /\ left[h] = Budget - spent
        /\ left[h] \in Nat
    BY <1>4 DEF ReserveBook, Staged, Unbooked, Running, Guarded, TypeOK
  <2>2. UNCHANGED <<req, runOf, run>>
    BY <1>4 DEF ReserveBook
  <2>3. \A g \in booked : remaining'[g] = remaining[g]
    BY <1>1, <1>4, <2>1 DEF ReserveBook, TypeOK
  <2>4. CASE req[h].usd > left[h]
    <3>1. UNCHANGED <<spent, booked>>
      BY <1>4, <2>4 DEF ReserveBook
    <3>2. QED
      BY <2>2, <2>3, <3>1
  <2>5. CASE ~(req[h].usd > left[h])
    <3>1. /\ booked' = booked \cup {h}
          /\ spent' = spent + req[h].usd
          /\ remaining'[h] = Budget - spent'
      BY <1>4, <2>5 DEF ReserveBook, TypeOK
    <3>2. \A g \in booked' : runOf[g] = run =>
            Budget - spent' <= remaining'[g]
      BY <1>1, <1>2, <2>3, <3>1
    <3>3. \A g \in booked' : remaining'[g] + req[g].usd <= Budget
      BY <1>1, <1>2, <2>1, <2>3, <3>1
    <3>4. \A g \in booked : runOf[g] = runOf[h] =>
            remaining'[h] + req[h].usd <= remaining'[g]
      BY <1>1, <1>2, <2>1, <2>3, <3>1
    <3>5. BookingsDisjoint'
      BY <2>2, <2>3, <3>1, <3>3, <3>4
    <3>6. QED
      BY <2>2, <3>2, <3>5
  <2>6. QED
    BY <2>4, <2>5
<1>5. CASE Restart
  <2>1. UNCHANGED <<req, runOf, booked, remaining>> /\ run' = run + 1
    BY <1>5 DEF Restart
  <2>2. \A h \in booked : runOf'[h] # run'
    BY <1>1, <1>2, <2>1 DEF Staged
  <2>3. QED
    BY <2>1, <2>2
<1>6. CASE UNCHANGED <<req, runOf, run, spent, booked, remaining>>
  BY <1>6
<1>7. QED
  BY <1>3, <1>4, <1>5, <1>6, BookingSteps

\* Only flow.Execute signs.
LEMMA TradeSteps ==
  ASSUME [Next]_vars
  PROVE  (\E h \in Calls : Execute(h)) \/ UNCHANGED trades
<1> USE DEF updates, budget, database
<1>1. ASSUME NEW h \in Calls, Arrive(h) \/ Handler(h), ~Execute(h)
      PROVE  UNCHANGED trades
  BY <1>1 DEF Handler, Arrive, Resolve, CheckCap, ReserveLock, ReserveBook,
     LogBudgetRefusal, LogAllowed, CheckAllowlist, CheckRisk, UnlockWallet,
     FlowLock, FlowDial, AwaitReceipt, LogOutcome
<1>2. ASSUME NEW u \in Updates, Updater(u)
      PROVE  UNCHANGED trades
  BY <1>2 DEF Updater, UpdateStart, UpdateChain, UpdateSlippage, UpdatePick,
     UpdateWallet
<1>3. QED
  BY <1>1, <1>2 DEF Next, DeleteWallet, Restart, vars

\* Every step keeps what was signed within what was booked.
LEMMA TradesBookedStep ==
  ASSUME TypeOK, Staged, TradesBooked, [Next]_vars
  PROVE  TradesBooked'
<1>1. booked \subseteq booked'
  <2>1. ASSUME NEW h \in Calls, Arrive(h) \/ ReserveBook(h) PROVE booked \subseteq booked'
    BY <2>1 DEF Arrive, ReserveBook, budget
  <2>2. QED
    BY <2>1, BookingSteps DEF Restart
<1>2. \A g \in booked : req'[g] = req[g]
  <2>1. ASSUME NEW h \in Calls, Arrive(h) PROVE \A g \in booked : req'[g] = req[g]
    <3>1. h \notin booked
      BY <2>1 DEF Arrive, Staged, Unbooked
    <3>2. QED
      BY <2>1, <3>1 DEF Arrive, TypeOK
  <2>2. ASSUME NEW h \in Calls, ReserveBook(h) PROVE \A g \in booked : req'[g] = req[g]
    BY <2>2 DEF ReserveBook
  <2>3. QED
    BY <2>1, <2>2, BookingSteps DEF Restart
<1>3. ASSUME NEW h \in Calls, Execute(h) PROVE TradesBooked'
  <2>1. h \in booked /\ req[h].usd \in 1..MaxUSD
    BY <1>3 DEF Execute, Staged, Cleared
  <2>2. \A t \in trades' \ trades : t.call = h /\ t.usd = req[h].usd
    BY <1>3 DEF Execute
  <2>3. QED
    BY <1>1, <1>2, <2>1, <2>2 DEF TradesBooked
<1>4. CASE UNCHANGED trades
  BY <1>1, <1>2, <1>4 DEF TradesBooked
<1>5. QED
  BY <1>3, <1>4, TradeSteps

\* A restart ends every running handler and touches no other.
LEMMA RestartKills ==
  ASSUME Restart, NEW g \in Calls
  PROVE  \/ pc[g] \in Running /\ pc'[g] = "killed"
         \/ pc[g] \notin Running /\ pc'[g] = pc[g]
BY DEF Restart

\* Every step keeps what a handler has checked for the chain it resolved:
\* nobody else writes its key, its verdict or its signer.
LEMMA CheckedStep ==
  ASSUME TypeOK, Checked, [Next]_vars
  PROVE  Checked'
<1> USE OptionsAssumption DEF TypeOK, Checked, ChainAllowed, updates, budget, database
<1>1. ASSUME NEW h \in Calls, Arrive(h) PROVE Checked'
  BY <1>1 DEF Arrive, Goto
<1>2. ASSUME NEW h \in Calls, Resolve(h) PROVE Checked'
  <2>1. CASE pc' = [pc EXCEPT ![h] = "invalid"] /\ UNCHANGED key
    BY <1>2, <2>1 DEF Resolve
  <2>2. CASE /\ pc' = [pc EXCEPT ![h] = "cap"]
             /\ \E c \in Chains : key' = [key EXCEPT ![h] = c]
    BY <1>2, <2>2 DEF Resolve
  <2>3. req[h].chain # None => req[h].chain \in Chains
    BY Arguments
  <2>4. config.chain \in Chains
    BY DEF Config
  <2>5. QED
    BY <1>2, <2>1, <2>2, <2>3, <2>4 DEF Resolve, Goto
<1>3. ASSUME NEW h \in Calls, CheckCap(h) PROVE Checked'
  BY <1>3 DEF CheckCap, Goto
<1>4. ASSUME NEW h \in Calls, ReserveLock(h) PROVE Checked'
  BY <1>4 DEF ReserveLock, Goto
<1>5. ASSUME NEW h \in Calls, ReserveBook(h) PROVE Checked'
  BY <1>5 DEF ReserveBook, Goto
<1>6. ASSUME NEW h \in Calls, LogBudgetRefusal(h) PROVE Checked'
  BY <1>6 DEF LogBudgetRefusal, Goto
<1>7. ASSUME NEW h \in Calls, LogAllowed(h) PROVE Checked'
  BY <1>7 DEF LogAllowed, Goto
<1>8. ASSUME NEW h \in Calls, CheckAllowlist(h) PROVE Checked'
  BY <1>8 DEF CheckAllowlist, Goto
<1>9. ASSUME NEW h \in Calls, CheckRisk(h) PROVE Checked'
  <2>1. PICK v \in Verdict(key[h], req[h].token) :
          /\ verdict' = [verdict EXCEPT ![h] = v]
          /\ Goto(h, IF v = "HIGH" /\ ~AllowRisky THEN "refusedRisk" ELSE "unlock")
    BY <1>9 DEF CheckRisk
  <2>2. \/ <<key[h], req[h].token>> \notin HighRisk
        \/ v \in {"UNKNOWN", "HIGH"}
    BY <2>1 DEF Verdict
  <2>3. CASE v = "HIGH" /\ ~AllowRisky
    BY <1>9, <2>1, <2>3 DEF CheckRisk, Goto
  <2>4. CASE ~(v = "HIGH" /\ ~AllowRisky)
    <3>1. pc' = [pc EXCEPT ![h] = "unlock"]
      BY <2>1, <2>4 DEF Goto
    <3>2. verdict'[h] = v /\ UNCHANGED <<key, req, signer>>
      BY <1>9, <2>1 DEF CheckRisk
    <3>3. \A g \in Calls \ {h} : pc'[g] = pc[g] /\ verdict'[g] = verdict[g]
      BY <2>1, <3>1
    <3>4. QED
      BY <1>9, <2>2, <2>4, <3>1, <3>2, <3>3 DEF CheckRisk
  <2>5. QED
    BY <2>3, <2>4
<1>10. ASSUME NEW h \in Calls, UnlockWallet(h) PROVE Checked'
  <2>1. CASE pc' = [pc EXCEPT ![h] = "error"] /\ UNCHANGED signer
    BY <1>10, <2>1 DEF UnlockWallet
  <2>2. CASE /\ pc' = [pc EXCEPT ![h] = "flow"]
             /\ \E w \in Wallets : signer' = [signer EXCEPT ![h] = w]
    BY <1>10, <2>2 DEF UnlockWallet
  <2>3. Pick(req[h].wallet, config.wallet) \subseteq Wallets
    BY DEF Pick
  <2>4. QED
    BY <1>10, <2>1, <2>2, <2>3 DEF UnlockWallet, Goto
<1>11. ASSUME NEW h \in Calls, FlowLock(h) PROVE Checked'
  BY <1>11 DEF FlowLock, Goto
<1>12. ASSUME NEW h \in Calls, FlowDial(h) PROVE Checked'
  BY <1>12 DEF FlowDial, Goto
<1>13. ASSUME NEW h \in Calls, Execute(h) PROVE Checked'
  BY <1>13 DEF Execute, Goto
<1>14. ASSUME NEW h \in Calls, AwaitReceipt(h) PROVE Checked'
  BY <1>14 DEF AwaitReceipt, Goto
<1>15. ASSUME NEW h \in Calls, LogOutcome(h) PROVE Checked'
  BY <1>15 DEF LogOutcome, Goto
<1>16. ASSUME NEW u \in Updates, Updater(u) PROVE Checked'
  BY <1>16 DEF Updater, UpdateStart, UpdateChain, UpdateSlippage,
     UpdatePick, UpdateWallet
<1>17. ASSUME NEW w \in Deletable, DeleteWallet(w) PROVE Checked'
  BY <1>17 DEF DeleteWallet
<1>18. CASE Restart
  <2>1. \A g \in Calls : pc'[g] = "killed" \/ (pc'[g] = pc[g] /\ pc[g] \notin Running)
    BY <1>18, RestartKills
  <2>2. UNCHANGED <<key, req, verdict, signer>>
    BY <1>18 DEF Restart
  <2>3. QED
    BY <2>1, <2>2 DEF Running
<1>19. CASE UNCHANGED vars
  BY <1>19 DEF vars
<1>20. QED
  BY <1>1, <1>2, <1>3, <1>4, <1>5, <1>6, <1>7, <1>8, <1>9, <1>10, <1>11,
     <1>12, <1>13, <1>14, <1>15, <1>16, <1>17, <1>18, <1>19 DEF Next, Handler

\* Every step keeps the policy over what was signed: the handler checked it
\* before, for the chain and the token it signs for.
LEMMA PolicyStep ==
  ASSUME TypeOK, Staged, Checked, TradesWithinPolicy, [Next]_vars
  PROVE  TradesWithinPolicy'
<1>1. \A t \in trades : verdict'[t.call] = verdict[t.call]
  <2>1. ASSUME NEW h \in Calls, CheckRisk(h)
        PROVE  \A t \in trades : verdict'[t.call] = verdict[t.call]
    <3>1. pc[h] = "risk" /\ \A t \in trades : t.call \in Calls /\ pc[t.call] \in Signed
      BY <2>1 DEF CheckRisk, Staged, TypeOK, Trades
    <3>2. \A t \in trades : t.call # h
      BY <3>1 DEF Signed
    <3>3. QED
      BY <2>1, <3>1, <3>2 DEF CheckRisk, TypeOK
  <2>2. ASSUME NEW h \in Calls, Arrive(h) \/ Handler(h), ~CheckRisk(h)
        PROVE  UNCHANGED verdict
    BY <2>2 DEF Handler, Arrive, Resolve, CheckCap, ReserveLock, ReserveBook,
       LogBudgetRefusal, LogAllowed, CheckAllowlist, UnlockWallet, FlowLock,
       FlowDial, Execute, AwaitReceipt, LogOutcome
  <2>3. ASSUME NEW u \in Updates, Updater(u) PROVE UNCHANGED verdict
    BY <2>3 DEF Updater, UpdateStart, UpdateChain, UpdateSlippage, UpdatePick,
       UpdateWallet
  <2>4. QED
    BY <2>1, <2>2, <2>3 DEF Next, DeleteWallet, Restart, vars
<1>2. ASSUME NEW h \in Calls, Execute(h) PROVE TradesWithinPolicy'
  <2>1. pc[h] = "execute" /\ ChainAllowed(key[h])
    BY <1>2 DEF Execute, Checked
  <2>2. <<key[h], req[h].token>> \in HighRisk => AllowRisky \/ verdict[h] = "UNKNOWN"
    BY <2>1 DEF Checked
  <2>3. \A t \in trades' \ trades :
          t.call = h /\ t.chain = key[h] /\ t.token = req[h].token
    BY <1>2 DEF Execute
  <2>4. UNCHANGED verdict
    BY <1>2 DEF Execute
  <2>5. QED
    BY <2>1, <2>2, <2>3, <2>4 DEF TradesWithinPolicy, ChainAllowed
<1>3. CASE UNCHANGED trades
  BY <1>1, <1>3 DEF TradesWithinPolicy, ChainAllowed
<1>4. QED
  BY <1>2, <1>3, TradeSteps

\* The invariant holds of a fresh server.
LEMMA InitIInv == Init => IInv
<1> SUFFICES ASSUME Init PROVE IInv
  OBVIOUS
<1> USE OptionsAssumption, BudgetNat DEF Init
<1>1. TypeOK
  BY DEF TypeOK, Running, Outcomes, UpdateSteps, Verdicts, Config
<1>2. Guarded /\ Staged /\ Sliced /\ Checked
  BY DEF Guarded, Staged, Sliced, BookingsDisjoint, Checked, Unbooked, Cleared, Running
<1>3. TradesBooked /\ TradesWithinPolicy
  BY DEF TradesBooked, TradesWithinPolicy
<1>4. QED
  BY <1>1, <1>2, <1>3 DEF IInv

\* The conjunction of everything above is an inductive invariant of the server.
THEOREM Invariance == Spec => []IInv
<1>1. IInv /\ [Next]_vars => IInv'
  BY TypeStep, GuardedStep, StagedStep, SlicedStep, TradesBookedStep,
     CheckedStep, PolicyStep DEF IInv
<1>2. QED
  BY <1>1, InitIInv, PTL DEF Spec

\* Type correctness of the server.
THEOREM TypeCorrect == Spec => []TypeOK
<1>1. IInv => TypeOK
  BY DEF IInv
<1>2. QED
  BY <1>1, Invariance, PTL

\* However many handlers race in reserve and however often the server is
\* started, the bookings of a run are disjoint slices of its budget.
THEOREM BookingsSafe == Spec => []BookingsDisjoint
<1>1. IInv => BookingsDisjoint
  BY DEF IInv, Sliced
<1>2. QED
  BY <1>1, Invariance, PTL

\* Nothing is signed that was not booked, under the per-swap cap.
THEOREM TradesSafe == Spec => []TradesBooked
<1>1. IInv => TradesBooked
  BY DEF IInv
<1>2. QED
  BY <1>1, Invariance, PTL

\* Nothing is signed outside the chain allowlist or against a HIGH verdict,
\* whatever set_settings and other processes write in between.
THEOREM PolicySafe == Spec => []TradesWithinPolicy
<1>1. IInv => TradesWithinPolicy
  BY DEF IInv
<1>2. QED
  BY <1>1, Invariance, PTL
----------------------------------------------------------------------------
\* What the log says of the position of a handler: past "allowed" it has that
\* line, a refused call goes nowhere else, and an outcome is of a trade.
Announced == {"allowlist", "risk", "unlock", "flow", "dial", "execute"}

Logged ==
  /\ \A h \in Calls : pc[h] \in Announced => [call |-> h, line |-> "allowed"] \in log
  /\ \A h \in Calls : \A line \in {"refusedCap", "refusedBudget"} :
       [call |-> h, line |-> line] \in log => pc[h] = line
  /\ \A h \in Calls : pc[h] \in {"wait", "logOk"} => \E t \in trades : t.call = h
  /\ \A t \in trades : [call |-> t.call, line |-> "allowed"] \in log
  /\ \A e \in log : e.line = "ok" => \E t \in trades : t.call = e.call

\* A step of a handler that neither signs nor logs, past nothing it needs.
LEMMA QuietStep ==
  ASSUME TypeOK, Logged, NEW h \in Calls, NEW s, Goto(h, s), UNCHANGED <<trades, log>>,
         pc[h] \notin {"refusedCap", "refusedBudget"},
         s \in Announced => pc[h] \in Announced,
         s \in {"wait", "logOk"} => pc[h] = "wait"
  PROVE  Logged'
BY DEF TypeOK, Logged, Goto

\* A step of a handler that writes a line, from which its new position follows.
LEMMA WriteStep ==
  ASSUME TypeOK, Logged, NEW h \in Calls, NEW s, Goto(h, s), trades' = trades,
         NEW line \in Lines, Write(h, line),
         pc[h] \notin {"refusedCap", "refusedBudget"},
         s \in Announced => line = "allowed",
         s \notin {"wait", "logOk"},
         line \in {"refusedCap", "refusedBudget"} => s = line,
         line = "ok" => pc[h] = "logOk"
  PROVE  Logged'
<1> DEFINE e == [call |-> h, line |-> line]
<1>1. log' = log \cup {e} /\ e.call = h /\ e.line = line
  BY DEF Write
<1>2. \A g \in Calls : \A l \in Lines :
        [call |-> g, line |-> l] \in log' =>
          [call |-> g, line |-> l] \in log \/ (g = h /\ l = line)
  BY <1>1
<1>3. pc' = [pc EXCEPT ![h] = s] /\ pc'[h] = s /\ \A g \in Calls \ {h} : pc'[g] = pc[g]
  BY DEF Goto, TypeOK
<1>4. \A g \in Calls : pc'[g] \in Announced => [call |-> g, line |-> "allowed"] \in log'
  BY <1>1, <1>3 DEF Logged
<1>5. \A g \in Calls : \A l \in {"refusedCap", "refusedBudget"} :
        [call |-> g, line |-> l] \in log' => pc'[g] = l
  BY <1>2, <1>3 DEF Logged, Lines
<1>6. \A g \in Calls : pc'[g] \in {"wait", "logOk"} => \E t \in trades' : t.call = g
  BY <1>3 DEF Logged
<1>7. \A t \in trades' : [call |-> t.call, line |-> "allowed"] \in log'
  BY <1>1 DEF Logged
<1>8. \A d \in log' : d.line = "ok" => \E t \in trades' : t.call = d.call
  BY <1>1 DEF Logged
<1>9. QED
  BY <1>4, <1>5, <1>6, <1>7, <1>8 DEF Logged

\* Every step keeps what the log says.
LEMMA LoggedStep ==
  ASSUME TypeOK, Logged, [Next]_vars
  PROVE  Logged'
<1> USE DEF updates, budget, database
<1>1. ASSUME NEW h \in Calls, Arrive(h) \/ Resolve(h) \/ ReserveLock(h) \/ ReserveBook(h)
      PROVE  Logged'
  <2>1. \E s \in {"resolve", "invalid", "cap", "book", "logRefusal", "logAllowed"} : Goto(h, s)
    BY <1>1 DEF Arrive, Resolve, ReserveLock, ReserveBook
  <2>2. /\ UNCHANGED <<trades, log>> /\ pc[h] \in {"idle", "resolve", "lock", "book"}
    BY <1>1 DEF Arrive, Resolve, ReserveLock, ReserveBook
  <2>3. QED
    BY <2>1, <2>2, QuietStep DEF Announced
<1>2. ASSUME NEW h \in Calls, CheckCap(h) PROVE Logged'
  <2>1. pc[h] = "cap" /\ trades' = trades
    BY <1>2 DEF CheckCap
  <2>2. CASE Write(h, "refusedCap") /\ Goto(h, "refusedCap")
    BY <2>1, <2>2, WriteStep DEF Lines, Announced
  <2>3. CASE Goto(h, "lock") /\ UNCHANGED log
    BY <2>1, <2>3, QuietStep DEF Announced
  <2>4. QED
    BY <1>2, <2>2, <2>3 DEF CheckCap
<1>3. ASSUME NEW h \in Calls, LogBudgetRefusal(h) \/ LogAllowed(h) \/ LogOutcome(h)
      PROVE  Logged'
  <2>1. CASE LogBudgetRefusal(h)
    BY <2>1, WriteStep DEF LogBudgetRefusal, Lines, Announced
  <2>2. CASE LogAllowed(h)
    BY <2>2, WriteStep DEF LogAllowed, Lines, Announced
  <2>3. CASE pc[h] = "logOk" /\ Write(h, "ok") /\ Goto(h, "ok") /\ trades' = trades
    BY <2>3, WriteStep DEF Lines, Announced
  <2>4. CASE pc[h] = "logFailed" /\ Write(h, "failed") /\ Goto(h, "failed") /\ trades' = trades
    BY <2>4, WriteStep DEF Lines, Announced
  <2>5. QED
    BY <1>3, <2>1, <2>2, <2>3, <2>4 DEF LogOutcome
<1>4. ASSUME NEW h \in Calls, \/ CheckAllowlist(h) \/ CheckRisk(h) \/ UnlockWallet(h)
                              \/ FlowLock(h) \/ FlowDial(h)
      PROVE  Logged'
  <2>1. \E s \in {"risk", "refusedChain", "refusedRisk", "unlock", "error", "flow", "execute",
                  "dial"} : Goto(h, s)
    BY <1>4 DEF CheckAllowlist, CheckRisk, UnlockWallet, FlowLock, FlowDial
  <2>2. UNCHANGED <<trades, log>> /\ pc[h] \in Announced
    BY <1>4 DEF CheckAllowlist, CheckRisk, UnlockWallet, FlowLock, FlowDial, Announced
  <2>3. QED
    BY <2>1, <2>2, QuietStep DEF Announced
<1>5. ASSUME NEW h \in Calls, Execute(h) PROVE Logged'
  <2>1. pc[h] = "execute" /\ log' = log /\ [call |-> h, line |-> "allowed"] \in log
    BY <1>5 DEF Execute, Logged, Announced
  <2>2. CASE Goto(h, "logFailed") /\ UNCHANGED trades
    BY <2>1, <2>2, QuietStep DEF Announced
  <2>3. ASSUME NEW t, t.call = h, trades' = trades \cup {t}, Goto(h, "wait")
        PROVE  Logged'
    BY <2>1, <2>3 DEF TypeOK, Logged, Goto, Announced
  <2>4. QED
    BY <1>5, <2>2, <2>3 DEF Execute
<1>6. ASSUME NEW h \in Calls, AwaitReceipt(h) PROVE Logged'
  BY <1>6, QuietStep DEF AwaitReceipt, Announced
<1>7. CASE Restart
  <2>1. trades' = trades /\ log' = log
    BY <1>7 DEF Restart
  <2>2. \A g \in Calls : \/ pc[g] \in Running /\ pc'[g] = "killed"
                         \/ pc'[g] = pc[g]
    BY <1>7, RestartKills
  <2>3. QED
    BY <2>1, <2>2 DEF Logged, Announced, Running
<1>8. CASE \/ \E u \in Updates : Updater(u)
           \/ \E w \in Deletable : DeleteWallet(w)
           \/ UNCHANGED vars
  <2>1. UNCHANGED <<pc, trades, log>>
    BY <1>8 DEF Updater, UpdateStart, UpdateChain, UpdateSlippage, UpdatePick, UpdateWallet,
                DeleteWallet, vars
  <2>2. QED
    BY <2>1 DEF Logged
<1>9. QED
  BY <1>1, <1>2, <1>3, <1>4, <1>5, <1>6, <1>7, <1>8 DEF Next, Handler

\* Every trade was announced in the log, its call is never logged as refused,
\* and "ok" is logged only for a call that broadcast something.
THEOREM AuditSafe == Spec => []LogAccountsForTrades
<1>1. Init => Logged
  BY DEF Init, Logged, Announced
<1>2. IInv /\ Logged /\ [Next]_vars => Logged'
  BY LoggedStep DEF IInv
<1>3. IInv /\ Logged => LogAccountsForTrades
  <2> SUFFICES ASSUME IInv, Logged PROVE LogAccountsForTrades
    OBVIOUS
  <2>1. \A t \in trades : t.call \in Calls /\ pc[t.call] \in Signed
    BY DEF IInv, TypeOK, Trades, Staged
  <2>2. QED
    BY <2>1 DEF Logged, LogAccountsForTrades, Signed
<1>4. QED
  BY <1>1, <1>2, <1>3, Invariance, PTL DEF Spec

----------------------------------------------------------------------------
\* The calls whose booking a run of the server holds.
BookedIn(r) == {h \in booked : runOf[h] = r}

\* spentUSD is the sum of what the present run booked, and no run, past ones
\* included, booked more than its budget.
Summed ==
  /\ IsFiniteSet(booked)
  /\ spent = SumOver(Amounts, BookedIn(run))
  /\ \A r \in Nat : SumOver(Amounts, BookedIn(r)) <= Budget

\* Only what was booked is logged as allowed, and what the present run booked
\* is logged unless its handler is about to.
Entered ==
  /\ \A h \in Calls : [call |-> h, line |-> "allowed"] \in log => h \in booked
  /\ \A h \in BookedIn(run) :
       pc[h] = "logAllowed" \/ [call |-> h, line |-> "allowed"] \in log

\* Types of what is added up.
LEMMA BookedTypes ==
  ASSUME IInv, Summed
  PROVE  /\ booked \subseteq Calls /\ run \in Nat /\ spent \in Nat
         /\ \A h \in Calls : runOf[h] \in Nat /\ runOf[h] <= run
         /\ \A h \in Calls : Amounts[h] = req[h].usd /\ Amounts[h] \in Nat
         /\ \A r \in Nat : BookedIn(r) \in SUBSET booked /\ IsFiniteSet(BookedIn(r))
<1>1. \A r \in Nat : BookedIn(r) \in SUBSET booked
  BY DEF BookedIn
<1>2. \A r \in Nat : IsFiniteSet(BookedIn(r))
  BY <1>1, FS_Subset DEF Summed
<1>3. QED
  BY <1>1, <1>2, Arguments DEF IInv, TypeOK, Staged, Amounts

\* Every step keeps the sums: a booking adds its amount to spentUSD and to the
\* sum of its run, and a run that starts has booked nothing.
LEMMA SummedStep ==
  ASSUME IInv, Summed, [Next]_vars
  PROVE  Summed'
<1>1. ASSUME NEW h \in Calls, Arrive(h) PROVE Summed'
  <2>1. h \notin booked
    BY <1>1 DEF IInv, Arrive, Staged, Unbooked
  <2>2. UNCHANGED <<spent, booked, run>>
    BY <1>1 DEF Arrive, budget
  <2>3. \A g \in booked : req'[g] = req[g] /\ runOf'[g] = runOf[g] /\ Amounts'[g] = Amounts[g]
    BY <1>1, <2>1 DEF IInv, Arrive, TypeOK, Amounts
  <2>4. \A r \in Nat : BookedIn(r)' = BookedIn(r)
    BY <2>2, <2>3 DEF BookedIn
  <2>5. ASSUME NEW r \in Nat
        PROVE  SumOver(Amounts', BookedIn(r)) = SumOver(Amounts, BookedIn(r))
    <3>1. \A g \in BookedIn(r) : Amounts'[g] = Amounts[g]
      BY <2>3, BookedTypes
    <3>2. IsFiniteSet(BookedIn(r))
      BY BookedTypes
    <3>3. QED
      BY <3>1, <3>2, SumAgree
  <2>6. QED
    BY <2>2, <2>4, <2>5, BookedTypes DEF Summed, Budget
<1>2. ASSUME NEW h \in Calls, ReserveBook(h) PROVE Summed'
  <2>1. h \notin booked /\ runOf[h] = run /\ left[h] = Budget - spent
    BY <1>2 DEF IInv, ReserveBook, Staged, Unbooked, Running, Guarded
  <2>2. UNCHANGED <<req, runOf, run, Amounts>>
    BY <1>2 DEF ReserveBook, Amounts
  <2>3. CASE UNCHANGED <<spent, booked>>
    BY <2>2, <2>3 DEF Summed, BookedIn, Budget
  <2>4. CASE /\ spent' = spent + req[h].usd /\ booked' = booked \cup {h}
             /\ ~ (req[h].usd > left[h])
    <3>1. IsFiniteSet(booked')
      BY <2>4, FS_AddElement DEF Summed
    <3>2. \A r \in Nat : BookedIn(r)' = IF r = run THEN BookedIn(r) \cup {h} ELSE BookedIn(r)
      BY <2>1, <2>2, <2>4 DEF BookedIn
    <3>3. SumOver(Amounts, BookedIn(run) \cup {h}) = Amounts[h] + SumOver(Amounts, BookedIn(run))
      <4>1. h \notin BookedIn(run) /\ IsFiniteSet(BookedIn(run))
        BY <2>1, BookedTypes DEF BookedIn
      <4>2. \A g \in BookedIn(run) \cup {h} : Amounts[g] \in Nat
        BY BookedTypes
      <4>3. QED
        BY <4>1, <4>2, SumAdd
    <3>4. spent' <= Budget /\ spent' = SumOver(Amounts, BookedIn(run) \cup {h})
      BY <2>1, <2>4, <3>3, BudgetNat, BookedTypes DEF Summed
    <3>5. QED
      BY <2>2, <3>1, <3>2, <3>4, BookedTypes DEF Summed, Budget
  <2>5. QED
    BY <1>2, <2>3, <2>4 DEF ReserveBook
<1>3. CASE Restart
  <2>1. UNCHANGED <<runOf, booked, Amounts>> /\ run' = run + 1 /\ spent' = 0
    BY <1>3 DEF Restart, Amounts
  <2>2. \A r \in Nat : BookedIn(r)' = BookedIn(r)
    BY <2>1 DEF BookedIn
  <2>3. BookedIn(run)' = {}
    BY <2>1, BookedTypes DEF BookedIn
  <2>4. SumOver(Amounts', {}) = 0
    BY SumStep, FS_EmptySet
  <2>5. QED
    BY <2>1, <2>2, <2>3, <2>4 DEF Summed, Budget
<1>4. CASE UNCHANGED <<req, runOf, run, spent, booked, remaining>>
  BY <1>4 DEF Summed, Amounts, BookedIn, Budget
<1>5. QED
  BY <1>1, <1>2, <1>3, <1>4, BookingSteps

\* Every step keeps what the log says of the bookings: a handler that booked
\* logs it next, unless its run ends first.
LEMMA EnteredStep ==
  ASSUME IInv, Entered, [Next]_vars
  PROVE  Entered'
<1> USE DEF updates, budget, database
<1>1. booked \subseteq Calls /\ run \in Nat /\ \A h \in Calls : runOf[h] \in Nat /\ runOf[h] <= run
  BY DEF IInv, TypeOK, Staged
<1>2. ASSUME NEW h \in Calls, Arrive(h) PROVE Entered'
  <2>1. h \notin booked /\ UNCHANGED <<booked, run, log>>
    BY <1>2 DEF IInv, Arrive, Staged, Unbooked
  <2>2. \A g \in booked : runOf'[g] = runOf[g] /\ pc'[g] = pc[g]
    BY <1>1, <1>2, <2>1 DEF IInv, Arrive, TypeOK, Goto
  <2>3. QED
    BY <2>1, <2>2 DEF Entered, BookedIn
<1>3. ASSUME NEW h \in Calls, ReserveBook(h) PROVE Entered'
  <2>1. UNCHANGED <<run, runOf, log>> /\ booked \subseteq booked' /\ h \notin booked
    BY <1>3 DEF IInv, ReserveBook, Staged, Unbooked
  <2>2. \A g \in Calls \ {h} : pc'[g] = pc[g] /\ (g \in booked' <=> g \in booked)
    BY <1>3 DEF IInv, TypeOK, ReserveBook, Goto
  <2>3. h \in booked' => pc'[h] = "logAllowed"
    BY <1>3, <2>1 DEF IInv, TypeOK, ReserveBook, Goto
  <2>4. booked' \subseteq Calls
    BY <1>1, <1>3 DEF ReserveBook
  <2>5. QED
    BY <2>1, <2>2, <2>3, <2>4 DEF Entered, BookedIn
<1>4. ASSUME NEW h \in Calls, NEW s, Goto(h, s), log \subseteq log', UNCHANGED <<booked, run, runOf>>,
             pc[h] # "logAllowed" \/ [call |-> h, line |-> "allowed"] \in log',
             \A g \in Calls : [call |-> g, line |-> "allowed"] \in log' \ log => g \in booked
      PROVE  Entered'
  <2>1. \A g \in Calls \ {h} : pc'[g] = pc[g]
    BY <1>4 DEF IInv, TypeOK, Goto
  <2>2. QED
    BY <1>1, <1>4, <2>1 DEF Entered, BookedIn
<1>5. ASSUME NEW h \in Calls, LogAllowed(h) PROVE Entered'
  <2>1. h \in booked
    BY <1>5 DEF IInv, LogAllowed, Staged, Cleared
  <2>2. log' = log \cup {[call |-> h, line |-> "allowed"]} /\ UNCHANGED <<booked, run, runOf>>
    BY <1>5 DEF LogAllowed, Write
  <2>3. Goto(h, "allowlist")
    BY <1>5 DEF LogAllowed
  <2>4. QED
    BY <1>4, <2>1, <2>2, <2>3
<1>6. ASSUME NEW h \in Calls, CheckCap(h) \/ LogBudgetRefusal(h) \/ LogOutcome(h) PROVE Entered'
  <2>1. UNCHANGED <<booked, run, runOf>> /\ pc[h] # "logAllowed"
    BY <1>6 DEF CheckCap, LogBudgetRefusal, LogOutcome
  <2>2. \E s : Goto(h, s)
    BY <1>6 DEF CheckCap, LogBudgetRefusal, LogOutcome
  <2>3. \/ log' = log
        \/ \E line \in {"refusedCap", "refusedBudget", "ok", "failed"} :
             log' = log \cup {[call |-> h, line |-> line]}
    BY <1>6 DEF CheckCap, LogBudgetRefusal, LogOutcome, Write
  <2>4. log \subseteq log' /\ \A g \in Calls : [call |-> g, line |-> "allowed"] \notin log' \ log
    BY <2>3
  <2>5. QED
    BY <1>4, <2>1, <2>2, <2>4
<1>7. ASSUME NEW h \in Calls,
             \/ Resolve(h) \/ ReserveLock(h) \/ CheckAllowlist(h) \/ CheckRisk(h)
             \/ UnlockWallet(h) \/ FlowLock(h) \/ FlowDial(h) \/ Execute(h) \/ AwaitReceipt(h)
      PROVE  Entered'
  <2>1. UNCHANGED <<booked, run, runOf, log>> /\ pc[h] # "logAllowed"
    BY <1>7 DEF Resolve, ReserveLock, CheckAllowlist, CheckRisk, UnlockWallet, FlowLock,
                FlowDial, Execute, AwaitReceipt
  <2>2. \E s : Goto(h, s)
    BY <1>7 DEF Resolve, ReserveLock, CheckAllowlist, CheckRisk, UnlockWallet, FlowLock,
                FlowDial, Execute, AwaitReceipt
  <2>3. QED
    BY <1>4, <2>1, <2>2
<1>8. CASE Restart
  <2>1. UNCHANGED <<booked, runOf, log>> /\ run' = run + 1
    BY <1>8 DEF Restart
  <2>2. QED
    BY <1>1, <2>1 DEF Entered, BookedIn
<1>9. CASE \/ \E u \in Updates : Updater(u)
           \/ \E w \in Deletable : DeleteWallet(w)
           \/ UNCHANGED vars
  <2>1. UNCHANGED <<pc, booked, run, runOf, log>>
    BY <1>9 DEF Updater, UpdateStart, UpdateChain, UpdateSlippage, UpdatePick, UpdateWallet,
                DeleteWallet, vars
  <2>2. QED
    BY <2>1 DEF Entered, BookedIn
<1>10. QED
  BY <1>2, <1>3, <1>5, <1>6, <1>7, <1>8, <1>9 DEF Next, Handler

\* The sums, and the log they are read off, in every reachable state.
THEOREM Accounts == Spec => [](Summed /\ Entered)
<1>1. Init => Summed /\ Entered
  <2> SUFFICES ASSUME Init PROVE Summed /\ Entered
    OBVIOUS
  <2>1. booked = {} /\ log = {} /\ spent = 0 /\ \A r : BookedIn(r) = {}
    BY DEF Init, BookedIn
  <2>2. IsFiniteSet({}) /\ SumOver(Amounts, {}) = 0
    BY FS_EmptySet, SumStep
  <2>3. QED
    BY <2>1, <2>2, BudgetNat DEF Summed, Entered
<1>2. IInv /\ Summed /\ Entered /\ [Next]_vars => (Summed /\ Entered)'
  BY SummedStep, EnteredStep
<1>3. QED
  BY <1>1, <1>2, Invariance, PTL DEF Spec

\* What some calls ask for is the sum of their amounts.
LEMMA UsdIsSum == ASSUME NEW S PROVE Usd(S) = SumOver(Amounts, S)
BY DEF Usd, SumOver

\* However many handlers race and however often the server is started, what one
\* run signs adds up to no more than the budget of a run.
THEOREM BudgetKept == Spec => []SignedWithinBudget
<1>1. IInv /\ Summed => SignedWithinBudget
  <2> SUFFICES ASSUME IInv, Summed, NEW r \in 1..run
               PROVE  Usd({h \in Calls : runOf[h] = r /\ \E t \in trades : t.call = h}) <= Budget
    BY DEF SignedWithinBudget
  <2> DEFINE signed == {h \in Calls : runOf[h] = r /\ \E t \in trades : t.call = h}
  <2>1. r \in Nat /\ signed \in SUBSET BookedIn(r)
    BY DEF IInv, TradesBooked, BookedIn
  <2> HIDE DEF signed
  <2>2. IsFiniteSet(BookedIn(r)) /\ IsFiniteSet(signed)
    BY <2>1, BookedTypes, FS_Subset
  <2>3. \A h \in BookedIn(r) : Amounts[h] \in Nat
    BY <2>1, BookedTypes
  <2>4. SumOver(Amounts, signed) <= SumOver(Amounts, BookedIn(r))
    BY <2>1, <2>2, <2>3, SumPart
  <2>5. SumOver(Amounts, signed) \in Nat /\ SumOver(Amounts, BookedIn(r)) \in Nat
    BY <2>1, <2>2, <2>3, SumIsNatural
  <2>6. SumOver(Amounts, signed) <= Budget
    BY <2>1, <2>4, <2>5, BudgetNat DEF Summed
  <2>7. QED
    BY <2>6, UsdIsSum DEF signed
<1>2. QED
  BY <1>1, Invariance, Accounts, PTL

\* The "allowed" lines of the present run add up to spentUSD, whenever no
\* handler sits between booking and logging.
THEOREM AuditAddsUp == Spec => []AuditExact
<1>1. IInv /\ Summed /\ Entered => AuditExact
  <2> SUFFICES ASSUME IInv, Summed, Entered, \A h \in Calls : pc[h] # "logAllowed"
               PROVE  spent = Usd({h \in Calls : /\ runOf[h] = run
                                                 /\ [call |-> h, line |-> "allowed"] \in log})
    BY DEF AuditExact
  <2>1. BookedIn(run) = {h \in Calls : /\ runOf[h] = run
                                        /\ [call |-> h, line |-> "allowed"] \in log}
    BY BookedTypes DEF Entered, BookedIn
  <2>2. spent = Usd(BookedIn(run))
    BY UsdIsSum DEF Summed
  <2>3. QED
    BY <2>1, <2>2
<1>2. QED
  BY <1>1, Invariance, Accounts, PTL
----------------------------------------------------------------------------
\* A fresh server is a fresh ledger.
LEMMA LedgerInit == Init => Ledger!Init
<1> SUFFICES ASSUME Init PROVE Ledger!Init
  OBVIOUS
<1>1. Budget - spent = Budget
  BY BudgetNat DEF Init
<1>2. QED
  BY <1>1 DEF Init, Ledger!Init

\* Every step of the server books, signs or starts a run of the ledger, or
\* leaves the ledger alone.
LEMMA LedgerStep ==
  ASSUME IInv, [Next]_vars
  PROVE  [Ledger!Next]_(Ledger!vars)
<1> DEFINE Slice(h) == [epoch |-> runOf[h], lo |-> remaining[h],
                        hi |-> remaining[h] + req[h].usd]
<1> USE DEF IInv, Ledger!Next, Ledger!vars
<1>1. booked \subseteq Calls /\ \A h \in Calls : runOf[h] \in Nat
  BY DEF TypeOK
<1>2. ASSUME NEW h \in Calls, Arrive(h) PROVE UNCHANGED Ledger!vars
  <2>1. h \notin booked
    BY <1>2 DEF Arrive, Staged, Unbooked
  <2>2. UNCHANGED <<spent, booked, remaining, run, trades>>
    BY <1>2 DEF Arrive, budget
  <2>3. \A g \in booked : req'[g] = req[g] /\ runOf'[g] = runOf[g]
    BY <1>1, <1>2, <2>1 DEF Arrive, TypeOK
  <2>4. QED
    BY <2>2, <2>3 DEF Budget
<1>3. ASSUME NEW h \in Calls, ReserveBook(h) PROVE Ledger!Book(h) \/ UNCHANGED Ledger!vars
  <2>1. /\ h \notin booked
        /\ runOf[h] = run
        /\ left[h] = Budget - spent
        /\ req[h].usd \in 1..MaxUSD
    BY <1>3, BudgetNat, Arguments
    DEF ReserveBook, Staged, Unbooked, Running, Guarded, TypeOK
  <2>2. UNCHANGED <<req, runOf, run, trades>>
    BY <1>3 DEF ReserveBook
  <2>3. \A g \in booked : remaining'[g] = remaining[g]
    BY <1>1, <1>3, <2>1 DEF ReserveBook, TypeOK
  <2>4. CASE req[h].usd > left[h]
    <3>1. UNCHANGED <<spent, booked>>
      BY <1>3, <2>4 DEF ReserveBook
    <3>2. QED
      BY <2>2, <2>3, <3>1 DEF Budget
  <2>5. CASE ~(req[h].usd > left[h])
    <3>1. /\ booked' = booked \cup {h}
          /\ spent' = spent + req[h].usd
          /\ remaining'[h] = Budget - spent'
      BY <1>3, <2>5 DEF ReserveBook, TypeOK
    <3>2. /\ Budget - spent' = (Budget - spent) - req[h].usd
          /\ remaining'[h] + req[h].usd = Budget - spent
          /\ req[h].usd <= Budget - spent
      BY <2>1, <2>5, <3>1, BudgetNat DEF TypeOK
    <3>3. [g \in booked' |-> [epoch |-> runOf'[g], lo |-> remaining'[g],
                              hi |-> remaining'[g] + req'[g].usd]]
            = [g \in booked \cup {h} |->
                 IF g = h THEN [epoch |-> run, lo |-> (Budget - spent) - req[h].usd,
                                hi |-> Budget - spent]
                 ELSE [g2 \in booked |-> Slice(g2)][g]]
      BY <2>1, <2>2, <2>3, <3>1, <3>2
    <3>4. Ledger!Book(h)
      BY <2>1, <2>2, <3>1, <3>2, <3>3 DEF Ledger!Book, Budget
    <3>5. QED
      BY <3>4
  <2>6. QED
    BY <2>4, <2>5
<1>4. ASSUME NEW h \in Calls, Execute(h) PROVE Ledger!Sign(h) \/ UNCHANGED Ledger!vars
  <2>1. /\ h \in booked
        /\ runOf[h] = run
        /\ \A t \in trades : t.call # h
    BY <1>4 DEF Execute, Staged, Cleared, Running, Signed
  <2>2. UNCHANGED <<req, runOf, run, spent, booked, remaining>>
    BY <1>4 DEF Execute, budget
  <2>3. CASE UNCHANGED trades
    BY <2>2, <2>3 DEF Budget
  <2>4. CASE \E t : t.call = h /\ trades' = trades \cup {t}
    <3>1. {t.call : t \in trades'} = {t.call : t \in trades} \cup {h}
      BY <2>4
    <3>2. h \notin {t.call : t \in trades}
      BY <2>1
    <3>3. QED
      BY <2>1, <2>2, <3>1, <3>2 DEF Ledger!Sign, Budget
  <2>5. QED
    BY <1>4, <2>3, <2>4 DEF Execute
<1>5. CASE Restart
  <2>1. /\ UNCHANGED <<req, runOf, booked, remaining, trades>>
        /\ run' = run + 1
        /\ Budget - spent' = Budget
    BY <1>5, BudgetNat DEF Restart
  <2>2. QED
    BY <2>1 DEF Ledger!NewRun, Budget
<1>6. CASE UNCHANGED <<req, runOf, run, spent, booked, remaining, trades>>
  BY <1>6 DEF Budget
<1>7. QED
  BY <1>2, <1>3, <1>4, <1>5, <1>6, BookingSteps, TradeSteps

\* The server implements the abstract budget.
THEOREM BudgetRefinement == Spec => ImplementsBudget
<1>1. QED
  BY LedgerInit, LedgerStep, Invariance, PTL DEF Spec, ImplementsBudget, Ledger!Spec
=============================================================================
