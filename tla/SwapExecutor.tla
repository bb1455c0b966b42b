---------------------------- MODULE SwapExecutor ----------------------------
(***************************************************************************)
(* Flow.Execute and Flow.ExecuteThorchain, with the Executors of           *)
(* internal/swap and internal/thorchain, against a chain: the calls that   *)
(* share one wallet (the screens of the TUI, the handlers of the MCP       *)
(* server, several processes), the approval a call may need first, the     *)
(* transactions it signs, and what the chain makes of them.                *)
(*                                                                         *)
(* All calls sell the same token, or the native one.  Amounts are          *)
(* whole units of it; prices are left out, so whether the pool still gives *)
(* the minimum output is a free choice, at the gas estimate and again when *)
(* the swap is mined.  The node's account view is consistent.  What        *)
(* THORchain does with a deposit is not seen here.                         *)
(***************************************************************************)
EXTENDS Naturals, FiniteSets, FiniteSetsExt

CONSTANTS
  Swaps,        \* Execute and ExecuteThorchain calls with the private key of the wallet
  MaxAmount,    \* bound: amounts of the sold token are 1..MaxAmount
  Held          \* what the wallet holds of the sold token

ASSUME AmountsAssumption == MaxAmount \in Nat \ {0} /\ Held \in Nat

VARIABLES
  pc,           \* where each call is
  kind,         \* what kind of swap it is, see Kinds
  amt,          \* fromTokenAmount, converted from USD at a fresh price
  doing,        \* the transaction a call is at: its approval or its swap
  nonce,        \* the nonce it read for that transaction
  err,          \* the failure it reported
  pool,         \* pending transactions of the wallet
  mined,        \* the next nonce the chain will take
  receipts,     \* mined transactions with their status
  allowance,    \* what each router may pull of the sold token
  balance,      \* what the wallet holds of it
  pulled        \* what each call's swap took from the wallet so far

chain == <<pool, mined, receipts, allowance, balance, pulled>>
vars == <<pc, kind, amt, doing, nonce, err, chain>>

\* On the DEX: buy with the native token, sell for it, token for token.  To
\* Bitcoin: transfer the native token to the vault, deposit a token through
\* THORchain's router, or, when THORnode names none, through the DEX's.
Native == {"buy", "transfer"}
Deposits == {"deposit", "fallback"}
Kinds == Native \cup Deposits \cup {"sell", "token"}
Dex == {"buy", "sell", "token"}

\* The router that a call approves and calls.
Router(s) == IF kind[s] = "deposit" THEN "thor" ELSE "dex"
Running == {"allowance", "recheck", "estimate", "nonce", "send", "wait"}
Errors == {"none", "price", "allowance", "insufficient", "estimate", "nonce",
           "send", "wait"}

Txs == [owner : Swaps, does : {"approve", "swap"}, nonce : Nat, amount : Nat]

\* Mutant of Tx: an approval is unlimited.
TxUnlimited(s) ==
  [owner |-> s, does |-> doing[s], nonce |-> nonce[s],
   amount |-> IF doing[s] = "approve" THEN MaxAmount + 1 ELSE amt[s]]

\* The transaction a call signs with the nonce it read.  An approval is for
\* exactly the amount of the swap.
Tx(s) == [owner |-> s, does |-> doing[s], nonce |-> nonce[s], amount |-> amt[s]]

\* The transaction of a call's own swap has been broadcast.
SwapSent(s) ==
  \/ \E t \in pool : t.owner = s /\ t.does = "swap"
  \/ \E r \in receipts : r.tx.owner = s /\ r.tx.does = "swap"

\* PendingNonceAt: the first nonce that is neither mined nor pending.
PendingNonce ==
  Min({n \in mined..(mined + Cardinality(pool)) : \A t \in pool : t.nonce # n})

Goto(s, step) == pc' = [pc EXCEPT ![s] = step]

Fail(s, why) == Goto(s, "failed") /\ err' = [err EXCEPT ![s] = why]
----------------------------------------------------------------------------
\* A call of this kind starts with this transaction and step.
Begin(s, k, does, step) ==
  /\ kind' = [kind EXCEPT ![s] = k]
  /\ \E a \in 1..MaxAmount : amt' = [amt EXCEPT ![s] = a]
  /\ doing' = [doing EXCEPT ![s] = does]
  /\ Goto(s, step)
  /\ UNCHANGED err

\* Flow.Execute up to ExecuteFullSwap: it converts the USD amount, quotes, and
\* computes a minimum output.  Buying with the native token needs no allowance.
Price(s) ==
  /\ pc[s] = "idle"
  /\ \/ Fail(s, "price") /\ UNCHANGED <<kind, amt, doing>>
     \/ Begin(s, "buy", "swap", "estimate")
     \/ \E k \in {"sell", "token"} : Begin(s, k, "swap", "allowance")
  /\ UNCHANGED <<nonce, chain>>

\* ExecuteThorchain up to sendThorSwap: it converts the USD amount, and asks
\* THORnode for a quote (below its minimum?) and the inbound vault (halted?).
\* A token is approved whatever its allowance.
PriceThorchain(s) ==
  /\ pc[s] = "idle"
  /\ \/ Fail(s, "price") /\ UNCHANGED <<kind, amt, doing>>
     \/ Begin(s, "transfer", "swap", "nonce")
     \/ \E k \in Deposits : Begin(s, k, "approve", "estimate")
  /\ UNCHANGED <<nonce, chain>>

\* ExecuteFullSwap reads the allowance and approves when it is short.
CheckAllowance(s) ==
  /\ pc[s] = "allowance"
  /\ \/ /\ Fail(s, "allowance")
        /\ UNCHANGED doing
     \/ /\ allowance["dex"] < amt[s]
        /\ doing' = [doing EXCEPT ![s] = "approve"]
        /\ Goto(s, "estimate")
        /\ UNCHANGED err
     \/ /\ allowance["dex"] >= amt[s]
        /\ Goto(s, IF kind[s] = "token" THEN "recheck" ELSE "estimate")
        /\ UNCHANGED <<doing, err>>
  /\ UNCHANGED <<kind, amt, nonce, chain>>

\* ExecuteSwap reads the allowance again; ExecuteSellForNative does not.
Recheck(s) ==
  /\ pc[s] = "recheck"
  /\ \/ /\ Fail(s, IF allowance["dex"] < amt[s] THEN "insufficient" ELSE "allowance")
     \/ /\ allowance["dex"] >= amt[s]
        /\ Goto(s, "estimate")
        /\ UNCHANGED err
  /\ UNCHANGED <<kind, amt, doing, nonce, chain>>

\* The chain can run a call's swap: its input can be pulled, and the contract
\* called has the function (the DEX's router has no depositWithExpiry).
Fundable(s) ==
  \/ kind[s] \in Native
  \/ /\ kind[s] # "fallback"
     /\ allowance[Router(s)] >= amt[s] /\ balance >= amt[s]

\* Transact, first step: the node runs the transaction to estimate its gas.  It
\* may fail for the price even when the input can be pulled.  A transfer to the
\* vault has no such step: with no estimate it takes a fixed limit.
Estimate(s) ==
  /\ pc[s] = "estimate"
  /\ \/ Fail(s, "estimate")
     \/ /\ doing[s] = "swap" => Fundable(s)
        /\ Goto(s, "nonce")
        /\ UNCHANGED err
  /\ UNCHANGED <<kind, amt, doing, nonce, chain>>

\* Transact, second step: the account's next nonce is read.
ReadNonce(s) ==
  /\ pc[s] = "nonce"
  /\ \/ /\ Fail(s, "nonce")
        /\ UNCHANGED nonce
     \/ /\ nonce' = [nonce EXCEPT ![s] = PendingNonce]
        /\ Goto(s, "send")
        /\ UNCHANGED err
  /\ UNCHANGED <<kind, amt, doing, chain>>

\* The node takes a transaction: its nonce is not mined yet, and a pending one
\* with the same nonce is replaced (the fee was raised enough).
Accept(t) ==
  /\ t.nonce >= mined
  /\ pool' = {p \in pool : p.nonce # t.nonce} \cup {t}
  /\ UNCHANGED <<mined, receipts, allowance, balance, pulled>>

\* Mutant of Send: an error of the node is taken for a transaction not sent,
\* and the call reads a nonce again.
SendRetries(s) ==
  /\ pc[s] = "send"
  /\ \/ /\ Fail(s, "send")
        /\ UNCHANGED chain
     \/ /\ Accept(Tx(s))
        /\ \/ Goto(s, "wait")
           \/ Goto(s, "nonce")
        /\ UNCHANGED err
  /\ UNCHANGED <<kind, amt, doing, nonce>>

\* The last step: SendTransaction.  The node refuses it (a stale nonce, a
\* pending transaction with that nonce, no funds for gas), or takes it, and its
\* answer may be lost.
Send(s) ==
  /\ pc[s] = "send"
  /\ \/ /\ Fail(s, "send")
        /\ UNCHANGED chain
     \/ /\ Accept(Tx(s))
        /\ \/ Goto(s, "wait") /\ UNCHANGED err
           \/ Fail(s, "send")
  /\ UNCHANGED <<kind, amt, doing, nonce>>

\* After its approval a call goes on to its swap; after its swap it succeeded.
Proceed(s) ==
  IF doing[s] = "approve"
  THEN /\ doing' = [doing EXCEPT ![s] = "swap"]
       /\ Goto(s, IF kind[s] = "token" THEN "recheck" ELSE "estimate")
  ELSE Goto(s, "ok") /\ UNCHANGED doing

\* Mutant of Wait: any mined transaction with the nonce is taken for its own.
WaitByNonce(s) ==
  /\ pc[s] = "wait"
  /\ \/ /\ Fail(s, "wait")
        /\ UNCHANGED doing
     \/ /\ mined > nonce[s]
        /\ Proceed(s)
        /\ UNCHANGED err
  /\ UNCHANGED <<kind, amt, nonce, chain>>

\* Mutant of Wait: a call that reaches its deadline signs once more.
WaitResends(s) ==
  /\ pc[s] = "wait"
  /\ \/ Goto(s, "nonce") /\ UNCHANGED <<doing, err>>
     \/ /\ \E r \in receipts : r.tx = Tx(s)
        /\ Proceed(s)
        /\ UNCHANGED err
  /\ UNCHANGED <<kind, amt, nonce, chain>>

\* Mutant of Wait: the wait has no deadline.
WaitForever(s) ==
  /\ pc[s] = "wait"
  /\ \E r \in receipts : r.tx = Tx(s)
  /\ Proceed(s)
  /\ UNCHANGED <<kind, amt, nonce, err, chain>>

\* WaitMined: the receipt of the transaction is there, whatever its status, or
\* the context of the call ends first.
Wait(s) ==
  /\ pc[s] = "wait"
  /\ \/ /\ Fail(s, "wait")
        /\ UNCHANGED doing
     \/ /\ \E r \in receipts : r.tx = Tx(s)
        /\ Proceed(s)
        /\ UNCHANGED err
  /\ UNCHANGED <<kind, amt, nonce, chain>>

\* The process ends with the call under way.
Quit(s) ==
  /\ pc[s] \in Running
  /\ Goto(s, "killed")
  /\ UNCHANGED <<kind, amt, doing, nonce, err, chain>>
----------------------------------------------------------------------------
\* The chain runs an approval: it sets the allowance, and adds nothing to it.
MineApproval(t) ==
  /\ t.does = "approve"
  /\ allowance' = [allowance EXCEPT ![Router(t.owner)] = t.amount]
  /\ receipts' = receipts \cup {[tx |-> t, status |-> "ok"]}
  /\ UNCHANGED <<balance, pulled>>

\* The chain runs a swap or a deposit: the router pulls its input.
MineSwap(t) ==
  /\ t.does = "swap"
  /\ Fundable(t.owner)
  /\ pulled' = [pulled EXCEPT ![t.owner] = @ + t.amount]
  /\ receipts' = receipts \cup {[tx |-> t, status |-> "ok"]}
  /\ IF kind[t.owner] \in Native THEN UNCHANGED <<allowance, balance>>
     ELSE /\ allowance' = [allowance EXCEPT ![Router(t.owner)] = @ - t.amount]
          /\ balance' = balance - t.amount

\* The transaction fails on the chain: the minimum output or the deadline was
\* missed, its input cannot be pulled, or it ran out of gas.
MineReverted(t) ==
  /\ receipts' = receipts \cup {[tx |-> t, status |-> "reverted"]}
  /\ UNCHANGED <<allowance, balance, pulled>>

\* The next transaction of the account is mined.
Mine(t) ==
  /\ t \in pool
  /\ t.nonce = mined
  /\ mined' = mined + 1
  /\ pool' = pool \ {t}
  /\ MineApproval(t) \/ MineSwap(t) \/ MineReverted(t)
  /\ UNCHANGED <<pc, kind, amt, doing, nonce, err>>

\* The node forgets a pending transaction.
Evict(t) ==
  /\ t \in pool
  /\ pool' = pool \ {t}
  /\ UNCHANGED <<pc, kind, amt, doing, nonce, err, mined, receipts, allowance,
                 balance, pulled>>
----------------------------------------------------------------------------
Init ==
  /\ pc = [s \in Swaps |-> "idle"]
  /\ kind = [s \in Swaps |-> "buy"]
  /\ amt = [s \in Swaps |-> 0]
  /\ doing = [s \in Swaps |-> "swap"]
  /\ nonce = [s \in Swaps |-> 0]
  /\ err = [s \in Swaps |-> "none"]
  /\ pool = {}
  /\ mined = 0
  /\ receipts = {}
  /\ \E a \in 0..MaxAmount : allowance = [dex |-> a, thor |-> 0]
  /\ balance = Held
  /\ pulled = [s \in Swaps |-> 0]

\* The next step of ExecuteFullSwap, ...
FullSwap(s) ==
  /\ kind[s] \in Dex
  /\ \/ CheckAllowance(s) \/ Recheck(s) \/ Estimate(s)
     \/ ReadNonce(s) \/ Send(s) \/ Wait(s)

\* ... of SwapNativeToBtc, which signs one transfer, ...
Transfer(s) ==
  kind[s] = "transfer" /\ (ReadNonce(s) \/ Send(s) \/ Wait(s))

\* ... and of SwapErc20ToBtc, which approves, waits, deposits and waits, and
\* never looks at the allowance.
Deposit(s) ==
  kind[s] \in Deposits /\ (Estimate(s) \/ ReadNonce(s) \/ Send(s) \/ Wait(s))

Step(s) == FullSwap(s) \/ Transfer(s) \/ Deposit(s)

Next ==
  \/ \E s \in Swaps : Price(s) \/ PriceThorchain(s) \/ Step(s) \/ Quit(s)
  \/ \E t \in pool : Mine(t) \/ Evict(t)

Spec == Init /\ [][Next]_vars

\* Every RPC call answers or is cut by the context, which every caller of
\* Flow.Execute gives a deadline; the chain need not mine anything.
FairSpec == Spec /\ \A s \in Swaps : WF_vars(Step(s))
----------------------------------------------------------------------------
\* Types of every variable.
TypeOK ==
  /\ pc \in [Swaps -> Running \cup {"idle", "ok", "failed", "killed"}]
  /\ kind \in [Swaps -> Kinds]
  /\ amt \in [Swaps -> 0..MaxAmount]
  /\ doing \in [Swaps -> {"approve", "swap"}]
  /\ nonce \in [Swaps -> Nat]
  /\ err \in [Swaps -> Errors]
  /\ pool \subseteq Txs
  /\ mined \in Nat
  /\ receipts \subseteq [tx : Txs, status : {"ok", "reverted"}]
  /\ allowance \in [{"dex", "thor"} -> 0..MaxAmount]
  /\ balance \in 0..Held
  /\ pulled \in [Swaps -> Nat]

\* A reported success is a mined swap of that very call, even when another
\* call's transaction replaced one at its nonce.
SuccessIsMined ==
  \A s \in Swaps : pc[s] = "ok" =>
    \E r \in receipts : r.tx.owner = s /\ r.tx.does = "swap"

\* A call takes its amount from the wallet at most once, however many of its
\* answers are lost, cut by the deadline or raced by other calls.
PulledOnce == \A s \in Swaps : pulled[s] \in {0, amt[s]}

\* A caller may retry after any failure but those of sending and waiting: no
\* other failure leaves a swap on its way.
FailuresHonest ==
  \A s \in Swaps : pc[s] = "failed" /\ SwapSent(s) => err[s] \in {"send", "wait"}

Approved(s) ==
  \E r \in receipts : r.tx.owner = s /\ r.tx.does = "approve" /\ r.status = "ok"

\* Once an approval was mined, whatever its router may still pull was approved
\* for a call whose swap has not gone through: calls that do go through leave
\* nothing behind, in whatever order approvals and swaps of several are mined.
ResidueIsUnspent ==
  \A r \in {"dex", "thor"} :
    LET approvers == {s \in Swaps : Router(s) = r /\ Approved(s)}
    IN allowance[r] > 0 /\ approvers # {} => \E s \in approvers : pulled[s] = 0

\* Success of a swap on the DEX means that it went through, as update_swap.go says
\* of the result it gets ("On success, ... so the swapped-in token shows up").
SuccessIsFilled ==
  \A s \in Swaps : kind[s] \in Dex /\ pc[s] = "ok" => pulled[s] = amt[s]

\* What a call has told its caller: after a failure of sending or waiting, or
\* the end of its process, nothing certain.
Answer(s) ==
  IF pc[s] = "wait" /\ doing[s] = "swap" THEN "sent"
  ELSE IF pc[s] \in Running THEN "asked"
  ELSE IF pc[s] = "killed" \/ (pc[s] = "failed" /\ err[s] \in {"send", "wait"})
  THEN "unsure"
  ELSE IF pc[s] = "failed" THEN "refused" ELSE pc[s]

\* Where the swap of a call is on the chain.
SwapState(s) ==
  IF \E r \in receipts : r.tx.owner = s /\ r.tx.does = "swap" THEN "mined"
  ELSE IF SwapSent(s) THEN "pending" ELSE "none"

Promise == INSTANCE SwapPromise WITH
  Calls <- Swaps,
  answer <- [s \in Swaps |-> Answer(s)],
  agreed <- amt,
  token <- {s \in Swaps : kind[s] \notin Native},
  swap <- [s \in Swaps |-> SwapState(s)],
  paid <- pulled,
  wallet <- balance

\* Execute and ExecuteThorchain, with their nonce races, approvals, deadlines and
\* lost answers, keep the promise of SwapPromise to every caller.
ImplementsPromise == Promise!Spec

\* A call that started ends, even when its transaction never gets mined.
EveryExecuteReturns ==
  \A s \in Swaps : pc[s] \in Running ~> pc[s] \in {"ok", "failed", "killed"}
=============================================================================
