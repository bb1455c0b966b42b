----------------------------- MODULE McpServer -----------------------------
(***************************************************************************)
(* The MCP server of internal/mcp with trading enabled: concurrent         *)
(* swap_execute and set_settings tool calls, the mutex-guarded spending    *)
(* budget, the flow cache, the settings and wallets stored in the shared   *)
(* database, and the audit log.                                            *)
(*                                                                         *)
(* USD amounts are whole units (a float64 in the code).  A handler is a    *)
(* sequence of steps cut wherever it touches something another handler or  *)
(* process can touch: the database, the mutex, the log, the risk API, the  *)
(* chain.  What flow.Execute does on the chain is module SwapExecutor.     *)
(***************************************************************************)
EXTENDS Naturals, FiniteSets, FiniteSetsExt

CONSTANTS
  Calls,        \* swap_execute calls, one goroutine each
  Updates,      \* set_settings calls
  Chains,       \* the configured chain keys
  Wallets,      \* wallet addresses that may be stored
  Tokens,       \* destination tokens a call may name
  SafeTokens,   \* native and stablecoin tokens, never risk-checked
  HighRisk,     \* <<chain, token>> pairs the risk API rates HIGH
  Requests,     \* arguments a call may come with; usd may be 0, the schema
                \* allows it; chain and wallet may be None, omitted
  MaxUSD,       \* --max-usd
  MaxUSDTotal,  \* --max-usd-total, 0 when not given
  Allowlist,    \* --chain allowlist, {} when not given
  AllowRisky,   \* --allow-risky
  Deletable,    \* wallets another process may delete meanwhile
  MaxRuns,      \* bound: how many times the server process is started
  None          \* an omitted argument, an unset value, a free mutex

\* What server.go's Run refuses to start without, and what the constants are.
ASSUME OptionsAssumption ==
  /\ MaxUSD \in Nat \ {0}
  /\ MaxUSDTotal \in Nat
  /\ MaxUSDTotal > 0 => MaxUSDTotal >= MaxUSD
  /\ Allowlist \subseteq Chains
  /\ AllowRisky \in BOOLEAN
  /\ Requests \subseteq [usd : Nat, chain : Chains \cup {None},
                           wallet : Wallets \cup {None}, token : Tokens]
  /\ Deletable \subseteq Wallets
  /\ MaxRuns \in Nat \ {0}
  /\ SafeTokens \subseteq Tokens
  /\ HighRisk \subseteq Chains \X (Tokens \ SafeTokens)
  /\ None \notin Calls \cup Chains \cup Wallets

VARIABLES
  pc, req,           \* per swap_execute call: where its handler is, its arguments
  key, signer,       \* the chain and the wallet it resolved
  left, remaining,   \* what reserve computed, what reserve returned
  verdict,           \* Level of its risk report
  runOf,             \* the run of the server that serves it
  upc, ureq,         \* per set_settings call: where it is, its arguments
  run,               \* which start of the server process this is
  mu,                \* server.mu: the call holding it, or None
  spent,             \* server.spentUSD
  booked,            \* calls whose reserve returned ok
  flows,             \* keys of server.flows
  config,            \* the persisted settings: default chain and wallet
  stored,            \* addresses in the wallets table
  trades,            \* swaps signed and broadcast by flow.Execute
  log                \* lazyswap.log: the lines swap_execute wrote

updates == <<upc, ureq>>
budget == <<spent, booked, left, remaining>>
database == <<config, stored>>
vars == <<pc, req, key, signer, verdict, runOf, updates, run, mu, budget,
          flows, database, trades, log>>

NoRequest == [usd |-> 0, chain |-> None, wallet |-> None, token |-> None]
Trades == [call : Calls, chain : Chains, token : Tokens,
           wallet : Wallets, usd : Nat]
Lines == {"refusedCap", "refusedBudget", "allowed", "failed", "ok"}
Config == [chain : Chains, wallet : Wallets \cup {None}]
Verdicts == {"unchecked", "HIGH", "notHigh", "UNKNOWN"}
Running == {"resolve", "cap", "lock", "book", "logRefusal", "logAllowed",
            "allowlist", "risk", "unlock", "flow", "dial", "execute",
            "wait", "logOk", "logFailed"}
Outcomes == {"invalid", "refusedCap", "refusedBudget", "refusedChain",
             "refusedRisk", "error", "ok", "failed"}
UpdateSteps == {"idle", "chain", "slippage", "pick", "wallet", "done", "error"}

\* The cumulative ceiling of one run.
Budget == IF MaxUSDTotal > 0 THEN MaxUSDTotal ELSE MaxUSD

ChainAllowed(c) == Allowlist = {} \/ c \in Allowlist

\* wallet.Pick over the stored wallets: the set of its possible results, empty
\* when it returns an error.
Pick(explicit, default) ==
  IF explicit # None THEN {explicit} \cap stored
  ELSE IF default # None THEN {default} \cap stored
  ELSE IF Cardinality(stored) = 1 THEN stored
  ELSE {}

\* What the risk check of a token on a chain may come back with.
Verdict(c, t) ==
  IF t \in SafeTokens THEN {"unchecked"}
  ELSE {"UNKNOWN", IF <<c, t>> \in HighRisk THEN "HIGH" ELSE "notHigh"}

Goto(h, step) == pc' = [pc EXCEPT ![h] = step]

Write(h, line) == log' = log \cup {[call |-> h, line |-> line]}
----------------------------------------------------------------------------
\* A tool call arrives and the SDK starts its handler.
Arrive(h) ==
  /\ pc[h] = "idle"
  /\ \E r \in Requests : req' = [req EXCEPT ![h] = r]
  /\ runOf' = [runOf EXCEPT ![h] = run]
  /\ Goto(h, "resolve")
  /\ UNCHANGED <<key, signer, verdict, updates, run, mu, budget, flows,
                 database, trades, log>>

\* resolveSwap: the amount, then the chain the call will act on.  A database
\* error, an unknown chain or token takes the same exit as a bad amount.
Resolve(h) ==
  /\ pc[h] = "resolve"
  /\ \/ /\ Goto(h, "invalid")
        /\ UNCHANGED key
     \/ /\ req[h].usd > 0
        /\ key' = [key EXCEPT ![h] =
                     IF req[h].chain # None THEN req[h].chain ELSE config.chain]
        /\ Goto(h, "cap")
  /\ UNCHANGED <<req, signer, verdict, runOf, updates, run, mu, budget, flows,
                 database, trades, log>>

\* Mutant of CheckCap: the per-swap cap is taken for the session budget.
CheckCapOfSession(h) ==
  /\ pc[h] = "cap"
  /\ IF req[h].usd > Budget
     THEN Write(h, "refusedCap") /\ Goto(h, "refusedCap")
     ELSE Goto(h, "lock") /\ UNCHANGED log
  /\ UNCHANGED <<req, key, signer, verdict, runOf, updates, run, mu, budget,
                 flows, database, trades>>

\* The per-swap cap; the refusal is logged before the error is returned.
CheckCap(h) ==
  /\ pc[h] = "cap"
  /\ IF req[h].usd > MaxUSD
     THEN Write(h, "refusedCap") /\ Goto(h, "refusedCap")
     ELSE Goto(h, "lock") /\ UNCHANGED log
  /\ UNCHANGED <<req, key, signer, verdict, runOf, updates, run, mu, budget,
                 flows, database, trades>>

\* Mutant of ReserveLock: what is left is read without waiting for the mutex.
ReserveUnlocked(h) ==
  /\ pc[h] = "lock"
  /\ mu' = h
  /\ left' = [left EXCEPT ![h] = Budget - spent]
  /\ Goto(h, "book")
  /\ UNCHANGED <<req, key, signer, verdict, runOf, updates, run, remaining,
                 spent, booked, flows, database, trades, log>>

\* reserve, first half: take the mutex and compute what is left.
ReserveLock(h) ==
  /\ pc[h] = "lock"
  /\ mu = None
  /\ mu' = h
  /\ left' = [left EXCEPT ![h] = Budget - spent]
  /\ Goto(h, "book")
  /\ UNCHANGED <<req, key, signer, verdict, runOf, updates, run, remaining,
                 spent, booked, flows, database, trades, log>>

\* reserve, second half: refuse or book, and release the mutex on return.
ReserveBook(h) ==
  /\ pc[h] = "book"
  /\ mu' = None
  /\ IF req[h].usd > left[h]
     THEN /\ remaining' = [remaining EXCEPT ![h] = left[h]]
          /\ Goto(h, "logRefusal")
          /\ UNCHANGED <<spent, booked>>
     ELSE /\ spent' = spent + req[h].usd
          /\ remaining' = [remaining EXCEPT ![h] = Budget - spent']
          /\ booked' = booked \cup {h}
          /\ Goto(h, "logAllowed")
  /\ UNCHANGED <<req, key, signer, verdict, runOf, updates, run, left, flows,
                 database, trades, log>>

LogBudgetRefusal(h) ==
  /\ pc[h] = "logRefusal"
  /\ Write(h, "refusedBudget")
  /\ Goto(h, "refusedBudget")
  /\ UNCHANGED <<req, key, signer, verdict, runOf, updates, run, mu, budget,
                 flows, database, trades>>

LogAllowed(h) ==
  /\ pc[h] = "logAllowed"
  /\ Write(h, "allowed")
  /\ Goto(h, "allowlist")
  /\ UNCHANGED <<req, key, signer, verdict, runOf, updates, run, mu, budget,
                 flows, database, trades>>

\* The chain allowlist, checked after the budget was booked and logged.
CheckAllowlist(h) ==
  /\ pc[h] = "allowlist"
  /\ Goto(h, IF ChainAllowed(key[h]) THEN "risk" ELSE "refusedChain")
  /\ UNCHANGED <<req, key, signer, verdict, runOf, updates, run, mu, budget,
                 flows, database, trades, log>>

\* The risk verdict: only HIGH refuses, and only without --allow-risky.
CheckRisk(h) ==
  /\ pc[h] = "risk"
  /\ \E v \in Verdict(key[h], req[h].token) :
       /\ verdict' = [verdict EXCEPT ![h] = v]
       /\ Goto(h, IF v = "HIGH" /\ ~AllowRisky THEN "refusedRisk" ELSE "unlock")
  /\ UNCHANGED <<req, key, signer, runOf, updates, run, mu, budget, flows,
                 database, trades, log>>

\* unlockWallet: the wallets and the default are read now, not at resolve.
UnlockWallet(h) ==
  /\ pc[h] = "unlock"
  /\ LET picks == Pick(req[h].wallet, config.wallet)
     IN \/ /\ Goto(h, "error")     \* no pick, or the database or key failed
           /\ UNCHANGED signer
        \/ /\ \E w \in picks : signer' = [signer EXCEPT ![h] = w]
           /\ Goto(h, "flow")
  /\ UNCHANGED <<req, key, verdict, runOf, updates, run, mu, budget, flows,
                 database, trades, log>>

\* flow: a cached client is returned at once; otherwise the dial happens with
\* the mutex held.
FlowLock(h) ==
  /\ pc[h] = "flow"
  /\ mu = None
  /\ IF key[h] \in flows
     THEN Goto(h, "execute") /\ UNCHANGED mu
     ELSE Goto(h, "dial") /\ mu' = h
  /\ UNCHANGED <<req, key, signer, verdict, runOf, updates, run, budget,
                 flows, database, trades, log>>

\* Mutant of FlowDial: a dial that fails returns without releasing the mutex.
FlowDialLeaks(h) ==
  /\ pc[h] = "dial"
  /\ \/ /\ mu' = None
        /\ flows' = flows \cup {key[h]}
        /\ Goto(h, "execute")
     \/ /\ UNCHANGED <<mu, flows>>
        /\ Goto(h, "error")
  /\ UNCHANGED <<req, key, signer, verdict, runOf, updates, run, budget,
                 database, trades, log>>

\* The dial ends, with a client or an error; the mutex is released on return.
FlowDial(h) ==
  /\ pc[h] = "dial"
  /\ mu' = None
  /\ \/ /\ flows' = flows \cup {key[h]}
        /\ Goto(h, "execute")
     \/ /\ UNCHANGED flows
        /\ Goto(h, "error")
  /\ UNCHANGED <<req, key, signer, verdict, runOf, updates, run, budget,
                 database, trades, log>>

\* Mutant of Execute: an omitted chain is read again from the settings.
ExecuteOnDefault(h) ==
  /\ pc[h] = "execute"
  /\ \/ /\ Goto(h, "logFailed")
        /\ UNCHANGED trades
     \/ /\ trades' = trades \cup
             {[call |-> h, token |-> req[h].token, wallet |-> signer[h],
               chain |-> IF req[h].chain # None THEN req[h].chain ELSE config.chain,
               usd |-> req[h].usd]}
        /\ Goto(h, "wait")
  /\ UNCHANGED <<req, key, signer, verdict, runOf, updates, run, mu, budget,
                 flows, database, log>>

\* Mutant of Execute: a result without Success is taken for a trade.
ExecuteUnchecked(h) ==
  /\ pc[h] = "execute"
  /\ \/ /\ Goto(h, "logOk")
        /\ UNCHANGED trades
     \/ /\ trades' = trades \cup {[call |-> h, chain |-> key[h],
                                   token |-> req[h].token,
                                   wallet |-> signer[h], usd |-> req[h].usd]}
        /\ Goto(h, "wait")
  /\ UNCHANGED <<req, key, signer, verdict, runOf, updates, run, mu, budget,
                 flows, database, log>>

\* Mutant of Execute: a swap that fails gives its amount back.
ExecuteRefunds(h) ==
  /\ pc[h] = "execute"
  /\ \/ /\ Goto(h, "logFailed")
        /\ spent' = spent - req[h].usd
        /\ UNCHANGED trades
     \/ /\ trades' = trades \cup {[call |-> h, chain |-> key[h],
                                   token |-> req[h].token,
                                   wallet |-> signer[h], usd |-> req[h].usd]}
        /\ Goto(h, "wait")
        /\ UNCHANGED spent
  /\ UNCHANGED <<req, key, signer, verdict, runOf, updates, run, mu, booked,
                 left, remaining, flows, database, log>>

\* flow.Execute: it fails before anything is broadcast, or signs the swap.
Execute(h) ==
  /\ pc[h] = "execute"
  /\ \/ /\ Goto(h, "logFailed")
        /\ UNCHANGED trades
     \/ /\ trades' = trades \cup {[call |-> h, chain |-> key[h],
                                   token |-> req[h].token,
                                   wallet |-> signer[h], usd |-> req[h].usd]}
        /\ Goto(h, "wait")
  /\ UNCHANGED <<req, key, signer, verdict, runOf, updates, run, mu, budget,
                 flows, database, log>>

\* The receipt arrives, or the two-minute context ends first.
AwaitReceipt(h) ==
  /\ pc[h] = "wait"
  /\ \E step \in {"logOk", "logFailed"} : Goto(h, step)
  /\ UNCHANGED <<req, key, signer, verdict, runOf, updates, run, mu, budget,
                 flows, database, trades, log>>

LogOutcome(h) ==
  /\ \/ pc[h] = "logOk" /\ Write(h, "ok") /\ Goto(h, "ok")
     \/ pc[h] = "logFailed" /\ Write(h, "failed") /\ Goto(h, "failed")
  /\ UNCHANGED <<req, key, signer, verdict, runOf, updates, run, mu, budget,
                 flows, database, trades>>
----------------------------------------------------------------------------
\* set_settings writes its fields one after the other, each validated just
\* before its own write: an error keeps what was already written.
UpdateStart(u) ==
  /\ upc[u] = "idle"
  /\ \E r \in [chain : Chains \cup {None}, wallet : Wallets \cup {None}] :
       ureq' = [ureq EXCEPT ![u] = r]
  /\ upc' = [upc EXCEPT ![u] = "chain"]
  /\ UNCHANGED <<pc, req, key, signer, verdict, runOf, run, mu, budget, flows,
                 database, trades, log>>

UpdateChain(u) ==
  /\ upc[u] = "chain"
  /\ \/ /\ upc' = [upc EXCEPT ![u] = "slippage"]
        /\ config' = IF ureq[u].chain = None THEN config
                     ELSE [config EXCEPT !.chain = ureq[u].chain]
     \/ /\ upc' = [upc EXCEPT ![u] = "error"]
        /\ UNCHANGED config
  /\ UNCHANGED <<pc, req, key, signer, verdict, runOf, ureq, run, mu, budget,
                 flows, stored, trades, log>>

\* The slippage write: out of range or a database error ends the call here.
UpdateSlippage(u) ==
  /\ upc[u] = "slippage"
  /\ \E step \in {IF ureq[u].wallet = None THEN "done" ELSE "pick", "error"} :
       upc' = [upc EXCEPT ![u] = step]
  /\ UNCHANGED <<pc, req, key, signer, verdict, runOf, ureq, run, mu, budget,
                 flows, database, trades, log>>

\* The wallet is looked up, and stored as the default in a later step.
UpdatePick(u) ==
  /\ upc[u] = "pick"
  /\ upc' = [upc EXCEPT ![u] =
       IF Pick(ureq[u].wallet, config.wallet) = {} THEN "error" ELSE "wallet"]
  /\ UNCHANGED <<pc, req, key, signer, verdict, runOf, ureq, run, mu, budget,
                 flows, database, trades, log>>

UpdateWallet(u) ==
  /\ upc[u] = "wallet"
  /\ config' = [config EXCEPT !.wallet = ureq[u].wallet]
  /\ upc' = [upc EXCEPT ![u] = "done"]
  /\ UNCHANGED <<pc, req, key, signer, verdict, runOf, ureq, run, mu, budget,
                 flows, stored, trades, log>>
----------------------------------------------------------------------------
\* Another process on the same database (the TUI) deletes a wallet.
DeleteWallet(w) ==
  /\ w \in stored
  /\ stored' = stored \ {w}
  /\ UNCHANGED <<pc, req, key, signer, verdict, runOf, updates, run, mu,
                 budget, flows, config, trades, log>>

\* Mutant of Restart: the fresh process starts with what the last one spent.
RestartKeepsSpent ==
  /\ run < MaxRuns
  /\ run' = run + 1
  /\ mu' = None
  /\ flows' = {}
  /\ pc' = [h \in Calls |-> IF pc[h] \in Running THEN "killed" ELSE pc[h]]
  /\ upc' = [u \in Updates |->
               IF upc[u] \in {"idle", "done", "error"} THEN upc[u] ELSE "error"]
  /\ UNCHANGED <<req, key, signer, verdict, runOf, ureq, budget, database,
                 trades, log>>

\* The server process ends, handlers and all, and is started again: the
\* budget, the mutex and the flow cache are those of a fresh process, the
\* database, the log and what was broadcast stay.
Restart ==
  /\ run < MaxRuns
  /\ run' = run + 1
  /\ spent' = 0
  /\ mu' = None
  /\ flows' = {}
  /\ pc' = [h \in Calls |-> IF pc[h] \in Running THEN "killed" ELSE pc[h]]
  /\ upc' = [u \in Updates |->
               IF upc[u] \in {"idle", "done", "error"} THEN upc[u] ELSE "error"]
  /\ UNCHANGED <<req, key, signer, verdict, runOf, ureq, left, remaining,
                 booked, database, trades, log>>
----------------------------------------------------------------------------
Init ==
  /\ pc = [h \in Calls |-> "idle"]
  /\ req = [h \in Calls |-> NoRequest]
  /\ key = [h \in Calls |-> None]
  /\ left = [h \in Calls |-> 0]
  /\ remaining = [h \in Calls |-> 0]
  /\ verdict = [h \in Calls |-> "unchecked"]
  /\ signer = [h \in Calls |-> None]
  /\ runOf = [h \in Calls |-> 1]
  /\ upc = [u \in Updates |-> "idle"]
  /\ ureq = [u \in Updates |-> [chain |-> None, wallet |-> None]]
  /\ run = 1
  /\ mu = None
  /\ spent = 0
  /\ booked = {}
  /\ flows = {}
  /\ config \in [chain : Chains, wallet : {None}]
  /\ stored = Wallets
  /\ trades = {}
  /\ log = {}

\* The next step of the handler of a swap_execute call.
Handler(h) ==
  \/ Resolve(h) \/ CheckCap(h) \/ ReserveLock(h) \/ ReserveBook(h)
  \/ LogBudgetRefusal(h) \/ LogAllowed(h) \/ CheckAllowlist(h) \/ CheckRisk(h)
  \/ UnlockWallet(h) \/ FlowLock(h) \/ FlowDial(h) \/ Execute(h)
  \/ AwaitReceipt(h) \/ LogOutcome(h)

\* The next step of the handler of a set_settings call.
Updater(u) ==
  \/ UpdateStart(u) \/ UpdateChain(u) \/ UpdateSlippage(u) \/ UpdatePick(u)
  \/ UpdateWallet(u)

Next ==
  \/ \E h \in Calls : Arrive(h) \/ Handler(h)
  \/ \E u \in Updates : Updater(u)
  \/ \E w \in Deletable : DeleteWallet(w)
  \/ Restart

Spec == Init /\ [][Next]_vars

\* Every goroutine is scheduled, and every wait inside a handler is bounded:
\* the mutex is released on return, the dial, the risk API and the chain have
\* timeouts.  Nobody has to call the server, restart it or delete a wallet.
FairSpec == Spec /\ \A h \in Calls : WF_vars(Handler(h))
----------------------------------------------------------------------------
\* Types of every variable.
TypeOK ==
  /\ pc \in [Calls -> Running \cup Outcomes \cup {"idle", "killed"}]
  /\ req \in [Calls -> Requests \cup {NoRequest}]
  /\ key \in [Calls -> Chains \cup {None}]
  /\ signer \in [Calls -> Wallets \cup {None}]
  /\ left \in [Calls -> Nat]
  /\ remaining \in [Calls -> Nat]
  /\ verdict \in [Calls -> Verdicts]
  /\ runOf \in [Calls -> Nat]
  /\ upc \in [Updates -> UpdateSteps]
  /\ ureq \in [Updates -> [chain : Chains \cup {None},
                           wallet : Wallets \cup {None}]]
  /\ run \in Nat
  /\ mu \in Calls \cup {None}
  /\ spent \in Nat
  /\ booked \subseteq Calls
  /\ flows \subseteq Chains
  /\ config \in Config
  /\ stored \subseteq Wallets
  /\ trades \subseteq Trades
  /\ log \subseteq [call : Calls, line : Lines]

\* Booked calls of one run hold disjoint slices of the budget: the slice of a
\* call is what it was told remains, up to that plus its own amount.  However
\* many handlers race in reserve, their amounts add up to at most the budget.
BookingsDisjoint ==
  \A h \in booked :
    /\ remaining[h] + req[h].usd <= Budget
    /\ \A g \in booked \ {h} :
         runOf[g] = runOf[h] =>
           \/ remaining[h] + req[h].usd <= remaining[g]
           \/ remaining[g] + req[g].usd <= remaining[h]

\* Nothing is signed that was not booked, for the amount booked, under the
\* per-swap cap: with BookingsDisjoint, what a run signs stays in its budget.
TradesBooked ==
  \A t \in trades :
    /\ t.call \in booked
    /\ t.usd = req[t.call].usd
    /\ t.usd \in 1..MaxUSD

\* The operator's policy holds for the chain actually traded on, whatever
\* set_settings does to the default chain in between: the chain is allowed,
\* and a HIGH-risk token is bought only with --allow-risky or when the risk
\* API could not tell (Unknown is advisory).
TradesWithinPolicy ==
  \A t \in trades :
    /\ ChainAllowed(t.chain)
    /\ <<t.chain, t.token>> \in HighRisk =>
         AllowRisky \/ verdict[t.call] = "UNKNOWN"

\* The log accounts for every trade: it was announced as allowed before it was
\* signed, its call is never also logged as refused, and "ok" is logged only
\* for a call that broadcast something.
LogAccountsForTrades ==
  /\ \A t \in trades :
       /\ [call |-> t.call, line |-> "allowed"] \in log
       /\ \A line \in {"refusedCap", "refusedBudget"} :
            [call |-> t.call, line |-> line] \notin log
  /\ \A e \in log : e.line = "ok" => \E t \in trades : t.call = e.call

\* What some calls ask for together.
Amounts == [h \in Calls |-> req[h].usd]
Usd(calls) == MapThenSumSet(LAMBDA h : Amounts[h], calls)

\* What was signed in a run never adds up to more than the budget.
SignedWithinBudget ==
  \A r \in 1..run :
    Usd({h \in Calls : runOf[h] = r /\ \E t \in trades : t.call = h}) <= Budget

\* An auditor who adds up the "allowed" lines of the present run finds exactly
\* what the server has spent, whenever no handler sits between booking and
\* logging.
AuditExact ==
  (\A h \in Calls : pc[h] # "logAllowed") =>
    spent = Usd({h \in Calls : /\ runOf[h] = run
                               /\ [call |-> h, line |-> "allowed"] \in log})

\* Every call that was refused has a REFUSED line in the log.
RefusalsLogged ==
  \A h \in Calls :
    pc[h] \in {"refusedCap", "refusedBudget", "refusedChain", "refusedRisk"} =>
      \E line \in {"refusedCap", "refusedBudget"} :
        [call |-> h, line |-> line] \in log

\* A handler that started ends: with an answer, or with its process.
EveryCallReturns ==
  \A h \in Calls :
    (pc[h] \in Running) ~> (pc[h] \in Outcomes \cup {"killed"})

\* The server implements the abstract budget: a booked call holds the slice
\* reserve computed for it, and what is open is what spentUSD leaves.
Ledger == INSTANCE SpendingBudget WITH
  Cap <- MaxUSD,
  epoch <- run,
  open <- Budget - spent,
  slice <- [h \in booked |-> [epoch |-> runOf[h], lo |-> remaining[h],
                              hi |-> remaining[h] + req[h].usd]],
  signed <- {t.call : t \in trades}

\* Every step of the server is a step of SpendingBudget, or none of its own.
ImplementsBudget == Ledger!Spec
=============================================================================
