# A formal model of lazyswap

TLA+ modules for the parts of `lazyswap` where order, concurrency and failure
decide whether money is spent as the user meant, TLC configurations that check
small instances, and proofs checked by TLAPS for every instance.

`lazyswap` is one Go binary with three front-ends over the same services: a
terminal UI (bubbletea), a command line, and an MCP server over stdio that lets
an agent quote and, when allowed, execute swaps. Wallets and settings live in
one SQLite database that several processes may have open at once.

## 1. Inventory

| Component | State it keeps | Operations | Hard behaviour |
|---|---|---|---|
| MCP server `internal/mcp` | `spentUSD`, cached flows and balance services, one mutex; the audit log | `swap_execute`, `set_settings`, read-only tools | every call is a goroutine; the budget is memory, the settings are a shared database; a dial happens under the mutex; the client restarts the process at will |
| Swap executor and flow `internal/swap`, `internal/dex` | none of its own: the chain's nonces, allowance, balance | `Flow.Quote`, `Flow.Execute`, `ExecuteFullSwap`, `ApproveToken` | calls of several screens, handlers and processes share one account; answers are lost, contexts end between broadcast and receipt, transactions revert, are replaced or evicted |
| Swap dialog `tui/overlays/swapoverlay`, `mainscreen/update_swap.go` | step, selection, quote, risk report | keys, quote, safety and execution results | every command is a goroutine; its message comes later, in any order, to whatever the dialog shows then |
| Wallet list, main screen `tui/screens/mainscreen`, `tui/panels/wallet` | wallets, current wallet, default wallet, mode, cache of balances | create, import, delete with confirmation, select, refresh | refreshes that arrive between a question and its answer; default wallet in memory and in the database |
| Chain switching and balances `mainscreen/update_panels.go`, `internal/balance` | chain key, services, balance cache | switch chain, fetch balances | fetches and dials that return after the chain or the wallet changed |
| BTC panel and THORchain `tui/panels/swapbtc`, `internal/thorchain`, `swap/flow_thorchain.go` | step, quote with expiry, ticks | estimate, quote, approve, deposit | late estimates, several tick chains, expiring quotes, retired vaults |
| Seed and import overlays | phrase, picks, stage | reveal, backup, confirm, import | a revealed phrase delivered to another wallet's overlay |
| Login and encryption setup `tui/screens/login`, `wallet/unlock.go` | salt and sentinel rows | first setup, unlock, set password | two rows written by processes that may crash or race |
| Wallet store `internal/wallet`, settings `internal/settings` | wallets and config tables | insert, fetch, delete, pick, load, set | rows deleted or changed by another process between two reads |
| Token risk check `internal/safety` | a cache with a time to live | check, score | concurrent misses, failure must not read as a pass |
| Price alerts `internal/api`, `tui/panels/alerts` | account key, watch list | register, add, remove, link | overlapping registrations |
| Self-update `internal/selfupdate` | files beside the binary | check, download, verify, replace | crash between two file operations |
| Command line, application shell, chain tables, explorer client, log, test RPC server | none that outlives a call | | sequential or constant |

How they interact: the three front-ends call `Flow.Execute` with the private
key of a wallet and a context with a deadline (the MCP handler two minutes, the
dialog 120 seconds, the command line two minutes). The MCP server and the TUI
read and write the same wallets and config tables. Inside the TUI a panel or an
overlay emits a message, the main screen turns it into a command, the command
runs in its own goroutine, and its result is a message to the main screen, which
hands it to the overlay.

What makes each correct: the server never signs more than the operator's budget
and policy, and its log tells an auditor what happened; a call of the executor
takes the user's money at most once and reports truthfully; the dialog executes
what the user saw and confirmed, once; the main screen acts on the wallet the
question named; the balances shown belong to the chain and wallet shown; a setup
that is cut short can be taken up again; an update leaves a binary that starts.

`PROJECT.json` lists every component with its files, and under `hazards` the
lines where these behaviours bite.

## 2. Modules

| Module | Models |
|---|---|
| `McpServer` | the handlers of `swap_execute` and `set_settings`, the budget, the mutex, the log |
| `SpendingBudget` | what the budget promises, without locks, logs or handlers |
| `MCMcpServer` | instances of `McpServer` |
| `McpServerProofs` | the theorems about `McpServer` |
| `SwapExecutor` | `Flow.Execute`, `Flow.ExecuteThorchain` and their executors for several calls on one account, with the chain |
| `SwapPromise` | what these calls promise whoever makes them, without steps, nonces, approvals or receipts |
| `MCSwapExecutor` | instances of `SwapExecutor` |
| `SwapOverlay` | the swap dialog and the main screen's handlers that serve it |
| `MCSwapOverlay` | instances of `SwapOverlay` |
| `WalletScreen` | the wallet side of the main screen: the list, its modes, the seed and import overlays |
| `ChainScreen` | its chain side: chain, balances and their cache, the Swap BTC tab |
| `Vault` | `wallets.db` shared by processes: password setup, login, wallets, the commands that use them |
| `SelfUpdate` | `lazyswap update` by several processes, with the releases it downloads |
| `SelfUpdateProofs` | the theorems about `SelfUpdate` |
| `MCWalletScreen`, `MCChainScreen`, `MCVault`, `MCSelfUpdate` | their instances |
| `SwapExecutorProofs`, `SwapOverlayProofs`, `WalletScreenProofs`, `ChainScreenProofs`, `VaultProofs` | the theorems about these five |
| `CollectionFacts` | lemmas about bags of messages, least elements, and sums over finite sets |

How they fit together: `Vault` ends where a process holds the key and has found
its wallets; `WalletScreen` and `ChainScreen` are the screen such a process
shows, split where the code splits it (the wallet handlers and the chain and BTC
handlers share only which wallet is current, which `ChainScreen` lets change at
any time); `SwapOverlay` is the dialog over them; `SwapExecutor` is what a
confirmed swap, or one the `McpServer` lets through, does.

Operators whose comment begins with *Mutant of* are variants of the definition
that follows them, each with one plausible bug. Nothing uses them in the
specification; substituted for the original they show that a property can fail.

### 2.1 McpServer

One process per `swap_execute` call (`pc[h]`) and per `set_settings` call
(`upc[u]`). A handler is cut into a step at each point where something another
handler or process can touch is read or written: `Resolve` (arguments, default
chain from the database), `CheckCap`, `ReserveLock` and `ReserveBook` (the two
halves of `reserve`), `LogBudgetRefusal`, `LogAllowed`, `CheckAllowlist`,
`CheckRisk`, `UnlockWallet` (wallets and default wallet from the database),
`FlowLock` and `FlowDial` (the client cache, the dial with the mutex held),
`Execute`, `AwaitReceipt`, `LogOutcome`. `set_settings` writes chain, slippage
and wallet one after the other and keeps what was written before an error.
`DeleteWallet` is the TUI of another process, `Restart` the client that ends and
starts the server: memory is lost, the database, the log and what was signed
stay.

Abstractions: dollars are whole units (the code's `float64` adds amounts exactly
for these sizes); the slippage value is left out, its write keeps only that it
can fail; the two reads of `unlockWallet` (wallets, then settings) are one step;
decryption and database failures are a free choice of the error exit; of a swap
only the moment it is signed matters here, the rest is `SwapExecutor`.

Properties:

- `BookingsDisjoint`, `SignedWithinBudget`: whatever handlers race in `reserve`,
  what one run of the server books, and so signs, stays within
  `--max-usd-total`.
- `TradesBooked`: what is signed was booked, for that amount, under `--max-usd`.
- `TradesWithinPolicy`: the chain traded on is the chain that was checked, though
  `set_settings` may change the default meanwhile.
- `LogAccountsForTrades`, `AuditExact`: the `allowed` lines of a run add up to
  `spentUSD`, and every trade has one.
- `EveryCallReturns`: no handler hangs, in particular not on the mutex.
- `ImplementsBudget`: the server refines `SpendingBudget`. A booked call holds
  the slice `[remaining, remaining + usd)` of the line `[0, Budget)`; what is
  open is `Budget - spentUSD`.
- `RefusalsLogged` is what README.md promises of the log and the code does not
  do; see section 5.

### 2.2 SwapExecutor

`Swaps` are calls with the key of one wallet. `Price` is `Execute` up to
`ExecuteFullSwap`, and then `FullSwap` its steps: `CheckAllowance`, `Recheck`
(only `ExecuteSwap` reads the allowance again), and for an approval or a swap
alike `Estimate`, `ReadNonce` and `Send` (the steps of `Transact`) and `Wait`
(`WaitMined`). `PriceThorchain` is `ExecuteThorchain` up to `sendThorSwap`; then
`Transfer` is `SwapNativeToBtc`, one transfer to the vault with no estimate that
could refuse it, and `Deposit` is `SwapErc20ToBtc`, which approves whatever the
allowance is and deposits through THORchain's router, or through the DEX's when
THORnode names none. Every step may fail; `Send` may fail after the node took
the transaction; `Wait` may end with the context. `Quit` is the process that
ends.

The chain is external: a pool with one transaction per nonce, `Mine` in nonce
order with an approval that sets the allowance of its router, a swap that pulls
its input, or a revert; `Evict` drops a pending transaction. Two processes may
read the same pending nonce, and a transaction may replace another.

Abstractions: all calls sell one token (or the native one), so that they do meet
in the allowances; amounts are small integers; whether the pool still gives the
minimum output is a free choice at the estimate and at the mining; the node's
view of the account is consistent; what THORchain does with a deposit, a retired
vault included, is not seen.

Properties: `SuccessIsMined` (a success has a receipt of that very call),
`PulledOnce` (a call takes its amount at most once), `FailuresHonest` (only a
failure to send or to wait may leave a swap on its way: after any other a retry
is safe), `ResidueIsUnspent` (once an approval was mined, an allowance that is
left belongs to a call that did not go through), `EveryExecuteReturns`, and
`ImplementsPromise`: the calls refine `SwapPromise`. There a call agrees on an
amount, sends its swap once at most, and answers *ok* only for a swap of its own
that was mined, *refused* only when it sent none and never will, or leaves its
caller *unsure*; the chain mines a pending swap for that amount or for nothing,
or loses it. The mapping hides steps, nonces and approvals: `Answer` is what the
caller of a call in this state has been told (a failure to send or to wait, or
the end of the process, is *unsure*), `SwapState` where the call's own swap is,
whoever replaced it, `paid` and `wallet` what the routers pulled and what is left.

### 2.3 SwapOverlay

Keys act at once; everything else, the dialog's own intents included, is in
`inflight` (or counted in `cancels`) and delivered in any order. `confirmed`
records what was on the screen when the user confirmed. `hasty` records whether
the user ever pressed a key while a quote or a cancel was on its way: some
properties hold only for users who wait, and say so with `~hasty =>`.

`wallet` says whether the main screen has a wallet selected (`m.current`);
`WalletsRefreshed` changes it at any time, as a refresh does that lands while
the dialog is open. Without one `Open` is refused, and `HandleQuoteRequest` and
`HandleExecuteRequest` swallow the request: no command starts and no message
comes back. `dropped` records that this happened to the last swap confirmed.

Abstractions: a token list is a set; the outcome of a quote is a free choice; of
an execution only that its result comes is kept, and the text shown is not; a
quote of an incomplete selection may succeed; which wallet is selected is left
out, only whether one is.

Properties: `ConfirmsBacked`, for any user; `ConfirmedAsQuoted`, whose first half
(no empty preview is confirmed) holds for any user and whose second (what is
confirmed is what was quoted) for one who waits; `NeverSameToken` and
`OneUnderwayUnhurried`, for one who waits; `ExecutingEnds`: a dialog that waits
for a swap stops waiting unless the request was swallowed (`dropped`).

### 2.4 WalletScreen

A key acts at once; what a panel or an overlay emits, and what a command
returns, is a message in `inflight`, taken in any order. `Run...` actions are
commands reading or writing the store, `On...` actions the main screen's
handlers. `mode`, `list`, `cursor`, `current` and `preferred` are fields of the
main screen's model; `seed` is the seed overlay: the wallet it was opened for,
its words, and how far the quiz is.

Four variables are history. `deletion` is what the last delete prompt named and
what was then sent; `proof` how many words were proved for the last phrase
saved. `hasty`, `orphan` and `stale` say that a condition under which a property
cannot hold was met: a delete was asked for while the list was about to change,
an overlay went away with its password check under way, two refreshes
overlapped or one failed.

Abstractions: a phrase stands for its address; a fresh phrase occurs nowhere
else; only this process changes the store (others are in `Vault`); an overlay's
message and the command it starts are one message; the balances that follow the
current wallet are in `ChainScreen`.

Properties: `DeletedWasNamed` (what is deleted is what the prompt named),
`RevealIsOwn` (a reveal shows its own wallet's words), `SavedWasProven` (no
phrase is saved before both words were typed back, and the quiz never runs past
them), `SavingIsUnderway` (an overlay that saves takes no key, so its save or
the result must be on the way), `ListIsStore` (the list ends up as the store).

### 2.5 ChainScreen

The same kind of model for the chain. A balance is nothing but the chain it was
fetched on, so that a cache can be seen to hold another chain's. `Show` is
`balancesCmdForCurrent`, which four handlers and the wallet list call: cached
balances are painted, others fetched. `panel` is the Swap BTC tab; an `Order` is
what it asks a quote or a swap for, and the flow it runs on is the one the main
screen has when the request reaches it.

`late` says that balances were being fetched when the chain changed, `crossed`
that a chain change crossed a swap, `lost` that a request found no token or no
wallet. Each is the exact condition in which a property below fails in the code.

Abstractions: the services were dialled at the start or never; `FetchAll` fails
only without them (an unreachable node costs tokens, see section 5); the
countdown of the preview is one step, `Requote`, that may happen at any time;
an estimate's request and result are one message; a swap of the other dialog and
the wallet list are actions without a state of their own.

Properties: `PaintedIsOwn` (balances shown are the current wallet's and the
current chain's), `LoadingIsBacked` and `WaitIsBacked` (whoever waits is waiting
for something that is on its way), `ExecutedAsPreviewed` (a BTC swap is of the
token, amount, address and chain of the preview the user confirmed).

### 2.6 Vault

A key is a password with its salt; decrypting with another key fails. A process
is `off`, sets the password (`Start`, `EnterPassword`, `ConfirmPassword`,
`InitSalt`, `InitSentinel`), logs in, changes wallets as the TUI does, or runs a
command: `Command` (flags and settings), `Unlock`, `PickWallet`, then
`QuoteSwap` and `ConfirmSwap`, `Reveal`, or `CreateFile` and `WriteFile`. A login
and an unlock read the salt and the sentinel in one step, which differs from the
code's two reads only while another process sets the password (`raced`); every
other access to the database is a step of its own. Each step may fail, and
`Crash` ends a process at any of them; a refusal is such an end.

Abstractions: `known` is what the list of another process may still show of
wallets that have gone; flags are chosen where the code reads them; there is one
path that exports write to; a second password setup while one is under way sets
`raced`.

Properties: `RowsReadable` (one password decrypts every wallet, whatever was cut
short, unless two processes set it at once), `ActsAsTold` (a command acts on the
wallet it was told or on the default it found, never on another, and an export
that reports success is whole), `KeystoresKept` (no keystore file is
overwritten).

### 2.7 SelfUpdate

The project publishes releases and uploads their assets one at a time, in any
order, also again. An updater runs `Resolve`, `Probe`/`Unprobe`
(`checkWritable`), `OpenDownload`, `Download`, `FetchChecksum`, `Verify`,
`Extract`, `WriteStaged`, `Rename`, and the deferred `Clean`; `Kill` stops it
anywhere; `Chmod` takes the permission to write away. A tarball is its release
and what is inside, a checksum the tarball it belongs to. `Written` is what
`writeExecutable` makes of the binary inside: one above `maxBinaryBytes` is cut
there without an error, and the part is renamed into place.

Abstractions: `--check` and the comparison of versions are choices in `Resolve`;
the locals of a process that ended are cleared; file names never collide, as
`CreateTemp` sees to.

Properties: `BinaryIsWhole` (the path holds the first binary or a whole one whose
checksum was published, unless the release it is of published one above
`maxBinaryBytes`: `Outgrown`, see section 5), `EndsClean` (an update that ended left no
file it could remove, and replaced the binary exactly if it says so).

## 3. Runs

| Run | Bounds | Why they are enough |
|---|---|---|
| `mcp_budget` | 3 calls, amounts 0, 1, 2 against a cap of 1 and a budget of 2, 2 runs of the server | the third call finds the budget spent whatever the first two do; a handler of either run can race a restart |
| `mcp_policy` | 2 calls, 1 `set_settings`, 2 chains of which 1 is allowed, 2 wallets of which 1 may be deleted, a checked and an unchecked token | the default chain changes from allowed to not between any two steps of a call |
| `mcp_refusals` | 2 calls, 2 chains | finds a counterexample |
| `executor_swaps` | 2 calls of any of 6 kinds, amounts up to 2, 3 units held; 0.9 million states | two approvals and two swaps in every order, same and different nonces, one router or two, a wallet that can pay for one of two large swaps only |
| `executor_reverts` | the same | finds a counterexample: a buy on the DEX |
| `overlay_dialog` | 2 tokens, 1 amount, 2 quotes, 2 openings, 1 cancel on its way; 1.5 million states | every message of one opening can meet every step of the next, and a wallet refresh any of them; two quotes can differ in their tokens, and an amount not typed yet from the one that was; the theorems of section 4 hold for any amounts |
| `overlay_twice`, `overlay_verdict` | 2 or 3 tokens, the rest the same | find counterexamples |
| `wallet_screen` | 2 phrases, 2 rows ever inserted, 2 messages on their way when a key is pressed; 2.6 million states | a delete, an import or a save races a refresh; the wallet shown, the one named and the one preferred can all differ; a late reveal meets every step of the next overlay |
| `chain_screen` | 2 chains, 2 wallets, 1 token on each chain, 2 amounts, 1 address, 2 messages when a key is pressed; 0.6 million states | a fetch, a quote or a swap of one chain or wallet meets a switch to the other and back; a second token would differ from the first only as the other chain's does |
| `vault_store` | 2 processes, each again and again, 2 passwords, 2 wallets, 2 salts; 1.4 million states | a setup that was cut short is taken up again with another password; the default is deleted while a command picks, with one wallet left to settle for |
| `self_update` | 2 updaters, 2 releases, 4 uploads; 2.8 million states | both assets of one release are replaced while two updates download them |

A handler may add messages to the two that were there when a key was pressed, so
more than two can be on their way.

Deadlock is checked in `vault_store`, where a process can always start again.
Elsewhere it is not: calls end, a dialog may stay closed, the program may have
ended, and the bounds on restarts, openings, quotes, rows and uploads stop the
rest.

Symmetry over calls, processes, passwords, wallets, phrases, updaters, or the
values that are only compared for equality, is used where invariants and action
properties are checked and no liveness; no action or property names one of them.

Fairness. `McpServer`: weak fairness of each handler, as goroutines are
scheduled, the mutex is released by every path, and dial, risk API and receipt
have timeouts; arrivals, restarts, deletions and `set_settings` need not happen.
`SwapExecutor`: weak fairness of each call's own steps, whose waits end with the
context; the chain owes nothing. `SwapOverlay`: weak fairness of the delivery of
messages; the user owes nothing, and no refresh of the wallets need land. As openings and quotes are bounded so are the
messages, and a delivery that goes on happening delivers each. The other modules
state no fairness: what could hang in them (a panel or an overlay that takes no
key) is stated as an invariant, that the message it waits for is on its way.

## 4. Proofs

`McpServerProofs` proves for any number of calls, any amounts, cap, budget,
chains, tokens and wallets that satisfy `OptionsAssumption` (what `Run` refuses
to start without, and that the constants are of the sorts they stand for):

| Theorem | States |
|---|---|
| `Invariance` | `Spec => []IInv`, the inductive invariant |
| `TypeCorrect` | `Spec => []TypeOK` |
| `BookingsSafe` | `Spec => []BookingsDisjoint` |
| `TradesSafe` | `Spec => []TradesBooked` |
| `PolicySafe` | `Spec => []TradesWithinPolicy` |
| `AuditSafe` | `Spec => []LogAccountsForTrades` |
| `Accounts` | `Spec => [](Summed /\ Entered)`, see below |
| `BudgetKept` | `Spec => []SignedWithinBudget` |
| `AuditAddsUp` | `Spec => []AuditExact` |
| `BudgetRefinement` | `Spec => ImplementsBudget` |

None of the properties is inductive alone. `TypeOK` needs that a call between
`ReserveLock` and `ReserveBook` holds the mutex and that its `left` is still
`Budget - spentUSD`, or `Budget - spentUSD` could go below zero. Disjointness
needs that the slices booked in the present run lie above `Budget - spentUSD`,
so that the next one lies below them all, and that no call is of a later run.
`TradesBooked` needs that a call past `CheckCap` carries an amount in
`1..MaxUSD` and one past `ReserveBook` is booked; `TradesWithinPolicy` that what
`CheckAllowlist` and `CheckRisk` saw stays true of the call until it signs, its
chain and its arguments being fixed since `Resolve`. A restart moves every
running handler to `killed`, which is why a slice of an old run is never signed
in a new one. `AuditSafe` needs `Logged`, what the log and
the trades hold of a call at each step: an `allowed` line from `CheckAllowlist`
on, a line of a refusal only if it ended so, a trade from `AwaitReceipt` on.
`BudgetRefinement` maps each step of the server to a step of `SpendingBudget` or
to none, from the same invariant.

The two properties that add amounts up need two more facts, inductive given
`IInv` (`Accounts`): `Summed`, that `spentUSD` is the sum of what the calls of
this run booked, and `Entered`, that a booked call has its `allowed` line unless
it is just about to write it. What is signed in a run is part of what it booked,
so it adds up to no more than `spentUSD` (`BudgetKept`); with nobody about to
write, booked and logged are the same calls (`AuditAddsUp`). That a sum over a
finite set grows by what is added to the set, and is no less than that over a
part of it, is proved in `CollectionFacts` from the definition of
`MapThenSumSet`: the library's induction over finite sets takes a predicate,
which the prover cannot instantiate, so each induction there looks for a
counterexample of the least cardinality and finds a smaller one.

`SelfUpdateProofs` proves for any number of updates, releases and uploads
(`SelfUpdateAssumption`: the two bounds are numbers):

| Theorem | States |
|---|---|
| `Invariance` | `Spec => []IInv`, the inductive invariant |
| `TypeCorrect` | `Spec => []TypeOK` |
| `BinarySafe` | `Spec => []BinaryIsWhole` |
| `EndsTidily` | `Spec => []EndsClean` |

`BinaryIsWhole` says nothing of an update before its rename, so it needs `Sound`:
at `verify` the checksum in hand was published for the release resolved, from
`extract` on the tarball is the one it belongs to, and what is renamed is whole
(`Whole`) unless a tarball of its release is `Outgrown`. That rests on `Backed`, which says the same of the assets of each release, and
on `vouched` never shrinking, as an asset may be replaced between the download
and the checksum. `EndsClean` needs `Tidy`, which files an update may have at
each step. Every action changes one update only, so `OneStep` reduces each to
that update.

`SwapExecutorProofs` proves for any number of calls and any amounts
(`AmountsAssumption`: the largest amount is a positive number, what the wallet
holds is a number):

| Theorem | States |
|---|---|
| `Invariance` | `Spec => []IInv`, the inductive invariant |
| `TypesHold` | `Spec => []TypeOK` |
| `SuccessIsMinedHolds` | `Spec => []SuccessIsMined` |
| `PulledOnceHolds` | `Spec => []PulledOnce` |
| `FailuresHonestHolds` | `Spec => []FailuresHonest` |
| `ResidueIsUnspentHolds` | `Spec => []ResidueIsUnspent` |
| `PromiseRefinement` | `Spec => ImplementsPromise` |

What a call took is the sum of its swaps that were mined, so `PulledOnce` needs
that it has one transaction of each sort at most, pending and mined together
(`Owned`). That holds since a call sends a transaction at one step only and has
none of that sort while it still prepares it (`Staged`), and since a mined nonce
is not taken again (`Ordered`): an answer that is lost never leads back to a
step that sends. `Staged` also gives `FailuresHonest`. `ResidueIsUnspent`
needs how much is left (`Residue`): of the calls whose approval of a router was
mined one has not swapped, and the router may pull no more than that call's
amount, or the router may pull nothing; a swap mined out of turn thus spends
what is left and does not find more. `TypeOK` needs that `ReadNonce` always finds
a nonce, the least that is free: `pool` is finite, which is part of `Ordered`.

`PromiseRefinement` has one lemma for each sort of step. The one that is not a
matter of looking up what changed is `Displacing`: a transaction that the node
takes, an approval too, puts out the swap of one other call at most, as no two
pending ones have a nonce in common, and never the sender's own. Mining pays the
amount agreed on since a transaction carries its owner's amount (`Owned`) and
nothing was pulled for that call before (`NothingPulledYet`); *ok* follows a
receipt of the call's own swap, and a refusal comes from a step at which none was
sent (`SwapStateIs`).

`VaultProofs` proves for any number of processes, passwords and wallets
(`VaultAssumption`: a salt exists, and `None` is no value of another sort):

| Theorem | States |
|---|---|
| `Invariance` | `Spec => []IInv`, the inductive invariant |
| `TypesHold` | `Spec => []TypeOK` |
| `RowsReadableHolds` | `Spec => []RowsReadable` |
| `ActsAsToldHolds` | `Spec => []ActsAsTold` |
| `KeystoresKeptHolds` | `Spec => KeystoresKept`, an action property |

`Settled`, which says nothing once two processes have set the password at once
(`raced`), is what makes `RowsReadable` inductive: who sets the password works
on a store without a sentinel, and who is in holds the key the sentinel is
under, so that what it writes can be read with the others. `Resolved` carries
the wallet of a command from the flag or the default it loaded to the act.
`Exported` says that one process at most writes the file, and what the file is
at that step and after it; `KeystoresKept` follows, as `CreateFile` refuses a
file that is there.

`SwapOverlayProofs` proves for any tokens and amounts and any bounds on quotes,
openings and cancels (`OverlayAssumption`):

| Theorem | States |
|---|---|
| `Invariance` | `Spec => []IInv`, the inductive invariant |
| `TypesHold` | `Spec => []TypeOK` |
| `ConfirmsBackedHolds` | `Spec => []ConfirmsBacked` |
| `ConfirmedAsQuotedHolds` | `Spec => []ConfirmedAsQuoted` |
| `NeverSameTokenHolds` | `Spec => []NeverSameToken` |
| `OneUnderwayHolds` | `Spec => []OneUnderwayUnhurried` |

`ConfirmsBacked` counts, and is inductive once a preview that can be confirmed
is counted too (`Backed`): a quote asked for is on its way, on the preview, or
spent. That part holds for any user, and so does that no empty preview is
confirmed. The rest of the last three holds for one who waits, and rests on
`Unhurried`: what is on its way, and what is on the preview, is of the
selection that stands, whose tokens differ, and no swap of this dialog is under
way unless the dialog says so. A request that is swallowed only takes a message
away (`DropStep`), which neither part minds.

`ChainScreenProofs` proves for any chains, tokens, wallets and messages in
flight (`ChainAssumption`):

| Theorem | States |
|---|---|
| `Invariance` | `Spec => []IInv`, the inductive invariant |
| `TypesHold` | `Spec => []TypeOK` |
| `PaintedIsOwnHolds` | `Spec => []PaintedIsOwn` |
| `LoadingIsBackedHolds` | `Spec => []LoadingIsBacked` |
| `WaitIsBackedHolds` | `Spec => []WaitIsBacked` |
| `ExecutedAsPreviewedHolds` | `Spec => []ExecutedAsPreviewed` |

`Awaited` says that one order at most is on its way, once, and that it is the
panel's: the panel takes no key while it waits. `Fresh` says, until `late`, that
everything fetched, cached, shown or picked is of the chain; without the picked
token it would not carry over to the panel, which copies it. `Uncrossed` says
the same of what a quote and a swap are made of, until `crossed`.

`WalletScreenProofs` proves for any phrases, rows and messages in flight
(`ScreenAssumption`):

| Theorem | States |
|---|---|
| `Invariance` | `Spec => []IInv`, the inductive invariant |
| `TypesHold` | `Spec => []TypeOK` |
| `DeletedWasNamedHolds` | `Spec => []DeletedWasNamed` |
| `RevealIsOwnHolds` | `Spec => []RevealIsOwn` |
| `SavedWasProvenHolds` | `Spec => []SavedWasProven` |
| `SavingIsUnderwayHolds` | `Spec => []SavingIsUnderway` |
| `ListIsStoreHolds` | `Spec => []ListIsStore` |

`Prompted`: a prompt that was opened while nothing was about to change the list
names the current wallet as long as it is up. `Checked`: until `orphan`, the one
password check under way is the open overlay's. `Quizzed`: how many words are
proved at each step, and in each phrase on its way to the store. `Listed`: until
`stale`, there is one refresh at most, and a change of the store is followed by
it. `Numbered` bounds the list, whose rows have ids of their own as the primary
keys they are; this has to be said of the initial store too, or the cursor of a
long list leaves its type.

The messages of `ChainScreen` and `WalletScreen` are bags, so their proofs rest
on lemmas of `CollectionFacts`: what `(+)` and `(-)` of one message do to the
set of messages and to the count of each. Each action then has a lemma on what
it does to the messages, and one step per part of the invariant.

The assumptions on constants ask two things only: bounds are numbers, and
`None` differs from every value that may stand in its place, as `nil`, the
empty string or an absent row do. The flags named in a property (`raced`,
`hasty`, `orphan`, `stale`, `late`, `crossed`, `lost`, `dropped`) are variables of
the model, set by the event they name, and not assumptions; `late`, `stale` and
`crossed` are taken back by the next switch, refresh or submitted order that
meets nothing on its way, `dropped` by the next confirmation. Each invariant above was an invariant of a TLC run
before it was proved.

Every safety property of every passing run, the action property and both
refinements included, is a theorem. Only model-checked is liveness
(`EveryCallReturns`, `EveryExecuteReturns`, `ExecutingEnds`): fairness is about
ENABLED, which the prover does not reason about. `LoadingIsBacked`,
`WaitIsBacked` and `SavingIsUnderway`, which say that what is waited for is on
its way, are proved.

## 5. Where the code and its own words differ

- `mcp_refusals`: README.md says every attempt, refused ones included, is in the
  log. A call refused for its chain or its risk has an `allowed` line and no
  other (`tools.go:300-309`), and its amount stays booked.
- `executor_reverts`: no receipt's status is read (`executor.go:107, 161, 219,
  277`); a reverted swap on the DEX is a success to every front-end.
  `SuccessIsFilled` is about those swaps, as the words it quotes are the DEX
  dialog's. THORchain's executor does not read the status either
  (`thorchain/executor.go:122`), and in the model its calls too end *ok* when
  their transfer or deposit reverted.
- `overlay_twice`: a second Enter at the amount asks for a second quote; when
  that comes after the confirmation of the first, the preview is back and `y`
  executes again (`swap.go:146`).
- `overlay_verdict`: the report of an earlier destination is shown for the
  present one (`swap.go:149`).

Two more consequences of messages without an identity are in the model without a
run of their own. For a hasty user `NeverSameToken` fails: ESC back to the first
list while a quote is on its way, choose the other token, and the late preview
executes a token against itself. And a risk report delivered before its quote,
as a cached one is, is wiped by the quote (`swap.go:144`), after which the
preview says *checking* for good: `riskPending` with no `safetyResult` in
`inflight` is reachable.

The other modules hold what the code does, and their properties the condition
under which it keeps its word. Outside those conditions:

- `SwapOverlay`, `dropped`: after the last wallet is gone a confirmed swap is
  swallowed (`update_swap.go:61`) and the dialog says it executes until ESC and
  another opening. A quote asked for then never comes either, and the dialog
  stays at the amount.
- `WalletScreen`, `preferred`: `main.go:101-103` says that the wallet list
  updates `defaultWallet` when the user switches. `onWalletSelected` stores the
  address in the settings and leaves the field, so the next refresh of the list
  goes back to the default the program started with, if it had one.
- `WalletScreen`, `hasty`: a refresh that lands while the delete prompt is up
  changes `m.current`, which is what `y` deletes; the prompt then names that
  wallet, which the user may not have read.
- `WalletScreen`, `orphan`: the result of a password check goes to whatever seed
  overlay is open. One opened for another wallet shows the words of the first;
  one that has finished a quiz is put back to its words, and a third answer
  indexes `picks` past its end (`seed.go:200`).
- `ChainScreen`, `late`: a fetch started before a chain switch fills the cache
  after it with the old chain's balances; `r` does not fetch again what is
  cached. The same holds for the zero balance that `FetchAll` returns when the
  node does not answer (`balance.go:86`).
- `ChainScreen`, `lost`: a request without a token or a wallet is dropped, and
  the panel waits for good, as it ignores keys while it waits
  (`update.go:173`, `update_panels.go:22`).
- The preview of the Swap BTC tab says `y/enter: execute` (`view.go:143`), but
  `y` is taken earlier as the key that copies the address (`update_keys.go:38`);
  only Enter is in the model.
- `Vault`, `raced`: two first setups at once leave a salt and a sentinel of
  different keys, or wallets that the stored password does not open.
- `Vault`: `reveal` and `export` ignore an error of the settings
  (`wallets.go:108`) and then pick as if there were no default.
- `SelfUpdate`, `Outgrown`: `LimitReader` cuts a binary above `maxBinaryBytes`
  without an error (`install.go:211`), and the cut file is installed, although
  the comment at `install.go:67-69` says "never a partial file".

## 6. Not modelled, and the plan

Done: `McpServer`, which implements `SpendingBudget`, `SwapExecutor` with the
THORchain calls, which implements `SwapPromise`, `SwapOverlay`, `WalletScreen`,
`ChainScreen`, `Vault`, `SelfUpdate`; the type invariant and every safety
property of each is proved.

What would come next, most important first:

1. The wallet list as a store and its view, refined by `WalletScreen` until
   `stale`.
2. `Settled` says what two first setups need in order not to race; an order of
   the two rows that does not need `raced` could be checked against it.
3. The hazards in `PROJECT.json` that no property covers, each with its reason
   there; those of the swap dialog need messages with an identity in the code
   before there is something to hold.

Not modelled, and why:

- Price alerts: a list in a remote service, one HTTP call per key, read by
  nothing else.
- The cache and the scoring of the risk check: a lock around a map and a table
  of weights; the modules take any verdict at any time instead.
- How `FetchAll` discovers and prices tokens, `Flow.Quote`, the explorer client:
  queries that change no state but the result they return.
- Conversion of amounts (`ParseUnits`, `FormatUnits`, minimum output): arithmetic
  on decimal strings and floats.
- Focus, tabs, clipboard, layout and text.
- Cryptography and key derivation, SQL, HTTP and JSON, the tables of chains and
  tokens, the fake node of the tests.
