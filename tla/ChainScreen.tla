---------------------------- MODULE ChainScreen ----------------------------
(***************************************************************************)
(* The chain side of the TUI's main screen: the chain it is on, the        *)
(* balances of the current wallet, and the Swap BTC tab, whose tokens come *)
(* from them and whose quotes and swaps run on the chain's flow.  Requests *)
(* and results are messages in flight, delivered in any order; a chain     *)
(* switch or a change of wallet may come in between.                       *)
(***************************************************************************)
EXTENDS Naturals, Bags

CONSTANTS
  Chains, Wallets,
  Tokens,      \* tokens of a chain; a native symbol may be on several chains
  Amounts,     \* USD amounts above zero
  Addresses,   \* Bitcoin addresses that are long enough
  MaxPending,  \* bound: messages in flight when a key is pressed
  None         \* no wallet, no token, text that is not valid

VARIABLES
  services,  \* the services of the chain were dialled at the start
  chain,     \* m.chainKey, and the chain of balSvc and flowSvc
  current,   \* m.current
  cache,     \* m.balanceCache: the chain a wallet's balances came from
  tokens,    \* the tokens panel
  picked,    \* the token highlighted in the Swap BTC tab
  panel,     \* the Swap BTC tab
  estimate,  \* its estimate: none, below the minimum, or fine
  inflight,  \* bag of messages and commands on their way
  late,      \* balances were being fetched when the chain last changed
  crossed,   \* the swap was asked for, or is under way, across such a change
  lost       \* a request found no token or no wallet, and went nowhere

wallets == <<current, cache, tokens, late>>
btc == <<panel, estimate, crossed, lost>>
vars == <<services, chain, current, cache, tokens, picked, panel, estimate,
          inflight, late, crossed, lost>>

Items == [token : Tokens, chain : Chains]

Balances(state, wallet, on) == [state |-> state, wallet |-> wallet, chain |-> on]

\* A quote or swap of an amount of a token to an address.
Order(from, usd, addr) == [from |-> from, usd |-> usd, addr |-> addr]
NoOrder == Order(None, None, None)

Orders == [from : Items \cup {None}, usd : Amounts \cup {None},
           addr : Addresses \cup {None}]
Quotes == [order : Orders, chain : Chains]

ASSUME ChainAssumption ==
  /\ None \notin Chains \cup Wallets \cup Amounts \cup Addresses \cup Items \cup Quotes
  /\ MaxPending \in Nat \ {0}

Message(type, wallet, on, order) ==
  [type |-> type, wallet |-> wallet, chain |-> on, order |-> order]

One(m) == SetToBag({m})
Emit(m) == /\ BagCardinality(inflight) < MaxPending
           /\ inflight' = inflight (+) One(m)
Without(m) == inflight (-) One(m)
Answer(m, n) == inflight' = Without(m) (+) One(n)
Pending(types) == \E m \in BagToSet(inflight) : m.type \in types

\* The list was replaced: its cursor is on some token, or past the end.
Relist(on) == picked' \in [token : Tokens, chain : {on}] \cup {None}

\* balancesCmdForCurrent: cached balances are painted, others fetched.
Show(wallet, balances, on, bag) ==
  IF wallet = None
    THEN inflight' = bag /\ UNCHANGED <<tokens, picked>>
  ELSE IF balances[wallet] # None
    THEN /\ tokens' = Balances("loaded", wallet, balances[wallet])
         /\ Relist(balances[wallet])
         /\ inflight' = bag
    ELSE /\ tokens' = Balances("loading", None, None)
         /\ inflight' = bag (+) One(Message("fetch", wallet, on, NoOrder))
         /\ UNCHANGED picked
----------------------------------------------------------------------------
\* Mutant of ChangeWallet: a fetch under way serves any wallet.
ChangeWalletWaits ==
  /\ BagCardinality(inflight) < MaxPending
  /\ current' \in Wallets \cup {None}
  /\ current' # current
  /\ IF tokens.state = "loading" THEN UNCHANGED <<tokens, picked, inflight>>
                                 ELSE Show(current', cache, chain, inflight)
  /\ UNCHANGED <<services, chain, cache, late, btc>>

\* The wallet list makes another wallet current, or none.
ChangeWallet ==
  /\ BagCardinality(inflight) < MaxPending
  /\ current' \in Wallets \cup {None}
  /\ current' # current
  /\ Show(current', cache, chain, inflight)
  /\ UNCHANGED <<services, chain, cache, late, btc>>

\* r: what is cached is not fetched again.
Reload ==
  /\ BagCardinality(inflight) < MaxPending
  /\ current # None
  /\ Show(current, cache, chain, inflight)
  /\ UNCHANGED <<services, chain, current, cache, late, btc>>

\* The settings tab asks for another chain: its services are dialled, or with
\* none in this session it is only recorded.
ChangeNetwork ==
  /\ \E c \in Chains \ {chain} :
       IF services
         THEN Emit(Message("dial", None, c, NoOrder)) /\ UNCHANGED chain
         ELSE chain' = c /\ UNCHANGED inflight
  /\ UNCHANGED <<services, wallets, picked, btc>>

\* Mutant of OnChainSwitched: the balances of the old chain stay cached.
OnChainSwitchedKeeps(m) ==
  /\ m.type = "dial"
  /\ \/ inflight' = Without(m)
        /\ UNCHANGED <<chain, cache, tokens, picked, late, crossed>>
     \/ /\ chain' = m.chain
        /\ Show(current, cache, m.chain, Without(m))
        /\ late' = Pending({"fetch"})
        /\ crossed' = (crossed \/ panel.state # "form")
        /\ UNCHANGED cache
  /\ UNCHANGED <<services, current, panel, estimate, lost>>

\* onChainSwitched: a failed dial leaves the chain; otherwise its services
\* replace the old ones and nothing is cached.
OnChainSwitched(m) ==
  /\ m.type = "dial"
  /\ \/ inflight' = Without(m)
        /\ UNCHANGED <<chain, cache, tokens, picked, late, crossed>>
     \/ /\ chain' = m.chain
        /\ cache' = [w \in Wallets |-> None]
        /\ Show(current, cache', m.chain, Without(m))
        /\ late' = Pending({"fetch"})
        /\ crossed' = (crossed \/ panel.state # "form")
  /\ UNCHANGED <<services, current, panel, estimate, lost>>

\* FetchAll on the service the command was given: a node that does not answer
\* costs tokens, not an error, so it fails only without a service.
Fetched(m) == IF services THEN m.chain ELSE None

\* onBalancesFetched caches the result under the wallet, and paints it if that
\* is current.
OnBalancesFetched(m) ==
  /\ m.type = "fetch"
  /\ inflight' = Without(m)
  /\ IF Fetched(m) = None
       THEN tokens' = Balances("error", None, None) /\ UNCHANGED <<cache, picked>>
       ELSE /\ cache' = [cache EXCEPT ![m.wallet] = Fetched(m)]
            /\ IF current = m.wallet
                 THEN tokens' = Balances("loaded", m.wallet, Fetched(m)) /\ Relist(Fetched(m))
                 ELSE UNCHANGED <<tokens, picked>>
  /\ UNCHANGED <<services, chain, current, late, btc>>

\* A swap of the other dialog succeeds: onSwapExecResult.
OnSwapped ==
  /\ services /\ current # None
  /\ BagCardinality(inflight) < MaxPending
  /\ cache' = [cache EXCEPT ![current] = None]
  /\ Show(current, cache', chain, inflight)
  /\ UNCHANGED <<services, chain, current, late, btc>>
----------------------------------------------------------------------------
Blank == [state |-> "form", field |-> "token", usd |-> None, addr |-> None,
          from |-> None, quote |-> None]

\* reset keeps what was typed.
Reset == panel' = [panel EXCEPT !.state = "form", !.field = "token", !.quote = None]
         /\ estimate' = "none"

\* The cursor of the token list moves.
PickToken ==
  /\ panel.state = "form" /\ panel.field = "token"
  /\ picked # None
  /\ Relist(picked.chain) /\ picked' # None
  /\ UNCHANGED <<services, chain, wallets, btc, inflight>>

\* Enter on a token.
ChooseToken ==
  /\ panel.state = "form" /\ panel.field = "token"
  /\ picked # None
  /\ panel' = [panel EXCEPT !.field = "amount"]
  /\ UNCHANGED <<services, chain, wallets, picked, estimate, crossed, lost, inflight>>

\* Typing an amount drops the estimate of the old one.
TypeAmount ==
  /\ panel.state = "form" /\ panel.field = "amount"
  /\ \E usd \in Amounts \cup {None} : panel' = [panel EXCEPT !.usd = usd]
  /\ estimate' = "none"
  /\ UNCHANGED <<services, chain, wallets, picked, crossed, lost, inflight>>

\* Enter on the amount: an estimate is asked for, if there is something to ask.
EnterAmount ==
  /\ panel.state = "form" /\ panel.field = "amount"
  /\ IF picked = None \/ panel.usd = None
       THEN panel' = [panel EXCEPT !.field = "addr"] /\ UNCHANGED inflight
       ELSE /\ panel' = [panel EXCEPT !.field = "addr", !.from = picked]
            /\ Emit(Message("estimate", None, None, NoOrder))
  /\ UNCHANGED <<services, chain, wallets, picked, estimate, crossed, lost>>

TypeAddress ==
  /\ panel.state = "form" /\ panel.field = "addr"
  /\ \E addr \in Addresses \cup {None} : panel' = [panel EXCEPT !.addr = addr]
  /\ UNCHANGED <<services, chain, wallets, picked, estimate, crossed, lost, inflight>>

\* requestQuote takes the token that is highlighted by now; without one the
\* panel waits for a quote that nobody was asked for.
RequestQuote(bag) ==
  /\ panel' = [panel EXCEPT !.state = "quoting",
                            !.from = IF picked = None THEN @ ELSE picked]
  /\ inflight' = IF picked = None THEN bag
                 ELSE bag (+) One(Message("quoteRequest", None, None,
                                          Order(picked, panel.usd, panel.addr)))
  /\ lost' = (lost \/ picked = None)

\* Enter on the address.
Submit ==
  /\ panel.state = "form" /\ panel.field = "addr"
  /\ BagCardinality(inflight) < MaxPending
  /\ estimate # "below"
  /\ panel.usd # None /\ panel.addr # None
  /\ RequestQuote(inflight)
  /\ crossed' = (\/ current = None \/ tokens.state # "loaded"
                 \/ late \/ Pending({"fetch", "dial"}))
  /\ UNCHANGED <<services, chain, wallets, picked, estimate>>

\* The countdown of the preview runs out.
Requote ==
  /\ panel.state = "preview"
  /\ RequestQuote(inflight)
  /\ UNCHANGED <<services, chain, wallets, picked, estimate, crossed>>

\* Mutant of Confirm: the swap is of the token highlighted by now.
ConfirmPicked ==
  /\ panel.state = "preview"
  /\ picked # None
  /\ panel' = [panel EXCEPT !.state = "executing"]
  /\ Emit(Message("executeRequest", None, None, Order(picked, panel.usd, panel.addr)))
  /\ UNCHANGED <<services, chain, wallets, picked, estimate, crossed, lost>>

\* Enter on the preview.
Confirm ==
  /\ panel.state = "preview"
  /\ panel' = [panel EXCEPT !.state = "executing"]
  /\ Emit(Message("executeRequest", None, None, Order(panel.from, panel.usd, panel.addr)))
  /\ UNCHANGED <<services, chain, wallets, picked, estimate, crossed, lost>>

\* Esc, n on the preview, any key on a result.  A panel that waits ignores it.
Leave ==
  /\ \/ panel.state \in {"preview", "done"} /\ Reset
     \/ /\ panel.state = "preview"
        /\ panel' = [panel EXCEPT !.state = "form", !.field = "addr"]
        /\ UNCHANGED estimate
     \/ /\ panel.state = "form" /\ panel.field # "token"
        /\ panel' = [panel EXCEPT !.field = "token"]
        /\ UNCHANGED estimate
  /\ UNCHANGED <<services, chain, wallets, picked, crossed, lost, inflight>>
----------------------------------------------------------------------------
\* EstimateThorchain prices one unit and compares the amount with THORchain's
\* minimum, or fails.
Estimated == {"none"} \cup IF services THEN {"below", "fine"} ELSE {}

\* Estimates are shown whatever the panel has moved on to.
OnEstimate(m) ==
  /\ m.type = "estimate"
  /\ inflight' = Without(m)
  /\ \/ current = None /\ UNCHANGED estimate
     \/ estimate' \in Estimated
  /\ UNCHANGED <<services, chain, wallets, picked, panel, crossed, lost>>

\* Mutant of OnRequest: a request is dropped, too, while balances load.
OnRequestLoaded(m) ==
  /\ m.type \in {"quoteRequest", "executeRequest"}
  /\ IF current = None \/ tokens.state = "loading"
       THEN inflight' = Without(m) /\ lost' = (lost \/ current = None)
       ELSE /\ Answer(m, Message(IF m.type = "quoteRequest" THEN "quote" ELSE "execute",
                                 current, chain, m.order))
            /\ UNCHANGED lost
  /\ UNCHANGED <<services, chain, wallets, picked, panel, estimate, crossed>>

\* A request reaches the screen and runs on the wallet and the flow it has by
\* then; with no wallet it is dropped.
OnRequest(m) ==
  /\ m.type \in {"quoteRequest", "executeRequest"}
  /\ IF current = None
       THEN inflight' = Without(m) /\ lost' = TRUE
       ELSE /\ Answer(m, Message(IF m.type = "quoteRequest" THEN "quote" ELSE "execute",
                                 current, chain, m.order))
            /\ UNCHANGED lost
  /\ UNCHANGED <<services, chain, wallets, picked, panel, estimate, crossed>>

\* GetThorchainQuote: the order, priced on the chain of the flow it runs on.
Quoted(m) == [order |-> m.order, chain |-> m.chain]

\* Mutant of OnQuote: the error is shown in the preview.
OnQuoteInPlace(m) ==
  /\ m.type = "quote"
  /\ inflight' = Without(m)
  /\ \/ /\ services
        /\ panel' = [panel EXCEPT !.state = "preview", !.quote = Quoted(m)]
     \/ panel' = [panel EXCEPT !.state = "preview", !.quote = None]
  /\ UNCHANGED <<services, chain, wallets, picked, estimate, crossed, lost>>

\* QuoteResultMsg: the preview, or the form with the error.
OnQuote(m) ==
  /\ m.type = "quote"
  /\ inflight' = Without(m)
  /\ \/ /\ services
        /\ panel' = [panel EXCEPT !.state = "preview", !.quote = Quoted(m)]
     \/ panel' = [panel EXCEPT !.state = "form", !.field = "addr", !.quote = None]
  /\ UNCHANGED <<services, chain, wallets, picked, estimate, crossed, lost>>

\* ExecutionResultMsg: after a success the current wallet's balances are
\* fetched again.
OnExecuted(m) ==
  /\ m.type = "execute"
  /\ panel' = [panel EXCEPT !.state = "done"]
  /\ \/ inflight' = Without(m) /\ UNCHANGED <<cache, tokens, picked>>
     \/ /\ services
        /\ cache' = IF current = None THEN cache ELSE [cache EXCEPT ![current] = None]
        /\ Show(current, cache', chain, Without(m))
  /\ UNCHANGED <<services, chain, current, late, estimate, crossed, lost>>
----------------------------------------------------------------------------
Init ==
  /\ services \in BOOLEAN
  /\ chain \in Chains
  /\ current = None
  /\ cache = [w \in Wallets |-> None]
  /\ tokens = Balances("idle", None, None)
  /\ picked = None
  /\ panel = Blank /\ estimate = "none"
  /\ inflight = EmptyBag
  /\ late = FALSE /\ crossed = FALSE /\ lost = FALSE

Key ==
  \/ ChangeWallet \/ Reload \/ ChangeNetwork \/ OnSwapped
  \/ PickToken \/ ChooseToken \/ TypeAmount \/ EnterAmount \/ TypeAddress
  \/ Submit \/ Requote \/ Confirm \/ Leave

Handle(m) ==
  \/ OnChainSwitched(m) \/ OnBalancesFetched(m) \/ OnEstimate(m)
  \/ OnRequest(m) \/ OnQuote(m) \/ OnExecuted(m)

Next == Key \/ \E m \in BagToSet(inflight) : Handle(m)

Spec == Init /\ [][Next]_vars
----------------------------------------------------------------------------
\* Types of every variable.
TypeOK ==
  /\ {services, late, crossed, lost} \subseteq BOOLEAN
  /\ chain \in Chains /\ current \in Wallets \cup {None}
  /\ cache \in [Wallets -> Chains \cup {None}]
  /\ tokens \in [state : {"idle", "loading", "loaded", "error"},
                 wallet : Wallets \cup {None}, chain : Chains \cup {None}]
  /\ picked \in Items \cup {None}
  /\ panel \in [state : {"form", "quoting", "preview", "executing", "done"},
                field : {"token", "amount", "addr"},
                usd : Amounts \cup {None}, addr : Addresses \cup {None},
                from : Items \cup {None},
                quote : Quotes \cup {None}]
  /\ (panel.state \in {"preview", "executing"} => panel.quote # None)
  /\ estimate \in {"none", "below", "fine"}
  /\ \A m \in BagToSet(inflight) :
       m \in [type : {"fetch", "dial", "estimate", "quoteRequest", "quote",
                      "executeRequest", "execute"},
              wallet : Wallets \cup {None}, chain : Chains \cup {None}, order : Orders]

\* The balances shown are the current wallet's ("only paint the result if the
\* cached fetch still matches the selected wallet") and, unless a fetch was
\* under way when the chain changed, they are from the chain.
PaintedIsOwn ==
  tokens.state = "loaded" /\ current # None =>
    /\ tokens.wallet = current
    /\ ~late => /\ tokens.chain = chain
                /\ \A w \in Wallets : cache[w] \in {chain, None}

\* Balances that are loading for a wallet are being fetched for it, so the
\* panel does not load for ever.
LoadingIsBacked ==
  tokens.state = "loading" /\ current # None =>
    \E m \in BagToSet(inflight) : m.type = "fetch" /\ m.wallet = current

\* A panel that waits takes no key: the request, or the answer it waits for, is
\* on its way, unless the request found no token or no wallet.
WaitIsBacked ==
  ~lost => /\ panel.state = "quoting" => Pending({"quoteRequest", "quote"})
           /\ panel.state = "executing" => Pending({"executeRequest", "execute"})

\* A swap that runs is the one previewed; and if no chain change crossed it, it
\* runs on the chain it was quoted on, in a token of that chain.
ExecutedAsPreviewed ==
  \A m \in BagToSet(inflight) : m.type = "execute" =>
    /\ panel.state = "executing"
    /\ m.order = panel.quote.order
    /\ ~crossed => /\ m.chain = panel.quote.chain
                   /\ m.order.from.chain = m.chain
=============================================================================
