------------------------- MODULE ChainScreenProofs -------------------------
(***************************************************************************)
(* Theorems about ChainScreen, for any chains, tokens, wallets and bound   *)
(* on the messages in flight.                                              *)
(*                                                                         *)
(* The invariant has four parts.  Awaited: the panel and the one order on  *)
(* its way belong together.  Painted: whose balances the tokens panel      *)
(* shows, or waits for.  Fresh: unless a fetch was overtaken by a chain    *)
(* switch, everything fetched or cached is from the chain.  Uncrossed: so  *)
(* is everything a swap is made of, unless a chain switch crossed it.      *)
(***************************************************************************)
EXTENDS ChainScreen, CollectionFacts

\* The messages of a quote or a swap, and the fetches.
Asks == {m \in BagToSet(inflight) :
           m.type \in {"quoteRequest", "quote", "executeRequest", "execute"}}
Fetches == {m \in BagToSet(inflight) : m.type = "fetch"}

\* What the panel asks about.
Asked == Order(panel.from, panel.usd, panel.addr)

Awaited ==
  /\ \A m \in Asks : inflight[m] = 1
  /\ \A m, n \in Asks : m = n
  /\ \A m \in Asks : m.order = Asked /\ m.order.from # None
  /\ \A m \in Asks :
       panel.state = IF m.type \in {"quoteRequest", "quote"} THEN "quoting" ELSE "executing"
  /\ \A m \in Asks : m.type \in {"quote", "execute"} => m.chain # None
  /\ panel.state \in {"preview", "executing"} =>
       services /\ panel.quote.order = Asked /\ panel.from # None
  /\ WaitIsBacked

Painted ==
  /\ \A m \in Fetches : m.wallet # None /\ m.chain # None
  /\ \A m \in BagToSet(inflight) : m.type = "dial" => m.chain # None /\ services
  /\ tokens.state = "loaded" /\ current # None => tokens.wallet = current
  /\ LoadingIsBacked

Fresh ==
  /\ tokens.state = "loaded" => services
  /\ \A w \in Wallets : cache[w] # None => services
  /\ services /\ ~late =>
       /\ \A m \in Fetches : m.chain = chain
       /\ \A w \in Wallets : cache[w] \in {chain, None}
       /\ tokens.state = "loaded" /\ current # None =>
            tokens.chain = chain /\ (picked = None \/ picked.chain = chain)

Uncrossed ==
  panel.state # "form" /\ ~crossed /\ services =>
    /\ ~late
    /\ picked = None \/ picked.chain = chain
    /\ \A m \in Asks : m.order.from.chain = chain
    /\ \A m \in Asks : m.type \in {"quote", "execute"} => m.chain = chain
    /\ panel.state \in {"preview", "executing"} =>
         panel.quote.chain = chain /\ panel.quote.order.from.chain = chain

IInv ==
  /\ TypeOK
  /\ IsABag(inflight)
  /\ Awaited
  /\ Painted
  /\ Fresh
  /\ Uncrossed
----------------------------------------------------------------------------
Messages == [type : {"fetch", "dial", "estimate", "quoteRequest", "quote",
                     "executeRequest", "execute"},
             wallet : Wallets \cup {None}, chain : Chains \cup {None}, order : Orders]

Panels == [state : {"form", "quoting", "preview", "executing", "done"},
           field : {"token", "amount", "addr"},
           usd : Amounts \cup {None}, addr : Addresses \cup {None},
           from : Items \cup {None}, quote : Quotes \cup {None}]

\* A message that is built from values of their types is a message.
LEMMA MessageType ==
  ASSUME NEW type \in {"fetch", "dial", "estimate", "quoteRequest", "quote",
                       "executeRequest", "execute"},
         NEW wallet \in Wallets \cup {None}, NEW on \in Chains \cup {None},
         NEW order \in Orders
  PROVE  LET m == Message(type, wallet, on, order)
         IN  /\ m \in Messages /\ m.type = type /\ m.wallet = wallet
             /\ m.chain = on /\ m.order = order
BY DEF Message, Messages

\* So is an order.
LEMMA OrderType ==
  ASSUME NEW from \in Items \cup {None}, NEW usd \in Amounts \cup {None},
         NEW addr \in Addresses \cup {None}
  PROVE  /\ Order(from, usd, addr) \in Orders /\ Order(from, usd, addr).from = from
         /\ NoOrder \in Orders
BY DEF Order, NoOrder, Orders

\* The initial states satisfy the invariant.
LEMMA Initially == Init => IInv
<1> SUFFICES ASSUME Init PROVE IInv
  OBVIOUS
<1>1. BagToSet(inflight) = {} /\ IsABag(inflight)
  BY BagNone DEF Init
<1>2. TypeOK
  <2>1. panel \in Panels
    BY DEF Init, Blank, Panels
  <2>2. tokens \in [state : {"idle", "loading", "loaded", "error"},
                    wallet : Wallets \cup {None}, chain : Chains \cup {None}]
    BY DEF Init, Balances
  <2>3. panel.state = "form" /\ {services, late, crossed, lost} \subseteq BOOLEAN
    BY DEF Init, Blank
  <2>4. cache \in [Wallets -> Chains \cup {None}]
    BY DEF Init
  <2>5. QED
    BY <1>1, <2>1, <2>2, <2>3, <2>4 DEF Init, TypeOK, Panels
<1>3. Asks = {} /\ Fetches = {} /\ panel.state = "form" /\ tokens.state = "idle"
  BY <1>1 DEF Init, Asks, Fetches, Blank, Balances
<1>4. Awaited
  BY <1>3 DEF Awaited, WaitIsBacked
<1>5. Painted
  BY <1>1, <1>3 DEF Painted, LoadingIsBacked
<1>6. Fresh
  BY <1>3 DEF Init, Fresh
<1>7. Uncrossed
  BY <1>3 DEF Uncrossed
<1>8. QED
  BY <1>1, <1>2, <1>4, <1>5, <1>6, <1>7 DEF IInv
----------------------------------------------------------------------------
\* A message is put on its way, and the others stay.
LEMMA PutOne ==
  ASSUME IsABag(inflight), NEW n, inflight' = inflight (+) One(n)
  PROVE  /\ IsABag(inflight')
         /\ BagToSet(inflight') = BagToSet(inflight) \cup {n}
         /\ \A e \in BagToSet(inflight) \ {n} : inflight'[e] = inflight[e]
         /\ n \notin BagToSet(inflight) => inflight'[n] = 1
BY BagAdd DEF One

\* A message is taken, and the others stay.
LEMMA TakeOne ==
  ASSUME IsABag(inflight), NEW m \in BagToSet(inflight)
  PROVE  /\ IsABag(Without(m))
         /\ BagToSet(inflight) \ {m} \subseteq BagToSet(Without(m))
         /\ BagToSet(Without(m)) \subseteq BagToSet(inflight)
         /\ inflight[m] = 1 => m \notin BagToSet(Without(m))
         /\ \A e \in BagToSet(inflight) \ {m} : Without(m)[e] = inflight[e]
BY BagRemove DEF Without, One

\* What the panel waits for is kept when neither it nor its order is touched.
LEMMA AwaitedKept ==
  ASSUME Awaited, Asks' = Asks, \A m \in Asks : inflight'[m] = inflight[m],
         UNCHANGED <<panel, lost, services>>
  PROVE  Awaited'
<1>1. /\ Pending({"quoteRequest", "quote"})' <=> Pending({"quoteRequest", "quote"})
      /\ Pending({"executeRequest", "execute"})' <=> Pending({"executeRequest", "execute"})
  BY DEF Pending, Asks
<1>2. WaitIsBacked'
  BY <1>1 DEF Awaited, WaitIsBacked
<1>3. QED
  BY <1>2 DEF Awaited, Asked

\* What is painted is kept when no fetch or dial is touched.
LEMMA PaintedKept ==
  ASSUME Painted, Fresh, Fetches' = Fetches,
         \A m \in BagToSet(inflight') : m.type = "dial" => m \in BagToSet(inflight),
         UNCHANGED <<tokens, current, cache, chain, late, services>>,
         services /\ ~late /\ tokens.state = "loaded" /\ current # None =>
           picked' \in {picked, None} \/ picked'.chain = chain
  PROVE  Painted' /\ Fresh'
<1>1. LoadingIsBacked <=> (tokens.state = "loading" /\ current # None =>
                             \E m \in Fetches : m.wallet = current)
  BY DEF LoadingIsBacked, Fetches
<1>2. LoadingIsBacked' <=> (tokens'.state = "loading" /\ current' # None =>
                             \E m \in Fetches' : m.wallet = current')
  BY DEF LoadingIsBacked, Fetches
<1>3. QED
  BY <1>1, <1>2 DEF Painted, Fresh

\* What a swap is made of is kept when neither it nor the chain is touched.
LEMMA UncrossedKept ==
  ASSUME Uncrossed, Asks' = Asks, UNCHANGED <<panel, crossed, services, chain, late>>,
         services /\ ~late => picked' \in {picked, None} \/ picked'.chain = chain
  PROVE  Uncrossed'
BY DEF Uncrossed

TokensPanels == [state : {"idle", "loading", "loaded", "error"},
                 wallet : Wallets \cup {None}, chain : Chains \cup {None}]

\* Whatever the wallet, the chain and the cache are by then, showing them keeps
\* what is painted right and fresh, touches no order, and lists tokens of the
\* chain the balances are from.
LEMMA ShowStep ==
  ASSUME TypeOK, Painted, Fresh, NEW bag, IsABag(bag),
         BagToSet(bag) \subseteq BagToSet(inflight),
         services' = services, chain' \in Chains, current' \in Wallets \cup {None},
         cache' \in [Wallets -> Chains \cup {None}],
         \A w \in Wallets : cache'[w] # None => services,
         services /\ ~late' =>
           /\ \A w \in Wallets : cache'[w] \in {chain', None}
           /\ \A m \in BagToSet(bag) : m.type = "fetch" => m.chain = chain',
         Show(current', cache', chain', bag)
  PROVE  /\ Painted' /\ Fresh' /\ IsABag(inflight')
         /\ tokens' \in TokensPanels /\ picked' \in Items \cup {None}
         /\ \A m \in BagToSet(inflight') : m \in Messages
         /\ \A m : m.type # "fetch" => (m \in BagToSet(inflight') <=> m \in BagToSet(bag))
         /\ \A m \in BagToSet(bag) : m.type # "fetch" => inflight'[m] = bag[m]
         /\ picked' \in {picked, None} \/
              (current' \in Wallets /\ cache'[current'] # None
                /\ picked'.chain = cache'[current'])
<1> DEFINE n == Message("fetch", current', chain', NoOrder)
<1>1. n \in Messages /\ n.type = "fetch" /\ n.wallet = current' /\ n.chain = chain'
  BY DEF Message, Messages, NoOrder, Order, Orders
<1> HIDE DEF n
<1>2. /\ IsABag(inflight') /\ BagToSet(bag) \subseteq BagToSet(inflight')
      /\ BagToSet(inflight') \subseteq BagToSet(bag) \cup {n}
      /\ \A e \in BagToSet(bag) \ {n} : inflight'[e] = bag[e]
      /\ current' = None => UNCHANGED <<tokens, picked>> /\ inflight' = bag
      /\ current' # None =>
           \/ /\ cache'[current'] # None
              /\ tokens' = Balances("loaded", current', cache'[current'])
              /\ Relist(cache'[current'])
           \/ /\ tokens' = Balances("loading", None, None)
              /\ picked' = picked /\ n \in BagToSet(inflight')
  <2>1. CASE current' = None \/ cache'[current'] # None
    BY <2>1 DEF Show
  <2>2. CASE current' # None /\ cache'[current'] = None
    <3>1. /\ inflight' = bag (+) SetToBag({n}) /\ picked' = picked
          /\ tokens' = Balances("loading", None, None)
      BY <2>2 DEF Show, One, n
    <3>2. /\ IsABag(inflight') /\ BagToSet(inflight') = BagToSet(bag) \cup {n}
          /\ \A e \in BagToSet(bag) \ {n} : inflight'[e] = bag[e]
      <4>1. PICK k : k = n
        OBVIOUS
      <4>2. inflight' = bag (+) SetToBag({k})
        BY <3>1, <4>1
      <4>3. IsABag(bag (+) SetToBag({k}))
        BY BagAdd
      <4>4. BagToSet(bag (+) SetToBag({k})) = BagToSet(bag) \cup {k}
        BY BagAdd
      <4>5. \A e \in BagToSet(bag) \ {k} : (bag (+) SetToBag({k}))[e] = bag[e]
        BY BagAdd
      <4>6. QED
        BY <4>1, <4>2, <4>3, <4>4, <4>5
    <3>3. QED
      BY <2>2, <3>1, <3>2
  <2>3. QED
    BY <2>1, <2>2
<1>3. \A m \in BagToSet(bag) : m \in Messages
  BY DEF TypeOK, Messages
<1>4. \A m : m.type # "fetch" => (m \in BagToSet(inflight') <=> m \in BagToSet(bag))
  BY <1>1, <1>2
<1>5. CASE current' = None
  <2>1. tokens' = tokens /\ picked' = picked /\ inflight' = bag
    BY <1>2, <1>5
  <2>2. Painted'
    BY <1>5, <2>1 DEF Painted, LoadingIsBacked, Fetches
  <2>3. Fresh'
    BY <1>5, <2>1 DEF Fresh, Fetches
  <2>4. QED
    BY <1>2, <1>3, <2>1, <2>2, <2>3 DEF TypeOK, TokensPanels
<1>6. CASE /\ current' # None /\ cache'[current'] # None
           /\ tokens' = Balances("loaded", current', cache'[current'])
           /\ Relist(cache'[current'])
  <2>1. /\ tokens' \in TokensPanels /\ tokens'.state = "loaded"
        /\ tokens'.wallet = current' /\ tokens'.chain = cache'[current']
    BY <1>6 DEF Balances, TokensPanels
  <2>2. picked' \in Items \cup {None} /\ (picked' = None \/ picked'.chain = cache'[current'])
    BY <1>6 DEF Relist, Items
  <2>3. Painted'
    BY <1>1, <1>2, <1>4, <1>6, <2>1, ChainAssumption DEF Painted, LoadingIsBacked, Fetches
  <2>4. Fresh'
    BY <1>1, <1>2, <1>6, <2>1, <2>2 DEF Fresh, Fetches
  <2>5. QED
    BY <1>1, <1>2, <1>3, <1>4, <1>6, <2>1, <2>2, <2>3, <2>4
<1>7. CASE /\ current' # None /\ tokens' = Balances("loading", None, None)
           /\ picked' = picked /\ n \in BagToSet(inflight')
  <2>1. tokens' \in TokensPanels /\ tokens'.state = "loading"
    BY <1>7 DEF Balances, TokensPanels
  <2>2. Painted'
    BY <1>1, <1>2, <1>4, <1>7, <2>1, ChainAssumption DEF Painted, LoadingIsBacked, Fetches
  <2>3. Fresh'
    BY <1>1, <1>2, <1>7, <2>1 DEF Fresh, Fetches
  <2>4. QED
    BY <1>1, <1>2, <1>3, <1>4, <1>7, <2>1, <2>2, <2>3 DEF TypeOK
<1>8. QED
  BY <1>2, <1>5, <1>6, <1>7

\* The types are kept when each variable has its own.
LEMMA TypesKept ==
  ASSUME services' \in BOOLEAN, late' \in BOOLEAN, crossed' \in BOOLEAN, lost' \in BOOLEAN,
         chain' \in Chains, current' \in Wallets \cup {None},
         cache' \in [Wallets -> Chains \cup {None}], tokens' \in TokensPanels,
         picked' \in Items \cup {None}, panel' \in Panels,
         panel'.state \in {"preview", "executing"} => panel'.quote # None,
         estimate' \in {"none", "below", "fine"},
         \A m \in BagToSet(inflight') : m \in Messages
  PROVE  TypeOK'
BY DEF TypeOK, TokensPanels, Panels, Messages

\* Showing the balances keeps the invariant, if the orders stay on their way
\* and a change of the chain is known to have crossed them.
LEMMA ShowKeeps ==
  ASSUME IInv, NEW bag, IsABag(bag), BagToSet(bag) \subseteq BagToSet(inflight),
         \A m \in Asks : m \in BagToSet(bag) /\ bag[m] = inflight[m],
         UNCHANGED <<services, panel, estimate, lost>>,
         chain' \in Chains, current' \in Wallets \cup {None},
         late' \in BOOLEAN, crossed' \in BOOLEAN,
         cache' \in [Wallets -> Chains \cup {None}],
         \A w \in Wallets : cache'[w] # None => services,
         services /\ ~late' =>
           /\ \A w \in Wallets : cache'[w] \in {chain', None}
           /\ \A m \in BagToSet(bag) : m.type = "fetch" => m.chain = chain',
         UNCHANGED <<chain, late, crossed>> \/ crossed' \/ panel.state = "form",
         Show(current', cache', chain', bag)
  PROVE  IInv'
<1>1. /\ Painted' /\ Fresh' /\ IsABag(inflight')
      /\ tokens' \in TokensPanels /\ picked' \in Items \cup {None}
      /\ \A m \in BagToSet(inflight') : m \in Messages
      /\ \A m : m.type # "fetch" => (m \in BagToSet(inflight') <=> m \in BagToSet(bag))
      /\ \A m \in BagToSet(bag) : m.type # "fetch" => inflight'[m] = bag[m]
      /\ picked' \in {picked, None} \/
           (current' \in Wallets /\ cache'[current'] # None
             /\ picked'.chain = cache'[current'])
  BY ShowStep DEF IInv
<1>2. Asks' = Asks /\ \A m \in Asks : inflight'[m] = inflight[m]
  BY <1>1 DEF Asks
<1>3. Awaited'
  BY <1>2, AwaitedKept DEF IInv
<1>4. Uncrossed'
  <2>1. CASE UNCHANGED <<chain, late, crossed>>
    <3>1. services /\ ~late => picked' \in {picked, None} \/ picked'.chain = chain
      BY <1>1, <2>1
    <3>2. QED
      BY <1>2, <2>1, <3>1 DEF IInv, Uncrossed
  <2>2. CASE crossed' \/ panel.state = "form"
    BY <2>2 DEF Uncrossed
  <2>3. QED
    BY <2>1, <2>2
<1>5. TypeOK'
  <2>1. services' \in BOOLEAN /\ lost' \in BOOLEAN
    BY DEF IInv, TypeOK
  <2>2. /\ panel' \in Panels /\ estimate' \in {"none", "below", "fine"}
        /\ panel'.state \in {"preview", "executing"} => panel'.quote # None
    BY DEF IInv, TypeOK, Panels
  <2>3. QED
    BY <1>1, <2>1, <2>2, TypesKept
<1>6. QED
  BY <1>1, <1>3, <1>4, <1>5 DEF IInv
----------------------------------------------------------------------------
\* Keys of the main screen that show the balances again.
LEMMA ShowingStep == ASSUME IInv, ChangeWallet \/ Reload \/ OnSwapped PROVE IInv'
<1>1. /\ IsABag(inflight) /\ UNCHANGED <<services, chain, late, panel, estimate, crossed, lost>>
      /\ current' \in Wallets \cup {None} /\ Show(current', cache', chain', inflight)
      /\ cache' = cache \/ (current # None /\ cache' = [cache EXCEPT ![current] = None])
  BY DEF IInv, TypeOK, ChangeWallet, Reload, OnSwapped, btc
<1>2. cache' \in [Wallets -> Chains \cup {None}] /\ \A w \in Wallets : cache'[w] \in {cache[w], None}
  BY <1>1 DEF IInv, TypeOK
<1>3. /\ chain' \in Chains /\ late' \in BOOLEAN /\ crossed' \in BOOLEAN
      /\ \A w \in Wallets : cache'[w] # None => services
      /\ services /\ ~late' =>
           /\ \A w \in Wallets : cache'[w] \in {chain', None}
           /\ \A m \in BagToSet(inflight) : m.type = "fetch" => m.chain = chain'
  BY <1>1, <1>2 DEF IInv, TypeOK, Fresh, Fetches
<1>4. QED
  BY <1>1, <1>2, <1>3, ShowKeeps DEF Asks

\* The chain's services replace the old ones.
LEMMA SwitchedStep ==
  ASSUME IInv, NEW m \in BagToSet(inflight), OnChainSwitched(m)
  PROVE  IInv'
<1> DEFINE bag == Without(m)
<1>1. /\ IsABag(bag) /\ BagToSet(bag) \subseteq BagToSet(inflight)
      /\ BagToSet(inflight) \ {m} \subseteq BagToSet(bag)
      /\ \A e \in BagToSet(inflight) \ {m} : bag[e] = inflight[e]
  BY TakeOne DEF IInv
<1> HIDE DEF bag
<1>2. m.type = "dial" /\ m.chain \in Chains
  BY DEF OnChainSwitched, IInv, TypeOK, Painted
<1>3. \A e \in Asks \cup Fetches : e \in BagToSet(bag) /\ bag[e] = inflight[e]
  BY <1>1, <1>2 DEF Asks, Fetches
<1>4. CASE inflight' = bag /\ UNCHANGED <<chain, cache, tokens, picked, late, crossed>>
  <2>1. UNCHANGED <<services, current, panel, estimate, lost>>
    BY DEF OnChainSwitched
  <2>2. Asks' = Asks /\ Fetches' = Fetches
    BY <1>1, <1>3, <1>4 DEF Asks, Fetches
  <2>3. Awaited'
    BY <1>3, <1>4, <2>1, <2>2, AwaitedKept DEF IInv
  <2>4. Painted' /\ Fresh'
    BY <1>1, <1>4, <2>1, <2>2, PaintedKept DEF IInv
  <2>5. Uncrossed'
    BY <1>4, <2>1, <2>2, UncrossedKept DEF IInv
  <2>6. TypeOK'
    BY <1>1, <1>4, <2>1 DEF IInv, TypeOK
  <2>7. QED
    BY <1>1, <1>4, <2>3, <2>4, <2>5, <2>6 DEF IInv
<1>5. CASE /\ chain' = m.chain
           /\ cache' = [w \in Wallets |-> None]
           /\ Show(current, cache', m.chain, bag)
           /\ late' = Pending({"fetch"})
           /\ crossed' = (crossed \/ panel.state # "form")
  <2>1. UNCHANGED <<services, current, panel, estimate, lost>>
    BY DEF OnChainSwitched
  <2>2. Show(current', cache', chain', bag)
    BY <1>5, <2>1
  <2>3. /\ chain' \in Chains /\ late' \in BOOLEAN /\ crossed' \in BOOLEAN
        /\ cache' \in [Wallets -> Chains \cup {None}] /\ \A w \in Wallets : cache'[w] = None
    BY <1>2, <1>5 DEF IInv, TypeOK, Pending
  <2>4. ~late' => \A e \in BagToSet(bag) : e.type # "fetch"
    BY <1>1, <1>5 DEF Pending
  <2>5. current' \in Wallets \cup {None} /\ \A e \in Asks : e \in BagToSet(bag) /\ bag[e] = inflight[e]
    BY <1>3, <2>1 DEF IInv, TypeOK
  <2>6. crossed' \/ panel.state = "form"
    BY <1>5
  <2>7. QED
    BY <1>1, <2>1, <2>2, <2>3, <2>4, <2>5, <2>6, ShowKeeps
<1>6. QED
  BY <1>4, <1>5 DEF OnChainSwitched, bag

\* Another chain is asked for, or with no services only recorded.
LEMMA NetworkStep == ASSUME IInv, ChangeNetwork PROVE IInv'
<1>1. UNCHANGED <<services, current, cache, tokens, late, picked, panel, estimate, crossed, lost>>
  BY DEF ChangeNetwork, wallets, btc
<1>2. CASE services
  <2>1. PICK c \in Chains : Emit(Message("dial", None, c, NoOrder)) /\ UNCHANGED chain
    BY <1>2 DEF ChangeNetwork
  <2> DEFINE n == Message("dial", None, c, NoOrder)
  <2>2. n \in Messages /\ n.type = "dial" /\ n.chain \in Chains
    BY DEF Message, Messages, NoOrder, Order, Orders
  <2> HIDE DEF n
  <2>3. inflight' = inflight (+) One(n)
    BY <2>1 DEF Emit, n
  <2>4. /\ IsABag(inflight') /\ BagToSet(inflight') = BagToSet(inflight) \cup {n}
        /\ \A e \in BagToSet(inflight) \ {n} : inflight'[e] = inflight[e]
    BY <2>3, PutOne DEF IInv
  <2>5. Asks' = Asks /\ Fetches' = Fetches /\ \A e \in Asks : inflight'[e] = inflight[e]
    BY <2>2, <2>4 DEF Asks, Fetches
  <2>6. Awaited'
    BY <1>1, <2>5, AwaitedKept DEF IInv
  <2>7. Painted' /\ Fresh'
    <3>1. LoadingIsBacked'
      BY <1>1, <2>4 DEF IInv, Painted, LoadingIsBacked
    <3>2. \A e \in BagToSet(inflight') : e.type = "dial" => e.chain # None /\ services
      BY <1>2, <2>2, <2>4, ChainAssumption DEF IInv, Painted
    <3>3. QED
      BY <1>1, <2>1, <2>5, <3>1, <3>2 DEF IInv, Painted, Fresh
  <2>8. Uncrossed'
    BY <1>1, <2>1, <2>5, UncrossedKept DEF IInv
  <2>9. TypeOK'
    BY <1>1, <2>1, <2>2, <2>4 DEF IInv, TypeOK, Messages
  <2>10. QED
    BY <2>4, <2>6, <2>7, <2>8, <2>9 DEF IInv
<1>3. CASE ~services
  <2>1. chain' \in Chains /\ inflight' = inflight
    BY <1>3 DEF ChangeNetwork
  <2>2. Awaited'
    BY <1>1, <2>1, AwaitedKept DEF IInv, Asks
  <2>3. Painted' /\ Fresh' /\ Uncrossed'
    BY <1>1, <1>3, <2>1 DEF IInv, Painted, Fresh, Uncrossed, Fetches, LoadingIsBacked
  <2>4. TypeOK'
    BY <1>1, <2>1 DEF IInv, TypeOK
  <2>5. QED
    BY <2>1, <2>2, <2>3, <2>4 DEF IInv
<1>4. QED
  BY <1>2, <1>3

\* A fetch ends: it is cached under its wallet, and painted if that is current.
LEMMA FetchedStep ==
  ASSUME IInv, NEW m \in BagToSet(inflight), OnBalancesFetched(m)
  PROVE  IInv'
<1>1. UNCHANGED <<services, chain, current, late, panel, estimate, crossed, lost>>
  BY DEF OnBalancesFetched, btc
<1>2. m.type = "fetch" /\ m.wallet \in Wallets /\ m.chain \in Chains
  BY ChainAssumption DEF OnBalancesFetched, IInv, TypeOK, Painted, Fetches
<1>3. /\ IsABag(inflight') /\ BagToSet(inflight') \subseteq BagToSet(inflight)
      /\ BagToSet(inflight) \ {m} \subseteq BagToSet(inflight')
      /\ \A e \in BagToSet(inflight) \ {m} : inflight'[e] = inflight[e]
  BY TakeOne DEF OnBalancesFetched, IInv
<1>4. /\ Asks' = Asks /\ Fetches' \subseteq Fetches /\ Fetches \ {m} \subseteq Fetches'
      /\ \A e \in Asks : inflight'[e] = inflight[e]
  BY <1>2, <1>3 DEF Asks, Fetches
<1>5. Awaited'
  BY <1>1, <1>4, AwaitedKept DEF IInv
<1>6. \A e \in BagToSet(inflight') : e.type = "dial" => e.chain # None /\ services'
  BY <1>1, <1>3 DEF IInv, Painted
<1>7. CASE ~services
  <2>1. tokens' = Balances("error", None, None) /\ UNCHANGED <<cache, picked>>
    BY <1>7 DEF OnBalancesFetched, Fetched
  <2>2. tokens' \in TokensPanels /\ tokens'.state = "error"
    BY <2>1 DEF Balances, TokensPanels
  <2>3. Painted' /\ Fresh'
    BY <1>1, <1>4, <1>6, <1>7, <2>1, <2>2 DEF IInv, Painted, Fresh, LoadingIsBacked, Fetches
  <2>4. Uncrossed'
    BY <1>1, <1>4, <2>1, UncrossedKept DEF IInv
  <2>5. TypeOK'
    BY <1>1, <1>3, <2>1, <2>2 DEF IInv, TypeOK, TokensPanels
  <2>6. QED
    BY <1>3, <1>5, <2>3, <2>4, <2>5 DEF IInv
<1>8. CASE services
  <2>1. /\ cache' = [cache EXCEPT ![m.wallet] = m.chain]
        /\ IF current = m.wallet
             THEN tokens' = Balances("loaded", m.wallet, m.chain) /\ Relist(m.chain)
             ELSE UNCHANGED <<tokens, picked>>
    BY <1>2, <1>8, ChainAssumption DEF OnBalancesFetched, Fetched
  <2>2. /\ cache' \in [Wallets -> Chains \cup {None}]
        /\ cache'[m.wallet] = m.chain /\ \A w \in Wallets \ {m.wallet} : cache'[w] = cache[w]
    BY <1>2, <2>1 DEF IInv, TypeOK
  <2>3. ~late => m.chain = chain
    BY <1>2, <1>8 DEF IInv, Fresh, Fetches
  <2>4. /\ picked' \in Items \cup {None}
        /\ picked' \in {picked, None} \/ (current = m.wallet /\ picked'.chain = m.chain)
        /\ current = m.wallet => picked' = None \/ picked'.chain = m.chain
    BY <1>2, <2>1 DEF IInv, TypeOK, Relist, Items
  <2>5. /\ current # m.wallet => tokens' = tokens
        /\ current = m.wallet => /\ tokens'.state = "loaded" /\ tokens'.wallet = current
                                 /\ tokens'.chain = m.chain
    BY <2>1 DEF Balances
  <2>6. tokens' \in TokensPanels
    BY <1>2, <2>1 DEF Balances, TokensPanels, IInv, TypeOK
  <2>7. Painted'
    <3>1. LoadingIsBacked'
      BY <1>1, <1>3, <2>5 DEF IInv, Painted, LoadingIsBacked
    <3>2. QED
      BY <1>1, <1>4, <1>6, <2>5, <3>1 DEF IInv, Painted
  <2>8. Fresh'
    BY <1>1, <1>4, <1>8, <2>2, <2>3, <2>4, <2>5 DEF IInv, Fresh
  <2>9. Uncrossed'
    <3>1. services /\ ~late => picked' \in {picked, None} \/ picked'.chain = chain
      BY <2>3, <2>4
    <3>2. QED
      BY <1>1, <1>4, <3>1, UncrossedKept DEF IInv
  <2>10. TypeOK'
    BY <1>1, <1>3, <2>2, <2>4, <2>6 DEF IInv, TypeOK, TokensPanels
  <2>11. QED
    BY <1>3, <1>5, <2>7, <2>8, <2>9, <2>10 DEF IInv
<1>9. QED
  BY <1>7, <1>8 DEF IInv, TypeOK
----------------------------------------------------------------------------
\* Keys that only fill in the form, and going back to it.
LEMMA FormStep ==
  ASSUME IInv, PickToken \/ ChooseToken \/ TypeAmount \/ TypeAddress \/ Leave
  PROVE  IInv'
<1>1. /\ UNCHANGED <<services, chain, current, cache, tokens, late, inflight, crossed, lost>>
      /\ panel.state \in {"form", "preview", "done"}
  BY DEF PickToken, ChooseToken, TypeAmount, TypeAddress, Leave, wallets, btc
<1>2. /\ picked' \in Items \cup {None}
      /\ picked' = picked \/ (picked # None /\ picked' # None /\ picked'.chain = picked.chain)
  BY DEF PickToken, ChooseToken, TypeAmount, TypeAddress, Leave, Relist, Items, IInv, TypeOK
<1>3. panel \in Panels /\ estimate' \in {"none", "below", "fine"}
  BY DEF PickToken, ChooseToken, TypeAmount, TypeAddress, Leave, Reset, btc, IInv, TypeOK, Panels
<1>4. panel' \in Panels /\ panel'.state = "form"
  <2>1. CASE PickToken
    BY <1>3, <2>1 DEF PickToken, btc
  <2>2. CASE ChooseToken
    BY <1>3, <2>2 DEF ChooseToken, Panels
  <2>3. CASE TypeAmount
    BY <1>3, <2>3 DEF TypeAmount, Panels
  <2>4. CASE TypeAddress
    BY <1>3, <2>4 DEF TypeAddress, Panels
  <2>5. CASE Leave
    BY <1>3, <2>5 DEF Leave, Reset, Panels
  <2>6. QED
    BY <2>1, <2>2, <2>3, <2>4, <2>5
<1>5. Asks = {}
  BY <1>1 DEF IInv, Awaited, Asks
<1>6. Awaited'
  BY <1>1, <1>4, <1>5 DEF Awaited, Asks, WaitIsBacked
<1>7. Painted' /\ Fresh'
  <2>1. services /\ ~late /\ tokens.state = "loaded" /\ current # None =>
          picked' \in {picked, None} \/ picked'.chain = chain
    BY <1>2 DEF IInv, Fresh
  <2>2. QED
    BY <1>1, <2>1, PaintedKept DEF IInv, Fetches
<1>8. Uncrossed'
  BY <1>4 DEF Uncrossed
<1>9. TypeOK'
  BY <1>1, <1>2, <1>3, <1>4 DEF IInv, TypeOK, Panels
<1>10. QED
  BY <1>1, <1>6, <1>7, <1>8, <1>9 DEF IInv

\* Nothing is asked while the form is filled in.
LEMMA FormAsksNothing == ASSUME Awaited, panel.state \in {"form", "preview", "done"} PROVE Asks = {}
BY DEF Awaited, Asks

\* Enter on the amount may ask for an estimate.
LEMMA EnterAmountStep == ASSUME IInv, EnterAmount PROVE IInv'
<1> DEFINE n == Message("estimate", None, None, NoOrder)
<1>1. /\ UNCHANGED <<services, chain, current, cache, tokens, late, picked, estimate, crossed, lost>>
      /\ panel.state = "form" /\ panel \in Panels
  BY DEF EnterAmount, wallets, IInv, TypeOK, Panels
<1>2. n \in Messages /\ n.type = "estimate"
  BY DEF Message, Messages, NoOrder, Order, Orders
<1>3. panel' \in Panels /\ panel'.state = "form"
  <2>1. panel' = [panel EXCEPT !.field = "addr"] \/
        panel' = [panel EXCEPT !.field = "addr", !.from = picked]
    BY DEF EnterAmount
  <2>2. picked \in Items \cup {None}
    BY DEF IInv, TypeOK
  <2>3. QED
    BY <1>1, <2>1, <2>2 DEF Panels
<1>4. inflight' = inflight \/ inflight' = inflight (+) One(n)
  BY DEF EnterAmount, Emit
<1> HIDE DEF n
<1>5. /\ IsABag(inflight') /\ BagToSet(inflight) \subseteq BagToSet(inflight')
      /\ BagToSet(inflight') \subseteq BagToSet(inflight) \cup {n}
  BY <1>4, PutOne DEF IInv
<1>6. Asks' = {} /\ Fetches' = Fetches
  BY <1>1, <1>2, <1>5, FormAsksNothing DEF IInv, Asks, Fetches
<1>7. Awaited'
  BY <1>3, <1>6 DEF Awaited, WaitIsBacked
<1>8. Painted' /\ Fresh'
  BY <1>1, <1>2, <1>5, <1>6, PaintedKept DEF IInv
<1>9. Uncrossed'
  BY <1>3 DEF Uncrossed
<1>10. TypeOK'
  BY <1>1, <1>2, <1>3, <1>5 DEF IInv, TypeOK, Panels, Messages
<1>11. QED
  BY <1>5, <1>7, <1>8, <1>9, <1>10 DEF IInv

\* An estimate that comes changes nothing else.
LEMMA EstimateStep ==
  ASSUME IInv, NEW m \in BagToSet(inflight), OnEstimate(m)
  PROVE  IInv'
<1>1. /\ UNCHANGED <<services, chain, current, cache, tokens, late, picked, panel, crossed, lost>>
      /\ m.type = "estimate" /\ estimate' \in {"none", "below", "fine"}
  BY DEF OnEstimate, wallets, IInv, TypeOK, Estimated
<1>2. /\ IsABag(inflight') /\ BagToSet(inflight') \subseteq BagToSet(inflight)
      /\ BagToSet(inflight) \ {m} \subseteq BagToSet(inflight')
      /\ \A e \in BagToSet(inflight) \ {m} : inflight'[e] = inflight[e]
  BY TakeOne DEF OnEstimate, IInv
<1>3. Asks' = Asks /\ Fetches' = Fetches /\ \A e \in Asks : inflight'[e] = inflight[e]
  BY <1>1, <1>2 DEF Asks, Fetches
<1>4. Awaited'
  BY <1>1, <1>3, AwaitedKept DEF IInv
<1>5. Painted' /\ Fresh'
  BY <1>1, <1>2, <1>3, PaintedKept DEF IInv
<1>6. Uncrossed'
  BY <1>1, <1>3, UncrossedKept DEF IInv
<1>7. TypeOK'
  BY <1>1, <1>2 DEF IInv, TypeOK
<1>8. QED
  BY <1>2, <1>4, <1>5, <1>6, <1>7 DEF IInv
----------------------------------------------------------------------------
\* A quote is asked for, of the token highlighted by now.
LEMMA QuoteRequestStep == ASSUME IInv, Submit \/ Requote PROVE IInv'
<1> DEFINE n == Message("quoteRequest", None, None, Order(picked, panel.usd, panel.addr))
<1>1. /\ UNCHANGED <<services, chain, current, cache, tokens, late, picked, estimate>>
      /\ panel.state \in {"form", "preview"} /\ panel \in Panels
      /\ picked \in Items \cup {None}
  BY DEF Submit, Requote, wallets, IInv, TypeOK, Panels
<1>2. RequestQuote(inflight)
  BY DEF Submit, Requote
<1>3. /\ n \in Messages /\ n.type = "quoteRequest"
      /\ n.order = Order(picked, panel.usd, panel.addr) /\ n.order.from = picked
  <2>1. panel.usd \in Amounts \cup {None} /\ panel.addr \in Addresses \cup {None}
    BY <1>1 DEF Panels
  <2>2. Order(picked, panel.usd, panel.addr) \in Orders
    BY <1>1, <2>1 DEF Order, Orders
  <2>3. QED
    BY <2>2 DEF Message, Messages, Order
<1>4. /\ panel' \in Panels /\ panel'.state = "quoting"
      /\ picked # None => panel'.from = picked
      /\ panel'.usd = panel.usd /\ panel'.addr = panel.addr
  <2>1. panel' = [panel EXCEPT !.state = "quoting",
                    !.from = IF picked = None THEN panel.from ELSE picked]
    BY <1>2 DEF RequestQuote
  <2>2. (IF picked = None THEN panel.from ELSE picked) \in Items \cup {None}
    BY <1>1 DEF Panels
  <2>3. QED
    BY <1>1, <2>1, <2>2 DEF Panels
<1>5. /\ inflight' = IF picked = None THEN inflight ELSE inflight (+) One(n)
      /\ lost' = (lost \/ picked = None)
  BY <1>2 DEF RequestQuote
<1> HIDE DEF n
<1>6. /\ IsABag(inflight') /\ BagToSet(inflight) \subseteq BagToSet(inflight')
      /\ picked = None => inflight' = inflight
      /\ picked # None => BagToSet(inflight') = BagToSet(inflight) \cup {n}
      /\ n \notin BagToSet(inflight) /\ picked # None => inflight'[n] = 1
  BY <1>5, PutOne DEF IInv
<1>7. Asks = {} /\ n \notin BagToSet(inflight)
  BY <1>1, <1>3, FormAsksNothing DEF IInv, Asks
<1>8. /\ Fetches' = Fetches
      /\ picked = None => Asks' = {}
      /\ picked # None => Asks' = {n} /\ inflight'[n] = 1
  BY <1>3, <1>6, <1>7 DEF Asks, Fetches
<1>9. Awaited'
  <2>1. picked # None => n.order = Asked'
    BY <1>3, <1>4 DEF Asked
  <2>2. WaitIsBacked'
    BY <1>3, <1>4, <1>5, <1>6 DEF WaitIsBacked, Pending
  <2>3. QED
    BY <1>3, <1>4, <1>8, <2>1, <2>2 DEF Awaited
<1>10. Painted' /\ Fresh'
  BY <1>1, <1>3, <1>6, <1>8, PaintedKept DEF IInv
<1>11. Uncrossed'
  <2>1. ~crossed' /\ services => ~late /\ (picked = None \/ picked.chain = chain)
    <3>1. CASE Submit
      BY <3>1 DEF Submit, IInv, Fresh
    <3>2. CASE Requote
      BY <3>2 DEF Requote, IInv, Uncrossed
    <3>3. QED
      BY <3>1, <3>2
  <2>2. QED
    BY <1>1, <1>3, <1>4, <1>8, <2>1 DEF Uncrossed
<1>12. TypeOK'
  <2>1. crossed' \in BOOLEAN /\ lost' \in BOOLEAN
    BY <1>5 DEF Submit, Requote, IInv, TypeOK, Pending
  <2>2. \A m \in BagToSet(inflight') : m \in Messages
    BY <1>3, <1>6 DEF IInv, TypeOK, Messages
  <2>3. QED
    BY <1>1, <1>4, <2>1, <2>2, TypesKept DEF IInv, TypeOK, TokensPanels
<1>13. QED
  BY <1>6, <1>9, <1>10, <1>11, <1>12 DEF IInv

\* Enter on the preview asks for the swap of what was previewed.
LEMMA ConfirmStep == ASSUME IInv, Confirm PROVE IInv'
<1> DEFINE n == Message("executeRequest", None, None, Asked)
<1>1. /\ UNCHANGED <<services, chain, current, cache, tokens, late, picked, estimate,
                     crossed, lost>>
      /\ panel.state = "preview" /\ panel \in Panels
  BY DEF Confirm, wallets, IInv, TypeOK, Panels
<1>2. panel.from # None /\ services /\ panel.quote.order = Asked /\ panel.quote # None
  BY <1>1 DEF IInv, Awaited, TypeOK
<1>3. /\ n \in Messages /\ n.type = "executeRequest"
      /\ n.order = Asked /\ n.order.from = panel.from
  <2>1. Asked \in Orders
    BY <1>1 DEF Asked, Order, Orders, Panels
  <2>2. QED
    BY <2>1 DEF Message, Messages, Asked, Order
<1>4. /\ panel' \in Panels /\ panel'.state = "executing" /\ panel'.quote = panel.quote
      /\ panel'.from = panel.from /\ panel'.usd = panel.usd /\ panel'.addr = panel.addr
  BY <1>1 DEF Confirm, Panels
<1>5. inflight' = inflight (+) One(n)
  BY DEF Confirm, Emit, Asked
<1> HIDE DEF n
<1>6. /\ IsABag(inflight') /\ BagToSet(inflight') = BagToSet(inflight) \cup {n}
      /\ n \notin BagToSet(inflight) => inflight'[n] = 1
  BY <1>5, PutOne DEF IInv
<1>7. Asks = {} /\ n \notin BagToSet(inflight)
  BY <1>1, <1>3, FormAsksNothing DEF IInv, Asks
<1>8. Fetches' = Fetches /\ Asks' = {n} /\ inflight'[n] = 1
  BY <1>3, <1>6, <1>7 DEF Asks, Fetches
<1>9. Awaited'
  <2>1. Asked' = Asked
    BY <1>4 DEF Asked
  <2>2. WaitIsBacked'
    BY <1>3, <1>4, <1>6 DEF WaitIsBacked, Pending
  <2>3. QED
    BY <1>1, <1>2, <1>3, <1>4, <1>8, <2>1, <2>2 DEF Awaited
<1>10. Painted' /\ Fresh'
  BY <1>1, <1>3, <1>6, <1>8, PaintedKept DEF IInv
<1>11. Uncrossed'
  BY <1>1, <1>2, <1>3, <1>4, <1>8 DEF Uncrossed, IInv
<1>12. TypeOK'
  <2>1. \A m \in BagToSet(inflight') : m \in Messages
    BY <1>3, <1>6 DEF IInv, TypeOK, Messages
  <2>2. QED
    BY <1>1, <1>2, <1>4, <2>1, TypesKept DEF IInv, TypeOK, TokensPanels
<1>13. QED
  BY <1>6, <1>9, <1>10, <1>11, <1>12 DEF IInv
----------------------------------------------------------------------------
\* One message is taken and another put on its way.
LEMMA AnswerOne ==
  ASSUME IsABag(inflight), NEW m \in BagToSet(inflight), inflight[m] = 1,
         NEW n, n \notin BagToSet(inflight), Answer(m, n)
  PROVE  /\ IsABag(inflight') /\ inflight'[n] = 1
         /\ BagToSet(inflight') = (BagToSet(inflight) \ {m}) \cup {n}
         /\ \A e \in BagToSet(inflight) \ {m} : inflight'[e] = inflight[e]
<1>1. /\ IsABag(Without(m)) /\ BagToSet(Without(m)) = BagToSet(inflight) \ {m}
      /\ \A e \in BagToSet(inflight) \ {m} : Without(m)[e] = inflight[e]
  BY BagRemove DEF Without, One
<1> DEFINE W == Without(m)
<1>2. inflight' = W (+) SetToBag({n})
  BY DEF Answer, One
<1> HIDE DEF W
<1>3. /\ IsABag(inflight') /\ BagToSet(inflight') = BagToSet(W) \cup {n}
      /\ \A e \in BagToSet(W) \ {n} : inflight'[e] = W[e]
      /\ n \notin BagToSet(W) => inflight'[n] = 1
  <2>1. IsABag(W)
    BY <1>1 DEF W
  <2>2. /\ IsABag(W (+) SetToBag({n})) /\ BagToSet(W (+) SetToBag({n})) = BagToSet(W) \cup {n}
        /\ \A e \in BagToSet(W) \ {n} : (W (+) SetToBag({n}))[e] = W[e]
        /\ n \notin BagToSet(W) => (W (+) SetToBag({n}))[n] = 1
    BY <2>1, BagAdd
  <2>3. QED
    BY <1>2, <2>2
<1>4. QED
  BY <1>1, <1>3 DEF W

\* A request runs on the wallet and the chain there are by then, or is dropped.
LEMMA RequestStep ==
  ASSUME IInv, NEW m \in BagToSet(inflight), OnRequest(m)
  PROVE  IInv'
<1>1. /\ UNCHANGED <<services, chain, current, cache, tokens, late, picked, panel, estimate, crossed>>
      /\ m.type \in {"quoteRequest", "executeRequest"} /\ m \in Messages
      /\ panel \in Panels
  BY DEF OnRequest, wallets, IInv, TypeOK, Messages, Panels
<1>2. m \in Asks /\ Asks = {m} /\ inflight[m] = 1
  BY <1>1 DEF Asks, IInv, Awaited
<1>3. m.order = Asked /\ Asked' = Asked /\ m.order.from # None
  BY <1>1, <1>2 DEF IInv, Awaited, Asked
<1>4. CASE current = None
  <2>1. inflight' = Without(m) /\ lost' = TRUE
    BY <1>4 DEF OnRequest
  <2>2. /\ IsABag(inflight') /\ BagToSet(inflight') = BagToSet(inflight) \ {m}
    BY <1>2, <2>1, TakeOne DEF IInv
  <2>3. Asks' = {} /\ Fetches' = Fetches
    BY <1>1, <1>2, <2>2 DEF Asks, Fetches
  <2>4. Awaited'
    BY <1>1, <1>3, <2>1, <2>3 DEF IInv, Awaited, WaitIsBacked
  <2>5. Painted' /\ Fresh'
    BY <1>1, <2>2, <2>3, PaintedKept DEF IInv
  <2>6. Uncrossed'
    BY <1>1, <2>3 DEF IInv, Uncrossed
  <2>7. TypeOK'
    BY <1>1, <2>1, <2>2 DEF IInv, TypeOK
  <2>8. QED
    BY <2>2, <2>4, <2>5, <2>6, <2>7 DEF IInv
<1>5. CASE current # None
  <2> DEFINE n == Message(IF m.type = "quoteRequest" THEN "quote" ELSE "execute",
                          current, chain, m.order)
  <2>1. Answer(m, n) /\ lost' = lost
    BY <1>5 DEF OnRequest
  <2>2. /\ n \in Messages /\ n.order = m.order /\ n.chain = chain /\ n.chain \in Chains
        /\ n.type = IF m.type = "quoteRequest" THEN "quote" ELSE "execute"
    <3>1. current \in Wallets /\ chain \in Chains /\ m.order \in Orders
      BY <1>1, <1>5 DEF IInv, TypeOK, Messages
    <3>2. QED
      BY <3>1 DEF Message, Messages
  <2> HIDE DEF n
  <2>3. n \notin BagToSet(inflight)
    BY <1>1, <1>2, <2>2 DEF Asks
  <2>4. /\ IsABag(inflight') /\ inflight'[n] = 1
        /\ BagToSet(inflight') = (BagToSet(inflight) \ {m}) \cup {n}
    BY <1>2, <2>1, <2>3, AnswerOne DEF IInv
  <2>5. Asks' = {n} /\ Fetches' = Fetches
    BY <1>1, <1>2, <2>2, <2>4 DEF Asks, Fetches
  <2>6. panel.state = IF m.type = "quoteRequest" THEN "quoting" ELSE "executing"
    BY <1>1, <1>2 DEF IInv, Awaited
  <2>7. Awaited'
    <3>1. WaitIsBacked'
      BY <1>1, <2>2, <2>4, <2>6 DEF WaitIsBacked, Pending
    <3>2. QED
      BY <1>1, <1>3, <2>1, <2>2, <2>4, <2>5, <2>6, <3>1, ChainAssumption DEF IInv, Awaited
  <2>8. Painted' /\ Fresh'
    BY <1>1, <2>2, <2>4, <2>5, PaintedKept DEF IInv
  <2>9. Uncrossed'
    BY <1>1, <1>2, <2>2, <2>5 DEF IInv, Uncrossed
  <2>10. TypeOK'
    <3>1. \A e \in BagToSet(inflight') : e \in Messages
      BY <2>2, <2>4 DEF IInv, TypeOK, Messages
    <3>2. QED
      BY <1>1, <2>1, <3>1, TypesKept DEF IInv, TypeOK, TokensPanels
  <2>11. QED
    BY <2>4, <2>7, <2>8, <2>9, <2>10 DEF IInv
<1>6. QED
  BY <1>4, <1>5

\* A quote is shown in the preview, or its error on the form.
LEMMA QuoteStep ==
  ASSUME IInv, NEW m \in BagToSet(inflight), OnQuote(m)
  PROVE  IInv'
<1>1. /\ UNCHANGED <<services, chain, current, cache, tokens, late, picked, estimate,
                     crossed, lost>>
      /\ m.type = "quote" /\ m \in Messages /\ panel \in Panels
  BY DEF OnQuote, wallets, IInv, TypeOK, Messages, Panels
<1>2. m \in Asks /\ Asks = {m} /\ inflight[m] = 1 /\ panel.state = "quoting"
  BY <1>1 DEF Asks, IInv, Awaited
<1>3. m.order = Asked /\ m.order.from # None /\ m.chain \in Chains
  BY <1>1, <1>2 DEF IInv, Awaited, Messages
<1>4. IsABag(inflight') /\ BagToSet(inflight') = BagToSet(inflight) \ {m}
  BY <1>2, TakeOne DEF OnQuote, IInv
<1>5. Asks' = {} /\ Fetches' = Fetches
  BY <1>1, <1>2, <1>4 DEF Asks, Fetches
<1>6. Painted' /\ Fresh'
  BY <1>1, <1>4, <1>5, PaintedKept DEF IInv
<1>7. CASE services /\ panel' = [panel EXCEPT !.state = "preview", !.quote = Quoted(m)]
  <2> DEFINE q == Quoted(m)
  <2>1. q \in Quotes /\ q.order = m.order /\ q.chain = m.chain /\ q # None
    <3>1. q \in Quotes /\ q.order = m.order /\ q.chain = m.chain
      BY <1>1, <1>3 DEF Quoted, Quotes, Messages
    <3>2. QED
      BY <3>1, ChainAssumption
  <2> HIDE DEF q
  <2>2. panel' = [panel EXCEPT !.state = "preview", !.quote = q]
    BY <1>7 DEF q
  <2>3. /\ panel' \in Panels /\ panel'.state = "preview" /\ panel'.quote = q
        /\ panel'.from = panel.from /\ panel'.usd = panel.usd /\ panel'.addr = panel.addr
    BY <1>1, <2>1, <2>2 DEF Panels
  <2>4. Asked' = Asked /\ panel.from = m.order.from
    BY <1>3, <2>3 DEF Asked, Order
  <2>5. Awaited'
    BY <1>1, <1>3, <1>5, <1>7, <2>1, <2>3, <2>4 DEF Awaited, WaitIsBacked
  <2>6. Uncrossed'
    BY <1>1, <1>2, <1>5, <2>1, <2>3 DEF IInv, Uncrossed
  <2>7. TypeOK'
    BY <1>1, <1>4, <2>1, <2>3, TypesKept DEF IInv, TypeOK, TokensPanels, Messages
  <2>8. QED
    BY <1>4, <1>6, <2>5, <2>6, <2>7 DEF IInv
<1>8. CASE panel' = [panel EXCEPT !.state = "form", !.field = "addr", !.quote = None]
  <2>1. panel' \in Panels /\ panel'.state = "form"
    BY <1>1, <1>8 DEF Panels
  <2>2. Awaited' /\ Uncrossed'
    BY <1>5, <2>1 DEF Awaited, WaitIsBacked, Uncrossed
  <2>3. TypeOK'
    BY <1>1, <1>4, <2>1, TypesKept DEF IInv, TypeOK, TokensPanels, Messages
  <2>4. QED
    BY <1>4, <1>6, <2>2, <2>3 DEF IInv
<1>9. QED
  BY <1>7, <1>8 DEF OnQuote

\* A swap is over; after a success the balances are shown again.
LEMMA ExecutedStep ==
  ASSUME IInv, NEW m \in BagToSet(inflight), OnExecuted(m)
  PROVE  IInv'
<1> DEFINE bag == Without(m)
<1>1. /\ UNCHANGED <<services, chain, current, late, estimate, crossed, lost>>
      /\ m.type = "execute" /\ panel \in Panels
  BY DEF OnExecuted, IInv, TypeOK, Panels
<1>2. m \in Asks /\ Asks = {m} /\ inflight[m] = 1 /\ panel.state = "executing"
  BY <1>1 DEF Asks, IInv, Awaited
<1>3. IsABag(bag) /\ BagToSet(bag) = BagToSet(inflight) \ {m}
  BY <1>2, TakeOne DEF IInv
<1> HIDE DEF bag
<1>4. panel' \in Panels /\ panel'.state = "done"
  BY <1>1 DEF OnExecuted, Panels
<1>5. /\ Painted' /\ Fresh' /\ IsABag(inflight')
      /\ tokens' \in TokensPanels /\ picked' \in Items \cup {None}
      /\ \A e \in BagToSet(inflight') : e \in Messages
      /\ \A e : e.type # "fetch" => (e \in BagToSet(inflight') <=> e \in BagToSet(bag))
      /\ services /\ ~late => picked' \in {picked, None} \/ picked'.chain = chain
      /\ cache' \in [Wallets -> Chains \cup {None}]
  <2>1. CASE inflight' = bag /\ UNCHANGED <<cache, tokens, picked>>
    <3>1. Fetches' = Fetches
      BY <1>1, <1>3, <2>1 DEF Fetches
    <3>2. Painted' /\ Fresh'
      BY <1>1, <1>3, <2>1, <3>1, PaintedKept DEF IInv
    <3>3. QED
      BY <1>3, <2>1, <3>2 DEF IInv, TypeOK, TokensPanels, Messages
  <2>2. CASE /\ services
             /\ cache' = IF current = None THEN cache ELSE [cache EXCEPT ![current] = None]
             /\ Show(current, cache', chain, bag)
    <3>1. /\ cache' \in [Wallets -> Chains \cup {None}]
          /\ \A w \in Wallets : cache'[w] \in {cache[w], None}
      BY <2>2 DEF IInv, TypeOK
    <3>2. /\ Show(current', cache', chain', bag) /\ BagToSet(bag) \subseteq BagToSet(inflight)
          /\ chain' \in Chains /\ current' \in Wallets \cup {None}
          /\ \A w \in Wallets : cache'[w] # None => services
      BY <1>1, <1>3, <2>2 DEF IInv, TypeOK
    <3>3. services /\ ~late' =>
            /\ \A w \in Wallets : cache'[w] \in {chain', None}
            /\ \A e \in BagToSet(bag) : e.type = "fetch" => e.chain = chain'
      BY <1>1, <1>3, <3>1 DEF IInv, Fresh, Fetches
    <3>4. /\ Painted' /\ Fresh' /\ IsABag(inflight')
          /\ tokens' \in TokensPanels /\ picked' \in Items \cup {None}
          /\ \A e \in BagToSet(inflight') : e \in Messages
          /\ \A e : e.type # "fetch" => (e \in BagToSet(inflight') <=> e \in BagToSet(bag))
          /\ picked' \in {picked, None} \/
               (current' \in Wallets /\ cache'[current'] # None
                 /\ picked'.chain = cache'[current'])
      BY <1>1, <1>3, <3>1, <3>2, <3>3, ShowStep DEF IInv
    <3>5. QED
      BY <1>1, <3>1, <3>3, <3>4
  <2>3. QED
    BY <2>1, <2>2 DEF OnExecuted, bag
<1>6. Asks' = {}
  BY <1>2, <1>3, <1>5 DEF Asks
<1>7. Awaited'
  BY <1>4, <1>6 DEF Awaited, WaitIsBacked
<1>8. Uncrossed'
  BY <1>1, <1>2, <1>4, <1>5, <1>6 DEF IInv, Uncrossed
<1>9. TypeOK'
  BY <1>1, <1>4, <1>5, TypesKept DEF IInv, TypeOK
<1>10. QED
  BY <1>5, <1>7, <1>8, <1>9 DEF IInv
----------------------------------------------------------------------------
\* Every step keeps the invariant.
LEMMA NextStep == ASSUME IInv, [Next]_vars PROVE IInv'
<1>1. CASE Key
  BY <1>1, ShowingStep, NetworkStep, FormStep, EnterAmountStep, QuoteRequestStep, ConfirmStep
  DEF Key
<1>2. ASSUME NEW m \in BagToSet(inflight), Handle(m) PROVE IInv'
  BY <1>2, SwitchedStep, FetchedStep, EstimateStep, RequestStep, QuoteStep, ExecutedStep
  DEF Handle
<1>3. CASE UNCHANGED vars
  BY <1>3 DEF vars, IInv, TypeOK, Awaited, Painted, Fresh, Uncrossed, WaitIsBacked,
              LoadingIsBacked, Asks, Fetches, Asked, Pending
<1>4. QED
  BY <1>1, <1>2, <1>3 DEF Next

\* The panel and its order belong together, the balances are the current
\* wallet's, and they and the swap are from the chain unless a switch crossed
\* them.
THEOREM Invariance == Spec => []IInv
<1>1. Init => IInv
  BY Initially
<1>2. IInv /\ [Next]_vars => IInv'
  BY NextStep
<1>3. QED
  BY <1>1, <1>2, PTL DEF Spec

\* Every variable keeps its type, and a preview has its quote.
THEOREM TypesHold == Spec => []TypeOK
<1>1. IInv => TypeOK
  BY DEF IInv
<1>2. QED
  BY <1>1, Invariance, PTL

\* onBalancesFetched and balancesCmdForCurrent: the balances shown are the
\* current wallet's, and the chain's unless a fetch was overtaken by a switch.
THEOREM PaintedIsOwnHolds == Spec => []PaintedIsOwn
<1>1. IInv => PaintedIsOwn
  BY DEF IInv, TypeOK, Painted, Fresh, PaintedIsOwn
<1>2. QED
  BY <1>1, Invariance, PTL

\* A tokens panel that loads for the current wallet has its fetch under way.
THEOREM LoadingIsBackedHolds == Spec => []LoadingIsBacked
<1>1. IInv => LoadingIsBacked
  BY DEF IInv, Painted
<1>2. QED
  BY <1>1, Invariance, PTL

\* A panel that takes no key has its request or its answer on the way, unless
\* the request was lost.
THEOREM WaitIsBackedHolds == Spec => []WaitIsBacked
<1>1. IInv => WaitIsBacked
  BY DEF IInv, Awaited
<1>2. QED
  BY <1>1, Invariance, PTL

\* The swap under way is the previewed one, on the chain it was quoted on and
\* in a token of that chain, unless a chain switch crossed it.
THEOREM ExecutedAsPreviewedHolds == Spec => []ExecutedAsPreviewed
<1>1. ASSUME IInv PROVE ExecutedAsPreviewed
  <2> SUFFICES ASSUME NEW m \in BagToSet(inflight), m.type = "execute"
               PROVE  /\ panel.state = "executing"
                      /\ m.order = panel.quote.order
                      /\ ~crossed => /\ m.chain = panel.quote.chain
                                     /\ m.order.from.chain = m.chain
    BY DEF ExecutedAsPreviewed
  <2>1. m \in Asks
    BY DEF Asks
  <2>2. panel.state = "executing" /\ m.order = Asked /\ services
    BY <1>1, <2>1 DEF IInv, Awaited
  <2>3. m.order = panel.quote.order
    BY <1>1, <2>2 DEF IInv, Awaited
  <2>4. QED
    BY <1>1, <2>1, <2>2, <2>3 DEF IInv, Uncrossed
<1>2. QED
  BY <1>1, Invariance, PTL
=============================================================================
