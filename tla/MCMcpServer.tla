---------------------------- MODULE MCMcpServer ----------------------------
(* Instances of McpServer for TLC. *)
EXTENDS McpServer, TLC

CONSTANTS bsc, usdt, memecoin

RiskyOnBsc == {<<bsc, memecoin>>}
OnlyBsc == {bsc}

\* The 0 the schema lets through, the cap, and more than the cap.
BudgetRequests == [usd : 0..2, chain : {None}, wallet : {None}, token : {usdt}]

\* Named and defaulted chains and wallets, a checked and an unchecked token.
PolicyRequests ==
  [usd : {1}, chain : {None} \cup Chains, wallet : {None, CHOOSE w \in Wallets : TRUE},
   token : {usdt, memecoin}]

\* Calls are interchangeable: no action or invariant names one.
CallSymmetry == Permutations(Calls)
=============================================================================
