SPECIFICATION Spec
CONSTANTS
  Calls = {c1, c2}
  Updates = {u1}
  Chains = {bsc, eth}
  Wallets = {w1, w2}
  Tokens = {usdt, memecoin}
  SafeTokens = {usdt}
  HighRisk <- RiskyOnBsc
  Requests <- PolicyRequests
  MaxUSD = 2
  MaxUSDTotal = 0
  Allowlist <- OnlyBsc
  AllowRisky = FALSE
  Deletable = {w1}
  MaxRuns = 1
  None = None
  bsc = bsc
  usdt = usdt
  memecoin = memecoin
SYMMETRY CallSymmetry
CHECK_DEADLOCK FALSE
INVARIANTS
  TradesWithinPolicy
  LogAccountsForTrades
