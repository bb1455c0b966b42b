SPECIFICATION Spec
CONSTANTS
  Calls = {c1, c2}
  Updates = {}
  Chains = {bsc, eth}
  Wallets = {w1}
  Tokens = {usdt, memecoin}
  SafeTokens = {usdt}
  HighRisk <- RiskyOnBsc
  Requests <- PolicyRequests
  MaxUSD = 2
  MaxUSDTotal = 0
  Allowlist <- OnlyBsc
  AllowRisky = FALSE
  Deletable = {}
  MaxRuns = 1
  None = None
  bsc = bsc
  usdt = usdt
  memecoin = memecoin
CHECK_DEADLOCK FALSE
INVARIANT RefusalsLogged
