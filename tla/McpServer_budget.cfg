SPECIFICATION FairSpec
CONSTANTS
  Calls = {c1, c2, c3}
  Updates = {}
  Chains = {bsc}
  Wallets = {w1}
  Tokens = {usdt}
  SafeTokens = {usdt}
  HighRisk = {}
  Requests <- BudgetRequests
  MaxUSD = 1
  MaxUSDTotal = 2
  Allowlist = {}
  AllowRisky = FALSE
  Deletable = {}
  MaxRuns = 2
  None = None
  bsc = bsc
  usdt = usdt
  memecoin = memecoin
CHECK_DEADLOCK FALSE
INVARIANTS
  TypeOK
  BookingsDisjoint
  TradesBooked
  SignedWithinBudget
  AuditExact
PROPERTIES
  ImplementsBudget
  EveryCallReturns
