SPECIFICATION Spec
CONSTANTS
  Chains = {c1, c2}
  Wallets = {w1, w2}
  Tokens = {t1}
  Amounts = {a1, a2}
  Addresses = {b1}
  MaxPending = 2
  None = None
SYMMETRY ScreenSymmetry
CHECK_DEADLOCK FALSE
INVARIANTS
  TypeOK
  PaintedIsOwn
  LoadingIsBacked
  WaitIsBacked
  ExecutedAsPreviewed
