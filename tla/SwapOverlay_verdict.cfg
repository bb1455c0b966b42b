SPECIFICATION Spec
CONSTANTS
  Tokens = {bnb, cake, doge}
  Checked = {cake, doge}
  Amounts = {5}
  MaxQuotes = 2
  MaxOpens = 2
  MaxCancels = 1
  None = None
SYMMETRY CheckedSymmetry
CHECK_DEADLOCK FALSE
INVARIANT VerdictIsForBought
