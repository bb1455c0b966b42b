SPECIFICATION Spec
CONSTANTS
  Tokens = {bnb, cake}
  Checked = {cake}
  Amounts = {5}
  MaxQuotes = 2
  MaxOpens = 2
  MaxCancels = 1
  None = None
CHECK_DEADLOCK FALSE
INVARIANT OneUnderway
