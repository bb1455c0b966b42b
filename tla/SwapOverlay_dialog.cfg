SPECIFICATION FairSpec
CONSTANTS
  Tokens = {bnb, cake}
  Checked = {cake}
  Amounts = {5}
  MaxQuotes = 2
  MaxOpens = 2
  MaxCancels = 1
  None = None
CHECK_DEADLOCK FALSE
INVARIANTS
  TypeOK
  ConfirmsBacked
  ConfirmedAsQuoted
  NeverSameToken
  OneUnderwayUnhurried
PROPERTY ExecutingEnds
