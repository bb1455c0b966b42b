SPECIFICATION FairSpec
CONSTANTS
  Swaps = {s1, s2}
  MaxAmount = 2
  Held = 3
CHECK_DEADLOCK FALSE
INVARIANTS
  TypeOK
  SuccessIsMined
  PulledOnce
  FailuresHonest
  ResidueIsUnspent
PROPERTIES
  ImplementsPromise
  EveryExecuteReturns
