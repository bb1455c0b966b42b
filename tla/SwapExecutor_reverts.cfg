SPECIFICATION Spec
CONSTANTS
  Swaps = {s1, s2}
  MaxAmount = 2
  Held = 3
SYMMETRY SwapSymmetry
CHECK_DEADLOCK FALSE
INVARIANT SuccessIsFilled
