SPECIFICATION Spec
CONSTANTS
  Processes = {p1, p2}
  Passwords = {a, b}
  Addresses = {w1, w2}
  MaxSalts = 2
  None = None
SYMMETRY VaultSymmetry
INVARIANTS
  TypeOK
  RowsReadable
  ActsAsTold
PROPERTY KeystoresKept
