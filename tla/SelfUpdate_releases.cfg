SPECIFICATION Spec
CONSTANTS
  Updaters = {u1, u2}
  MaxTag = 2
  MaxUploads = 4
  NotAHash = NotAHash
  None = None
SYMMETRY UpdaterSymmetry
CHECK_DEADLOCK FALSE
INVARIANTS
  TypeOK
  BinaryIsWhole
  EndsClean
