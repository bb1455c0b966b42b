SPECIFICATION Spec
CONSTANTS
  Phrases = {p1, p2}
  MaxRows = 2
  MaxPending = 2
  None = None
SYMMETRY PhraseSymmetry
CHECK_DEADLOCK FALSE
INVARIANTS
  TypeOK
  DeletedWasNamed
  RevealIsOwn
  SavedWasProven
  SavingIsUnderway
  ListIsStore
