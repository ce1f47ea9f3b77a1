SPECIFICATION Spec
CONSTANTS
  Pages <- MCPages
  MaxPages = 2
  MaxCopies = 2
  Conditions <- MCConditions
  LinkErrors <- MCIo
INVARIANTS MonoFits
CHECK_DEADLOCK FALSE
