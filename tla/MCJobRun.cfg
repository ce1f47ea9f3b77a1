SPECIFICATION Spec
CONSTANTS
  Pages <- MCPages
  MaxPages = 2
  MaxCopies = 2
  Conditions <- MCConditions
  LinkErrors <- MCBoth
INVARIANTS TypeOK LabelsInOrder CompletedMeansAll
PROPERTIES JobEnds
CHECK_DEADLOCK FALSE
