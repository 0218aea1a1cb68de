CONSTANTS
  NumPairs = 4
  NumberOfThreads = 2
SPECIFICATION Spec
INVARIANTS TypeOK PermitsAddUp EachCollectedOnce OutcomeIsRight
PROPERTIES Terminates
