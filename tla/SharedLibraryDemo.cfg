\* Three children, as in the code.  The program ends, so deadlock is not checked.
SPECIFICATION FairSpec
CONSTANTS
  NumChildren = 3
  TypedMax = 2
CHECK_DEADLOCK FALSE
INVARIANTS
  LibraryIsThereToLoad
  UnloadedBeforeRemoval
  EveryChildIsReaped
  OnlyFailedCreationLeavesFiles
  Consistent
PROPERTY Terminates
