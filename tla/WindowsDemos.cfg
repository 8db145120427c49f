\* Two instances: they meet in every pair of demos.  The programs end, so
\* deadlock is not checked.
SPECIFICATION Spec
CONSTANT Instances = {"first", "second"}
CHECK_DEADLOCK FALSE
INVARIANTS
  UsesOnlyWhatItHolds
  SameNameSameObject
  OnlySharedOrEmptyFilesAreLeft
PROPERTY Terminates
