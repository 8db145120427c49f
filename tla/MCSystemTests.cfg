\* The program ends, so deadlock is not checked.
SPECIFICATION Spec
VIEW MCView
CONSTANTS
  Memory = 10
  PrivateSize = 1
  TestSize = 2
  FileMax = 2
  Word = 32
  ArgsMax = 3
  ChurnMax = 1
CHECK_DEADLOCK FALSE
INVARIANTS
  ChangesAreTheTests
  WritesOnlyWhenAsked
  ExternalChangeWrapsBelowZero
