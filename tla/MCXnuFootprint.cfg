\* The program ends, so deadlock is not checked.  QueueMax and ChunkMax bound the run.
SPECIFICATION FairSpec
CONSTANTS
  Programs <- MCPrograms
  Demos <- MCDemos
  Script <- MCScript
  ChildScript <- MCChildScript
  Resources <- MCResources
  Kind <- MCKind
  Needs <- MCNeeds
  Unchecked <- MCUnchecked
  Nominal <- MCNominal
  Values <- MCValues
  LineSizes = {0, 1, 2}
  QueueMax = 2
  ChunkMax = 2
CHECK_DEADLOCK FALSE
INVARIANTS
  Accounts
  FamilyAccounts
  NothingLeaks
  UsesOnlyWhatItHolds
  NamesOutliveTheirUsers
  ParentSeesChildsWrite
  OneReaderAtATime
PROPERTIES
  ImplementsLifecycle
  Terminates
