\* The program ends, so deadlock is not checked.  QueueMax and ChunkMax bound the run.
SPECIFICATION FairSpec
CONSTANTS
  Programs <- AMPrograms
  Demos <- AMDemos
  Script <- AMScript
  ChildScript <- AMChildScript
  Resources <- AMResources
  Kind <- AMKind
  Needs <- AMNeeds
  Unchecked <- AMUnchecked
  Nominal <- AMNominal
  Values <- AMValues
  LineSizes = {0, 1, 2}
  QueueMax = 2
  ChunkMax = 2
CHECK_DEADLOCK FALSE
INVARIANTS
  UsesOnlyWhatItHolds
  NamesOutliveTheirUsers
  ParentSeesChildsWrite
  NoChildIsLeftBehind
PROPERTIES
  ImplementsLifecycle
  Terminates
  OnlyForkCopiesCharacters
