\* The program ends, so deadlock is not checked.  QueueMax and ChunkMax bound the run.
SPECIFICATION Spec
CONSTANTS
  Programs <- MachPrograms
  Demos <- MachDemos
  Script <- MachScript
  ChildScript <- MachChildScript
  Resources <- MachResources
  Kind <- MachKind
  Needs <- MachNeeds
  Unchecked <- MachUnchecked
  Nominal <- MachNominal
  Values <- MachValues
  LineSizes = {0, 1, 2}
  QueueMax = 2
  ChunkMax = 2
CHECK_DEADLOCK FALSE
INVARIANT ParentAlwaysSeesWrite
