\* The program ends, so deadlock is not checked.  QueueMax and ChunkMax bound the run.
SPECIFICATION Spec
CONSTANTS
  Programs <- XnuPrograms
  Demos <- XnuDemos
  Script <- XnuScript
  ChildScript <- XnuChildScript
  Resources <- XnuResources
  Kind <- XnuKind
  Needs <- XnuNeeds
  Unchecked <- XnuUnchecked
  Nominal <- XnuNominal
  Values <- XnuValues
  LineSizes = {0, 1, 2}
  QueueMax = 2
  ChunkMax = 2
CHECK_DEADLOCK FALSE
INVARIANT NoBusError
