\* The program is started three times at most, so deadlock is not checked.
SPECIFICATION RestartSpec
CONSTANTS
  Programs <- NamingPrograms
  Demos <- XnuDemos
  Script <- XnuScript
  ChildScript <- XnuChildScript
  Resources <- XnuResources
  Kind <- XnuKind
  Needs <- XnuNeeds
  Unchecked <- XnuUnchecked
  Nominal <- XnuNominal
  Values <- XnuValues
  LineSizes = {0, 1}
  QueueMax = 1
  ChunkMax = 0
  NamedByPid <- PidNames
  Limit <- SmallTable
  RunsMax = 3
CHECK_DEADLOCK FALSE
INVARIANT OneOrphanPerInterrupt
PROPERTY EveryRunEnds
