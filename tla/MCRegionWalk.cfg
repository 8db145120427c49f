\* The walk is made once, so deadlock is not checked.
SPECIFICATION Spec
CONSTANTS
  Top = 4
  PageSize = 4
  Shapes <- MCShapes
  ChurnMax = 3
CHECK_DEADLOCK FALSE
INVARIANTS
  NoPageIsCountedTwice
  ReportDriftsByChurn
PROPERTY Terminates
