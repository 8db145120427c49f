\* The demo returns, so deadlock is not checked.
SPECIFICATION Spec
CONSTANTS
  Pages = 6
  Rounds = 5
CHECK_DEADLOCK FALSE
INVARIANT NeverDiscarded
