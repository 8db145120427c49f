\* Three instances, the programs end: deadlock is not checked.
SPECIFICATION Spec
CONSTANT Instances = {"first", "second", "third"}
CHECK_DEADLOCK FALSE
INVARIANT EveryFileHasARemover
