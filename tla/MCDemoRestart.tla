---------------------------- MODULE MCDemoRestart ----------------------------
(***************************************************************************)
(* The demos of xnu_footprint_demo.cpp that make objects with names, on    *)
(* the machine of DemoRestart: a temporary file, a shared memory object,   *)
(* a System V segment.                                                     *)
(***************************************************************************)
EXTENDS DemoRestart, XnuFootprintDemo

NamingPrograms == {<<d>> : d \in {"file_mapped_memory", "shared_memory", "sysv_shared_memory"}}

\* /tmp/memory_demo_<pid>.tmp, /xnu_footprint_demo_<pid>; IPC_PRIVATE.
PidNames == {"file", "shm"}

\* The hypotheses of the theorems of DemoProofs about restarts.
ASSUME RestartingDemosAreWellFormed == ScriptsAreWellFormed /\ NamesAreApart

\* The table of segments is the small one: two interrupted runs fill it.
SmallTable == [file |-> 9, shm |-> 9, segment |-> 2]
=============================================================================
