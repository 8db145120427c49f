-------------------------- MODULE MCMachSharedMemory --------------------------
(***************************************************************************)
(* mach_shared_memory_demo.cpp and file_mapping_dirty_demo.cpp alone, on   *)
(* the machine of DemoMachine.                                             *)
(***************************************************************************)
EXTENDS DemoProperties, MachSharedMemoryDemo
=============================================================================
