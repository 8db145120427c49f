---------------------------- MODULE MCXnuFootprint ----------------------------
(***************************************************************************)
(* The demos of xnu_footprint_demo.cpp and the programs of                 *)
(* mach_shared_memory_demo.cpp and file_mapping_dirty_demo.cpp on the      *)
(* machine of DemoMachine.                                                 *)
(***************************************************************************)
EXTENDS DemoProperties, XnuFootprintDemo, MachSharedMemoryDemo
LOCAL INSTANCE TLC

MCPrograms == XnuPrograms \union MachPrograms
MCDemos == XnuDemos \union MachDemos
MCScript == XnuScript @@ MachScript
MCChildScript == XnuChildScript @@ MachChildScript
MCResources == XnuResources \union MachResources
MCKind == XnuKind @@ MachKind
MCNeeds == XnuNeeds @@ MachNeeds
MCUnchecked == XnuUnchecked \union MachUnchecked
MCNominal == XnuNominal \union MachNominal
MCValues == XnuValues \union MachValues

\* The hypothesis of the theorems of DemoProofs, for these demos.
ASSUME DemosAreWellFormed == ScriptsAreWellFormed

\* The further hypothesis of OnlyOneReaderAtATime.
ASSUME PausesDoNotMeet == PausesAreApart
=============================================================================
