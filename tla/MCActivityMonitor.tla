-------------------------- MODULE MCActivityMonitor --------------------------
(***************************************************************************)
(* The demos of activity_monitor_demo.mm on the machine of DemoMachine.    *)
(***************************************************************************)
EXTENDS TerminalProperties, ActivityMonitorDemo

\* The hypothesis of the theorems of DemoProofs, for these demos.
ASSUME DemosAreWellFormed == ScriptsAreWellFormed
=============================================================================
