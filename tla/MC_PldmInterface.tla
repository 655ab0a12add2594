---------------------------- MODULE MC_PldmInterface ----------------------------
(***************************************************************************)
(* Instances of PldmInterface for TLC: what can fail.                      *)
(***************************************************************************)
EXTENDS PldmInterface

NoFaults == {}
\* Everything but what leaves an instance ID allocated.
SendFaults == FaultKinds \ {"freeId", "encode"}
===============================================================================
