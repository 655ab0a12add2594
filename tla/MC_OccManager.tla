---------------------------- MODULE MC_OccManager ----------------------------
(***************************************************************************)
(* Instances of OccManager for TLC: which OCCs are masters, and what the   *)
(* environment may do.                                                     *)
(***************************************************************************)
EXTENDS OccManager

\* The usual system: OCC0 is the master.
OneMaster == {0}

NoFaults == {}
StateFaults == {"readState"}
AllFaults == FaultKinds

\* The bound of OccManager_faults: what follows the HRESET of another SBE than
\* the master's is left out while it is awaited.
HresetOfMaster == hresets \subseteq Masters
==============================================================================
