----------------------------- MODULE MC_OccSystem -----------------------------
(***************************************************************************)
(* Instances of OccSystem for TLC: what may fail.                          *)
(***************************************************************************)
EXTENDS OccSystem

OneMaster == {0}
\* An SBE that needs an HRESET, a host that stops.
RecoveryFaults == {"sbeTimeout", "hostOff"}
ReceiveFault == {"receive"}
=============================================================================
