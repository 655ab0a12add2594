----------------------------- MODULE MC_PowerMode -----------------------------
(***************************************************************************)
(* Instances of PowerMode for TLC: the defaults of the entity manager and  *)
(* what clients write.                                                     *)
(***************************************************************************)
EXTENDS PowerMode

\* The enter utilization is above the exit utilization.
OutOfOrder == [enter |-> 2, exit |-> 1]

\* Out of order with the default exit utilization, and the request for defaults
SomeWrites == {[prop |-> "enter", value |-> 2], [prop |-> "exit", value |-> 0]}
NoWrites == {}

\* All but a watch that cannot be set up
ManyFaults == FaultKinds \ {"watch"}
NoFaults == {}
=============================================================================
