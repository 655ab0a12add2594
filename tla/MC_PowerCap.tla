------------------------------ MODULE MC_PowerCap ------------------------------
(***************************************************************************)
(* Instances of PowerCap for TLC: bounds of the OCC that round in all      *)
(* ways, and caps below, at, between and above the limits they give.       *)
(***************************************************************************)
EXTENDS PowerCap

\* In input power: 10 to 12 W and 12 to 13 W.
TwoBounds == {[softMin |-> 9, max |-> 11], [softMin |-> 10, max |-> 12]}
SomeCaps == {0, 8, 11, 12, 15}
================================================================================
