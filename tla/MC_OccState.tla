------------------------------ MODULE MC_OccState ------------------------------
(***************************************************************************)
(* Instances of OccState for TLC: what may fail.                           *)
(***************************************************************************)
EXTENDS OccState

AllFaults == FaultKinds
ReadFaults == {"read"}

\* A failed sensor beside one without a reading, alone and with a third one
\* that has a reading, in every order; and one file.
Pair == {<<NaN, 0>>, <<0, NaN>>}
Triple == {d \in [1 .. 3 -> {NaN, 0, 1}] : {d[1], d[2], d[3]} = {NaN, 0, 1}}
SomeDirectories == Pair \cup Triple
OneFile == {<<1>>}
=============================================================================
