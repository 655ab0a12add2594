----------------------------- MODULE MC_OccCommand -----------------------------
(***************************************************************************)
(* Instances of OccCommand for TLC: POLL, which is encoded as 0, and       *)
(* another command.                                                        *)
(***************************************************************************)
EXTENDS OccCommand

CONSTANT SET_MODE

AllCommands == {POLL, SET_MODE}
DumpedCommands == <<POLL, SET_MODE>>
=============================================================================
