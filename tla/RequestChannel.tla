----------------------------- MODULE RequestChannel -----------------------------
(***************************************************************************)
(* What the PLDM interface promises of the requests it sends to the host:  *)
(* one is outstanding at a time.  It stays outstanding until it is closed, *)
(* because it was answered, timed out or is not needed any more, and only  *)
(* the retry of a reset is sent in the step that closes another request.   *)
(***************************************************************************)
CONSTANTS
    OCC,            \* instances a request can be about
    Sensor, Reset, Hreset   \* the types of requests

VARIABLE request

MsgTypes == {Sensor, Reset, Hreset}
NoRequest == [type |-> "none"]
Requests == [type : MsgTypes, occ : OCC]

Init == request = NoRequest

Send == request = NoRequest /\ request' \in Requests

Close == request # NoRequest /\ request' = NoRequest

RetryReset ==
    /\ request # NoRequest
    /\ request' \in [type : {Reset}, occ : OCC]

Next == Send \/ Close \/ RetryReset

Spec == Init /\ [][Next]_request
===============================================================================
