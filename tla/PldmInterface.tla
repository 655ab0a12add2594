------------------------------ MODULE PldmInterface ------------------------------
(***************************************************************************)
(* pldm::Interface of openpower-occ-control (pldm.cpp): the requests that  *)
(* the manager sends to the host -- read an OCC active sensor, reset the   *)
(* PM Complex, HRESET an SBE -- with their PLDM instance ID, response      *)
(* timer, retries and cancellation, and the caches of PDR information.     *)
(*                                                                         *)
(* The functions that work on the transport are operators from a state io  *)
(* of the transport to the set of states they can leave it in; a handler   *)
(* of the event loop composes them in the order of the code and is one     *)
(* action.  The callback into the manager, always the last thing that a    *)
(* handler does, is the variable told; what the manager does with it is    *)
(* the business of module OccManager, and here an event like any other.    *)
(***************************************************************************)
EXTENDS Integers, FiniteSets

CONSTANTS
    N,          \* OCCs (and SBEs) are numbered 0 .. N-1
    Faults      \* what can fail beside a request that is never answered

OCC == 0 .. (N - 1)
NoInstance == 255
Instance == OCC \cup {NoInstance}

FaultKinds == {"allocId", "freeId", "encode", "open", "send", "register",
               "receive", "noPdr"}

ASSUME NAssumption == N \in Nat /\ 0 < N /\ N < NoInstance
ASSUME FaultsAssumption == Faults \subseteq FaultKinds

Sensor == "MSG_SENSOR_STATUS"
Reset == "MSG_OCC_RESET"
Hreset == "MSG_HRESET"
MsgTypes == {Sensor, Reset, Hreset}

NoRequest == [type |-> "none"]
Requests == [type : MsgTypes, occ : OCC]

VARIABLES
    io,                 \* the transport and the request on it: see Transport
    occSensors,         \* OCCs in sensorToOCCInstance
    sbeSensors,         \* SBEs in sensorToSBEInstance
    occEffecters,       \* OCCs in occInstanceToEffecter
    sbeEffecters,       \* SBEs in sbeInstanceToEffecter
    outstandingHResets,
    hostRunning,        \* utils::isHostRunning()
    told                \* the callback that the last handler made, if any

Transport ==
    [pldmInstanceID : BOOLEAN,      \* does the optional hold an instance ID
     open : BOOLEAN,                \* pldmTransport is set, pldmFd > 0
     eventSource : {"none", "pldmRspCallback", "pldmResetCallback"},
     request : Requests \cup {NoRequest},   \* what the host was sent
     pldmRspTimer : BOOLEAN,
     pldmResponseReceived : BOOLEAN,
     pldmResponseOcc : OCC,
     msgType : MsgTypes \cup {"MSG_UNDEFINED"},
     resetInstance : OCC]

Told == [occ : OCC, state : {"running", "stopped", "dormant"}]
            \cup [occ : OCC, hreset : BOOLEAN]
            \cup [occ : {NoInstance}]

NotTold == [occ |-> NoInstance]

cacheVars == <<occSensors, sbeSensors, occEffecters, sbeEffecters>>
vars == <<io, cacheVars, outstandingHResets, hostRunning, told>>

TellNothing == told' = NotTold

\* A handler that works on the transport only.
NothingElse == TellNothing /\ UNCHANGED <<cacheVars, outstandingHResets>>

-----------------------------------------------------------------------------
(* The transport                                                             *)

\* Either outcome of an operation that may fail.
OrFault(fault, states) == IF fault \in Faults THEN states ELSE {}

freePldmInstanceId(s) ==
    {[s EXCEPT !.pldmInstanceID = FALSE]} \cup OrFault("freeId", {s})

\* An instance ID that is already held is used again.
getPldmInstanceId(s) ==
    {[s EXCEPT !.pldmInstanceID = TRUE]} \cup OrFault("allocId", {s})

pldmClose_KeepsTimer(s) ==
    {[t EXCEPT !.open = FALSE, !.eventSource = "none", !.request = NoRequest] :
        t \in freePldmInstanceId(s)}

pldmClose_KeepsId(s) ==
    {[s EXCEPT !.pldmRspTimer = FALSE, !.open = FALSE, !.eventSource = "none",
               !.request = NoRequest]}

pldmClose(s) ==
    {[t EXCEPT !.pldmRspTimer = FALSE, !.open = FALSE, !.eventSource = "none",
               !.request = NoRequest] : t \in freePldmInstanceId(s)}

\* The callback that registerPldmRspCallback registers for the response
ResponseCallback(type) ==
    IF type = Sensor THEN "pldmRspCallback" ELSE "pldmResetCallback"

\* pldmOpen fails when the transport is set up already
AlreadyOpen_NotChecked(s) == FALSE

AlreadyOpen(s) == s.open

\* The steps of sendPldm after pldmOpen, with msgType already set
Opened_ByResetInstance(s, o) ==
    [s EXCEPT !.open = TRUE, !.pldmResponseReceived = FALSE,
              !.pldmResponseOcc = s.resetInstance,
              !.eventSource = ResponseCallback(s.msgType)]

Opened(s, o) ==
    [s EXCEPT !.open = TRUE, !.pldmResponseReceived = FALSE,
              !.pldmResponseOcc = o,
              !.eventSource = ResponseCallback(s.msgType)]

Sent_NoTimer(s, o) ==
    [Opened(s, o) EXCEPT !.request = [type |-> s.msgType, occ |-> o]]

Sent(s, o) ==
    [Opened(s, o) EXCEPT !.request = [type |-> s.msgType, occ |-> o],
                         !.pldmRspTimer = TRUE]

\* sendPldm(request, o, true)
sendPldm(s, o) ==
    IF AlreadyOpen(s) THEN freePldmInstanceId(s)
    ELSE {Sent(s, o)}
         \cup OrFault("open", freePldmInstanceId(s))
         \cup OrFault("send", pldmClose(Opened(s, o)))
         \cup OrFault("register", {[Sent(s, o) EXCEPT !.eventSource = "none"]})

\* Encode a request with an instance ID, then send it: the statements that set
\* msgType and resetInstance come first.
EncodeAndSend(s, type, o) ==
    sendPldm([s EXCEPT !.pldmInstanceID = TRUE,
                       !.msgType = type,
                       !.resetInstance = IF type = Sensor THEN @ ELSE o], o)

\* No request comes out: there is no instance ID, or it cannot be encoded (a
\* sensor request is sent even so).
NotEncoded(s, type) ==
    {t \in getPldmInstanceId(s) : ~ t.pldmInstanceID}
        \cup OrFault("encode", IF type = Sensor THEN {}
                               ELSE {[s EXCEPT !.pldmInstanceID = TRUE]})

-----------------------------------------------------------------------------
(* The caches of PDR information                                             *)

\* What a search for PDRs finds: instances are numbered from 0 in the order of
\* the IDs of the sensors or effecters.
Pdrs_FromOne == {1 .. N}

Pdrs == {OCC} \cup OrFault("noPdr", {0 .. (k - 1) : k \in 0 .. (N - 1)})

Fetched(cache) == IF cache = {} THEN Pdrs ELSE {cache}

\* clearData: the manager is told that each known OCC has stopped
ClearData ==
    /\ occSensors' = {} /\ sbeSensors' = {}
    /\ occEffecters' = {} /\ sbeEffecters' = {}
    /\ outstandingHResets' = {}
    /\ \/ occSensors = {} /\ TellNothing
       \/ \E o \in occSensors :
             /\ \A p \in occSensors : p <= o
             /\ told' = [occ |-> o, state |-> "stopped"]

\* resetOCC(o), called with the transport in state s
ResetOCC(s, o) ==
    \/ /\ hostRunning
       /\ \E effecters \in Fetched(occEffecters) :
             /\ occEffecters' = effecters
             /\ \/ o \notin effecters /\ io' = s
                \/ /\ o \in effecters
                   /\ io' \in EncodeAndSend(s, Reset, o) \cup NotEncoded(s, Reset)
       /\ TellNothing
       /\ UNCHANGED <<occSensors, sbeSensors, sbeEffecters, outstandingHResets>>
    \/ ~ hostRunning /\ ClearData /\ io' = s

-----------------------------------------------------------------------------
(* Calls by the manager                                                      *)

\* resetOCC, of the instance that initiateOccRequest was given
ManagerResets ==
    /\ \E o \in Instance : ResetOCC(io, o)
    /\ UNCHANGED hostRunning

\* sendHRESET.  An encoded request is recorded as outstanding, sent or not.
SendHRESET(o) ==
    \/ /\ hostRunning
       /\ \E effecters \in Fetched(sbeEffecters) :
          /\ sbeEffecters' = effecters
          /\ \/ o \notin effecters /\ UNCHANGED <<io, outstandingHResets>>
             \/ /\ o \in effecters
                /\ io' \in NotEncoded(io, Hreset)
                /\ UNCHANGED outstandingHResets
             \/ /\ o \in effecters
                /\ io' \in EncodeAndSend(io, Hreset, o)
                /\ outstandingHResets' = outstandingHResets \cup {o}
       /\ TellNothing
       /\ UNCHANGED <<occSensors, sbeSensors, occEffecters>>
    \/ ~ hostRunning /\ ClearData /\ UNCHANGED io

ManagerHresets ==
    /\ \E o \in OCC : SendHRESET(o)
    /\ UNCHANGED hostRunning

\* checkActiveSensor: the callers have seen the host running, which may have
\* stopped since; there is nothing to do while a response is awaited.
CheckActiveSensor(o) ==
    /\ ~ io.open
    /\ \E sensors \in Fetched(occSensors) :
          \/ /\ o \in sensors
             /\ occSensors' = sensors
             /\ io' \in EncodeAndSend(io, Sensor, o) \cup NotEncoded(io, Sensor)
          \/ /\ o \notin sensors
             /\ \E more \in Pdrs : occSensors' = sensors \cup more
             /\ UNCHANGED io
    /\ TellNothing
    /\ UNCHANGED <<sbeSensors, occEffecters, sbeEffecters, outstandingHResets>>

ManagerChecks ==
    /\ \E o \in OCC : CheckActiveSensor(o)
    /\ UNCHANGED hostRunning

-----------------------------------------------------------------------------
(* Events                                                                    *)

\* pldmRspExpired: nothing was received, so the request is given up; a reset is
\* requested again, of the OCC of the last request.
RetriesReset_Never(s) == FALSE

RetriesReset(s) == s.msgType = Reset

PldmRspExpired ==
    /\ io.pldmRspTimer
    /\ \E closed \in IF io.pldmResponseReceived
                     THEN {[io EXCEPT !.pldmRspTimer = FALSE]} ELSE pldmClose(io) :
          IF ~ io.pldmResponseReceived /\ RetriesReset(io)
          THEN ResetOCC(closed, io.pldmResponseOcc)
          ELSE io' = closed /\ NothingElse
    /\ UNCHANGED hostRunning

\* A callback that returns -1 before it has read the response disables its
\* event source: no instance ID is held, or receiving fails.
ResponseNotRead ==
    /\ io.eventSource # "none"
    /\ ~ io.pldmInstanceID \/ "receive" \in Faults
    /\ io' = [io EXCEPT !.eventSource = "none"]
    /\ NothingElse /\ UNCHANGED hostRunning

\* pldmRspCallback: the sensor could not be read
SensorRefused ==
    /\ io.eventSource = "pldmRspCallback" /\ io.pldmInstanceID
    /\ io' \in pldmClose(io)
    /\ NothingElse /\ UNCHANGED hostRunning

\* ... or its state is returned, which may be one that is not expected
SensorRead ==
    /\ io.eventSource = "pldmRspCallback" /\ io.pldmInstanceID
    /\ \E closed \in pldmClose(io) :
          io' = [closed EXCEPT !.pldmResponseReceived = TRUE]
    /\ \/ TellNothing
       \/ \E state \in {"running", "stopped", "dormant"} :
             told' = [occ |-> io.pldmResponseOcc, state |-> state]
    /\ UNCHANGED <<cacheVars, outstandingHResets, hostRunning>>

\* pldmResetCallback: the reset or HRESET was started
ResetAccepted ==
    /\ io.eventSource = "pldmResetCallback" /\ io.pldmInstanceID
    /\ \E closed \in pldmClose(io) :
          io' = [closed EXCEPT !.pldmResponseReceived = TRUE]
    /\ NothingElse /\ UNCHANGED hostRunning

\* ... or refused; a reset is requested again
ResetRefused ==
    /\ io.eventSource = "pldmResetCallback" /\ io.pldmInstanceID
    /\ \E closed \in pldmClose(io) :
          IF RetriesReset(io) THEN ResetOCC(closed, io.resetInstance)
          ELSE io' = closed /\ NothingElse
    /\ UNCHANGED hostRunning

\* The first part of sensorEvent
FetchSensors ==
    occSensors' \in Fetched(occSensors) /\ sbeSensors' \in Fetched(sbeSensors)

\* The request that an event of OCC o makes unnecessary
AnsweredBy(o) == io.open /\ io.pldmResponseOcc = o

\* sensorEvent about an OCC; a response awaited for that OCC is not needed
OccSensorEvent ==
    /\ FetchSensors
    /\ \E o \in occSensors', state \in {"running", "stopped", "dormant"} :
          /\ io' \in IF AnsweredBy(o) THEN pldmClose(io) ELSE {io}
          /\ told' = [occ |-> o, state |-> state]
    /\ UNCHANGED <<occEffecters, sbeEffecters, outstandingHResets, hostRunning>>

\* The result of the HRESET of an SBE is not awaited any more.
HresetEnds_NotErased(o) == UNCHANGED outstandingHResets

HresetEnds(o) == outstandingHResets' = outstandingHResets \ {o}

\* sensorEvent about an SBE: the result of an HRESET, or a failure without one
SbeSensorEvent ==
    /\ FetchSensors
    /\ \E o \in sbeSensors', ready \in BOOLEAN :
          \/ /\ o \in outstandingHResets
             /\ HresetEnds(o)
             /\ told' = [occ |-> o, hreset |-> ready]
          \/ /\ o \notin outstandingHResets /\ ~ ready
             /\ told' = [occ |-> o, state |-> "stopped"]
             /\ UNCHANGED outstandingHResets
    /\ UNCHANGED <<io, occEffecters, sbeEffecters, hostRunning>>

\* sensorEvent about an unknown sensor or with a state that has no effect
OtherSensorEvent ==
    /\ FetchSensors
    /\ TellNothing
    /\ UNCHANGED <<io, occEffecters, sbeEffecters, outstandingHResets,
                   hostRunning>>

\* hostStateEvent with the host state Off, whatever BootProgress says by then
HostStateOff ==
    /\ ClearData
    /\ UNCHANGED <<io, hostRunning>>

HostBootsOrStops ==
    /\ hostRunning' = ~ hostRunning
    /\ UNCHANGED io /\ NothingElse

-----------------------------------------------------------------------------

Init ==
    /\ io = [pldmInstanceID |-> FALSE, open |-> FALSE, eventSource |-> "none",
             request |-> NoRequest, pldmRspTimer |-> FALSE,
             pldmResponseReceived |-> FALSE, pldmResponseOcc |-> 0,
             msgType |-> "MSG_UNDEFINED", resetInstance |-> 0]
    /\ occSensors = {} /\ sbeSensors = {}
    /\ occEffecters = {} /\ sbeEffecters = {}
    /\ outstandingHResets = {}
    /\ hostRunning \in BOOLEAN
    /\ told = NotTold

Next ==
    \/ ManagerResets \/ ManagerHresets \/ ManagerChecks
    \/ PldmRspExpired \/ ResponseNotRead
    \/ SensorRefused \/ SensorRead \/ ResetAccepted \/ ResetRefused
    \/ OccSensorEvent \/ SbeSensorEvent \/ OtherSensorEvent
    \/ HostStateOff \/ HostBootsOrStops

Spec == Init /\ [][Next]_vars

\* The event loop serves its timers.
FairSpec == Spec /\ WF_vars(PldmRspExpired)

-----------------------------------------------------------------------------
(* Properties that hold                                                      *)

\* Every variable has its type.
TypeOK ==
    /\ io \in Transport
    /\ occSensors \subseteq OCC /\ sbeSensors \subseteq OCC
    /\ occEffecters \subseteq OCC /\ sbeEffecters \subseteq OCC
    /\ outstandingHResets \subseteq OCC
    /\ hostRunning \in BOOLEAN
    /\ told \in Told

\* A transport is open exactly while the response timer runs, and then the host
\* has been sent a request that it has not answered; the event source of a
\* transport goes with it.
Timed(s) ==
    /\ s.open <=> s.pldmRspTimer
    /\ s.open <=> s.request # NoRequest
    /\ s.open => ~ s.pldmResponseReceived
    /\ s.eventSource # "none" => s.open

\* Whatever fails between opening and sending, no transport stays open for ever,
\* which would block every later request (pldmOpen, checkActiveSensor).
OpenIsTimed == Timed(io)

\* The instance ID, of which the system has few, is given back with the
\* transport, whichever of the calls in between fails, unless encoding the
\* request or freeing the ID itself does (freePldmInstanceId, pldmClose).
IdIsReturned ==
    Faults \cap {"encode", "freeId"} = {} => (io.pldmInstanceID => io.open)

\* The awaited response is about the OCC of the request that was sent and has
\* the callback for its type.
Matched(s) ==
    s.request # NoRequest =>
        /\ s.request.occ = s.pldmResponseOcc
        /\ s.eventSource \in {"none", ResponseCallback(s.request.type)}

\* So it is although a later request that cannot be sent has already set msgType
\* and resetInstance (sendPldm).
ResponseMatchesRequest == Matched(io)

\* A reset that the host was asked for ends only if the host accepts it, is not
\* running any more, or reports the state of the same OCC; or when another
\* request of the manager changed msgType while it was outstanding.
ResetIsRetried ==
    [][ io.request.type = Reset /\ io'.request.type # Reset
        => \/ ResetAccepted \/ ~ hostRunning \/ io.msgType # Reset
           \/ OccSensorEvent /\ told'.occ = io.request.occ ]_vars

\* One request is outstanding at a time, and no other request takes its place
\* but the retry of a reset: the interface implements a RequestChannel.
Channel == INSTANCE RequestChannel WITH request <- io.request
ImplementsChannel == Channel!Spec

\* The query of a sensor ends, answered or not, so that the manager can ask for
\* the next one.
QueryEnds ==
    \A o \in OCC :
        LET query == io.request = [type |-> Sensor, occ |-> o]
        IN query ~> ~ query

-----------------------------------------------------------------------------
(* Properties that comments of the code state and the code does not have     *)

\* "reset not acked, try again": what is requested again when the timer expires
\* was requested before.
OnlyUnackedRetried ==
    [][ PldmRspExpired /\ io'.request # NoRequest
        => io'.request = io.request ]_vars
===============================================================================
