------------------------------ MODULE OccSystem ------------------------------
(***************************************************************************)
(* The manager and the PLDM interface together, on one event loop: what    *)
(* each module leaves to an event of its environment is here a call of the *)
(* other one.  The manager asks for sensors, resets and HRESETs in the     *)
(* middle of its handlers; the handlers of the interface call back into    *)
(* the manager at their end.  hostRunning and the outstanding HRESETs are  *)
(* shared.                                                                 *)
(*                                                                         *)
(* clearData is the one function that takes more than one step: each OCC   *)
(* whose sensor is known has its callback run before the next one, and the *)
(* caches are cleared last.                                                *)
(***************************************************************************)
EXTENDS Integers, Sequences, FiniteSets

CONSTANTS N, Masters, ManagerFaults, PldmFaults

VARIABLES
    statusObjects, prevOCCSearch, waitingForAllOccActiveSensors,
    allActiveSensorAvailable, queuedActiveState, activeCount, resetRequired,
    resetInstance, resetInProgress, pollTimer, discoverTimer,
    waitForAllOccsTimer, occActive, sensorReceived, bound, watch, presence,
    todo,
    io, occSensors, sbeSensors, occEffecters, sbeEffecters, told,
    hostRunning, hresets

Manager == INSTANCE OccManager WITH Faults <- ManagerFaults
Pldm == INSTANCE PldmInterface WITH Faults <- PldmFaults,
                                    outstandingHResets <- hresets

\* What the two modules assume of their constants
ASSUME NAssumption == N \in Nat /\ 0 < N /\ N < Manager!NoInstance
ASSUME MastersAssumption == Masters \subseteq Manager!OCC
ASSUME FaultsAssumption ==
    ManagerFaults \subseteq Manager!FaultKinds /\ PldmFaults \subseteq Pldm!FaultKinds

cacheVars == <<occSensors, sbeSensors, occEffecters, sbeEffecters>>
pldmOnly == <<io, cacheVars>>
\* what updateOCCActive leaves to the calls that it makes
untold == <<statusObjects, prevOCCSearch, allActiveSensorAvailable, activeCount,
            resetRequired, resetInstance, resetInProgress, pollTimer,
            waitForAllOccsTimer, occActive, bound, watch, presence>>
managerOnly == <<untold, waitingForAllOccActiveSensors, queuedActiveState,
                 discoverTimer, sensorReceived>>
vars == <<managerOnly, pldmOnly, told, hostRunning, hresets, todo>>

self == Manager!self

(***************************************************************************)
(* The manager calls the interface                                         *)
(***************************************************************************)

\* A step that does not reach the interface
WithoutPldm == UNCHANGED pldmOnly /\ Pldm!TellNothing

\* checkActiveSensor does nothing while a response is awaited.
AskForSensor(o) == IF io.open THEN WithoutPldm ELSE Pldm!CheckActiveSensor(o)

\* The sensor of an OCC that is neither active nor queued is asked for.
Asked(o) == o \in statusObjects /\ ~occActive[o] /\ o \notin queuedActiveState

CheckSensor ==
    /\ Manager!CheckSensor
    /\ IF /\ Asked(self) /\ ~sensorReceived[self]
          /\ ~Manager!NoSensorsYet /\ ~resetInProgress
       THEN AskForSensor(self)
       ELSE WithoutPldm

ValidateOcc ==
    /\ Manager!ValidateOcc
    /\ IF Asked(self) /\ hostRunning THEN AskForSensor(self) ELSE WithoutPldm

PldmResetOCC ==
    /\ Manager!PldmResetOCC
    /\ IF hostRunning THEN Pldm!ResetOCC(io, self) ELSE WithoutPldm

SendHRESET ==
    /\ Manager!SendHRESET
    /\ IF hostRunning THEN Pldm!SendHRESET(self) ELSE WithoutPldm

ClearData ==
    /\ Manager!Running("clearData")
    /\ IF \E o \in occSensors : o >= self
       THEN Manager!ClearNext /\ WithoutPldm
       ELSE /\ Manager!ClearEnd
            /\ occSensors' = {} /\ sbeSensors' = {}
            /\ occEffecters' = {} /\ sbeEffecters' = {}
            /\ UNCHANGED io /\ Pldm!TellNothing

ManagerAlone ==
    /\ \/ Manager!Activate \/ Manager!Deactivate \/ Manager!Unbind
       \/ Manager!SetProperty \/ Manager!DeviceError \/ Manager!ResetOCC
       \/ Manager!WentActive \/ Manager!StartPoll \/ Manager!RestartWait
       \/ Manager!WentInactive \/ Manager!CheckWaiting \/ Manager!CheckAllEnd
       \/ Manager!ClearQueue \/ Manager!ResetOccRequest
       \/ Manager!InitiateOccRequest \/ Manager!StopOccs \/ Manager!ResetSent
       \/ Manager!PollerTimerExpired \/ Manager!PollOcc
       \/ Manager!ValidateMaster \/ Manager!UpdateOCCInactive
       \/ Manager!HostPoweredOff
    /\ WithoutPldm

Step ==
    \/ ManagerAlone \/ CheckSensor \/ ValidateOcc \/ PldmResetOCC
    \/ SendHRESET \/ ClearData

(***************************************************************************)
(* The interface calls the manager                                         *)
(***************************************************************************)

\* updateOCCActive(o, true)
TellRunning(o) ==
    /\ Manager!UpdateOCCActive(o)
    /\ UNCHANGED untold

Starts(call) == todo' = <<call>> /\ UNCHANGED managerOnly

\* The callback that the handler makes at its end
Deliver ==
    LET o == told'.occ
    IN \/ told' = Pldm!NotTold /\ UNCHANGED <<managerOnly, todo>>
       \/ "state" \in DOMAIN told' /\ told'.state = "running" /\ TellRunning(o)
       \/ /\ "state" \in DOMAIN told' /\ told'.state # "running"
          /\ Starts(Manager!Call("updateOCCInactive", o))
       \/ /\ "hreset" \in DOMAIN told'
          /\ Manager!SbeHRESETResult(o, told'.hreset)
          /\ UNCHANGED managerOnly

\* The handlers of responses and events
PldmHandler ==
    \/ Pldm!ResponseNotRead \/ Pldm!SensorRefused \/ Pldm!SensorRead
    \/ Pldm!ResetAccepted
    \/ hostRunning /\ (Pldm!PldmRspExpired \/ Pldm!ResetRefused)
    \/ Pldm!OccSensorEvent \/ Pldm!SbeSensorEvent \/ Pldm!OtherSensorEvent

PldmEvent == Manager!Idle /\ PldmHandler /\ Deliver

\* The response timer, or a refusal, while the host is not running: what would
\* be a retry of a reset clears the data.
GivenUp ==
    /\ Manager!Idle /\ ~hostRunning
    /\ io.pldmRspTimer \/ io.eventSource = "pldmResetCallback"
    /\ io' \in Pldm!pldmClose(io)
    /\ IF Pldm!RetriesReset(io) THEN Starts(Manager!Call("clearData", 0))
       ELSE UNCHANGED <<managerOnly, todo>>
    /\ Pldm!TellNothing
    /\ UNCHANGED <<cacheVars, hresets, hostRunning>>

(***************************************************************************)
(* Events of the manager                                                   *)
(***************************************************************************)
ManagerEvent ==
    /\ \/ Manager!HostChanges
       \/ Manager!DiscoverTimerExpired \/ Manager!PollTimerExpired
       \/ Manager!WaitTimerExpired \/ Manager!OccError
       \/ Manager!PresenceMismatch \/ Manager!SbeTimeout \/ Manager!DBusWrite
       \/ Manager!HostStateOff
    /\ WithoutPldm

Init == Manager!Init /\ Pldm!Init

Next == Step \/ PldmEvent \/ GivenUp \/ ManagerEvent

Spec == Init /\ [][Next]_vars

\* The response in SensorRead, or an event, that says that OCC o is in service
\* or has stopped
HostAnswers(o) ==
    /\ Manager!Idle /\ Pldm!SensorRead /\ Deliver
    /\ told' \in {[occ |-> o, state |-> state] : state \in {"running", "stopped"}}

RspTimerExpires ==
    (Manager!Idle /\ hostRunning /\ Pldm!PldmRspExpired /\ Deliver) \/ GivenUp

HostAccepts == Manager!Idle /\ Pldm!ResetAccepted /\ Deliver

\* Handlers run to their end and the loop serves its timers, however busy it
\* is.  A host that is asked again and again answers at last: that is what the
\* retries of the code rely on.
FairSpec ==
    /\ Spec
    /\ WF_vars(Step)
    /\ SF_vars(Manager!PollTimerExpired /\ WithoutPldm)
    /\ SF_vars(Manager!DiscoverTimerExpired /\ WithoutPldm)
    /\ SF_vars(RspTimerExpires)
    /\ SF_vars(HostAccepts)
    /\ \A o \in Manager!OCC : SF_vars(HostAnswers(o))

(***************************************************************************)
(* Properties                                                              *)
(***************************************************************************)

\* Together the two behave as the manager does in its open environment: what
\* holds of OccManager holds of the system, and nothing that its environment may
\* do is left out there.
ImplementsManager == Manager!Spec

\* A reset that is required while the OCCs are polled is started (or found to
\* be obsolete) unless polling stops first (pollerTimerExpired).
ResetServed == Manager!ResetServed

\* A reset that the host was asked for ends only if the host accepts it, is not
\* running any more, or reports the state of the same OCC; or when another
\* request of the manager changed msgType while it was outstanding.
ResetIsRetried == Pldm!ResetIsRetried

\* The manager does not wait for OCC active sensors for ever: once the host
\* stays up, queries that are refused, lost, or kept from being sent by another
\* request are repeated until the sensor of each OCC has come in, unless a
\* reset is in progress, during which no sensor is asked for.
SensorsComeIn ==
    []<>(hostRunning => ~waitingForAllOccActiveSensors \/ resetInProgress)
=============================================================================
