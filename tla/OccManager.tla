------------------------------ MODULE OccManager ------------------------------
(***************************************************************************)
(* The OCC manager of openpower-occ-control: discovery of the OCCs, their  *)
(* activation and deactivation, polling, and the request of a PM Complex   *)
(* reset (occ_manager.cpp), with the part of every Status object that the  *)
(* manager drives and is driven by (occ_status.cpp, occ_device.cpp).       *)
(*                                                                         *)
(* The program is one event loop: a handler runs to completion before the  *)
(* next event.  Handlers call each other re-entrantly, though: setting     *)
(* occActive calls Manager::statusCallBack, which may poll, validate the   *)
(* master or start a reset, each of which sets occActive of the same or of *)
(* another OCC.  The variable todo is the call stack: its head is the call *)
(* to execute next, and executing it replaces it by the calls it makes     *)
(* followed by what is left to do after them.  Events are accepted only    *)
(* when todo is empty; the host alone may start or stop in the middle of a  *)
(* nest of handlers, each of which asks D-Bus again whether it is running.  *)
(***************************************************************************)
EXTENDS Integers, Sequences, FiniteSets

CONSTANTS
    N,          \* OCCs are numbered 0 .. N-1
    Masters,    \* the OCCs whose sysfs file occ_master reads 1 while bound
    Faults      \* what the environment may do beside the normal IPL

OCC == 0 .. (N - 1)
NoInstance == 255       \* resetInstance of no OCC; no master found

FaultKinds == {"addWatch", "readState", "occError", "presence", "sbeTimeout",
               "dbusWrite", "hostOff", "driverBound", "missingOcc"}

ASSUME NAssumption == N \in Nat /\ 0 < N /\ N < NoInstance
ASSUME MastersAssumption == Masters \subseteq OCC
ASSUME FaultsAssumption == Faults \subseteq FaultKinds

VARIABLES
    \* ---- Manager ----
    statusObjects,      \* the OCCs that have a Status object
    prevOCCSearch,      \* how many OCCs the previous search of /dev found
    waitingForAllOccActiveSensors,
    allActiveSensorAvailable,
    queuedActiveState,
    activeCount,
    resetRequired,
    resetInstance,
    resetInProgress,
    pollTimer,          \* is _pollTimer enabled
    discoverTimer,
    waitForAllOccsTimer,
    \* ---- Status and Device, one per OCC ----
    occActive,          \* the D-Bus property OccActive
    sensorReceived,     \* pldmSensorStateReceived
    bound,              \* what the sysfs file occ_active reads
    watch,              \* the error watches: "off", "partial" or "on"
    presence,           \* is the presence watch registered
    \* ---- environment and control ----
    hostRunning,        \* utils::isHostRunning()
    hresets,            \* HRESETs requested of the host and not answered
    todo                \* the call stack

mgrVars == <<statusObjects, prevOCCSearch>>
sensorVars == <<waitingForAllOccActiveSensors, allActiveSensorAvailable,
                queuedActiveState, discoverTimer>>
resetVars == <<resetRequired, resetInstance, resetInProgress>>
pollVars == <<activeCount, pollTimer, waitForAllOccsTimer>>
occVars == <<occActive, sensorReceived, bound, watch, presence>>
hostVars == <<hostRunning, hresets>>
vars == <<mgrVars, sensorVars, resetVars, pollVars, occVars, hostVars, todo>>

\* The functions that are about one OCC, those that are loops over the OCCs (or
\* the rest of such a loop from an index on), and the others, which have the
\* instance of a reset as their argument or none.
OccCalls ==
    {"activate", "deactivate", "unbind", "setActive", "setInactive",
     "deviceError", "resetOCC", "resetOccRequest", "wentActive", "wentInactive",
     "startPoll", "checkWaiting", "validateMaster", "sendHRESET",
     "updateOCCInactive"}
LoopCalls == {"checkSensor", "stopOccs", "pollOcc", "validateOcc", "clearData"}
ManagerCalls ==
    {"initiateOccRequest", "pldmResetOCC", "resetSent", "restartWait",
     "checkAllEnd", "clearQueue", "pollerTimerExpired", "hostPoweredOff"}

Instance == OCC \cup {NoInstance}

\* A call: the function, the OCC (or loop index) it is about, one more argument.
Frame == [fn : OccCalls, occ : OCC, arg : Instance]
            \cup [fn : LoopCalls, occ : 0 .. N, arg : Instance]
            \cup [fn : ManagerCalls, occ : Instance, arg : Instance]

Call2(f, o, a) == [fn |-> f, occ |-> o, arg |-> a]
Call(f, o) == Call2(f, o, NoInstance)

Idle == todo = <<>>
Running(f) == todo # <<>> /\ Head(todo).fn = f
self == Head(todo).occ
arg == Head(todo).arg

Return == todo' = Tail(todo)
Calls(s) == todo' = s \o Tail(todo)
ReturnOr(cond, s) == IF cond THEN Calls(s) ELSE Return

-----------------------------------------------------------------------------
(* Status: the occActive property and the device behind it                   *)

\* Device::readBinary reads 0 while the D-Bus property is false.  An OCC that the
\* driver is not bound to answers no poll, from which occ_master is read.
DeviceActive(o) == occActive[o] /\ bound[o]
DeviceMaster(o) == DeviceActive(o) /\ o \in Masters

\* addErrorWatch of an OCC: succeeds, or throws OpenFailure half way.
AddErrorWatch(o, ok) ==
    watch' = [watch EXCEPT ![o] = IF ok THEN "on" ELSE "partial"]

AddWatchResults == IF "addWatch" \in Faults THEN BOOLEAN ELSE {TRUE}

\* What follows the error watch: deviceError if it failed, else the callback
\* into the manager when the OCC was inactive.
AfterWatch(o, ok) ==
    IF ~ ok THEN <<Call("deviceError", o), Call("setInactive", o)>>
    ELSE IF occActive[o] THEN <<Call("setActive", o)>>
    ELSE <<Call("wentActive", o), Call("setActive", o)>>

\* Status::occActive(true): inactive OCC (first branch), active OCC with a
\* device that lost its binding (second branch), or nothing to do.  The closing
\* Base::Status::occActive(value) runs after the callback into the manager.
Activate ==
    /\ Running("activate")
    /\ \/ /\ occActive[self] /\ DeviceActive(self)
          /\ Calls(<<Call("setActive", self)>>)
          /\ UNCHANGED occVars
       \/ /\ ~ (occActive[self] /\ DeviceActive(self))
          /\ bound' = [bound EXCEPT ![self] = TRUE]
          /\ presence' = [presence EXCEPT ![self] = @ /\ ~ occActive[self]]
          /\ \E ok \in AddWatchResults :
                /\ AddErrorWatch(self, ok)
                /\ occActive' = [occActive EXCEPT ![self] = @ \/ ok]
                /\ Calls(AfterWatch(self, ok))
          /\ UNCHANGED sensorReceived
    /\ UNCHANGED <<mgrVars, sensorVars, resetVars, pollVars, hostVars>>

\* Status::occActive(false).  The third branch of the code, which unbinds an
\* inactive OCC whose device is active, is never taken: DeviceActive is false
\* whenever the property is.
Deactivate_NotTold ==
    /\ Running("deactivate")
    /\ Calls(IF occActive[self]
             THEN <<Call("unbind", self), Call("setInactive", self)>>
             ELSE <<Call("setInactive", self)>>)
    /\ UNCHANGED <<mgrVars, sensorVars, resetVars, pollVars, occVars, hostVars>>

Deactivate ==
    /\ Running("deactivate")
    /\ Calls(IF occActive[self]
             THEN <<Call("wentInactive", self), Call("unbind", self),
                    Call("setInactive", self)>>
             ELSE <<Call("setInactive", self)>>)
    /\ UNCHANGED <<mgrVars, sensorVars, resetVars, pollVars, occVars, hostVars>>

\* Status::occActive(false) after the callback: no more watches, device inactive.
Unbind_KeepsWatches ==
    /\ Running("unbind")
    /\ bound' = [bound EXCEPT ![self] = FALSE]
    /\ Return
    /\ UNCHANGED <<occActive, sensorReceived, watch, presence>>
    /\ UNCHANGED <<mgrVars, sensorVars, resetVars, pollVars, hostVars>>

Unbind ==
    /\ Running("unbind")
    /\ bound' = [bound EXCEPT ![self] = FALSE]
    /\ watch' = [watch EXCEPT ![self] = "off"]
    /\ presence' = [presence EXCEPT ![self] = FALSE]
    /\ Return
    /\ UNCHANGED <<occActive, sensorReceived>>
    /\ UNCHANGED <<mgrVars, sensorVars, resetVars, pollVars, hostVars>>

\* return Base::Status::occActive(value)
SetProperty ==
    /\ Running("setActive") \/ Running("setInactive")
    /\ occActive' = [occActive EXCEPT ![self] = Head(todo).fn = "setActive"]
    /\ Return
    /\ UNCHANGED <<sensorReceived, bound, watch, presence>>
    /\ UNCHANGED <<mgrVars, sensorVars, resetVars, pollVars, hostVars>>

\* Status::deviceError, then Status::resetOCC
DeviceError ==
    /\ Running("deviceError")
    /\ Calls(<<Call("deactivate", self), Call("resetOCC", self)>>)
    /\ UNCHANGED <<mgrVars, sensorVars, resetVars, pollVars, occVars, hostVars>>

ResetOCC ==
    /\ Running("resetOCC")
    /\ Calls(<<Call("deactivate", self), Call("resetOccRequest", self)>>)
    /\ UNCHANGED <<mgrVars, sensorVars, resetVars, pollVars, occVars, hostVars>>

-----------------------------------------------------------------------------
(* Manager: statusCallBack                                                   *)

\* What statusCallBack(instance, true) calls once count OCCs are active
AfterCount_NoPoll(count) ==
    IF count < Cardinality(statusObjects) THEN <<Call("checkWaiting", self)>>
    ELSE <<Call("validateOcc", 0), Call("checkWaiting", self)>>

AfterCount_NotValidated(count) ==
    (IF count = Cardinality(statusObjects) /\ resetRequired
     THEN <<Call("initiateOccRequest", resetInstance), Call("restartWait", NoInstance)>>
     ELSE <<>>)
    \o <<Call("startPoll", self), Call("checkWaiting", self)>>

AfterCount(count) ==
    (IF count # Cardinality(statusObjects) THEN <<>>
     ELSE IF resetRequired
     THEN <<Call("initiateOccRequest", resetInstance), Call("restartWait", NoInstance)>>
     ELSE <<Call("validateOcc", 0)>>)
    \o <<Call("startPoll", self), Call("checkWaiting", self)>>

\* statusCallBack(instance, true)
WentActive ==
    /\ Running("wentActive")
    /\ IF resetInProgress
       THEN Return /\ UNCHANGED <<activeCount, waitForAllOccsTimer>>
       ELSE LET count == activeCount + 1
                all == count = Cardinality(statusObjects)
            IN /\ activeCount' = count
               /\ waitForAllOccsTimer' =
                    ((waitForAllOccsTimer \/ count = 1) /\ ~ all)
               /\ Calls(AfterCount(count))
    /\ UNCHANGED pollTimer
    /\ UNCHANGED <<mgrVars, sensorVars, resetVars, occVars, hostVars>>

\* if (!_pollTimer->isEnabled()) { ... pollerTimerExpired(); }
StartPoll ==
    /\ Running("startPoll")
    /\ resetRequired' = (resetRequired /\ pollTimer)
    /\ ReturnOr(~ pollTimer, <<Call("pollerTimerExpired", NoInstance)>>)
    /\ UNCHANGED <<resetInstance, resetInProgress>>
    /\ UNCHANGED <<mgrVars, sensorVars, pollVars, occVars, hostVars>>

\* if (waitForAllOccsTimer is not enabled) restart it
RestartWait ==
    /\ Running("restartWait")
    /\ waitForAllOccsTimer' = TRUE
    /\ Return
    /\ UNCHANGED <<activeCount, pollTimer>>
    /\ UNCHANGED <<mgrVars, sensorVars, resetVars, occVars, hostVars>>

\* activeCount after an OCC went away
OneLess_Underflow == activeCount - 1

OneLess == IF activeCount > 0 THEN activeCount - 1 ELSE 0

\* statusCallBack(instance, false), up to its last statement
WentInactive_KeepsPolling ==
    /\ Running("wentInactive")
    /\ activeCount' = OneLess
    /\ resetInProgress' = (resetInProgress /\ OneLess > 0)
    /\ Calls(<<Call("checkWaiting", self)>>)
    /\ UNCHANGED <<resetRequired, resetInstance, pollTimer, waitForAllOccsTimer>>
    /\ UNCHANGED <<mgrVars, sensorVars, occVars, hostVars>>

WentInactive ==
    /\ Running("wentInactive")
    /\ LET none == OneLess = 0
       IN /\ activeCount' = OneLess
          /\ resetInstance' = IF none /\ resetInProgress THEN NoInstance
                              ELSE resetInstance
          /\ resetInProgress' = (resetInProgress /\ ~ none)
          /\ pollTimer' = (pollTimer /\ ~ none)
          /\ waitForAllOccsTimer' = (waitForAllOccsTimer /\ ~ none)
    /\ Calls(<<Call("checkWaiting", self)>>)
    /\ UNCHANGED resetRequired
    /\ UNCHANGED <<mgrVars, sensorVars, occVars, hostVars>>

-----------------------------------------------------------------------------
(* Manager: the OCC active sensors                                           *)

\* checkAllActiveSensors is a loop over the status objects that stops at the
\* first OCC whose sensor is missing.  Its first turn begins with what comes
\* before the loop.
CheckAllActiveSensors == Call("checkSensor", 0)

\* the end of statusCallBack
CheckWaiting ==
    /\ Running("checkWaiting")
    /\ ReturnOr(waitingForAllOccActiveSensors /\ hostRunning,
                <<CheckAllActiveSensors>>)
    /\ UNCHANGED <<mgrVars, sensorVars, resetVars, pollVars, occVars, hostVars>>

\* checkAllActiveSensors reads again whether the host is running, and without it
\* leaves out the loop, but not what comes after it.
NoSensorsYet == self = 0 /\ ~ hostRunning

\* The static allActiveSensorAvailable, assumed when the loop begins
SoFarAvailable == self = 0 \/ allActiveSensorAvailable

\* One turn of the loop of checkAllActiveSensors.  The sensor of an OCC that is
\* neither active nor queued is asked for; the answer is a later event.
CheckSensor ==
    /\ Running("checkSensor")
    /\ LET missing == /\ self \in statusObjects
                      /\ ~ occActive[self] /\ ~ sensorReceived[self]
           next == Call("checkSensor", self + 1)
           end == Call("checkAllEnd", NoInstance)
       IN \/ /\ self = N \/ NoSensorsYet
             /\ Calls(<<end>>)
             /\ UNCHANGED <<queuedActiveState, allActiveSensorAvailable>>
          \/ /\ self \in OCC /\ ~ NoSensorsYet /\ ~ missing
             /\ allActiveSensorAvailable' = SoFarAvailable
             /\ Calls(<<next>>)
             /\ UNCHANGED queuedActiveState
          \/ /\ self \in queuedActiveState /\ ~ NoSensorsYet /\ missing
             /\ queuedActiveState' = queuedActiveState \ {self}
             /\ allActiveSensorAvailable' = SoFarAvailable
             /\ Calls(<<Call("activate", self), next>>)
          \/ /\ self \notin queuedActiveState /\ ~ NoSensorsYet /\ missing
             /\ allActiveSensorAvailable' = FALSE
             /\ Calls(<<end>>)
             /\ UNCHANGED queuedActiveState
    /\ UNCHANGED <<waitingForAllOccActiveSensors, discoverTimer>>
    /\ UNCHANGED <<mgrVars, resetVars, pollVars, occVars, hostVars>>

\* checkAllActiveSensors after the loop
CheckAllEnd_WaitingClearedLate ==
    /\ Running("checkAllEnd")
    /\ LET reset == waitingForAllOccActiveSensors /\ resetRequired
       IN /\ discoverTimer' = ~ allActiveSensorAvailable
          /\ waitingForAllOccActiveSensors' =
                (waitingForAllOccActiveSensors
                 /\ (reset \/ ~ allActiveSensorAvailable))
          /\ ReturnOr(allActiveSensorAvailable /\ reset,
                      <<Call("initiateOccRequest", resetInstance),
                        Call("clearQueue", NoInstance)>>)
    /\ UNCHANGED <<queuedActiveState, allActiveSensorAvailable>>
    /\ UNCHANGED <<mgrVars, resetVars, pollVars, occVars, hostVars>>

CheckAllEnd ==
    /\ Running("checkAllEnd")
    /\ LET reset == waitingForAllOccActiveSensors /\ resetRequired
       IN IF allActiveSensorAvailable
          THEN /\ discoverTimer' = FALSE
               /\ waitingForAllOccActiveSensors' = FALSE
               /\ Calls(IF reset
                        THEN <<Call("initiateOccRequest", resetInstance),
                               Call("restartWait", NoInstance),
                               Call("clearQueue", NoInstance)>>
                        ELSE <<Call("clearQueue", NoInstance)>>)
          ELSE /\ discoverTimer' = TRUE
               /\ Return
               /\ UNCHANGED waitingForAllOccActiveSensors
    /\ UNCHANGED <<queuedActiveState, allActiveSensorAvailable>>
    /\ UNCHANGED <<mgrVars, resetVars, pollVars, occVars, hostVars>>

\* queuedActiveState.clear()
ClearQueue_NotCleared ==
    /\ Running("clearQueue")
    /\ Return
    /\ UNCHANGED <<sensorVars, mgrVars, resetVars, pollVars, occVars, hostVars>>

ClearQueue ==
    /\ Running("clearQueue")
    /\ queuedActiveState' = {}
    /\ Return
    /\ UNCHANGED <<waitingForAllOccActiveSensors, allActiveSensorAvailable,
                   discoverTimer>>
    /\ UNCHANGED <<mgrVars, resetVars, pollVars, occVars, hostVars>>

-----------------------------------------------------------------------------
(* Manager: the PM Complex reset                                             *)

\* resetOccRequest: remember the first OCC that needs a reset
ResetOccRequest ==
    /\ Running("resetOccRequest")
    /\ resetRequired' = TRUE
    /\ resetInstance' = IF resetRequired THEN resetInstance ELSE self
    /\ Return
    /\ UNCHANGED resetInProgress
    /\ UNCHANGED <<mgrVars, sensorVars, pollVars, occVars, hostVars>>

\* initiateOccRequest: stop all OCCs, then ask the host for the reset
InitiateOccRequest_NoStop ==
    /\ Running("initiateOccRequest")
    /\ resetInProgress' = TRUE
    /\ resetInstance' = self
    /\ ReturnOr(~ resetInProgress, <<Call("pldmResetOCC", self)>>)
    /\ UNCHANGED resetRequired
    /\ UNCHANGED <<mgrVars, sensorVars, pollVars, occVars, hostVars>>

InitiateOccRequest ==
    /\ Running("initiateOccRequest")
    /\ IF resetInProgress
       THEN Return /\ UNCHANGED <<resetInProgress, resetInstance>>
       ELSE /\ resetInProgress' = TRUE
            /\ resetInstance' = self
            /\ Calls(<<Call2("stopOccs", 0, self)>>)
    /\ UNCHANGED resetRequired
    /\ UNCHANGED <<mgrVars, sensorVars, pollVars, occVars, hostVars>>

\* one turn of its loop over the OCCs, and the request after the loop
StopOccs ==
    /\ Running("stopOccs")
    /\ LET next == Call2("stopOccs", self + 1, arg)
       IN Calls(IF self = N THEN <<Call("pldmResetOCC", arg)>>
                ELSE IF self \in statusObjects /\ occActive[self]
                THEN <<Call("deactivate", self), next>>
                ELSE <<next>>)
    /\ UNCHANGED <<mgrVars, sensorVars, resetVars, pollVars, occVars, hostVars>>

\* pldm::Interface::resetOCC: a request to the host, or, with no host running,
\* clearData.  The request itself is the business of module PldmInterface.
PldmResetOCC ==
    /\ Running("pldmResetOCC")
    /\ Calls(IF hostRunning THEN <<Call("resetSent", self)>>
             ELSE <<Call("clearData", 0), Call("resetSent", self)>>)
    /\ UNCHANGED <<mgrVars, sensorVars, resetVars, pollVars, occVars, hostVars>>

\* the resetRequired = false that ends initiateOccRequest
ResetSent ==
    /\ Running("resetSent")
    /\ resetRequired' = FALSE
    /\ Return
    /\ UNCHANGED <<resetInstance, resetInProgress>>
    /\ UNCHANGED <<mgrVars, sensorVars, pollVars, occVars, hostVars>>

-----------------------------------------------------------------------------
(* Manager: polling and the master OCC                                       *)

\* pollerTimerExpired, called with the poll timer disabled
PollerTimerExpired_IgnoresReset ==
    /\ Running("pollerTimerExpired")
    /\ Calls(<<Call("pollOcc", 0)>>)
    /\ UNCHANGED <<mgrVars, sensorVars, resetVars, pollVars, occVars, hostVars>>

PollerTimerExpired ==
    /\ Running("pollerTimerExpired")
    /\ Calls(IF resetRequired
             THEN <<Call("initiateOccRequest", resetInstance),
                    Call("restartWait", NoInstance)>>
             ELSE <<Call("pollOcc", 0)>>)
    /\ UNCHANGED <<mgrVars, sensorVars, resetVars, pollVars, occVars, hostVars>>

\* is the poll timer restarted after the loop
PollAgain_Always == TRUE

PollAgain == activeCount > 0

\* One turn of the polling loop: reading the state of an active OCC may end in
\* a deviceError; after the loop the timer is restarted while OCCs are active.
PollOcc ==
    /\ Running("pollOcc")
    /\ \/ /\ self \in OCC
          /\ Calls(<<Call("pollOcc", self + 1)>>)
          /\ UNCHANGED pollTimer
       \/ /\ self \in statusObjects /\ occActive[self]
          /\ "readState" \in Faults
          /\ Calls(<<Call("deviceError", self), Call("pollOcc", self + 1)>>)
          /\ UNCHANGED pollTimer
       \/ /\ self = N
          /\ pollTimer' = (pollTimer \/ PollAgain)
          /\ Return
    /\ UNCHANGED <<activeCount, waitForAllOccsTimer>>
    /\ UNCHANGED <<mgrVars, sensorVars, resetVars, occVars, hostVars>>

\* masterInstance < 0
NoMaster(m) == m = NoInstance

\* One turn of the loop of validateOccMaster; arg is masterInstance.  An OCC
\* that is not active yet is activated from the queue, or its sensor is asked
\* for (a later event).
ValidateOcc ==
    /\ Running("validateOcc")
    /\ LET inactive == self \in statusObjects /\ ~ occActive[self]
           check == Call2("validateMaster", self, arg)
       IN \/ /\ self \in OCC /\ ~ inactive
             /\ Calls(<<check>>)
             /\ UNCHANGED queuedActiveState
          \/ /\ self \in OCC /\ inactive /\ ~ hostRunning
             /\ Return
             /\ UNCHANGED queuedActiveState
          \/ /\ self \in OCC /\ inactive /\ hostRunning
             /\ queuedActiveState' = queuedActiveState \ {self}
             /\ Calls(IF self \in queuedActiveState
                      THEN <<Call("activate", self), check>> ELSE <<check>>)
          \/ /\ self = N /\ ~ NoMaster(arg)
             /\ Return
             /\ UNCHANGED queuedActiveState
          \/ /\ self = N /\ NoMaster(arg)
             /\ \E front \in statusObjects :
                   /\ \A o \in statusObjects : front <= o
                   /\ Calls(<<Call("deviceError", front)>>)
             /\ UNCHANGED queuedActiveState
    /\ UNCHANGED <<waitingForAllOccActiveSensors, allActiveSensorAvailable,
                   discoverTimer>>
    /\ UNCHANGED <<mgrVars, resetVars, pollVars, occVars, hostVars>>

\* the second half of a turn: is it a master, and the only one
ValidateMaster ==
    /\ Running("validateMaster")
    /\ LET master == self \in statusObjects /\ DeviceMaster(self)
           next(m) == Call2("validateOcc", self + 1, m)
       IN /\ presence' = [presence EXCEPT ![self] = @ \/ master]
          /\ Calls(IF ~ master THEN <<next(arg)>>
                   ELSE IF NoMaster(arg) THEN <<next(self)>>
                   ELSE <<Call("deviceError", self), next(arg)>>)
    /\ UNCHANGED <<occActive, sensorReceived, bound, watch>>
    /\ UNCHANGED <<mgrVars, sensorVars, resetVars, pollVars, hostVars>>

-----------------------------------------------------------------------------
(* Calls that PLDM makes into the manager, and the manager into PLDM         *)

\* the sensor of an OCC came before the host was seen running
LookAgain_NoTimer(o) ==
    /\ sensorReceived' = [sensorReceived EXCEPT ![o] = FALSE]
    /\ waitingForAllOccActiveSensors' = TRUE
    /\ UNCHANGED discoverTimer

LookAgain(o) ==
    /\ sensorReceived' = [sensorReceived EXCEPT ![o] = FALSE]
    /\ waitingForAllOccActiveSensors' = TRUE
    /\ discoverTimer' = TRUE

\* updateOCCActive(instance, true) from the event loop: an OCC without a status
\* object is queued; with the host not running yet, the sensor is asked for
\* again once it does.
UpdateOCCActive(o) ==
    \/ /\ o \notin statusObjects
       /\ queuedActiveState' = queuedActiveState \cup {o}
       /\ UNCHANGED <<waitingForAllOccActiveSensors, discoverTimer,
                      sensorReceived, todo>>
    \/ /\ o \in statusObjects /\ ~ hostRunning
       /\ LookAgain(o)
       /\ UNCHANGED <<queuedActiveState, todo>>
    \/ /\ o \in statusObjects /\ hostRunning
       /\ sensorReceived' = [sensorReceived EXCEPT ![o] = TRUE]
       /\ todo' = <<Call("activate", o)>>
       /\ UNCHANGED <<waitingForAllOccActiveSensors, queuedActiveState,
                      discoverTimer>>

\* updateOCCActive(instance, false)
UpdateOCCInactive ==
    /\ Running("updateOCCInactive")
    /\ IF self \in statusObjects
       THEN /\ sensorReceived' = [sensorReceived EXCEPT ![self] = TRUE]
            /\ Calls(<<Call("deactivate", self)>>)
            /\ UNCHANGED queuedActiveState
       ELSE /\ queuedActiveState' = queuedActiveState \ {self}
            /\ Return
            /\ UNCHANGED sensorReceived
    /\ UNCHANGED <<waitingForAllOccActiveSensors, allActiveSensorAvailable,
                   discoverTimer>>
    /\ UNCHANGED <<occActive, bound, watch, presence>>
    /\ UNCHANGED <<mgrVars, resetVars, pollVars, hostVars>>

\* pldm::Interface::clearData: every OCC whose sensor PDR is known is reported
\* inactive, in the order of the instances, and the HRESETs are forgotten.
ClearNext ==
    /\ Running("clearData") /\ self \in OCC
    /\ Calls(<<Call("updateOCCInactive", self), Call("clearData", self + 1)>>)
    /\ UNCHANGED <<mgrVars, sensorVars, resetVars, pollVars, occVars, hostVars>>

ClearEnd ==
    /\ Running("clearData")
    /\ hresets' = {}
    /\ Return
    /\ UNCHANGED hostRunning
    /\ UNCHANGED <<mgrVars, sensorVars, resetVars, pollVars, occVars>>

ClearData == ClearNext \/ ClearEnd

\* pldm::Interface::sendHRESET, which finds an effecter for the SBE or not
SendHRESET ==
    /\ Running("sendHRESET")
    /\ \/ /\ hostRunning
          /\ \E found \in BOOLEAN :
                hresets' = IF found THEN hresets \cup {self} ELSE hresets
          /\ Return
       \/ /\ ~ hostRunning
          /\ Calls(<<Call("clearData", 0)>>)
          /\ UNCHANGED hresets
    /\ UNCHANGED hostRunning
    /\ UNCHANGED <<mgrVars, sensorVars, resetVars, pollVars, occVars>>

HostPoweredOff ==
    /\ Running("hostPoweredOff")
    /\ resetRequired' = FALSE
    /\ resetInProgress' = FALSE
    /\ resetInstance' = NoInstance
    /\ Return
    /\ UNCHANGED <<mgrVars, sensorVars, pollVars, occVars, hostVars>>

-----------------------------------------------------------------------------
(* Events, taken from the event loop when no call is in progress             *)

\* What a search of /dev can find.
Searches == IF "missingOcc" \in Faults THEN SUBSET OCC ELSE {{}, OCC}

\* findAndCreateObjects, when discoverTimer expires.  While the host-on file
\* exists it only restarts the timer: a stutter.  Status objects are created
\* once two searches in a row found the same number of OCCs.
DiscoverTimerExpired ==
    /\ Idle /\ discoverTimer
    /\ \/ /\ statusObjects = {}
          /\ \E found \in Searches :
                /\ found = {} \/ Cardinality(found) # prevOCCSearch
                /\ prevOCCSearch' = Cardinality(found)
          /\ UNCHANGED <<statusObjects, sensorVars, todo>>
       \/ /\ IF statusObjects = {}
             THEN \E found \in Searches \ {{}} :
                    /\ Cardinality(found) = prevOCCSearch
                    /\ statusObjects' = found
             ELSE UNCHANGED statusObjects
          /\ LET waiting == waitingForAllOccActiveSensors \/ statusObjects = {}
             IN /\ waitingForAllOccActiveSensors' = waiting
                /\ discoverTimer' = (waiting /\ ~ hostRunning)
                /\ IF waiting /\ hostRunning
                   THEN todo' = <<CheckAllActiveSensors>>
                   ELSE UNCHANGED todo
          /\ UNCHANGED <<prevOCCSearch, allActiveSensorAvailable,
                         queuedActiveState>>
    /\ UNCHANGED <<resetVars, pollVars, occVars, hostVars>>

PollTimerExpired ==
    /\ Idle /\ pollTimer
    /\ pollTimer' = FALSE
    /\ todo' = <<Call("pollerTimerExpired", NoInstance)>>
    /\ UNCHANGED <<activeCount, waitForAllOccsTimer>>
    /\ UNCHANGED <<mgrVars, sensorVars, resetVars, occVars, hostVars>>

\* occsNotAllRunning
WaitTimerExpired ==
    /\ Idle /\ waitForAllOccsTimer
    /\ waitForAllOccsTimer' = FALSE
    /\ todo' = IF resetInProgress THEN <<>>
               ELSE IF resetRequired
               THEN <<Call("initiateOccRequest", resetInstance),
                      Call("restartWait", NoInstance)>>
               ELSE <<Call("validateOcc", 0)>>
    /\ UNCHANGED <<activeCount, pollTimer>>
    /\ UNCHANGED <<mgrVars, sensorVars, resetVars, occVars, hostVars>>

\* The host reports, by an event or by the answer to a query of the sensor,
\* that an OCC is in service.
SensorRunning ==
    /\ Idle
    /\ \E o \in OCC : UpdateOCCActive(o)
    /\ UNCHANGED <<allActiveSensorAvailable, occActive, bound, watch, presence>>
    /\ UNCHANGED <<mgrVars, resetVars, pollVars, hostVars>>

\* ... or that it has stopped
SensorStopped ==
    /\ Idle
    /\ \E o \in OCC : todo' = <<Call("updateOCCInactive", o)>>
    /\ UNCHANGED <<mgrVars, sensorVars, resetVars, pollVars, occVars, hostVars>>

\* sbeHRESETResult
SbeHRESETResult(o, success) ==
    todo' = IF ~ success THEN <<Call("resetOccRequest", o)>>
            ELSE IF o \in statusObjects /\ ~ occActive[o]
            THEN <<Call("activate", o)>> ELSE <<>>

\* An HRESET that was requested succeeds or fails.
HresetResult ==
    /\ Idle
    /\ \E o \in hresets, success \in BOOLEAN :
          /\ hresets' = hresets \ {o}
          /\ SbeHRESETResult(o, success)
    /\ UNCHANGED hostRunning
    /\ UNCHANGED <<mgrVars, sensorVars, resetVars, pollVars, occVars>>

\* The error, timeout and presence files of the device are read when sysfs
\* signals them (Device::errorCallback, timeoutCallback, Presence); the safe
\* state timer of an active OCC and a failed mode change end the same way.
OccError ==
    /\ Idle /\ "occError" \in Faults
    /\ \E o \in statusObjects :
          /\ watch[o] = "on" \/ occActive[o]
          /\ todo' = <<Call("deviceError", o)>>
    /\ UNCHANGED <<mgrVars, sensorVars, resetVars, pollVars, occVars, hostVars>>

\* Presence::analyzeEvent: the callback is Device::errorCallback, which takes
\* the number of OCCs present for an error code and ignores 0.
PresenceMismatch ==
    /\ Idle /\ "presence" \in Faults
    /\ \E o \in statusObjects, occsPresent \in 0 .. N :
          /\ presence[o] /\ occsPresent # activeCount /\ occsPresent # 0
          /\ todo' = <<Call("deviceError", o)>>
    /\ UNCHANGED <<mgrVars, sensorVars, resetVars, pollVars, occVars, hostVars>>

\* Manager::sbeTimeout
SbeTimeout ==
    /\ Idle /\ "sbeTimeout" \in Faults
    /\ \E o \in statusObjects :
          /\ watch[o] # "off" /\ occActive[o]
          /\ todo' = <<Call("deactivate", o), Call("sendHRESET", o)>>
    /\ UNCHANGED <<mgrVars, sensorVars, resetVars, pollVars, occVars, hostVars>>

\* OccActive is a writable D-Bus property.
DBusWrite ==
    /\ Idle /\ "dbusWrite" \in Faults
    /\ \E o \in statusObjects :
          \E f \in {"activate", "deactivate"} : todo' = <<Call(f, o)>>
    /\ UNCHANGED <<mgrVars, sensorVars, resetVars, pollVars, occVars, hostVars>>

\* The calls that read BootProgress (isHostRunning).  What they see counts: a
\* change in the middle of a handler is one just before the next of them.
HostReads ==
    \/ Running("checkWaiting") /\ waitingForAllOccActiveSensors
    \/ Running("checkSensor") /\ self = 0
    \/ Running("validateOcc") /\ self \in statusObjects /\ ~ occActive[self]
    \/ Running("pldmResetOCC")
    \/ Running("sendHRESET")
HostIsRead == Idle \/ HostReads

\* The host boots far enough for the OCCs, or leaves that state again.
HostBoots ==
    /\ HostIsRead /\ ~ hostRunning
    /\ hostRunning' = TRUE
    /\ UNCHANGED <<hresets, todo>>
    /\ UNCHANGED <<mgrVars, sensorVars, resetVars, pollVars, occVars>>

HostStops ==
    /\ HostIsRead /\ hostRunning /\ "hostOff" \in Faults
    /\ hostRunning' = FALSE
    /\ UNCHANGED <<hresets, todo>>
    /\ UNCHANGED <<mgrVars, sensorVars, resetVars, pollVars, occVars>>

\* A reset of the host that is to be tried again finds no host running:
\* pldm::Interface::resetOCC, called by a handler of the interface.
ResetGivenUp ==
    /\ Idle /\ ~ hostRunning /\ "hostOff" \in Faults
    /\ todo' = <<Call("clearData", 0)>>
    /\ UNCHANGED <<mgrVars, sensorVars, resetVars, pollVars, occVars, hostVars>>

\* pldm::Interface::hostStateEvent with the host state Off, whatever BootProgress
\* says by then
HostStateOff ==
    /\ Idle /\ "hostOff" \in Faults
    /\ todo' = <<Call("clearData", 0), Call("hostPoweredOff", NoInstance)>>
    /\ UNCHANGED <<mgrVars, sensorVars, resetVars, pollVars, occVars, hostVars>>

-----------------------------------------------------------------------------

\* After the constructor, which ran the first search of /dev.
Init ==
    /\ statusObjects = {}
    /\ prevOCCSearch \in {Cardinality(found) : found \in Searches}
    /\ waitingForAllOccActiveSensors = FALSE
    /\ allActiveSensorAvailable = FALSE
    /\ queuedActiveState = {}
    /\ activeCount = 0
    /\ resetRequired = FALSE
    /\ resetInstance = NoInstance
    /\ resetInProgress = FALSE
    /\ pollTimer = FALSE
    /\ discoverTimer = TRUE
    /\ waitForAllOccsTimer = FALSE
    /\ occActive = [o \in OCC |-> FALSE]
    /\ sensorReceived = [o \in OCC |-> FALSE]
    /\ bound \in [OCC -> IF "driverBound" \in Faults THEN BOOLEAN ELSE {FALSE}]
    /\ watch = [o \in OCC |-> "off"]
    /\ presence = [o \in OCC |-> FALSE]
    /\ hostRunning \in BOOLEAN
    /\ hresets = {}
    /\ todo = <<>>

Step ==
    \/ Activate \/ Deactivate \/ Unbind \/ SetProperty \/ DeviceError
    \/ ResetOCC \/ WentActive \/ StartPoll \/ RestartWait \/ WentInactive
    \/ CheckWaiting \/ CheckSensor \/ CheckAllEnd \/ ClearQueue
    \/ ResetOccRequest \/ InitiateOccRequest \/ StopOccs \/ PldmResetOCC
    \/ ResetSent \/ PollerTimerExpired \/ PollOcc \/ ValidateOcc
    \/ ValidateMaster \/ UpdateOCCInactive \/ ClearData \/ SendHRESET
    \/ HostPoweredOff

Event ==
    \/ DiscoverTimerExpired \/ PollTimerExpired \/ WaitTimerExpired
    \/ SensorRunning \/ SensorStopped \/ HresetResult \/ OccError
    \/ PresenceMismatch \/ SbeTimeout \/ DBusWrite
    \/ ResetGivenUp \/ HostStateOff

HostChanges == HostBoots \/ HostStops

Next == Step \/ Event \/ HostChanges

Spec == Init /\ [][Next]_vars

-----------------------------------------------------------------------------
(* Properties that hold                                                      *)

DataOK ==
    /\ statusObjects \subseteq OCC
    /\ prevOCCSearch \in 0 .. N
    /\ waitingForAllOccActiveSensors \in BOOLEAN
    /\ allActiveSensorAvailable \in BOOLEAN
    /\ queuedActiveState \subseteq OCC
    /\ activeCount \in Nat
    /\ resetRequired \in BOOLEAN
    /\ resetInstance \in Instance
    /\ resetInProgress \in BOOLEAN
    /\ pollTimer \in BOOLEAN
    /\ discoverTimer \in BOOLEAN
    /\ waitForAllOccsTimer \in BOOLEAN
    /\ occActive \in [OCC -> BOOLEAN]
    /\ sensorReceived \in [OCC -> BOOLEAN]
    /\ bound \in [OCC -> BOOLEAN]
    /\ watch \in [OCC -> {"off", "partial", "on"}]
    /\ presence \in [OCC -> BOOLEAN]
    /\ hostRunning \in BOOLEAN
    /\ hresets \subseteq OCC

\* Every variable has its type: activeCount never underflows, and a function is
\* called only for an OCC that exists.
TypeOK == DataOK /\ todo \in Seq(Frame)

ActiveOccs == {o \in OCC : occActive[o]}

\* The poll timer runs only while an OCC is counted as active: not even in the
\* middle of a nest of handlers is it left running, or restarted, after the
\* last OCC stopped (statusCallBack, pollerTimerExpired).
PollNeedsActive == pollTimer => activeCount > 0

\* Between handlers the OCCs are polled exactly while some OCC is counted: a
\* poll that ended in a reset or an error never leaves an active OCC unpolled.
PolledWhileActive == Idle => (pollTimer <=> activeCount > 0)

\* The manager never counts more OCCs than are active, whatever the order in
\* which re-entrant activations and deactivations unwind (statusCallBack).
CountBound == activeCount <= Cardinality(ActiveOccs)

\* Between handlers, a reset in progress means that no OCC is counted: all were
\* stopped by initiateOccRequest and none was accepted since.
ResetStopsPolling == Idle /\ resetInProgress => activeCount = 0

\* While the manager waits for OCC active sensors, discoverTimer is running, so
\* that it looks for them again (updateOCCActive, checkAllActiveSensors).
WaitingHasTimer == Idle /\ waitingForAllOccActiveSensors => discoverTimer

\* When all OCCs are counted, a master was validated and its presence file is
\* still being watched, whatever failed, stopped or was activated again since or
\* in the middle of the validation (validateOccMaster).
MasterValidated ==
    /\ Idle
    /\ statusObjects # {}
    /\ activeCount = Cardinality(statusObjects)
    => \E m \in Masters : presence[m]

\* An activation queued before the status objects existed is consumed or
\* dropped by the time all sensors are available: no stale entry can activate
\* an OCC later (queuedActiveState).
QueueDrained ==
    Idle /\ ~ waitingForAllOccActiveSensors
        => queuedActiveState \cap statusObjects = {}

\* The files of an unbound device are not all watched, and the presence watch is
\* held only for an active OCC with a bound device.  The error watches of a bound
\* OCC that is not active are allowed, and so is what a failure left of them.
WatchesFollowBinding ==
    Idle => \A o \in OCC : /\ watch[o] = "on" => bound[o]
                           /\ presence[o] => DeviceActive(o)

\* The nesting of handlers is bounded by the number of OCCs: they call each
\* other, but never in circles.
NestingBounded == Len(todo) <= 9 * N + 15

\* A reset that is required while the OCCs are polled is started (or found to
\* be obsolete) unless polling stops first (pollerTimerExpired): no required
\* reset waits for ever, which is resetRequired ~> of what stands below.
ResetServed == []<>(~ resetRequired \/ (Idle /\ ~ pollTimer))

-----------------------------------------------------------------------------
(* Properties that comments of the code state and the code does not have     *)

\* "This would deem OCC inactive": an OCC that is active has a bound device.
ActiveIsBound == Idle => \A o \in OCC : occActive[o] => bound[o]

\* "The timer to be used once the OCC goes active": an active OCC is polled.
ActiveIsPolled == Idle /\ ActiveOccs # {} => pollTimer
===============================================================================
