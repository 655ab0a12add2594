------------------------------- MODULE OccState -------------------------------
(***************************************************************************)
(* One Status object (occ_status.cpp): how the state of an OCC is read     *)
(* from sysfs, retried, trusted and given up, together with the safe state *)
(* timer, the sensors on D-Bus, the throttle causes and the permission to  *)
(* change the power mode, while the OCC is activated and deactivated.      *)
(*                                                                         *)
(* OccManager models which OCC is active when; here the manager is the     *)
(* environment: it activates, deactivates and polls.  Its callback in the  *)
(* middle of an activation or a deactivation may poll the OCC once         *)
(* (Manager::statusCallBack calls pollerTimerExpired): that is the bound   *)
(* on nesting of this module.                                              *)
(*                                                                         *)
(* An operation of Status maps a state of the OCC to the set of states it  *)
(* can leave it in; an action of the event loop picks one.  told is what   *)
(* the manager can make of the OCC when it is told in the middle.          *)
(***************************************************************************)
EXTENDS Integers, Sequences, Sensors

CONSTANTS
    IsMaster,   \* whether occ_master of the device reads 1 while it is bound
    Faults      \* what may fail

FaultKinds == {"addWatch", "open", "read", "mode", "ambient", "nestedPoll"}

ASSUME FaultsAssumption == Faults \subseteq FaultKinds
ASSUME IsMasterAssumption == IsMaster \in BOOLEAN

VARIABLE occ    \* the state of the OCC and of what it publishes

\* Retries of a failed read (occReadRetries)
OccReadRetries == 1

\* OccState; "NO" is 0, CHARACTERIZATION is treated as OBSERVATION
\* and STANDBY as SAFE.
Good == {"OBSERVATION", "ACTIVE"}
States == Good \cup {"SAFE", "NO"}
Causes == {"POWER", "THERMAL", "SAFE"}

\* History is kept up to this bound.
MaxFailed == OccReadRetries + 2
OneMore(n) == IF n < MaxFailed THEN n + 1 ELSE n

\* A fault of this kind is possible
OrFault(kind, S) == IF kind \in Faults THEN S ELSE {}

Occ == [occActive : BOOLEAN, bound : BOOLEAN, watch : {"off", "partial", "on"},
        lastState : States, stateValid : BOOLEAN, sensorsValid : BOOLEAN,
        retries : 0..OccReadRetries, safeTimer : BOOLEAN,
        throttle : SUBSET Causes, sensors : Sensor,
        masterActive : BOOLEAN, resetAsked : BOOLEAN,
        failedOpens : 0..MaxFailed, failedReads : 0..MaxFailed,
        polledLate : BOOLEAN]

(***************************************************************************)
(* occActive(false)                                                        *)
(***************************************************************************)

\* device.master(): readBinary reads 0 while OccActive is FALSE.
Master(s) == IsMaster /\ s.occActive

\* Sensors that were valid are set to NaN.
SensorsOff(s) ==
    IF s.sensorsValid
    THEN [s EXCEPT !.sensorsValid = FALSE, !.sensors = SetSensorValueToNaN(@)]
    ELSE s

\* What is done before the manager is told that the OCC is going inactive
Quiesce(s) == [SensorsOff(s) EXCEPT !.masterActive = @ /\ ~Master(s),
                                    !.safeTimer = FALSE]

\* removeErrorWatch, setActive(false)
Unbind(s) == [s EXCEPT !.watch = "off", !.bound = FALSE]

\* What is done after the manager was told
Gone_KeepsThrottle(s) == [Unbind(s) EXCEPT !.occActive = FALSE]

Gone(s) == [Unbind(s) EXCEPT !.throttle = {}, !.occActive = FALSE]

\* The OCC goes inactive.  The manager, told in the middle, sets the sensors
\* to NaN and may poll; OccActive is still TRUE then.
Deactivate(s, told) ==
    {Gone(t) : t \in told[[Quiesce(s) EXCEPT !.sensors = SetSensorValueToNaN(@)]]}

\* The third branch of the code, which unbinds an inactive OCC whose device is
\* active, is never taken: device.active() reads 0 while OccActive is FALSE.
OccInactive(s, told) == IF s.occActive THEN Deactivate(s, told) ELSE {s}

\* deviceError and resetOCC: the OCC is disabled and a reset requested.
DeviceError(s, told) ==
    {[t EXCEPT !.resetAsked = TRUE, !.failedOpens = 0, !.failedReads = 0] :
        t \in OccInactive([s EXCEPT !.masterActive = @ /\ ~Master(s)], told)}

(***************************************************************************)
(* readOccState                                                            *)
(***************************************************************************)

\* The state could not be read: retry, or give up.
NotRead(s, told) ==
    LET q == [SensorsOff(s) EXCEPT !.failedReads = OneMore(@)]
    IN IF q.retries > 0 THEN {[q EXCEPT !.retries = @ - 1]}
       ELSE {[t EXCEPT !.retries = OccReadRetries] :
                t \in DeviceError([q EXCEPT !.lastState = "NO",
                                            !.stateValid = FALSE], told)}

OpenFailed(s, told) ==
    NotRead([s EXCEPT !.stateValid = FALSE, !.failedOpens = OneMore(@)], told)

ReadFailed(s, told) == NotRead([s EXCEPT !.failedOpens = 0], told)

\* occsWentActive of the master: the power mode is sent.
SendMode(s, told) ==
    IF ~Master(s) THEN {s}
    ELSE LET on == [s EXCEPT !.masterActive = TRUE]
         IN {on} \cup OrFault("mode", DeviceError(on, told))

SendAmbient(s, told) == {s} \cup OrFault("ambient", DeviceError(s, told))

\* The OCC went active: mode and ambient data are sent.
WentActive(s, told) ==
    UNION {SendAmbient(t, told) : t \in SendMode(s, told)}

GoodState(s) ==
    [s EXCEPT !.stateValid = TRUE, !.sensorsValid = TRUE, !.safeTimer = FALSE]

\* SAFE or unsupported: some time is allowed before a reset is requested.
BadState(s) == [SensorsOff(s) EXCEPT !.safeTimer = TRUE]

NewState(s, state, told) ==
    LET q == [s EXCEPT !.lastState = state]
    IN CASE state = "ACTIVE" -> {GoodState(t) : t \in WentActive(q, told)}
         [] state \in Good \ {"ACTIVE"} -> {GoodState(q)}
         [] OTHER -> {BadState(q)}

StateRead(s, state, told) ==
    LET q == [s EXCEPT !.failedOpens = 0, !.failedReads = 0]
    IN IF state = s.lastState THEN {q} ELSE NewState(q, state, told)

OccReadStateNow(s, told) ==
    OrFault("open", OpenFailed(s, told))
    \cup OrFault("read", ReadFailed(s, told))
    \cup UNION {StateRead(s, state, told) : state \in States}

Replenish_Adds(s) == IF s.stateValid THEN [s EXCEPT !.retries = @ + 1] ELSE s
Replenish_Always(s) == [s EXCEPT !.retries = OccReadRetries]

\* A good state renews the retries.
Replenish(s) == IF s.stateValid THEN [s EXCEPT !.retries = OccReadRetries] ELSE s

ReadOccState(s, told) == OccReadStateNow(Replenish(s), told)

\* getSensorValues: no hwmon directory is there while the device is unbound.
GetSensorValues(s) ==
    IF s.bound
    THEN {[s EXCEPT !.sensors = x] : x \in ReadTempSensors(s.sensors)}
    ELSE {s}

\* pollerTimerExpired, as far as this OCC is concerned
Polled(s, told) ==
    IF s.occActive THEN UNION {GetSensorValues(t) : t \in ReadOccState(s, told)}
    ELSE {[s EXCEPT !.sensors = SetSensorValueToNaN(@)]}

(***************************************************************************)
(* The manager that is told that the OCC goes active or inactive           *)
(***************************************************************************)

\* What it can make of the OCC when it does not poll ...
Quiet == [s \in Occ |-> {s}]

\* ... and when it may: the poll it makes is the bound on nesting.
MayPoll == [s \in Occ |-> {s} \cup OrFault("nestedPoll", Polled(s, Quiet))]
MayPollLate ==
    [s \in Occ |->
        {s} \cup OrFault("nestedPoll",
                         {[t EXCEPT !.polledLate = TRUE] : t \in Polled(s, Quiet)})]

(***************************************************************************)
(* occActive(true)                                                         *)
(***************************************************************************)

\* Some of the files are watched, the OCC is disabled.  The device of an OCC
\* that was inactive stays bound, and what is watched of it stays watched.
NotWatched(s) ==
    {[t EXCEPT !.occActive = FALSE] :
        t \in DeviceError([s EXCEPT !.watch = "partial"], MayPollLate)}

Activate_KeepsLastState(s) ==
    LET on == [s EXCEPT !.bound = TRUE, !.throttle = {}, !.resetAsked = FALSE]
        watched == [on EXCEPT !.watch = "on", !.occActive = TRUE,
                              !.polledLate = FALSE]
    IN {[t EXCEPT !.occActive = TRUE] : t \in MayPoll[watched]}

\* The OCC goes active; what a poll did in the middle, OccActive ends TRUE.
Activate(s) ==
    LET on == [s EXCEPT !.bound = TRUE, !.throttle = {}, !.lastState = "NO",
                        !.resetAsked = FALSE]
        watched == [on EXCEPT !.watch = "on", !.occActive = TRUE,
                              !.polledLate = FALSE]
    IN {[t EXCEPT !.occActive = TRUE] : t \in MayPoll[watched]}
       \cup OrFault("addWatch", NotWatched(on))

\* The OCC is active and its device is not bound: bind it.
Rebind(s) ==
    LET on == [s EXCEPT !.bound = TRUE]
    IN {[on EXCEPT !.watch = "on"]} \cup OrFault("addWatch", NotWatched(on))

(***************************************************************************)
(* The handlers                                                            *)
(***************************************************************************)

OccActiveTrue ==
    \/ ~occ.occActive /\ occ' \in Activate(occ)
    \/ occ.occActive /\ ~occ.bound /\ occ' \in Rebind(occ)

OccActiveFalse == occ' \in OccInactive(occ, MayPollLate)

PollerTimerExpired == occ' \in Polled(occ, MayPollLate)

\* An error file, or the presence of the OCCs, reports an error.
ErrorReported == occ.watch = "on" /\ occ' \in DeviceError(occ, MayPollLate)

SafeStateDelayExpired_Ignored ==
    occ.safeTimer /\ occ' = [occ EXCEPT !.safeTimer = FALSE]

SafeStateDelayExpired ==
    /\ occ.safeTimer
    /\ LET expired == [occ EXCEPT !.safeTimer = FALSE]
       IN IF occ.occActive THEN occ' \in DeviceError(expired, MayPollLate)
          ELSE occ' = expired

\* updateThrottle
Throttled(cause, isThrottled) ==
    occ' = [occ EXCEPT !.throttle =
               IF isThrottled THEN @ \cup {cause} ELSE @ \ {cause}]

ThrottleReported ==
    /\ occ.watch # "off"
    /\ \E cause \in {"POWER", "THERMAL"}, on \in BOOLEAN : Throttled(cause, on)

\* Manager::updateOccSafeMode
UpdateOccSafeMode == \E on \in BOOLEAN : Throttled("SAFE", on)

Init ==
    occ = [occActive |-> FALSE, bound |-> FALSE, watch |-> "off",
           lastState |-> "NO", stateValid |-> FALSE, sensorsValid |-> FALSE,
           retries |-> 0, safeTimer |-> FALSE, throttle |-> {},
           sensors |-> NoSensor, masterActive |-> FALSE, resetAsked |-> FALSE,
           failedOpens |-> 0, failedReads |-> 0, polledLate |-> FALSE]

Next ==
    \/ OccActiveTrue \/ OccActiveFalse \/ PollerTimerExpired \/ ErrorReported
    \/ SafeStateDelayExpired \/ ThrottleReported \/ UpdateOccSafeMode

Spec == Init /\ [][Next]_occ

\* The event loop serves a timer that has been set.
FairSpec == Spec /\ WF_occ(SafeStateDelayExpired)

(***************************************************************************)
(* Properties                                                              *)
(***************************************************************************)

\* Type correctness of everything a Status object keeps: the retries left
\* never underflow, whatever happens in the middle of an activation.
TypeOK == occ \in Occ

\* The file of an active OCC is not missing more often than it is retried: at
\* the next failure to open it the OCC is disabled (occReadStateNow).
MissingIsDisabled == occ.failedOpens <= OccReadRetries

\* The same of every failure to read the state.  It does not hold: while
\* stateValid stays TRUE each poll renews the retries.
UnreadIsDisabled == occ.failedReads <= OccReadRetries

\* While an active OCC is in SAFE state the safe state timer runs, whatever
\* started, stopped or read it in the meantime.
SafeIsTimed == (occ.occActive /\ occ.lastState = "SAFE") => occ.safeTimer

\* What D-Bus shows of an OCC does not outlive its source: an inactive OCC
\* publishes no sensor values and lets nobody change the power mode, unless the
\* manager polled it in the middle of its deactivation; and the processor is
\* reported throttled by power or temperature only while the files that will
\* report the end of it are watched.
NothingStale ==
    /\ (~occ.occActive /\ ~occ.polledLate)
          => (NoValue(occ.sensors) /\ ~occ.masterActive)
    /\ (occ.throttle \ {"SAFE"} # {}) => occ.watch # "off"

\* D-Bus shows the worst of the readings of a FRU, in whatever order its files
\* were found, and a FRU that has failed as not functional (readTempSensors).
WorstIsShown ==
    LET s == occ.sensors
    IN s.seen # {} => /\ IsWorst(s.temp, s.seen)
                      /\ s.functional <=> s.temp # NaN

\* An OCC that stays in SAFE state is reset: it leaves the state, or it goes
\* inactive, after the safe state delay at the latest.
SafeIsReset ==
    (occ.occActive /\ occ.lastState = "SAFE")
        ~> (occ.lastState # "SAFE" \/ ~occ.occActive)
=============================================================================
