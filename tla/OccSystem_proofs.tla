---------------------------- MODULE OccSystem_proofs ----------------------------
(***************************************************************************)
(* The manager and the PLDM interface together implement the manager in    *)
(* its open environment, for any number of OCCs, any masters and any       *)
(* faults of either, if the host may stop: every callback that the         *)
(* interface makes is an event that OccManager allows for.                 *)
(*                                                                         *)
(* What it takes is that the interface names only OCCs that exist: that    *)
(* its transport and its caches are well typed in every state.             *)
(***************************************************************************)
EXTENDS OccSystem, TLAPS

OCC == Manager!OCC

\* The types of the transport and of the caches
CachesTyped ==
    /\ occSensors \subseteq OCC /\ sbeSensors \subseteq OCC
    /\ occEffecters \subseteq OCC /\ sbeEffecters \subseteq OCC

PldmTyped == io \in Pldm!Transport /\ CachesTyped

LEMMA SameOCC == Pldm!OCC = OCC /\ OCC = 0 .. (N - 1) /\ 255 \notin OCC
BY NAssumption DEF OCC, Manager!OCC, Pldm!OCC, Manager!NoInstance

-----------------------------------------------------------------------------
(* Operations on the transport                                               *)

LEMMA FreeTyped ==
    ASSUME NEW s \in Pldm!Transport, NEW t \in Pldm!freePldmInstanceId(s)
    PROVE  t \in Pldm!Transport
BY DEF Pldm!Transport, Pldm!freePldmInstanceId, Pldm!OrFault

LEMMA CloseTyped ==
    ASSUME NEW s \in Pldm!Transport, NEW t \in Pldm!pldmClose(s)
    PROVE  t \in Pldm!Transport
<1>1. PICK u \in Pldm!freePldmInstanceId(s) :
         t = [u EXCEPT !.pldmRspTimer = FALSE, !.open = FALSE,
                       !.eventSource = "none", !.request = Pldm!NoRequest]
  BY DEF Pldm!pldmClose
<1>2. QED
  BY <1>1, FreeTyped DEF Pldm!Transport

LEMMA SendTyped ==
    ASSUME NEW s \in Pldm!Transport, s.msgType \in Pldm!MsgTypes,
           NEW o \in OCC, NEW t \in Pldm!sendPldm(s, o)
    PROVE  t \in Pldm!Transport
<1>0. o \in Pldm!OCC
  BY SameOCC
<1>1. /\ Pldm!Opened(s, o) \in Pldm!Transport
      /\ Pldm!Sent(s, o) \in Pldm!Transport
      /\ [Pldm!Sent(s, o) EXCEPT !.eventSource = "none"] \in Pldm!Transport
  BY <1>0 DEF Pldm!Transport, Pldm!Opened, Pldm!Sent, Pldm!ResponseCallback,
             Pldm!Requests
<1>2. \/ t \in Pldm!freePldmInstanceId(s)
      \/ t \in Pldm!pldmClose(Pldm!Opened(s, o))
      \/ t \in {Pldm!Sent(s, o), [Pldm!Sent(s, o) EXCEPT !.eventSource = "none"]}
  BY DEF Pldm!sendPldm, Pldm!OrFault
<1>3. QED
  BY <1>1, <1>2, FreeTyped, CloseTyped

LEMMA EncodeTyped ==
    ASSUME NEW s \in Pldm!Transport, NEW type \in Pldm!MsgTypes, NEW o \in OCC,
           NEW t \in Pldm!EncodeAndSend(s, type, o) \cup Pldm!NotEncoded(s, type)
    PROVE  t \in Pldm!Transport
<1>1. CASE t \in Pldm!EncodeAndSend(s, type, o)
  <2> DEFINE u == [s EXCEPT !.pldmInstanceID = TRUE, !.msgType = type,
                            !.resetInstance = IF type = Pldm!Sensor THEN @ ELSE o]
  <2>0. o \in Pldm!OCC
    BY SameOCC
  <2>1. u \in Pldm!Transport /\ u.msgType = type
    BY <2>0 DEF Pldm!Transport
  <2>2. t \in Pldm!sendPldm(u, o)
    BY <1>1 DEF Pldm!EncodeAndSend
  <2> HIDE DEF u
  <2>3. QED
    BY <2>1, <2>2, SendTyped
<1>2. CASE t \in Pldm!NotEncoded(s, type)
  BY <1>2 DEF Pldm!Transport, Pldm!NotEncoded, Pldm!getPldmInstanceId,
              Pldm!OrFault
<1>3. QED
  BY <1>1, <1>2

\* PDRs are those of OCCs that exist.
LEMMA PdrsTyped == \A pdrs \in Pldm!Pdrs : pdrs \subseteq OCC
BY SameOCC, NAssumption DEF Pldm!Pdrs, Pldm!OrFault, Pldm!OCC

LEMMA FetchedTyped ==
    ASSUME NEW cache \in SUBSET OCC, NEW c \in Pldm!Fetched(cache)
    PROVE  c \subseteq OCC
BY PdrsTyped DEF Pldm!Fetched

-----------------------------------------------------------------------------
(* What the manager calls                                                    *)

\* A reset, asked for by the manager or again by a handler of the interface
LEMMA ResetTyped ==
    ASSUME hostRunning, CachesTyped, NEW s \in Pldm!Transport, NEW o,
           Pldm!ResetOCC(s, o)
    PROVE  PldmTyped' /\ Pldm!TellNothing /\ hresets' = hresets
<1>1. PICK effecters \in Pldm!Fetched(occEffecters) :
         /\ occEffecters' = effecters
         /\ \/ o \notin effecters /\ io' = s
            \/ /\ o \in effecters
               /\ io' \in Pldm!EncodeAndSend(s, Pldm!Reset, o)
                            \cup Pldm!NotEncoded(s, Pldm!Reset)
         /\ Pldm!TellNothing
         /\ UNCHANGED <<occSensors, sbeSensors, sbeEffecters, hresets>>
  BY DEF Pldm!ResetOCC
<1>2. effecters \subseteq OCC
  BY FetchedTyped DEF CachesTyped
<1>3. io' \in Pldm!Transport
  BY <1>1, <1>2, EncodeTyped DEF Pldm!MsgTypes
<1>4. QED
  BY <1>1, <1>2, <1>3 DEF PldmTyped, CachesTyped

LEMMA CheckTyped ==
    ASSUME PldmTyped, NEW o, Pldm!CheckActiveSensor(o)
    PROVE  PldmTyped'
<1>1. PICK sensors \in Pldm!Fetched(occSensors) :
         \/ /\ o \in sensors
            /\ occSensors' = sensors
            /\ io' \in Pldm!EncodeAndSend(io, Pldm!Sensor, o)
                         \cup Pldm!NotEncoded(io, Pldm!Sensor)
         \/ /\ \E more \in Pldm!Pdrs : occSensors' = sensors \cup more
            /\ io' = io
  BY DEF Pldm!CheckActiveSensor
<1>2. sensors \subseteq OCC /\ occSensors' \subseteq OCC
  BY <1>1, FetchedTyped, PdrsTyped DEF PldmTyped, CachesTyped
<1>3. io' \in Pldm!Transport
  BY <1>1, <1>2, EncodeTyped DEF Pldm!MsgTypes, PldmTyped
<1>4. QED
  BY <1>2, <1>3 DEF PldmTyped, CachesTyped, Pldm!CheckActiveSensor

LEMMA HresetTyped ==
    ASSUME PldmTyped, hostRunning, NEW o, Pldm!SendHRESET(o)
    PROVE  PldmTyped'
<1>1. PICK effecters \in Pldm!Fetched(sbeEffecters) :
         /\ sbeEffecters' = effecters
         /\ \/ io' = io
            \/ /\ o \in effecters
               /\ io' \in Pldm!EncodeAndSend(io, Pldm!Hreset, o)
                            \cup Pldm!NotEncoded(io, Pldm!Hreset)
         /\ UNCHANGED <<occSensors, sbeSensors, occEffecters>>
  BY DEF Pldm!SendHRESET
<1>2. effecters \subseteq OCC
  BY FetchedTyped DEF PldmTyped, CachesTyped
<1>3. io' \in Pldm!Transport
  BY <1>1, <1>2, EncodeTyped DEF Pldm!MsgTypes, PldmTyped
<1>4. QED
  BY <1>1, <1>2, <1>3 DEF PldmTyped, CachesTyped

-----------------------------------------------------------------------------
(* What the interface tells the manager                                      *)

\* Nothing, the state of an OCC, or the end of an HRESET that was awaited
Outcome ==
    \/ Pldm!TellNothing /\ hresets' = hresets
    \/ \E o \in OCC, state \in {"running", "stopped", "dormant"} :
          told' = [occ |-> o, state |-> state] /\ hresets' = hresets
    \/ \E o \in OCC \cap hresets, success \in BOOLEAN :
          told' = [occ |-> o, hreset |-> success] /\ hresets' = hresets \ {o}

\* A handler keeps the types, and names an OCC that exists.
LEMMA HandlerTyped ==
    ASSUME PldmTyped, PldmHandler
    PROVE  PldmTyped' /\ Outcome /\ hostRunning' = hostRunning
<1> USE DEF Outcome
<1>0. io \in Pldm!Transport /\ io.pldmResponseOcc \in OCC /\ CachesTyped
  BY SameOCC DEF PldmTyped, Pldm!Transport
<1>1. CASE Pldm!ResponseNotRead \/ Pldm!SensorRefused
  <2>1. io' = [io EXCEPT !.eventSource = "none"] \/ io' \in Pldm!pldmClose(io)
    BY <1>1 DEF Pldm!ResponseNotRead, Pldm!SensorRefused
  <2>2. io' \in Pldm!Transport
    <3>1. CASE io' = [io EXCEPT !.eventSource = "none"]
      BY <1>0, <3>1 DEF Pldm!Transport
    <3>2. CASE io' \in Pldm!pldmClose(io)
      BY <1>0, <3>2, CloseTyped
    <3>3. QED
      BY <2>1, <3>1, <3>2
  <2>3. QED
    BY <1>0, <1>1, <2>2
       DEF Pldm!ResponseNotRead, Pldm!SensorRefused, Pldm!NothingElse,
           Pldm!cacheVars, PldmTyped, CachesTyped
<1>2. CASE Pldm!SensorRead \/ Pldm!ResetAccepted
  <2>1. PICK closed \in Pldm!pldmClose(io) :
           io' = [closed EXCEPT !.pldmResponseReceived = TRUE]
    BY <1>2 DEF Pldm!SensorRead, Pldm!ResetAccepted
  <2>2. closed \in Pldm!Transport
    BY <1>0, CloseTyped
  <2>3. io' \in Pldm!Transport
    BY <2>1, <2>2 DEF Pldm!Transport
  <2>4. QED
    BY <1>0, <1>2, <2>3
       DEF Pldm!SensorRead, Pldm!ResetAccepted, Pldm!NothingElse,
           Pldm!cacheVars, PldmTyped, CachesTyped
<1>3. CASE hostRunning /\ (Pldm!PldmRspExpired \/ Pldm!ResetRefused)
  <2>1. PICK closed \in Pldm!Transport :
           \/ \E o : Pldm!ResetOCC(closed, o)
           \/ io' = closed /\ Pldm!NothingElse
    <3>1. [io EXCEPT !.pldmRspTimer = FALSE] \in Pldm!Transport
      BY <1>0 DEF Pldm!Transport
    <3>2. CASE Pldm!PldmRspExpired
      BY <1>0, <3>1, <3>2, CloseTyped DEF Pldm!PldmRspExpired
    <3>3. CASE Pldm!ResetRefused
      BY <1>0, <3>3, CloseTyped DEF Pldm!ResetRefused
    <3>4. QED
      BY <1>3, <3>2, <3>3
  <2>2. hostRunning' = hostRunning
    BY <1>3 DEF Pldm!PldmRspExpired, Pldm!ResetRefused
  <2>3. CASE \E o : Pldm!ResetOCC(closed, o)
    BY <1>0, <1>3, <2>2, <2>3, ResetTyped
  <2>4. CASE io' = closed /\ Pldm!NothingElse
    BY <1>0, <2>2, <2>4
       DEF Pldm!NothingElse, Pldm!cacheVars, PldmTyped, CachesTyped
  <2>5. QED
    BY <2>1, <2>3, <2>4
<1>4. CASE Pldm!OccSensorEvent \/ Pldm!SbeSensorEvent \/ Pldm!OtherSensorEvent
  <2>1. occSensors' \subseteq OCC /\ sbeSensors' \subseteq OCC
    BY <1>0, <1>4, FetchedTyped
       DEF Pldm!OccSensorEvent, Pldm!SbeSensorEvent, Pldm!OtherSensorEvent,
           Pldm!FetchSensors, CachesTyped
  <2>2. io' \in Pldm!Transport
    BY <1>0, <1>4, CloseTyped
       DEF Pldm!OccSensorEvent, Pldm!SbeSensorEvent, Pldm!OtherSensorEvent
  <2>3. PldmTyped' /\ hostRunning' = hostRunning
    BY <1>0, <1>4, <2>1, <2>2
       DEF Pldm!OccSensorEvent, Pldm!SbeSensorEvent, Pldm!OtherSensorEvent,
           PldmTyped, CachesTyped
  <2>4. Outcome
    BY <1>4, <2>1
       DEF Pldm!OccSensorEvent, Pldm!SbeSensorEvent, Pldm!OtherSensorEvent,
           Pldm!HresetEnds
  <2>5. QED
    BY <2>3, <2>4
<1>5. QED
  BY <1>1, <1>2, <1>3, <1>4 DEF PldmHandler


-----------------------------------------------------------------------------
(* The invariant and the refinement                                          *)

LEMMA InitTyped == Init => PldmTyped
<1>1. 0 \in Pldm!OCC
  BY NAssumption DEF Pldm!OCC, Manager!NoInstance
<1>2. QED
  BY <1>1 DEF Init, Pldm!Init, PldmTyped, CachesTyped, Pldm!Transport

\* Every step of the system keeps the types of the interface.
LEMMA NextTyped ==
    ASSUME PldmTyped, [Next]_vars
    PROVE  PldmTyped'
<1>1. CASE WithoutPldm
  BY <1>1 DEF WithoutPldm, pldmOnly, cacheVars, PldmTyped, CachesTyped
<1>2. CASE Step
  <2>1. \A o : AskForSensor(o) => PldmTyped'
    BY <1>1, CheckTyped DEF AskForSensor
  <2>2. CASE ManagerAlone
    BY <1>1, <2>2 DEF ManagerAlone
  <2>3. CASE CheckSensor \/ ValidateOcc
    BY <1>1, <2>1, <2>3 DEF CheckSensor, ValidateOcc
  <2>4. CASE PldmResetOCC
    <3>1. CASE hostRunning
      BY <2>4, <3>1, ResetTyped DEF PldmResetOCC, PldmTyped
    <3>2. CASE ~hostRunning
      BY <1>1, <2>4, <3>2 DEF PldmResetOCC
    <3>3. QED
      BY <3>1, <3>2
  <2>5. CASE SendHRESET
    <3>1. CASE hostRunning
      BY <2>5, <3>1, HresetTyped DEF SendHRESET
    <3>2. CASE ~hostRunning
      BY <1>1, <2>5, <3>2 DEF SendHRESET
    <3>3. QED
      BY <3>1, <3>2
  <2>6. CASE ClearData
    <3>1. CASE occSensors' = {} /\ sbeSensors' = {} /\ occEffecters' = {}
               /\ sbeEffecters' = {} /\ UNCHANGED io
      BY <3>1 DEF PldmTyped, CachesTyped
    <3>2. QED
      BY <1>1, <2>6, <3>1 DEF ClearData
  <2>7. QED
    BY <1>2, <2>2, <2>3, <2>4, <2>5, <2>6 DEF Step
<1>3. CASE PldmEvent
  BY <1>3, HandlerTyped DEF PldmEvent
<1>4. CASE GivenUp
  BY <1>4, CloseTyped DEF GivenUp, cacheVars, PldmTyped, CachesTyped
<1>5. CASE ManagerEvent
  BY <1>1, <1>5 DEF ManagerEvent
<1>6. CASE UNCHANGED vars
  BY <1>6 DEF vars, pldmOnly, cacheVars, PldmTyped, CachesTyped
<1>7. QED
  BY <1>2, <1>3, <1>4, <1>5, <1>6 DEF Next

\* A callback that is delivered is an event of the manager, or none of its
\* business.
LEMMA DeliverIsEvent ==
    ASSUME PldmTyped, PldmEvent
    PROVE  [Manager!Next]_Manager!vars
<1>1. PldmHandler /\ Manager!Idle /\ Outcome /\ hostRunning' = hostRunning
  BY HandlerTyped DEF PldmEvent
<1>2. CASE told' = Pldm!NotTold /\ UNCHANGED <<managerOnly, todo>>
  <2>1. hresets' = hresets
    BY <1>1, <1>2 DEF Outcome, Pldm!NotTold
  <2>2. UNCHANGED Manager!vars
    BY <1>1, <1>2, <2>1
       DEF managerOnly, untold, Manager!vars, Manager!mgrVars,
           Manager!sensorVars, Manager!resetVars, Manager!pollVars,
           Manager!occVars, Manager!hostVars
  <2>3. QED
    BY <2>2
<1>3. ASSUME NEW o \in OCC, NEW state \in {"running", "stopped", "dormant"},
             told' = [occ |-> o, state |-> state], hresets' = hresets, Deliver
      PROVE  [Manager!Next]_Manager!vars
  <2>1. /\ told'.occ = o /\ told'.state = state
        /\ told' # Pldm!NotTold /\ "hreset" \notin DOMAIN told'
    BY <1>3 DEF Pldm!NotTold
  <2>2. \/ TellRunning(o)
        \/ Starts(Manager!Call("updateOCCInactive", o))
    BY <1>3, <2>1 DEF Deliver
  <2>3. CASE TellRunning(o)
    <3>1. Manager!SensorRunning
      BY <1>1, <1>3, <2>3
         DEF TellRunning, untold, OCC, Manager!SensorRunning, Manager!mgrVars,
             Manager!resetVars, Manager!pollVars, Manager!hostVars
    <3>2. QED
      BY <3>1 DEF Manager!Next, Manager!Event
  <2>4. CASE Starts(Manager!Call("updateOCCInactive", o))
    <3>1. Manager!SensorStopped
      BY <1>1, <1>3, <2>4
         DEF Starts, managerOnly, untold, OCC, Manager!SensorStopped,
             Manager!mgrVars, Manager!sensorVars, Manager!resetVars,
             Manager!pollVars, Manager!occVars, Manager!hostVars
    <3>2. QED
      BY <3>1 DEF Manager!Next, Manager!Event
  <2>5. QED
    BY <2>2, <2>3, <2>4
<1>4. ASSUME NEW o \in OCC \cap hresets, NEW success \in BOOLEAN,
             told' = [occ |-> o, hreset |-> success],
             hresets' = hresets \ {o}, Deliver
      PROVE  [Manager!Next]_Manager!vars
  <2>1. /\ told'.occ = o /\ told'.hreset = success
        /\ told' # Pldm!NotTold /\ "state" \notin DOMAIN told'
    BY <1>4 DEF Pldm!NotTold
  <2>2. Manager!SbeHRESETResult(o, success) /\ UNCHANGED managerOnly
    BY <1>4, <2>1 DEF Deliver
  <2>3. Manager!HresetResult
    BY <1>1, <1>4, <2>2
       DEF managerOnly, untold, Manager!HresetResult, Manager!mgrVars,
           Manager!sensorVars, Manager!resetVars, Manager!pollVars,
           Manager!occVars
  <2>4. QED
    BY <2>3 DEF Manager!Next, Manager!Event
<1>5. QED
  <2>1. Deliver
    BY DEF PldmEvent
  <2>2. CASE Pldm!TellNothing /\ hresets' = hresets
    <3>1. told' = [occ |-> 255]
      BY <2>2 DEF Pldm!TellNothing, Pldm!NotTold, Pldm!NoInstance
    <3>2. "state" \notin DOMAIN told' /\ "hreset" \notin DOMAIN told'
      BY <3>1
    <3>3. QED
      BY <1>2, <2>1, <3>2 DEF Deliver
  <2>3. QED
    BY <1>1, <1>3, <1>4, <2>1, <2>2 DEF Outcome

\* A step of the manager, its calls included, is a step of OccManager.
LEMMA StepIsStep ==
    ASSUME "hostOff" \in ManagerFaults, Step \/ GivenUp \/ ManagerEvent
    PROVE  [Manager!Next]_Manager!vars
<1>1. CASE Step
  <2>1. Manager!Step
    BY <1>1
       DEF Step, ManagerAlone, CheckSensor, ValidateOcc, PldmResetOCC,
           SendHRESET, ClearData, Manager!Step, Manager!ClearData
  <2>2. QED
    BY <2>1 DEF Manager!Next
<1>2. CASE GivenUp
  <2>1. CASE Starts(Manager!Call("clearData", 0))
    <3>1. Manager!ResetGivenUp
      BY <1>2, <2>1
         DEF GivenUp, Starts, managerOnly, untold, Manager!ResetGivenUp,
             Manager!mgrVars, Manager!sensorVars, Manager!resetVars,
             Manager!pollVars, Manager!occVars, Manager!hostVars
    <3>2. QED
      BY <3>1 DEF Manager!Next, Manager!Event
  <2>2. CASE UNCHANGED <<managerOnly, todo>>
    BY <1>2, <2>2
       DEF GivenUp, managerOnly, untold, Manager!vars, Manager!mgrVars,
           Manager!sensorVars, Manager!resetVars, Manager!pollVars,
           Manager!occVars, Manager!hostVars
  <2>3. QED
    BY <1>2, <2>1, <2>2 DEF GivenUp
<1>3. CASE ManagerEvent
  BY <1>3 DEF ManagerEvent, Manager!Next, Manager!Event
<1>4. QED
  BY <1>1, <1>2, <1>3

LEMMA NothingMoves == UNCHANGED vars => UNCHANGED Manager!vars
BY DEF vars, managerOnly, untold, Manager!vars, Manager!mgrVars,
       Manager!sensorVars, Manager!resetVars, Manager!pollVars,
       Manager!occVars, Manager!hostVars

\* The interface names only OCCs that exist, in every state of the system.
THEOREM PldmTypeCorrect == Spec => []PldmTyped
<1>1. PldmTyped /\ [Next]_vars => PldmTyped'
  BY NextTyped
<1>2. QED
  BY InitTyped, <1>1, PTL DEF Spec

\* If the host may stop, every behaviour of the system is one of the manager in
\* its open environment: what is proved of OccManager holds of the system.
THEOREM Refinement == "hostOff" \in ManagerFaults => (Spec => ImplementsManager)
<1> SUFFICES ASSUME "hostOff" \in ManagerFaults
             PROVE  Spec => ImplementsManager
  OBVIOUS
<1>1. Init => Manager!Init
  BY DEF Init
<1>2. PldmTyped /\ [Next]_vars => [Manager!Next]_Manager!vars
  BY DeliverIsEvent, StepIsStep, NothingMoves DEF Next
<1>3. QED
  BY <1>1, <1>2, PldmTypeCorrect, PTL DEF Spec, ImplementsManager, Manager!Spec
=================================================================================
