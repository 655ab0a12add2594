--------------------------- MODULE OccManager_proofs ---------------------------
(***************************************************************************)
(* Proofs about OccManager for any number of OCCs, any choice of masters   *)
(* and any faults: type correctness, that polling stops with the last      *)
(* counted OCC, that a wait for OCC active sensors has its timer, that no  *)
(* stale activation stays queued, that nothing comes back into the PLDM    *)
(* interface while it clears its data, that the watches of an OCC follow   *)
(* its binding and its activation, that the nesting of handlers is         *)
(* bounded, that no more OCCs are counted than are active, that a reset    *)
(* in progress has stopped all that are counted, that the others are       *)
(* polled, and that a master is watched when all of them are counted.      *)
(***************************************************************************)
EXTENDS OccManager, FiniteSetTheorems, TLAPS

(* Calls and the call stack                                                  *)

\* A call is a frame when the function is called for what it is about.
LEMMA CallType ==
    /\ \A f \in OccCalls, o \in OCC : Call(f, o) \in Frame
    /\ \A f \in LoopCalls, o \in 0 .. N : Call(f, o) \in Frame
    /\ \A f \in ManagerCalls, o \in Instance : Call(f, o) \in Frame
BY DEF Call, Call2, Frame, Instance

LEMMA Call2Type ==
    \A a \in Instance :
        /\ \A f \in OccCalls, o \in OCC : Call2(f, o, a) \in Frame
        /\ \A f \in LoopCalls, o \in 0 .. N : Call2(f, o, a) \in Frame
BY DEF Call2, Frame

\* The calls that a handler makes are a sequence of frames.
LEMMA FewCalls ==
    ASSUME NEW f \in Frame, NEW g \in Frame, NEW h \in Frame
    PROVE  /\ <<>> \in Seq(Frame)
           /\ <<f>> \in Seq(Frame)
           /\ <<f, g>> \in Seq(Frame)
           /\ <<f, g, h>> \in Seq(Frame)
OBVIOUS

\* Making calls, or none, keeps the stack a sequence of frames.
LEMMA CallsType ==
    ASSUME todo \in Seq(Frame), todo # <<>>
    PROVE  /\ Return => todo' \in Seq(Frame)
           /\ \A s \in Seq(Frame) : Calls(s) => todo' \in Seq(Frame)
<1>1. Tail(todo) \in Seq(Frame)
  OBVIOUS
<1>2. ASSUME NEW s \in Seq(Frame), Calls(s) PROVE todo' \in Seq(Frame)
  BY <1>1, <1>2 DEF Calls
<1>3. QED
  BY <1>1, <1>2 DEF Return

\* The function at the head of the stack determines what the call is about.
LEMMA HeadType ==
    ASSUME todo \in Seq(Frame), todo # <<>>
    PROVE  /\ Head(todo) \in Frame
           /\ arg \in Instance
           /\ Head(todo).fn \in OccCalls => self \in OCC
           /\ Head(todo).fn \in LoopCalls => self \in 0 .. N
           /\ Head(todo).fn \in ManagerCalls => self \in Instance
<1>1. Head(todo) \in Frame
  OBVIOUS
<1>2. QED
  BY <1>1 DEF Frame, OccCalls, LoopCalls, ManagerCalls, self, arg

-----------------------------------------------------------------------------
(* Type correctness                                                          *)

\* No search of /dev finds more than N OCCs.
LEMMA SearchType ==
    ASSUME NEW found \in Searches
    PROVE  found \subseteq OCC /\ Cardinality(found) \in 0 .. N
<1>1. IsFiniteSet(OCC) /\ Cardinality(OCC) = N
  BY NAssumption, FS_Interval DEF OCC
<1>2. found \subseteq OCC
  BY DEF Searches
<1>3. QED
  BY <1>1, <1>2, FS_Subset, FS_CardinalityType, NAssumption

LEMMA InitType == Init => TypeOK
<1>1. SUFFICES ASSUME Init PROVE TypeOK
  OBVIOUS
<1>2. prevOCCSearch \in 0 .. N
  BY <1>1, SearchType DEF Init
<1>3. DataOK
  BY <1>1, <1>2 DEF Init, DataOK, Instance
<1>4. QED
  BY <1>1, <1>3 DEF Init, TypeOK

\* A step executes the call at the head of the stack.
LEMMA StepRuns == Step => todo # <<>>
BY DEF Step, Running, Activate, Deactivate, Unbind, SetProperty, DeviceError,
       ResetOCC, WentActive, StartPoll, RestartWait, WentInactive, CheckWaiting,
       CheckSensor, CheckAllEnd, ClearQueue, ResetOccRequest,
       InitiateOccRequest, StopOccs, PldmResetOCC, ResetSent,
       PollerTimerExpired, PollOcc, ValidateOcc, ValidateMaster,
       UpdateOCCInactive, ClearData, ClearNext, ClearEnd, SendHRESET,
       HostPoweredOff

\* A handler keeps the data well typed.
LEMMA StepDataType ==
    ASSUME TypeOK, Step
    PROVE  DataOK'
<1> USE DEF TypeOK, DataOK, mgrVars, sensorVars, resetVars, pollVars, occVars,
            hostVars, Running, Instance
<1>0. /\ Head(todo).fn \in OccCalls => self \in OCC
      /\ Head(todo).fn \in ManagerCalls => self \in Instance
      /\ OneLess \in Nat
  BY StepRuns, HeadType DEF OneLess
<1>1. CASE Activate
  <2>1. bound' \in [OCC -> BOOLEAN] /\ presence' \in [OCC -> BOOLEAN]
    BY <1>1 DEF Activate
  <2>2. /\ watch' \in [OCC -> {"off", "partial", "on"}]
        /\ occActive' \in [OCC -> BOOLEAN]
    BY <1>1, ZenonT(30) DEF Activate, AddErrorWatch, AddWatchResults
  <2>3. UNCHANGED <<sensorReceived, mgrVars, sensorVars, resetVars, pollVars,
                    hostVars>>
    BY <1>1 DEF Activate
  <2>4. QED
    BY <2>1, <2>2, <2>3
<1>2. CASE Deactivate
  BY <1>2 DEF Deactivate
<1>3. CASE Unbind
  BY <1>3 DEF Unbind
<1>4. CASE SetProperty
  BY <1>4, ZenonT(30) DEF SetProperty
<1>5. CASE DeviceError
  BY <1>5 DEF DeviceError
<1>6. CASE ResetOCC
  BY <1>6 DEF ResetOCC
<1>7. CASE WentActive
  <2>1. activeCount' \in Nat
    BY <1>7 DEF WentActive
  <2>2. waitForAllOccsTimer' \in BOOLEAN
    BY <1>7, Zenon DEF WentActive
  <2>3. QED
    BY <1>7, <2>1, <2>2 DEF WentActive
<1>8. CASE StartPoll
  BY <1>8 DEF StartPoll
<1>9. CASE RestartWait
  BY <1>9 DEF RestartWait
<1>10. CASE WentInactive
  BY <1>10, <1>0 DEF WentInactive
<1>11. CASE CheckWaiting
  BY <1>11 DEF CheckWaiting
<1>12. CASE CheckSensor
  <2>1. allActiveSensorAvailable' \in BOOLEAN
    BY <1>12, Zenon DEF CheckSensor, SoFarAvailable
  <2>2. queuedActiveState' \subseteq OCC
    BY <1>12 DEF CheckSensor
  <2>3. UNCHANGED <<waitingForAllOccActiveSensors, discoverTimer, mgrVars,
                    resetVars, pollVars, occVars, hostVars>>
    BY <1>12 DEF CheckSensor
  <2>4. QED
    BY <2>1, <2>2, <2>3
<1>13. CASE CheckAllEnd
  BY <1>13 DEF CheckAllEnd
<1>14. CASE ClearQueue
  BY <1>14 DEF ClearQueue
<1>15. CASE ResetOccRequest
  BY <1>15, <1>0 DEF ResetOccRequest, OccCalls
<1>16. CASE InitiateOccRequest
  BY <1>16, <1>0 DEF InitiateOccRequest, ManagerCalls
<1>17. CASE StopOccs
  BY Call2Type, <1>17 DEF StopOccs
<1>18. CASE PldmResetOCC
  BY <1>18 DEF PldmResetOCC
<1>19. CASE ResetSent
  BY <1>19 DEF ResetSent
<1>20. CASE PollerTimerExpired
  BY <1>20 DEF PollerTimerExpired
<1>21. CASE PollOcc
  BY <1>21 DEF PollOcc, PollAgain
<1>22. CASE ValidateOcc
  BY <1>22 DEF ValidateOcc
<1>23. CASE ValidateMaster
  BY <1>23 DEF ValidateMaster
<1>24. CASE UpdateOCCInactive
  BY <1>24 DEF UpdateOCCInactive
<1>25. CASE ClearData
  BY <1>25 DEF ClearData, ClearNext, ClearEnd
<1>26. CASE SendHRESET
  BY <1>26, <1>0 DEF SendHRESET, OccCalls
<1>27. CASE HostPoweredOff
  BY <1>27 DEF HostPoweredOff
<1>28. QED
  BY <1>1, <1>2, <1>3, <1>4, <1>5, <1>6, <1>7, <1>8, <1>9, <1>10, <1>11,
     <1>12, <1>13, <1>14, <1>15, <1>16, <1>17, <1>18, <1>19, <1>20, <1>21,
     <1>22, <1>23, <1>24, <1>25, <1>26, <1>27 DEF Step

\* So does an event.
LEMMA EventDataType ==
    ASSUME TypeOK, Event
    PROVE  DataOK'
<1> USE DEF TypeOK, DataOK, mgrVars, sensorVars, resetVars, pollVars, occVars,
            hostVars
<1>1. CASE DiscoverTimerExpired
  <2>1. prevOCCSearch' \in 0 .. N /\ statusObjects' \subseteq OCC
    BY <1>1, SearchType DEF DiscoverTimerExpired
  <2>2. /\ waitingForAllOccActiveSensors' \in BOOLEAN
        /\ discoverTimer' \in BOOLEAN
        /\ allActiveSensorAvailable' \in BOOLEAN
    BY <1>1, Zenon DEF DiscoverTimerExpired
  <2>3. UNCHANGED <<queuedActiveState, resetVars, pollVars, occVars, hostVars>>
    BY <1>1 DEF DiscoverTimerExpired
  <2>4. QED
    BY <2>1, <2>2, <2>3
<1>2. CASE PollTimerExpired
  BY <1>2 DEF PollTimerExpired
<1>3. CASE WaitTimerExpired
  BY <1>3 DEF WaitTimerExpired
<1>4. CASE SensorRunning
  BY <1>4 DEF SensorRunning, UpdateOCCActive, LookAgain
<1>5. CASE SensorStopped
  BY <1>5 DEF SensorStopped
<1>6. CASE HresetResult
  BY <1>6 DEF HresetResult, SbeHRESETResult
<1>7. CASE OccError \/ PresenceMismatch \/ SbeTimeout \/ DBusWrite
  BY <1>7 DEF OccError, PresenceMismatch, SbeTimeout, DBusWrite
<1>8. CASE ResetGivenUp \/ HostStateOff
  BY <1>8, ZenonT(30) DEF ResetGivenUp, HostStateOff
<1>9. QED
  BY <1>1, <1>2, <1>3, <1>4, <1>5, <1>6, <1>7, <1>8 DEF Event

\* An event starts with an empty stack and calls handlers for what they are about.
LEMMA EventStackType ==
    ASSUME TypeOK, Event
    PROVE  todo' \in Seq(Frame)
<1> USE FewCalls DEF TypeOK, DataOK, Instance, OccCalls, LoopCalls,
            ManagerCalls
<1>1. /\ 0 \in 0 .. N
      /\ \A f \in OccCalls, o \in OCC : Call(f, o) \in Frame
      /\ \A f \in LoopCalls, o \in 0 .. N : Call(f, o) \in Frame
      /\ \A f \in ManagerCalls, o \in Instance : Call(f, o) \in Frame
  BY NAssumption, CallType
<1>2. CASE DiscoverTimerExpired
  BY <1>1, <1>2 DEF DiscoverTimerExpired, CheckAllActiveSensors
<1>3. CASE PollTimerExpired
  BY <1>1, <1>3 DEF PollTimerExpired
<1>4. CASE WaitTimerExpired
  BY <1>1, <1>4 DEF WaitTimerExpired
<1>5. CASE SensorRunning
  BY <1>1, <1>5 DEF SensorRunning, UpdateOCCActive
<1>6. CASE SensorStopped
  BY <1>1, <1>6 DEF SensorStopped
<1>7. CASE HresetResult
  <2>1. PICK o \in hresets :
           todo' \in {<<Call("activate", o)>>, <<Call("resetOccRequest", o)>>,
                     <<>>}
    BY <1>7 DEF HresetResult, SbeHRESETResult
  <2>2. Call("activate", o) \in Frame /\ Call("resetOccRequest", o) \in Frame
    BY <1>1
  <2>3. QED
    BY <2>1, <2>2
<1>8. CASE OccError
  BY <1>1, <1>8 DEF OccError
<1>9. CASE PresenceMismatch
  BY <1>1, <1>9 DEF PresenceMismatch
<1>10. CASE SbeTimeout
  <2>1. PICK o \in statusObjects :
           todo' = <<Call("deactivate", o), Call("sendHRESET", o)>>
    BY <1>1, <1>10 DEF SbeTimeout
  <2>2. Call("deactivate", o) \in Frame /\ Call("sendHRESET", o) \in Frame
    BY <1>1
  <2>3. QED
    BY <2>1, <2>2
<1>11. CASE DBusWrite
  <2>1. PICK o \in statusObjects, f \in {"activate", "deactivate"} :
           todo' = <<Call(f, o)>>
    BY <1>1, <1>11 DEF DBusWrite
  <2>2. Call(f, o) \in Frame
    BY <1>1
  <2>3. QED
    BY <2>1, <2>2
<1>12. CASE ResetGivenUp
  BY <1>1, <1>12 DEF ResetGivenUp
<1>13. CASE HostStateOff
  BY <1>1, <1>13 DEF HostStateOff
<1>14. QED
  BY <1>2, <1>3, <1>4, <1>5, <1>6, <1>7, <1>8, <1>9, <1>10, <1>11, <1>12, <1>13
     DEF Event

\* Calls of functions other than clearData
PlainLoops == LoopCalls \ {"clearData"}
Plain == {f \in Frame : f.fn # "clearData"}

LEMMA CallFn == \A f, o, a : Call(f, o).fn = f /\ Call2(f, o, a).fn = f
BY DEF Call, Call2

LEMMA PlainType ==
    /\ \A f \in OccCalls, o \in OCC : Call(f, o) \in Plain
    /\ \A f \in PlainLoops, o \in 0 .. N : Call(f, o) \in Plain
    /\ \A f \in ManagerCalls, o \in Instance : Call(f, o) \in Plain
BY CallType, CallFn DEF Plain, OccCalls, PlainLoops, ManagerCalls

LEMMA Plain2Type ==
    \A a \in Instance :
        /\ \A f \in OccCalls, o \in OCC : Call2(f, o, a) \in Plain
        /\ \A f \in PlainLoops, o \in 0 .. N : Call2(f, o, a) \in Plain
BY Call2Type, CallFn DEF Plain, OccCalls, PlainLoops

LEMMA FewPlainCalls ==
    ASSUME NEW f \in Plain, NEW g \in Plain, NEW h \in Plain
    PROVE  /\ <<>> \in Seq(Plain)
           /\ <<f>> \in Seq(Plain)
           /\ <<f, g>> \in Seq(Plain)
           /\ <<f, g, h>> \in Seq(Plain)
OBVIOUS

\* The call at the head of the stack is replaced by calls of other functions for
\* what they are about; the rest of the stack is not touched.
LEMMA StepCallsPlain ==
    ASSUME TypeOK, Step, ~ (ClearData \/ PldmResetOCC \/ SendHRESET)
    PROVE  Return \/ \E s \in Seq(Plain) : Calls(s)
<1> DEFINE ReturnsOrCalls == Return \/ \E s \in Seq(Plain) : Calls(s)
<1>1. /\ Return => ReturnsOrCalls
      /\ \A s \in Seq(Plain) : Calls(s) => ReturnsOrCalls
  OBVIOUS
<1> HIDE DEF ReturnsOrCalls
<1> USE FewPlainCalls, PlainType DEF TypeOK, DataOK, Instance, OccCalls,
            PlainLoops, LoopCalls, ManagerCalls, Running
<1>2. /\ arg \in Instance
      /\ Head(todo).fn \in OccCalls => self \in OCC
      /\ Head(todo).fn \in LoopCalls => self \in 0 .. N
      /\ Head(todo).fn \in ManagerCalls => self \in Instance
  BY StepRuns, HeadType
<1>3. /\ 0 \in 0 .. N
      /\ \A o \in OCC : o \in 0 .. N /\ o + 1 \in 0 .. N
      /\ \A o \in 0 .. N : o # N => o \in OCC
  BY NAssumption DEF OCC
<1>4. CASE Activate
  BY <1>1, <1>2, <1>4 DEF Activate, AfterWatch
<1>5. CASE Deactivate
  BY <1>1, <1>2, <1>5 DEF Deactivate
<1>6. CASE Unbind \/ SetProperty
  BY <1>1, <1>6 DEF Unbind, SetProperty
<1>7. CASE DeviceError
  BY <1>1, <1>2, <1>7 DEF DeviceError
<1>8. CASE ResetOCC
  BY <1>1, <1>2, <1>8 DEF ResetOCC
<1>9. CASE WentActive
  <2>1. self \in OCC
    BY <1>2, <1>9 DEF WentActive
  <2>2. ASSUME NEW count
        PROVE  AfterCount(count) \in Seq(Plain)
    <3>1. <<Call("startPoll", self), Call("checkWaiting", self)>> \in Seq(Plain)
      BY <2>1
    <3>2. /\ <<Call("validateOcc", 0)>> \in Seq(Plain)
          /\ <<Call("initiateOccRequest", resetInstance),
               Call("restartWait", NoInstance)>> \in Seq(Plain)
          /\ <<>> \in Seq(Plain)
      BY <1>3
    <3>3. QED
      BY <3>1, <3>2 DEF AfterCount
  <2>3. QED
    BY <1>1, <1>9, <2>2 DEF WentActive
<1>10. CASE StartPoll
  BY <1>1, <1>10 DEF StartPoll, ReturnOr
<1>11. CASE RestartWait \/ ClearQueue \/ ResetOccRequest \/ ResetSent
            \/ HostPoweredOff
  BY <1>1, <1>11 DEF RestartWait, ClearQueue, ResetOccRequest, ResetSent,
                     HostPoweredOff
<1>12. CASE WentInactive
  BY <1>1, <1>2, <1>12 DEF WentInactive
<1>13. CASE CheckWaiting
  BY <1>1, <1>3, <1>13
     DEF CheckWaiting, ReturnOr, CheckAllActiveSensors
<1>14. CASE CheckSensor
  BY <1>1, <1>2, <1>3, <1>14 DEF CheckSensor
<1>15. CASE CheckAllEnd
  BY <1>1, <1>15 DEF CheckAllEnd
<1>16. CASE InitiateOccRequest
  BY <1>1, <1>2, <1>3, Plain2Type, <1>16 DEF InitiateOccRequest
<1>17. CASE StopOccs
  BY <1>1, <1>2, <1>3, Plain2Type, <1>17 DEF StopOccs
<1>18. CASE PollerTimerExpired
  BY <1>1, <1>3, <1>18 DEF PollerTimerExpired
<1>19. CASE PollOcc
  BY <1>1, <1>2, <1>3, <1>19 DEF PollOcc
<1>20. CASE ValidateOcc
  BY <1>1, <1>2, <1>3, Plain2Type, <1>20 DEF ValidateOcc, ReturnOr
<1>21. CASE ValidateMaster
  BY <1>1, <1>2, <1>3, Plain2Type, <1>21 DEF ValidateMaster
<1>22. CASE UpdateOCCInactive
  BY <1>1, <1>2, <1>22 DEF UpdateOCCInactive
<1>23. QED
  BY <1>4, <1>5, <1>6, <1>7, <1>8, <1>9, <1>10, <1>11, <1>12, <1>13, <1>14,
     <1>15, <1>16, <1>17, <1>18, <1>19, <1>20, <1>21, <1>22 DEF Step, ReturnsOrCalls

\* The same of every handler, those that call clearData and clearData included.
LEMMA StepCalls ==
    ASSUME TypeOK, Step
    PROVE  Return \/ \E s \in Seq(Frame) : Calls(s)
<1>1. Seq(Plain) \subseteq Seq(Frame)
  BY DEF Plain
<1>2. CASE ~ (ClearData \/ PldmResetOCC \/ SendHRESET)
  BY <1>1, <1>2, StepCallsPlain
<1>3. CASE ClearData \/ PldmResetOCC \/ SendHRESET
  <2> USE FewCalls, CallType DEF TypeOK, DataOK, Instance, OccCalls, LoopCalls,
              ManagerCalls, Running
  <2>1. /\ Head(todo).fn \in ManagerCalls => self \in Instance
        /\ 0 \in 0 .. N
        /\ \A o \in OCC : o \in 0 .. N /\ o + 1 \in 0 .. N
    BY StepRuns, HeadType, NAssumption DEF OCC
  <2>2. CASE ClearData
    BY <2>1, <2>2 DEF ClearData, ClearNext, ClearEnd
  <2>3. CASE PldmResetOCC
    BY <2>1, <2>3 DEF PldmResetOCC
  <2>4. CASE SendHRESET
    BY <2>1, <2>4 DEF SendHRESET
  <2>5. QED
    BY <1>3, <2>2, <2>3, <2>4
<1>4. QED
  BY <1>2, <1>3

\* A change of the host, in the middle of a nest of handlers or not, changes
\* nothing of the program.
allButHost == <<mgrVars, sensorVars, resetVars, pollVars, occVars, hresets, todo>>

LEMMA OnlyTheHost ==
    ASSUME HostChanges \/ UNCHANGED vars
    PROVE  /\ UNCHANGED allButHost
           /\ UNCHANGED hostRunning \/ hostRunning' \in BOOLEAN
BY DEF HostChanges, HostBoots, HostStops, vars, hostVars, allButHost

LEMMA TypeStep == TypeOK /\ [Next]_vars => TypeOK'
<1>1. SUFFICES ASSUME TypeOK, [Next]_vars PROVE TypeOK'
  OBVIOUS
<1>2. CASE Step
  BY <1>1, <1>2, StepDataType, StepRuns, StepCalls, CallsType DEF TypeOK
<1>3. CASE Event
  BY <1>1, <1>3, EventDataType, EventStackType DEF TypeOK
<1>4. CASE HostChanges \/ UNCHANGED vars
  BY <1>1, <1>4, OnlyTheHost DEF TypeOK, DataOK, allButHost, mgrVars, sensorVars,
                                 resetVars, pollVars, occVars
<1>5. QED
  BY <1>1, <1>2, <1>3, <1>4 DEF Next

\* Every reachable state is well typed: activeCount is never decremented below
\* zero, and no loop of a handler runs past the last OCC.
THEOREM TypeCorrect == Spec => []TypeOK
<1>1. Init => TypeOK
  BY InitType
<1>2. QED
  BY <1>1, TypeStep, PTL DEF Spec

-----------------------------------------------------------------------------
(* Polling, the wait for sensors and the queue                               *)

\* PollNeedsActive is inductive: the timer is started only by a poll that finds
\* OCCs counted, and stopped when the count drops to zero.
LEMMA PollStep ==
    ASSUME TypeOK, PollNeedsActive, [Next]_vars
    PROVE  PollNeedsActive'
<1> USE DEF PollNeedsActive
<1>1. UNCHANGED <<activeCount, pollTimer>> \/ PollTimerExpired
      \/ WentActive \/ WentInactive \/ PollOcc
  BY OnlyTheHost
     DEF Next, Step, Event, allButHost, mgrVars, sensorVars, resetVars, pollVars,
         Activate, Deactivate, Unbind, SetProperty, DeviceError, ResetOCC,
         StartPoll, RestartWait, CheckWaiting, CheckSensor, CheckAllEnd,
         ClearQueue, ResetOccRequest, InitiateOccRequest, StopOccs,
         PldmResetOCC, ResetSent, PollerTimerExpired, ValidateOcc,
         ValidateMaster, UpdateOCCInactive, ClearData, ClearNext, ClearEnd,
         SendHRESET, HostPoweredOff, DiscoverTimerExpired, WaitTimerExpired, SensorRunning,
         SensorStopped, HresetResult, OccError, PresenceMismatch, SbeTimeout,
         DBusWrite, ResetGivenUp, HostStateOff
<1>2. CASE PollTimerExpired
  BY <1>2 DEF PollTimerExpired
<1>3. CASE WentActive
  BY <1>3 DEF WentActive, TypeOK, DataOK
<1>4. CASE WentInactive
  <2>1. activeCount' = OneLess /\ (pollTimer' => OneLess # 0)
    BY <1>4, Zenon DEF WentInactive
  <2>2. OneLess \in Nat
    BY DEF OneLess, TypeOK, DataOK
  <2>3. QED
    BY <2>1, <2>2
<1>5. CASE PollOcc
  BY <1>5 DEF PollOcc, PollAgain
<1>6. QED
  BY <1>1, <1>2, <1>3, <1>4, <1>5

\* Whatever the nest of handlers is doing, the poll timer is never running with
\* no OCC counted as active.
THEOREM PollingStops == Spec => []PollNeedsActive
<1>1. Init => PollNeedsActive
  BY DEF Init, PollNeedsActive
<1>2. TypeOK /\ PollNeedsActive /\ [Next]_vars => PollNeedsActive'
  BY PollStep
<1>3. QED
  BY <1>1, <1>2, TypeCorrect, PTL DEF Spec

\* Is a call of one of these functions on the stack?
OnStack(fns) == \E i \in 1 .. Len(todo) : todo[i].fn \in fns

\* A call stays on the stack while another one is at its head.
LEMMA OnStackKept ==
    ASSUME TypeOK, NEW fns, OnStack(fns), Head(todo).fn \notin fns,
           NEW s \in Seq(Frame), Calls(s) \/ Return
    PROVE  OnStack(fns)'
<1>1. PICK i \in 1 .. Len(todo) : todo[i].fn \in fns
  BY DEF OnStack, TypeOK
<1>2. i - 1 \in 1 .. Len(Tail(todo)) /\ Tail(todo)[i - 1] = todo[i]
  BY <1>1 DEF TypeOK
<1>3. Tail(todo) \in Seq(Frame) /\ Len(s) \in Nat
  BY <1>1 DEF TypeOK
<1>4. CASE Return
  BY <1>1, <1>2, <1>3, <1>4 DEF Return, OnStack
<1>5. CASE Calls(s)
  <2>1. /\ Len(s) + (i - 1) \in 1 .. Len(s \o Tail(todo))
        /\ (s \o Tail(todo))[Len(s) + (i - 1)] = todo[i]
    BY <1>2, <1>3
  <2>2. QED
    BY <1>1, <1>3, <1>5, <2>1 DEF Calls, OnStack
<1>6. QED
  BY <1>4, <1>5

\* The calls that look at the sensors and restart the timer
SensorCalls == {"checkSensor", "checkAllEnd"}
Looking == OnStack(SensorCalls)

\* WaitingHasTimer as it holds in the middle of a handler.
WaitingInv == waitingForAllOccActiveSensors => discoverTimer \/ Looking

\* WaitingInv is inductive: the handlers that stop the timer either look at the
\* sensors themselves or are done with waiting.
LEMMA WaitingStep ==
    ASSUME TypeOK, WaitingInv, [Next]_vars
    PROVE  WaitingInv'
<1>1. SUFFICES ASSUME waitingForAllOccActiveSensors', ~ discoverTimer'
               PROVE  Looking'
  BY DEF WaitingInv
<1> DEFINE Same == UNCHANGED <<waitingForAllOccActiveSensors, discoverTimer>>
<1>2. CASE DiscoverTimerExpired
  <2>1. todo' = <<Call("checkSensor", 0)>>
    BY <1>1, <1>2 DEF DiscoverTimerExpired, CheckAllActiveSensors, WaitingInv,
                      sensorVars
  <2>2. QED
    BY <2>1 DEF Looking, OnStack, SensorCalls, Call, Call2
<1>3. CASE Event /\ ~ DiscoverTimerExpired
  <2>1. ~ Looking
    BY <1>3 DEF Looking, OnStack, Idle, Event, PollTimerExpired, WaitTimerExpired,
                SensorRunning, SensorStopped, HresetResult, OccError,
                PresenceMismatch, SbeTimeout, DBusWrite, ResetGivenUp, HostStateOff
  <2>2. Same \/ discoverTimer'
    BY <1>3 DEF Event, PollTimerExpired, WaitTimerExpired, SensorRunning,
                SensorStopped, HresetResult, OccError, PresenceMismatch,
                SbeTimeout, DBusWrite, ResetGivenUp,
                HostStateOff, UpdateOCCActive, LookAgain, sensorVars
  <2>3. QED
    BY <1>1, <2>1, <2>2 DEF WaitingInv
<1>4. CASE CheckSensor
  <2>1. \/ Calls(<<Call("checkSensor", self + 1)>>)
        \/ Calls(<<Call("activate", self), Call("checkSensor", self + 1)>>)
        \/ Calls(<<Call("checkAllEnd", NoInstance)>>)
    BY <1>4 DEF CheckSensor
  <2>2. Tail(todo) \in Seq(Frame)
    BY <1>4 DEF TypeOK, CheckSensor, Running
  <2>3. ASSUME NEW o, NEW f \in SensorCalls, Calls(<<Call(f, o)>>)
        PROVE  Looking'
    <3>1. Len(todo') = 1 + Len(Tail(todo)) /\ todo'[1] = Call(f, o)
      BY <2>2, <2>3 DEF Calls
    <3>2. QED
      BY <2>2, <3>1 DEF Looking, OnStack, Call, Call2
  <2>4. ASSUME NEW o, NEW g, NEW f \in SensorCalls, Calls(<<g, Call(f, o)>>)
        PROVE  Looking'
    <3>1. Len(todo') = 2 + Len(Tail(todo)) /\ todo'[2] = Call(f, o)
      BY <2>2, <2>4 DEF Calls
    <3>2. QED
      BY <2>2, <3>1 DEF Looking, OnStack, Call, Call2
  <2>5. QED
    BY <2>1, <2>3, <2>4 DEF SensorCalls
<1>5. CASE CheckAllEnd
  BY <1>1, <1>5 DEF CheckAllEnd
<1>6. CASE Step /\ ~ CheckSensor /\ ~ CheckAllEnd
  <2>1. Same /\ Head(todo).fn \notin SensorCalls
    BY <1>6 DEF Step, Running, SensorCalls, sensorVars, Activate, Deactivate,
                Unbind, SetProperty, DeviceError, ResetOCC, WentActive,
                StartPoll, RestartWait, WentInactive, CheckWaiting, ClearQueue,
                ResetOccRequest, InitiateOccRequest, StopOccs, PldmResetOCC,
                ResetSent, PollerTimerExpired, PollOcc, ValidateOcc,
                ValidateMaster, UpdateOCCInactive, ClearData, ClearNext,
                ClearEnd, SendHRESET, HostPoweredOff
  <2>2. Looking
    BY <1>1, <2>1 DEF WaitingInv
  <2>3. <<>> \in Seq(Frame)
    OBVIOUS
  <2>4. QED
    BY <1>6, <2>1, <2>2, <2>3, StepCalls, OnStackKept DEF Looking
<1>7. CASE HostChanges \/ UNCHANGED vars
  BY <1>1, <1>7, OnlyTheHost
     DEF allButHost, sensorVars, WaitingInv, Looking, OnStack
<1>8. QED
  BY <1>2, <1>3, <1>4, <1>5, <1>6, <1>7 DEF Next

\* Between handlers, a manager that waits for OCC active sensors has the timer
\* running that makes it look for them again.
THEOREM WaitIsTimed == Spec => []WaitingHasTimer
<1>1. Init => WaitingInv
  BY DEF Init, WaitingInv
<1>2. TypeOK /\ WaitingInv /\ [Next]_vars => WaitingInv'
  BY WaitingStep
<1>3. WaitingInv => WaitingHasTimer
  BY DEF WaitingInv, WaitingHasTimer, Looking, OnStack, Idle
<1>4. QED
  BY <1>1, <1>2, <1>3, TypeCorrect, PTL DEF Spec

\* QueueDrained as it holds in the middle of a handler: an OCC that has a status
\* object is queued only while sensors are awaited, or until the queue is cleared.
QueueInv ==
    queuedActiveState \cap statusObjects # {} =>
        waitingForAllOccActiveSensors \/ OnStack({"clearQueue"})

LEMMA QueueStep ==
    ASSUME TypeOK, QueueInv, [Next]_vars
    PROVE  QueueInv'
<1>1. SUFFICES ASSUME queuedActiveState' \cap statusObjects' # {},
                      ~ waitingForAllOccActiveSensors'
               PROVE  OnStack({"clearQueue"})'
  BY DEF QueueInv
<1>2. CASE DiscoverTimerExpired
  <2>1. /\ queuedActiveState \cap statusObjects # {}
        /\ ~ waitingForAllOccActiveSensors /\ todo = <<>>
    BY <1>1, <1>2 DEF DiscoverTimerExpired, sensorVars, Idle
  <2>2. QED
    BY <2>1 DEF QueueInv, OnStack
<1>3. CASE SensorRunning
  <2>1. /\ queuedActiveState \cap statusObjects # {}
        /\ ~ waitingForAllOccActiveSensors /\ todo = <<>>
    BY <1>1, <1>3 DEF SensorRunning, UpdateOCCActive, LookAgain, mgrVars, Idle
  <2>2. QED
    BY <2>1 DEF QueueInv, OnStack
<1>4. CASE CheckAllEnd /\ allActiveSensorAvailable
  <2>1. \/ Calls(<<Call("clearQueue", NoInstance)>>)
        \/ Calls(<<Call("initiateOccRequest", resetInstance),
                   Call("restartWait", NoInstance),
                   Call("clearQueue", NoInstance)>>)
    BY <1>4 DEF CheckAllEnd
  <2>2. Tail(todo) \in Seq(Frame)
    BY <1>4 DEF TypeOK, CheckAllEnd, Running
  <2>3. \/ Len(todo') > 0 /\ todo'[1] = Call("clearQueue", NoInstance)
        \/ Len(todo') > 2 /\ todo'[3] = Call("clearQueue", NoInstance)
    BY <2>1, <2>2 DEF Calls
  <2>4. Len(todo') \in Nat
    BY <2>1, <2>2 DEF Calls
  <2>5. QED
    BY <2>3, <2>4, CallFn DEF OnStack
<1>5. CASE ClearQueue
  BY <1>1, <1>5 DEF ClearQueue
<1>6. CASE /\ Step /\ ~ ClearQueue
           /\ ~ (CheckAllEnd /\ allActiveSensorAvailable)
  <2>1. /\ statusObjects' = statusObjects
        /\ queuedActiveState' \subseteq queuedActiveState
        /\ waitingForAllOccActiveSensors' = waitingForAllOccActiveSensors
        /\ Head(todo).fn # "clearQueue"
    BY <1>6 DEF Step, Running, sensorVars, mgrVars, Activate, Deactivate,
                Unbind, SetProperty, DeviceError, ResetOCC, WentActive,
                StartPoll, RestartWait, WentInactive, CheckWaiting, CheckSensor,
                CheckAllEnd, ResetOccRequest, InitiateOccRequest, StopOccs,
                PldmResetOCC, ResetSent, PollerTimerExpired, PollOcc,
                ValidateOcc, ValidateMaster, UpdateOCCInactive, ClearData,
                ClearNext, ClearEnd, SendHRESET, HostPoweredOff
  <2>2. OnStack({"clearQueue"})
    BY <1>1, <2>1 DEF QueueInv
  <2>3. <<>> \in Seq(Frame)
    OBVIOUS
  <2>4. QED
    BY <1>6, <2>1, <2>2, <2>3, StepCalls, OnStackKept
<1>7. CASE Event /\ ~ DiscoverTimerExpired /\ ~ SensorRunning
  <2>1. UNCHANGED <<statusObjects, queuedActiveState, waitingForAllOccActiveSensors>>
        /\ todo = <<>>
    BY <1>7 DEF Event, Idle, sensorVars, mgrVars, PollTimerExpired,
                WaitTimerExpired, SensorStopped, HresetResult, OccError,
                PresenceMismatch, SbeTimeout, DBusWrite, ResetGivenUp, HostStateOff
  <2>2. QED
    BY <1>1, <2>1 DEF QueueInv, OnStack
<1>8. CASE HostChanges \/ UNCHANGED vars
  BY <1>1, <1>8, OnlyTheHost DEF allButHost, sensorVars, mgrVars, QueueInv, OnStack
<1>9. QED
  BY <1>2, <1>3, <1>4, <1>5, <1>6, <1>7, <1>8 DEF Next

\* Between handlers no activation is left queued for an OCC that exists unless
\* the sensors are still awaited.
THEOREM QueueIsDrained == Spec => []QueueDrained
<1>1. Init => QueueInv
  BY DEF Init, QueueInv
<1>2. TypeOK /\ QueueInv /\ [Next]_vars => QueueInv'
  BY QueueStep
<1>3. QueueInv => QueueDrained
  BY DEF QueueInv, QueueDrained, OnStack, Idle
<1>4. QED
  BY <1>1, <1>2, <1>3, TypeCorrect, PTL DEF Spec

-----------------------------------------------------------------------------
(* The watches of an OCC                                                     *)

\* The calls that a deactivation is made of follow each other: what makes an
\* OCC inactive comes right after what ended its watches, and what asks for a
\* reset right after a deactivation.
Linked(g, f) ==
    /\ f.fn = "setInactive" =>
          /\ g.occ = f.occ
          /\ g.fn \in {"unbind", "deviceError", "resetOCC", "resetOccRequest"}
    /\ f.fn = "resetOccRequest" =>
          g.occ = f.occ /\ g.fn \in {"deactivate", "setInactive"}

Chained(s) == \A i \in 1 .. (Len(s) - 1) : Linked(s[i], s[i + 1])

\* ... so that they find the OCC without watches, or inactive.
HeadFollows ==
    todo # <<>> =>
        /\ Head(todo).fn = "setInactive" => ~ presence[self]
        /\ Head(todo).fn = "resetOccRequest" /\ Len(todo) > 1
               => ~ occActive[self]

\* WatchesFollowBinding as it holds in the middle of a handler
WatchesInv ==
    /\ \A o \in OCC : watch[o] = "on" => bound[o]
    /\ \A o \in OCC : presence[o] => DeviceActive(o)

\* The calls that another one may have to follow, and those that may have to
\* follow another one
Leading == {"unbind", "deviceError", "resetOCC", "resetOccRequest",
            "deactivate", "setInactive"}
Following == {"setInactive", "resetOccRequest"}
Free == {f \in Frame : f.fn \notin Following}

LEMMA FreeType ==
    /\ \A f \in OccCalls \ Following, o \in OCC : Call(f, o) \in Free
    /\ \A f \in LoopCalls, o \in 0 .. N : Call(f, o) \in Free
    /\ \A f \in ManagerCalls, o \in Instance : Call(f, o) \in Free
BY CallType, CallFn DEF Free, Following, OccCalls, LoopCalls, ManagerCalls

LEMMA Free2Type ==
    \A a \in Instance :
        /\ \A f \in OccCalls \ Following, o \in OCC : Call2(f, o, a) \in Free
        /\ \A f \in LoopCalls, o \in 0 .. N : Call2(f, o, a) \in Free
BY Call2Type, CallFn DEF Free, Following, OccCalls, LoopCalls

LEMMA FewFreeCalls ==
    ASSUME NEW f \in Free, NEW g \in Free, NEW h \in Free
    PROVE  /\ <<>> \in Seq(Free)
           /\ <<f>> \in Seq(Free)
           /\ <<f, g>> \in Seq(Free)
           /\ <<f, g, h>> \in Seq(Free)
OBVIOUS

\* The handlers outside a deactivation make calls that follow no other.
LEMMA StepCallsFree ==
    ASSUME TypeOK, Step, Head(todo).fn \notin Leading \cup {"activate"}
    PROVE  Return \/ \E s \in Seq(Free) : Calls(s)
<1> DEFINE ReturnsOrCalls == Return \/ \E s \in Seq(Free) : Calls(s)
<1>1. /\ Return => ReturnsOrCalls
      /\ \A s \in Seq(Free) : Calls(s) => ReturnsOrCalls
  OBVIOUS
<1> HIDE DEF ReturnsOrCalls
<1> USE FewFreeCalls, FreeType DEF TypeOK, DataOK, Instance, OccCalls,
            LoopCalls, ManagerCalls, Running, Leading, Following
<1>2. /\ arg \in Instance
      /\ Head(todo).fn \in OccCalls => self \in OCC
      /\ Head(todo).fn \in LoopCalls => self \in 0 .. N
      /\ Head(todo).fn \in ManagerCalls => self \in Instance
  BY StepRuns, HeadType
<1>3. /\ 0 \in 0 .. N
      /\ \A o \in OCC : o \in 0 .. N /\ o + 1 \in 0 .. N
      /\ \A o \in 0 .. N : o # N => o \in OCC
  BY NAssumption DEF OCC
<1>4. CASE WentActive
  <2>1. self \in OCC
    BY <1>2, <1>4 DEF WentActive
  <2>2. ASSUME NEW count
        PROVE  AfterCount(count) \in Seq(Free)
    <3>1. <<Call("startPoll", self), Call("checkWaiting", self)>> \in Seq(Free)
      BY <2>1
    <3>2. /\ <<Call("validateOcc", 0)>> \in Seq(Free)
          /\ <<Call("initiateOccRequest", resetInstance),
               Call("restartWait", NoInstance)>> \in Seq(Free)
          /\ <<>> \in Seq(Free)
      BY <1>3
    <3>3. QED
      BY <3>1, <3>2 DEF AfterCount
  <2>3. QED
    BY <1>1, <1>4, <2>2 DEF WentActive
<1>5. CASE StartPoll
  BY <1>1, <1>5 DEF StartPoll, ReturnOr
<1>6. CASE RestartWait \/ ClearQueue \/ ResetSent \/ HostPoweredOff
            \/ (SetProperty /\ Head(todo).fn = "setActive")
  BY <1>1, <1>6 DEF RestartWait, ClearQueue, ResetSent, HostPoweredOff,
                    SetProperty
<1>7. CASE WentInactive
  BY <1>1, <1>2, <1>7 DEF WentInactive
<1>8. CASE CheckWaiting
  BY <1>1, <1>3, <1>8 DEF CheckWaiting, ReturnOr, CheckAllActiveSensors
<1>9. CASE CheckSensor
  BY <1>1, <1>2, <1>3, <1>9 DEF CheckSensor
<1>10. CASE CheckAllEnd
  BY <1>1, <1>10 DEF CheckAllEnd
<1>11. CASE InitiateOccRequest
  BY <1>1, <1>2, <1>3, Free2Type, <1>11 DEF InitiateOccRequest
<1>12. CASE StopOccs
  BY <1>1, <1>2, <1>3, Free2Type, <1>12 DEF StopOccs
<1>13. CASE PldmResetOCC
  BY <1>1, <1>2, <1>3, <1>13 DEF PldmResetOCC
<1>14. CASE PollerTimerExpired
  BY <1>1, <1>3, <1>14 DEF PollerTimerExpired
<1>15. CASE PollOcc
  BY <1>1, <1>2, <1>3, <1>15 DEF PollOcc
<1>16. CASE ValidateOcc
  BY <1>1, <1>2, <1>3, Free2Type, <1>16 DEF ValidateOcc, ReturnOr
<1>17. CASE ValidateMaster
  BY <1>1, <1>2, <1>3, Free2Type, <1>17 DEF ValidateMaster
<1>18. CASE UpdateOCCInactive
  BY <1>1, <1>2, <1>18 DEF UpdateOCCInactive
<1>19. CASE ClearData
  BY <1>1, <1>2, <1>3, <1>19 DEF ClearData, ClearNext, ClearEnd
<1>20. CASE SendHRESET
  BY <1>1, <1>3, <1>20 DEF SendHRESET
<1>21. QED
  BY <1>4, <1>5, <1>6, <1>7, <1>8, <1>9, <1>10, <1>11, <1>12, <1>13, <1>14,
     <1>15, <1>16, <1>17, <1>18, <1>19, <1>20
     DEF Step, ReturnsOrCalls, Activate, Deactivate, Unbind, SetProperty,
         DeviceError, ResetOCC, ResetOccRequest

\* A call may be replaced by calls the last of which what follows it may follow.
LEMMA ChainCalls ==
    ASSUME todo \in Seq(Frame), todo # <<>>, Chained(todo),
           NEW s \in Seq(Frame), Calls(s), Chained(s), Len(s) > 0,
           \A f \in Frame : Linked(Head(todo), f) => Linked(s[Len(s)], f)
    PROVE  Chained(todo')
<1> DEFINE n == Len(s)
<1>1. /\ Tail(todo) \in Seq(Frame) /\ n \in Nat /\ todo' = s \o Tail(todo)
      /\ Len(todo) \in Nat /\ Head(todo) = todo[1]
  BY DEF Calls
<1>2. Len(todo') = n + Len(Tail(todo)) /\ Len(Tail(todo)) = Len(todo) - 1
  BY <1>1
<1>3. \A i \in 1 .. n : todo'[i] = s[i]
  BY <1>1
<1>4. \A i \in (n + 1) .. Len(todo') :
         i - n + 1 \in 2 .. Len(todo) /\ todo'[i] = todo[i - n + 1]
  BY <1>1, <1>2
<1> SUFFICES ASSUME NEW i \in 1 .. (Len(todo') - 1)
             PROVE  Linked(todo'[i], todo'[i + 1])
  BY DEF Chained
<1>5. CASE i < n
  BY <1>1, <1>3, <1>5 DEF Chained
<1>6. CASE i = n
  <2>1. todo'[i] = s[n] /\ todo'[i + 1] = todo[2] /\ 2 \in 1 .. Len(todo)
    BY <1>1, <1>2, <1>3, <1>4, <1>6
  <2>2. Linked(todo[1], todo[2]) /\ todo[2] \in Frame
    <3>1. 1 \in 1 .. (Len(todo) - 1) /\ 1 + 1 = 2
      BY <1>1, <2>1
    <3>2. Linked(todo[1], todo[1 + 1])
      BY <3>1 DEF Chained
    <3>3. QED
      BY <2>1, <3>1, <3>2
  <2>3. QED
    BY <1>1, <2>1, <2>2
<1>7. CASE i > n
  <2>1. /\ i \in (n + 1) .. Len(todo') /\ i + 1 \in (n + 1) .. Len(todo')
    BY <1>1, <1>2, <1>7
  <2>2. /\ todo'[i] = todo[i - n + 1] /\ todo'[i + 1] = todo[i - n + 2]
        /\ i - n + 1 \in 1 .. (Len(todo) - 1)
    BY <1>1, <1>2, <1>4, <1>7, <2>1
  <2>3. QED
    BY <1>1, <2>2 DEF Chained
<1>8. QED
  BY <1>1, <1>5, <1>6, <1>7

\* ... or be done, which leaves what may follow it.
LEMMA ChainReturns ==
    ASSUME todo \in Seq(Frame), todo # <<>>, Chained(todo), Return
    PROVE  /\ Chained(todo')
           /\ todo' # <<>> => /\ Len(todo) > 1 /\ Head(todo') \in Frame
                              /\ Linked(Head(todo), Head(todo'))
<1>1. /\ todo' = Tail(todo) /\ todo' \in Seq(Frame) /\ Len(todo) \in Nat
      /\ Len(todo') = Len(todo) - 1 /\ Head(todo) = todo[1]
  BY DEF Return
<1>2. \A i \in 1 .. Len(todo') : todo'[i] = todo[i + 1]
  BY <1>1
<1>3. Chained(todo')
  BY <1>1, <1>2 DEF Chained
<1>4. ASSUME todo' # <<>>
      PROVE  /\ Len(todo) > 1 /\ Head(todo') \in Frame
             /\ Linked(Head(todo), Head(todo'))
  <2>1. Len(todo') > 0 /\ Head(todo') = todo'[1] /\ Head(todo') \in Frame
    BY <1>1, <1>4
  <2>2. Head(todo') = todo[2] /\ Len(todo) > 1
    BY <1>1, <1>2, <2>1
  <2>3. QED
    BY <1>1, <2>1, <2>2 DEF Chained
<1>5. QED
  BY <1>3, <1>4

LEMMA FewChained ==
    /\ Chained(<<>>)
    /\ \A f, g, h :
        /\ Chained(<<f>>)
        /\ Linked(f, g) => Chained(<<f, g>>)
        /\ Linked(f, g) /\ Linked(g, h) => Chained(<<f, g, h>>)
BY DEF Chained

\* The calls of a handler outside a deactivation are chained as they are.
LEMMA FreeChained ==
    ASSUME todo \in Seq(Frame), todo # <<>>, Chained(todo),
           Head(todo).fn \notin Leading, NEW s \in Seq(Free), Calls(s)
    PROVE  Chained(todo') /\ (todo' # <<>> => Head(todo').fn \notin Following)
<1>1. \A f \in Frame : Linked(Head(todo), f) => f.fn \notin Following
  BY DEF Linked, Leading, Following
<1>2. \A g : \A f \in Frame : f.fn \notin Following => Linked(g, f)
  BY DEF Linked, Following
<1>3. s \in Seq(Frame) /\ Len(s) \in Nat
  BY DEF Free
<1>4. CASE Len(s) > 0
  <2>1. Chained(s)
    BY <1>2 DEF Chained, Free
  <2>2. Chained(todo')
    BY <1>1, <1>2, <1>3, <1>4, <2>1, ChainCalls
  <2>3. Head(todo') = s[1]
    BY <1>3, <1>4 DEF Calls
  <2>4. QED
    BY <1>4, <2>2, <2>3 DEF Free
<1>5. CASE ~ (Len(s) > 0)
  <2>1. s = <<>>
    BY <1>3, <1>5
  <2>2. Return
    BY <2>1 DEF Calls, Return
  <2>3. QED
    BY <1>1, <2>2, ChainReturns
<1>6. QED
  BY <1>4, <1>5

LEMMA WatchesStep ==
    ASSUME TypeOK, WatchesInv, Chained(todo), HeadFollows, Step
    PROVE  WatchesInv' /\ Chained(todo)' /\ HeadFollows'
<1> USE DEF Running, self
<1>1. /\ todo \in Seq(Frame) /\ todo # <<>> /\ DataOK
      /\ Head(todo).fn \in OccCalls => self \in OCC
  BY StepRuns, HeadType DEF TypeOK
<1>2. CASE Head(todo).fn \notin Leading \cup {"activate"}
  <2>1. Chained(todo') /\ (todo' # <<>> => Head(todo').fn \notin Following)
    <3>1. CASE Return
      BY <1>1, <1>2, <3>1, ChainReturns DEF Linked, Leading, Following
    <3>2. CASE \E s \in Seq(Free) : Calls(s)
      BY <1>1, <1>2, <3>2, FreeChained
    <3>3. QED
      BY <1>2, <3>1, <3>2, StepCallsFree
  <2>2. HeadFollows'
    BY <2>1 DEF HeadFollows, Following
  <2>3. UNCHANGED <<bound, watch>>
        /\ (UNCHANGED <<occActive, presence>> \/ ValidateMaster
              \/ (SetProperty /\ Head(todo).fn = "setActive"))
    BY <1>2
       DEF Step, Leading, occVars, Activate, Deactivate, Unbind, SetProperty,
           DeviceError, ResetOCC, WentActive, StartPoll, RestartWait,
           WentInactive, CheckWaiting, CheckSensor, CheckAllEnd, ClearQueue,
           ResetOccRequest, InitiateOccRequest, StopOccs, PldmResetOCC,
           ResetSent, PollerTimerExpired, PollOcc, ValidateOcc, ValidateMaster,
           UpdateOCCInactive, ClearData, ClearNext, ClearEnd, SendHRESET,
           HostPoweredOff
  <2>4. CASE UNCHANGED <<occActive, presence>>
    BY <2>1, <2>2, <2>3, <2>4 DEF WatchesInv, DeviceActive
  <2>5. CASE ValidateMaster
    BY <1>1, <2>1, <2>2, <2>3, <2>5
       DEF ValidateMaster, DeviceMaster, DeviceActive, WatchesInv, DataOK
  <2>6. CASE SetProperty /\ Head(todo).fn = "setActive"
    BY <1>1, <2>1, <2>2, <2>3, <2>6 DEF SetProperty, WatchesInv, DeviceActive, DataOK
  <2>7. QED
    BY <2>3, <2>4, <2>5, <2>6
<1>3. CASE Head(todo).fn \in Leading \cup {"activate"}
  <2> USE CallFn
  <2> DEFINE o == self
  <2>0. /\ o \in OCC
        /\ Activate \/ Deactivate \/ Unbind \/ SetProperty \/ DeviceError
             \/ ResetOCC \/ ResetOccRequest
    BY <1>1, <1>3
       DEF Step, Leading, OccCalls, WentActive, StartPoll, RestartWait,
           WentInactive, CheckWaiting, CheckSensor, CheckAllEnd, ClearQueue,
           InitiateOccRequest, StopOccs, PldmResetOCC, ResetSent,
           PollerTimerExpired, PollOcc, ValidateOcc, ValidateMaster,
           UpdateOCCInactive, ClearData, ClearNext, ClearEnd, SendHRESET,
           HostPoweredOff
  <2>1. \A f \in OccCalls : Call(f, o) \in Frame /\ Call(f, o).occ = o
    BY <2>0, CallType DEF Call, Call2
  <2>2. ASSUME NEW s \in Seq(Frame), Calls(s), Chained(s), Len(s) > 0,
               \A f \in Frame : Linked(Head(todo), f) => Linked(s[Len(s)], f),
               s[1].fn \notin Following
        PROVE  Chained(todo') /\ HeadFollows'
    <3>1. Head(todo') = s[1]
      BY <1>1, <2>2 DEF Calls
    <3>2. HeadFollows'
      BY <2>2, <3>1 DEF HeadFollows, Following
    <3>3. QED
      BY <1>1, <2>2, <3>2, ChainCalls
  <2>3. CASE Activate
    <3>1. /\ Head(todo).fn = "activate"
          /\ \/ watch' = watch /\ bound' = bound
             \/ \E w : watch' = [watch EXCEPT ![o] = w]
                       /\ bound' = [bound EXCEPT ![o] = TRUE]
          /\ \A p \in OCC : /\ presence'[p] => presence[p]
                            /\ occActive[p] => occActive'[p]
      BY <1>1, <2>0, <2>3, ZenonT(30) DEF Activate, AddErrorWatch, occVars, DataOK
    <3>2. WatchesInv'
      BY <1>1, <2>0, <3>1 DEF WatchesInv, DeviceActive, DataOK
    <3>3. \/ Calls(<<Call("setActive", o)>>)
          \/ Calls(<<Call("deviceError", o), Call("setInactive", o)>>)
          \/ Calls(<<Call("wentActive", o), Call("setActive", o)>>)
      BY <2>3 DEF Activate, AfterWatch
    <3>4. \A f \in Frame : ~ Linked(Head(todo), f) \/ f.fn \notin Following
      BY <3>1 DEF Linked, Following
    <3>5. CASE Calls(<<Call("setActive", o)>>)
      <4> DEFINE s == <<Call("setActive", o)>>
      <4>1. s \in Seq(Frame) /\ Chained(s)
        BY <2>1, FewCalls, FewChained DEF OccCalls
      <4>2. Len(s) > 0 /\ s[1].fn \notin Following
        BY DEF Following
      <4>3. \A f \in Frame : Linked(Head(todo), f) => Linked(s[Len(s)], f)
        BY <3>4 DEF Linked, Following
      <4>4. QED
        BY <2>2, <3>2, <3>5, <4>1, <4>2, <4>3
    <3>6. CASE Calls(<<Call("deviceError", o), Call("setInactive", o)>>)
      <4> DEFINE s == <<Call("deviceError", o), Call("setInactive", o)>>
      <4>0. Linked(s[1], s[2])
        BY <2>1 DEF Linked, OccCalls
      <4>1. s \in Seq(Frame) /\ Chained(s)
        BY <2>1, <4>0, FewCalls, FewChained DEF OccCalls
      <4>2. Len(s) > 0 /\ s[1].fn \notin Following
        BY DEF Following
      <4>3. \A f \in Frame : Linked(Head(todo), f) => Linked(s[Len(s)], f)
        BY <3>4 DEF Linked, Following
      <4>4. QED
        BY <2>2, <3>2, <3>6, <4>1, <4>2, <4>3
    <3>7. CASE Calls(<<Call("wentActive", o), Call("setActive", o)>>)
      <4> DEFINE s == <<Call("wentActive", o), Call("setActive", o)>>
      <4>0. Linked(s[1], s[2])
        BY DEF Linked
      <4>1. s \in Seq(Frame) /\ Chained(s)
        BY <2>1, <4>0, FewCalls, FewChained DEF OccCalls
      <4>2. Len(s) > 0 /\ s[1].fn \notin Following
        BY DEF Following
      <4>3. \A f \in Frame : Linked(Head(todo), f) => Linked(s[Len(s)], f)
        BY <3>4 DEF Linked, Following
      <4>4. QED
        BY <2>2, <3>2, <3>7, <4>1, <4>2, <4>3
    <3>8. QED
      BY <3>3, <3>5, <3>6, <3>7
  <2>4. ASSUME UNCHANGED <<occActive, bound, watch, presence>>
        PROVE  WatchesInv'
    BY <2>4 DEF WatchesInv, DeviceActive
  <2>5. CASE Deactivate
    <3>1. Head(todo).fn = "deactivate" /\ WatchesInv'
      BY <2>4, <2>5 DEF Deactivate, occVars
    <3>2. \A f \in Frame :
             Linked(Head(todo), f) => Linked(Call("setInactive", o), f)
      BY <2>1, <3>1 DEF Linked, OccCalls
    <3>3. CASE occActive[o]
      <4> DEFINE s == <<Call("wentInactive", o), Call("unbind", o),
                        Call("setInactive", o)>>
      <4>0. Linked(s[1], s[2]) /\ Linked(s[2], s[3])
        BY <2>1 DEF Linked, OccCalls
      <4>1. s \in Seq(Frame) /\ Chained(s)
        BY <2>1, <4>0, FewCalls, FewChained DEF OccCalls
      <4>2. Len(s) > 0 /\ s[1].fn \notin Following /\ Calls(s)
        BY <2>5, <3>3 DEF Following, Deactivate
      <4>3. \A f \in Frame : Linked(Head(todo), f) => Linked(s[Len(s)], f)
        BY <3>2
      <4>4. QED
        BY <2>2, <3>1, <4>1, <4>2, <4>3
    <3>4. CASE ~ occActive[o]
      <4> DEFINE s == <<Call("setInactive", o)>>
      <4>1. s \in Seq(Frame) /\ Chained(s)
        BY <2>1, FewCalls, FewChained DEF OccCalls
      <4>2. Len(s) > 0 /\ Calls(s)
        BY <2>5, <3>4 DEF Deactivate
      <4>3. \A f \in Frame : Linked(Head(todo), f) => Linked(s[Len(s)], f)
        BY <3>2
      <4>4. Chained(todo')
        BY <1>1, <4>1, <4>2, <4>3, ChainCalls
      <4>5. Head(todo') = Call("setInactive", o)
        BY <1>1, <4>1, <4>2 DEF Calls
      <4>6. ~ presence'[o]
        BY <1>1, <2>0, <2>5, <3>4
           DEF WatchesInv, DeviceActive, DataOK, Deactivate, occVars
      <4>7. HeadFollows'
        BY <2>1, <4>5, <4>6 DEF HeadFollows, OccCalls
      <4>8. QED
        BY <3>1, <4>4, <4>7
    <3>5. QED
      BY <3>3, <3>4
  <2>6. CASE Unbind
    <3>1. /\ Head(todo).fn = "unbind" /\ Return
          /\ bound' = [bound EXCEPT ![o] = FALSE]
          /\ watch' = [watch EXCEPT ![o] = "off"]
          /\ presence' = [presence EXCEPT ![o] = FALSE]
          /\ occActive' = occActive
      BY <2>6 DEF Unbind
    <3>2. WatchesInv' /\ ~ presence'[o]
      BY <1>1, <2>0, <3>1 DEF WatchesInv, DeviceActive, DataOK
    <3>3. HeadFollows'
      BY <1>1, <3>1, <3>2, ChainReturns DEF HeadFollows, Linked
    <3>4. QED
      BY <1>1, <3>1, <3>2, <3>3, ChainReturns
  <2>7. CASE SetProperty
    <3>1. /\ Head(todo).fn = "setInactive" /\ Return
          /\ occActive' = [occActive EXCEPT ![o] = FALSE]
          /\ UNCHANGED <<bound, watch, presence>>
      BY <1>3, <2>7 DEF SetProperty, Leading
    <3>2. WatchesInv' /\ ~ occActive'[o]
      BY <1>1, <2>0, <3>1 DEF WatchesInv, DeviceActive, DataOK, HeadFollows
    <3>3. HeadFollows'
      BY <1>1, <3>1, <3>2, ChainReturns DEF HeadFollows, Linked
    <3>4. QED
      BY <1>1, <3>1, <3>2, <3>3, ChainReturns
  <2>8. CASE DeviceError
    <3> DEFINE s == <<Call("deactivate", o), Call("resetOCC", o)>>
    <3>1. Head(todo).fn = "deviceError" /\ WatchesInv'
      BY <2>4, <2>8 DEF DeviceError, occVars
    <3>2. Linked(s[1], s[2])
      BY <2>1 DEF Linked, OccCalls
    <3>3. s \in Seq(Frame) /\ Chained(s)
      BY <2>1, <3>2, FewCalls, FewChained DEF OccCalls
    <3>4. Len(s) > 0 /\ s[1].fn \notin Following /\ Calls(s)
      BY <2>8 DEF Following, DeviceError
    <3>5. \A f \in Frame : Linked(Head(todo), f) => Linked(s[Len(s)], f)
      BY <2>1, <3>1 DEF Linked, OccCalls
    <3>6. QED
      BY <2>2, <3>1, <3>3, <3>4, <3>5
  <2>9. CASE ResetOCC
    <3> DEFINE s == <<Call("deactivate", o), Call("resetOccRequest", o)>>
    <3>1. Head(todo).fn = "resetOCC" /\ WatchesInv'
      BY <2>4, <2>9 DEF ResetOCC, occVars
    <3>2. Linked(s[1], s[2])
      BY <2>1 DEF Linked, OccCalls
    <3>3. s \in Seq(Frame) /\ Chained(s)
      BY <2>1, <3>2, FewCalls, FewChained DEF OccCalls
    <3>4. Len(s) > 0 /\ s[1].fn \notin Following /\ Calls(s)
      BY <2>9 DEF Following, ResetOCC
    <3>5. \A f \in Frame : Linked(Head(todo), f) => Linked(s[Len(s)], f)
      BY <2>1, <3>1 DEF Linked, OccCalls
    <3>6. QED
      BY <2>2, <3>1, <3>3, <3>4, <3>5
  <2>10. CASE ResetOccRequest
    <3>1. /\ Head(todo).fn = "resetOccRequest" /\ Return
          /\ UNCHANGED <<occActive, bound, watch, presence>>
      BY <2>10 DEF ResetOccRequest, occVars
    <3>2. Len(todo) > 1 => ~ presence[o]
      BY <1>1, <2>0, <3>1 DEF WatchesInv, DeviceActive, DataOK, HeadFollows
    <3>3. HeadFollows'
      BY <1>1, <3>1, <3>2, ChainReturns DEF HeadFollows, Linked
    <3>4. QED
      BY <1>1, <2>4, <3>1, <3>3, ChainReturns
  <2>11. QED
    BY <2>0, <2>3, <2>5, <2>6, <2>7, <2>8, <2>9, <2>10
<1>4. QED
  BY <1>2, <1>3

\* An event starts calls that are chained, and none that has to follow another.
LEMMA WatchesEvent ==
    ASSUME TypeOK, WatchesInv, Event
    PROVE  WatchesInv' /\ Chained(todo)' /\ HeadFollows'
<1> DEFINE Good == Chained(todo') /\ HeadFollows'
<1>1. UNCHANGED <<bound, watch, presence, occActive>>
  BY DEF Event, occVars, DiscoverTimerExpired, PollTimerExpired,
         WaitTimerExpired, SensorRunning, SensorStopped, HresetResult, OccError,
         PresenceMismatch, SbeTimeout, DBusWrite, ResetGivenUp, HostStateOff, UpdateOCCActive
<1>2. WatchesInv'
  BY <1>1 DEF WatchesInv, DeviceActive
<1> SUFFICES Good
  BY <1>2
<1>3. ASSUME todo' = <<>>
      PROVE  Good
  <2>1. Chained(todo')
    BY <1>3, FewChained
  <2>2. HeadFollows'
    BY <1>3 DEF HeadFollows
  <2>3. QED
    BY <2>1, <2>2
<1>4. ASSUME NEW f, todo' = <<f>>, f.fn # "setInactive"
      PROVE  Good
  <2>1. Chained(<<f>>)
    BY FewChained
  <2>2. Chained(todo')
    BY <1>4, <2>1
  <2>3. HeadFollows'
    <3>1. Head(todo').fn # "setInactive" /\ ~ (Len(todo') > 1)
      BY <1>4
    <3>2. QED
      BY <3>1 DEF HeadFollows
  <2>4. QED
    BY <2>2, <2>3
<1>5. ASSUME NEW f, NEW g, todo' = <<f, g>>, f.fn \notin Following,
             g.fn \notin Following
      PROVE  Good
  <2>1. Linked(f, g)
    BY <1>5 DEF Linked, Following
  <2>2. Chained(<<f, g>>)
    BY <2>1, FewChained
  <2>3. Chained(todo')
    BY <1>5, <2>2
  <2>4. HeadFollows'
    BY <1>5 DEF HeadFollows, Following
  <2>5. QED
    BY <2>3, <2>4
<1> HIDE DEF Good
<1> USE CallFn
<1>6. CASE DiscoverTimerExpired \/ PollTimerExpired \/ WaitTimerExpired
  BY <1>3, <1>4, <1>5, <1>6
     DEF DiscoverTimerExpired, PollTimerExpired, WaitTimerExpired, Idle,
         CheckAllActiveSensors, Following
<1>7. CASE SensorRunning \/ SensorStopped \/ HresetResult
  BY <1>3, <1>4, <1>7
     DEF SensorRunning, SensorStopped, HresetResult, UpdateOCCActive,
         SbeHRESETResult, Idle
<1>8. CASE OccError \/ PresenceMismatch \/ SbeTimeout \/ DBusWrite
  BY <1>4, <1>5, <1>8
     DEF OccError, PresenceMismatch, SbeTimeout, DBusWrite, Following
<1>9. CASE ResetGivenUp \/ HostStateOff
  BY <1>4, <1>5, <1>9 DEF ResetGivenUp, HostStateOff, Following
<1>10. QED
  BY <1>6, <1>7, <1>8, <1>9 DEF Event

\* The watches follow the binding in the middle of handlers, too.
LEMMA WatchesInvHolds == Spec => []WatchesInv
<1> DEFINE Inv == WatchesInv /\ Chained(todo) /\ HeadFollows
<1>1. Init => Inv
  BY DEF Init, WatchesInv, Chained, HeadFollows
<1>2. TypeOK /\ Inv /\ [Next]_vars => Inv'
  <2> SUFFICES ASSUME TypeOK, Inv, [Next]_vars
               PROVE  Inv'
    OBVIOUS
  <2>1. CASE Step
    BY <2>1, WatchesStep
  <2>2. CASE Event
    BY <2>2, WatchesEvent
  <2>3. CASE HostChanges \/ UNCHANGED vars
    BY <2>3, OnlyTheHost
       DEF allButHost, occVars, WatchesInv, DeviceActive, Chained, HeadFollows, self
  <2>4. QED
    BY <2>1, <2>2, <2>3 DEF Next
<1>3. QED
  BY <1>1, <1>2, TypeCorrect, PTL DEF Spec

\* The files of an unbound device are not watched, and the presence watch is
\* held only for an active OCC whose device is bound, however the handlers of
\* Status::occActive and Status::deviceError nest.
THEOREM WatchesAreRight == Spec => []WatchesFollowBinding
<1>1. WatchesInv => WatchesFollowBinding
  BY DEF WatchesInv, WatchesFollowBinding
<1>2. QED
  BY <1>1, WatchesInvHolds, PTL

-----------------------------------------------------------------------------
(* The nesting of handlers                                                   *)

\* How far the stack may grow over a call, the call included, by what it calls
\* without activating an OCC from the queue: less once the sensors are no
\* longer awaited (w), because checkAllActiveSensors is not called any more.
Wait(w) == IF w THEN 7 ELSE 1
Height(f, w) ==
    CASE f \in {"checkWaiting", "wentInactive", "checkSensor", "checkAllEnd"}
            -> Wait(w)
      [] f \in {"deactivate", "updateOCCInactive"} -> Wait(w) + 2
      [] f \in {"deviceError", "resetOCC", "clearData", "sendHRESET"} -> Wait(w) + 3
      [] f \in {"pldmResetOCC", "stopOccs", "initiateOccRequest", "pollOcc",
                "validateOcc", "validateMaster"} -> Wait(w) + 4
      [] f \in {"pollerTimerExpired", "startPoll"} -> Wait(w) + 5
      [] f = "wentActive" -> Wait(w) + 7
      [] f = "activate" -> Wait(w) + 8
      [] OTHER -> 1

\* Calls that together need no more room than r.
Fit(s, r, w) == \A i \in 1 .. Len(s) : Len(s) - i + Height(s[i].fn, w) <= r

\* An activation from the queue lets the stack grow by 9 more at most.
Queued == Cardinality(queuedActiveState)
Room == 9 * (N - Queued) + 15

StackFits == Fit(todo, Room, waitingForAllOccActiveSensors)

LEMMA HeightType ==
    ASSUME NEW f, NEW w \in BOOLEAN
    PROVE  /\ Height(f, w) \in Nat /\ Height(f, w) > 0
           /\ \A v \in BOOLEAN : (v => w) => Height(f, v) <= Height(f, w)
BY DEF Height, Wait

LEMMA QueueSize ==
    ASSUME NEW q, q \subseteq OCC
    PROVE  /\ Cardinality(q) \in Nat /\ Cardinality(q) <= N
           /\ \A o : /\ Cardinality(q \ {o}) \in Nat
                     /\ Cardinality(q \ {o}) <= Cardinality(q)
                     /\ o \in q => Cardinality(q \ {o}) = Cardinality(q) - 1
<1>1. IsFiniteSet(OCC) /\ Cardinality(OCC) = N /\ N \in Nat
  BY NAssumption, FS_Interval DEF OCC
<1>2. IsFiniteSet(q) /\ Cardinality(q) <= N
  BY <1>1, FS_Subset
<1>3. Cardinality(q) \in Nat
  BY <1>2, FS_CardinalityType
<1>4. \A o : Cardinality(q \ {o})
                = IF o \in q THEN Cardinality(q) - 1 ELSE Cardinality(q)
  BY <1>2, FS_RemoveElement
<1>5. \A o : Cardinality(q \ {o}) \in Nat
  BY <1>2, FS_RemoveElement, FS_CardinalityType
<1>6. QED
  BY <1>2, <1>3, <1>4, <1>5

LEMMA QueuedType ==
    ASSUME queuedActiveState \subseteq OCC
    PROVE  Queued \in Nat /\ Queued <= N
BY QueueSize DEF Queued

LEMMA OneFits ==
    ASSUME NEW f \in Frame, NEW r \in Int, NEW w \in BOOLEAN,
           Height(f.fn, w) <= r
    PROVE  <<f>> \in Seq(Frame) /\ Fit(<<f>>, r, w)
BY HeightType DEF Fit

LEMMA TwoFit ==
    ASSUME NEW f \in Frame, NEW g \in Frame, NEW r \in Int, NEW w \in BOOLEAN,
           Height(f.fn, w) + 1 <= r, Height(g.fn, w) <= r
    PROVE  <<f, g>> \in Seq(Frame) /\ Fit(<<f, g>>, r, w)
BY HeightType DEF Fit

LEMMA ThreeFit ==
    ASSUME NEW f \in Frame, NEW g \in Frame, NEW h \in Frame,
           NEW r \in Int, NEW w \in BOOLEAN, Height(f.fn, w) + 2 <= r,
           Height(g.fn, w) + 1 <= r, Height(h.fn, w) <= r
    PROVE  <<f, g, h>> \in Seq(Frame) /\ Fit(<<f, g, h>>, r, w)
BY HeightType DEF Fit

LEMMA FourFit ==
    ASSUME NEW f \in Frame, NEW g \in Frame, NEW h \in Frame, NEW k \in Frame,
           NEW r \in Int, NEW w \in BOOLEAN, Height(f.fn, w) + 3 <= r,
           Height(g.fn, w) + 2 <= r, Height(h.fn, w) + 1 <= r,
           Height(k.fn, w) <= r
    PROVE  <<f, g, h, k>> \in Seq(Frame) /\ Fit(<<f, g, h, k>>, r, w)
BY HeightType DEF Fit

\* Calls that need no more room than the call they replace, or 9 more for each
\* OCC taken from the queue, keep the stack in its room.
LEMMA FitKeeps ==
    ASSUME TypeOK, StackFits, todo # <<>>, NEW w \in BOOLEAN,
           w => waitingForAllOccActiveSensors, NEW k \in Nat,
           NEW s \in Seq(Frame), Calls(s),
           Fit(s, Height(Head(todo).fn, waitingForAllOccActiveSensors) + k, w)
    PROVE  Fit(todo', Room + k, w)
<1> DEFINE n == Len(s)
           v == waitingForAllOccActiveSensors
<1>0. /\ todo \in Seq(Frame) /\ Tail(todo) \in Seq(Frame) /\ v \in BOOLEAN
      /\ n \in Nat /\ todo' = s \o Tail(todo) /\ Len(todo) \in Nat /\ Len(todo) > 0
      /\ Head(todo) = todo[1]
  BY DEF TypeOK, DataOK, Calls
<1>1. Len(todo') = n + Len(todo) - 1
  BY <1>0
<1>2. \A i \in 1 .. n : todo'[i] = s[i]
  BY <1>0
<1>3. \A i \in (n + 1) .. Len(todo') :
         i - n + 1 \in 2 .. Len(todo) /\ todo'[i] = todo[i - n + 1]
  BY <1>0, <1>1
<1>4. Room \in Int
  BY QueuedType, NAssumption DEF Room, TypeOK, DataOK
<1> SUFFICES ASSUME NEW i \in 1 .. Len(todo')
             PROVE  Len(todo') - i + Height(todo'[i].fn, w) <= Room + k
  BY DEF Fit
<1>5. CASE i \in 1 .. n
  <2>1. n - i + Height(s[i].fn, w) <= Height(Head(todo).fn, v) + k
    BY <1>5 DEF Fit
  <2>2. Len(todo) - 1 + Height(Head(todo).fn, v) <= Room
    BY <1>0 DEF StackFits, Fit
  <2>3. Height(s[i].fn, w) \in Nat /\ Height(Head(todo).fn, v) \in Nat
    BY <1>0, HeightType
  <2>4. QED
    BY <1>0, <1>1, <1>2, <1>4, <1>5, <2>1, <2>2, <2>3, SMTT(20)
<1>6. CASE i \in (n + 1) .. Len(todo')
  <2> DEFINE j == i - n + 1
  <2>1. j \in 2 .. Len(todo) /\ todo'[i] = todo[j] /\ Len(todo') - i = Len(todo) - j
    BY <1>0, <1>1, <1>3, <1>6
  <2>2. Len(todo) - j + Height(todo[j].fn, v) <= Room
    BY <1>0, <2>1 DEF StackFits, Fit
  <2>3. /\ Height(todo[j].fn, w) \in Nat /\ Height(todo[j].fn, v) \in Nat
        /\ Height(todo[j].fn, w) <= Height(todo[j].fn, v)
    BY <1>0, HeightType
  <2>4. QED
    BY <1>0, <1>4, <2>1, <2>2, <2>3, SMTT(20)
<1>7. QED
  BY <1>0, <1>1, <1>5, <1>6

\* What a handler calls fits into the room of its own call, and 9 more if it
\* takes an OCC from the queue.
Fitting(s) ==
    Fit(s, Height(Head(todo).fn, waitingForAllOccActiveSensors)
              + 9 * (Queued - Queued'), waitingForAllOccActiveSensors')

Heights(w) ==
    /\ Wait(w) \in Nat /\ Wait(w) >= 1 /\ Wait(FALSE) = 1 /\ Wait(TRUE) = 7
    /\ Height("checkWaiting", w) = Wait(w)
    /\ Height("wentInactive", w) = Wait(w)
    /\ Height("checkSensor", w) = Wait(w)
    /\ Height("checkAllEnd", w) = Wait(w)
    /\ Height("deactivate", w) = Wait(w) + 2
    /\ Height("updateOCCInactive", w) = Wait(w) + 2
    /\ Height("deviceError", w) = Wait(w) + 3
    /\ Height("resetOCC", w) = Wait(w) + 3
    /\ Height("clearData", w) = Wait(w) + 3
    /\ Height("sendHRESET", w) = Wait(w) + 3
    /\ Height("pldmResetOCC", w) = Wait(w) + 4
    /\ Height("stopOccs", w) = Wait(w) + 4
    /\ Height("initiateOccRequest", w) = Wait(w) + 4
    /\ Height("pollOcc", w) = Wait(w) + 4
    /\ Height("validateOcc", w) = Wait(w) + 4
    /\ Height("validateMaster", w) = Wait(w) + 4
    /\ Height("pollerTimerExpired", w) = Wait(w) + 5
    /\ Height("startPoll", w) = Wait(w) + 5
    /\ Height("wentActive", w) = Wait(w) + 7
    /\ Height("activate", w) = Wait(w) + 8
    /\ Height("unbind", w) = 1
    /\ Height("setActive", w) = 1
    /\ Height("setInactive", w) = 1
    /\ Height("resetOccRequest", w) = 1
    /\ Height("resetSent", w) = 1
    /\ Height("restartWait", w) = 1
    /\ Height("clearQueue", w) = 1
    /\ Height("hostPoweredOff", w) = 1

LEMMA HeightIs == \A w \in BOOLEAN : Heights(w)
BY DEF Heights, Height, Wait

LEMMA AppendPair ==
    ASSUME NEW a \in Frame, NEW b \in Frame, NEW c \in Frame, NEW d \in Frame
    PROVE  /\ <<c>> \o <<a, b>> = <<c, a, b>>
           /\ <<c, d>> \o <<a, b>> = <<c, d, a, b>>
<1>1. <<c>> \o <<a, b>> = <<c, a, b>>
  <2> DEFINE x == <<c>> \o <<a, b>>
             y == <<c, a, b>>
  <2>1. x \in Seq(Frame) /\ y \in Seq(Frame) /\ Len(x) = 3 /\ Len(y) = 3
    OBVIOUS
  <2>2. x[1] = c /\ x[2] = a /\ x[3] = b
    OBVIOUS
  <2>3. \A i \in 1 .. 3 : x[i] = y[i]
    BY <2>2
  <2> HIDE DEF x, y
  <2>4. x = y
    BY <2>1, <2>3
  <2>5. QED
    BY <2>4 DEF x, y
<1>2. <<c, d>> \o <<a, b>> = <<c, d, a, b>>
  <2> DEFINE x == <<c, d>> \o <<a, b>>
             y == <<c, d, a, b>>
  <2>1. x \in Seq(Frame) /\ y \in Seq(Frame) /\ Len(x) = 4 /\ Len(y) = 4
    OBVIOUS
  <2>2. x[1] = c /\ x[2] = d /\ x[3] = a /\ x[4] = b
    OBVIOUS
  <2>3. \A i \in 1 .. 4 : x[i] = y[i]
    BY <2>2
  <2> HIDE DEF x, y
  <2>4. x = y
    BY <2>1, <2>3
  <2>5. QED
    BY <2>4 DEF x, y
<1>3. QED
  BY <1>1, <1>2

\* The handlers that leave the queue and the wait for sensors alone
LEMMA PlainFits ==
    ASSUME TypeOK, Step, ~ CheckSensor, ~ CheckAllEnd, ~ ClearQueue,
           ~ ValidateOcc, ~ UpdateOCCInactive
    PROVE  \E s \in Seq(Frame) : Calls(s) /\ Fitting(s)
<1> DEFINE w == waitingForAllOccActiveSensors
           r == Height(Head(todo).fn, w)
           Good == \E s \in Seq(Frame) : Calls(s) /\ Fitting(s)
<1> SUFFICES Good
  OBVIOUS
<1> USE DEF Running
<1>1. UNCHANGED <<queuedActiveState, waitingForAllOccActiveSensors>>
  BY DEF Step, sensorVars, Activate, Deactivate, Unbind, SetProperty,
         DeviceError, ResetOCC, WentActive, StartPoll, RestartWait,
         WentInactive, CheckWaiting, ResetOccRequest, InitiateOccRequest,
         StopOccs, PldmResetOCC, ResetSent, PollerTimerExpired, PollOcc,
         ValidateMaster, ClearData, ClearNext, ClearEnd, SendHRESET,
         HostPoweredOff
<1>2. Queued' = Queued /\ Queued \in Nat /\ w \in BOOLEAN
  BY <1>1, QueuedType DEF Queued, TypeOK, DataOK
<1>3. r \in Nat /\ r > 0 /\ todo \in Seq(Frame)
  BY <1>2, HeightType DEF TypeOK
<1>4. \A s \in Seq(Frame) : Calls(s) /\ Fit(s, r, w) => Good
  BY <1>1, <1>2, <1>3 DEF Fitting
<1> HIDE DEF Good, r, w
<1>5. Return => Good
  <2>1. Return => Calls(<<>>) /\ <<>> \in Seq(Frame) /\ Fit(<<>>, r, w)
    BY <1>3 DEF Return, Calls, Fit
  <2>2. QED
    BY <1>4, <2>1
<1>6. ASSUME NEW f \in Frame, Calls(<<f>>), Height(f.fn, w) <= r
      PROVE  Good
  <2>1. <<f>> \in Seq(Frame) /\ Fit(<<f>>, r, w)
    BY <1>2, <1>3, <1>6, OneFits
  <2>2. QED
    BY <1>4, <1>6, <2>1
<1>7. ASSUME NEW f \in Frame, NEW g \in Frame, Calls(<<f, g>>),
             Height(f.fn, w) + 1 <= r, Height(g.fn, w) <= r
      PROVE  Good
  <2>1. <<f, g>> \in Seq(Frame) /\ Fit(<<f, g>>, r, w)
    BY <1>2, <1>3, <1>7, TwoFit
  <2>2. QED
    BY <1>4, <1>7, <2>1
<1>8. ASSUME NEW f \in Frame, NEW g \in Frame, NEW h \in Frame,
             Calls(<<f, g, h>>), Height(f.fn, w) + 2 <= r,
             Height(g.fn, w) + 1 <= r, Height(h.fn, w) <= r
      PROVE  Good
  <2>1. <<f, g, h>> \in Seq(Frame) /\ Fit(<<f, g, h>>, r, w)
    BY <1>2, <1>3, <1>8, ThreeFit
  <2>2. QED
    BY <1>4, <1>8, <2>1
<1>9. ASSUME NEW f \in Frame, NEW g \in Frame, NEW h \in Frame, NEW k \in Frame,
             Calls(<<f, g, h, k>>), Height(f.fn, w) + 3 <= r,
             Height(g.fn, w) + 2 <= r, Height(h.fn, w) + 1 <= r,
             Height(k.fn, w) <= r
      PROVE  Good
  <2>1. <<f, g, h, k>> \in Seq(Frame) /\ Fit(<<f, g, h, k>>, r, w)
    BY <1>2, <1>3, <1>9, FourFit
  <2>2. QED
    BY <1>4, <1>9, <2>1
<1>0. r = Height(Head(todo).fn, w)
  BY DEF r, w
<1>10. /\ \A f, o : Call(f, o).fn = f
       /\ \A f, o, a : Call2(f, o, a).fn = f
  BY CallFn
<1>11. Heights(w) /\ r = Height(Head(todo).fn, w)
  BY <1>0, <1>2, HeightIs
<1> DEFINE Tall(f, n) == f \in Frame /\ Height(f.fn, w) = n
<1>12. /\ Head(todo).fn \in OccCalls => self \in OCC
       /\ Head(todo).fn \in LoopCalls => self \in 0 .. N
       /\ Head(todo).fn \in ManagerCalls => self \in Instance
       /\ arg \in Instance /\ resetInstance \in Instance
       /\ NoInstance \in Instance /\ 0 \in 0 .. N
       /\ \A o \in OCC : o \in 0 .. N /\ o + 1 \in 0 .. N /\ o \in Instance
       /\ \A o \in 0 .. N : o # N => o \in OCC
  BY StepRuns, HeadType, NAssumption DEF TypeOK, DataOK, Instance, OCC
<1>13. ASSUME NEW o \in OCC
       PROVE  /\ Tall(Call("setActive", o), 1)
              /\ Tall(Call("setInactive", o), 1)
              /\ Tall(Call("unbind", o), 1)
              /\ Tall(Call("resetOccRequest", o), 1)
              /\ Tall(Call("checkWaiting", o), Wait(w))
              /\ Tall(Call("wentInactive", o), Wait(w))
              /\ Tall(Call("deactivate", o), Wait(w) + 2)
              /\ Tall(Call("updateOCCInactive", o), Wait(w) + 2)
              /\ Tall(Call("deviceError", o), Wait(w) + 3)
              /\ Tall(Call("resetOCC", o), Wait(w) + 3)
              /\ Tall(Call("startPoll", o), Wait(w) + 5)
              /\ Tall(Call("wentActive", o), Wait(w) + 7)
  BY <1>10, <1>11, CallType DEF Heights, OccCalls
<1>14. ASSUME NEW o \in 0 .. N
       PROVE  /\ Tall(Call("checkSensor", o), Wait(w))
              /\ Tall(Call("clearData", o), Wait(w) + 3)
              /\ Tall(Call("pollOcc", o), Wait(w) + 4)
              /\ Tall(Call("validateOcc", o), Wait(w) + 4)
              /\ \A a \in Instance : /\ Tall(Call2("stopOccs", o, a), Wait(w) + 4)
                                     /\ Tall(Call2("validateOcc", o, a), Wait(w) + 4)
  BY <1>10, <1>11, CallType, Call2Type DEF Heights, LoopCalls
<1>15. ASSUME NEW o \in Instance
       PROVE  /\ Tall(Call("resetSent", o), 1)
              /\ Tall(Call("restartWait", o), 1)
              /\ Tall(Call("pldmResetOCC", o), Wait(w) + 4)
              /\ Tall(Call("initiateOccRequest", o), Wait(w) + 4)
              /\ Tall(Call("pollerTimerExpired", o), Wait(w) + 5)
  BY <1>10, <1>11, CallType DEF Heights, ManagerCalls
<1>16. Wait(w) \in Nat /\ Wait(w) >= 1
  BY <1>11 DEF Heights
<1> HIDE DEF self, arg
<1> USE <1>16
<1>17. CASE Activate
  <2>1. /\ Head(todo).fn = "activate" /\ self \in OCC
        /\ \/ Calls(<<Call("setActive", self)>>)
           \/ Calls(<<Call("deviceError", self), Call("setInactive", self)>>)
           \/ Calls(<<Call("wentActive", self), Call("setActive", self)>>)
    BY <1>12, <1>17 DEF Activate, AfterWatch, OccCalls
  <2>2. r = Wait(w) + 8
    BY <1>11, <2>1 DEF Heights
  <2>3. QED
    BY <1>6, <1>7, <1>13, <2>1, <2>2
<1>18. CASE Deactivate
  <2>1. /\ Head(todo).fn = "deactivate" /\ self \in OCC
        /\ \/ Calls(<<Call("setInactive", self)>>)
           \/ Calls(<<Call("wentInactive", self), Call("unbind", self),
                      Call("setInactive", self)>>)
    BY <1>12, <1>18 DEF Deactivate, OccCalls
  <2>2. r = Wait(w) + 2
    BY <1>11, <2>1 DEF Heights
  <2>3. QED
    BY <1>6, <1>8, <1>13, <2>1, <2>2
<1>19. CASE DeviceError \/ ResetOCC
  <2>1. /\ Head(todo).fn \in {"deviceError", "resetOCC"} /\ self \in OCC
        /\ \/ Calls(<<Call("deactivate", self), Call("resetOCC", self)>>)
              /\ Head(todo).fn = "deviceError"
           \/ Calls(<<Call("deactivate", self), Call("resetOccRequest", self)>>)
    BY <1>12, <1>19 DEF DeviceError, ResetOCC, OccCalls
  <2>2. r = Wait(w) + 3
    BY <1>11, <2>1 DEF Heights
  <2>3. QED
    BY <1>7, <1>13, <2>1, <2>2
<1>20. CASE WentActive
  <2>1. Head(todo).fn = "wentActive" /\ self \in OCC
    BY <1>12, <1>20 DEF WentActive, OccCalls
  <2>2. r = Wait(w) + 7
    BY <1>11, <2>1 DEF Heights
  <2>3. ASSUME NEW count, Calls(AfterCount(count))
        PROVE  Good
    <3> DEFINE a == Call("startPoll", self)
               b == Call("checkWaiting", self)
    <3>1. Tall(a, Wait(w) + 5) /\ Tall(b, Wait(w))
      BY <1>13, <2>1
    <3>2. CASE count # Cardinality(statusObjects)
      <4>1. AfterCount(count) = <<a, b>>
        BY <3>1, <3>2 DEF AfterCount
      <4>2. QED
        BY <1>7, <2>2, <2>3, <3>1, <4>1
    <3>3. CASE count = Cardinality(statusObjects) /\ resetRequired
      <4> DEFINE c == Call("initiateOccRequest", resetInstance)
                 d == Call("restartWait", NoInstance)
      <4>1. Tall(c, Wait(w) + 4) /\ Tall(d, 1)
        BY <1>12, <1>15
      <4> HIDE DEF a, b, c, d
      <4>2. <<c, d>> \o <<a, b>> = <<c, d, a, b>>
        <5>1. a \in Frame /\ b \in Frame /\ c \in Frame /\ d \in Frame
          BY <3>1, <4>1
        <5>2. QED
          <6>1. \A p, q, x, y \in Frame : <<x, y>> \o <<p, q>> = <<x, y, p, q>>
            BY AppendPair, ZenonT(20)
          <6>2. QED
            BY <5>1, <6>1
      <4>3. AfterCount(count) = <<c, d>> \o <<a, b>>
        BY <3>3 DEF AfterCount, a, b, c, d
      <4>4. Calls(<<c, d, a, b>>)
        BY <2>3, <4>2, <4>3
      <4>5. QED
        BY <1>9, <2>2, <3>1, <4>1, <4>4
    <3>4. CASE count = Cardinality(statusObjects) /\ ~ resetRequired
      <4> DEFINE c == Call("validateOcc", 0)
      <4>1. Tall(c, Wait(w) + 4)
        BY <1>12, <1>14
      <4> HIDE DEF a, b, c
      <4>2. <<c>> \o <<a, b>> = <<c, a, b>>
        BY <3>1, <4>1, AppendPair
      <4>3. AfterCount(count) = <<c>> \o <<a, b>>
        BY <3>4 DEF AfterCount, a, b, c
      <4>4. Calls(<<c, a, b>>)
        BY <2>3, <4>2, <4>3
      <4>5. QED
        BY <1>8, <2>2, <3>1, <4>1, <4>4
    <3>5. QED
      BY <3>2, <3>3, <3>4
  <2>4. QED
    BY <1>5, <1>20, <2>3 DEF WentActive
<1>21. CASE StartPoll
  <2>1. /\ Head(todo).fn = "startPoll"
        /\ Return \/ Calls(<<Call("pollerTimerExpired", NoInstance)>>)
    BY <1>21 DEF StartPoll, ReturnOr
  <2>2. r = Wait(w) + 5
    BY <1>11, <2>1 DEF Heights
  <2>3. QED
    BY <1>5, <1>6, <1>12, <1>15, <2>1, <2>2
<1>22. CASE RestartWait \/ ResetOccRequest \/ ResetSent \/ HostPoweredOff
              \/ SetProperty \/ Unbind
  BY <1>5, <1>22 DEF RestartWait, ResetOccRequest, ResetSent, HostPoweredOff,
                     SetProperty, Unbind
<1>23. CASE WentInactive
  <2>1. /\ Head(todo).fn = "wentInactive" /\ self \in OCC
        /\ Calls(<<Call("checkWaiting", self)>>)
    BY <1>12, <1>23 DEF WentInactive, OccCalls
  <2>2. r = Wait(w)
    BY <1>11, <2>1 DEF Heights
  <2>3. QED
    BY <1>6, <1>13, <2>1, <2>2
<1>24. CASE CheckWaiting
  <2>1. /\ Head(todo).fn = "checkWaiting"
        /\ Return \/ Calls(<<Call("checkSensor", 0)>>)
    BY <1>24 DEF CheckWaiting, ReturnOr, CheckAllActiveSensors
  <2>2. r = Wait(w)
    BY <1>11, <2>1 DEF Heights
  <2>3. QED
    BY <1>5, <1>6, <1>12, <1>14, <2>1, <2>2
<1>25. CASE InitiateOccRequest
  <2>1. /\ Head(todo).fn = "initiateOccRequest" /\ self \in Instance
        /\ Return \/ Calls(<<Call2("stopOccs", 0, self)>>)
    BY <1>12, <1>25 DEF InitiateOccRequest, ManagerCalls
  <2>2. r = Wait(w) + 4
    BY <1>11, <2>1 DEF Heights
  <2>3. QED
    BY <1>5, <1>6, <1>12, <1>14, <2>1, <2>2
<1>26. CASE StopOccs
  <2>1. /\ Head(todo).fn = "stopOccs" /\ self \in 0 .. N
        /\ LET next == Call2("stopOccs", self + 1, arg)
           IN \/ Calls(<<Call("pldmResetOCC", arg)>>)
              \/ self # N /\ Calls(<<Call("deactivate", self), next>>)
              \/ self # N /\ Calls(<<next>>)
    BY <1>12, <1>26 DEF StopOccs, LoopCalls
  <2>2. r = Wait(w) + 4
    BY <1>11, <2>1 DEF Heights
  <2>3. /\ Tall(Call("pldmResetOCC", arg), Wait(w) + 4)
        /\ self # N => /\ Tall(Call("deactivate", self), Wait(w) + 2)
                       /\ Tall(Call2("stopOccs", self + 1, arg), Wait(w) + 4)
    BY <1>12, <1>13, <1>14, <1>15, <2>1
  <2>4. QED
    BY <1>6, <1>7, <2>1, <2>2, <2>3
<1>27. CASE PldmResetOCC
  <2>1. /\ Head(todo).fn = "pldmResetOCC" /\ self \in Instance
        /\ \/ Calls(<<Call("resetSent", self)>>)
           \/ Calls(<<Call("clearData", 0), Call("resetSent", self)>>)
    BY <1>12, <1>27 DEF PldmResetOCC, ManagerCalls
  <2>2. r = Wait(w) + 4
    BY <1>11, <2>1 DEF Heights
  <2>3. Tall(Call("resetSent", self), 1) /\ Tall(Call("clearData", 0), Wait(w) + 3)
    BY <1>12, <1>14, <1>15, <2>1
  <2>4. QED
    BY <1>6, <1>7, <2>1, <2>2, <2>3
<1>28. CASE PollerTimerExpired
  <2>1. /\ Head(todo).fn = "pollerTimerExpired"
        /\ \/ Calls(<<Call("initiateOccRequest", resetInstance),
                      Call("restartWait", NoInstance)>>)
           \/ Calls(<<Call("pollOcc", 0)>>)
    BY <1>28 DEF PollerTimerExpired
  <2>2. r = Wait(w) + 5
    BY <1>11, <2>1 DEF Heights
  <2>3. /\ Tall(Call("initiateOccRequest", resetInstance), Wait(w) + 4)
        /\ Tall(Call("restartWait", NoInstance), 1)
        /\ Tall(Call("pollOcc", 0), Wait(w) + 4)
    BY <1>12, <1>14, <1>15
  <2>4. QED
    BY <1>6, <1>7, <2>1, <2>2, <2>3
<1>29. CASE PollOcc
  <2>1. /\ Head(todo).fn = "pollOcc"
        /\ LET next == Call("pollOcc", self + 1)
           IN \/ Return
              \/ self \in OCC /\ Calls(<<next>>)
              \/ self \in OCC /\ Calls(<<Call("deviceError", self), next>>)
    BY <1>29 DEF PollOcc, TypeOK, DataOK
  <2>2. r = Wait(w) + 4
    BY <1>11, <2>1 DEF Heights
  <2>3. self \in OCC => /\ Tall(Call("deviceError", self), Wait(w) + 3)
                        /\ Tall(Call("pollOcc", self + 1), Wait(w) + 4)
    BY <1>12, <1>13, <1>14
  <2>4. QED
    BY <1>5, <1>6, <1>7, <2>1, <2>2, <2>3
<1>30. CASE ValidateMaster
  <2>1. /\ Head(todo).fn = "validateMaster" /\ self \in OCC
        /\ \E m \in Instance :
              LET next == Call2("validateOcc", self + 1, m)
              IN Calls(<<next>>) \/ Calls(<<Call("deviceError", self), next>>)
    BY <1>12, <1>30 DEF ValidateMaster, OccCalls
  <2>2. r = Wait(w) + 4
    BY <1>11, <2>1 DEF Heights
  <2>3. /\ Tall(Call("deviceError", self), Wait(w) + 3)
        /\ \A m \in Instance : Tall(Call2("validateOcc", self + 1, m), Wait(w) + 4)
    BY <1>12, <1>13, <1>14, <2>1
  <2>4. QED
    BY <1>6, <1>7, <2>1, <2>2, <2>3
<1>31. CASE ClearData
  <2>1. /\ Head(todo).fn = "clearData"
        /\ \/ Return
           \/ /\ self \in OCC
              /\ Calls(<<Call("updateOCCInactive", self),
                         Call("clearData", self + 1)>>)
    BY <1>31 DEF ClearData, ClearNext, ClearEnd
  <2>2. r = Wait(w) + 3
    BY <1>11, <2>1 DEF Heights
  <2>3. self \in OCC => /\ Tall(Call("updateOCCInactive", self), Wait(w) + 2)
                        /\ Tall(Call("clearData", self + 1), Wait(w) + 3)
    BY <1>12, <1>13, <1>14
  <2>4. QED
    BY <1>5, <1>7, <2>1, <2>2, <2>3
<1>32. CASE SendHRESET
  <2>1. Head(todo).fn = "sendHRESET" /\ (Return \/ Calls(<<Call("clearData", 0)>>))
    BY <1>32 DEF SendHRESET
  <2>2. r = Wait(w) + 3
    BY <1>11, <2>1 DEF Heights
  <2>3. QED
    BY <1>5, <1>6, <1>12, <1>14, <2>1, <2>2
<1>33. QED
  BY <1>17, <1>18, <1>19, <1>20, <1>21, <1>22, <1>23, <1>24, <1>25, <1>26,
     <1>27, <1>28, <1>29, <1>30, <1>31, <1>32 DEF Step

\* The handlers that take OCCs from the queue or end the wait for sensors
LEMMA QueueFits ==
    ASSUME TypeOK,
           \/ CheckSensor \/ CheckAllEnd \/ ClearQueue
           \/ ValidateOcc \/ UpdateOCCInactive
    PROVE  /\ \E s \in Seq(Frame) : Calls(s) /\ Fitting(s)
           /\ Queued' <= Queued
           /\ waitingForAllOccActiveSensors' => waitingForAllOccActiveSensors
<1> DEFINE w == waitingForAllOccActiveSensors
           r == Height(Head(todo).fn, w)
           Good == /\ \E s \in Seq(Frame) : Calls(s) /\ Fitting(s)
                   /\ Queued' <= Queued
                   /\ waitingForAllOccActiveSensors' => w
<1> SUFFICES Good
  OBVIOUS
<1>1. /\ w \in BOOLEAN /\ w' \in BOOLEAN /\ (w' => w)
      /\ Queued \in Nat /\ Queued' \in Nat /\ Queued' <= Queued
  <2>1. w' = w \/ w' = FALSE
    BY DEF sensorVars, CheckSensor, CheckAllEnd, ClearQueue, ValidateOcc,
           UpdateOCCInactive
  <2>2. w \in BOOLEAN
    BY DEF TypeOK, DataOK
  <2>3. \/ queuedActiveState' = queuedActiveState
        \/ queuedActiveState' = queuedActiveState \ {self}
        \/ queuedActiveState' = {}
    BY DEF CheckSensor, CheckAllEnd, ClearQueue, ValidateOcc, UpdateOCCInactive
  <2>4. Cardinality({}) = 0
    BY FS_EmptySet
  <2>5. Queued \in Nat /\ Queued' \in Nat /\ Queued' <= Queued
    <3> DEFINE q == queuedActiveState
    <3>1. q \subseteq OCC /\ Queued = Cardinality(q) /\ Queued' = Cardinality(q')
      BY DEF Queued, TypeOK, DataOK
    <3>2. /\ Cardinality(q) \in Nat /\ Cardinality(q \ {self}) \in Nat
          /\ Cardinality(q \ {self}) <= Cardinality(q)
      BY <3>1, QueueSize
    <3>3. QED
      BY <2>3, <2>4, <3>1, <3>2
  <2> HIDE DEF w
  <2>6. w' \in BOOLEAN /\ (w' => w)
    <3>1. CASE w' = w
      BY <2>2, <3>1
    <3>2. CASE w' = FALSE
      BY <3>2
    <3>3. QED
      BY <2>1, <3>1, <3>2
  <2>7. QED
    BY <2>2, <2>5, <2>6
<1> DEFINE k == r + 9 * (Queued - Queued')
<1>2. /\ Heights(w) /\ Heights(w') /\ r \in Nat /\ r > 0
      /\ k \in Int /\ k >= r
      /\ self \in queuedActiveState
            /\ queuedActiveState' = queuedActiveState \ {self} => k = r + 9
  <2>1. Heights(w) /\ Heights(w') /\ r \in Nat /\ r > 0
    BY <1>1, HeightType, HeightIs
  <2>2. self \in queuedActiveState
           /\ queuedActiveState' = queuedActiveState \ {self}
        => Queued' = Queued - 1
    BY QueueSize DEF Queued, TypeOK, DataOK
  <2> HIDE DEF r, w
  <2> DEFINE p == Queued
             q == Queued'
  <2>3. k = r + 9 * (p - q) /\ p \in Nat /\ q \in Nat /\ q <= p
    BY <1>1
  <2> HIDE DEF k, p, q
  <2>4. k \in Int /\ k >= r /\ (q = p - 1 => k = r + 9)
    BY <2>1, <2>3
  <2>5. QED
    BY <2>1, <2>2, <2>4 DEF p, q
<1>3. ASSUME NEW s \in Seq(Frame), Calls(s), Fit(s, k, w')
      PROVE  Good
  BY <1>1, <1>3 DEF Fitting
<1>4. /\ Head(todo).fn \in OccCalls => self \in OCC
      /\ Head(todo).fn \in LoopCalls => self \in 0 .. N
      /\ arg \in Instance /\ resetInstance \in Instance
      /\ NoInstance \in Instance /\ todo # <<>>
      /\ \A o \in OCC : o \in 0 .. N /\ o + 1 \in 0 .. N /\ o \in Instance
  BY HeadType, NAssumption
     DEF TypeOK, DataOK, Instance, OCC, Running, CheckSensor, CheckAllEnd,
         ClearQueue, ValidateOcc, UpdateOCCInactive
<1>5. /\ \A f, o : Call(f, o).fn = f
      /\ \A f, o, a : Call2(f, o, a).fn = f
  BY CallFn
<1>6. /\ r = Height(Head(todo).fn, w)
      /\ Wait(w') \in Nat /\ Wait(w) \in Nat /\ Wait(w') <= Wait(w)
  BY <1>1 DEF Wait
<1> HIDE DEF Good, w, r, k, self, arg
<1>7. ASSUME Return PROVE Good
  <2>1. <<>> \in Seq(Frame) /\ Calls(<<>>) /\ Fit(<<>>, k, w')
    BY <1>4, <1>7 DEF Return, Calls, Fit, TypeOK
  <2>2. QED
    BY <1>3, <2>1
<1>8. ASSUME NEW f \in Frame, Calls(<<f>>), Height(f.fn, w') <= r
      PROVE  Good
  <2>1. Height(f.fn, w') <= k
    BY <1>1, <1>2, <1>8, HeightType
  <2>2. <<f>> \in Seq(Frame) /\ Fit(<<f>>, k, w')
    BY <1>1, <1>2, <2>1, OneFits
  <2>3. QED
    BY <1>3, <1>8, <2>2
<1>9. ASSUME NEW f \in Frame, NEW g \in Frame, Calls(<<f, g>>),
             self \in queuedActiveState,
             queuedActiveState' = queuedActiveState \ {self},
             Height(f.fn, w') <= r + 8, Height(g.fn, w') <= r + 9
      PROVE  Good
  <2>1. Height(f.fn, w') + 1 <= k /\ Height(g.fn, w') <= k
    BY <1>1, <1>2, <1>9, HeightType
  <2>2. <<f, g>> \in Seq(Frame) /\ Fit(<<f, g>>, k, w')
    BY <1>1, <1>2, <2>1, TwoFit
  <2>3. QED
    BY <1>3, <1>9, <2>2
<1>11. CASE CheckSensor
  <2> DEFINE next == Call("checkSensor", self + 1)
             done == Call("checkAllEnd", NoInstance)
             act == Call("activate", self)
  <2>1. /\ Head(todo).fn = "checkSensor" /\ w' = w
        /\ \/ self \in OCC /\ Calls(<<next>>)
           \/ /\ self \in OCC /\ self \in queuedActiveState
              /\ queuedActiveState' = queuedActiveState \ {self}
              /\ Calls(<<act, next>>)
           \/ Calls(<<done>>)
    BY <1>11 DEF CheckSensor, Running, w, TypeOK, DataOK
  <2>2. /\ r = Wait(w) /\ done \in Frame /\ Height(done.fn, w') = Wait(w)
        /\ self \in OCC =>
              /\ next \in Frame /\ Height(next.fn, w') = Wait(w)
              /\ act \in Frame /\ Height(act.fn, w') = Wait(w) + 8
    <3>1. r = Wait(w)
      BY <1>2, <1>6, <2>1 DEF Heights
    <3>2. done \in Frame /\ Height(done.fn, w') = Wait(w)
      BY <1>2, <1>4, <1>5, <2>1, CallType, SMTT(20) DEF Heights, ManagerCalls
    <3>3. ASSUME self \in OCC
          PROVE  next \in Frame /\ Height(next.fn, w') = Wait(w)
      BY <1>2, <1>4, <1>5, <2>1, <3>3, CallType DEF Heights, LoopCalls
    <3>4. ASSUME self \in OCC
          PROVE  act \in Frame /\ Height(act.fn, w') = Wait(w) + 8
      BY <1>2, <1>4, <1>5, <2>1, <3>4, CallType DEF Heights, OccCalls
    <3>5. QED
      BY <3>1, <3>2, <3>3, <3>4
  <2> HIDE DEF next, done, act
  <2>3. QED
    BY <1>6, <1>8, <1>9, <2>1, <2>2
<1>12. CASE CheckAllEnd
  <2> DEFINE a == Call("initiateOccRequest", resetInstance)
             b == Call("restartWait", NoInstance)
             c == Call("clearQueue", NoInstance)
  <2>1. /\ Head(todo).fn = "checkAllEnd"
        /\ \/ Return
           \/ Calls(<<c>>)
           \/ w = TRUE /\ w' = FALSE /\ Calls(<<a, b, c>>)
    BY <1>1, <1>12 DEF CheckAllEnd, Running, w
  <2>2. /\ a \in Frame /\ b \in Frame /\ c \in Frame
        /\ Height(a.fn, w') = Wait(w') + 4
        /\ Height(b.fn, w') = 1 /\ Height(c.fn, w') = 1
        /\ r = Wait(w) /\ r >= 1
    <3>1. r = Wait(w) /\ r >= 1
      BY <1>2, <1>6, <2>1 DEF Heights
    <3>2. a \in Frame /\ b \in Frame /\ c \in Frame
      BY <1>4, CallType DEF ManagerCalls
    <3>3. /\ Height(a.fn, w') = Wait(w') + 4
          /\ Height(b.fn, w') = 1 /\ Height(c.fn, w') = 1
      BY <1>2, <1>5 DEF Heights
    <3>4. QED
      BY <3>1, <3>2, <3>3
  <2> HIDE DEF a, b, c
  <2>3. ASSUME w = TRUE, w' = FALSE, Calls(<<a, b, c>>) PROVE Good
    <3>1. r = 7 /\ Wait(w') = 1
      BY <1>2, <2>2, <2>3 DEF Heights
    <3>2. /\ Height(a.fn, w') + 2 <= k /\ Height(b.fn, w') + 1 <= k
          /\ Height(c.fn, w') <= k
      BY <1>2, <2>2, <3>1
    <3>3. <<a, b, c>> \in Seq(Frame) /\ Fit(<<a, b, c>>, k, w')
      BY <1>1, <1>2, <2>2, <3>2, ThreeFit
    <3>4. QED
      BY <1>3, <2>3, <3>3
  <2>4. QED
    BY <1>7, <1>8, <2>1, <2>2, <2>3
<1>13. CASE ClearQueue
  BY <1>7, <1>13 DEF ClearQueue
<1>14. CASE ValidateOcc
  <2> DEFINE check == Call2("validateMaster", self, arg)
             act == Call("activate", self)
  <2>1. /\ Head(todo).fn = "validateOcc" /\ w' = w
        /\ \/ Return
           \/ self \in OCC /\ Calls(<<check>>)
           \/ /\ self \in OCC /\ self \in queuedActiveState
              /\ queuedActiveState' = queuedActiveState \ {self}
              /\ Calls(<<act, check>>)
           \/ \E o \in OCC : Calls(<<Call("deviceError", o)>>)
    BY <1>14 DEF ValidateOcc, Running, w, TypeOK, DataOK
  <2>2. /\ r = Wait(w) + 4
        /\ self \in OCC =>
              /\ check \in Frame /\ Height(check.fn, w') = Wait(w) + 4
              /\ act \in Frame /\ Height(act.fn, w') = Wait(w) + 8
    <3>1. r = Wait(w) + 4
      BY <1>2, <1>6, <2>1 DEF Heights
    <3>2. ASSUME self \in OCC
          PROVE  check \in Frame /\ Height(check.fn, w') = Wait(w) + 4
      BY <1>2, <1>4, <1>5, <2>1, <3>2, Call2Type DEF Heights, OccCalls
    <3>3. ASSUME self \in OCC
          PROVE  act \in Frame /\ Height(act.fn, w') = Wait(w) + 8
      BY <1>2, <1>4, <1>5, <2>1, <3>3, CallType DEF Heights, OccCalls
    <3>4. QED
      BY <3>1, <3>2, <3>3
  <2>3. ASSUME NEW o \in OCC, Calls(<<Call("deviceError", o)>>) PROVE Good
    <3>1. /\ Call("deviceError", o) \in Frame
          /\ Height(Call("deviceError", o).fn, w') = Wait(w) + 3
      BY <1>2, <1>5, <2>1, CallType DEF Heights, OccCalls
    <3>2. QED
      BY <1>6, <1>8, <2>2, <2>3, <3>1
  <2> HIDE DEF check, act
  <2>4. ASSUME self \in OCC, Calls(<<check>>) PROVE Good
    BY <1>6, <1>8, <2>1, <2>2, <2>4
  <2>5. ASSUME self \in OCC, self \in queuedActiveState,
               queuedActiveState' = queuedActiveState \ {self},
               Calls(<<act, check>>)
        PROVE  Good
    <3>1. Height(act.fn, w') <= r + 8 /\ Height(check.fn, w') <= r + 9
      BY <1>6, <2>2, <2>5
    <3>2. QED
      BY <1>9, <2>2, <2>5, <3>1
  <2>6. QED
    BY <1>7, <2>1, <2>3, <2>4, <2>5
<1>15. CASE UpdateOCCInactive
  <2>1. /\ Head(todo).fn = "updateOCCInactive" /\ w' = w
        /\ self \in OCC
        /\ Return \/ Calls(<<Call("deactivate", self)>>)
    BY <1>4, <1>15 DEF UpdateOCCInactive, Running, w, OccCalls
  <2>2. /\ r = Wait(w) + 2 /\ Call("deactivate", self) \in Frame
        /\ Height(Call("deactivate", self).fn, w') = Wait(w) + 2
    BY <1>2, <1>5, <1>6, <2>1, CallType DEF Heights, OccCalls
  <2>3. QED
    BY <1>6, <1>7, <1>8, <2>1, <2>2
<1>16. QED
  BY <1>11, <1>12, <1>13, <1>14, <1>15

LEMMA StepRoom ==
    ASSUME TypeOK, StackFits, Step
    PROVE  StackFits'
<1> DEFINE w == waitingForAllOccActiveSensors
<1>1. /\ \E s \in Seq(Frame) : Calls(s) /\ Fitting(s)
      /\ Queued' <= Queued
      /\ w' => w
  <2>1. CASE CheckSensor \/ CheckAllEnd \/ ClearQueue \/ ValidateOcc
                \/ UpdateOCCInactive
    BY <2>1, QueueFits
  <2>2. CASE ~ (CheckSensor \/ CheckAllEnd \/ ClearQueue \/ ValidateOcc
                  \/ UpdateOCCInactive)
    <3>1. \E s \in Seq(Frame) : Calls(s) /\ Fitting(s)
      BY <2>2, PlainFits
    <3>2. UNCHANGED <<queuedActiveState, waitingForAllOccActiveSensors>>
      BY <2>2
         DEF Step, sensorVars, Activate, Deactivate, Unbind, SetProperty,
             DeviceError, ResetOCC, WentActive, StartPoll, RestartWait,
             WentInactive, CheckWaiting, ResetOccRequest, InitiateOccRequest,
             StopOccs, PldmResetOCC, ResetSent, PollerTimerExpired, PollOcc,
             ValidateMaster, ClearData, ClearNext, ClearEnd, SendHRESET,
             HostPoweredOff
    <3>3. Queued' = Queued /\ Queued \in Nat
      BY <3>2, QueueSize DEF Queued, TypeOK, DataOK
    <3>4. QED
      BY <3>1, <3>2, <3>3
  <2>3. QED
    BY <2>1, <2>2
<1>2. TypeOK'
  BY TypeStep DEF Next
<1>3. w \in BOOLEAN /\ w' \in BOOLEAN /\ Queued \in Nat /\ Queued' \in Nat
      /\ N \in Nat /\ todo # <<>>
  BY <1>2, QueueSize, NAssumption, StepRuns DEF Queued, TypeOK, DataOK
<1> DEFINE k == 9 * (Queued - Queued')
<1>4. k \in Nat /\ Room' = Room + k
  <2> DEFINE p == Queued
             q == Queued'
  <2>1. p \in Nat /\ q \in Nat /\ q <= p
    BY <1>1, <1>3
  <2>2. Room = 9 * (N - p) + 15 /\ Room' = 9 * (N - q) + 15
    BY DEF Room
  <2> HIDE DEF p, q
  <2>3. 9 * (p - q) \in Nat /\ 9 * (N - q) + 15 = 9 * (N - p) + 15 + 9 * (p - q)
    BY <1>3, <2>1
  <2>4. QED
    BY <2>2, <2>3 DEF p, q
<1>5. PICK s \in Seq(Frame) : Calls(s) /\ Fitting(s)
  BY <1>1
<1>6. Fit(s, Height(Head(todo).fn, w) + k, w')
  BY <1>5 DEF Fitting
<1> HIDE DEF k
<1>7. Fit(todo', Room + k, w')
  BY <1>1, <1>3, <1>4, <1>5, <1>6, FitKeeps
<1>8. QED
  BY <1>4, <1>7 DEF StackFits, Fit

LEMMA EventRoom ==
    ASSUME TypeOK, StackFits, Event
    PROVE  StackFits'
<1> DEFINE w == waitingForAllOccActiveSensors'
<1>1. TypeOK' /\ TypeOK
  BY TypeStep DEF Next
<1>2. w \in BOOLEAN /\ todo' \in Seq(Frame)
  BY <1>1 DEF TypeOK, DataOK
<1>3. Room' \in Int /\ Room' >= 15
  BY <1>1, QueueSize, NAssumption, SMTT(20) DEF Room, Queued, TypeOK, DataOK
<1>4. Heights(w) /\ Wait(w) \in Nat /\ Wait(w) <= 7
  BY <1>2, HeightIs DEF Heights, Wait
<1>5. StackFits' <=> Fit(todo', Room', w)
  BY DEF StackFits, Fit
<1> DEFINE Good == Fit(todo', Room', w)
<1> SUFFICES Good
  BY <1>5
<1>6. todo' = <<>> => Good
  BY DEF Fit
<1>7. ASSUME NEW f, NEW o, todo' = <<Call(f, o)>>,
             Height(f, w) \in Nat, Height(f, w) <= 15
      PROVE  Good
  <2>1. Len(todo') = 1 /\ todo'[1].fn = f
    BY <1>7, CallFn
  <2>2. QED
    BY <1>3, <1>7, <2>1 DEF Fit
<1>8. ASSUME NEW f, NEW o, NEW g, NEW p, todo' = <<Call(f, o), Call(g, p)>>,
             Height(f, w) \in Nat, Height(f, w) <= 14,
             Height(g, w) \in Nat, Height(g, w) <= 15
      PROVE  Good
  <2>1. Len(todo') = 2 /\ todo'[1].fn = f /\ todo'[2].fn = g
    BY <1>8, CallFn
  <2>2. QED
    BY <1>3, <1>8, <2>1 DEF Fit
<1> HIDE DEF Good, w
<1>9. CASE DiscoverTimerExpired \/ PollTimerExpired
  BY <1>4, <1>6, <1>7, <1>9
     DEF DiscoverTimerExpired, PollTimerExpired, Idle, CheckAllActiveSensors,
         Heights
<1>10. CASE WaitTimerExpired
  BY <1>4, <1>6, <1>7, <1>8, <1>10 DEF WaitTimerExpired, Heights
<1>11. CASE SensorRunning \/ SensorStopped \/ HresetResult
  BY <1>4, <1>6, <1>7, <1>11
     DEF SensorRunning, SensorStopped, HresetResult, UpdateOCCActive,
         SbeHRESETResult, Idle, Heights
<1>12. CASE OccError \/ PresenceMismatch \/ SbeTimeout \/ DBusWrite
  BY <1>4, <1>7, <1>8, <1>12
     DEF OccError, PresenceMismatch, SbeTimeout, DBusWrite, Heights
<1>13. CASE ResetGivenUp \/ HostStateOff
  BY <1>4, <1>7, <1>8, <1>13 DEF ResetGivenUp, HostStateOff, Heights
<1>14. QED
  BY <1>9, <1>10, <1>11, <1>12, <1>13 DEF Event

\* The handlers that call each other through the callbacks of Status, the reset
\* and the polling nest no deeper than the queue of early activations allows:
\* only an activation from the queue can start over, and each leaves it.
THEOREM NestingIsBounded == Spec => []NestingBounded
<1>1. Init => StackFits
  BY DEF Init, StackFits, Fit
<1>2. TypeOK /\ StackFits /\ [Next]_vars => StackFits'
  <2> SUFFICES ASSUME TypeOK, StackFits, [Next]_vars
               PROVE  StackFits'
    OBVIOUS
  <2>1. CASE Step
    BY <2>1, StepRoom
  <2>2. CASE Event
    BY <2>2, EventRoom
  <2>3. CASE HostChanges \/ UNCHANGED vars
    BY <2>3, OnlyTheHost DEF allButHost, sensorVars, StackFits, Room, Queued, Fit
  <2>4. QED
    BY <2>1, <2>2, <2>3 DEF Next
<1>3. TypeOK /\ StackFits => NestingBounded
  <2> SUFFICES ASSUME TypeOK, StackFits
               PROVE  Len(todo) <= 9 * N + 15
    BY DEF NestingBounded
  <2>1. /\ todo \in Seq(Frame) /\ waitingForAllOccActiveSensors \in BOOLEAN
        /\ N \in Nat /\ Len(todo) \in Nat
    BY NAssumption DEF TypeOK, DataOK
  <2>2. Room \in Int /\ Room <= 9 * N + 15
    BY QueuedType, <2>1 DEF Room, TypeOK, DataOK
  <2>3. CASE Len(todo) # 0
    <3>1. Len(todo) - 1 + Height(todo[1].fn, waitingForAllOccActiveSensors)
             <= Room
      BY <2>1, <2>3 DEF StackFits, Fit
    <3>2. /\ Height(todo[1].fn, waitingForAllOccActiveSensors) \in Nat
          /\ Height(todo[1].fn, waitingForAllOccActiveSensors) > 0
      BY <2>1, HeightType
    <3>3. QED
      BY <2>1, <2>2, <3>1, <3>2
  <2>4. QED
    BY <2>1, <2>3
<1>4. QED
  BY <1>1, <1>2, <1>3, TypeCorrect, PTL DEF Spec

-----------------------------------------------------------------------------
(* The count of active OCCs                                                  *)

\* A call that assigns the property occActive, and one that assigns that of o
IsSet(f) == f.fn \in {"setActive", "setInactive"}
Sets(f, o) == IsSet(f) /\ f.occ = o

\* Calls a to b of the stack s assign occActive of o, and the last of them sets it.
HasSet(s, a, b, o) == \E k \in a .. b : Sets(s[k], o)
EndsOn(s, a, b, o) ==
    \E k \in a .. b : /\ Sets(s[k], o) /\ s[k].fn = "setActive"
                      /\ \A l \in (k + 1) .. b : ~ Sets(s[l], o)

\* OCC o is active once the first i calls of the stack have returned.
OnAfter(i, o) ==
    IF HasSet(todo, 1, i, o) THEN EndsOn(todo, 1, i, o) ELSE occActive[o]
FinallyOn(i) == {o \in OCC : OnAfter(i, o)}

\* The OCCs that a handler may activate from the queue
Early == IF waitingForAllOccActiveSensors
         THEN queuedActiveState \cap statusObjects ELSE {}

\* A call that may lead to an activation from the queue
Ending == {"deactivate", "deviceError"}
Silent == {"setActive", "setInactive", "unbind", "resetOCC", "resetOccRequest",
           "resetSent", "restartWait", "clearQueue", "hostPoweredOff"}
\* Calls that may lead to an activation before they return, the others being silent
\* or ending
Noisy(j) == \/ todo[j].fn \notin Silent \cup Ending
            \/ j = 1 /\ todo[j].fn \in Ending /\ occActive[todo[j].occ]

\* The OCCs that may be activated from the queue, and counted, before a call
\* that is among the first i assigns their occActive
Returning(i) ==
    {o \in Early : \E j, k \in 1 .. i : /\ j < k /\ Noisy(j) /\ ~ OnAfter(j, o)
                                       /\ Sets(todo[k], o)}

\* The head of the stack is a call of one of these functions.
HeadIs(fns) == todo # <<>> /\ Head(todo).fn \in fns

\* activeCount as the call at the head leaves it, or may leave it
Counting == IF HeadIs({"wentInactive"}) THEN OneLess ELSE activeCount
\* The count that the head, or what it is about to do, will still be given
Owed(i) ==
    IF \/ HeadIs({"wentActive"})
       \/ HeadIs({"activate"}) /\ HasSet(todo, 1, i, Head(todo).occ)
    THEN 1 ELSE 0

\* The error watch of an active OCC failed: it is about to be deactivated
\* though setInactive is already on the stack.
WatchFailed ==
    \E o \in OCC :
       /\ occActive[o]
       /\ \/ todo = <<Call("deviceError", o), Call("setInactive", o)>>
          \/ todo = <<Call("deactivate", o), Call("resetOCC", o),
                      Call("setInactive", o)>>

\* CountBound holds, and will when any of the calls on the stack has returned,
\* with room for the OCCs that may return until then.
Counted ==
    \/ WatchFailed
    \/ \A i \in 0 .. Len(todo) :
          Counting + Cardinality(Returning(i)) + Owed(i)
             <= Cardinality(FinallyOn(i))

\* The OCCs that calls a to b of the stack leave inactive, or active
LeftOff(a, b) == {o \in OCC : HasSet(todo, a, b, o) /\ ~ EndsOn(todo, a, b, o)}
LeftOn(a, b) == {o \in OCC : EndsOn(todo, a, b, o)}
\* The first assignment among calls a to b is to inactive.
FirstOff(a, b) ==
    \E k \in a .. b : /\ todo[k].fn = "setInactive"
                      /\ \A l \in a .. (k - 1) : ~ IsSet(todo[l])

\* In each part of the stack, the OCCs of the queue that are left inactive are
\* made up for by others that are left active: a deactivation can only be under
\* way inside another one if an OCC was activated from the queue in between.
Bonus(a, b) ==
    IF a = 1 /\ HeadIs({"activate"}) /\ HasSet(todo, a, b, Head(todo).occ)
    THEN 1 ELSE 0
Even(a, b) ==
    Cardinality(LeftOff(a, b) \cap Early) + Bonus(a, b)
       <= Cardinality(LeftOn(a, b) \ Early) + (IF FirstOff(a, b) THEN 1 ELSE 0)
Balanced ==
    \A b \in 0 .. Len(todo) : \A a \in 1 .. (b + 1) : Even(a, b)

\* The calls that may deactivate an OCC; below one of them there is no pending
\* setInactive, or that of the OCC it is about.
MayEnd == Ending \cup
    {"resetOCC", "updateOCCInactive", "clearData", "sendHRESET", "pldmResetOCC",
     "stopOccs", "initiateOccRequest", "pollOcc", "pollerTimerExpired",
     "startPoll", "validateOcc", "validateMaster", "wentActive"}
Reset == Ending \cup {"resetOCC"}
\* The first assignment after call j is call k.
NextSet(j, k) ==
    j < k /\ IsSet(todo[k]) /\ \A l \in (j + 1) .. (k - 1) : ~ IsSet(todo[l])
Separate ==
    waitingForAllOccActiveSensors =>
       \A j, k \in 1 .. Len(todo) :
          NextSet(j, k) /\ todo[j].fn \in MayEnd /\ todo[k].fn = "setInactive"
             => todo[j].fn \in Reset /\ todo[j].occ = todo[k].occ

\* Calls that are only ever at the head of the stack, and what is known there
AtHead == Ending \cup {"activate", "wentActive", "wentInactive"}
HeadsOnly == \A j \in 2 .. Len(todo) : todo[j].fn \notin AtHead
FromQueue ==
    HeadIs({"activate"}) /\ Len(todo) > 1
        => ~ occActive[self] /\ self \notin queuedActiveState
EndsApart ==
    waitingForAllOccActiveSensors /\ HeadIs(Ending) /\ occActive[self]
        => \/ WatchFailed
           \/ \A k \in 1 .. Len(todo) :
                 NextSet(1, k) => todo[k].fn # "setInactive"
ResetFollows ==
    /\ HeadIs({"resetOCC"}) => ~ occActive[self]
    /\ \A j \in 1 .. (Len(todo) - 1) :
          todo[j + 1].fn = "resetOCC"
             => /\ todo[j].fn \in {"deactivate", "setInactive"}
                /\ todo[j].occ = todo[j + 1].occ

\* Above clearQueue there are only the calls of a reset that finds no sensors
\* awaited.
OfReset == {"initiateOccRequest", "restartWait", "stopOccs", "pldmResetOCC",
            "resetSent", "clearData", "updateOCCInactive", "deactivate",
            "wentInactive", "checkWaiting", "unbind", "setInactive"}
ClearAlone ==
    \A k \in 1 .. Len(todo) : todo[k].fn = "clearQueue" =>
        /\ ~ waitingForAllOccActiveSensors
        /\ \A j \in 1 .. (k - 1) : todo[j].fn \in OfReset

\* Sizes of sets of OCCs
LEMMA OccSets ==
    ASSUME NEW A, NEW B, A \subseteq OCC, B \subseteq OCC
    PROVE  /\ Cardinality(A) \in Nat
           /\ A \subseteq B => Cardinality(A) <= Cardinality(B)
           /\ Cardinality(A \cup B) <= Cardinality(A) + Cardinality(B)
           /\ Cardinality(A \ B) + Cardinality(A \cap B) = Cardinality(A)
           /\ \A o \in A : Cardinality(A \ {o}) = Cardinality(A) - 1
           /\ \A o \in OCC \ A : Cardinality(A \cup {o}) = Cardinality(A) + 1
           /\ Cardinality({}) = 0
<1>1. IsFiniteSet(OCC)
  BY NAssumption, FS_Interval DEF OCC
<1>2. IsFiniteSet(A) /\ IsFiniteSet(B)
  BY <1>1, FS_Subset
<1>3. Cardinality(A) \in Nat /\ Cardinality(B) \in Nat
  BY <1>2, FS_CardinalityType
<1>4. A \subseteq B => Cardinality(A) <= Cardinality(B)
  BY <1>2, FS_Subset
<1>5. /\ Cardinality(A \cap B) \in Nat
      /\ Cardinality(A \cup B)
            = Cardinality(A) + Cardinality(B) - Cardinality(A \cap B)
  <2>1. IsFiniteSet(A \cap B)
    BY <1>2, FS_Intersection
  <2>2. QED
    BY <1>2, <2>1, FS_Union, FS_CardinalityType
<1>6. Cardinality(A \ B) = Cardinality(A) - Cardinality(A \cap B)
  BY <1>2, FS_Difference
<1>7. \A o \in A : Cardinality(A \ {o}) = Cardinality(A) - 1
  BY <1>2, FS_RemoveElement
<1>8. \A o \in OCC \ A : Cardinality(A \cup {o}) = Cardinality(A) + 1
  BY <1>2, FS_AddElement
<1>9. Cardinality({}) = 0
  BY FS_EmptySet
<1>10. QED
  BY <1>3, <1>4, <1>5, <1>6, <1>7, <1>8, <1>9

\* A part of the stack that ends with o active assigns it.
LEMMA EndsHas ==
    \A s, a, b, o : EndsOn(s, a, b, o) => HasSet(s, a, b, o)
BY DEF EndsOn, HasSet

\* What a part of the stack does is what its second half does, or its first
\* half where the second does nothing.
LEMMA SplitSets ==
    ASSUME NEW s, NEW o, NEW a \in Int, NEW b \in Int, NEW c \in Int,
           a <= c + 1, c <= b
    PROVE  /\ HasSet(s, a, b, o)
                 <=> HasSet(s, a, c, o) \/ HasSet(s, c + 1, b, o)
           /\ EndsOn(s, a, b, o)
                 <=> IF HasSet(s, c + 1, b, o) THEN EndsOn(s, c + 1, b, o)
                     ELSE EndsOn(s, a, c, o)
<1>1. \A k \in a .. b : k \in a .. c \/ k \in (c + 1) .. b
  OBVIOUS
<1>2. a .. c \subseteq a .. b /\ (c + 1) .. b \subseteq a .. b
  OBVIOUS
<1>3. HasSet(s, a, b, o) <=> HasSet(s, a, c, o) \/ HasSet(s, c + 1, b, o)
  BY <1>1, <1>2 DEF HasSet
<1>4. CASE HasSet(s, c + 1, b, o)
  <2>1. PICK m \in (c + 1) .. b : Sets(s[m], o)
    BY <1>4 DEF HasSet
  <2>2. ASSUME NEW k \in a .. c PROVE m \in (k + 1) .. b
    OBVIOUS
  <2>3. EndsOn(s, a, b, o) <=> EndsOn(s, c + 1, b, o)
    BY <1>1, <1>2, <2>1, <2>2 DEF EndsOn
  <2>4. QED
    BY <1>3, <1>4, <2>3
<1>5. CASE ~ HasSet(s, c + 1, b, o)
  <2>1. \A l \in (c + 1) .. b : ~ Sets(s[l], o)
    BY <1>5 DEF HasSet
  <2>2. ASSUME NEW k \in a .. c
        PROVE  (\A l \in (k + 1) .. b : ~ Sets(s[l], o))
                  <=> (\A l \in (k + 1) .. c : ~ Sets(s[l], o))
    <3>1. \A l \in (k + 1) .. b : l \in (k + 1) .. c \/ l \in (c + 1) .. b
      OBVIOUS
    <3>2. (k + 1) .. c \subseteq (k + 1) .. b
      OBVIOUS
    <3>3. QED
      BY <2>1, <3>1, <3>2
  <2>3. EndsOn(s, a, b, o) <=> EndsOn(s, a, c, o)
    BY <1>1, <1>2, <2>1, <2>2 DEF EndsOn
  <2>4. QED
    BY <1>3, <1>5, <2>3
<1>6. QED
  BY <1>4, <1>5

\* The same calls at another place of another stack do the same.
LEMMA ShiftSets ==
    ASSUME NEW s, NEW t, NEW o, NEW a \in Int, NEW b \in Int,
           NEW c \in Int, NEW e \in Int, c - a = e - b,
           \A k \in a .. b : t[k + (c - a)] = s[k]
    PROVE  /\ HasSet(t, c, e, o) <=> HasSet(s, a, b, o)
           /\ EndsOn(t, c, e, o) <=> EndsOn(s, a, b, o)
<1>0. PICK d \in Int : d = c - a /\ c = a + d /\ e = b + d
  OBVIOUS
<1>8. \A k \in a .. b : t[k + d] = s[k]
  BY <1>0
<1>1. \A k \in a .. b : k + d \in (a + d) .. (b + d)
  OBVIOUS
<1>2. \A k \in (a + d) .. (b + d) : k - d \in a .. b /\ t[k] = s[k - d]
  <2>1. \A k \in (a + d) .. (b + d) : k - d \in a .. b /\ (k - d) + d = k
    OBVIOUS
  <2>2. QED
    BY <2>1, <1>8
<1>3. HasSet(t, a + d, b + d, o) <=> HasSet(s, a, b, o)
  BY <1>1, <1>2 DEF HasSet
<1>4. ASSUME NEW k \in a .. b
      PROVE  (\A l \in (k + 1) .. b : ~ Sets(s[l], o))
                <=> (\A l \in (k + d + 1) .. (b + d) : ~ Sets(t[l], o))
  <2>1. \A l \in (k + 1) .. b :
           l + d \in (k + d + 1) .. (b + d) /\ t[l + d] = s[l]
    BY <1>8
  <2>2. \A l \in (k + d + 1) .. (b + d) :
           l - d \in (k + 1) .. b /\ t[l] = s[l - d]
    BY <1>2
  <2>3. QED
    BY <2>1, <2>2
<1>5. EndsOn(s, a, b, o) => EndsOn(t, a + d, b + d, o)
  <2>1. SUFFICES ASSUME NEW k \in a .. b, Sets(s[k], o), s[k].fn = "setActive",
                        \A l \in (k + 1) .. b : ~ Sets(s[l], o)
                 PROVE  EndsOn(t, a + d, b + d, o)
    BY DEF EndsOn
  <2>2. /\ k + d \in (a + d) .. (b + d) /\ t[k + d] = s[k]
        /\ \A l \in (k + d + 1) .. (b + d) : ~ Sets(t[l], o)
    BY <1>1, <1>4, <1>8, <2>1
  <2>3. QED
    BY <2>1, <2>2 DEF EndsOn
<1>6. EndsOn(t, a + d, b + d, o) => EndsOn(s, a, b, o)
  <2>1. SUFFICES ASSUME NEW k \in (a + d) .. (b + d),
                        Sets(t[k], o), t[k].fn = "setActive",
                        \A l \in (k + 1) .. (b + d) : ~ Sets(t[l], o)
                 PROVE  EndsOn(s, a, b, o)
    BY DEF EndsOn
  <2> DEFINE j == k - d
  <2>2. j \in a .. b /\ t[k] = s[j] /\ j + d + 1 = k + 1
    BY <1>2
  <2>3. \A l \in (j + 1) .. b : ~ Sets(s[l], o)
    BY <1>4, <2>1, <2>2
  <2>4. QED
    BY <2>1, <2>2, <2>3 DEF EndsOn
<1>7. QED
  BY <1>0, <1>3, <1>5, <1>6

\* The stack after a call has been replaced by the calls it makes
LEMMA CallsStack ==
    ASSUME TypeOK, todo # <<>>, NEW s \in Seq(Frame), Calls(s)
    PROVE  /\ Len(s) \in Nat /\ Len(todo) \in Nat /\ Len(todo) > 0
           /\ Len(todo') = Len(todo) + Len(s) - 1
           /\ Head(todo) = todo[1] /\ Head(todo) \in Frame
           /\ \A k \in 1 .. Len(s) : todo'[k] = s[k]
           /\ \A m \in 2 .. Len(todo) : todo'[m + (Len(s) - 1)] = todo[m]
           /\ \A k \in (Len(s) + 1) .. Len(todo') :
                 k - Len(s) + 1 \in 2 .. Len(todo)
                 /\ todo'[k] = todo[k - Len(s) + 1]
           /\ todo' # <<>> => Head(todo') = todo'[1]
<1>1. /\ todo \in Seq(Frame) /\ Tail(todo) \in Seq(Frame)
      /\ Len(s) \in Nat /\ Len(todo) \in Nat /\ Len(todo) > 0
      /\ todo' = s \o Tail(todo) /\ todo' \in Seq(Frame)
  BY DEF TypeOK, Calls
<1>2. Len(todo') = Len(todo) + Len(s) - 1
  BY <1>1
<1>3. \A k \in 1 .. Len(s) : todo'[k] = s[k]
  BY <1>1
<1>4. \A m \in 2 .. Len(todo) : todo'[m + (Len(s) - 1)] = todo[m]
  BY <1>1
<1>5. \A k \in (Len(s) + 1) .. Len(todo') :
         k - Len(s) + 1 \in 2 .. Len(todo) /\ todo'[k] = todo[k - Len(s) + 1]
  BY <1>1, <1>2
<1>6. Head(todo) = todo[1] /\ Head(todo) \in Frame
  BY <1>1
<1>7. todo' # <<>> => Head(todo') = todo'[1]
  BY <1>1
<1>8. QED
  BY <1>1, <1>2, <1>3, <1>4, <1>5, <1>6, <1>7

\* What is active once a call of the old stack has returned, and once it has in
\* the new one
LEMMA AfterCalls ==
    ASSUME TypeOK, todo # <<>>, NEW s \in Seq(Frame), Calls(s),
           NEW m \in 1 .. Len(todo), NEW n \in Nat, n = Len(s), NEW o
    PROVE  /\ OnAfter(m + n - 1, o)'
                 <=> IF HasSet(todo, 2, m, o) THEN OnAfter(m, o)
                     ELSE OnAfter(n, o)'
           /\ OnAfter(m, o)
                 <=> IF HasSet(todo, 2, m, o) THEN EndsOn(todo, 2, m, o)
                     ELSE OnAfter(1, o)
           /\ HasSet(todo, 2, m, o) => HasSet(todo, 1, m, o)
<1>1. Len(todo) \in Nat /\ m \in Int /\ m >= 1
  BY CallsStack
<1>2. \A k \in 2 .. m : todo'[k + (n - 1)] = todo[k]
  BY CallsStack
<1>3. n + 1 \in Int /\ m + n - 1 \in Int /\ n + 1 - 2 = m + n - 1 - m
      /\ \A k \in 2 .. m : todo'[k + (n + 1 - 2)] = todo[k]
  BY <1>1, <1>2
<1>5. /\ HasSet(todo', n + 1, m + n - 1, o) <=> HasSet(todo, 2, m, o)
      /\ EndsOn(todo', n + 1, m + n - 1, o) <=> EndsOn(todo, 2, m, o)
  <2>1. PICK a \in Int, c \in Int, e \in Int :
           a = 2 /\ c = n + 1 /\ e = m + n - 1
    BY <1>3
  <2>2. c - a = e - m /\ \A k \in a .. m : todo'[k + (c - a)] = todo[k]
    BY <1>3, <2>1
  <2>3. /\ HasSet(todo', c, e, o) <=> HasSet(todo, a, m, o)
        /\ EndsOn(todo', c, e, o) <=> EndsOn(todo, a, m, o)
    BY <1>1, <2>2, ShiftSets
  <2>4. QED
    BY <2>1, <2>3
<1>6. /\ HasSet(todo', 1, m + n - 1, o)
            <=> HasSet(todo', 1, n, o) \/ HasSet(todo', n + 1, m + n - 1, o)
      /\ EndsOn(todo', 1, m + n - 1, o)
            <=> IF HasSet(todo', n + 1, m + n - 1, o)
                THEN EndsOn(todo', n + 1, m + n - 1, o)
                ELSE EndsOn(todo', 1, n, o)
  <2>1. n \in Int /\ m + n - 1 \in Int /\ 1 \in Int /\ 1 <= n + 1
        /\ n <= m + n - 1
    BY <1>1
  <2>2. QED
    BY <2>1, SplitSets
<1>7. /\ HasSet(todo, 1, m, o) <=> HasSet(todo, 1, 1, o) \/ HasSet(todo, 2, m, o)
      /\ EndsOn(todo, 1, m, o)
            <=> IF HasSet(todo, 2, m, o) THEN EndsOn(todo, 2, m, o)
                ELSE EndsOn(todo, 1, 1, o)
  BY <1>1, SplitSets
<1>8. OnAfter(m + n - 1, o)'
         <=> IF HasSet(todo', 1, m + n - 1, o) THEN EndsOn(todo', 1, m + n - 1, o)
             ELSE occActive'[o]
  BY DEF OnAfter
<1>9. OnAfter(n, o)' <=> IF HasSet(todo', 1, n, o) THEN EndsOn(todo', 1, n, o)
                         ELSE occActive'[o]
  BY DEF OnAfter
<1>10. OnAfter(m, o) <=> IF HasSet(todo, 1, m, o) THEN EndsOn(todo, 1, m, o)
                         ELSE occActive[o]
  BY DEF OnAfter
<1>11. OnAfter(1, o) <=> IF HasSet(todo, 1, 1, o) THEN EndsOn(todo, 1, 1, o)
                         ELSE occActive[o]
  BY DEF OnAfter
<1>12. QED
  BY <1>5, <1>6, <1>7, <1>8, <1>9, <1>10, <1>11

\* What is active after the new calls, if only the last of them assigns it
LEMMA AfterNew ==
    ASSUME TypeOK, todo # <<>>, NEW s \in Seq(Frame), Calls(s),
           NEW n \in Nat, n = Len(s),
           \A k \in 1 .. (n - 1) : ~ IsSet(s[k])
    PROVE  /\ \A i \in 0 .. n : \A o :
                 (i < n \/ n = 0 \/ ~ Sets(s[n], o))
                    => ~ HasSet(todo', 1, i, o)
                       /\ (OnAfter(i, o)' <=> occActive'[o])
           /\ \A o : n > 0 /\ Sets(s[n], o)
                 => (OnAfter(n, o)' <=> s[n].fn = "setActive")
<1>1. \A k \in 1 .. n : todo'[k] = s[k]
  BY CallsStack
<1>2. ASSUME NEW i \in 0 .. n, NEW o, i < n \/ n = 0 \/ ~ Sets(s[n], o)
      PROVE  ~ HasSet(todo', 1, i, o) /\ (OnAfter(i, o)' <=> occActive'[o])
  <2>1. ASSUME NEW k \in 1 .. i PROVE ~ Sets(todo'[k], o)
    <3>1. k \in 1 .. n /\ (k \in 1 .. (n - 1) \/ (k = n /\ i = n))
      OBVIOUS
    <3>2. QED
      BY <1>1, <1>2, <3>1 DEF Sets
  <2>2. ~ HasSet(todo', 1, i, o)
    BY <2>1 DEF HasSet
  <2>3. QED
    BY <2>2 DEF OnAfter
<1>3. ASSUME NEW o, n > 0, Sets(s[n], o)
      PROVE  OnAfter(n, o)' <=> s[n].fn = "setActive"
  <2>1. n \in 1 .. n /\ todo'[n] = s[n]
    BY <1>1, <1>3
  <2>2. HasSet(todo', 1, n, o)
    BY <1>3, <2>1 DEF HasSet
  <2>3. EndsOn(todo', 1, n, o) <=> s[n].fn = "setActive"
    <3>1. ASSUME NEW k \in 1 .. n, Sets(todo'[k], o) PROVE k = n
      <4>1. k = n \/ k \in 1 .. (n - 1)
        OBVIOUS
      <4>2. QED
        BY <1>1, <3>1, <4>1 DEF Sets
    <3>2. (n + 1) .. n = {}
      OBVIOUS
    <3>3. QED
      BY <1>3, <2>1, <3>1, <3>2 DEF EndsOn
  <2>4. QED
    BY <2>2, <2>3 DEF OnAfter
<1>4. QED
  BY <1>2, <1>3

\* What is active once the head has returned
LEMMA AfterHead ==
    ASSUME TypeOK, todo # <<>>, NEW o
    PROVE  OnAfter(1, o) <=> IF Sets(Head(todo), o)
                             THEN Head(todo).fn = "setActive" ELSE occActive[o]
<1>1. Head(todo) = todo[1]
  BY DEF TypeOK
<1>2. 1 .. 1 = {1} /\ (1 + 1) .. 1 = {}
  OBVIOUS
<1>3. HasSet(todo, 1, 1, o) <=> Sets(todo[1], o)
  BY <1>2 DEF HasSet
<1>4. EndsOn(todo, 1, 1, o) <=> Sets(todo[1], o) /\ todo[1].fn = "setActive"
  BY <1>2 DEF EndsOn
<1>5. QED
  BY <1>1, <1>3, <1>4 DEF OnAfter

\* No OCC but those of X becomes one that may return, by calls s that leave the
\* others as they were.
LEMMA ReturningKept ==
    ASSUME TypeOK, HeadsOnly, todo # <<>>, NEW s \in Seq(Frame), Calls(s),
           NEW n \in Nat, n = Len(s), \A k \in 1 .. (n - 1) : ~ IsSet(s[k]),
           NEW X, Early' \subseteq Early,
           \A o \in Early' \ X :
              /\ OnAfter(1, o) => OnAfter(n, o)'
              /\ \A j \in 1 .. n : Noisy(j)' /\ ~ OnAfter(j, o)'
                    => /\ Noisy(1) /\ ~ OnAfter(1, o)
                       /\ j < n => ~ Sets(s[n], o)
    PROVE  \A m \in 1 .. Len(todo) : Returning(m + n - 1)' \subseteq Returning(m) \cup X
<1> SUFFICES ASSUME NEW m \in 1 .. Len(todo),
                    NEW o, o \in Returning(m + n - 1)', o \notin X
             PROVE  o \in Returning(m)
  OBVIOUS
<1>1. /\ Len(todo) \in Nat /\ m \in Int
      /\ Len(todo') = Len(todo) + n - 1
      /\ \A k \in 1 .. n : todo'[k] = s[k]
      /\ \A k \in (n + 1) .. Len(todo') :
            k - n + 1 \in 2 .. Len(todo) /\ todo'[k] = todo[k - n + 1]
  BY CallsStack
<1>2. o \in Early' /\ o \in Early
  BY DEF Returning
<1>3. PICK j \in 1 .. (m + n - 1), k \in 1 .. (m + n - 1) :
         j < k /\ Noisy(j)' /\ ~ OnAfter(j, o)' /\ Sets(todo'[k], o)
  BY DEF Returning
<1>4. CASE k \in 1 .. n
  <2>1. k = n /\ j \in 1 .. n /\ j < n
    <3>1. k \in 1 .. (n - 1) \/ k = n
      BY <1>4
    <3>2. QED
      BY <1>1, <1>3, <1>4, <3>1 DEF Sets
  <2>2. ~ Sets(s[n], o)
    BY <1>2, <1>3, <2>1
  <2>3. QED
    BY <1>1, <1>3, <1>4, <2>1, <2>2
<1>5. CASE k \notin 1 .. n
  <2> DEFINE l == k - n + 1
  <2>1. l \in 2 .. m /\ l \in 1 .. m /\ Sets(todo[l], o)
    <3>1. k \in (n + 1) .. Len(todo') /\ k <= m + n - 1
      BY <1>1, <1>5
    <3>2. todo'[k] = todo[l] /\ l \in 2 .. Len(todo) /\ l <= m
      BY <1>1, <3>1
    <3>3. QED
      BY <1>1, <1>3, <3>2
  <2>2. CASE j \in 1 .. n
    <3>1. Noisy(1) /\ ~ OnAfter(1, o)
      BY <1>2, <1>3, <2>2
    <3>2. 1 \in 1 .. m /\ 1 < l
      BY <1>1, <2>1
    <3>3. QED
      BY <1>2, <2>1, <3>1, <3>2 DEF Returning
  <2>3. CASE j \notin 1 .. n
    <3> DEFINE i == j - n + 1
    <3>1. /\ i \in 2 .. m /\ i \in 1 .. m /\ i < l /\ i + n - 1 = j
          /\ todo'[j] = todo[i] /\ i \in 1 .. Len(todo) /\ i \in 2 .. Len(todo)
      BY <1>1, <1>3, <1>5, <2>3
    <3>2. Noisy(i)
      BY <1>3, <3>1 DEF Noisy, HeadsOnly, AtHead, Ending
    <3> HIDE DEF i, l
    <3>3. /\ OnAfter(j, o)' <=> IF HasSet(todo, 2, i, o) THEN OnAfter(i, o)
                                ELSE OnAfter(n, o)'
          /\ OnAfter(i, o) <=> IF HasSet(todo, 2, i, o) THEN EndsOn(todo, 2, i, o)
                               ELSE OnAfter(1, o)
      BY <3>1, AfterCalls
    <3>4. OnAfter(1, o) => OnAfter(n, o)'
      BY <1>2
    <3>5. ~ OnAfter(i, o)
      BY <1>3, <3>3, <3>4
    <3>6. QED
      BY <1>2, <2>1, <3>1, <3>2, <3>5 DEF Returning
  <2>4. QED
    BY <2>2, <2>3
<1>6. QED
  BY <1>4, <1>5

\* Calls that leave every OCC but x as the head would have left it, and below them
\* what is active in the end
LEMMA FinallyKept ==
    ASSUME TypeOK, todo # <<>>, NEW s \in Seq(Frame), Calls(s),
           NEW n \in Nat, n = Len(s), NEW x \in OCC,
           \A o \in OCC \ {x} : OnAfter(n, o)' <=> OnAfter(1, o),
           NEW m \in 1 .. Len(todo)
    PROVE  /\ \A o : o # x => (o \in FinallyOn(m + n - 1)' <=> o \in FinallyOn(m))
           /\ HasSet(todo, 2, m, x)
                 => (x \in FinallyOn(m + n - 1)' <=> x \in FinallyOn(m))
           /\ ~ HasSet(todo, 2, m, x)
                 => /\ x \in FinallyOn(m + n - 1)' <=> OnAfter(n, x)'
                    /\ x \in FinallyOn(m) <=> OnAfter(1, x)
           /\ FinallyOn(m) \subseteq OCC /\ FinallyOn(m + n - 1)' \subseteq OCC
<1>1. \A o : /\ OnAfter(m + n - 1, o)'
                   <=> IF HasSet(todo, 2, m, o) THEN OnAfter(m, o)
                       ELSE OnAfter(n, o)'
             /\ OnAfter(m, o)
                   <=> IF HasSet(todo, 2, m, o) THEN EndsOn(todo, 2, m, o)
                       ELSE OnAfter(1, o)
  BY AfterCalls
<1>2. \A o \in OCC : /\ o \in FinallyOn(m) <=> OnAfter(m, o)
                     /\ o \in FinallyOn(m + n - 1)' <=> OnAfter(m + n - 1, o)'
  BY DEF FinallyOn
<1>3. FinallyOn(m) \subseteq OCC /\ FinallyOn(m + n - 1)' \subseteq OCC
  BY DEF FinallyOn
<1>4. ASSUME NEW o \in OCC \ {x}
      PROVE  o \in FinallyOn(m + n - 1)' <=> o \in FinallyOn(m)
  BY <1>1, <1>2
<1>5. \A o : o # x => (o \in FinallyOn(m + n - 1)' <=> o \in FinallyOn(m))
  BY <1>3, <1>4
<1>6. QED
  BY <1>1, <1>2, <1>3, <1>5

\* ... and calls that leave all of them so
LEMMA FinallySame ==
    ASSUME TypeOK, todo # <<>>, NEW s \in Seq(Frame), Calls(s),
           NEW n \in Nat, n = Len(s),
           \A o \in OCC : OnAfter(n, o)' <=> OnAfter(1, o),
           NEW m \in 1 .. Len(todo)
    PROVE  FinallyOn(m + n - 1)' = FinallyOn(m)
<1>1. PICK x \in OCC : TRUE
  BY NAssumption DEF OCC
<1>2. /\ \A o : o # x => (o \in FinallyOn(m + n - 1)' <=> o \in FinallyOn(m))
      /\ HasSet(todo, 2, m, x)
            => (x \in FinallyOn(m + n - 1)' <=> x \in FinallyOn(m))
      /\ ~ HasSet(todo, 2, m, x)
            => /\ x \in FinallyOn(m + n - 1)' <=> OnAfter(n, x)'
               /\ x \in FinallyOn(m) <=> OnAfter(1, x)
  BY FinallyKept
<1>3. ASSUME NEW A, NEW B, \A o : o # x => (o \in A <=> o \in B),
             x \in A <=> x \in B
      PROVE  A = B
  <2>1. \A e : e \in A <=> e \in B
    BY <1>3
  <2>2. QED
    BY <2>1
<1>4. x \in FinallyOn(m + n - 1)' <=> x \in FinallyOn(m)
  BY <1>2
<1>5. QED
  BY <1>2, <1>3, <1>4

-----------------------------------------------------------------------------
(* The handlers that leave occActive alone                                   *)

\* What only the handlers of a Status object call, or no handler at all
Inner == {"setActive", "setInactive", "resetOCC", "wentActive", "wentInactive",
          "unbind", "hostPoweredOff"}

\* An activation is taken from the queue.
Dequeues(o) ==
    /\ o \in queuedActiveState \cap statusObjects /\ ~ occActive[o]
    /\ queuedActiveState' = queuedActiveState \ {o}
    /\ waitingForAllOccActiveSensors' = waitingForAllOccActiveSensors
    /\ Head(todo).fn \in {"checkSensor", "validateOcc"}

\* What the other handlers call, one by one and in sequence
OuterFn(f) ==
    /\ f \notin Inner
    /\ Head(todo).fn \in OfReset /\ ~ waitingForAllOccActiveSensors => f \in OfReset
    /\ waitingForAllOccActiveSensors' /\ f \in MayEnd
          => Head(todo).fn \in MayEnd \ Reset
    /\ f = "clearQueue" => ~ waitingForAllOccActiveSensors'
Outer(s) ==
    /\ s \in Seq(Frame)
    /\ s # <<>> => Head(todo).fn \notin Silent
    /\ \A k \in 1 .. Len(s) : OuterFn(s[k].fn)
    /\ \A k \in 2 .. Len(s) : s[k].fn \notin AtHead
    /\ Len(s) > 0 /\ s[1].fn = "activate" => Dequeues(s[1].occ)
    /\ \A k \in 1 .. Len(s) : s[k].fn = "clearQueue"
          => \A j \in 1 .. (k - 1) : s[j].fn \in OfReset

\* The functions of a Status object that assign occActive or call those that do
InStatus == {"activate", "deactivate", "setActive", "setInactive", "deviceError",
             "resetOCC"}

\* Lists of calls that a handler outside of the Status objects may make
LEMMA NoneOuter == Outer(<<>>)
<1>1. <<>> \in Seq(Frame) /\ Len(<<>>) = 0
  OBVIOUS
<1>2. QED
  BY <1>1 DEF Outer

LEMMA OneOuter ==
    ASSUME NEW f \in Frame, OuterFn(f.fn), f.fn # "activate",
           Head(todo).fn \notin Silent
    PROVE  Outer(<<f>>)
<1>1. <<f>> \in Seq(Frame) /\ Len(<<f>>) = 1 /\ <<f>>[1] = f
  OBVIOUS
<1>2. QED
  BY <1>1 DEF Outer

LEMMA TwoOuter ==
    ASSUME NEW f \in Frame, NEW g \in Frame, OuterFn(f.fn), OuterFn(g.fn),
           Head(todo).fn \notin Silent, g.fn \notin AtHead,
           f.fn = "activate" => Dequeues(f.occ), g.fn # "clearQueue"
    PROVE  Outer(<<f, g>>)
<1>1. /\ <<f, g>> \in Seq(Frame) /\ Len(<<f, g>>) = 2
      /\ <<f, g>>[1] = f /\ <<f, g>>[2] = g
  OBVIOUS
<1>2. 1 .. 2 = {1, 2} /\ 2 .. 2 = {2} /\ 1 .. (1 - 1) = {}
  OBVIOUS
<1>3. QED
  BY <1>1, <1>2 DEF Outer

LEMMA ThreeOuter ==
    ASSUME NEW f \in Frame, NEW g \in Frame, NEW h \in Frame,
           OuterFn(f.fn), OuterFn(g.fn), OuterFn(h.fn),
           Head(todo).fn \notin Silent, {g.fn, h.fn} \cap AtHead = {},
           f.fn # "activate", g.fn # "clearQueue",
           h.fn = "clearQueue" => {f.fn, g.fn} \subseteq OfReset
    PROVE  Outer(<<f, g, h>>)
<1>1. /\ <<f, g, h>> \in Seq(Frame) /\ Len(<<f, g, h>>) = 3
      /\ <<f, g, h>>[1] = f /\ <<f, g, h>>[2] = g /\ <<f, g, h>>[3] = h
  OBVIOUS
<1>2. 1 .. 3 = {1, 2, 3} /\ 2 .. 3 = {2, 3} /\ 1 .. (1 - 1) = {}
      /\ 1 .. (3 - 1) = {1, 2}
  OBVIOUS
<1>3. QED
  BY <1>1, <1>2 DEF Outer

LEMMA FourOuter ==
    ASSUME NEW f \in Frame, NEW g \in Frame, NEW h \in Frame, NEW i \in Frame,
           OuterFn(f.fn), OuterFn(g.fn), OuterFn(h.fn), OuterFn(i.fn),
           Head(todo).fn \notin Silent, {g.fn, h.fn, i.fn} \cap AtHead = {},
           f.fn # "activate", "clearQueue" \notin {g.fn, h.fn, i.fn}
    PROVE  Outer(<<f, g, h, i>>)
<1>1. /\ <<f, g, h, i>> \in Seq(Frame) /\ Len(<<f, g, h, i>>) = 4
      /\ <<f, g, h, i>>[1] = f /\ <<f, g, h, i>>[2] = g
      /\ <<f, g, h, i>>[3] = h /\ <<f, g, h, i>>[4] = i
  OBVIOUS
<1>2. 1 .. 4 = {1, 2, 3, 4} /\ 2 .. 4 = {2, 3, 4} /\ 1 .. (1 - 1) = {}
  OBVIOUS
<1>3. QED
  BY <1>1, <1>2 DEF Outer

\* Every handler but those of a Status object makes such calls.
LEMMA StepOuter ==
    ASSUME TypeOK, Step, Head(todo).fn \notin InStatus
    PROVE  \E s : Outer(s) /\ Calls(s)
<1> DEFINE Goal == \E s : Outer(s) /\ Calls(s)
<1>0. todo \in Seq(Frame) /\ todo # <<>>
  BY StepRuns DEF TypeOK
<1>1. Return => Goal
  <2>1. Return => Calls(<<>>)
    BY <1>0 DEF Return, Calls
  <2>2. QED
    BY <2>1, NoneOuter
<1>2. \A s : Outer(s) /\ Calls(s) => Goal
  OBVIOUS
<1> SUFFICES Goal
  OBVIOUS
<1> HIDE DEF Goal
<1>3. /\ arg \in Instance /\ resetInstance \in Instance /\ NoInstance \in Instance
      /\ Head(todo).fn \in OccCalls => self \in OCC
      /\ Head(todo).fn \in LoopCalls => self \in 0 .. N
      /\ Head(todo).fn \in ManagerCalls => self \in Instance
  BY <1>0, HeadType DEF TypeOK, DataOK, Instance
<1>4. /\ 0 \in 0 .. N
      /\ \A o \in OCC : o \in 0 .. N /\ o + 1 \in 0 .. N
      /\ \A o \in 0 .. N : o # N => o \in OCC
  BY NAssumption DEF OCC
<1>p. \A p, c \in Frame : <<>> \o <<p, c>> = <<p, c>>
  OBVIOUS
<1>q. \A p, c, v \in Frame : <<v>> \o <<p, c>> = <<v, p, c>>
  BY AppendPair, ZenonT(20)
<1>r. \A p, c, i, r \in Frame : <<i, r>> \o <<p, c>> = <<i, r, p, c>>
  BY AppendPair, ZenonT(20)
<1> USE CallType, Call2Type, CallFn
        DEF OccCalls, LoopCalls, ManagerCalls, Running, OuterFn, Inner, OfReset,
            MayEnd, Reset, Ending, AtHead, Silent
<1>5. CASE WentActive
  <2>1. CASE resetInProgress
    BY <1>1, <1>5, <2>1 DEF WentActive
  <2>2. CASE ~ resetInProgress
    <3> DEFINE i == Call("initiateOccRequest", resetInstance)
               r == Call("restartWait", NoInstance)
               v == Call("validateOcc", 0)
               p == Call("startPoll", self)
               c == Call("checkWaiting", self)
    <3>1. Head(todo).fn = "wentActive" /\ self \in OCC
      BY <1>3, <1>5 DEF WentActive
    <3>2. {i, r, v, p, c} \subseteq Frame
      BY <1>3, <1>4, <3>1
    <3>3. /\ i.fn = "initiateOccRequest" /\ r.fn = "restartWait"
          /\ v.fn = "validateOcc" /\ p.fn = "startPoll" /\ c.fn = "checkWaiting"
      BY CallFn, Zenon
    <3>4. Calls(<<p, c>>) \/ Calls(<<v, p, c>>) \/ Calls(<<i, r, p, c>>)
      <4>1. PICK count : Calls(AfterCount(count))
        BY <1>5, <2>2 DEF WentActive
      <4> HIDE DEF i, r, v, p, c
      <4>2. /\ <<>> \o <<p, c>> = <<p, c>>
            /\ <<v>> \o <<p, c>> = <<v, p, c>>
            /\ <<i, r>> \o <<p, c>> = <<i, r, p, c>>
        BY <1>p, <1>q, <1>r, <3>2
      <4>3. AfterCount(count) \in {<<p, c>>, <<v, p, c>>, <<i, r, p, c>>}
        BY <4>2, Zenon DEF AfterCount, i, r, v, p, c
      <4>4. QED
        BY <4>1, <4>3
    <3> HIDE DEF i, r, v, p, c
    <3>5. Outer(<<p, c>>)
      BY <3>1, <3>2, <3>3, TwoOuter
    <3>6. Outer(<<v, p, c>>)
      BY <3>1, <3>2, <3>3, ThreeOuter
    <3>7. Outer(<<i, r, p, c>>)
      <4>1. /\ OuterFn(i.fn) /\ OuterFn(r.fn) /\ OuterFn(p.fn) /\ OuterFn(c.fn)
            /\ {r.fn, p.fn, c.fn} \cap AtHead = {} /\ i.fn # "activate"
            /\ "clearQueue" \notin {r.fn, p.fn, c.fn}
        BY <3>1, <3>2, <3>3
      <4>2. QED
        BY <3>1, <3>2, <4>1, FourOuter
    <3>8. QED
      BY <1>2, <3>4, <3>5, <3>6, <3>7
  <2>3. QED
    BY <2>1, <2>2
<1>6. CASE StartPoll
  <2>1. CASE pollTimer
    BY <1>1, <1>6, <2>1 DEF StartPoll, ReturnOr
  <2>2. CASE ~ pollTimer
    <3>1. Calls(<<Call("pollerTimerExpired", NoInstance)>>)
      BY <1>6, <2>2 DEF StartPoll, ReturnOr
    <3>2. Outer(<<Call("pollerTimerExpired", NoInstance)>>)
      BY <1>3, <1>6, OneOuter DEF StartPoll
    <3>3. QED
      BY <1>2, <3>1, <3>2
  <2>3. QED
    BY <2>1, <2>2
<1>7. CASE RestartWait \/ ClearQueue \/ ResetOccRequest \/ ResetSent
            \/ HostPoweredOff \/ Unbind \/ ClearEnd
  BY <1>1, <1>7 DEF RestartWait, ClearQueue, ResetOccRequest, ResetSent,
                    HostPoweredOff, Unbind, ClearEnd
<1>8. CASE WentInactive
  <2>1. Calls(<<Call("checkWaiting", self)>>)
    BY <1>8 DEF WentInactive
  <2>2. Outer(<<Call("checkWaiting", self)>>)
    BY <1>3, <1>8, OneOuter DEF WentInactive
  <2>3. QED
    BY <1>2, <2>1, <2>2
<1>9. CASE CheckWaiting
  <2>1. CASE ~ (waitingForAllOccActiveSensors /\ hostRunning)
    BY <1>1, <1>9, <2>1 DEF CheckWaiting, ReturnOr
  <2>2. CASE waitingForAllOccActiveSensors /\ hostRunning
    <3>1. Calls(<<Call("checkSensor", 0)>>)
      BY <1>9, <2>2 DEF CheckWaiting, ReturnOr, CheckAllActiveSensors
    <3>2. Outer(<<Call("checkSensor", 0)>>)
      BY <1>4, <1>9, <2>2, OneOuter DEF CheckWaiting
    <3>3. QED
      BY <1>2, <3>1, <3>2
  <2>3. QED
    BY <2>1, <2>2
<1>10. CASE CheckSensor
  <2> DEFINE next == Call("checkSensor", self + 1)
             e == Call("checkAllEnd", NoInstance)
             a == Call("activate", self)
  <2>1. Head(todo).fn = "checkSensor" /\ self \in 0 .. N
    BY <1>3, <1>10 DEF CheckSensor
  <2>2. /\ e \in Frame /\ e.fn = "checkAllEnd" /\ next.fn = "checkSensor"
        /\ a.fn = "activate" /\ a.occ = self
        /\ self \in OCC => next \in Frame /\ a \in Frame
    BY <1>3, <1>4 DEF Call, Call2
  <2>3. \/ self \in OCC /\ Calls(<<next>>)
        \/ self \in OCC /\ Calls(<<a, next>>) /\ Dequeues(self)
        \/ Calls(<<e>>)
    BY <1>10 DEF CheckSensor, Dequeues, TypeOK, DataOK
  <2> HIDE DEF next, e, a
  <2>4. self \in OCC => Outer(<<next>>)
    BY <2>1, <2>2, OneOuter
  <2>5. Outer(<<e>>)
    BY <2>1, <2>2, OneOuter
  <2>6. self \in OCC /\ Dequeues(self) => Outer(<<a, next>>)
    BY <2>1, <2>2, TwoOuter
  <2>7. QED
    BY <1>2, <2>3, <2>4, <2>5, <2>6
<1>11. CASE CheckAllEnd
  <2> DEFINE i == Call("initiateOccRequest", resetInstance)
             r == Call("restartWait", NoInstance)
             q == Call("clearQueue", NoInstance)
  <2>1. CASE ~ allActiveSensorAvailable
    BY <1>1, <1>11, <2>1 DEF CheckAllEnd
  <2>2. CASE allActiveSensorAvailable
    <3>1. Head(todo).fn = "checkAllEnd" /\ ~ waitingForAllOccActiveSensors'
      BY <1>11, <2>2 DEF CheckAllEnd
    <3>2. /\ {i, r, q} \subseteq Frame
          /\ i.fn = "initiateOccRequest" /\ r.fn = "restartWait"
          /\ q.fn = "clearQueue"
      BY <1>3
    <3>3. Calls(<<i, r, q>>) \/ Calls(<<q>>)
      BY <1>11, <2>2 DEF CheckAllEnd
    <3> HIDE DEF i, r, q
    <3>4. Outer(<<i, r, q>>)
      BY <3>1, <3>2, ThreeOuter
    <3>5. Outer(<<q>>)
      BY <3>1, <3>2, OneOuter
    <3>6. QED
      BY <1>2, <3>3, <3>4, <3>5
  <2>3. QED
    BY <2>1, <2>2
<1>12. CASE InitiateOccRequest
  <2>1. CASE resetInProgress
    BY <1>1, <1>12, <2>1 DEF InitiateOccRequest
  <2>2. CASE ~ resetInProgress
    <3>1. Calls(<<Call2("stopOccs", 0, self)>>)
      BY <1>12, <2>2 DEF InitiateOccRequest
    <3> DEFINE c == Call2("stopOccs", 0, self)
    <3>2. Head(todo).fn = "initiateOccRequest" /\ c \in Frame /\ c.fn = "stopOccs"
      BY <1>3, <1>4, <1>12 DEF InitiateOccRequest
    <3> HIDE DEF c
    <3>3. Outer(<<c>>)
      BY <3>2, OneOuter
    <3>4. QED
      BY <1>2, <3>1, <3>3 DEF c
  <2>3. QED
    BY <2>1, <2>2
<1>13. CASE StopOccs
  <2> DEFINE p == Call("pldmResetOCC", arg)
             d == Call("deactivate", self)
             next == Call2("stopOccs", self + 1, arg)
  <2>1. Head(todo).fn = "stopOccs" /\ self \in 0 .. N
    BY <1>3, <1>13 DEF StopOccs
  <2>2. /\ p \in Frame /\ p.fn = "pldmResetOCC" /\ d.fn = "deactivate"
        /\ next.fn = "stopOccs"
        /\ self # N => next \in Frame /\ d \in Frame
    BY <1>3, <1>4, <2>1
  <2>3. \/ Calls(<<p>>)
        \/ self # N /\ (Calls(<<d, next>>) \/ Calls(<<next>>))
    BY <1>13, <2>1 DEF StopOccs
  <2> HIDE DEF p, d, next
  <2>4. Outer(<<p>>) /\ (self # N => Outer(<<next>>))
    BY <2>1, <2>2, OneOuter
  <2>5. self # N => Outer(<<d, next>>)
    BY <2>1, <2>2, TwoOuter
  <2>6. QED
    BY <1>2, <2>3, <2>4, <2>5
<1>14. CASE PldmResetOCC
  <2> DEFINE c == Call("clearData", 0)
             r == Call("resetSent", self)
  <2>1. /\ Head(todo).fn = "pldmResetOCC"
        /\ {c, r} \subseteq Frame /\ c.fn = "clearData" /\ r.fn = "resetSent"
    BY <1>3, <1>4, <1>14 DEF PldmResetOCC
  <2>2. Calls(<<r>>) \/ Calls(<<c, r>>)
    BY <1>14 DEF PldmResetOCC
  <2> HIDE DEF c, r
  <2>3. Outer(<<r>>)
    BY <2>1, OneOuter
  <2>4. Outer(<<c, r>>)
    BY <2>1, TwoOuter
  <2>5. QED
    BY <1>2, <2>2, <2>3, <2>4
<1>15. CASE PollerTimerExpired
  <2> DEFINE i == Call("initiateOccRequest", resetInstance)
             r == Call("restartWait", NoInstance)
             p == Call("pollOcc", 0)
  <2>1. /\ Head(todo).fn = "pollerTimerExpired" /\ {i, r, p} \subseteq Frame
        /\ i.fn = "initiateOccRequest" /\ r.fn = "restartWait" /\ p.fn = "pollOcc"
    BY <1>3, <1>4, <1>15 DEF PollerTimerExpired
  <2>2. Calls(<<p>>) \/ Calls(<<i, r>>)
    BY <1>15 DEF PollerTimerExpired
  <2> HIDE DEF i, r, p
  <2>3. Outer(<<p>>)
    BY <2>1, OneOuter
  <2>4. Outer(<<i, r>>)
    BY <2>1, TwoOuter
  <2>5. QED
    BY <1>2, <2>2, <2>3, <2>4
<1>16. CASE PollOcc
  <2> DEFINE d == Call("deviceError", self)
             next == Call("pollOcc", self + 1)
  <2>0. self \in statusObjects => self \in OCC
    BY DEF TypeOK, DataOK
  <2>1. /\ Head(todo).fn = "pollOcc" /\ d.fn = "deviceError" /\ next.fn = "pollOcc"
        /\ self \in OCC => {d, next} \subseteq Frame
    BY <1>3, <1>4, <1>16 DEF PollOcc
  <2>2. \/ Return
        \/ self \in OCC /\ (Calls(<<next>>) \/ Calls(<<d, next>>))
    BY <1>16, <2>0 DEF PollOcc
  <2> HIDE DEF d, next
  <2>3. self \in OCC => Outer(<<next>>)
    BY <2>1, OneOuter
  <2>4. self \in OCC => Outer(<<d, next>>)
    BY <2>1, TwoOuter
  <2>5. QED
    BY <1>1, <1>2, <2>2, <2>3, <2>4
<1>17. CASE ValidateOcc
  <2> DEFINE check == Call2("validateMaster", self, arg)
             a == Call("activate", self)
             d(o) == Call("deviceError", o)
  <2>1. /\ Head(todo).fn = "validateOcc" /\ self \in 0 .. N
        /\ check.fn = "validateMaster" /\ a.fn = "activate" /\ a.occ = self
        /\ self \in OCC => {check, a} \subseteq Frame
        /\ \A o \in OCC : d(o) \in Frame /\ d(o).fn = "deviceError"
    BY <1>3, <1>17 DEF ValidateOcc, Call, Call2
  <2>2. \/ Return
        \/ self \in OCC /\ Calls(<<check>>)
        \/ self \in OCC /\ Calls(<<a, check>>) /\ Dequeues(self)
        \/ \E o \in OCC : Calls(<<d(o)>>)
    BY <1>17 DEF ValidateOcc, Dequeues, TypeOK, DataOK
  <2> HIDE DEF check, a, d
  <2>3. self \in OCC => Outer(<<check>>)
    BY <2>1, OneOuter
  <2>4. self \in OCC /\ Dequeues(self) => Outer(<<a, check>>)
    BY <2>1, TwoOuter
  <2>5. \A o \in OCC : Outer(<<d(o)>>)
    BY <2>1, OneOuter
  <2>6. QED
    BY <1>1, <1>2, <2>2, <2>3, <2>4, <2>5
<1>18. CASE ValidateMaster
  <2> DEFINE d == Call("deviceError", self)
             next(m) == Call2("validateOcc", self + 1, m)
  <2>1. Head(todo).fn = "validateMaster" /\ self \in OCC /\ d \in Frame
        /\ d.fn = "deviceError"
    BY <1>3, <1>18 DEF ValidateMaster
  <2>2. \A m \in Instance : next(m) \in Frame /\ next(m).fn = "validateOcc"
    BY <1>4, <2>1
  <2>3. arg \in Instance /\ self \in Instance
    BY <1>3, <2>1 DEF Instance
  <2>4. \/ \E m \in Instance : Calls(<<next(m)>>)
        \/ Calls(<<d, next(arg)>>)
    BY <1>18, <2>3 DEF ValidateMaster
  <2> HIDE DEF d, next
  <2>5. \A m \in Instance : Outer(<<next(m)>>)
    BY <2>1, <2>2, OneOuter
  <2>6. Outer(<<d, next(arg)>>)
    BY <2>1, <2>2, <2>3, TwoOuter
  <2>7. QED
    BY <1>2, <2>4, <2>5, <2>6
<1>19. CASE UpdateOCCInactive
  <2>1. /\ Head(todo).fn = "updateOCCInactive" /\ Call("deactivate", self) \in Frame
        /\ Return \/ Calls(<<Call("deactivate", self)>>)
    BY <1>3, <1>19 DEF UpdateOCCInactive
  <2>2. Outer(<<Call("deactivate", self)>>)
    BY <2>1, OneOuter
  <2>3. QED
    BY <1>1, <1>2, <2>1, <2>2
<1>20. CASE ClearNext
  <2> DEFINE u == Call("updateOCCInactive", self)
             next == Call("clearData", self + 1)
  <2>1. /\ Head(todo).fn = "clearData" /\ {u, next} \subseteq Frame
        /\ u.fn = "updateOCCInactive" /\ next.fn = "clearData"
        /\ Calls(<<u, next>>)
    BY <1>4, <1>20 DEF ClearNext
  <2> HIDE DEF u, next
  <2>2. Outer(<<u, next>>)
    BY <2>1, TwoOuter
  <2>3. QED
    BY <1>2, <2>1, <2>2
<1>21. CASE SendHRESET
  <2>1. /\ Head(todo).fn = "sendHRESET" /\ Call("clearData", 0) \in Frame
        /\ Return \/ Calls(<<Call("clearData", 0)>>)
    BY <1>4, <1>21 DEF SendHRESET
  <2>2. Outer(<<Call("clearData", 0)>>)
    BY <2>1, OneOuter
  <2>3. QED
    BY <1>1, <1>2, <2>1, <2>2
<1>22. ~ (Activate \/ Deactivate \/ SetProperty \/ DeviceError \/ ResetOCC)
  BY DEF InStatus, Activate, Deactivate, SetProperty, DeviceError, ResetOCC
<1>23. QED
  BY <1>5, <1>6, <1>7, <1>8, <1>9, <1>10, <1>11, <1>12, <1>13, <1>14, <1>15,
     <1>16, <1>17, <1>18, <1>19, <1>20, <1>21, <1>22 DEF Step, ClearData

\* The calls that the handlers of a Status object make, and what becomes of
\* occActive
Inside(s) ==
    \/ /\ Head(todo).fn = "activate" /\ occActive[self]
       /\ s = <<Call("setActive", self)>>
       /\ occActive' = occActive
    \/ /\ Head(todo).fn = "activate" /\ ~ occActive[self]
       /\ s = <<Call("wentActive", self), Call("setActive", self)>>
       /\ occActive' = [occActive EXCEPT ![self] = TRUE]
    \/ /\ Head(todo).fn = "activate"
       /\ s = <<Call("deviceError", self), Call("setInactive", self)>>
       /\ occActive' = occActive
    \/ /\ Head(todo).fn = "deactivate" /\ occActive[self]
       /\ s = <<Call("wentInactive", self), Call("unbind", self),
                Call("setInactive", self)>>
       /\ occActive' = occActive
    \/ /\ Head(todo).fn = "deactivate" /\ ~ occActive[self]
       /\ s = <<Call("setInactive", self)>>
       /\ occActive' = occActive
    \/ /\ IsSet(Head(todo))
       /\ s = <<>>
       /\ occActive' = [occActive EXCEPT ![self] = Head(todo).fn = "setActive"]
    \/ /\ Head(todo).fn = "deviceError"
       /\ s = <<Call("deactivate", self), Call("resetOCC", self)>>
       /\ occActive' = occActive
    \/ /\ Head(todo).fn = "resetOCC"
       /\ s = <<Call("deactivate", self), Call("resetOccRequest", self)>>
       /\ occActive' = occActive

\* What a call is a call of
LEMMA CallIs == \A f, o : Call(f, o).fn = f /\ Call(f, o).occ = o
BY DEF Call, Call2

\* The handlers of a Status object make the calls that Inside lists.
LEMMA StepInside ==
    ASSUME TypeOK, Step, Head(todo).fn \in InStatus
    PROVE  /\ self \in OCC
           /\ \E s \in Seq(Frame) : Inside(s) /\ Calls(s)
           /\ UNCHANGED <<statusObjects, queuedActiveState,
                          waitingForAllOccActiveSensors, activeCount>>
<1>1. todo \in Seq(Frame) /\ todo # <<>> /\ self \in OCC
  BY StepRuns, HeadType DEF TypeOK, InStatus, OccCalls
<1>2. occActive \in [OCC -> BOOLEAN]
  BY DEF TypeOK, DataOK
<1>3. /\ Call("setActive", self) \in Frame /\ Call("wentActive", self) \in Frame
      /\ Call("deviceError", self) \in Frame /\ Call("setInactive", self) \in Frame
      /\ Call("wentInactive", self) \in Frame /\ Call("unbind", self) \in Frame
      /\ Call("deactivate", self) \in Frame /\ Call("resetOCC", self) \in Frame
      /\ Call("resetOccRequest", self) \in Frame
  BY <1>1, CallType DEF OccCalls
<1>4. /\ <<>> \in Seq(Frame)
      /\ <<Call("setActive", self)>> \in Seq(Frame)
      /\ <<Call("wentActive", self), Call("setActive", self)>> \in Seq(Frame)
      /\ <<Call("deviceError", self), Call("setInactive", self)>> \in Seq(Frame)
      /\ <<Call("wentInactive", self), Call("unbind", self),
           Call("setInactive", self)>> \in Seq(Frame)
      /\ <<Call("setInactive", self)>> \in Seq(Frame)
      /\ <<Call("deactivate", self), Call("resetOCC", self)>> \in Seq(Frame)
      /\ <<Call("deactivate", self), Call("resetOccRequest", self)>> \in Seq(Frame)
  BY <1>3
<1> DEFINE Goal == \E s \in Seq(Frame) : Inside(s) /\ Calls(s)
<1>5. \A s \in Seq(Frame) : Inside(s) /\ Calls(s) => Goal
  OBVIOUS
<1>6. Activate \/ Deactivate \/ SetProperty \/ DeviceError \/ ResetOCC
  BY DEF InStatus, Step, Running, Unbind, WentActive, StartPoll, RestartWait,
         WentInactive, CheckWaiting, CheckSensor, CheckAllEnd, ClearQueue,
         ResetOccRequest, InitiateOccRequest, StopOccs, PldmResetOCC, ResetSent,
         PollerTimerExpired, PollOcc, ValidateOcc, ValidateMaster,
         UpdateOCCInactive, ClearData, ClearNext, ClearEnd, SendHRESET,
         HostPoweredOff
<1>7. UNCHANGED <<statusObjects, queuedActiveState,
                   waitingForAllOccActiveSensors, activeCount>>
  BY <1>6 DEF Activate, Deactivate, SetProperty, DeviceError, ResetOCC,
               mgrVars, sensorVars, pollVars
<1> SUFFICES Goal
  BY <1>1, <1>7
<1> HIDE DEF Goal
<1>8. CASE Activate
  <2>1. Head(todo).fn = "activate"
    BY <1>8 DEF Activate, Running
  <2>2. \/ occActive[self] /\ Calls(<<Call("setActive", self)>>)
              /\ occActive' = occActive
        \/ ~ occActive[self]
              /\ Calls(<<Call("wentActive", self), Call("setActive", self)>>)
              /\ occActive' = [occActive EXCEPT ![self] = TRUE]
        \/ Calls(<<Call("deviceError", self), Call("setInactive", self)>>)
              /\ occActive' = occActive
    <3>1. CASE occActive[self] /\ DeviceActive(self)
      BY <1>8, <3>1 DEF Activate, occVars
    <3>2. CASE ~ (occActive[self] /\ DeviceActive(self))
      <4>1. PICK ok \in BOOLEAN :
               /\ occActive' = [occActive EXCEPT ![self] = @ \/ ok]
               /\ Calls(AfterWatch(self, ok))
        BY <1>8, <3>2 DEF Activate, AddWatchResults
      <4>2. CASE ~ ok
        <5>1. occActive' = occActive
          BY <1>1, <1>2, <4>1, <4>2
        <5>2. QED
          BY <4>1, <4>2, <5>1 DEF AfterWatch
      <4>3. CASE ok /\ occActive[self]
        <5>1. occActive' = occActive
          BY <1>1, <1>2, <4>1, <4>3
        <5>2. QED
          BY <4>1, <4>3, <5>1 DEF AfterWatch
      <4>4. CASE ok /\ ~ occActive[self]
        <5>1. occActive' = [occActive EXCEPT ![self] = TRUE]
          BY <1>1, <1>2, <4>1, <4>4
        <5>2. QED
          BY <4>1, <4>4, <5>1 DEF AfterWatch
      <4>5. QED
        BY <4>2, <4>3, <4>4
    <3>3. QED
      BY <3>1, <3>2
  <2>3. QED
    BY <1>4, <1>5, <2>1, <2>2 DEF Inside
<1>9. CASE Deactivate
  <2>1. CASE occActive[self]
    BY <1>4, <1>9, <1>5, <2>1 DEF Deactivate, Running, Inside, occVars
  <2>2. CASE ~ occActive[self]
    BY <1>4, <1>9, <1>5, <2>2 DEF Deactivate, Running, Inside, occVars
  <2>3. QED
    BY <2>1, <2>2
<1>10. CASE SetProperty
  <2>1. Calls(<<>>)
    BY <1>1, <1>10 DEF SetProperty, Return, Calls
  <2>2. Inside(<<>>)
    BY <1>10 DEF SetProperty, Running, Inside, IsSet
  <2>3. QED
    BY <1>4, <1>5, <2>1, <2>2
<1>11. CASE DeviceError
  BY <1>4, <1>5, <1>11 DEF DeviceError, Running, Inside, occVars
<1>12. CASE ResetOCC
  BY <1>4, <1>5, <1>12 DEF ResetOCC, Running, Inside, occVars
<1>13. QED
  BY <1>8, <1>9, <1>10, <1>11, <1>12, <1>6

\* What the other handlers do to the count and to the queue
LEMMA OuterData ==
    ASSUME TypeOK, Step, Head(todo).fn \notin InStatus
    PROVE  /\ occActive' = occActive /\ statusObjects' = statusObjects
           /\ queuedActiveState' \subseteq queuedActiveState
           /\ waitingForAllOccActiveSensors' => waitingForAllOccActiveSensors
           /\ activeCount' <= Counting + Owed(0)
<1> USE DEF Running, InStatus, mgrVars, sensorVars, pollVars, occVars
<1>1. /\ todo # <<>> /\ activeCount \in Nat
      /\ activeCount = Counting \/ Head(todo).fn = "wentInactive"
      /\ Owed(0) = IF Head(todo).fn = "wentActive" THEN 1 ELSE 0
  <2>1. 1 .. 0 = {}
    OBVIOUS
  <2>2. ~ HasSet(todo, 1, 0, Head(todo).occ)
    BY <2>1 DEF HasSet
  <2>3. QED
    BY <2>2, StepRuns DEF TypeOK, DataOK, Counting, Owed, HeadIs
<1>2. CASE WentActive
  <2>1. activeCount' \in {activeCount, activeCount + 1}
    BY <1>2 DEF WentActive
  <2>2. Head(todo).fn = "wentActive"
    BY <1>2 DEF WentActive
  <2>3. UNCHANGED <<mgrVars, sensorVars, occVars>>
    BY <1>2 DEF WentActive
  <2>4. QED
    BY <1>1, <2>1, <2>2, <2>3
<1>3. CASE WentInactive
  <2>1. activeCount' = Counting
    BY <1>1, <1>3 DEF WentInactive, Counting, HeadIs
  <2>2. Counting \in Nat
    BY <1>1, <1>3 DEF Counting, HeadIs, WentInactive, OneLess
  <2>3. UNCHANGED <<mgrVars, sensorVars, occVars>>
    BY <1>3 DEF WentInactive
  <2>4. QED
    BY <1>1, <2>1, <2>2, <2>3
<1>4. CASE ~ WentActive /\ ~ WentInactive
  <2>1. /\ Head(todo).fn # "wentInactive" /\ Head(todo).fn # "wentActive"
        /\ UNCHANGED <<activeCount, occActive, statusObjects>>
        /\ queuedActiveState' \subseteq queuedActiveState
        /\ waitingForAllOccActiveSensors' => waitingForAllOccActiveSensors
    BY <1>4 DEF Step, Activate, Deactivate, SetProperty, DeviceError, ResetOCC,
         Unbind, StartPoll, RestartWait, CheckWaiting, CheckSensor,
         CheckAllEnd, ClearQueue, ResetOccRequest, InitiateOccRequest, StopOccs,
         PldmResetOCC, ResetSent, PollerTimerExpired, PollOcc, ValidateOcc,
         ValidateMaster, UpdateOCCInactive, ClearData, ClearNext, ClearEnd,
         SendHRESET, HostPoweredOff
  <2>2. QED
    BY <1>1, <2>1
<1>5. QED
  BY <1>2, <1>3, <1>4

\* What all those lists have in common
LEMMA InsideShape ==
    ASSUME NEW s, Inside(s)
    PROVE  /\ \A k \in 2 .. Len(s) : s[k].fn \notin AtHead
           /\ \A k \in 1 .. Len(s) : s[k].fn \notin {"clearQueue", "activate", "hostPoweredOff"}
           /\ \A k \in 1 .. (Len(s) - 1) : ~ IsSet(s[k])
           /\ \A k \in 1 .. Len(s) : s[k].occ = self
           /\ \A k \in 1 .. Len(s) : Head(todo).fn = "deactivate" => s[k].fn \in OfReset
           /\ \A k \in 1 .. Len(s) : s[k].fn = "resetOCC"
                 => k = 2 /\ Len(s) = 2 /\ s[1].fn = "deactivate"
           /\ \A k \in 1 .. Len(s) : s[k].fn \in MayEnd
                 => \/ s[k].fn \in Reset
                    \/ Len(s) = 2 /\ k = 1 /\ s[2].fn = "setActive"
           /\ Len(s) = 0 \/ IsSet(s[Len(s)]) \/ Head(todo).fn \in {"deviceError", "resetOCC"}
<1>1. \A f, o : Call(f, o).fn = f /\ Call(f, o).occ = o
  BY CallIs
<1> USE DEF IsSet, AtHead, OfReset, MayEnd, Reset, Ending
<1>2. ASSUME NEW f, s = <<f>>
      PROVE  Len(s) = 1 /\ 1 .. Len(s) = {1} /\ 2 .. Len(s) = {}
             /\ 1 .. (Len(s) - 1) = {} /\ s[1] = f
  BY <1>2
<1>3. ASSUME NEW f, NEW g, s = <<f, g>>
      PROVE  Len(s) = 2 /\ 1 .. Len(s) = {1, 2} /\ 2 .. Len(s) = {2}
             /\ 1 .. (Len(s) - 1) = {1} /\ s[1] = f /\ s[2] = g
  BY <1>3
<1>4. ASSUME NEW f, NEW g, NEW h, s = <<f, g, h>>
      PROVE  Len(s) = 3 /\ 1 .. Len(s) = {1, 2, 3} /\ 2 .. Len(s) = {2, 3}
             /\ 1 .. (Len(s) - 1) = {1, 2} /\ s[1] = f /\ s[2] = g /\ s[3] = h
  BY <1>4
<1>5. CASE s = <<Call("setActive", self)>> /\ Head(todo).fn = "activate"
  BY <1>1, <1>2, <1>5
<1>6. CASE /\ s = <<Call("wentActive", self), Call("setActive", self)>>
           /\ Head(todo).fn = "activate"
  BY <1>1, <1>3, <1>6
<1>7. CASE /\ s = <<Call("deviceError", self), Call("setInactive", self)>>
           /\ Head(todo).fn = "activate"
  BY <1>1, <1>3, <1>7
<1>8. CASE s = <<Call("wentInactive", self), Call("unbind", self),
                 Call("setInactive", self)>>
  BY <1>1, <1>4, <1>8
<1>9. CASE s = <<Call("setInactive", self)>>
  BY <1>1, <1>2, <1>9
<1>10. CASE s = <<>>
  BY <1>10
<1>11. CASE /\ s = <<Call("deactivate", self), Call("resetOCC", self)>>
            /\ Head(todo).fn = "deviceError"
  BY <1>1, <1>3, <1>11
<1>12. CASE /\ s = <<Call("deactivate", self), Call("resetOccRequest", self)>>
            /\ Head(todo).fn = "resetOCC"
  BY <1>1, <1>3, <1>12
<1>13. QED
  BY <1>5, <1>6, <1>7, <1>8, <1>9, <1>10, <1>11, <1>12 DEF Inside

\* Both kinds of handlers
Makes(s) ==
    /\ s \in Seq(Frame) /\ Calls(s)
    /\ statusObjects' = statusObjects
    /\ queuedActiveState' \subseteq queuedActiveState
    /\ waitingForAllOccActiveSensors' => waitingForAllOccActiveSensors
    /\ \/ /\ Head(todo).fn \notin InStatus
          /\ Outer(s) /\ occActive' = occActive
          /\ activeCount' <= Counting + Owed(0)
       \/ /\ Head(todo).fn \in InStatus /\ self \in OCC
          /\ Inside(s) /\ activeCount' = activeCount
          /\ queuedActiveState' = queuedActiveState
          /\ waitingForAllOccActiveSensors' = waitingForAllOccActiveSensors

\* Every step of a handler makes calls of one kind or the other.
LEMMA StepMakes ==
    ASSUME TypeOK, Step
    PROVE  \E s : Makes(s)
<1>1. CASE Head(todo).fn \in InStatus
  <2>1. PICK s \in Seq(Frame) : Inside(s) /\ Calls(s)
    BY <1>1, StepInside
  <2>2. Makes(s)
    BY <1>1, <2>1, StepInside DEF Makes
  <2>3. QED
    BY <2>2
<1>2. CASE Head(todo).fn \notin InStatus
  <2>1. PICK s : Outer(s) /\ Calls(s)
    BY <1>2, StepOuter
  <2>2. Makes(s)
    BY <1>2, <2>1, OuterData DEF Makes, Outer
  <2>3. QED
    BY <2>2
<1>3. QED
  BY <1>1, <1>2

\* A pending assignment that comes next after a call of the new stack and was on
\* the old one came next after a call there, or after the head.
Carried(s, n, j, k, l) ==
    /\ todo'[k] = todo[l] /\ l = k - n + 1
    /\ j <= n => /\ NextSet(1, l) /\ todo'[j] = s[j]
                 /\ \A i \in (j + 1) .. n : ~ IsSet(s[i])
    /\ j > n => \E i \in 2 .. Len(todo) : NextSet(i, l) /\ todo'[j] = todo[i]

LEMMA NextSetKept ==
    ASSUME TypeOK, todo # <<>>, NEW s \in Seq(Frame), Calls(s),
           NEW n \in Nat, n = Len(s),
           NEW j \in 1 .. Len(todo'), NEW k \in 1 .. Len(todo'),
           NextSet(j, k)', k > n
    PROVE  \E l \in 2 .. Len(todo) : Carried(s, n, j, k, l)
<1>1. /\ Len(todo) \in Nat /\ Len(todo') = Len(todo) + n - 1
      /\ \A i \in 1 .. n : todo'[i] = s[i]
      /\ \A i \in (n + 1) .. Len(todo') :
            i - n + 1 \in 2 .. Len(todo) /\ todo'[i] = todo[i - n + 1]
      /\ \A i \in 2 .. Len(todo) : todo'[i + (n - 1)] = todo[i]
  BY CallsStack
<1>2. PICK l \in 2 .. Len(todo) : l = k - n + 1 /\ todo'[k] = todo[l]
  <2>1. k \in (n + 1) .. Len(todo')
    OBVIOUS
  <2>2. k - n + 1 \in 2 .. Len(todo) /\ todo'[k] = todo[k - n + 1]
    BY <1>1, <2>1
  <2>3. QED
    BY <2>2
<1>3. j < k /\ IsSet(todo'[k]) /\ \A i \in (j + 1) .. (k - 1) : ~ IsSet(todo'[i])
  BY DEF NextSet
<1>4. CASE j <= n
  <2>1. ASSUME NEW i \in (1 + 1) .. (l - 1) PROVE ~ IsSet(todo[i])
    <3>1. i \in 2 .. Len(todo) /\ i + (n - 1) \in (j + 1) .. (k - 1)
      BY <1>1, <1>2, <1>4
    <3>2. QED
      BY <1>1, <1>3, <3>1
  <2>2. NextSet(1, l)
    BY <1>2, <1>3, <2>1 DEF NextSet
  <2>3. ASSUME NEW i \in (j + 1) .. n PROVE ~ IsSet(s[i])
    <3>1. i \in 1 .. n /\ i \in (j + 1) .. (k - 1)
      BY <1>4
    <3>2. QED
      BY <1>1, <1>3, <3>1
  <2>4. todo'[j] = s[j]
    BY <1>1, <1>4
  <2>5. QED
    BY <1>2, <1>4, <2>2, <2>3, <2>4 DEF Carried
<1>5. CASE j > n
  <2>1. PICK i \in 2 .. Len(todo) : i = j - n + 1 /\ todo'[j] = todo[i]
    <3>1. j \in (n + 1) .. Len(todo')
      BY <1>1, <1>5
    <3>2. j - n + 1 \in 2 .. Len(todo) /\ todo'[j] = todo[j - n + 1]
      BY <1>1, <3>1
    <3>3. QED
      BY <3>2
  <2>2. ASSUME NEW h \in (i + 1) .. (l - 1) PROVE ~ IsSet(todo[h])
    <3>1. h \in 2 .. Len(todo)
      <4>1. h \in Int /\ h >= i + 1 /\ h <= l - 1
        OBVIOUS
      <4>2. i >= 2 /\ l <= Len(todo) /\ l \in Int /\ i \in Int /\ Len(todo) \in Int
        BY <1>1
      <4>3. QED
        BY <4>1, <4>2
    <3>2. h + (n - 1) \in (j + 1) .. (k - 1)
      BY <1>2, <2>1
    <3>3. QED
      BY <1>1, <1>3, <3>1, <3>2
  <2>3. NextSet(i, l)
    BY <1>2, <1>3, <2>1, <2>2 DEF NextSet
  <2>4. \E h \in 2 .. Len(todo) : NextSet(h, l) /\ todo'[j] = todo[h]
    BY <2>1, <2>3
  <2>5. ~ (j <= n)
    BY <1>5
  <2>6. QED
    BY <1>2, <2>4, <2>5 DEF Carried
<1>6. QED
  BY <1>4, <1>5

\* Every step keeps the calls that are only ever at the head there.
LEMMA HeadsStep ==
    ASSUME TypeOK, todo # <<>>, HeadsOnly, NEW s, Makes(s)
    PROVE  HeadsOnly'
<1>1. s \in Seq(Frame) /\ Calls(s)
  BY DEF Makes
<1>2. PICK n \in Nat : n = Len(s)
  BY <1>1
<1>3. /\ Len(todo') = Len(todo) + n - 1
      /\ \A i \in 1 .. n : todo'[i] = s[i]
      /\ \A i \in (n + 1) .. Len(todo') :
            i - n + 1 \in 2 .. Len(todo) /\ todo'[i] = todo[i - n + 1]
  BY <1>1, <1>2, CallsStack
<1>4. \A k \in 2 .. n : s[k].fn \notin AtHead
  BY <1>2, InsideShape DEF Makes, Outer
<1>5. ASSUME NEW j \in 2 .. Len(todo') PROVE todo'[j].fn \notin AtHead
  <2>1. CASE j <= n
    BY <1>3, <1>4, <2>1
  <2>2. CASE j > n
    <3>1. j \in (n + 1) .. Len(todo')
      BY <1>3, <2>2
    <3>2. PICK i \in 2 .. Len(todo) : todo'[j] = todo[i]
      BY <1>3, <3>1
    <3>3. QED
      BY <3>2 DEF HeadsOnly
  <2>3. QED
    BY <2>1, <2>2
<1>6. QED
  BY <1>5 DEF HeadsOnly

\* The head of the new stack is the first new call, or none of those that are
\* only ever there.
LEMMA NewHead ==
    ASSUME TypeOK, todo # <<>>, HeadsOnly, NEW s, Makes(s), todo' # <<>>
    PROVE  /\ s # <<>> => Len(s) > 0 /\ Head(todo') = s[1]
           /\ s = <<>> => /\ 2 \in 1 .. Len(todo) /\ Head(todo') = todo[2]
                          /\ Head(todo').fn \notin AtHead
           /\ Head(todo') = todo'[1] /\ Len(todo') > 0
<1>1. s \in Seq(Frame) /\ Calls(s)
  BY DEF Makes
<1>2. PICK n \in Nat : n = Len(s)
  BY <1>1
<1>3. /\ Len(todo') = Len(todo) + n - 1 /\ Len(todo) \in Nat
      /\ \A i \in 1 .. n : todo'[i] = s[i]
      /\ \A i \in (n + 1) .. Len(todo') :
            i - n + 1 \in 2 .. Len(todo) /\ todo'[i] = todo[i - n + 1]
      /\ Head(todo') = todo'[1]
  BY <1>1, <1>2, CallsStack
<1>4. Len(todo') > 0
  BY <1>1 DEF Calls, TypeOK
<1>5. CASE s = <<>>
  <2>1. n = 0
    BY <1>2, <1>5
  <2>2. 1 \in (n + 1) .. Len(todo') /\ 1 - n + 1 = 2
    BY <1>3, <1>4, <2>1
  <2>3. 2 \in 2 .. Len(todo) /\ todo'[1] = todo[2]
    BY <1>3, <2>2
  <2>4. QED
    BY <1>3, <1>4, <1>5, <2>3 DEF HeadsOnly
<1>6. CASE s # <<>>
  <2>1. n > 0 /\ 1 \in 1 .. n
    BY <1>1, <1>2, <1>6
  <2>2. QED
    BY <1>2, <1>3, <1>4, <1>6, <2>1
<1>7. QED
  BY <1>5, <1>6

\* An activation that is not all there is on the stack is of an OCC that was just
\* taken from the queue.
LEMMA FromQueueStep ==
    ASSUME TypeOK, todo # <<>>, HeadsOnly, NEW s, Makes(s)
    PROVE  FromQueue'
<1> SUFFICES ASSUME todo' # <<>>, Head(todo').fn = "activate"
             PROVE  LET o == Head(todo').occ
                    IN ~ occActive'[o] /\ o \notin queuedActiveState'
  BY DEF FromQueue, HeadIs, self
<1>1. s # <<>> /\ Len(s) > 0 /\ Head(todo') = s[1]
  BY NewHead DEF AtHead
<1>2. s \in Seq(Frame) /\ 1 \in 1 .. Len(s)
  BY <1>1 DEF Makes
<1>3. Outer(s) /\ occActive' = occActive
  BY <1>1, <1>2, InsideShape DEF Makes
<1>4. Dequeues(s[1].occ)
  BY <1>1, <1>3 DEF Outer
<1>5. QED
  BY <1>1, <1>3, <1>4 DEF Dequeues

\* Every step keeps what is known below and at resetOCC.
LEMMA ResetStep ==
    ASSUME TypeOK, todo # <<>>, HeadsOnly, ResetFollows, NEW s, Makes(s)
    PROVE  ResetFollows'
<1>1. s \in Seq(Frame) /\ Calls(s)
  BY DEF Makes
<1>2. PICK n \in Nat : n = Len(s)
  BY <1>1
<1>3. /\ Len(todo') = Len(todo) + n - 1 /\ Len(todo) \in Nat
      /\ Head(todo) = todo[1]
      /\ \A i \in 1 .. n : todo'[i] = s[i]
      /\ \A i \in (n + 1) .. Len(todo') :
            i - n + 1 \in 2 .. Len(todo) /\ todo'[i] = todo[i - n + 1]
  BY <1>1, <1>2, CallsStack
<1>4. \A k \in 1 .. n : s[k].fn = "resetOCC"
         => k = 2 /\ n = 2 /\ s[1].fn = "deactivate" /\ s[1].occ = s[2].occ
  <2>1. CASE Outer(s)
    BY <1>2, <2>1 DEF Outer, OuterFn, Inner
  <2>2. CASE Inside(s)
    BY <1>2, <2>2, InsideShape
  <2>3. QED
    BY <2>1, <2>2 DEF Makes
<1>5. ASSUME 2 \in 1 .. Len(todo), todo[2].fn = "resetOCC"
      PROVE  /\ Head(todo).fn \in {"deactivate", "setInactive"}
             /\ Head(todo).occ = todo[2].occ /\ Inside(s)
             /\ self \in OCC /\ self = Head(todo).occ
  <2>1. 1 \in 1 .. (Len(todo) - 1) /\ 1 + 1 = 2
    BY <1>3, <1>5
  <2>2. /\ todo[1].fn \in {"deactivate", "setInactive"}
        /\ todo[1].occ = todo[2].occ
    BY <1>5, <2>1 DEF ResetFollows
  <2>3. QED
    BY <1>3, <2>2 DEF Makes, InStatus, self
<1>6. ASSUME todo' # <<>>, Head(todo').fn = "resetOCC"
      PROVE  ~ occActive'[Head(todo').occ]
  <2>1. CASE s # <<>>
    <3>1. Len(s) > 0 /\ Head(todo') = s[1]
      BY <1>6, <2>1, NewHead
    <3>2. QED
      BY <1>2, <1>4, <1>6, <3>1
  <2>2. CASE s = <<>>
    <3>1. 2 \in 1 .. Len(todo) /\ Head(todo') = todo[2]
      BY <1>6, <2>2, NewHead
    <3>2. /\ Head(todo).fn \in {"deactivate", "setInactive"}
          /\ Head(todo).occ = todo[2].occ /\ Inside(s) /\ self \in OCC
          /\ self = Head(todo).occ
      BY <1>5, <1>6, <3>1
    <3>3. occActive' = [occActive EXCEPT ![self] = Head(todo).fn = "setActive"]
      BY <2>2, <3>2 DEF Inside
    <3>4. QED
      BY <3>1, <3>2, <3>3 DEF TypeOK, DataOK
  <2>3. QED
    BY <2>1, <2>2
<1>7. ASSUME NEW j \in 1 .. (Len(todo') - 1), todo'[j + 1].fn = "resetOCC"
      PROVE  /\ todo'[j].fn \in {"deactivate", "setInactive"}
             /\ todo'[j].occ = todo'[j + 1].occ
  <2>1. CASE j + 1 <= n
    <3>1. j \in 1 .. n /\ j + 1 \in 1 .. n
      BY <2>1
    <3>2. todo'[j] = s[j] /\ todo'[j + 1] = s[j + 1]
      BY <1>3, <3>1
    <3>3. j + 1 = 2 /\ j = 1
      BY <1>4, <1>7, <3>1, <3>2
    <3>4. QED
      BY <1>4, <1>7, <3>1, <3>2, <3>3
  <2>2. CASE j = n
    <3>1. j + 1 \in (n + 1) .. Len(todo') /\ j + 1 - n + 1 = 2 /\ n > 0
      BY <1>3, <2>2
    <3>2. todo'[j + 1] = todo[2] /\ 2 \in 1 .. Len(todo)
      BY <1>3, <3>1
    <3>3. /\ Head(todo).fn \in {"deactivate", "setInactive"}
          /\ Head(todo).occ = todo[2].occ /\ Inside(s) /\ self = Head(todo).occ
      BY <1>5, <1>7, <3>2
    <3>4. s # <<>> /\ n \in 1 .. n
      BY <1>2, <3>1
    <3>5. IsSet(s[n]) /\ s[n].occ = self
      BY <1>2, <3>3, <3>4, InsideShape
    <3>6. s[n].fn # "setActive"
      <4>1. \/ s = <<Call("wentInactive", self), Call("unbind", self),
                     Call("setInactive", self)>>
            \/ s = <<Call("setInactive", self)>>
        BY <3>3, <3>4 DEF Inside, IsSet
      <4>2. QED
        BY <1>2, <4>1, CallIs
    <3>7. QED
      BY <1>3, <2>2, <3>2, <3>3, <3>4, <3>5, <3>6 DEF IsSet
  <2>3. CASE j > n
    <3>1. /\ j \in (n + 1) .. Len(todo') /\ j + 1 \in (n + 1) .. Len(todo')
          /\ j + 1 - n + 1 = (j - n + 1) + 1
      BY <1>3, <2>3, SMTT(20)
    <3>2. PICK i \in 2 .. (Len(todo) - 1) :
             i = j - n + 1 /\ todo'[j] = todo[i] /\ todo'[j + 1] = todo[i + 1]
      <4>1. j - n + 1 \in 2 .. Len(todo) /\ (j - n + 1) + 1 \in 2 .. Len(todo)
            /\ todo'[j] = todo[j - n + 1] /\ todo'[j + 1] = todo[(j - n + 1) + 1]
        BY <1>3, <3>1
      <4>2. j - n + 1 \in 2 .. (Len(todo) - 1)
        BY <1>3, <4>1
      <4>3. QED
        BY <4>1, <4>2
    <3>3. i \in 1 .. (Len(todo) - 1)
      BY <1>3
    <3>4. QED
      BY <1>7, <3>2, <3>3 DEF ResetFollows
  <2>4. QED
    BY <2>1, <2>2, <2>3, <1>3
<1>8. QED
  BY <1>6, <1>7 DEF ResetFollows, HeadIs, self

\* A sequence of two and one of one
LEMMA AppendLast ==
    \A a, b, c \in Frame : <<a, b>> \o <<c>> = <<a, b, c>>
<1> TAKE a, b, c \in Frame
<1> DEFINE x == <<a, b>> \o <<c>>
           y == <<a, b, c>>
<1>1. x \in Seq(Frame) /\ y \in Seq(Frame) /\ Len(x) = 3 /\ Len(y) = 3
  OBVIOUS
<1>2. x[1] = a /\ x[2] = b /\ x[3] = c
  OBVIOUS
<1>3. \A i \in 1 .. 3 : x[i] = y[i]
  BY <1>2
<1> HIDE DEF x, y
<1>4. x = y
  BY <1>1, <1>3
<1>5. QED
  BY <1>4 DEF x, y

\* Every step keeps what is known above clearQueue.
LEMMA ClearStep ==
    ASSUME TypeOK, todo # <<>>, ClearAlone, NEW s, Makes(s)
    PROVE  ClearAlone'
<1>1. s \in Seq(Frame) /\ Calls(s)
  BY DEF Makes
<1>2. PICK n \in Nat : n = Len(s)
  BY <1>1
<1>3. /\ Len(todo') = Len(todo) + n - 1 /\ Len(todo) \in Nat
      /\ Head(todo) = todo[1]
      /\ \A i \in 1 .. n : todo'[i] = s[i]
      /\ \A i \in (n + 1) .. Len(todo') :
            i - n + 1 \in 2 .. Len(todo) /\ todo'[i] = todo[i - n + 1]
  BY <1>1, <1>2, CallsStack
<1> SUFFICES ASSUME NEW k \in 1 .. Len(todo'), todo'[k].fn = "clearQueue"
             PROVE  /\ ~ waitingForAllOccActiveSensors'
                    /\ \A j \in 1 .. (k - 1) : todo'[j].fn \in OfReset
  BY DEF ClearAlone
<1>4. CASE k <= n
  <2>1. k \in 1 .. n /\ s[k].fn = "clearQueue"
    BY <1>3, <1>4
  <2>2. Outer(s)
    BY <1>2, <2>1, InsideShape DEF Makes
  <2>3. /\ ~ waitingForAllOccActiveSensors'
        /\ \A j \in 1 .. (k - 1) : s[j].fn \in OfReset
    BY <1>2, <2>1, <2>2 DEF Outer, OuterFn
  <2>4. \A j \in 1 .. (k - 1) : todo'[j] = s[j]
    BY <1>3, <1>4
  <2>5. QED
    BY <2>3, <2>4
<1>5. CASE k > n
  <2>0. k \in (n + 1) .. Len(todo')
    BY <1>3, <1>5
  <2>1. PICK m \in 2 .. Len(todo) : m = k - n + 1 /\ todo'[k] = todo[m]
    BY <1>3, <2>0
  <2>2. /\ ~ waitingForAllOccActiveSensors
        /\ \A j \in 1 .. (m - 1) : todo[j].fn \in OfReset
    BY <1>3, <2>1 DEF ClearAlone
  <2>3. Head(todo).fn \in OfReset
    BY <1>3, <2>1, <2>2
  <2>4. \A j \in 1 .. n : s[j].fn \in OfReset
    <3>1. CASE Outer(s)
      BY <1>2, <2>2, <2>3, <3>1 DEF Outer, OuterFn
    <3>2. CASE Inside(s)
      <4>1. Head(todo).fn = "deactivate" \/ s = <<>>
        BY <2>3, <3>2 DEF Inside, OfReset
      <4>2. QED
        BY <1>2, <3>2, <4>1, InsideShape
    <3>3. QED
      BY <3>1, <3>2 DEF Makes
  <2>5. ASSUME NEW j \in 1 .. (k - 1) PROVE todo'[j].fn \in OfReset
    <3>1. CASE j <= n
      BY <1>3, <2>4, <3>1
    <3>2. CASE j > n
      <4>1. j \in (n + 1) .. Len(todo')
        BY <1>3, <3>2
      <4>2. j - n + 1 \in 1 .. (m - 1) /\ todo'[j] = todo[j - n + 1]
        BY <1>3, <2>1, <4>1
      <4>3. QED
        BY <2>2, <4>2
    <3>3. QED
      BY <3>1, <3>2
  <2>6. ~ waitingForAllOccActiveSensors'
    BY <2>2 DEF Makes
  <2>7. QED
    BY <2>5, <2>6
<1>6. QED
  BY <1>4, <1>5

\* A call that may deactivate an OCC, made above a pending setInactive, is of a
\* reset of the same OCC.
LEMMA CallsAbove ==
    ASSUME TypeOK, todo # <<>>, Separate, NEW s, Makes(s),
           waitingForAllOccActiveSensors',
           NEW j \in 1 .. Len(s), NEW l \in 2 .. Len(todo),
           NextSet(1, l), todo[l].fn = "setInactive", s[j].fn \in MayEnd,
           \A i \in (j + 1) .. Len(s) : ~ IsSet(s[i])
    PROVE  /\ s[j].fn \in Reset /\ s[j].occ = todo[l].occ
           /\ Head(todo).fn \in {"deviceError", "resetOCC"} /\ Inside(s)
<1>1. /\ s \in Seq(Frame) /\ Len(s) \in Nat /\ waitingForAllOccActiveSensors
      /\ Head(todo) = todo[1] /\ self = Head(todo).occ /\ Len(todo) \in Nat
  BY CallsStack DEF Makes, self
<1>2. Head(todo).fn \in MayEnd => Head(todo).fn \in Reset /\ self = todo[l].occ
  <2>1. 1 \in 1 .. Len(todo) /\ l \in 1 .. Len(todo)
    BY <1>1
  <2>2. QED
    BY <1>1, <2>1 DEF Separate
<1>3. ~ Outer(s)
  BY <1>2 DEF Outer, OuterFn
<1>4. Inside(s)
  BY <1>3 DEF Makes
<1>5. ~ IsSet(s[Len(s)])
  <2>1. ~ IsSet(s[j])
    BY DEF IsSet, MayEnd, Ending
  <2>2. j = Len(s) \/ Len(s) \in (j + 1) .. Len(s)
    BY <1>1
  <2>3. QED
    BY <2>1, <2>2
<1>6. Head(todo).fn \in {"deviceError", "resetOCC"}
  BY <1>4, <1>5, InsideShape
<1>7. s[j].fn \in Reset /\ s[j].occ = self
  <2>1. s[j].occ = self
    BY <1>4, InsideShape
  <2>2. s[j].fn \in Reset
    <3>1. CASE Len(s) = 2 /\ j = 1 /\ s[2].fn = "setActive"
      BY <1>5, <3>1 DEF IsSet
    <3>2. QED
      BY <1>4, <3>1, InsideShape
  <2>3. QED
    BY <2>1, <2>2
<1>8. QED
  BY <1>2, <1>4, <1>6, <1>7 DEF MayEnd, Ending

\* Every step keeps Separate: a call that may deactivate is put above a pending
\* setInactive by deviceError and resetOCC only, for the same OCC.
LEMMA SeparateStep ==
    ASSUME TypeOK, todo # <<>>, Separate, NEW s, Makes(s)
    PROVE  Separate'
<1>1. s \in Seq(Frame) /\ Calls(s)
  BY DEF Makes
<1>2. PICK n \in Nat : n = Len(s)
  BY <1>1
<1>3. \A i \in 1 .. n : todo'[i] = s[i]
  BY <1>1, <1>2, CallsStack
<1> SUFFICES ASSUME waitingForAllOccActiveSensors',
                    NEW j \in 1 .. Len(todo'), NEW k \in 1 .. Len(todo'),
                    NextSet(j, k)', todo'[j].fn \in MayEnd,
                    todo'[k].fn = "setInactive"
             PROVE  todo'[j].fn \in Reset /\ todo'[j].occ = todo'[k].occ
  BY DEF Separate
<1>4. CASE k <= n
  <2>1. /\ j < k /\ j \in 1 .. n /\ k \in 1 .. n
        /\ todo'[j] = s[j] /\ todo'[k] = s[k]
    BY <1>3, <1>4 DEF NextSet
  <2>2. Inside(s)
    BY <1>2, <2>1 DEF Makes, Outer, OuterFn, Inner
  <2>3. s[j].occ = self /\ s[k].occ = self
    BY <1>2, <2>1, <2>2, InsideShape
  <2>4. s[j].fn \in Reset
    <3>1. CASE Len(s) = 2 /\ j = 1 /\ s[2].fn = "setActive"
      BY <1>2, <2>1, <3>1
    <3>2. QED
      BY <1>2, <2>1, <2>2, <3>1, InsideShape
  <2>5. QED
    BY <2>1, <2>3, <2>4
<1>5. CASE k > n
  <2>1. PICK l \in 2 .. Len(todo) : Carried(s, n, j, k, l)
    BY <1>1, <1>2, <1>5, NextSetKept
  <2>2. CASE j <= n
    <3>1. j \in 1 .. Len(s) /\ \A i \in (j + 1) .. Len(s) : ~ IsSet(s[i])
      BY <1>2, <2>1, <2>2 DEF Carried
    <3>2. s[j].fn \in Reset /\ s[j].occ = todo[l].occ
      BY <2>1, <2>2, <3>1, CallsAbove DEF Carried
    <3>3. QED
      BY <2>1, <2>2, <3>2 DEF Carried
  <2>3. CASE j > n
    <3>1. PICK i \in 2 .. Len(todo) : NextSet(i, l) /\ todo'[j] = todo[i]
      BY <2>1, <2>3 DEF Carried
    <3>2. waitingForAllOccActiveSensors
      BY DEF Makes
    <3>3. i \in 1 .. Len(todo) /\ l \in 1 .. Len(todo)
      OBVIOUS
    <3>4. QED
      BY <2>1, <3>1, <3>2, <3>3 DEF Separate, Carried
  <2>4. QED
    BY <2>2, <2>3
<1>6. QED
  BY <1>4, <1>5

\* The error watch of an active OCC fails: nothing else is going on.
LEMMA WatchFails ==
    ASSUME TypeOK, todo # <<>>, FromQueue, NEW s, Makes(s),
           s = <<Call("deviceError", self), Call("setInactive", self)>>,
           Head(todo).fn = "activate", occActive[self], self \in OCC,
           occActive' = occActive
    PROVE  WatchFailed'
<1>1. s \in Seq(Frame) /\ Calls(s)
  BY DEF Makes
<1>2. Len(todo) = 1
  <2>1. Len(todo) \in Nat /\ Len(todo) > 0 /\ ~ (Len(todo) > 1)
    BY <1>1, CallsStack DEF FromQueue, HeadIs
  <2>2. \A i \in Nat : i > 0 /\ ~ (i > 1) => i = 1
    OBVIOUS
  <2>3. QED
    BY <2>1, <2>2
<1>3. \A t \in Seq(Frame) : t # <<>> /\ Len(t) = 1 => Tail(t) = <<>>
  <2> SUFFICES ASSUME NEW t \in Seq(Frame), t # <<>>, Len(t) = 1
               PROVE  Tail(t) = <<>>
    OBVIOUS
  <2> DEFINE u == Tail(t)
  <2>1. u \in Seq(Frame) /\ Len(u) = 0
    OBVIOUS
  <2> HIDE DEF u
  <2>2. u = <<>>
    BY <2>1
  <2>3. QED
    BY <2>2 DEF u
<1>4. \A t \in Seq(Frame) : t \o <<>> = t
  <2> TAKE t \in Seq(Frame)
  <2> DEFINE u == t \o <<>>
  <2>1. <<>> \in Seq(Frame) /\ Len(<<>>) = 0
    OBVIOUS
  <2>2. u \in Seq(Frame)
    BY <2>1
  <2>3. Len(u) = Len(t)
    BY <2>1
  <2>4. \A i \in 1 .. Len(t) : u[i] = t[i]
    BY <2>1
  <2> HIDE DEF u
  <2>5. u = t
    BY <2>2, <2>3, <2>4
  <2>6. QED
    BY <2>5 DEF u
<1>5. todo' = s
  BY <1>1, <1>2, <1>3, <1>4 DEF Calls, TypeOK
<1>6. QED
  BY <1>5 DEF WatchFailed

\* ... and the deactivation that deviceError begins with still finds it so.
LEMMA WatchStaysFailed ==
    ASSUME TypeOK, WatchFailed, NEW s, Makes(s), Head(todo).fn = "deviceError"
    PROVE  WatchFailed'
<1>1. todo = <<Call("deviceError", self), Call("setInactive", self)>>
      /\ self \in OCC /\ occActive[self]
  <2>1. PICK o \in OCC :
           /\ occActive[o]
           /\ \/ todo = <<Call("deviceError", o), Call("setInactive", o)>>
              \/ todo = <<Call("deactivate", o), Call("resetOCC", o),
                          Call("setInactive", o)>>
    BY DEF WatchFailed
  <2>2. CASE todo = <<Call("deviceError", o), Call("setInactive", o)>>
    <3>1. self = o
      BY <2>2, CallIs DEF self
    <3>2. QED
      BY <2>1, <2>2, <3>1
  <2>3. CASE todo = <<Call("deactivate", o), Call("resetOCC", o),
                      Call("setInactive", o)>>
    <3>1. Head(todo) = Call("deactivate", o)
      BY <2>3
    <3>2. QED
      BY <3>1, CallIs
  <2>4. QED
    BY <2>1, <2>2, <2>3
<1>2. /\ s = <<Call("deactivate", self), Call("resetOCC", self)>>
      /\ occActive' = occActive /\ Calls(s)
  BY DEF Makes, Inside, InStatus, IsSet
<1> DEFINE a == Call("deactivate", self)
           b == Call("resetOCC", self)
           c == Call("setInactive", self)
<1>3. a \in Frame /\ b \in Frame /\ c \in Frame
  BY <1>1, CallType DEF OccCalls
<1>4. s = <<a, b>> /\ Tail(todo) = <<c>>
  BY <1>1, <1>2
<1> HIDE DEF a, b, c
<1>5. todo' = <<a, b>> \o <<c>>
  BY <1>2, <1>4 DEF Calls
<1>6. todo' = <<a, b, c>>
  BY <1>3, <1>5, AppendLast
<1>7. QED
  BY <1>1, <1>2, <1>6 DEF WatchFailed, a, b, c

\* Every step keeps EndsApart: where an active OCC is about to be deactivated, no
\* setInactive comes next, or its error watch has failed.
LEMMA EndsStep ==
    ASSUME TypeOK, todo # <<>>, HeadsOnly, FromQueue, ResetFollows, Separate,
           EndsApart, NEW s, Makes(s)
    PROVE  EndsApart'
<1>1. s \in Seq(Frame) /\ Calls(s)
  BY DEF Makes
<1>2. PICK n \in Nat : n = Len(s)
  BY <1>1
<1> SUFFICES ASSUME waitingForAllOccActiveSensors', todo' # <<>>,
                    Head(todo').fn \in Ending, occActive'[Head(todo').occ],
                    ~ WatchFailed',
                    NEW k \in 1 .. Len(todo'), NextSet(1, k)',
                    todo'[k].fn = "setInactive"
             PROVE  FALSE
  BY DEF EndsApart, HeadIs, self
<1>3. s # <<>> /\ n > 0 /\ Head(todo') = s[1] /\ Head(todo') = todo'[1]
  BY <1>2, NewHead DEF AtHead
<1>4. waitingForAllOccActiveSensors
  BY DEF Makes
<1>5. 1 \in 1 .. n /\ s[1].fn \in Ending /\ \A i \in 1 .. n : todo'[i] = s[i]
  BY <1>1, <1>2, <1>3, CallsStack
<1>6. CASE Head(todo).fn = "activate" /\ Inside(s)
  <2>1. /\ s = <<Call("deviceError", self), Call("setInactive", self)>>
        /\ occActive' = occActive
    BY <1>5, <1>6, CallIs DEF Inside, Ending, IsSet
  <2>2. self \in OCC /\ occActive[self]
    BY <1>3, <1>6, <2>1, CallIs DEF Makes, InStatus, Outer
  <2>3. WatchFailed'
    BY <1>6, <2>1, <2>2, WatchFails
  <2>4. QED
    BY <2>3
<1>7. CASE ~ (Head(todo).fn = "activate" /\ Inside(s))
  <2>1. k > n
    <3>1. CASE Outer(s)
      BY <1>2, <1>5, <3>1 DEF Outer, OuterFn, Inner
    <3>2. CASE Inside(s) /\ Head(todo).fn # "activate"
      <4>1. \/ s = <<Call("deactivate", self), Call("resetOCC", self)>>
            \/ s = <<Call("deactivate", self), Call("resetOccRequest", self)>>
        BY <1>3, <1>5, <3>2, CallIs DEF Inside, Ending, IsSet
      <4>2. n = 2 /\ s[1].fn = "deactivate" /\ s[2].fn \in {"resetOCC", "resetOccRequest"}
        BY <1>2, <4>1, CallIs
      <4>3. CASE k <= n
        <5>1. k \in 1 .. 2 /\ todo'[k] = s[k]
          BY <1>5, <4>2, <4>3
        <5>2. QED
          BY <4>2, <5>1
      <4>4. QED
        BY <1>2, <4>3
    <3>3. QED
      BY <1>7, <3>1, <3>2 DEF Makes
  <2>2. PICK l \in 2 .. Len(todo) :
           /\ todo'[k] = todo[l] /\ NextSet(1, l)
           /\ \A i \in (1 + 1) .. n : ~ IsSet(s[i])
    <3>1. 1 \in 1 .. Len(todo') /\ 1 <= n
      BY <1>3
    <3>2. PICK l \in 2 .. Len(todo) : Carried(s, n, 1, k, l)
      BY <1>1, <1>2, <2>1, <3>1, NextSetKept
    <3>3. QED
      BY <3>1, <3>2 DEF Carried
  <2>3. /\ Head(todo).fn \in {"deviceError", "resetOCC"} /\ Inside(s)
    <3>1. 1 \in 1 .. Len(s) /\ s[1].fn \in MayEnd
      BY <1>2, <1>5 DEF MayEnd
    <3>2. \A i \in (1 + 1) .. Len(s) : ~ IsSet(s[i])
      BY <1>2, <2>2
    <3>3. QED
      BY <2>2, <3>1, <3>2, CallsAbove
  <2>4. /\ occActive' = occActive /\ s[1].occ = self
        /\ Head(todo).fn = "resetOCC" \/
           s = <<Call("deactivate", self), Call("resetOCC", self)>>
    BY <2>3, CallIs DEF Inside, IsSet
  <2>5. occActive[self] /\ Head(todo).fn = "deviceError" /\ self \in OCC
    BY <1>3, <2>3, <2>4 DEF ResetFollows, HeadIs, Makes, InStatus
  <2>6. WatchFailed
    BY <1>4, <2>2, <2>5 DEF EndsApart, HeadIs, Ending
  <2>7. WatchFailed'
    BY <2>5, <2>6, WatchStaysFailed
  <2>8. QED
    BY <2>7
<1>8. QED
  BY <1>6, <1>7

\* The types of what Counted compares
CountsTyped ==
    /\ \A i : Returning(i) \subseteq OCC /\ FinallyOn(i) \subseteq OCC
    /\ \A i : Cardinality(Returning(i)) \in Nat /\ Cardinality(FinallyOn(i)) \in Nat
    /\ \A i : Owed(i) \in {0, 1} /\ Owed(0) <= Owed(i)
    /\ Counting \in Nat /\ activeCount \in Nat
    /\ Early \subseteq OCC /\ FinallyOn(0) = ActiveOccs
    /\ ActiveOccs \subseteq OCC

LEMMA CountTypes == TypeOK => CountsTyped
<1> SUFFICES ASSUME TypeOK PROVE CountsTyped
  OBVIOUS
<1>1. Early \subseteq OCC
  BY DEF Early, TypeOK, DataOK
<1>2. \A i : Returning(i) \subseteq OCC /\ FinallyOn(i) \subseteq OCC
  BY <1>1 DEF Returning, FinallyOn
<1>3. \A i : Cardinality(Returning(i)) \in Nat /\ Cardinality(FinallyOn(i)) \in Nat
  BY <1>2, OccSets
<1>4. \A o : ~ HasSet(todo, 1, 0, o)
  BY DEF HasSet
<1>5. \A i : Owed(i) \in {0, 1} /\ Owed(0) <= Owed(i)
  BY <1>4 DEF Owed
<1>6. Counting \in Nat /\ activeCount \in Nat
  BY DEF Counting, OneLess, TypeOK, DataOK
<1>7. FinallyOn(0) = ActiveOccs
  BY <1>4 DEF FinallyOn, OnAfter, ActiveOccs
<1>8. QED
  BY <1>1, <1>2, <1>3, <1>5, <1>6, <1>7 DEF ActiveOccs, CountsTyped

LEMMA CountTypesNext == TypeOK' => CountsTyped'
BY CountTypes, PTL

\* What is known at the calls before the last of the new ones
LEMMA AmongNew ==
    ASSUME TypeOK, todo # <<>>, NEW s \in Seq(Frame), Calls(s),
           NEW n \in Nat, n = Len(s), \A k \in 1 .. (n - 1) : ~ IsSet(s[k]),
           NEW i \in 0 .. (n - 1)
    PROVE  /\ Returning(i)' = {} /\ FinallyOn(i)' = ActiveOccs'
           /\ \A o : ~ HasSet(todo', 1, i, o)
<1>1. \A o : ~ HasSet(todo', 1, i, o) /\ (OnAfter(i, o)' <=> occActive'[o])
  BY AfterNew
<1>2. FinallyOn(i)' = ActiveOccs'
  BY <1>1 DEF FinallyOn, ActiveOccs
<1>3. Returning(i)' = {}
  BY <1>1 DEF Returning, HasSet
<1>4. QED
  BY <1>1, <1>2, <1>3

\* A place of the new stack is among the new calls or was one of the old stack.
LEMMA NewOrOld ==
    ASSUME TypeOK, todo # <<>>, NEW s \in Seq(Frame), Calls(s),
           NEW n \in Nat, n = Len(s), NEW i \in 0 .. Len(todo'), i \notin 0 .. (n - 1)
    PROVE  \E m \in 1 .. Len(todo) : i = m + n - 1
<1>1. Len(todo') = Len(todo) + n - 1 /\ Len(todo) \in Nat
  BY CallsStack
<1>2. i - n + 1 \in 1 .. Len(todo) /\ i = (i - n + 1) + n - 1
  BY <1>1
<1>3. QED
  BY <1>2

\* Calls that leave every OCC as the head would have left it
LEMMA CountedQuiet ==
    ASSUME TypeOK, TypeOK', todo # <<>>, HeadsOnly, HeadsOnly', Counted, ~ WatchFailed,
           NEW s \in Seq(Frame), Calls(s), NEW n \in Nat, n = Len(s),
           \A k \in 1 .. (n - 1) : ~ IsSet(s[k]),
           \A o \in OCC : OnAfter(n, o)' <=> OnAfter(1, o),
           n > 0 => occActive' = occActive,
           Counting' <= Counting + Owed(0), Early' \subseteq Early,
           \A o \in Early' : \A j \in 1 .. n : Noisy(j)' /\ ~ OnAfter(j, o)'
                    => /\ Noisy(1) /\ ~ OnAfter(1, o)
                       /\ j < n => ~ Sets(s[n], o),
           ~ HeadIs({"wentActive"})',
           HeadIs({"activate"})' =>
              LET o == Head(todo').occ
              IN /\ o \in Early \ Early' /\ ~ OnAfter(1, o) /\ Noisy(1)
                 /\ \A k \in 1 .. n : ~ IsSet(s[k])
    PROVE  Counted'
<1>1. ASSUME NEW i \in 0 .. Len(todo)
      PROVE  Counting + Cardinality(Returning(i)) + Owed(i)
                <= Cardinality(FinallyOn(i))
  BY DEF Counted
<1>t. /\ \A i : Returning(i) \subseteq OCC /\ FinallyOn(i) \subseteq OCC
      /\ \A i : Cardinality(Returning(i)) \in Nat
                     /\ Cardinality(FinallyOn(i)) \in Nat
      /\ \A i : Owed(i) \in {0, 1} /\ Owed(0) <= Owed(i)
      /\ Counting \in Nat
      /\ Early \subseteq OCC /\ FinallyOn(0) = ActiveOccs
  BY CountTypes DEF CountsTyped
<1>u. /\ \A i : Returning(i)' \subseteq OCC /\ FinallyOn(i)' \subseteq OCC
      /\ \A i : Cardinality(Returning(i)') \in Nat /\ Owed(i)' \in {0, 1}
      /\ Counting' \in Nat
  BY CountTypesNext DEF CountsTyped
<1>l. Len(todo) \in Nat /\ 0 \in 0 .. Len(todo)
  BY CallsStack
<1>2. SUFFICES ASSUME NEW i \in 0 .. Len(todo')
               PROVE  Counting' + Cardinality(Returning(i)') + Owed(i)'
                         <= Cardinality(FinallyOn(i)')
  BY DEF Counted
<1>3. CASE i \in 0 .. (n - 1)
  <2>1. Returning(i)' = {} /\ FinallyOn(i)' = FinallyOn(0) /\ Owed(i)' = 0
    <3>1. /\ Returning(i)' = {} /\ FinallyOn(i)' = ActiveOccs'
          /\ \A o : ~ HasSet(todo', 1, i, o)
      BY <1>3, AmongNew
    <3>2. n > 0
      BY <1>3
    <3>3. ActiveOccs' = FinallyOn(0)
      BY <1>t, <3>2 DEF ActiveOccs
    <3>4. Owed(i)' = 0
      BY <3>1 DEF Owed
    <3>5. QED
      BY <3>1, <3>3, <3>4
  <2>2. Cardinality(Returning(i)') = 0
    BY <2>1, FS_EmptySet
  <2>3. Counting + Cardinality(Returning(0)) + Owed(0) <= Cardinality(FinallyOn(0))
    BY <1>1, <1>l
  <2>4. Cardinality(FinallyOn(i)') = Cardinality(FinallyOn(0))
    BY <2>1
  <2>5. QED
    BY <1>t, <1>u, <2>1, <2>2, <2>3, <2>4
<1>4. CASE i \notin 0 .. (n - 1)
  <2>1. PICK m \in 1 .. Len(todo) : i = m + n - 1
    BY <1>4, NewOrOld
  <2>2. FinallyOn(i)' = FinallyOn(m)
    BY <2>1, FinallySame
  <2>3. Returning(i)' \subseteq Returning(m)
    <3>1. ASSUME NEW o \in Early' \ {}
          PROVE  /\ OnAfter(1, o) => OnAfter(n, o)'
                 /\ \A j \in 1 .. n : Noisy(j)' /\ ~ OnAfter(j, o)'
                       => /\ Noisy(1) /\ ~ OnAfter(1, o)
                          /\ j < n => ~ Sets(s[n], o)
      <4>1. o \in Early' /\ o \in OCC
        BY <1>t
      <4>2. QED
        BY <4>1
    <3>2. \A k \in 1 .. Len(todo) : Returning(k + n - 1)' \subseteq Returning(k) \cup {}
      BY <3>1, ReturningKept
    <3>3. QED
      BY <2>1, <3>2
  <2>4. Cardinality(Returning(i)') + Owed(i)' <= Cardinality(Returning(m))
    <3>1. CASE Owed(i)' = 0
      <4>1. Cardinality(Returning(i)') <= Cardinality(Returning(m))
        BY <1>t, <1>u, <2>3, OccSets
      <4>2. QED
        BY <1>t, <1>u, <3>1, <4>1
    <3>2. CASE Owed(i)' # 0
      <4> DEFINE o == Head(todo').occ
      <4>1. HeadIs({"activate"})' /\ HasSet(todo', 1, i, o) /\ Owed(i)' = 1
        BY <3>2 DEF Owed
      <4>2. /\ o \in Early \ Early' /\ ~ OnAfter(1, o) /\ Noisy(1)
            /\ \A k \in 1 .. n : ~ IsSet(s[k])
        BY <4>1
      <4> HIDE DEF o
      <4>3. PICK k \in 1 .. i : Sets(todo'[k], o)
        BY <4>1 DEF HasSet
      <4>4. /\ \A j \in 1 .. n : todo'[j] = s[j]
            /\ \A j \in (n + 1) .. Len(todo') :
                  j - n + 1 \in 2 .. Len(todo) /\ todo'[j] = todo[j - n + 1]
        BY CallsStack
      <4>5. k \notin 1 .. n
        BY <4>2, <4>3, <4>4 DEF Sets
      <4>6. PICK l \in 2 .. m : Sets(todo[l], o)
        <5>1. k \in (n + 1) .. Len(todo')
          BY <1>4, <4>5
        <5>2. k - n + 1 \in 2 .. m /\ todo'[k] = todo[k - n + 1]
          BY <2>1, <4>4, <5>1
        <5>3. QED
          BY <4>3, <5>2
      <4>7. 1 \in 1 .. m /\ l \in 1 .. m /\ 1 < l
        BY <1>l
      <4>8. o \in Returning(m)
        BY <4>2, <4>6, <4>7 DEF Returning
      <4>9. o \notin Returning(i)'
        BY <4>2 DEF Returning
      <4>10. Returning(i)' \subseteq Returning(m) \ {o}
        BY <2>3, <4>9
      <4>11. Cardinality(Returning(i)') <= Cardinality(Returning(m)) - 1
        <5> DEFINE A == Returning(m)
                   B == Returning(i)'
        <5>1. A \subseteq OCC /\ B \subseteq A \ {o} /\ o \in A
          BY <1>t, <4>8, <4>10
        <5> HIDE DEF A, B
        <5>2. Cardinality(A \ {o}) = Cardinality(A) - 1
          BY <5>1, OccSets
        <5>3. Cardinality(B) <= Cardinality(A \ {o})
          <6>1. A \ {o} \subseteq OCC /\ B \subseteq OCC
            BY <5>1
          <6>2. QED
            BY <5>1, <6>1, OccSets
        <5>4. Cardinality(B) <= Cardinality(A) - 1
          BY <5>2, <5>3
        <5>5. QED
          BY <5>4 DEF A, B
      <4>12. QED
        BY <1>t, <1>u, <4>1, <4>11
    <3>3. QED
      BY <3>1, <3>2
  <2>5. Counting + Cardinality(Returning(m)) + Owed(m) <= Cardinality(FinallyOn(m))
    <3>1. m \in 0 .. Len(todo)
      BY <1>l
    <3>2. QED
      BY <1>1, <3>1
  <2>6. Cardinality(FinallyOn(i)') = Cardinality(FinallyOn(m))
    BY <2>2
  <2>7. \A c, d, q, r, v, w, x, y \in Nat :
           d <= c + v /\ q + w <= r /\ c + r + x <= y /\ v <= x => d + q + w <= y
    OBVIOUS
  <2>8. /\ Counting \in Nat /\ Counting' \in Nat /\ Cardinality(Returning(i)') \in Nat
        /\ Cardinality(Returning(m)) \in Nat /\ Owed(0) \in Nat /\ Owed(i)' \in Nat
        /\ Owed(m) \in Nat /\ Cardinality(FinallyOn(m)) \in Nat /\ Owed(0) <= Owed(m)
    <3>1. {0, 1} \subseteq Nat
      OBVIOUS
    <3>2. Owed(0) \in Nat /\ Owed(m) \in Nat /\ Owed(0) <= Owed(m)
      BY <1>t, <3>1
    <3>3. Owed(i)' \in Nat
      BY <1>u, <3>1
    <3>4. QED
      BY <1>t, <1>u, <3>2, <3>3
  <2>9. Counting' + Cardinality(Returning(i)') + Owed(i)' <= Cardinality(FinallyOn(m))
    BY <2>4, <2>5, <2>7, <2>8
  <2>10. QED
    BY <2>6, <2>9
<1>5. QED
  BY <1>3, <1>4

\* An activation that is taken from the queue was one that may come early.
LEMMA DequeuedEarly ==
    ASSUME TypeOK, todo # <<>>, QueueInv, ClearAlone, NEW o, Dequeues(o)
    PROVE  o \in Early \ Early'
<1>1. Head(todo) = todo[1] /\ Len(todo) \in Nat /\ Len(todo) > 0
  BY DEF TypeOK
<1>2. CASE ~ waitingForAllOccActiveSensors
  <2>1. PICK k \in 1 .. Len(todo) : todo[k].fn = "clearQueue"
    BY <1>2 DEF Dequeues, QueueInv, OnStack
  <2>2. \A j \in 1 .. (k - 1) : todo[j].fn \in OfReset
    BY <2>1 DEF ClearAlone
  <2>3. k # 1
    BY <1>1, <2>1 DEF Dequeues
  <2>4. 1 \in 1 .. (k - 1)
    BY <1>1, <2>3
  <2>5. Head(todo).fn \in OfReset
    BY <1>1, <2>2, <2>4
  <2>6. QED
    BY <2>5 DEF Dequeues, OfReset
<1>3. CASE waitingForAllOccActiveSensors
  BY <1>3 DEF Dequeues, Early
<1>4. QED
  BY <1>2, <1>3

\* No step makes another activation from the queue possible.
LEMMA EarlyKept ==
    ASSUME NEW s, Makes(s)
    PROVE  Early' \subseteq Early /\ (Head(todo).fn \in InStatus => Early' = Early)
BY DEF Makes, Early

\* While WatchFailed, the head is about to deactivate an active OCC.
LEMMA FailedHead == WatchFailed => todo # <<>> /\ Head(todo).fn \in Ending /\ occActive[self]
<1>1. ASSUME NEW a, NEW b, todo = <<a, b>> PROVE todo # <<>> /\ Head(todo) = a
  BY <1>1
<1>2. ASSUME NEW a, NEW b, NEW c, todo = <<a, b, c>> PROVE todo # <<>> /\ Head(todo) = a
  BY <1>2
<1>3. QED
  BY <1>1, <1>2, CallIs DEF WatchFailed, Ending, self

\* A handler outside of the Status objects keeps Counted.
LEMMA CountedOuter ==
    ASSUME TypeOK, TypeOK', todo # <<>>, QueueInv, ClearAlone, HeadsOnly, HeadsOnly',
           Counted, NEW s, Makes(s), Head(todo).fn \notin InStatus
    PROVE  Counted'
<1>1. /\ s \in Seq(Frame) /\ Calls(s) /\ Outer(s) /\ occActive' = occActive
      /\ activeCount' <= Counting + Owed(0)
  BY DEF Makes
<1>2. PICK n \in Nat : n = Len(s)
  BY <1>1
<1>3. ~ WatchFailed
  BY FailedHead DEF InStatus, Ending
<1>4. \A k \in 1 .. n : ~ IsSet(s[k])
  BY <1>1, <1>2 DEF Outer, OuterFn, Inner, IsSet
<1>5. \A k \in 1 .. (n - 1) : ~ IsSet(s[k])
  BY <1>4
<1>6. \A j \in 0 .. n : \A o : OnAfter(j, o)' <=> occActive[o]
  <2>1. ASSUME NEW j \in 0 .. n, NEW o
        PROVE  j < n \/ n = 0 \/ ~ Sets(s[n], o)
    BY <1>4 DEF Sets
  <2>2. QED
    BY <1>1, <1>2, <1>5, <2>1, AfterNew
<1>7. \A o : OnAfter(1, o) <=> occActive[o]
  BY AfterHead DEF Sets, IsSet, InStatus
<1>8. \A o \in OCC : OnAfter(n, o)' <=> OnAfter(1, o)
  BY <1>6, <1>7
<1>9. s # <<>> => Noisy(1)
  BY <1>1, CallsStack DEF Outer, Noisy, InStatus, Ending
<1>10. \A o \in Early' : \A j \in 1 .. n : Noisy(j)' /\ ~ OnAfter(j, o)'
          => /\ Noisy(1) /\ ~ OnAfter(1, o)
             /\ j < n => ~ Sets(s[n], o)
  <2> SUFFICES ASSUME NEW o \in Early', NEW j \in 1 .. n, ~ OnAfter(j, o)'
               PROVE  Noisy(1) /\ ~ OnAfter(1, o) /\ ~ Sets(s[n], o)
    OBVIOUS
  <2>1. s # <<>> /\ n \in 1 .. n /\ j \in 0 .. n
    BY <1>2
  <2>2. QED
    BY <1>4, <1>6, <1>7, <1>9, <2>1 DEF Sets
<1>11. todo' # <<>> => /\ Head(todo').fn \notin {"wentActive", "wentInactive"}
                       /\ Head(todo').fn = "activate"
                             => s # <<>> /\ Len(s) > 0 /\ Head(todo') = s[1]
  <2> SUFFICES ASSUME todo' # <<>>
               PROVE  /\ Head(todo').fn \notin {"wentActive", "wentInactive"}
                      /\ Head(todo').fn = "activate"
                             => s # <<>> /\ Len(s) > 0 /\ Head(todo') = s[1]
    OBVIOUS
  <2>1. CASE s = <<>>
    BY <2>1, NewHead DEF AtHead
  <2>2. CASE s # <<>>
    <3>1. Len(s) > 0 /\ Head(todo') = s[1]
      BY <2>2, NewHead
    <3>2. 1 \in 1 .. Len(s)
      BY <1>2, <3>1
    <3>3. QED
      BY <1>1, <2>2, <3>1, <3>2 DEF Outer, OuterFn, Inner
  <2>3. QED
    BY <2>1, <2>2
<1>12. Counting' <= Counting + Owed(0)
  BY <1>1, <1>11 DEF Counting, HeadIs
<1>13. ~ HeadIs({"wentActive"})'
  BY <1>11 DEF HeadIs
<1>14. HeadIs({"activate"})' =>
          LET o == Head(todo').occ
          IN /\ o \in Early \ Early' /\ ~ OnAfter(1, o) /\ Noisy(1)
             /\ \A k \in 1 .. n : ~ IsSet(s[k])
  <2> SUFFICES ASSUME HeadIs({"activate"})'
               PROVE  /\ Head(todo').occ \in Early \ Early'
                      /\ ~ OnAfter(1, Head(todo').occ) /\ Noisy(1)
    BY <1>4
  <2>1. s # <<>> /\ Len(s) > 0 /\ Head(todo') = s[1] /\ s[1].fn = "activate"
    BY <1>11 DEF HeadIs
  <2>2. Dequeues(s[1].occ)
    BY <1>1, <2>1 DEF Outer
  <2>3. ~ occActive[s[1].occ]
    BY <2>2 DEF Dequeues
  <2>4. s[1].occ \in Early \ Early'
    BY <2>2, DequeuedEarly
  <2>5. QED
    BY <1>7, <1>9, <2>1, <2>3, <2>4
<1>15. Early' \subseteq Early
  BY EarlyKept
<1>16. n > 0 => occActive' = occActive
  BY <1>1
<1>17. QED
  BY <1>1, <1>2, <1>3, <1>5, <1>8, <1>10, <1>12, <1>13, <1>14, <1>15, <1>16,
     CountedQuiet

\* So does the closing assignment of occActive.
LEMMA CountedReturn ==
    ASSUME TypeOK, TypeOK', todo # <<>>, HeadsOnly, HeadsOnly', Counted,
           NEW s, Makes(s), IsSet(Head(todo))
    PROVE  Counted'
<1>1. /\ s = <<>> /\ s \in Seq(Frame) /\ Calls(s) /\ self \in OCC
      /\ occActive' = [occActive EXCEPT ![self] = Head(todo).fn = "setActive"]
      /\ activeCount' = activeCount
  BY DEF Makes, InStatus, IsSet, Inside, Outer
<1>2. PICK n \in Nat : n = Len(s) /\ n = 0
  BY <1>1
<1>3. ~ WatchFailed
  BY FailedHead DEF IsSet, Ending
<1>4. \A k \in 1 .. (n - 1) : ~ IsSet(s[k])
  BY <1>2
<1>5. \A o \in OCC : OnAfter(n, o)' <=> OnAfter(1, o)
  <2>1. \A o \in OCC : OnAfter(1, o) <=> occActive'[o]
    BY <1>1, AfterHead DEF Sets, TypeOK, DataOK, self
  <2>2. \A o : OnAfter(n, o)' <=> occActive'[o]
    <3>1. n \in 0 .. n
      BY <1>2
    <3>2. QED
      BY <1>1, <1>2, <1>4, <3>1, AfterNew
  <2>3. QED
    BY <2>1, <2>2
<1>6. todo' # <<>> => Head(todo').fn \notin AtHead
  BY <1>1, NewHead
<1>7. /\ ~ HeadIs({"wentActive"})' /\ ~ HeadIs({"activate"})'
      /\ ~ HeadIs({"wentInactive"})'
  BY <1>6 DEF HeadIs, AtHead
<1>8. Counting' = activeCount /\ Counting = activeCount
  BY <1>1, <1>7 DEF Counting, HeadIs, IsSet
<1>9. Counting' <= Counting + Owed(0)
  BY <1>8, CountTypes DEF CountsTyped
<1>10. \A o \in Early' : \A j \in 1 .. n : Noisy(j)' /\ ~ OnAfter(j, o)'
          => /\ Noisy(1) /\ ~ OnAfter(1, o)
             /\ j < n => ~ Sets(s[n], o)
  BY <1>2
<1>11. Early' \subseteq Early
  BY EarlyKept
<1>12. n > 0 => occActive' = occActive
  BY <1>2
<1>13. QED
  BY <1>1, <1>2, <1>3, <1>4, <1>5, <1>7, <1>9, <1>10, <1>11, <1>12, CountedQuiet

\* A call of a Status object that only calls others, or assigns what is so
LEMMA CountedPlain ==
    ASSUME TypeOK, TypeOK', todo # <<>>, HeadsOnly, HeadsOnly', Counted, ~ WatchFailed,
           NEW s, Makes(s), Head(todo).fn \in InStatus, s # <<>>,
           Len(s) \in {1, 2}, occActive' = occActive,
           \A k \in 1 .. (Len(s) - 1) : ~ IsSet(s[k]),
           s[1].fn \notin {"wentActive", "wentInactive", "activate"},
           IsSet(s[Len(s)]) =>
              (s[Len(s)].fn = "setActive" <=> occActive[s[Len(s)].occ]),
           Len(s) = 2 => s[2].fn \in Silent,
           s[1].fn \in Silent \/ (s[1].fn \in Ending
              /\ (occActive[s[1].occ] => Noisy(1) /\ ~ IsSet(s[Len(s)])))
    PROVE  Counted'
<1>1. /\ s \in Seq(Frame) /\ Calls(s) /\ activeCount' = activeCount
      /\ Early' = Early
  BY EarlyKept DEF Makes
<1>2. PICK n \in Nat : n = Len(s) /\ n > 0 /\ n \in 1 .. n /\ n \in 0 .. n
  BY <1>1
<1>3. \A k \in 1 .. (n - 1) : ~ IsSet(s[k])
  BY <1>2
<1>4. \A j \in 0 .. n : \A o : OnAfter(j, o)' <=> occActive[o]
  <2>1. \A j \in 0 .. n : \A o : (j < n \/ n = 0 \/ ~ Sets(s[n], o))
                                     => (OnAfter(j, o)' <=> occActive'[o])
    BY <1>1, <1>2, <1>3, AfterNew
  <2>2. \A o : n > 0 /\ Sets(s[n], o) => (OnAfter(n, o)' <=> s[n].fn = "setActive")
    BY <1>1, <1>2, <1>3, AfterNew
  <2>3. ASSUME NEW j \in 0 .. n, NEW o
        PROVE  OnAfter(j, o)' <=> occActive[o]
    <3>1. CASE j < n \/ ~ Sets(s[n], o)
      BY <2>1, <3>1
    <3>2. CASE ~ (j < n) /\ Sets(s[n], o)
      <4>1. j = n
        BY <1>2, <3>2
      <4>2. OnAfter(n, o)' <=> s[n].fn = "setActive"
        BY <1>2, <2>2, <3>2
      <4>3. s[n].fn = "setActive" <=> occActive[o]
        BY <1>2, <3>2 DEF Sets
      <4>4. QED
        BY <4>1, <4>2, <4>3
    <3>3. QED
      BY <3>1, <3>2
  <2>4. QED
    BY <2>3
<1>5. ASSUME NEW o \in OCC PROVE OnAfter(n, o)' <=> OnAfter(1, o)
  <2>1. OnAfter(n, o)' <=> occActive[o]
    BY <1>2, <1>4
  <2>2. ~ IsSet(Head(todo))
    BY DEF Makes, Inside, IsSet, Outer
  <2>3. QED
    BY <2>1, <2>2, AfterHead DEF Sets
<1>6. Head(todo') = s[1] /\ Head(todo') = todo'[1] /\ todo' # <<>>
  BY <1>1, NewHead, CallsStack, <1>2
<1>7. /\ ~ HeadIs({"wentActive"})' /\ ~ HeadIs({"activate"})'
      /\ ~ HeadIs({"wentInactive"})'
  BY <1>6 DEF HeadIs
<1>8. Counting' = activeCount /\ Counting = activeCount
  BY <1>1, <1>7 DEF Counting, HeadIs, InStatus
<1>9. Counting' <= Counting + Owed(0)
  BY <1>8, CountTypes DEF CountsTyped
<1>10. ASSUME NEW o \in Early', NEW j \in 1 .. n, Noisy(j)', ~ OnAfter(j, o)'
       PROVE  /\ Noisy(1) /\ ~ OnAfter(1, o)
              /\ j < n => ~ Sets(s[n], o)
  <2>1. todo'[j] = s[j] /\ j \in 0 .. n
    BY <1>1, <1>2, CallsStack
  <2>2. j = 1
    <3>1. todo'[j].fn \notin Silent
      BY <1>10 DEF Noisy, Silent, Ending
    <3>2. CASE j = 2
      BY <1>2, <2>1, <3>1, <3>2
    <3>3. j \in {1, 2}
      BY <1>2
    <3>4. QED
      BY <3>2, <3>3
  <2>3. s[1].fn \in Ending /\ occActive[s[1].occ]
    BY <1>10, <2>1, <2>2 DEF Noisy
  <2>4. Noisy(1) /\ ~ IsSet(s[n])
    BY <1>2, <2>3 DEF Silent, Ending
  <2>5. o \in OCC /\ ~ OnAfter(1, o)
    <3>1. o \in OCC
      BY <1>1 DEF Early, TypeOK, DataOK
    <3>2. OnAfter(n, o)' <=> occActive[o]
      BY <1>2, <1>4
    <3>3. ~ occActive[o]
      BY <1>4, <1>10, <2>1
    <3>4. QED
      BY <1>5, <3>1, <3>2, <3>3
  <2>6. QED
    BY <2>4, <2>5 DEF Sets
<1>11. \A o \in Early' : \A j \in 1 .. n : Noisy(j)' /\ ~ OnAfter(j, o)'
          => /\ Noisy(1) /\ ~ OnAfter(1, o)
             /\ j < n => ~ Sets(s[n], o)
  BY <1>10
<1>12. Early' \subseteq Early
  BY <1>1
<1>13. n > 0 => occActive' = occActive
  OBVIOUS
<1>14. QED
  BY <1>1, <1>2, <1>3, <1>5, <1>7, <1>9, <1>11, <1>12, <1>13, CountedQuiet

\* An OCC is activated: the count owed to it is covered already, or by it.
LEMMA CountedBegin ==
    ASSUME TypeOK, TypeOK', todo # <<>>, HeadsOnly, CountBound, Counted,
           NEW s, Makes(s), Head(todo).fn = "activate", ~ occActive[self],
           s = <<Call("wentActive", self), Call("setActive", self)>>,
           occActive' = [occActive EXCEPT ![self] = TRUE]
    PROVE  Counted'
<1>1. /\ s \in Seq(Frame) /\ Calls(s) /\ activeCount' = activeCount
      /\ Early' = Early /\ self \in OCC
  BY EarlyKept DEF Makes, InStatus
<1>2. PICK n \in Nat : n = Len(s) /\ n = 2
  BY <1>1
<1>3. PICK x \in OCC : x = self
  BY <1>1
<1>4. /\ s[1].fn = "wentActive" /\ s[2].fn = "setActive" /\ s[2].occ = x
      /\ s # <<>>
  BY <1>2, <1>3, CallIs
<1>5. \A k \in 1 .. (n - 1) : ~ IsSet(s[k])
  BY <1>2, <1>4 DEF IsSet
<1>6. Sets(s[n], x) /\ \A o : o # x => ~ Sets(s[n], o)
  BY <1>2, <1>4 DEF Sets, IsSet
<1>7. /\ \A o \in OCC : occActive'[o] <=> o = x \/ occActive[o]
      /\ ActiveOccs' = ActiveOccs \cup {x} /\ x \notin ActiveOccs
  BY <1>3 DEF TypeOK, DataOK, ActiveOccs
<1>8. \A o \in OCC \ {x} : OnAfter(n, o)' <=> OnAfter(1, o)
  <2>1. n \in 0 .. n /\ n > 0
    BY <1>2
  <2>2. \A o : ~ Sets(s[n], o) => (OnAfter(n, o)' <=> occActive'[o])
    BY <1>1, <1>2, <1>5, <2>1, AfterNew
  <2>3. \A o : OnAfter(1, o) <=> occActive[o]
    BY AfterHead DEF Sets, IsSet
  <2>4. QED
    BY <1>6, <1>7, <2>2, <2>3
<1>9. OnAfter(n, x)' /\ ~ OnAfter(1, x)
  <2>1. OnAfter(n, x)' <=> s[n].fn = "setActive"
    <3>1. n > 0
      BY <1>2
    <3>2. \A o : n > 0 /\ Sets(s[n], o) => (OnAfter(n, o)' <=> s[n].fn = "setActive")
      BY <1>1, <1>2, <1>5, AfterNew
    <3>3. QED
      BY <1>6, <3>1, <3>2
  <2>2. ~ OnAfter(1, x)
    BY <1>3, AfterHead DEF Sets, IsSet
  <2>3. QED
    BY <1>2, <1>4, <2>1, <2>2
<1>10. HeadIs({"wentActive"})' /\ ~ HeadIs({"wentInactive"})'
  BY <1>1, <1>4, CallsStack, NewHead DEF HeadIs, Calls
<1>11. Counting' = activeCount /\ Counting = activeCount /\ \A i : Owed(i)' = 1
  BY <1>1, <1>10 DEF Counting, HeadIs, Owed
<1>t. /\ \A i : Cardinality(Returning(i)) \in Nat /\ Cardinality(FinallyOn(i)) \in Nat
      /\ \A i : Returning(i) \subseteq OCC /\ FinallyOn(i) \subseteq OCC
      /\ \A i : Owed(i) \in {0, 1}
      /\ ActiveOccs \subseteq OCC /\ activeCount \in Nat
  BY CountTypes DEF CountsTyped
<1>u. /\ \A i : Cardinality(Returning(i)') \in Nat /\ Returning(i)' \subseteq OCC
      /\ \A i : FinallyOn(i)' \subseteq OCC
  BY CountTypesNext DEF CountsTyped
<1>12. ~ WatchFailed
  BY FailedHead DEF Ending
<1> SUFFICES ASSUME NEW i \in 0 .. Len(todo')
             PROVE  activeCount + Cardinality(Returning(i)') + 1
                       <= Cardinality(FinallyOn(i)')
  BY <1>11 DEF Counted
<1>13. CASE i \in 0 .. (n - 1)
  <2>1. Returning(i)' = {} /\ FinallyOn(i)' = ActiveOccs'
    BY <1>1, <1>2, <1>5, <1>13, AmongNew
  <2>2. Cardinality(Returning(i)') = 0
    BY <2>1, FS_EmptySet
  <2>3. Cardinality(FinallyOn(i)') = Cardinality(ActiveOccs) + 1
    <3>1. x \in OCC \ ActiveOccs
      BY <1>7
    <3>2. Cardinality(ActiveOccs \cup {x}) = Cardinality(ActiveOccs) + 1
      BY <1>t, <3>1, OccSets
    <3>3. QED
      BY <1>7, <2>1, <3>2
  <2>4. Cardinality(ActiveOccs) \in Nat
    BY <1>t, OccSets
  <2>5. QED
    BY <1>t, <2>2, <2>3, <2>4 DEF CountBound
<1>14. CASE i \notin 0 .. (n - 1)
  <2>1. PICK m \in 1 .. Len(todo) : i = m + n - 1
    BY <1>1, <1>2, <1>14, NewOrOld
  <2>2. Returning(i)' \subseteq Returning(m)
    <3>1. Early' \subseteq Early
      BY <1>1
    <3>2. ASSUME NEW o \in Early' \ {}
          PROVE  /\ OnAfter(1, o) => OnAfter(n, o)'
                 /\ \A j \in 1 .. n : Noisy(j)' /\ ~ OnAfter(j, o)'
                       => /\ Noisy(1) /\ ~ OnAfter(1, o)
                          /\ j < n => ~ Sets(s[n], o)
      <4>1. o \in OCC
        BY <1>1 DEF Early, TypeOK, DataOK
      <4>2. OnAfter(1, o) => OnAfter(n, o)'
        BY <1>8, <1>9, <4>1
      <4>3. ASSUME NEW j \in 1 .. n, Noisy(j)', ~ OnAfter(j, o)'
            PROVE  Noisy(1) /\ ~ OnAfter(1, o) /\ ~ Sets(s[n], o)
        <5>1. Noisy(1)
          <6>1. Head(todo) = todo[1]
            BY <1>1, CallsStack
          <6>2. QED
            BY <6>1 DEF Noisy, Silent, Ending
        <5>2. o # x
          <6>1. CASE o = x /\ j = n
            BY <1>9, <4>3, <6>1
          <6>2. CASE o = x /\ j < n
            <7>1. j \in 0 .. (n - 1)
              BY <6>2
            <7>2. FinallyOn(j)' = ActiveOccs'
              BY <1>1, <1>2, <1>5, <7>1, AmongNew
            <7>3. x \in FinallyOn(j)'
              BY <1>7, <7>2
            <7>4. QED
              BY <4>3, <6>2, <7>3 DEF FinallyOn
          <6>3. QED
            BY <6>1, <6>2
        <5>3. ~ occActive'[o]
          <6>1. j \in 0 .. n
            OBVIOUS
          <6>2. OnAfter(j, o)' <=> occActive'[o]
            BY <1>1, <1>2, <1>5, <1>6, <5>2, <6>1, AfterNew
          <6>3. QED
            BY <4>3, <6>2
        <5>4. ~ OnAfter(1, o)
          BY <1>7, <4>1, <5>3, AfterHead DEF Sets, IsSet
        <5>5. QED
          BY <1>6, <5>1, <5>2, <5>4
      <4>4. QED
        BY <4>2, <4>3
    <3>3. \A k \in 1 .. Len(todo) : Returning(k + n - 1)' \subseteq Returning(k) \cup {}
      BY <1>1, <1>2, <1>5, <3>1, <3>2, ReturningKept
    <3>4. QED
      BY <2>1, <3>3
  <2>3. Cardinality(Returning(i)') <= Cardinality(Returning(m))
    BY <1>t, <1>u, <2>2, OccSets
  <2>4. activeCount + Cardinality(Returning(m)) + Owed(m)
           <= Cardinality(FinallyOn(m))
    <3>1. m \in 0 .. Len(todo)
      BY <1>1, CallsStack
    <3>2. QED
      BY <1>11, <1>12, <3>1 DEF Counted
  <2>5. /\ \A o : o # x => (o \in FinallyOn(i)' <=> o \in FinallyOn(m))
        /\ HasSet(todo, 2, m, x) => (x \in FinallyOn(i)' <=> x \in FinallyOn(m))
        /\ ~ HasSet(todo, 2, m, x) => /\ x \in FinallyOn(i)' <=> OnAfter(n, x)'
                                      /\ x \in FinallyOn(m) <=> OnAfter(1, x)
    <3>1. /\ \A o : o # x => (o \in FinallyOn(m + n - 1)' <=> o \in FinallyOn(m))
          /\ HasSet(todo, 2, m, x)
                => (x \in FinallyOn(m + n - 1)' <=> x \in FinallyOn(m))
          /\ ~ HasSet(todo, 2, m, x)
                => /\ x \in FinallyOn(m + n - 1)' <=> OnAfter(n, x)'
                   /\ x \in FinallyOn(m) <=> OnAfter(1, x)
      <4>1. n = Len(s) /\ n \in Nat
        BY <1>2
      <4>2. QED
        BY <1>1, <1>8, <4>1, FinallyKept
    <3>2. QED
      BY <2>1, <3>1
  <2> DEFINE A == FinallyOn(m)
             B == FinallyOn(i)'
  <2>6. A \subseteq OCC /\ B \subseteq OCC
    BY <1>t, <1>u
  <2>7. CASE HasSet(todo, 2, m, x)
    <3>1. \A e : e \in A <=> e \in B
      BY <2>5, <2>7
    <3> HIDE DEF A, B
    <3>2. A = B
      BY <3>1
    <3>3. HasSet(todo, 1, m, Head(todo).occ)
      BY <1>1, <1>2, <1>3, <2>7, AfterCalls DEF self
    <3>4. Owed(m) = 1
      BY <3>3 DEF Owed, HeadIs
    <3>5. Cardinality(FinallyOn(i)') = Cardinality(FinallyOn(m))
      BY <3>2 DEF A, B
    <3>6. QED
      BY <1>t, <1>u, <2>3, <2>4, <3>4, <3>5
  <2>8. CASE ~ HasSet(todo, 2, m, x)
    <3>1. x \in B /\ x \notin A /\ \A e : e # x => (e \in B <=> e \in A)
      BY <1>9, <2>5, <2>8
    <3> HIDE DEF A, B
    <3>2. B = A \cup {x}
      <4>1. \A e : e \in B <=> e \in A \cup {x}
        BY <3>1
      <4>2. QED
        BY <4>1
    <3>3. Cardinality(B) = Cardinality(A) + 1
      BY <2>6, <3>1, <3>2, OccSets
    <3>4. Cardinality(FinallyOn(i)') = Cardinality(FinallyOn(m)) + 1
      BY <3>3 DEF A, B
    <3>5. Owed(m) >= 0
      BY <1>t
    <3>6. activeCount + Cardinality(Returning(m)) <= Cardinality(FinallyOn(m))
      <4>1. Owed(m) \in Nat
        <5>1. {0, 1} \subseteq Nat
          OBVIOUS
        <5>2. QED
          BY <1>t, <5>1
      <4>2. QED
        BY <1>t, <2>4, <3>5, <4>1
    <3>7. QED
      BY <1>t, <1>u, <2>3, <3>4, <3>6
  <2>9. QED
    BY <2>7, <2>8
<1>15. QED
  BY <1>13, <1>14

\* The calls of a deactivation
EndCalls == <<Call("wentInactive", self), Call("unbind", self),
              Call("setInactive", self)>>

\* What an active OCC that is deactivated leaves behind: no OCC but those that
\* the pending calls assign may return.
LEMMA EndLeaves ==
    ASSUME TypeOK, TypeOK', todo # <<>>, NEW s, Makes(s), s = EndCalls,
           Head(todo).fn = "deactivate", occActive[self], occActive' = occActive,
           NEW n, n = Len(s)
    PROVE  /\ n = 3 /\ n \in Nat /\ self \in OCC /\ Calls(s) /\ s \in Seq(Frame)
           /\ Early' = Early /\ activeCount' = activeCount
           /\ \A k \in 1 .. (n - 1) : ~ IsSet(s[k])
           /\ \A o : Sets(s[n], o) <=> o = self
           /\ \A o : o # self => (OnAfter(n, o)' <=> occActive[o])
           /\ \A o : OnAfter(1, o) <=> occActive[o]
           /\ \A o : o = self => ~ OnAfter(n, o)'
           /\ \A o : OnAfter(1, o)' <=> occActive[o]
           /\ \A j \in 2 .. n : ~ Noisy(j)'
           /\ Noisy(1)
           /\ HeadIs({"wentInactive"})'
           /\ \A i : Owed(i)' = 0
           /\ Counting' = OneLess /\ Counting = activeCount
<1>1. /\ s \in Seq(Frame) /\ Calls(s) /\ activeCount' = activeCount
      /\ Early' = Early /\ self \in OCC
  BY EarlyKept DEF Makes, InStatus
<1>2. n = 3 /\ n \in Nat /\ s # <<>>
  BY DEF EndCalls
<1>3. /\ s[1].fn = "wentInactive" /\ s[2].fn = "unbind" /\ s[3].fn = "setInactive"
      /\ s[3].occ = self
  BY CallIs DEF EndCalls
<1>4. \A k \in 1 .. (n - 1) : ~ IsSet(s[k])
  BY <1>2, <1>3 DEF IsSet
<1>5. \A o : Sets(s[n], o) <=> o = self
  BY <1>2, <1>3 DEF Sets, IsSet
<1>6. \A i \in 0 .. n : \A o : (i < n \/ n = 0 \/ ~ Sets(s[n], o))
                    => (OnAfter(i, o)' <=> occActive'[o])
  BY <1>1, <1>2, <1>4, AfterNew
<1>7. \A o : n > 0 /\ Sets(s[n], o) => (OnAfter(n, o)' <=> s[n].fn = "setActive")
  BY <1>1, <1>2, <1>4, AfterNew
<1>8. \A o : o # self => (OnAfter(n, o)' <=> occActive[o])
  BY <1>2, <1>5, <1>6
<1>9. ASSUME NEW o, o = self PROVE ~ OnAfter(n, o)'
  <2>1. n > 0 /\ Sets(s[n], o) /\ s[n].fn # "setActive"
    BY <1>2, <1>3, <1>5, <1>9
  <2>2. QED
    BY <1>7, <2>1
<1>10. \A o : OnAfter(1, o)' <=> occActive[o]
  BY <1>2, <1>6
<1>11. \A o : OnAfter(1, o) <=> occActive[o]
  BY AfterHead DEF Sets, IsSet
<1>12. \A j \in 1 .. 3 : todo'[j] = s[j]
  <2>1. \A j \in 1 .. Len(s) : todo'[j] = s[j]
    BY <1>1, CallsStack
  <2>2. QED
    BY <1>2, <2>1
<1>13. ASSUME NEW j \in 2 .. n PROVE ~ Noisy(j)'
  <2>1. j \in 1 .. 3 /\ (j = 2 \/ j = 3)
    BY <1>2
  <2>2. todo'[j].fn \in {"unbind", "setInactive"}
    BY <1>3, <1>12, <2>1
  <2>3. QED
    BY <2>2 DEF Noisy, Silent, Ending
<1>14. Noisy(1)
  BY <1>1, CallsStack DEF Noisy, Ending, self
<1>15. HeadIs({"wentInactive"})'
  BY <1>1, <1>2, <1>3, NewHead, CallsStack DEF HeadIs, Calls
<1>16. \A i : Owed(i)' = 0
  BY <1>15 DEF HeadIs, Owed
<1>17. Counting' = OneLess /\ Counting = activeCount
  BY <1>1, <1>15 DEF HeadIs, Counting, OneLess
<1>18. QED
  BY <1>1, <1>2, <1>4, <1>5, <1>8, <1>9, <1>10, <1>11, <1>13, <1>14, <1>15,
     <1>16, <1>17

\* Who may return, and who is active in the end, below a deactivation
LEMMA EndReturning ==
    ASSUME TypeOK, TypeOK', todo # <<>>, HeadsOnly, NEW s, Makes(s), s = EndCalls,
           Head(todo).fn = "deactivate", occActive[self], occActive' = occActive,
           NEW n, n = Len(s), NEW m \in 1 .. Len(todo)
    PROVE  /\ Returning(m + n - 1)' \subseteq Returning(m) \cup {self}
           /\ \A o \in Returning(m + n - 1)' : o \in Early /\ HasSet(todo, 2, m, o)
           /\ \A o : o # self =>
                 (o \in FinallyOn(m + n - 1)' <=> o \in FinallyOn(m))
           /\ HasSet(todo, 2, m, self)
                 => (self \in FinallyOn(m + n - 1)' <=> self \in FinallyOn(m))
           /\ ~ HasSet(todo, 2, m, self)
                 => self \notin FinallyOn(m + n - 1)' /\ self \in FinallyOn(m)
           /\ LeftOn(2, m) \subseteq FinallyOn(m + n - 1)'
<1>1. /\ n = 3 /\ n \in Nat /\ self \in OCC /\ Calls(s) /\ s \in Seq(Frame)
      /\ Early' = Early /\ Noisy(1) /\ \A o : o = self => ~ OnAfter(n, o)'
  BY EndLeaves
<1>2. \A k \in 1 .. (n - 1) : ~ IsSet(s[k])
  BY EndLeaves
<1>3. \A o : Sets(s[n], o) <=> o = self
  BY EndLeaves
<1>4. \A o : o # self => (OnAfter(n, o)' <=> occActive[o])
  BY EndLeaves
<1>5. \A o : OnAfter(1, o) <=> occActive[o]
  BY EndLeaves
<1>6. \A o : OnAfter(1, o)' <=> occActive[o]
  BY EndLeaves
<1>7. \A j \in 2 .. n : ~ Noisy(j)'
  BY EndLeaves
<1>8. PICK d \in Nat, x \in OCC : d = n /\ x = self
  BY <1>1
<1>9. d = Len(s) /\ \A k \in 1 .. (d - 1) : ~ IsSet(s[k])
  BY <1>2, <1>8
<1>10. ASSUME NEW o \in Early' \ {x}
       PROVE  /\ OnAfter(1, o) => OnAfter(d, o)'
              /\ \A j \in 1 .. d : Noisy(j)' /\ ~ OnAfter(j, o)'
                    => /\ Noisy(1) /\ ~ OnAfter(1, o)
                       /\ j < d => ~ Sets(s[d], o)
  <2>1. OnAfter(1, o) => OnAfter(d, o)'
    BY <1>4, <1>5, <1>8
  <2>2. ASSUME NEW j \in 1 .. d, Noisy(j)', ~ OnAfter(j, o)'
        PROVE  Noisy(1) /\ ~ OnAfter(1, o) /\ ~ Sets(s[d], o)
    <3>1. j = 1
      <4>1. j \notin 2 .. n
        BY <1>7, <2>2
      <4>2. QED
        BY <1>8, <4>1
    <3>2. ~ OnAfter(1, o)
      BY <1>5, <1>6, <2>2, <3>1
    <3>3. QED
      BY <1>1, <1>3, <1>8, <3>2
  <2>3. QED
    BY <2>1, <2>2
<1>11. Early' \subseteq Early
  BY <1>1
<1>12. \A k \in 1 .. Len(todo) : Returning(k + d - 1)' \subseteq Returning(k) \cup {x}
  BY <1>1, <1>9, <1>10, <1>11, ReturningKept
<1>13. Returning(m + n - 1)' \subseteq Returning(m) \cup {self}
  BY <1>8, <1>12
<1>14. \A o \in OCC \ {x} : OnAfter(d, o)' <=> OnAfter(1, o)
  BY <1>4, <1>5, <1>8
<1>15. /\ \A o : o # x => (o \in FinallyOn(m + d - 1)' <=> o \in FinallyOn(m))
       /\ HasSet(todo, 2, m, x)
             => (x \in FinallyOn(m + d - 1)' <=> x \in FinallyOn(m))
       /\ ~ HasSet(todo, 2, m, x)
             => /\ x \in FinallyOn(m + d - 1)' <=> OnAfter(d, x)'
                /\ x \in FinallyOn(m) <=> OnAfter(1, x)
  BY <1>1, <1>9, <1>14, FinallyKept
<1>16. /\ \A o : o # self => (o \in FinallyOn(m + n - 1)' <=> o \in FinallyOn(m))
       /\ HasSet(todo, 2, m, self)
             => (self \in FinallyOn(m + n - 1)' <=> self \in FinallyOn(m))
       /\ ~ HasSet(todo, 2, m, self)
             => self \notin FinallyOn(m + n - 1)' /\ self \in FinallyOn(m)
  <2>1. ~ OnAfter(d, x)' /\ OnAfter(1, x)
    BY <1>1, <1>5, <1>8
  <2>2. ~ HasSet(todo, 2, m, x)
           => x \notin FinallyOn(m + d - 1)' /\ x \in FinallyOn(m)
    BY <1>15, <2>1
  <2>3. QED
    BY <1>8, <1>15, <2>2
<1>17. ASSUME NEW o \in Returning(m + n - 1)'
       PROVE  o \in Early /\ HasSet(todo, 2, m, o)
  <2>1. o \in Early
    BY <1>1 DEF Returning
  <2>2. PICK j \in 1 .. (m + n - 1), k \in 1 .. (m + n - 1) :
           j < k /\ Noisy(j)' /\ ~ OnAfter(j, o)' /\ Sets(todo'[k], o)
    BY DEF Returning
  <2>3. /\ \A l \in 1 .. d : todo'[l] = s[l]
        /\ \A l \in (d + 1) .. Len(todo') :
              l - d + 1 \in 2 .. Len(todo) /\ todo'[l] = todo[l - d + 1]
        /\ Len(todo') = Len(todo) + d - 1 /\ Len(todo) \in Nat
    BY <1>1, <1>9, CallsStack
  <2>4. k \notin 1 .. d
    <3>1. SUFFICES ASSUME k \in 1 .. d PROVE FALSE
      OBVIOUS
    <3>2. Sets(s[k], o)
      BY <2>2, <2>3, <3>1
    <3>3. k = d
      <4>1. k \notin 1 .. (d - 1)
        BY <1>9, <3>2 DEF Sets
      <4>2. QED
        BY <3>1, <4>1
    <3>4. o = self
      BY <1>3, <1>8, <3>2, <3>3
    <3>5. j = 1
      <4>1. j \notin 2 .. n
        BY <1>7, <2>2
      <4>2. QED
        BY <1>8, <2>2, <3>3, <4>1
    <3>6. ~ occActive[o]
      BY <1>6, <2>2, <3>5
    <3>7. QED
      BY <3>4, <3>6
  <2>5. k \in (d + 1) .. Len(todo') /\ k <= m + d - 1
    BY <1>8, <2>3, <2>4
  <2>6. k - d + 1 \in 2 .. m /\ todo'[k] = todo[k - d + 1]
    BY <2>3, <2>5
  <2>7. HasSet(todo, 2, m, o)
    BY <2>2, <2>6 DEF HasSet
  <2>8. QED
    BY <2>1, <2>7
<1>18. ASSUME NEW o \in LeftOn(2, m) PROVE o \in FinallyOn(m + n - 1)'
  <2>1. o \in OCC /\ EndsOn(todo, 2, m, o) /\ HasSet(todo, 2, m, o)
    BY EndsHas DEF LeftOn
  <2>2. /\ OnAfter(m + d - 1, o)'
               <=> IF HasSet(todo, 2, m, o) THEN OnAfter(m, o) ELSE OnAfter(d, o)'
        /\ OnAfter(m, o)
               <=> IF HasSet(todo, 2, m, o) THEN EndsOn(todo, 2, m, o)
                   ELSE OnAfter(1, o)
    BY <1>1, <1>9, AfterCalls
  <2>3. OnAfter(m + n - 1, o)'
    BY <1>8, <2>1, <2>2
  <2>4. QED
    BY <2>1, <2>3 DEF FinallyOn
<1>19. QED
  BY <1>13, <1>16, <1>17, <1>18

\* OneLess and the sizes it is compared with
LEMMA LessOne ==
    ASSUME activeCount \in Nat, NEW a \in Nat
    PROVE  /\ activeCount <= a => OneLess <= a
           /\ activeCount <= a + 1 => OneLess <= a
           /\ activeCount = 0 => OneLess = 0
           /\ activeCount > 0 => OneLess = activeCount - 1
           /\ OneLess \in Nat
BY DEF OneLess

\* The deactivation of an active OCC: the OCC leaves the active ones, or an OCC that
\* was activated from the queue makes up for it.
LEMMA CountedEnd ==
    ASSUME TypeOK, TypeOK', todo # <<>>, HeadsOnly, CountBound, Counted, Balanced,
           EndsApart, ~ WatchFailed, NEW s, Makes(s), s = EndCalls,
           Head(todo).fn = "deactivate", occActive[self], occActive' = occActive
    PROVE  Counted'
<1>1. PICK n : n = Len(s)
  OBVIOUS
<1>2. /\ n = 3 /\ n \in Nat /\ self \in OCC /\ Calls(s) /\ s \in Seq(Frame)
      /\ Early' = Early
      /\ \A k \in 1 .. (n - 1) : ~ IsSet(s[k])
      /\ \A i : Owed(i)' = 0
      /\ Counting' = OneLess /\ Counting = activeCount
  BY <1>1, EndLeaves
<1>t. /\ \A i : Cardinality(Returning(i)) \in Nat /\ Cardinality(FinallyOn(i)) \in Nat
      /\ \A i : Returning(i) \subseteq OCC /\ FinallyOn(i) \subseteq OCC
      /\ \A i : Owed(i) \in {0, 1}
      /\ ActiveOccs \subseteq OCC /\ activeCount \in Nat /\ Early \subseteq OCC
  BY CountTypes DEF CountsTyped
<1>u. /\ \A i : Cardinality(Returning(i)') \in Nat /\ Returning(i)' \subseteq OCC
      /\ \A i : FinallyOn(i)' \subseteq OCC /\ Cardinality(FinallyOn(i)') \in Nat
  BY CountTypesNext DEF CountsTyped
<1> SUFFICES ASSUME NEW i \in 0 .. Len(todo')
             PROVE  OneLess + Cardinality(Returning(i)') <= Cardinality(FinallyOn(i)')
  <2>1. ASSUME NEW i, OneLess + Cardinality(Returning(i)') <= Cardinality(FinallyOn(i)')
        PROVE  Counting' + Cardinality(Returning(i)') + Owed(i)'
                         <= Cardinality(FinallyOn(i)')
    <3>1. OneLess \in Nat
      BY <1>t, LessOne
    <3>2. QED
      BY <1>2, <1>u, <2>1, <3>1
  <2>2. QED
    BY <2>1 DEF Counted
<1>3. CASE i \in 0 .. (n - 1)
  <2>1. Returning(i)' = {} /\ FinallyOn(i)' = ActiveOccs'
    BY <1>1, <1>2, <1>3, AmongNew
  <2>2. FinallyOn(i)' = ActiveOccs
    BY <2>1 DEF ActiveOccs
  <2>3. Cardinality(Returning(i)') = 0
    BY <2>1, FS_EmptySet
  <2>4. Cardinality(ActiveOccs) \in Nat
    BY <1>t, OccSets
  <2>5. OneLess <= Cardinality(ActiveOccs) /\ OneLess \in Nat
    BY <1>t, <2>4, LessOne DEF CountBound
  <2>6. QED
    BY <2>2, <2>3, <2>4, <2>5
<1>4. CASE i \notin 0 .. (n - 1)
  <2>1. PICK m \in 1 .. Len(todo) : i = m + n - 1
    BY <1>1, <1>2, <1>4, NewOrOld
  <2>2. PICK R, F, Q, G : /\ R = Returning(m) /\ F = FinallyOn(m)
                          /\ Q = Returning(i)' /\ G = FinallyOn(i)'
    OBVIOUS
  <2>3. /\ Q \subseteq R \cup {self}
        /\ \A o \in Q : o \in Early /\ HasSet(todo, 2, m, o)
        /\ \A o : o # self => (o \in G <=> o \in F)
        /\ HasSet(todo, 2, m, self) => (self \in G <=> self \in F)
        /\ ~ HasSet(todo, 2, m, self) => self \notin G /\ self \in F
        /\ LeftOn(2, m) \subseteq G
    <3>1. /\ Returning(m + n - 1)' \subseteq Returning(m) \cup {self}
          /\ \A o \in Returning(m + n - 1)' : o \in Early /\ HasSet(todo, 2, m, o)
          /\ \A o : o # self =>
                (o \in FinallyOn(m + n - 1)' <=> o \in FinallyOn(m))
          /\ HasSet(todo, 2, m, self)
                => (self \in FinallyOn(m + n - 1)' <=> self \in FinallyOn(m))
          /\ ~ HasSet(todo, 2, m, self)
                => self \notin FinallyOn(m + n - 1)' /\ self \in FinallyOn(m)
          /\ LeftOn(2, m) \subseteq FinallyOn(m + n - 1)'
      BY <1>1, EndReturning
    <3>2. QED
      BY <2>1, <2>2, <3>1
  <2>4. /\ R \subseteq OCC /\ F \subseteq OCC /\ Q \subseteq OCC /\ G \subseteq OCC
        /\ Cardinality(R) \in Nat /\ Cardinality(F) \in Nat
        /\ Cardinality(Q) \in Nat /\ Cardinality(G) \in Nat
    BY <1>t, <1>u, <2>2
  <2>5. activeCount + Cardinality(R) <= Cardinality(F)
    <3>1. m \in 0 .. Len(todo)
      BY <1>2, CallsStack
    <3>2. activeCount + Cardinality(R) + Owed(m) <= Cardinality(F)
      BY <1>2, <2>2, <3>1 DEF Counted
    <3>3. Owed(m) = 0 \/ Owed(m) = 1
      BY <1>t
    <3>4. QED
      BY <1>t, <2>4, <3>2, <3>3
  <2>6. SUFFICES OneLess + Cardinality(Q) <= Cardinality(G)
    BY <2>2
  <2>7. CASE activeCount > 0 /\ HasSet(todo, 2, m, self)
    <3>1. G = F
      <4>1. \A o : o \in G <=> o \in F
        BY <2>3, <2>7
      <4>2. QED
        BY <4>1
    <3>2. Cardinality(Q) <= Cardinality(R) + 1
      <4>1. {self} \subseteq OCC /\ R \cup {self} \subseteq OCC
        BY <1>2, <2>4
      <4>2. Cardinality(Q) <= Cardinality(R \cup {self})
        BY <2>3, <2>4, <4>1, OccSets
      <4>3. Cardinality(R \cup {self}) <= Cardinality(R) + Cardinality({self})
        BY <2>4, <4>1, OccSets
      <4>4. Cardinality({self}) = 1
        BY FS_Singleton
      <4>5. Cardinality(R \cup {self}) \in Nat
        BY <4>1, OccSets
      <4>6. QED
        BY <2>4, <4>2, <4>3, <4>4, <4>5
    <3>3. OneLess = activeCount - 1
      BY <2>7 DEF OneLess
    <3>4. QED
      BY <1>t, <2>4, <2>5, <3>1, <3>2, <3>3
  <2>8. CASE activeCount > 0 /\ ~ HasSet(todo, 2, m, self)
    <3>1. G = F \ {self} /\ self \in F
      <4>1. \A o : o \in G <=> o \in F \ {self}
        BY <2>3, <2>8
      <4>2. G = F \ {self}
        BY <4>1
      <4>3. QED
        BY <2>3, <2>8, <4>2
    <3>2. Cardinality(G) = Cardinality(F) - 1
      BY <2>4, <3>1, OccSets
    <3>3. Q \subseteq R
      <4>1. self \notin Q
        BY <2>3, <2>8
      <4>2. QED
        BY <2>3, <4>1
    <3>4. Cardinality(Q) <= Cardinality(R)
      BY <2>4, <3>3, OccSets
    <3>5. OneLess = activeCount - 1
      BY <2>8 DEF OneLess
    <3>6. QED
      BY <1>t, <2>4, <2>5, <3>2, <3>4, <3>5
  <2>9. CASE ~ (activeCount > 0)
    <3>1. OneLess = 0
      BY <2>9 DEF OneLess
    <3>2. Cardinality(Q) <= Cardinality(G)
      <4>1. CASE ~ waitingForAllOccActiveSensors
        <5>1. Early = {}
          BY <4>1 DEF Early
        <5>2. Q \subseteq G
          BY <2>3, <5>1
        <5>3. QED
          BY <2>4, <5>2, OccSets
      <4>2. CASE waitingForAllOccActiveSensors
        <5> DEFINE P == LeftOff(2, m) \cap Early
                   S == LeftOn(2, m) \ Early
                   T == LeftOn(2, m) \cap Early
        <5>1. Cardinality(P) <= Cardinality(S)
          <6>1. ~ FirstOff(2, m)
            <7>1. SUFFICES ASSUME NEW k \in 2 .. m, todo[k].fn = "setInactive",
                                  \A l \in 2 .. (k - 1) : ~ IsSet(todo[l])
                           PROVE  FALSE
              BY DEF FirstOff
            <7>2. k \in 1 .. Len(todo) /\ 1 < k /\ 1 + 1 = 2
              BY <1>2, CallsStack
            <7>3. NextSet(1, k)
              BY <7>1, <7>2 DEF NextSet, IsSet
            <7>4. HeadIs(Ending)
              BY DEF HeadIs, Ending
            <7>5. QED
              BY <4>2, <7>1, <7>2, <7>3, <7>4 DEF EndsApart
          <6>2. m \in 0 .. Len(todo) /\ 2 \in 1 .. (m + 1)
            BY <1>2, CallsStack
          <6>3. /\ Cardinality(LeftOff(2, m) \cap Early) + 0
                      <= Cardinality(LeftOn(2, m) \ Early) + 0
            BY <6>1, <6>2 DEF Balanced, Even, Bonus
          <6>4. P \subseteq OCC /\ S \subseteq OCC
            BY DEF LeftOff, LeftOn
          <6>5. Cardinality(P) \in Nat /\ Cardinality(S) \in Nat
            BY <6>4, OccSets
          <6>6. QED
            BY <6>3, <6>5
        <5>2. LeftOff(2, m) \subseteq OCC /\ LeftOn(2, m) \subseteq OCC
          BY DEF LeftOff, LeftOn
        <5>3. /\ P \subseteq OCC /\ S \subseteq OCC /\ T \subseteq OCC
              /\ P \cup T \subseteq OCC
          BY <5>2
        <5>4. Q \subseteq P \cup T
          <6>1. ASSUME NEW o \in Q PROVE o \in P \cup T
            <7>1. o \in Early /\ HasSet(todo, 2, m, o) /\ o \in OCC
              BY <2>3, <2>4
            <7>2. o \in LeftOff(2, m) \/ o \in LeftOn(2, m)
              BY <7>1 DEF LeftOff, LeftOn
            <7>3. QED
              BY <7>1, <7>2
          <6>2. QED
            BY <6>1
        <5>5. Cardinality(S) + Cardinality(T) = Cardinality(LeftOn(2, m))
          BY <1>t, <5>2, OccSets
        <5>6. Cardinality(LeftOn(2, m)) <= Cardinality(G)
          BY <2>3, <2>4, <5>2, OccSets
        <5> HIDE DEF P, S, T
        <5>7. Cardinality(Q) <= Cardinality(P \cup T)
          BY <2>4, <5>3, <5>4, OccSets
        <5>8. Cardinality(P \cup T) <= Cardinality(P) + Cardinality(T)
          BY <5>3, OccSets
        <5>9. /\ Cardinality(P) \in Nat /\ Cardinality(S) \in Nat
              /\ Cardinality(T) \in Nat /\ Cardinality(P \cup T) \in Nat
              /\ Cardinality(LeftOn(2, m)) \in Nat
          BY <5>2, <5>3, OccSets
        <5>10. QED
          BY <2>4, <5>1, <5>5, <5>6, <5>7, <5>8, <5>9
      <4>3. QED
        BY <4>1, <4>2
    <3>3. QED
      BY <2>4, <3>1, <3>2
  <2>10. QED
    BY <2>7, <2>8, <2>9
<1>5. QED
  BY <1>3, <1>4

\* After the error watch of an active OCC failed nothing else is under way: its
\* deactivation takes it off the count and off the active OCCs.
LEMMA CountedFailed ==
    ASSUME TypeOK, TypeOK', todo # <<>>, HeadsOnly, CountBound, WatchFailed,
           NEW s, Makes(s), s = EndCalls,
           Head(todo).fn = "deactivate", occActive[self], occActive' = occActive
    PROVE  Counted'
<1>1. PICK n : n = Len(s)
  OBVIOUS
<1>2. /\ n = 3 /\ n \in Nat /\ self \in OCC /\ Calls(s) /\ s \in Seq(Frame)
      /\ \A k \in 1 .. (n - 1) : ~ IsSet(s[k])
      /\ \A i : Owed(i)' = 0
      /\ Counting' = OneLess
  BY <1>1, EndLeaves
<1>3. ActiveOccs \subseteq OCC /\ activeCount \in Nat
  BY CountTypes DEF CountsTyped
<1>4. /\ \A i : FinallyOn(i)' \subseteq OCC /\ Cardinality(FinallyOn(i)') \in Nat
  BY CountTypesNext DEF CountsTyped
<1>5. \A k \in 2 .. Len(todo) : \A o : Sets(todo[k], o) => o = self
  <2>1. PICK o \in OCC : \/ todo = <<Call("deviceError", o), Call("setInactive", o)>>
                         \/ todo = <<Call("deactivate", o), Call("resetOCC", o),
                                     Call("setInactive", o)>>
    BY DEF WatchFailed
  <2>2. todo = <<Call("deactivate", o), Call("resetOCC", o), Call("setInactive", o)>>
        /\ o = self
    <3>1. CASE todo = <<Call("deviceError", o), Call("setInactive", o)>>
      <4>1. Head(todo) = Call("deviceError", o)
        BY <3>1
      <4>2. QED
        BY <4>1, CallIs
    <3>2. CASE todo = <<Call("deactivate", o), Call("resetOCC", o), Call("setInactive", o)>>
      <4>1. Head(todo) = Call("deactivate", o)
        BY <3>2
      <4>2. QED
        BY <3>2, <4>1, CallIs DEF self
    <3>3. QED
      BY <2>1, <3>1, <3>2
  <2>3. Len(todo) = 3 /\ todo[2].occ = self /\ todo[3].occ = self
    BY <2>2, CallIs
  <2>4. \A k \in 2 .. Len(todo) : k = 2 \/ k = 3
    BY <2>3
  <2>5. QED
    BY <2>3, <2>4 DEF Sets
<1>6. SUFFICES ASSUME NEW i \in 0 .. Len(todo')
               PROVE  /\ Returning(i)' = {}
                      /\ OneLess <= Cardinality(FinallyOn(i)')
  <2>1. ASSUME NEW i, Returning(i)' = {}, OneLess <= Cardinality(FinallyOn(i)')
        PROVE  Counting' + Cardinality(Returning(i)') + Owed(i)'
                         <= Cardinality(FinallyOn(i)')
    <3>1. OneLess \in Nat /\ Cardinality(Returning(i)') = 0
      BY <1>3, <2>1, FS_EmptySet DEF OneLess
    <3>2. QED
      BY <1>2, <1>4, <2>1, <3>1
  <2>2. QED
    BY <2>1 DEF Counted
<1>7. PICK C : C = ActiveOccs \ {self} /\ C \subseteq OCC
  BY <1>3
<1>8. Cardinality(C) \in Nat /\ Cardinality(ActiveOccs) = Cardinality(C) + 1
  <2>1. self \in ActiveOccs
    BY <1>2 DEF ActiveOccs
  <2>2. Cardinality(C) = Cardinality(ActiveOccs) - 1
    BY <1>3, <1>7, <2>1, OccSets
  <2>3. Cardinality(C) \in Nat /\ Cardinality(ActiveOccs) \in Nat
    BY <1>3, <1>7, OccSets
  <2>4. QED
    BY <2>2, <2>3
<1>9. OneLess <= Cardinality(C)
  BY <1>3, <1>8, LessOne DEF CountBound
<1>10. SUFFICES Returning(i)' = {} /\ C \subseteq FinallyOn(i)'
  <2>1. ASSUME C \subseteq FinallyOn(i)'
        PROVE  OneLess <= Cardinality(FinallyOn(i)')
    <3>1. Cardinality(C) <= Cardinality(FinallyOn(i)')
      BY <1>4, <1>7, <2>1, OccSets
    <3>2. OneLess \in Nat
      BY <1>3 DEF OneLess
    <3>3. QED
      BY <1>4, <1>8, <1>9, <3>1, <3>2
  <2>2. QED
    BY <2>1
<1>11. CASE i \in 0 .. (n - 1)
  <2>1. Returning(i)' = {} /\ FinallyOn(i)' = ActiveOccs'
    BY <1>1, <1>2, <1>11, AmongNew
  <2>2. QED
    BY <1>7, <2>1 DEF ActiveOccs
<1>12. CASE i \notin 0 .. (n - 1)
  <2>1. PICK m \in 1 .. Len(todo) : i = m + n - 1
    BY <1>1, <1>2, <1>12, NewOrOld
  <2>2. \A o : HasSet(todo, 2, m, o) => o = self
    <3>1. \A k \in 2 .. m : k \in 2 .. Len(todo)
      BY <1>2, CallsStack
    <3>2. QED
      BY <1>5, <3>1 DEF HasSet
  <2>3. ~ HasSet(todo, 2, m, self) \/ HasSet(todo, 2, m, self)
    OBVIOUS
  <2>4. C \subseteq FinallyOn(i)'
    <3>1. ASSUME NEW o \in C PROVE o \in FinallyOn(i)'
      <4>1. o \in OCC /\ o # self /\ occActive[o]
        BY <1>7 DEF ActiveOccs
      <4>2. OnAfter(n, o)' <=> occActive[o]
        BY <1>1, <4>1, EndLeaves
      <4>3. OnAfter(m + n - 1, o)' <=> OnAfter(n, o)'
        <5>1. OnAfter(m + n - 1, o)' <=> IF HasSet(todo, 2, m, o) THEN OnAfter(m, o)
                                        ELSE OnAfter(n, o)'
          BY <1>1, <1>2, AfterCalls
        <5>2. QED
          BY <2>2, <4>1, <5>1
      <4>4. QED
        BY <2>1, <4>1, <4>2, <4>3 DEF FinallyOn
    <3>2. QED
      BY <3>1
  <2>5. Returning(i)' = {}
    <3>1. SUFFICES ASSUME NEW o \in Returning(i)' PROVE FALSE
      OBVIOUS
    <3>2. \A u \in Returning(m + n - 1)' : u \in Early /\ HasSet(todo, 2, m, u)
      BY <1>1, EndReturning
    <3>3. o = self /\ HasSet(todo, 2, m, self)
      BY <2>1, <2>2, <3>2
    <3>4. PICK x \in OCC : x = self
      BY <1>2
    <3>5. PICK j \in 1 .. i, k \in 1 .. i : Noisy(j)' /\ ~ OnAfter(j, x)'
      BY <3>3, <3>4 DEF Returning
    <3>6. j = 1
      <4>1. CASE j \in 2 .. n
        BY <1>1, <3>5, <4>1, EndLeaves
      <4>2. CASE j > n
        <5>1. PICK l \in 2 .. Len(todo) : todo'[j] = todo[l]
          <6>1. Len(todo') = Len(todo) + n - 1 /\ Len(todo) \in Nat
            <7>1. Len(todo') = Len(todo) + Len(s) - 1 /\ Len(todo) \in Nat
              BY <1>2, CallsStack
            <7>2. QED
              BY <1>1, <7>1
          <6>2. \A e \in (n + 1) .. Len(todo') :
                   e - n + 1 \in 2 .. Len(todo) /\ todo'[e] = todo[e - n + 1]
            <7>1. \A e \in (Len(s) + 1) .. Len(todo') :
                     e - Len(s) + 1 \in 2 .. Len(todo)
                        /\ todo'[e] = todo[e - Len(s) + 1]
              BY <1>2, CallsStack
            <7>2. QED
              BY <1>1, <7>1
          <6>3. j \in (n + 1) .. Len(todo')
            BY <1>2, <4>2, <6>1
          <6>4. QED
            BY <6>2, <6>3
        <5>2. todo[l].fn \in {"resetOCC", "setInactive"}
          <6>1. PICK u \in OCC :
                   \/ todo = <<Call("deviceError", u), Call("setInactive", u)>>
                   \/ todo = <<Call("deactivate", u), Call("resetOCC", u),
                               Call("setInactive", u)>>
            BY DEF WatchFailed
          <6>2. CASE todo = <<Call("deviceError", u), Call("setInactive", u)>>
            <7>1. Len(todo) = 2 /\ todo[2] = Call("setInactive", u)
              BY <6>2
            <7>2. l = 2
              BY <7>1
            <7>3. QED
              BY <7>1, <7>2, CallIs
          <6>3. CASE todo = <<Call("deactivate", u), Call("resetOCC", u),
                               Call("setInactive", u)>>
            <7>1. Len(todo) = 3 /\ todo[2] = Call("resetOCC", u)
                  /\ todo[3] = Call("setInactive", u)
              BY <6>3
            <7>2. l = 2 \/ l = 3
              BY <7>1
            <7>3. QED
              BY <7>1, <7>2, CallIs
          <6>4. QED
            BY <6>1, <6>2, <6>3
        <5>3. ~ Noisy(j)'
          BY <5>1, <5>2 DEF Noisy, Silent, Ending
        <5>4. QED
          BY <3>5, <5>3
      <4>3. QED
        BY <1>2, <4>1, <4>2
    <3>7. OnAfter(1, x)' <=> occActive[x]
      BY <1>1, EndLeaves
    <3>8. QED
      BY <3>4, <3>5, <3>6, <3>7
  <2>6. QED
    BY <2>4, <2>5
<1>13. QED
  BY <1>11, <1>12

\* Every step keeps Counted.
LEMMA CountedStep ==
    ASSUME TypeOK, TypeOK', todo # <<>>, QueueInv, CountBound, Counted, Balanced,
           HeadsOnly, HeadsOnly', FromQueue, EndsApart, ResetFollows, ClearAlone,
           NEW s, Makes(s)
    PROVE  Counted'
<1>1. CASE Head(todo).fn \notin InStatus
  BY <1>1, CountedOuter
<1>2. CASE Head(todo).fn \in InStatus
  <2>1. Inside(s) /\ self \in OCC /\ s \in Seq(Frame) /\ Head(todo) = todo[1]
    BY <1>2, CallsStack DEF Makes
  <2> USE CallIs DEF Silent, Ending, IsSet
  <2>2. WatchFailed => Head(todo).fn \in Ending /\ occActive[self]
    BY FailedHead
  <2>a. ASSUME NEW f, s = <<f>> PROVE Len(s) = 1 /\ s[1] = f /\ s # <<>>
    BY <2>a
  <2>b. ASSUME NEW f, NEW g, s = <<f, g>>
        PROVE  Len(s) = 2 /\ s[1] = f /\ s[2] = g /\ s # <<>>
    BY <2>b
  <2>c. \A k : (k \in 1 .. (1 - 1) => FALSE) /\ (k \in 1 .. (2 - 1) => k = 1)
    OBVIOUS
  <2>3. CASE s = <<Call("setActive", self)>> /\ occActive' = occActive
             /\ Head(todo).fn = "activate" /\ occActive[self]
    <3>1. ~ WatchFailed
      BY <2>2, <2>3
    <3>2. Len(s) = 1 /\ s[1] = Call("setActive", self) /\ s # <<>>
      BY <2>3, <2>a
    <3>3. QED
      BY <1>2, <2>3, <2>c, <3>1, <3>2, CountedPlain
  <2>4. CASE /\ s = <<Call("wentActive", self), Call("setActive", self)>>
             /\ Head(todo).fn = "activate" /\ ~ occActive[self]
             /\ occActive' = [occActive EXCEPT ![self] = TRUE]
    BY <2>4, CountedBegin
  <2>5. CASE /\ s = <<Call("deviceError", self), Call("setInactive", self)>>
             /\ Head(todo).fn = "activate" /\ occActive' = occActive
    <3>1. CASE occActive[self]
      <4>1. WatchFailed'
        BY <2>1, <2>5, <3>1, WatchFails
      <4>2. QED
        BY <4>1 DEF Counted
    <3>2. CASE ~ occActive[self]
      <4>1. ~ WatchFailed
        BY <2>2, <2>5
      <4>2. /\ Len(s) = 2 /\ s[1] = Call("deviceError", self)
            /\ s[2] = Call("setInactive", self) /\ s # <<>>
        BY <2>5, <2>b
      <4>3. QED
        BY <1>2, <2>5, <2>c, <3>2, <4>1, <4>2, CountedPlain
    <3>3. QED
      BY <3>1, <3>2
  <2>6. CASE s = EndCalls /\ Head(todo).fn = "deactivate" /\ occActive[self]
             /\ occActive' = occActive
    BY <2>6, CountedEnd, CountedFailed
  <2>7. CASE s = <<Call("setInactive", self)>> /\ ~ occActive[self]
             /\ Head(todo).fn = "deactivate" /\ occActive' = occActive
    <3>1. ~ WatchFailed
      BY <2>2, <2>7
    <3>2. Len(s) = 1 /\ s[1] = Call("setInactive", self) /\ s # <<>>
      BY <2>7, <2>a
    <3>3. QED
      BY <1>2, <2>7, <2>c, <3>1, <3>2, CountedPlain
  <2>8. CASE IsSet(Head(todo))
    BY <2>8, CountedReturn
  <2>9. CASE /\ s = <<Call("deactivate", self), Call("resetOCC", self)>>
             /\ Head(todo).fn = "deviceError" /\ occActive' = occActive
    <3>1. CASE WatchFailed
      <4>1. WatchFailed'
        BY <2>9, <3>1, WatchStaysFailed
      <4>2. QED
        BY <4>1 DEF Counted
    <3>2. CASE ~ WatchFailed
      <4>1. /\ Len(s) = 2 /\ s[1] = Call("deactivate", self)
            /\ s[2] = Call("resetOCC", self) /\ s # <<>>
        BY <2>9, <2>b
      <4>2. occActive[self] => Noisy(1)
        BY <2>1, <2>9 DEF Noisy, self
      <4>3. QED
        BY <1>2, <2>9, <2>c, <3>2, <4>1, <4>2, CountedPlain
    <3>3. QED
      BY <3>1, <3>2
  <2>10. CASE /\ s = <<Call("deactivate", self), Call("resetOccRequest", self)>>
              /\ Head(todo).fn = "resetOCC" /\ occActive' = occActive
    <3>1. ~ WatchFailed /\ ~ occActive[self]
      BY <2>2, <2>10 DEF ResetFollows, HeadIs
    <3>2. /\ Len(s) = 2 /\ s[1] = Call("deactivate", self)
          /\ s[2] = Call("resetOccRequest", self) /\ s # <<>>
      BY <2>10, <2>b
    <3>3. QED
      BY <1>2, <2>10, <2>c, <3>1, <3>2, CountedPlain
  <2>11. QED
    BY <2>1, <2>3, <2>4, <2>5, <2>6, <2>7, <2>8, <2>9, <2>10 DEF Inside, EndCalls
<1>3. QED
  BY <1>1, <1>2

\* The count is bounded when a call returns, as Counted says it is.
LEMMA BoundStep ==
    ASSUME TypeOK, TypeOK', todo # <<>>, CountBound, Counted, NEW s, Makes(s)
    PROVE  CountBound'
<1>t. /\ \A i : Cardinality(Returning(i)) \in Nat /\ Cardinality(FinallyOn(i)) \in Nat
      /\ \A i : Owed(i) \in {0, 1} /\ Counting \in Nat
      /\ FinallyOn(0) = ActiveOccs /\ ActiveOccs \subseteq OCC /\ activeCount \in Nat
  BY CountTypes DEF CountsTyped
<1>u. ActiveOccs' \subseteq OCC /\ activeCount' \in Nat
  BY CountTypesNext DEF CountsTyped
<1>l. 0 \in 0 .. Len(todo) /\ 1 \in 0 .. Len(todo)
  BY CallsStack DEF Makes
<1>1. CASE Head(todo).fn \notin InStatus
  <2>1. ~ WatchFailed
    BY <1>1, FailedHead DEF InStatus, Ending
  <2>2. Counting + Cardinality(Returning(0)) + Owed(0) <= Cardinality(FinallyOn(0))
    BY <1>l, <2>1 DEF Counted
  <2>3. activeCount' <= Counting + Owed(0) /\ ActiveOccs' = ActiveOccs
    BY <1>1 DEF Makes, ActiveOccs
  <2>4. Owed(0) = 0 \/ Owed(0) = 1
    BY <1>t
  <2>5. Cardinality(ActiveOccs) \in Nat
    BY <1>t
  <2>6. activeCount' <= Cardinality(ActiveOccs)
    BY <1>t, <1>u, <2>2, <2>3, <2>4, <2>5
  <2>7. QED
    BY <2>3, <2>6 DEF CountBound
<1>2. CASE IsSet(Head(todo))
  <2>1. ~ WatchFailed /\ Counting = activeCount /\ activeCount' = activeCount
    BY <1>2, FailedHead DEF IsSet, Ending, Counting, HeadIs, Makes, InStatus
  <2>2. activeCount + Cardinality(Returning(1)) + Owed(1) <= Cardinality(FinallyOn(1))
    BY <1>l, <2>1 DEF Counted
  <2>3. FinallyOn(1) = ActiveOccs'
    <3>1. occActive' = [occActive EXCEPT ![self] = Head(todo).fn = "setActive"]
          /\ self \in OCC
      BY <1>2 DEF Makes, InStatus, IsSet, Inside
    <3>2. \A o \in OCC : OnAfter(1, o) <=> occActive'[o]
      BY <1>2, <3>1, AfterHead DEF Sets, TypeOK, DataOK, self
    <3>3. QED
      BY <3>2 DEF FinallyOn, ActiveOccs
  <2>4. Owed(1) = 0 \/ Owed(1) = 1
    BY <1>t
  <2>5. activeCount <= Cardinality(FinallyOn(1))
    BY <1>t, <2>2, <2>4
  <2>6. QED
    BY <2>1, <2>3, <2>5 DEF CountBound
<1>3. CASE Head(todo).fn \in InStatus /\ ~ IsSet(Head(todo))
  <2>1. ActiveOccs \subseteq ActiveOccs' /\ activeCount' = activeCount
    BY <1>3 DEF Makes, Inside, ActiveOccs, TypeOK, DataOK
  <2>2. Cardinality(ActiveOccs) <= Cardinality(ActiveOccs')
    BY <1>t, <1>u, <2>1, OccSets
  <2>3. Cardinality(ActiveOccs) \in Nat /\ Cardinality(ActiveOccs') \in Nat
    BY <1>t, <1>u, OccSets
  <2>4. QED
    BY <1>t, <2>1, <2>2, <2>3 DEF CountBound
<1>4. QED
  BY <1>1, <1>2, <1>3

\* A part of the stack below the head, in the old stack and in the new one
LEMMA LaterPart ==
    ASSUME TypeOK, todo # <<>>, NEW s \in Seq(Frame), Calls(s),
           NEW n \in Nat, n = Len(s),
           NEW m \in 1 .. Len(todo), NEW l \in 2 .. (m + 1)
    PROVE  /\ \A o : HasSet(todo', l + (n - 1), m + (n - 1), o)
                        <=> HasSet(todo, l, m, o)
           /\ \A o : EndsOn(todo', l + (n - 1), m + (n - 1), o)
                        <=> EndsOn(todo, l, m, o)
           /\ FirstOff(l + (n - 1), m + (n - 1))' <=> FirstOff(l, m)
<1>1. PICK d \in Int, c \in Int, e \in Int : d = n - 1 /\ c = l + d /\ e = m + d
  OBVIOUS
<1>2. Len(todo) \in Nat /\ m \in Int /\ l \in Int
  BY CallsStack
<1>3. \A k \in l .. m : todo'[k + d] = todo[k]
  <2>1. \A k \in 2 .. Len(todo) : todo'[k + (Len(s) - 1)] = todo[k]
    BY CallsStack
  <2>2. \A k \in l .. m : k \in 2 .. Len(todo)
    BY <1>2
  <2>3. QED
    BY <1>1, <2>1, <2>2
<1>4. c - l = e - m /\ \A k \in l .. m : todo'[k + (c - l)] = todo[k]
  BY <1>1, <1>2, <1>3
<1>5. ASSUME NEW o
      PROVE  /\ HasSet(todo', c, e, o) <=> HasSet(todo, l, m, o)
             /\ EndsOn(todo', c, e, o) <=> EndsOn(todo, l, m, o)
  BY <1>2, <1>4, ShiftSets
<1>6. FirstOff(c, e)' <=> FirstOff(l, m)
  <2>1. ASSUME NEW k \in l .. m
        PROVE  (\A j \in l .. (k - 1) : ~ IsSet(todo[j]))
                  <=> (\A j \in c .. (k + d - 1) : ~ IsSet(todo'[j]))
    <3>1. \A j \in l .. (k - 1) : j + d \in c .. (k + d - 1) /\ todo'[j + d] = todo[j]
      BY <1>1, <1>2, <1>3
    <3>2. \A j \in c .. (k + d - 1) : j - d \in l .. (k - 1)
      BY <1>1, <1>2
    <3>3. \A j \in c .. (k + d - 1) : todo'[j] = todo[j - d]
      <4>1. \A j \in c .. (k + d - 1) : (j - d) + d = j
        BY <1>1
      <4>2. QED
        BY <3>1, <3>2, <4>1
    <3>4. QED
      BY <3>1, <3>2, <3>3
  <2>2. ASSUME FirstOff(l, m) PROVE FirstOff(c, e)'
    <3>1. PICK k \in l .. m : /\ todo[k].fn = "setInactive"
                              /\ \A j \in l .. (k - 1) : ~ IsSet(todo[j])
      BY <2>2 DEF FirstOff
    <3>2. /\ k + d \in c .. e /\ todo'[k + d] = todo[k]
          /\ \A j \in c .. (k + d - 1) : ~ IsSet(todo'[j])
      <4>1. k + d \in c .. e /\ todo'[k + d] = todo[k]
        BY <1>1, <1>2, <1>3
      <4>2. \A j \in c .. (k + d - 1) : ~ IsSet(todo'[j])
        BY <2>1, <3>1
      <4>3. QED
        BY <4>1, <4>2
    <3>3. QED
      BY <3>1, <3>2 DEF FirstOff
  <2>3. ASSUME FirstOff(c, e)' PROVE FirstOff(l, m)
    <3>1. PICK h \in c .. e : /\ todo'[h].fn = "setInactive"
                              /\ \A j \in c .. (h - 1) : ~ IsSet(todo'[j])
      BY <2>3 DEF FirstOff
    <3>2. PICK k \in l .. m : h = k + d
      <4>1. h - d \in l .. m /\ h = (h - d) + d
        BY <1>1, <1>2
      <4>2. PICK k \in l .. m : k = h - d
        BY <4>1
      <4>3. QED
        BY <4>1, <4>2
    <3>3. todo[k].fn = "setInactive" /\ \A j \in l .. (k - 1) : ~ IsSet(todo[j])
      <4>1. \A j \in c .. (k + d - 1) : ~ IsSet(todo'[j])
        <5>1. k + d - 1 = h - 1
          BY <3>2
        <5>2. QED
          BY <3>1, <5>1
      <4>2. \A j \in l .. (k - 1) : ~ IsSet(todo[j])
        BY <2>1, <4>1
      <4>3. todo'[h] = todo[k]
        BY <1>3, <3>2
      <4>4. QED
        BY <3>1, <4>2, <4>3
    <3>4. QED
      BY <3>3 DEF FirstOff
  <2>4. QED
    BY <2>2, <2>3
<1>7. QED
  BY <1>1, <1>5, <1>6

\* ... and one that begins among the new calls
LEMMA NewPart ==
    ASSUME TypeOK, todo # <<>>, NEW s \in Seq(Frame), Calls(s),
           NEW n \in Nat, n = Len(s), n > 0, \A k \in 1 .. (n - 1) : ~ IsSet(s[k]),
           NEW m \in 1 .. Len(todo), NEW a \in 1 .. n
    PROVE  /\ \A o : HasSet(todo', a, m + (n - 1), o)
                        <=> Sets(s[n], o) \/ HasSet(todo, 2, m, o)
           /\ \A o : EndsOn(todo', a, m + (n - 1), o)
                        <=> IF HasSet(todo, 2, m, o) THEN EndsOn(todo, 2, m, o)
                            ELSE Sets(s[n], o) /\ s[n].fn = "setActive"
           /\ FirstOff(a, m + (n - 1))'
                 <=> IF IsSet(s[n]) THEN s[n].fn = "setInactive"
                     ELSE FirstOff(2, m)
<1>0. Len(todo) \in Nat /\ m \in Int
  BY CallsStack
<1>1. PICK e \in Int : e = m + (n - 1)
  <2>1. m + (n - 1) \in Int
    BY <1>0
  <2>2. QED
    BY <2>1
<1>2. /\ Len(todo) \in Nat /\ Len(todo) > 0 /\ m \in Int /\ n <= e /\ a <= n + 1
      /\ \A k \in 1 .. n : todo'[k] = s[k]
  BY <1>1, CallsStack
<1>3. /\ \A o : HasSet(todo', 2 + (n - 1), e, o) <=> HasSet(todo, 2, m, o)
      /\ \A o : EndsOn(todo', 2 + (n - 1), e, o) <=> EndsOn(todo, 2, m, o)
      /\ FirstOff(2 + (n - 1), e)' <=> FirstOff(2, m)
  <2>1. 2 \in 2 .. (m + 1)
    BY <1>2
  <2>2. \A o : HasSet(todo', 2 + (n - 1), m + (n - 1), o) <=> HasSet(todo, 2, m, o)
    BY <2>1, LaterPart
  <2>3. \A o : EndsOn(todo', 2 + (n - 1), m + (n - 1), o) <=> EndsOn(todo, 2, m, o)
    BY <2>1, LaterPart
  <2>4. FirstOff(2 + (n - 1), m + (n - 1))' <=> FirstOff(2, m)
    BY <2>1, LaterPart
  <2>5. QED
    BY <1>1, <2>2, <2>3, <2>4
<1>4. 2 + (n - 1) = n + 1
  OBVIOUS
<1>5. ASSUME NEW o
      PROVE  /\ HasSet(todo', a, n, o) <=> Sets(s[n], o)
             /\ EndsOn(todo', a, n, o) <=> Sets(s[n], o) /\ s[n].fn = "setActive"
  <2>1. n \in a .. n /\ (n + 1) .. n = {} /\ todo'[n] = s[n]
    BY <1>2
  <2>2. ASSUME NEW k \in a .. n, Sets(todo'[k], o) PROVE k = n
    <3>1. k = n \/ k \in 1 .. (n - 1)
      OBVIOUS
    <3>2. QED
      BY <1>2, <2>2, <3>1 DEF Sets
  <2>3. HasSet(todo', a, n, o) <=> Sets(s[n], o)
    BY <2>1, <2>2 DEF HasSet
  <2>4. EndsOn(todo', a, n, o) <=> Sets(s[n], o) /\ s[n].fn = "setActive"
    BY <2>1, <2>2 DEF EndsOn
  <2>5. QED
    BY <2>3, <2>4
<1>6. ASSUME NEW o
      PROVE  /\ HasSet(todo', a, e, o)
                   <=> HasSet(todo', a, n, o) \/ HasSet(todo', n + 1, e, o)
             /\ EndsOn(todo', a, e, o)
                   <=> IF HasSet(todo', n + 1, e, o) THEN EndsOn(todo', n + 1, e, o)
                       ELSE EndsOn(todo', a, n, o)
  <2>1. a \in Int /\ n \in Int
    OBVIOUS
  <2>2. QED
    BY <1>2, <2>1, SplitSets
<1>7. FirstOff(a, e)' <=> IF IsSet(s[n]) THEN s[n].fn = "setInactive"
                          ELSE FirstOff(n + 1, e)'
  <2>1. \A k \in a .. (n - 1) : ~ IsSet(todo'[k])
    BY <1>2
  <2>2. n \in a .. e /\ todo'[n] = s[n]
    BY <1>2
  <2>3. CASE IsSet(s[n])
    <3>1. ASSUME s[n].fn = "setInactive" PROVE FirstOff(a, e)'
      BY <2>1, <2>2, <3>1 DEF FirstOff
    <3>2. ASSUME FirstOff(a, e)' PROVE s[n].fn = "setInactive"
      <4>1. PICK k \in a .. e : /\ todo'[k].fn = "setInactive"
                                /\ \A j \in a .. (k - 1) : ~ IsSet(todo'[j])
        BY <3>2 DEF FirstOff
      <4>2. k \notin a .. (n - 1)
        BY <2>1, <4>1 DEF IsSet
      <4>3. n \notin a .. (k - 1)
        BY <2>2, <2>3, <4>1
      <4>4. k = n
        BY <4>2, <4>3
      <4>5. QED
        BY <2>2, <4>1, <4>4
    <3>3. QED
      BY <2>3, <3>1, <3>2
  <2>4. CASE ~ IsSet(s[n])
    <3>0. \A k \in a .. n : ~ IsSet(todo'[k])
      <4>1. \A k \in a .. n : k \in a .. (n - 1) \/ k = n
        OBVIOUS
      <4>2. QED
        BY <2>1, <2>2, <2>4, <4>1
    <3>1. ASSUME FirstOff(n + 1, e)' PROVE FirstOff(a, e)'
      <4>1. PICK k \in (n + 1) .. e : /\ todo'[k].fn = "setInactive"
                                      /\ \A j \in (n + 1) .. (k - 1) : ~ IsSet(todo'[j])
        BY <3>1 DEF FirstOff
      <4>2. \A j \in a .. (k - 1) : j \in a .. n \/ j \in (n + 1) .. (k - 1)
        OBVIOUS
      <4>3. k \in a .. e
        OBVIOUS
      <4>4. QED
        BY <3>0, <4>1, <4>2, <4>3 DEF FirstOff
    <3>2. ASSUME FirstOff(a, e)' PROVE FirstOff(n + 1, e)'
      <4>1. PICK k \in a .. e : /\ todo'[k].fn = "setInactive"
                                /\ \A j \in a .. (k - 1) : ~ IsSet(todo'[j])
        BY <3>2 DEF FirstOff
      <4>2. k \notin a .. n
        BY <3>0, <4>1 DEF IsSet
      <4>3. k \in (n + 1) .. e /\ \A j \in (n + 1) .. (k - 1) : j \in a .. (k - 1)
        BY <4>2
      <4>4. QED
        BY <4>1, <4>3 DEF FirstOff
    <3>3. QED
      BY <2>4, <3>1, <3>2
  <2>5. QED
    BY <2>3, <2>4
<1>8. QED
  BY <1>1, <1>3, <1>4, <1>5, <1>6, <1>7

\* The types of what Even compares
LEMMA PartTypes ==
    TypeOK => \A a, b :
       /\ LeftOff(a, b) \subseteq OCC /\ LeftOn(a, b) \subseteq OCC
       /\ LeftOff(a, b) \cap Early \subseteq OCC /\ LeftOn(a, b) \ Early \subseteq OCC
       /\ Cardinality(LeftOff(a, b) \cap Early) \in Nat
       /\ Cardinality(LeftOn(a, b) \ Early) \in Nat
       /\ Bonus(a, b) \in {0, 1}
<1> SUFFICES ASSUME TypeOK, NEW a, NEW b
             PROVE  /\ LeftOff(a, b) \subseteq OCC /\ LeftOn(a, b) \subseteq OCC
                    /\ LeftOff(a, b) \cap Early \subseteq OCC
                    /\ LeftOn(a, b) \ Early \subseteq OCC
                    /\ Cardinality(LeftOff(a, b) \cap Early) \in Nat
                    /\ Cardinality(LeftOn(a, b) \ Early) \in Nat
                    /\ Bonus(a, b) \in {0, 1}
  OBVIOUS
<1>1. LeftOff(a, b) \subseteq OCC /\ LeftOn(a, b) \subseteq OCC
  BY DEF LeftOff, LeftOn
<1>2. LeftOff(a, b) \cap Early \subseteq OCC /\ LeftOn(a, b) \ Early \subseteq OCC
  BY <1>1
<1>3. QED
  BY <1>1, <1>2, OccSets DEF Bonus

LEMMA PartTypesNext ==
    TypeOK' => (\A a, b :
       /\ LeftOff(a, b) \subseteq OCC /\ LeftOn(a, b) \subseteq OCC
       /\ LeftOff(a, b) \cap Early \subseteq OCC /\ LeftOn(a, b) \ Early \subseteq OCC
       /\ Cardinality(LeftOff(a, b) \cap Early) \in Nat
       /\ Cardinality(LeftOn(a, b) \ Early) \in Nat
       /\ Bonus(a, b) \in {0, 1})'
BY PartTypes, PTL

\* A part of the stack below the new calls is as even as it was.
LEMMA EvenLater ==
    ASSUME TypeOK, TypeOK', todo # <<>>, NEW s \in Seq(Frame), Calls(s),
           NEW n \in Nat, n = Len(s), Early' \subseteq Early,
           NEW m \in 1 .. Len(todo), NEW l \in 2 .. (m + 1), Even(l, m),
           NEW a, a = l + (n - 1), NEW b, b = m + (n - 1),
           a = 1 => ~ HeadIs({"activate"})'
    PROVE  Even(a, b)'
<1>1. PICK L, M, E, F : L = LeftOff(l, m) /\ M = LeftOn(l, m) /\ E = Early /\ F = Early'
  OBVIOUS
<1>2. \A o : HasSet(todo', a, b, o) <=> HasSet(todo, l, m, o)
  BY LaterPart
<1>3. \A o : EndsOn(todo', a, b, o) <=> EndsOn(todo, l, m, o)
  BY LaterPart
<1>4. FirstOff(a, b)' <=> FirstOff(l, m)
  <2>1. FirstOff(l + (n - 1), m + (n - 1))' <=> FirstOff(l, m)
    BY LaterPart
  <2>2. QED
    BY <2>1
<1>5. LeftOff(a, b)' = L /\ LeftOn(a, b)' = M
  BY <1>1, <1>2, <1>3 DEF LeftOff, LeftOn
<1>6. Bonus(a, b)' = 0 /\ Bonus(l, m) = 0
  BY DEF Bonus
<1>7. /\ L \subseteq OCC /\ M \subseteq OCC /\ F \subseteq E
      /\ L \cap F \subseteq OCC /\ M \ F \subseteq OCC
      /\ L \cap E \subseteq OCC /\ M \ E \subseteq OCC
  BY <1>1, PartTypes
<1>8. /\ Cardinality(L \cap F) <= Cardinality(L \cap E)
      /\ Cardinality(M \ E) <= Cardinality(M \ F)
      /\ Cardinality(L \cap F) \in Nat /\ Cardinality(L \cap E) \in Nat
      /\ Cardinality(M \ F) \in Nat /\ Cardinality(M \ E) \in Nat
  <2>1. L \cap F \subseteq L \cap E /\ M \ E \subseteq M \ F
    BY <1>7
  <2>2. QED
    BY <1>7, <2>1, OccSets
<1>9. Cardinality(L \cap E) + 0 <= Cardinality(M \ E) + (IF FirstOff(l, m) THEN 1 ELSE 0)
  BY <1>1, <1>6 DEF Even
<1>10. Cardinality(L \cap F) + 0 <= Cardinality(M \ F) + (IF FirstOff(l, m) THEN 1 ELSE 0)
  BY <1>8, <1>9
<1>11. Cardinality(LeftOff(a, b)' \cap Early') + Bonus(a, b)'
          <= Cardinality(LeftOn(a, b)' \ Early') + (IF FirstOff(a, b)' THEN 1 ELSE 0)
  BY <1>1, <1>4, <1>5, <1>6, <1>10
<1>12. QED
  BY <1>11 DEF Even

\* So is one that begins among new calls that assign nothing.
LEMMA EvenPlain ==
    ASSUME TypeOK, TypeOK', todo # <<>>, NEW s \in Seq(Frame), Calls(s),
           NEW n \in Nat, n = Len(s), n > 0, \A k \in 1 .. n : ~ IsSet(s[k]),
           Early' \subseteq Early,
           NEW m \in 1 .. Len(todo), NEW a \in 1 .. n, Even(2, m),
           NEW b, b = m + (n - 1),
           HeadIs({"activate"})' => Head(todo').occ \in Early \ Early'
    PROVE  Even(a, b)'
<1>1. PICK L, M, E, F, u : /\ L = LeftOff(2, m) /\ M = LeftOn(2, m)
                           /\ E = Early /\ F = Early' /\ u = Head(todo').occ
  OBVIOUS
<1>2. \A k \in 1 .. (n - 1) : ~ IsSet(s[k])
  OBVIOUS
<1>3. ~ IsSet(s[n]) /\ \A o : ~ Sets(s[n], o)
  <2>1. n \in 1 .. n
    OBVIOUS
  <2>2. QED
    BY <2>1 DEF Sets
<1>4. \A o : HasSet(todo', a, b, o) <=> HasSet(todo, 2, m, o)
  <2>1. \A o : HasSet(todo', a, m + (n - 1), o)
                        <=> Sets(s[n], o) \/ HasSet(todo, 2, m, o)
    BY <1>2, NewPart
  <2>2. QED
    BY <1>3, <2>1
<1>5. \A o : EndsOn(todo', a, b, o) <=> EndsOn(todo, 2, m, o)
  <2>1. \A o : EndsOn(todo', a, m + (n - 1), o)
                        <=> IF HasSet(todo, 2, m, o) THEN EndsOn(todo, 2, m, o)
                            ELSE Sets(s[n], o) /\ s[n].fn = "setActive"
    BY <1>2, NewPart
  <2>2. QED
    BY <1>3, <2>1, EndsHas
<1>6. FirstOff(a, b)' <=> FirstOff(2, m)
  <2>1. FirstOff(a, m + (n - 1))'
                 <=> IF IsSet(s[n]) THEN s[n].fn = "setInactive"
                     ELSE FirstOff(2, m)
    BY <1>2, NewPart
  <2>2. QED
    BY <1>3, <2>1
<1>7. LeftOff(a, b)' = L /\ LeftOn(a, b)' = M
  BY <1>1, <1>4, <1>5 DEF LeftOff, LeftOn
<1>8. /\ L \subseteq OCC /\ M \subseteq OCC /\ F \subseteq E
      /\ L \cap F \subseteq OCC /\ M \ F \subseteq OCC
      /\ L \cap E \subseteq OCC /\ M \ E \subseteq OCC
  BY <1>1, PartTypes
<1>9. /\ Cardinality(L \cap F) <= Cardinality(L \cap E)
      /\ Cardinality(M \ E) <= Cardinality(M \ F)
      /\ Cardinality(L \cap F) \in Nat /\ Cardinality(L \cap E) \in Nat
      /\ Cardinality(M \ F) \in Nat /\ Cardinality(M \ E) \in Nat
  <2>1. L \cap F \subseteq L \cap E /\ M \ E \subseteq M \ F
    BY <1>8
  <2>2. QED
    BY <1>8, <2>1, OccSets
<1>10. Cardinality(L \cap E) <= Cardinality(M \ E) + (IF FirstOff(2, m) THEN 1 ELSE 0)
  <2>1. Bonus(2, m) = 0
    BY DEF Bonus
  <2>2. Cardinality(L \cap E) + 0
           <= Cardinality(M \ E) + (IF FirstOff(2, m) THEN 1 ELSE 0)
    BY <1>1, <2>1 DEF Even
  <2>3. QED
    BY <1>9, <2>2
<1>11. Cardinality(L \cap F) + Bonus(a, b)'
          <= Cardinality(M \ F) + (IF FirstOff(2, m) THEN 1 ELSE 0)
  <2>1. CASE Bonus(a, b)' = 0
    BY <1>9, <1>10, <2>1
  <2>2. CASE Bonus(a, b)' # 0
    <3>1. Bonus(a, b)' = 1 /\ HeadIs({"activate"})' /\ HasSet(todo', a, b, u)
      BY <1>1, <2>2 DEF Bonus
    <3>2. u \in E \ F /\ HasSet(todo, 2, m, u) /\ u \in OCC
      BY <1>1, <1>4, <3>1 DEF Early, TypeOK, DataOK
    <3>3. u \in L \/ u \in M
      BY <1>1, <3>2 DEF LeftOff, LeftOn
    <3>4. CASE u \in L
      <4>1. L \cap F \subseteq (L \cap E) \ {u} /\ u \in L \cap E
            /\ (L \cap E) \ {u} \subseteq OCC
        BY <1>8, <3>2, <3>4
      <4>2. Cardinality((L \cap E) \ {u}) = Cardinality(L \cap E) - 1
        BY <1>8, <4>1, OccSets
      <4>3. Cardinality(L \cap F) <= Cardinality((L \cap E) \ {u})
        BY <1>8, <4>1, OccSets
      <4>4. QED
        BY <1>9, <1>10, <3>1, <4>2, <4>3, SMTT(20)
    <3>5. CASE u \in M
      <4>1. M \ E \subseteq (M \ F) \ {u} /\ u \in M \ F
            /\ (M \ F) \ {u} \subseteq OCC
        BY <1>8, <3>2, <3>5
      <4>2. Cardinality((M \ F) \ {u}) = Cardinality(M \ F) - 1
        BY <1>8, <4>1, OccSets
      <4>3. Cardinality(M \ E) <= Cardinality((M \ F) \ {u})
        BY <1>8, <4>1, OccSets
      <4>4. QED
        BY <1>9, <1>10, <3>1, <4>2, <4>3, SMTT(20)
    <3>6. QED
      BY <3>3, <3>4, <3>5
  <2>3. QED
    BY <2>1, <2>2
<1>12. Cardinality(LeftOff(a, b)' \cap Early') + Bonus(a, b)'
          <= Cardinality(LeftOn(a, b)' \ Early') + (IF FirstOff(a, b)' THEN 1 ELSE 0)
  BY <1>1, <1>6, <1>7, <1>11
<1>13. QED
  BY <1>12 DEF Even

\* A deactivation: it may leave inactive one more OCC of the queue.
LEMMA EvenOff ==
    ASSUME TypeOK, TypeOK', todo # <<>>, NEW s \in Seq(Frame), Calls(s),
           NEW n \in Nat, n = Len(s), n > 0, \A k \in 1 .. (n - 1) : ~ IsSet(s[k]),
           NEW x \in OCC, Sets(s[n], x), s[n].fn = "setInactive",
           Early' = Early,
           NEW m \in 1 .. Len(todo), NEW a \in 1 .. n, Even(2, m),
           x \in Early /\ ~ HasSet(todo, 2, m, x) => ~ FirstOff(2, m),
           NEW b, b = m + (n - 1), ~ HeadIs({"activate"})'
    PROVE  Even(a, b)'
<1>1. PICK L, M, E, K, P : /\ L = LeftOff(2, m) /\ M = LeftOn(2, m) /\ E = Early
                           /\ K = LeftOff(a, b)' /\ P = LeftOn(a, b)'
  OBVIOUS
<1>3. IsSet(s[n]) /\ \A o : Sets(s[n], o) <=> o = x
  BY DEF Sets
<1>4. \A o : HasSet(todo', a, b, o) <=> o = x \/ HasSet(todo, 2, m, o)
  <2>1. \A o : HasSet(todo', a, m + (n - 1), o)
                        <=> Sets(s[n], o) \/ HasSet(todo, 2, m, o)
    BY NewPart
  <2>2. QED
    BY <1>3, <2>1
<1>5. \A o : EndsOn(todo', a, b, o) <=> EndsOn(todo, 2, m, o)
  <2>1. \A o : EndsOn(todo', a, m + (n - 1), o)
                        <=> IF HasSet(todo, 2, m, o) THEN EndsOn(todo, 2, m, o)
                            ELSE Sets(s[n], o) /\ s[n].fn = "setActive"
    BY NewPart
  <2>2. QED
    BY <1>3, <2>1, EndsHas
<1>6. FirstOff(a, b)'
  <2>1. FirstOff(a, m + (n - 1))'
                 <=> IF IsSet(s[n]) THEN s[n].fn = "setInactive"
                     ELSE FirstOff(2, m)
    BY NewPart
  <2>2. QED
    BY <1>3, <2>1
<1>7. P = M /\ K \subseteq L \cup {x} /\ (HasSet(todo, 2, m, x) => K = L)
  BY <1>1, <1>4, <1>5 DEF LeftOff, LeftOn
<1>8. /\ L \subseteq OCC /\ M \subseteq OCC /\ K \subseteq OCC
      /\ L \cap E \subseteq OCC /\ M \ E \subseteq OCC /\ K \cap E \subseteq OCC
      /\ (L \cap E) \cup {x} \subseteq OCC /\ {x} \subseteq OCC
  <2>1. L \subseteq OCC /\ M \subseteq OCC
    BY <1>1, PartTypes
  <2>2. QED
    BY <1>7, <2>1
<1>9. /\ Cardinality(K \cap E) \in Nat /\ Cardinality(L \cap E) \in Nat
      /\ Cardinality(M \ E) \in Nat
  BY <1>8, OccSets
<1>10. Cardinality(L \cap E) <= Cardinality(M \ E) + (IF FirstOff(2, m) THEN 1 ELSE 0)
  <2>1. Bonus(2, m) = 0
    BY DEF Bonus
  <2>2. Cardinality(L \cap E) + 0
           <= Cardinality(M \ E) + (IF FirstOff(2, m) THEN 1 ELSE 0)
    BY <1>1, <2>1 DEF Even
  <2>3. QED
    BY <1>9, <2>2
<1>11. Cardinality(K \cap E) <= Cardinality(M \ E) + 1
  <2>1. CASE HasSet(todo, 2, m, x) \/ x \notin E
    <3>1. K \cap E \subseteq L \cap E
      BY <1>7, <2>1
    <3>2. Cardinality(K \cap E) <= Cardinality(L \cap E)
      BY <1>8, <3>1, OccSets
    <3>3. QED
      BY <1>9, <1>10, <3>2
  <2>2. CASE ~ HasSet(todo, 2, m, x) /\ x \in E
    <3>1. K \cap E \subseteq (L \cap E) \cup {x}
      BY <1>7
    <3>2. Cardinality(K \cap E) <= Cardinality((L \cap E) \cup {x})
      BY <1>8, <3>1, OccSets
    <3>3. Cardinality((L \cap E) \cup {x}) <= Cardinality(L \cap E) + Cardinality({x})
      BY <1>8, OccSets
    <3>4. Cardinality({x}) = 1 /\ Cardinality((L \cap E) \cup {x}) \in Nat
      BY <1>8, FS_Singleton, OccSets
    <3>5. ~ FirstOff(2, m)
      BY <1>1, <2>2
    <3>6. Cardinality(L \cap E) <= Cardinality(M \ E)
      BY <1>9, <1>10, <3>5
    <3>7. QED
      BY <1>9, <3>2, <3>3, <3>4, <3>6
  <2>3. QED
    BY <2>1, <2>2
<1>12. Bonus(a, b)' = 0
  BY DEF Bonus
<1>13. Cardinality(LeftOff(a, b)' \cap Early') + Bonus(a, b)'
          <= Cardinality(LeftOn(a, b)' \ Early') + (IF FirstOff(a, b)' THEN 1 ELSE 0)
  <2>1. Cardinality(K \cap E) + 0 <= Cardinality(P \ E) + (IF FirstOff(a, b)' THEN 1 ELSE 0)
    BY <1>6, <1>7, <1>9, <1>11
  <2>2. QED
    BY <1>1, <1>12, <2>1
<1>14. QED
  BY <1>13 DEF Even

\* An activation: what it leaves active is not from the queue.
LEMMA EvenOn ==
    ASSUME TypeOK, TypeOK', todo # <<>>, NEW s \in Seq(Frame), Calls(s),
           NEW n \in Nat, n = Len(s), n > 0, \A k \in 1 .. (n - 1) : ~ IsSet(s[k]),
           NEW x \in OCC, Sets(s[n], x), s[n].fn = "setActive",
           Early' = Early, HeadIs({"activate"}), x = Head(todo).occ,
           NEW m \in 1 .. Len(todo), NEW a \in 1 .. n, Even(1, m),
           x \notin Early \/ m = 1,
           NEW b, b = m + (n - 1), ~ HeadIs({"activate"})'
    PROVE  Even(a, b)'
<1>1. PICK L, M, E, K, P : /\ L = LeftOff(1, m) /\ M = LeftOn(1, m) /\ E = Early
                           /\ K = LeftOff(a, b)' /\ P = LeftOn(a, b)'
  OBVIOUS
<1>2. IsSet(s[n]) /\ \A o : Sets(s[n], o) <=> o = x
  BY DEF Sets
<1>3. /\ \A o : HasSet(todo, 1, m, o) <=> HasSet(todo, 2, m, o)
      /\ \A o : EndsOn(todo, 1, m, o) <=> EndsOn(todo, 2, m, o)
  <2>1. Head(todo) = todo[1] /\ m \in Int /\ m >= 1
    BY CallsStack
  <2>2. \A o : ~ Sets(todo[1], o)
    BY <2>1 DEF HeadIs, Sets, IsSet
  <2>3. \A o : ~ HasSet(todo, 1, 1, o)
    <3>1. \A k \in 1 .. 1 : k = 1
      OBVIOUS
    <3>2. QED
      BY <2>2, <3>1 DEF HasSet
  <2>4. \A o : /\ HasSet(todo, 1, m, o)
                     <=> HasSet(todo, 1, 1, o) \/ HasSet(todo, 2, m, o)
               /\ EndsOn(todo, 1, m, o)
                     <=> IF HasSet(todo, 2, m, o) THEN EndsOn(todo, 2, m, o)
                         ELSE EndsOn(todo, 1, 1, o)
    BY <2>1, SplitSets
  <2>5. QED
    BY <2>3, <2>4, EndsHas
<1>4. \A o : HasSet(todo', a, b, o) <=> o = x \/ HasSet(todo, 1, m, o)
  <2>1. \A o : HasSet(todo', a, m + (n - 1), o)
                        <=> Sets(s[n], o) \/ HasSet(todo, 2, m, o)
    BY NewPart
  <2>2. QED
    BY <1>2, <1>3, <2>1
<1>5. \A o : EndsOn(todo', a, b, o)
                <=> IF HasSet(todo, 1, m, o) THEN EndsOn(todo, 1, m, o) ELSE o = x
  <2>1. \A o : EndsOn(todo', a, m + (n - 1), o)
                        <=> IF HasSet(todo, 2, m, o) THEN EndsOn(todo, 2, m, o)
                            ELSE Sets(s[n], o) /\ s[n].fn = "setActive"
    BY NewPart
  <2>2. QED
    BY <1>2, <1>3, <2>1
<1>6. Bonus(a, b)' = 0 /\ Bonus(1, m) = IF HasSet(todo, 1, m, x) THEN 1 ELSE 0
  BY DEF Bonus
<1>7. K = L /\ (HasSet(todo, 1, m, x) => P = M)
            /\ (~ HasSet(todo, 1, m, x) => P = M \cup {x} /\ x \notin M)
  BY <1>1, <1>4, <1>5, EndsHas DEF LeftOff, LeftOn
<1>8. /\ L \subseteq OCC /\ M \subseteq OCC
      /\ L \cap E \subseteq OCC /\ M \ E \subseteq OCC /\ P \ E \subseteq OCC
  <2>1. L \subseteq OCC /\ M \subseteq OCC
    BY <1>1, PartTypes
  <2>2. QED
    BY <1>7, <2>1
<1>9. /\ Cardinality(P \ E) \in Nat /\ Cardinality(L \cap E) \in Nat
      /\ Cardinality(M \ E) \in Nat
  BY <1>8, OccSets
<1>10. Cardinality(L \cap E) + (IF HasSet(todo, 1, m, x) THEN 1 ELSE 0)
          <= Cardinality(M \ E) + (IF FirstOff(1, m) THEN 1 ELSE 0)
  BY <1>1, <1>6 DEF Even
<1>11. Cardinality(L \cap E) <= Cardinality(P \ E)
  <2>1. CASE HasSet(todo, 1, m, x)
    BY <1>7, <1>9, <1>10, <2>1
  <2>2. CASE ~ HasSet(todo, 1, m, x) /\ x \notin E
    <3>1. P \ E = (M \ E) \cup {x} /\ x \in OCC \ (M \ E)
      BY <1>7, <2>2
    <3>2. Cardinality(P \ E) = Cardinality(M \ E) + 1
      <4>1. PICK C : C = M \ E
        OBVIOUS
      <4>2. Cardinality(C \cup {x}) = Cardinality(C) + 1
        BY <1>8, <3>1, <4>1, OccSets
      <4>3. QED
        BY <3>1, <4>1, <4>2
    <3>3. QED
      BY <1>9, <1>10, <3>2
  <2>3. CASE m = 1
    <3>1. \A o : ~ HasSet(todo, 2, m, o)
      BY <2>3 DEF HasSet
    <3>2. L = {}
      BY <1>1, <1>3, <3>1 DEF LeftOff
    <3>3. Cardinality(L \cap E) = 0
      <4>1. L \cap E = {}
        BY <3>2
      <4>2. QED
        BY <4>1, FS_EmptySet
    <3>4. QED
      BY <1>9, <3>3
  <2>4. QED
    BY <1>1, <2>1, <2>2, <2>3
<1>12. Cardinality(LeftOff(a, b)' \cap Early') + Bonus(a, b)'
          <= Cardinality(LeftOn(a, b)' \ Early') + (IF FirstOff(a, b)' THEN 1 ELSE 0)
  <2>1. Cardinality(K \cap E) + 0 <= Cardinality(P \ E) + (IF FirstOff(a, b)' THEN 1 ELSE 0)
    BY <1>7, <1>9, <1>11
  <2>2. QED
    BY <1>1, <1>6, <2>1
<1>13. QED
  BY <1>12 DEF Even

\* Every step keeps Balanced.
LEMMA BalancedStep ==
    ASSUME TypeOK, TypeOK', todo # <<>>, QueueInv, ClearAlone, HeadsOnly, FromQueue,
           Separate, Balanced, NEW s, Makes(s)
    PROVE  Balanced'
<1>1. /\ s \in Seq(Frame) /\ Calls(s) /\ Early' \subseteq Early
      /\ Head(todo).fn \in InStatus => Early' = Early
  BY EarlyKept DEF Makes
<1>2. PICK n \in Nat : n = Len(s)
  BY <1>1
<1>3. /\ Len(todo') = Len(todo) + n - 1 /\ Len(todo) \in Nat /\ Len(todo) > 0
      /\ Head(todo) = todo[1]
  BY <1>1, <1>2, CallsStack
<1>4. \A k \in 1 .. (n - 1) : ~ IsSet(s[k])
  BY <1>2, InsideShape DEF Makes, Outer, OuterFn, Inner, IsSet
<1>5. HeadIs({"activate"})' => /\ s # <<>> /\ Outer(s)
                               /\ Head(todo').occ \in Early \ Early'
  <2> SUFFICES ASSUME todo' # <<>>, Head(todo').fn = "activate"
               PROVE  s # <<>> /\ Outer(s) /\ Head(todo').occ \in Early \ Early'
    BY DEF HeadIs
  <2>1. s # <<>> /\ Len(s) > 0 /\ Head(todo') = s[1] /\ 1 \in 1 .. Len(s)
    BY <1>2, NewHead DEF AtHead
  <2>2. Outer(s)
    BY <2>1, InsideShape DEF Makes
  <2>3. Dequeues(s[1].occ)
    BY <2>1, <2>2 DEF Outer
  <2>4. s[1].occ \in Early \ Early'
    BY <2>3, DequeuedEarly
  <2>5. QED
    BY <2>1, <2>2, <2>4
<1> SUFFICES ASSUME NEW b \in 0 .. Len(todo'), NEW a \in 1 .. (b + 1)
             PROVE  Even(a, b)'
  BY DEF Balanced
<1>6. CASE b \in 0 .. (n - 1)
  <2>1. \A o : ~ HasSet(todo', 1, b, o)
    BY <1>1, <1>2, <1>4, <1>6, AmongNew
  <2>2. \A o : ~ HasSet(todo', a, b, o)
    <3>1. \A k \in a .. b : k \in 1 .. b
      OBVIOUS
    <3>2. QED
      BY <2>1, <3>1 DEF HasSet
  <2>3. LeftOff(a, b)' = {} /\ LeftOn(a, b)' = {} /\ Bonus(a, b)' = 0
    BY <2>2, EndsHas DEF LeftOff, LeftOn, Bonus
  <2>4. /\ Cardinality(LeftOff(a, b)' \cap Early') = 0
        /\ Cardinality(LeftOn(a, b)' \ Early') = 0
    <3>1. LeftOff(a, b)' \cap Early' = {} /\ LeftOn(a, b)' \ Early' = {}
      BY <2>3
    <3>2. QED
      BY <3>1, FS_EmptySet
  <2>5. QED
    BY <2>3, <2>4 DEF Even
<1>7. CASE b \notin 0 .. (n - 1)
  <2>1. PICK m \in 1 .. Len(todo) : b = m + n - 1
    BY <1>1, <1>2, <1>7, NewOrOld
  <2>2. m \in Int /\ b = m + (n - 1) /\ m \in 0 .. Len(todo) /\ 1 \in 1 .. (m + 1)
        /\ 2 \in 1 .. (m + 1)
    BY <1>3, <2>1
  <2>3. Even(1, m) /\ Even(2, m)
    BY <2>2 DEF Balanced
  <2>4. CASE a > n
    <3>1. PICK l \in 2 .. (m + 1) : a = l + (n - 1)
      <4>1. a - n + 1 \in 2 .. (m + 1) /\ a = (a - n + 1) + (n - 1)
        BY <2>2, <2>4
      <4>2. QED
        BY <4>1
    <3>2. Even(l, m)
      <4>1. l \in 1 .. (m + 1)
        OBVIOUS
      <4>2. QED
        BY <2>2, <4>1 DEF Balanced
    <3>3. a = 1 => ~ HeadIs({"activate"})'
      <4>1. a = 1 => s = <<>>
        BY <1>1, <1>2, <2>4
      <4>2. QED
        BY <1>5, <4>1
    <3>4. QED
      BY <1>1, <1>2, <2>2, <3>1, <3>2, <3>3, EvenLater
  <2>5. CASE ~ (a > n)
    <3>1. a \in 1 .. n /\ n > 0 /\ n \in 1 .. n /\ s # <<>>
      BY <1>2, <2>5
    <3>2. CASE ~ IsSet(s[n])
      <4>1. \A k \in 1 .. n : ~ IsSet(s[k])
        <5>1. \A k \in 1 .. n : k = n \/ k \in 1 .. (n - 1)
          OBVIOUS
        <5>2. QED
          BY <1>4, <3>2, <5>1
      <4>2. QED
        BY <1>1, <1>2, <1>5, <2>2, <2>3, <3>1, <4>1, EvenPlain
    <3>3. CASE IsSet(s[n])
      <4>1. ~ Outer(s)
        BY <1>2, <3>1, <3>3 DEF Outer, OuterFn, Inner, IsSet
      <4>2. /\ Head(todo).fn \in InStatus /\ self \in OCC /\ Inside(s)
            /\ Early' = Early /\ ~ HeadIs({"activate"})'
        BY <1>1, <1>5, <4>1 DEF Makes
      <4>3. PICK x \in OCC : x = Head(todo).occ
        BY <4>2 DEF self
      <4>4. Sets(s[n], x)
        BY <1>2, <3>1, <3>3, <4>2, <4>3, InsideShape DEF Sets, self
      <4>5. Head(todo).fn = "activate" => x \notin Early \/ m = 1
        <5>1. SUFFICES ASSUME Head(todo).fn = "activate", x \in Early PROVE m = 1
          OBVIOUS
        <5>2. ~ (Len(todo) > 1)
          BY <4>3, <5>1 DEF FromQueue, HeadIs, self, Early
        <5>3. QED
          BY <1>3, <5>2
      <4>6. CASE s[n].fn = "setActive"
        <5>1. HeadIs({"activate"})
          <6>1. CASE s = <<Call("setInactive", self)>>
            BY <1>2, <4>6, <6>1, CallIs
          <6>2. CASE s = <<Call("wentInactive", self), Call("unbind", self),
                           Call("setInactive", self)>>
            BY <1>2, <4>6, <6>2, CallIs
          <6>3. CASE s = <<Call("deactivate", self), Call("resetOCC", self)>>
                     \/ s = <<Call("deactivate", self), Call("resetOccRequest", self)>>
            BY <1>2, <4>6, <6>3, CallIs
          <6>4. QED
            BY <3>1, <4>2, <6>1, <6>2, <6>3 DEF Inside, HeadIs
        <5>2. x \notin Early \/ m = 1
          BY <4>5, <5>1 DEF HeadIs
        <5>3. QED
          BY <1>1, <1>2, <1>4, <2>2, <2>3, <3>1, <4>2, <4>3, <4>4, <4>6, <5>1, <5>2,
             EvenOn
      <4>7. CASE s[n].fn = "setInactive"
        <5>1. x \in Early /\ ~ HasSet(todo, 2, m, x) => ~ FirstOff(2, m)
          <6>1. SUFFICES ASSUME x \in Early, ~ HasSet(todo, 2, m, x), FirstOff(2, m)
                         PROVE  FALSE
            OBVIOUS
          <6>2. PICK k \in 2 .. m : /\ todo[k].fn = "setInactive"
                                    /\ \A l \in 2 .. (k - 1) : ~ IsSet(todo[l])
            BY <6>1 DEF FirstOff
          <6>3. Head(todo).fn # "activate"
            BY <4>5, <6>1, <6>2
          <6>4. Head(todo).fn = "deactivate"
            <7>1. CASE s = <<Call("deactivate", self), Call("resetOCC", self)>>
                       \/ s = <<Call("deactivate", self), Call("resetOccRequest", self)>>
              BY <1>2, <4>7, <7>1, CallIs
            <7>2. QED
              BY <3>1, <4>2, <6>3, <7>1 DEF Inside
          <6>5. 1 \in 1 .. Len(todo) /\ k \in 1 .. Len(todo) /\ 1 < k /\ 1 + 1 = 2
            BY <1>3, <2>2
          <6>6. NextSet(1, k)
            BY <6>2, <6>5 DEF NextSet, IsSet
          <6>7. todo[1].fn \in MayEnd
            BY <1>3, <6>4 DEF MayEnd, Ending
          <6>8. waitingForAllOccActiveSensors
            BY <6>1 DEF Early
          <6>9. todo[1].occ = todo[k].occ
            BY <6>2, <6>5, <6>6, <6>7, <6>8 DEF Separate
          <6>10. Sets(todo[k], x)
            BY <1>3, <4>3, <6>2, <6>9 DEF Sets, IsSet
          <6>11. QED
            BY <6>1, <6>10 DEF HasSet
        <5>2. QED
          BY <1>1, <1>2, <1>4, <2>2, <2>3, <3>1, <4>2, <4>4, <4>7, <5>1, EvenOff
      <4>8. QED
        BY <3>3, <4>6, <4>7 DEF IsSet
    <3>4. QED
      BY <3>2, <3>3
  <2>6. QED
    BY <2>4, <2>5
<1>8. QED
  BY <1>6, <1>7

\* The stack is empty, or an event just began.
Marked == {"setActive", "setInactive", "resetOCC", "wentActive", "wentInactive",
           "unbind", "clearQueue"}
Begun ==
    /\ \A k \in 1 .. Len(todo) : todo[k].fn \notin Marked
    /\ \A k \in 2 .. Len(todo) : todo[k].fn \notin AtHead
    /\ Len(todo) > 1 => todo[1].fn # "activate"

\* The inductive invariant
CountInv ==
    /\ CountBound
    /\ Counted
    /\ Balanced
    /\ Separate
    /\ HeadsOnly
    /\ FromQueue
    /\ EndsApart
    /\ ResetFollows
    /\ ClearAlone

\* The invariant holds of a stack that an event just began.
LEMMA BegunHolds == TypeOK /\ Begun /\ CountBound => CountInv
<1> SUFFICES ASSUME TypeOK, Begun, CountBound PROVE CountInv
  OBVIOUS
<1>1. todo \in Seq(Frame) /\ Len(todo) \in Nat
      /\ (todo # <<>> => Head(todo) = todo[1] /\ Len(todo) > 0 /\ 1 \in 1 .. Len(todo))
  BY DEF TypeOK
<1>2. \A k \in 1 .. Len(todo) : ~ IsSet(todo[k])
  BY DEF Begun, IsSet, Marked
<1>3. ~ HeadIs({"wentActive"}) /\ ~ HeadIs({"wentInactive"}) /\ ~ HeadIs({"resetOCC"})
  BY <1>1 DEF Begun, HeadIs, Marked
<1>4. ASSUME NEW a, NEW b, \A k \in a .. b : k \in 1 .. Len(todo)
      PROVE  \A o : ~ HasSet(todo, a, b, o) /\ ~ EndsOn(todo, a, b, o)
  BY <1>2, <1>4 DEF HasSet, EndsOn, Sets
<1>5. Counted
  <2>1. SUFFICES ASSUME NEW i \in 0 .. Len(todo)
                 PROVE  Counting + Cardinality(Returning(i)) + Owed(i)
                           <= Cardinality(FinallyOn(i))
    BY DEF Counted
  <2>2. \A k \in 1 .. i : k \in 1 .. Len(todo)
    BY <1>1
  <2>3. \A o : ~ HasSet(todo, 1, i, o)
    BY <1>4, <2>2
  <2>4. FinallyOn(i) = ActiveOccs
    BY <2>3 DEF FinallyOn, OnAfter, ActiveOccs
  <2>5. Returning(i) = {}
    BY <2>3 DEF Returning, HasSet
  <2>6. Owed(i) = 0 /\ Counting = activeCount
    BY <1>3, <2>3 DEF Owed, Counting
  <2>7. Cardinality(Returning(i)) = 0
    BY <2>5, FS_EmptySet
  <2>8. activeCount \in Nat
    BY DEF TypeOK, DataOK
  <2>9. QED
    BY <2>4, <2>6, <2>7, <2>8 DEF CountBound
<1>6. Balanced
  <2>1. SUFFICES ASSUME NEW b \in 0 .. Len(todo), NEW a \in 1 .. (b + 1)
                 PROVE  Even(a, b)
    BY DEF Balanced
  <2>2. \A k \in a .. b : k \in 1 .. Len(todo)
    BY <1>1
  <2>3. \A o : ~ HasSet(todo, a, b, o) /\ ~ EndsOn(todo, a, b, o)
    BY <1>4, <2>2
  <2>4. LeftOff(a, b) = {} /\ LeftOn(a, b) = {} /\ Bonus(a, b) = 0
    BY <2>3 DEF LeftOff, LeftOn, Bonus
  <2>5. Cardinality(LeftOff(a, b) \cap Early) = 0 /\ Cardinality(LeftOn(a, b) \ Early) = 0
    <3>1. LeftOff(a, b) \cap Early = {} /\ LeftOn(a, b) \ Early = {}
      BY <2>4
    <3>2. QED
      BY <3>1, FS_EmptySet
  <2>6. QED
    BY <2>4, <2>5 DEF Even
<1>7. \A j, k \in 1 .. Len(todo) : ~ NextSet(j, k)
  BY <1>2 DEF NextSet
<1>8. Separate
  BY <1>7 DEF Separate
<1>9. HeadsOnly
  BY DEF HeadsOnly, Begun
<1>10. FromQueue
  BY <1>1 DEF FromQueue, HeadIs, Begun
<1>11. EndsApart
  <2>1. ASSUME HeadIs(Ending) PROVE 1 \in 1 .. Len(todo)
    BY <1>1, <2>1 DEF HeadIs
  <2>2. QED
    BY <1>7, <2>1 DEF EndsApart
<1>12. ResetFollows
  <2>1. \A j \in 1 .. (Len(todo) - 1) : j + 1 \in 1 .. Len(todo)
    BY <1>1
  <2>2. \A j \in 1 .. (Len(todo) - 1) : todo[j + 1].fn # "resetOCC"
    BY <2>1 DEF Begun, Marked
  <2>3. QED
    BY <1>3, <2>2 DEF ResetFollows
<1>13. ClearAlone
  BY DEF ClearAlone, Begun, Marked
<1>14. QED
  BY <1>5, <1>6, <1>8, <1>9, <1>10, <1>11, <1>12, <1>13 DEF CountInv

LEMMA BegunHoldsNext == (TypeOK /\ Begun /\ CountBound)' => CountInv'
BY BegunHolds, PTL

\* The calls that an event begins with, and that it leaves the OCCs alone.
BeginsOne(f) == todo' = <<f>> /\ f.fn \notin Marked
BeginsTwo(f, g) ==
    /\ todo' = <<f, g>>
    /\ f.fn \notin Marked \cup {"activate"}
    /\ g.fn \notin Marked \cup AtHead

\* Each of these makes a stack that has just begun.
LEMMA BeginsNone == ASSUME todo' = <<>> PROVE Begun'
<1>1. Len(todo') = 0 /\ 1 .. 0 = {} /\ 2 .. 0 = {} /\ ~ (0 > 1)
  OBVIOUS
<1>2. 1 .. Len(todo') = {} /\ 2 .. Len(todo') = {} /\ ~ (Len(todo') > 1)
  BY <1>1
<1>3. QED
  BY <1>2 DEF Begun

LEMMA BeginsWithOne == ASSUME NEW f, BeginsOne(f) PROVE Begun'
<1>1. todo' = <<f>> /\ f.fn \notin Marked
  BY DEF BeginsOne
<1>2. Len(todo') = 1 /\ todo'[1] = f /\ 1 .. 1 = {1} /\ 2 .. 1 = {} /\ ~ (1 > 1)
  BY <1>1
<1>3. 1 .. Len(todo') = {1} /\ 2 .. Len(todo') = {} /\ ~ (Len(todo') > 1)
  BY <1>2
<1>4. QED
  BY <1>1, <1>2, <1>3 DEF Begun

LEMMA BeginsWithTwo == ASSUME NEW f, NEW g, BeginsTwo(f, g) PROVE Begun'
<1>1. /\ todo' = <<f, g>> /\ f.fn \notin Marked /\ f.fn # "activate"
      /\ g.fn \notin Marked /\ g.fn \notin AtHead
  BY DEF BeginsTwo
<1>2. /\ Len(todo') = 2 /\ todo'[1] = f /\ todo'[2] = g
      /\ 1 .. 2 = {1, 2} /\ 2 .. 2 = {2}
  BY <1>1
<1>3. 1 .. Len(todo') = {1, 2} /\ 2 .. Len(todo') = {2}
  BY <1>2
<1>4. QED
  BY <1>1, <1>2, <1>3 DEF Begun

\* What an event may begin with.
LEMMA EventCalls ==
    ASSUME Event
    PROVE  \/ todo' = <<>>
           \/ \E f : BeginsOne(f)
           \/ \E f, g : BeginsTwo(f, g)
<1> DEFINE Goal == \/ todo' = <<>>
                   \/ \E f : BeginsOne(f)
                   \/ \E f, g : BeginsTwo(f, g)
<1> SUFFICES Goal
  OBVIOUS
<1>1. ASSUME NEW fn, NEW o, fn \notin Marked, todo' = <<Call(fn, o)>> PROVE Goal
  <2>1. Call(fn, o).fn = fn
    BY DEF Call, Call2
  <2>2. BeginsOne(Call(fn, o))
    BY <1>1, <2>1 DEF BeginsOne
  <2>3. QED
    BY <2>2
<1>2. ASSUME NEW fn, NEW o, NEW gn, NEW p, todo' = <<Call(fn, o), Call(gn, p)>>,
             fn \notin Marked \cup {"activate"}, gn \notin Marked \cup AtHead
      PROVE  Goal
  <2>1. Call(fn, o).fn = fn /\ Call(gn, p).fn = gn
    BY DEF Call, Call2
  <2>2. BeginsTwo(Call(fn, o), Call(gn, p))
    BY <1>2, <2>1 DEF BeginsTwo
  <2>3. QED
    BY <2>2
<1>3. \A fn \in {"checkSensor", "pollerTimerExpired", "validateOcc", "activate",
                 "updateOCCInactive", "resetOccRequest", "deviceError",
                 "deactivate", "clearData", "initiateOccRequest"} : fn \notin Marked
  BY DEF Marked
<1>4. "initiateOccRequest" \notin {"activate"} /\ "restartWait" \notin Marked \cup AtHead
  BY DEF Marked, AtHead, Ending
<1>5. "deactivate" \notin {"activate"} /\ "sendHRESET" \notin Marked \cup AtHead
  BY DEF Marked, AtHead, Ending
<1>6. "clearData" \notin {"activate"} /\ "hostPoweredOff" \notin Marked \cup AtHead
  BY DEF Marked, AtHead, Ending
<1>7. todo = <<>> => Goal \/ todo' # todo
  OBVIOUS
<1> HIDE DEF Goal
<1>8. CASE DiscoverTimerExpired
  <2>1. todo' = todo \/ todo' = <<Call("checkSensor", 0)>>
    BY <1>8 DEF DiscoverTimerExpired, CheckAllActiveSensors
  <2>2. todo = <<>>
    BY <1>8 DEF DiscoverTimerExpired, Idle
  <2>3. QED
    BY <1>1, <1>3, <1>7, <2>1, <2>2
<1>9. CASE PollTimerExpired
  <2>1. todo' = <<Call("pollerTimerExpired", NoInstance)>>
    BY <1>9 DEF PollTimerExpired
  <2>2. QED
    BY <1>1, <1>3, <2>1
<1>10. CASE WaitTimerExpired
  <2>1. \/ todo' = <<>>
        \/ todo' = <<Call("initiateOccRequest", resetInstance),
                     Call("restartWait", NoInstance)>>
        \/ todo' = <<Call("validateOcc", 0)>>
    BY <1>10 DEF WaitTimerExpired
  <2>2. CASE todo' = <<Call("initiateOccRequest", resetInstance),
                       Call("restartWait", NoInstance)>>
    BY <1>2, <1>3, <1>4, <2>2
  <2>3. CASE todo' = <<>>
    BY <2>3 DEF Goal
  <2>4. QED
    BY <1>1, <1>3, <2>1, <2>2, <2>3
<1>11. CASE SensorRunning
  <2>1. todo' = todo \/ \E o \in OCC : todo' = <<Call("activate", o)>>
    BY <1>11 DEF SensorRunning, UpdateOCCActive
  <2>2. todo = <<>>
    BY <1>11 DEF SensorRunning, Idle
  <2>3. QED
    BY <1>1, <1>3, <1>7, <2>1, <2>2
<1>12. CASE SensorStopped
  <2>1. \E o \in OCC : todo' = <<Call("updateOCCInactive", o)>>
    BY <1>12 DEF SensorStopped
  <2>2. QED
    BY <1>1, <1>3, <2>1
<1>13. CASE HresetResult
  <2>1. \/ todo' = <<>>
        \/ \E o \in hresets : \/ todo' = <<Call("resetOccRequest", o)>>
                              \/ todo' = <<Call("activate", o)>>
    BY <1>13 DEF HresetResult, SbeHRESETResult
  <2>2. CASE todo' = <<>>
    BY <2>2 DEF Goal
  <2>3. QED
    BY <1>1, <1>3, <2>1, <2>2
<1>14. CASE OccError \/ PresenceMismatch
  <2>1. \E o \in statusObjects : todo' = <<Call("deviceError", o)>>
    BY <1>14 DEF OccError, PresenceMismatch
  <2>2. QED
    BY <1>1, <1>3, <2>1
<1>15. CASE SbeTimeout
  <2>1. PICK o \in statusObjects :
            todo' = <<Call("deactivate", o), Call("sendHRESET", o)>>
    BY <1>15 DEF SbeTimeout
  <2>2. QED
    BY <1>2, <1>3, <1>5, <2>1
<1>16. CASE DBusWrite
  <2>1. \E o \in statusObjects : \/ todo' = <<Call("activate", o)>>
                                 \/ todo' = <<Call("deactivate", o)>>
    BY <1>16 DEF DBusWrite
  <2>2. QED
    BY <1>1, <1>3, <2>1
<1>17. CASE ResetGivenUp
  <2>1. todo' = <<Call("clearData", 0)>>
    BY <1>17 DEF ResetGivenUp
  <2>2. QED
    BY <1>1, <1>3, <2>1
<1>18. CASE HostStateOff
  <2>1. todo' = <<Call("clearData", 0), Call("hostPoweredOff", NoInstance)>>
    BY <1>18 DEF HostStateOff
  <2>2. QED
    BY <1>2, <1>3, <1>6, <2>1
<1>19. QED
  BY <1>8, <1>9, <1>10, <1>11, <1>12, <1>13, <1>14, <1>15, <1>16, <1>17, <1>18
     DEF Event

\* An event begins with calls that bring no part of the invariant into play, and
\* it changes neither the property of an OCC nor the count.
LEMMA EventBegins ==
    ASSUME Event
    PROVE  Begun' /\ UNCHANGED <<occActive, activeCount>>
<1>1. Begun'
  BY EventCalls, BeginsNone, BeginsWithOne, BeginsWithTwo
<1>2. UNCHANGED <<occActive, activeCount>>
  BY DEF Event, DiscoverTimerExpired, PollTimerExpired, WaitTimerExpired,
         SensorRunning, SensorStopped, HresetResult, OccError, PresenceMismatch,
         SbeTimeout, DBusWrite, ResetGivenUp, HostStateOff,
         pollVars, occVars
<1>3. QED
  BY <1>1, <1>2

\* A change of the host and a stuttering step keep the invariant.
LEMMA CountStutters ==
    ASSUME CountInv, HostChanges \/ UNCHANGED vars
    PROVE  CountInv'
<1>1. UNCHANGED <<todo, occActive, activeCount, queuedActiveState, statusObjects,
                  waitingForAllOccActiveSensors>>
  BY OnlyTheHost DEF allButHost, mgrVars, sensorVars, pollVars, occVars
<1>2. CountBound'
  BY <1>1 DEF CountInv, CountBound, ActiveOccs
<1>3. Counted'
  <2>1. (WatchFailed' <=> WatchFailed) /\ Len(todo') = Len(todo)
    BY <1>1 DEF WatchFailed, HeadIs
  <2>2. Counting' = Counting
    BY <1>1 DEF Counting, OneLess, HeadIs
  <2>3. Early' = Early
    BY <1>1 DEF Early, HeadIs
  <2>4. \A i : FinallyOn(i)' = FinallyOn(i)
    BY <1>1 DEF FinallyOn, OnAfter
  <2>5. \A i : Returning(i)' = Returning(i)
    <3>1. \A j : (Noisy(j)' <=> Noisy(j))
      BY <1>1 DEF Noisy
    <3>2. \A j, o : (OnAfter(j, o)' <=> OnAfter(j, o))
      BY <1>1 DEF OnAfter
    <3>3. QED
      BY <1>1, <2>3, <3>1, <3>2 DEF Returning
  <2>6. \A i : Owed(i)' = Owed(i)
    BY <1>1, <2>1 DEF Owed, HeadIs
  <2>7. QED
    BY <2>1, <2>2, <2>4, <2>5, <2>6 DEF CountInv, Counted
<1>4. Balanced'
  <2>1. Early' = Early /\ Len(todo') = Len(todo)
    BY <1>1 DEF Early
  <2>2. \A a, b : LeftOff(a, b)' = LeftOff(a, b) /\ LeftOn(a, b)' = LeftOn(a, b)
    BY <1>1 DEF LeftOff, LeftOn
  <2>3. \A a, b : Bonus(a, b)' = Bonus(a, b)
    BY <1>1 DEF Bonus, HeadIs
  <2>4. \A a, b : FirstOff(a, b)' <=> FirstOff(a, b)
    BY <1>1 DEF FirstOff
  <2>5. \A a, b : Even(a, b)' <=> Even(a, b)
    BY <2>1, <2>2, <2>3, <2>4 DEF Even
  <2>6. QED
    BY <2>1, <2>5 DEF CountInv, Balanced
<1>5. Separate' /\ HeadsOnly' /\ ClearAlone'
  BY <1>1 DEF CountInv, Separate, HeadsOnly, ClearAlone, NextSet
<1>6. FromQueue' /\ EndsApart' /\ ResetFollows'
  BY <1>1 DEF CountInv, FromQueue, EndsApart, ResetFollows, WatchFailed, NextSet,
              HeadIs, self
<1>7. QED
  BY <1>2, <1>3, <1>4, <1>5, <1>6 DEF CountInv

LEMMA CountInvHolds == Spec => []CountInv
<1>1. Init => CountInv
  <2> SUFFICES ASSUME Init PROVE CountInv
    OBVIOUS
  <2>1. TypeOK
    BY InitType
  <2>2. Begun
    BY DEF Init, Begun
  <2>3. CountBound
    <3>1. ActiveOccs = {} /\ activeCount = 0
      BY DEF Init, ActiveOccs
    <3>2. QED
      BY <3>1, FS_EmptySet DEF CountBound
  <2>4. QED
    BY <2>1, <2>2, <2>3, BegunHolds
<1>2. TypeOK /\ TypeOK' /\ QueueInv /\ CountInv /\ [Next]_vars => CountInv'
  <2> SUFFICES ASSUME TypeOK, TypeOK', QueueInv, CountInv, [Next]_vars
               PROVE  CountInv'
    OBVIOUS
  <2>1. CASE Step
    <3>1. todo # <<>> /\ \E s : Makes(s)
      BY <2>1, StepRuns, StepMakes
    <3>2. PICK s : Makes(s)
      BY <3>1
    <3>3. HeadsOnly' /\ FromQueue' /\ ResetFollows' /\ ClearAlone'
      BY <3>1, <3>2, HeadsStep, FromQueueStep, ResetStep, ClearStep DEF CountInv
    <3>4. Separate' /\ EndsApart'
      BY <3>1, <3>2, SeparateStep, EndsStep DEF CountInv
    <3>5. Balanced'
      BY <3>1, <3>2, BalancedStep DEF CountInv
    <3>6. Counted'
      BY <3>1, <3>2, <3>3, CountedStep DEF CountInv
    <3>7. CountBound'
      BY <3>1, <3>2, BoundStep DEF CountInv
    <3>8. QED
      BY <3>3, <3>4, <3>5, <3>6, <3>7 DEF CountInv
  <2>2. CASE Event
    <3>1. Begun' /\ CountBound'
      BY <2>2, EventBegins DEF CountInv, CountBound, ActiveOccs
    <3>2. QED
      BY <3>1, BegunHoldsNext
  <2>3. CASE HostChanges \/ UNCHANGED vars
    BY <2>3, CountStutters
  <2>4. QED
    BY <2>1, <2>2, <2>3 DEF Next
<1>3. Init => QueueInv
  BY DEF Init, QueueInv
<1>4. TypeOK /\ QueueInv /\ [Next]_vars => QueueInv'
  BY QueueStep
<1>5. QED
  BY <1>1, <1>2, <1>3, <1>4, TypeCorrect, PTL DEF Spec

\* However the activations and deactivations of the OCCs are nested in each
\* other by the callbacks that they make, the manager never counts more OCCs
\* than are active (statusCallBack).
THEOREM CountIsBounded == Spec => []CountBound
<1>1. CountInv => CountBound
  BY DEF CountInv
<1>2. QED
  BY <1>1, CountInvHolds, PTL

-----------------------------------------------------------------------------
(* A reset stops the polling                                                 *)

\* Only an OCC that was found is active, or about to be.
FoundActive ==
    /\ ActiveOccs \subseteq statusObjects
    /\ \A k \in 1 .. Len(todo) :
          todo[k].fn \in {"activate", "setActive"} => todo[k].occ \in statusObjects

\* The count as the head leaves it, when call k is the loop of
\* initiateOccRequest: an OCC that the loop has passed is off the count once the
\* deactivation at the head has begun.
Left(k) ==
    IF \/ HeadIs({"wentInactive"})
       \/ /\ HeadIs({"deactivate"}) /\ occActive[Head(todo).occ]
          /\ Head(todo).occ < todo[k].occ
    THEN OneLess ELSE activeCount

\* The OCCs that are active when the calls above the loop have returned, and that
\* the loop has not come to
ToStop(k) == {o \in FinallyOn(k - 1) : o >= todo[k].occ}
Stopping(k) == todo[k].fn = "stopOccs" /\ Left(k) <= Cardinality(ToStop(k))

\* A reset in progress has stopped all OCCs that are counted, or is about to:
\* none is accepted meanwhile.
ResetStops ==
    resetInProgress => Counting = 0 \/ \E k \in 1 .. Len(todo) : Stopping(k)

\* While OCCs are counted and not polled, a call that will poll them, or stop
\* them, is on the stack.
Starters == {"startPoll", "pollerTimerExpired", "pollOcc", "initiateOccRequest"}
PollStarts ==
    activeCount > 0 /\ ~ pollTimer /\ ~ resetInProgress => OnStack(Starters)

\* hostPoweredOff is called last.
PoweredOffLast ==
    \A k \in 1 .. (Len(todo) - 1) : todo[k].fn # "hostPoweredOff"

\* Every step keeps FoundActive.
LEMMA FoundStep ==
    ASSUME TypeOK, todo # <<>>, FoundActive, NEW s, Makes(s)
    PROVE  FoundActive'
<1>1. s \in Seq(Frame) /\ Calls(s) /\ statusObjects' = statusObjects
  BY DEF Makes
<1>2. PICK n \in Nat : n = Len(s)
  BY <1>1
<1>3. /\ Len(todo') = Len(todo) + n - 1 /\ Len(todo) \in Nat /\ Len(todo) > 0
      /\ Head(todo) = todo[1] /\ 1 \in 1 .. Len(todo)
      /\ \A i \in 1 .. n : todo'[i] = s[i]
      /\ \A i \in (n + 1) .. Len(todo') :
            i - n + 1 \in 2 .. Len(todo) /\ todo'[i] = todo[i - n + 1]
  BY <1>1, <1>2, CallsStack
<1>4. \A k \in 1 .. n : s[k].fn \in {"activate", "setActive"}
                           => s[k].occ \in statusObjects
  <2>1. CASE Outer(s)
    <3>1. ASSUME NEW k \in 1 .. n, s[k].fn \in {"activate", "setActive"}
          PROVE  s[k].occ \in statusObjects
      <4>1. s[k].fn = "activate"
        BY <1>2, <2>1, <3>1 DEF Outer, OuterFn, Inner
      <4>2. k = 1
        <5>1. k \in 2 .. n => s[k].fn \notin AtHead
          BY <1>2, <2>1 DEF Outer
        <5>2. QED
          BY <4>1, <5>1 DEF AtHead
      <4>3. Len(s) > 0 /\ s[1].fn = "activate"
        BY <1>2, <4>1, <4>2
      <4>4. QED
        BY <2>1, <4>2, <4>3 DEF Outer, Dequeues
    <3>2. QED
      BY <3>1
  <2>2. CASE Inside(s)
    <3>1. ASSUME NEW k \in 1 .. n, s[k].fn \in {"activate", "setActive"}
          PROVE  s[k].occ = self /\ Head(todo).fn = "activate"
      <4>1. s[k].occ = self /\ s[k].fn # "activate" /\ s[k].fn = "setActive"
        BY <1>2, <2>2, <3>1, InsideShape
      <4>2. CASE s = <<Call("setActive", self)>>
        BY <2>2, <4>1, <4>2, CallIs DEF Inside, IsSet
      <4>3. CASE s = <<Call("wentActive", self), Call("setActive", self)>>
        BY <2>2, <4>1, <4>3, CallIs DEF Inside, IsSet
      <4>4. CASE \/ s = <<Call("deviceError", self), Call("setInactive", self)>>
                 \/ s = <<Call("deactivate", self), Call("resetOCC", self)>>
                 \/ s = <<Call("deactivate", self), Call("resetOccRequest", self)>>
        <5>1. n = 2 /\ s[1].fn # "setActive" /\ s[2].fn # "setActive" /\ k \in {1, 2}
          BY <1>2, <4>4, CallIs
        <5>2. QED
          BY <4>1, <5>1
      <4>5. CASE s = <<Call("wentInactive", self), Call("unbind", self),
                       Call("setInactive", self)>>
        <5>1. /\ n = 3 /\ k \in {1, 2, 3}
              /\ s[1].fn # "setActive" /\ s[2].fn # "setActive" /\ s[3].fn # "setActive"
          BY <1>2, <4>5, CallIs
        <5>2. QED
          BY <4>1, <5>1
      <4>6. CASE s = <<Call("setInactive", self)>> \/ s = <<>>
        <5>1. n = 0 \/ (n = 1 /\ k = 1 /\ s[1].fn # "setActive")
          BY <1>2, <4>6, CallIs
        <5>2. QED
          BY <4>1, <5>1
      <4>7. QED
        BY <2>2, <4>2, <4>3, <4>4, <4>5, <4>6 DEF Inside
    <3>2. Head(todo).fn = "activate" => self \in statusObjects
      BY <1>3 DEF FoundActive, self
    <3>3. QED
      BY <3>1, <3>2
  <2>3. QED
    BY <2>1, <2>2 DEF Makes
<1>5. ASSUME NEW k \in 1 .. Len(todo'), todo'[k].fn \in {"activate", "setActive"}
      PROVE  todo'[k].occ \in statusObjects'
  <2>1. CASE k \in 1 .. n
    BY <1>1, <1>3, <1>4, <1>5, <2>1
  <2>2. CASE k \in (n + 1) .. Len(todo')
    <3>1. PICK l \in 2 .. Len(todo) : todo'[k] = todo[l]
      BY <1>3, <2>2
    <3>2. l \in 1 .. Len(todo)
      OBVIOUS
    <3>3. QED
      BY <1>1, <1>5, <3>1, <3>2 DEF FoundActive
  <2>3. QED
    BY <2>1, <2>2
<1>6. ActiveOccs' \subseteq statusObjects'
  <2>1. /\ occActive \in [OCC -> BOOLEAN]
        /\ Head(todo).fn \in {"activate", "setActive"} => self \in statusObjects
    BY <1>3 DEF FoundActive, self, TypeOK, DataOK
  <2>2. \A o \in OCC : occActive'[o] =>
           occActive[o] \/ (o = self /\ Head(todo).fn \in {"activate", "setActive"})
    <3>1. CASE occActive' = occActive
      BY <3>1
    <3>2. CASE /\ Head(todo).fn = "activate" /\ self \in OCC
               /\ occActive' = [occActive EXCEPT ![self] = TRUE]
      BY <2>1, <3>2
    <3>3. CASE /\ IsSet(Head(todo)) /\ self \in OCC
               /\ occActive' = [occActive EXCEPT ![self] = Head(todo).fn = "setActive"]
      BY <2>1, <3>3
    <3>4. QED
      BY <3>1, <3>2, <3>3 DEF Makes, Inside
  <2>3. QED
    BY <1>1, <2>1, <2>2 DEF FoundActive, ActiveOccs
<1>7. QED
  BY <1>5, <1>6 DEF FoundActive

\* What is active in the end, below calls that leave what the head would have
LEMMA FinallyGrows ==
    ASSUME TypeOK, todo # <<>>, NEW s \in Seq(Frame), Calls(s),
           NEW n \in Nat, n = Len(s), NEW X,
           \A o \in OCC \ X : OnAfter(1, o) => OnAfter(n, o)',
           NEW m \in 1 .. Len(todo)
    PROVE  \A o \in OCC \ X : o \in FinallyOn(m) => o \in FinallyOn(m + n - 1)'
<1>1. \A o : /\ OnAfter(m + n - 1, o)'
                   <=> IF HasSet(todo, 2, m, o) THEN OnAfter(m, o)
                       ELSE OnAfter(n, o)'
             /\ OnAfter(m, o)
                   <=> IF HasSet(todo, 2, m, o) THEN EndsOn(todo, 2, m, o)
                       ELSE OnAfter(1, o)
  BY AfterCalls
<1>2. \A o \in OCC : /\ o \in FinallyOn(m) <=> OnAfter(m, o)
                     /\ o \in FinallyOn(m + n - 1)' <=> OnAfter(m + n - 1, o)'
  BY DEF FinallyOn
<1>3. QED
  BY <1>1, <1>2

\* Calls that deactivate no active OCC leave active what the head would have.
LEMMA StaysOn ==
    ASSUME TypeOK, todo # <<>>, FromQueue, Len(todo) > 1, NEW s, Makes(s),
           NEW n \in Nat, n = Len(s),
           ~ (Head(todo).fn = "deactivate" /\ occActive[self])
    PROVE  \A o \in OCC : OnAfter(1, o) => OnAfter(n, o)'
<1>1. s \in Seq(Frame) /\ Calls(s) /\ \A k \in 1 .. (n - 1) : ~ IsSet(s[k])
  BY InsideShape DEF Makes, Outer, OuterFn, Inner, IsSet
<1>2. \A o : OnAfter(1, o) <=> IF Sets(Head(todo), o)
                             THEN Head(todo).fn = "setActive" ELSE occActive[o]
  BY AfterHead
<1>3. /\ \A o : (n = 0 \/ ~ Sets(s[n], o)) => (OnAfter(n, o)' <=> occActive'[o])
      /\ \A o : n > 0 /\ Sets(s[n], o) => (OnAfter(n, o)' <=> s[n].fn = "setActive")
  <2>1. n \in 0 .. n
    OBVIOUS
  <2>2. QED
    BY <1>1, <2>1, AfterNew
<1>4. occActive \in [OCC -> BOOLEAN]
  BY DEF TypeOK, DataOK
<1>5. CASE Head(todo).fn \notin InStatus
  <2>1. occActive' = occActive /\ \A o : ~ Sets(Head(todo), o)
    BY <1>5 DEF Makes, Sets, IsSet, InStatus
  <2>2. n = 0 \/ \A o : ~ Sets(s[n], o)
    <3>1. n # 0 => n \in 1 .. n
      OBVIOUS
    <3>2. QED
      BY <1>5, <3>1 DEF Makes, Outer, OuterFn, Inner, Sets, IsSet
  <2>3. QED
    BY <1>2, <1>3, <2>1, <2>2
<1>6. CASE Head(todo).fn \in InStatus /\ ~ IsSet(Head(todo))
  <2>0. PICK x : x = Head(todo).occ
    OBVIOUS
  <2>1. /\ Inside(s) /\ x \in OCC /\ self = x
        /\ \A o : OnAfter(1, o) <=> occActive[o]
    BY <1>2, <1>6, <2>0 DEF Makes, Sets, self
  <2>2. \/ /\ s = <<Call("setActive", x)>> /\ occActive' = occActive
        \/ /\ s = <<Call("wentActive", x), Call("setActive", x)>>
           /\ occActive' = [occActive EXCEPT ![x] = TRUE]
        \/ /\ s = <<Call("deviceError", x), Call("setInactive", x)>>
           /\ occActive' = occActive /\ ~ occActive[x]
        \/ /\ s = <<Call("setInactive", x)>> /\ occActive' = occActive
           /\ ~ occActive[x]
        \/ /\ \/ s = <<Call("deactivate", x), Call("resetOCC", x)>>
              \/ s = <<Call("deactivate", x), Call("resetOccRequest", x)>>
           /\ occActive' = occActive
    BY <1>6, <2>1 DEF Inside, FromQueue, HeadIs
  <2>3. CASE s = <<Call("setActive", x)>> /\ occActive' = occActive
    <3>1. n = 1 /\ s[n].fn = "setActive" /\ s[n].occ = x
      BY <2>3, CallIs
    <3>2. QED
      BY <1>3, <2>1, <2>3, <3>1
  <2>4. CASE /\ s = <<Call("wentActive", x), Call("setActive", x)>>
             /\ occActive' = [occActive EXCEPT ![x] = TRUE]
    <3>1. n = 2 /\ s[n].fn = "setActive" /\ s[n].occ = x
      BY <2>4, CallIs
    <3>2. occActive'[x] /\ \A o \in OCC : o # x => occActive'[o] = occActive[o]
      BY <1>4, <2>1, <2>4
    <3>3. OnAfter(n, x)'
      <4>1. CASE Sets(s[n], x)
        <5>1. n > 0
          BY <3>1
        <5>2. QED
          BY <1>3, <3>1, <4>1, <5>1
      <4>2. CASE ~ Sets(s[n], x)
        BY <1>3, <3>2, <4>2
      <4>3. QED
        BY <4>1, <4>2
    <3>4. \A o \in OCC : o # x => (OnAfter(n, o)' <=> occActive'[o])
      BY <1>3, <3>1 DEF Sets
    <3>5. ASSUME NEW o \in OCC, OnAfter(1, o) PROVE OnAfter(n, o)'
      <4>1. CASE o = x
        BY <3>3, <4>1
      <4>2. CASE o # x
        <5>1. occActive[o]
          BY <2>1, <3>5
        <5>2. occActive'[o]
          BY <3>2, <4>2, <5>1
        <5>3. QED
          BY <3>4, <4>2, <5>2
      <4>3. QED
        BY <4>1, <4>2
    <3>6. QED
      BY <3>5
  <2>5. CASE /\ s = <<Call("deviceError", x), Call("setInactive", x)>>
             /\ occActive' = occActive /\ ~ occActive[x]
    <3>1. n = 2 /\ s[n].fn = "setInactive" /\ s[n].occ = x
      BY <2>5, CallIs
    <3>2. QED
      BY <1>3, <2>1, <2>5, <3>1 DEF Sets
  <2>6. CASE s = <<Call("setInactive", x)>> /\ occActive' = occActive /\ ~ occActive[x]
    <3>1. n = 1 /\ s[n].fn = "setInactive" /\ s[n].occ = x
      BY <2>6, CallIs
    <3>2. QED
      BY <1>3, <2>1, <2>6, <3>1 DEF Sets
  <2>7. CASE /\ \/ s = <<Call("deactivate", x), Call("resetOCC", x)>>
                \/ s = <<Call("deactivate", x), Call("resetOccRequest", x)>>
             /\ occActive' = occActive
    <3>1. n = 2 /\ ~ IsSet(s[n])
      BY <2>7, CallIs DEF IsSet
    <3>2. QED
      BY <1>3, <2>1, <2>7, <3>1 DEF Sets
  <2>8. QED
    BY <2>2, <2>3, <2>4, <2>5, <2>6, <2>7
<1>7. CASE IsSet(Head(todo))
  <2>1. /\ s = <<>> /\ self \in OCC /\ self = Head(todo).occ
        /\ occActive' = [occActive EXCEPT ![self] = Head(todo).fn = "setActive"]
    BY <1>7 DEF Makes, Inside, InStatus, IsSet, self
  <2>2. n = 0
    BY <2>1
  <2>3. QED
    BY <1>2, <1>3, <1>4, <1>7, <2>1, <2>2 DEF Sets
<1>8. QED
  BY <1>5, <1>6, <1>7

\* A call of the old stack below the head, in the new one
LEMMA StaysBelow ==
    ASSUME TypeOK, todo # <<>>, NEW s \in Seq(Frame), Calls(s),
           NEW n \in Nat, n = Len(s), NEW k \in 1 .. Len(todo), k > 1,
           NEW j, j = k + n - 1
    PROVE  j \in 1 .. Len(todo') /\ todo'[j] = todo[k]
<1>1. /\ Len(todo) \in Nat /\ Len(todo') = Len(todo) + n - 1
      /\ \A m \in 2 .. Len(todo) : todo'[m + (n - 1)] = todo[m]
  BY CallsStack
<1>2. k \in 2 .. Len(todo) /\ j = k + (n - 1)
  OBVIOUS
<1>3. QED
  BY <1>1, <1>2

LEMMA OneLessType ==
    activeCount \in Nat => OneLess \in Nat /\ OneLess <= activeCount
BY DEF OneLess

LEMMA OneLessNext ==
    (activeCount \in Nat => OneLess \in Nat /\ OneLess <= activeCount)'
BY OneLessType, PTL

\* What is left to stop is stopped by the loop: a call above it takes an OCC off
\* the count when it makes it inactive.
LEMMA StoppingKept ==
    ASSUME TypeOK, TypeOK', todo # <<>>, FromQueue, NEW s, Makes(s),
           activeCount' <= Counting,
           NEW k \in 1 .. Len(todo), Stopping(k), k > 1,
           NEW n \in Nat, n = Len(s), NEW j, j = k + n - 1
    PROVE  j \in 1 .. Len(todo') /\ Stopping(j)'
<1>1. s \in Seq(Frame) /\ Calls(s)
  BY DEF Makes
<1>2. j \in 1 .. Len(todo') /\ todo'[j] = todo[k]
  BY <1>1, StaysBelow
<1>3. PICK m \in 1 .. Len(todo) : m = k - 1 /\ j - 1 = m + n - 1
  <2>1. Len(todo) \in Nat
    BY DEF TypeOK
  <2>2. k - 1 \in 1 .. Len(todo) /\ j - 1 = (k - 1) + n - 1
    BY <2>1
  <2>3. QED
    BY <2>2
<1>4. /\ todo[k].fn = "stopOccs" /\ Left(k) <= Cardinality(ToStop(k))
      /\ todo[k] \in Frame
  BY DEF Stopping, TypeOK
<1>5. PICK i : i = todo[k].occ /\ i \in 0 .. N
  BY <1>4 DEF Frame, OccCalls, LoopCalls, ManagerCalls
<1>6. PICK A, B : A = ToStop(k) /\ B = ToStop(j)'
  OBVIOUS
<1>7. /\ \A o : o \in A <=> o \in FinallyOn(m) /\ o >= i
      /\ \A o : o \in B <=> o \in FinallyOn(m + n - 1)' /\ o >= i
      /\ A \subseteq OCC /\ B \subseteq OCC
  BY <1>2, <1>3, <1>5, <1>6 DEF ToStop, FinallyOn
<1>8. /\ Cardinality(A) \in Nat /\ Cardinality(B) \in Nat
      /\ A \subseteq B => Cardinality(A) <= Cardinality(B)
      /\ \A x \in A : Cardinality(A \ {x}) = Cardinality(A) - 1
      /\ \A x \in A : A \ {x} \subseteq B
                         => Cardinality(A \ {x}) <= Cardinality(B)
  <2>1. \A x \in A : A \ {x} \subseteq OCC
    BY <1>7
  <2>2. QED
    BY <1>7, <2>1, OccSets
<1>9. /\ Left(j)' \in Nat /\ Left(j)' <= activeCount'
      /\ activeCount \in Nat /\ activeCount' \in Nat
  <2>1. activeCount \in Nat /\ activeCount' \in Nat
    BY DEF TypeOK, DataOK
  <2>2. OneLess' \in Nat /\ OneLess' <= activeCount'
    BY <2>1, OneLessNext
  <2>3. Left(j)' \in {OneLess', activeCount'}
    BY DEF Left
  <2>4. QED
    BY <2>1, <2>2, <2>3
<1>10. SUFFICES Left(j)' <= Cardinality(B)
  BY <1>2, <1>4, <1>6 DEF Stopping
<1>11. CASE Head(todo).fn = "deactivate" /\ occActive[self]
  <2>0. PICK x : x = Head(todo).occ
    OBVIOUS
  <2>1. /\ s = <<Call("wentInactive", x), Call("unbind", x), Call("setInactive", x)>>
        /\ x \in OCC /\ activeCount' = activeCount /\ occActive' = occActive
        /\ occActive[x]
    BY <1>11, <2>0 DEF Makes, Inside, InStatus, IsSet, self
  <2>2. Left(j)' = OneLess
    <3>1. todo' # <<>> /\ Head(todo').fn = "wentInactive"
      <4>1. 1 \in 1 .. Len(s) /\ s[1] = Call("wentInactive", x) /\ Len(s) = 3
        BY <2>1
      <4>2. \A l \in 1 .. Len(s) : todo'[l] = s[l]
        BY <1>1, CallsStack
      <4>3. todo' # <<>> => Head(todo') = todo'[1]
        BY <1>1, CallsStack
      <4>4. todo' # <<>>
        <5>1. Len(todo') > 0
          BY <1>2 DEF TypeOK
        <5>2. QED
          BY <5>1
      <4>5. QED
        BY <4>1, <4>2, <4>3, <4>4, CallIs
    <3>2. QED
      BY <2>1, <3>1 DEF Left, HeadIs, OneLess
  <2>3. \A o \in OCC \ {x} : o \in FinallyOn(m) => o \in FinallyOn(m + n - 1)'
    <3>1. \A l \in 1 .. (n - 1) : ~ IsSet(s[l])
      BY InsideShape, <1>11 DEF Makes, InStatus
    <3>2. \A o \in OCC \ {x} : OnAfter(1, o) => OnAfter(n, o)'
      <4>1. \A o : OnAfter(1, o) <=> occActive[o]
        BY <1>11, AfterHead DEF Sets, IsSet
      <4>2. n = 3 /\ s[n].occ = x /\ n \in 0 .. n
        BY <2>1, CallIs
      <4>3. \A o : ~ Sets(s[n], o) => (OnAfter(n, o)' <=> occActive'[o])
        BY <1>1, <3>1, <4>2, AfterNew
      <4>4. QED
        BY <2>1, <4>1, <4>2, <4>3 DEF Sets
    <3>3. QED
      BY <1>1, <3>2, FinallyGrows
  <2>4. x \in Int /\ i \in Int /\ Left(k) = (IF x < i THEN OneLess ELSE activeCount)
    <3>1. Left(k) = (IF x < i THEN OneLess ELSE activeCount)
      BY <1>5, <1>11, <2>0, <2>1 DEF Left, HeadIs, self
    <3>2. QED
      BY <1>5, <2>1, <3>1 DEF OCC
  <2>5. OneLess = IF activeCount > 0 THEN activeCount - 1 ELSE 0
    BY DEF OneLess
  <2>6. \A o \in A : o # x => o \in B
    BY <1>7, <2>3
  <2>7. CASE x \notin A
    <3>1. A \subseteq B
      BY <2>6, <2>7
    <3>2. Cardinality(A) <= Cardinality(B) /\ OneLess <= Left(k)
      BY <1>8, <1>9, <2>4, <2>5, <3>1
    <3>3. QED
      BY <1>4, <1>6, <1>8, <1>9, <2>2, <2>4, <2>5, <3>2
  <2>8. CASE x \in A
    <3>1. A \ {x} \subseteq B
      BY <2>6
    <3>2. Cardinality(A) - 1 <= Cardinality(B)
      BY <1>8, <2>8, <3>1
    <3>3. Left(k) = activeCount
      BY <1>7, <2>4, <2>8
    <3>4. QED
      BY <1>4, <1>6, <1>8, <1>9, <2>2, <2>5, <3>2, <3>3
  <2>9. QED
    BY <2>7, <2>8
<1>12. CASE ~ (Head(todo).fn = "deactivate" /\ occActive[self])
  <2>1. Left(k) = Counting
    BY <1>12 DEF Left, Counting, HeadIs, self
  <2>2. A \subseteq B
    <3>1. Len(todo) > 1
      BY DEF TypeOK
    <3>2. \A o \in OCC : OnAfter(1, o) => OnAfter(n, o)'
      BY <1>12, <3>1, StaysOn
    <3>3. \A o \in OCC \ {} : OnAfter(1, o) => OnAfter(n, o)'
      BY <3>2
    <3>4. \A o \in OCC \ {} : o \in FinallyOn(m) => o \in FinallyOn(m + n - 1)'
      BY <1>1, <3>3, FinallyGrows
    <3>5. QED
      BY <1>7, <3>4
  <2>3. Counting \in Nat
    BY DEF Counting, OneLess, TypeOK, DataOK
  <2>4. Cardinality(A) <= Cardinality(B) /\ Counting <= Cardinality(A)
    BY <1>4, <1>6, <1>8, <2>1, <2>2
  <2>5. QED
    BY <1>8, <1>9, <2>3, <2>4
<1>13. QED
  BY <1>11, <1>12

LEMMA CountingLess == TypeOK => Counting \in Nat /\ Counting <= activeCount
BY OneLessType DEF Counting, TypeOK, DataOK

LEMMA CountingLessNext == (TypeOK => Counting \in Nat /\ Counting <= activeCount)'
BY CountingLess, PTL

\* What is to be stopped when the loop is called, and all of it when it begins
LEMMA ToStopNew ==
    ASSUME TypeOK, todo # <<>>, NEW s \in Seq(Frame), Calls(s), occActive' = occActive,
           NEW n \in Nat, n = Len(s), \A l \in 1 .. n : ~ IsSet(s[l]),
           NEW k \in 1 .. n, NEW i, i = s[k].occ, s[k].fn = "stopOccs"
    PROVE  /\ k \in 1 .. Len(todo') /\ todo'[k] = s[k]
           /\ ToStop(k)' \subseteq OCC
           /\ \A o \in OCC : o \in ToStop(k)' <=> occActive[o] /\ o >= i
<1>1. /\ Len(todo') = Len(todo) + n - 1 /\ Len(todo) \in Nat /\ Len(todo) > 0
      /\ \A l \in 1 .. n : todo'[l] = s[l]
  BY CallsStack
<1>2. k \in 1 .. Len(todo') /\ todo'[k] = s[k]
  BY <1>1
<1>3. k - 1 \in 0 .. (n - 1) /\ \A l \in 1 .. (n - 1) : ~ IsSet(s[l])
  OBVIOUS
<1>4. FinallyOn(k - 1)' = ActiveOccs'
  BY <1>3, AmongNew
<1>5. \A o : o \in ToStop(k)' <=> o \in FinallyOn(k - 1)' /\ o >= i
  BY <1>2 DEF ToStop
<1>6. \A o : o \in ActiveOccs' <=> o \in OCC /\ occActive[o]
  BY DEF ActiveOccs
<1>7. QED
  BY <1>2, <1>4, <1>5, <1>6

\* One turn of the loop stops the OCC that it has come to.
LEMMA StopTurn ==
    ASSUME TypeOK, TypeOK', todo # <<>>, FoundActive, StopOccs, Stopping(1)
    PROVE  Counting' = 0 \/ (\E k \in 1 .. Len(todo) : Stopping(k))'
<1>1. PICK i : i = self /\ i \in 0 .. N
  BY HeadType DEF StopOccs, Running, LoopCalls, TypeOK
<1>2. /\ Head(todo).fn = "stopOccs" /\ Head(todo) = todo[1]
      /\ occActive' = occActive /\ activeCount' = activeCount
      /\ activeCount \in Nat /\ arg \in Instance
  BY HeadType DEF StopOccs, Running, TypeOK, DataOK, occVars, pollVars
<1>3. PICK A : A = ToStop(1)
  OBVIOUS
<1>4. A \subseteq OCC /\ \A o \in OCC : o \in A <=> occActive[o] /\ o >= i
  <2>1. FinallyOn(1 - 1) = ActiveOccs
    BY CountTypes DEF CountsTyped
  <2>2. \A o : o \in A <=> o \in ActiveOccs /\ o >= i
    BY <1>1, <1>2, <1>3, <2>1 DEF ToStop, self
  <2>3. QED
    BY <2>2 DEF ActiveOccs
<1>5. activeCount <= Cardinality(A) /\ Cardinality(A) \in Nat
  <2>1. Left(1) = activeCount
    BY <1>2 DEF Left, HeadIs
  <2>2. QED
    BY <1>3, <1>4, <2>1, OccSets DEF Stopping
<1>6. CASE i = N
  <2>1. A = {}
    BY <1>4, <1>6, NAssumption DEF OCC
  <2>2. Cardinality(A) = 0
    BY <2>1, OccSets
  <2>3. activeCount' = 0
    BY <1>2, <1>5, <2>2
  <2>4. Counting' \in Nat /\ Counting' <= activeCount'
    BY CountingLessNext
  <2>5. QED
    BY <2>3, <2>4
<1>7. CASE i # N
  <2>1. i \in OCC /\ i + 1 \in 0 .. N
    BY <1>1, <1>7, NAssumption DEF OCC
  <2>2. PICK f, g : f = Call("deactivate", i) /\ g = Call2("stopOccs", i + 1, arg)
    OBVIOUS
  <2>3. /\ f \in Frame /\ g \in Frame /\ f.fn = "deactivate" /\ f.occ = i
        /\ g.fn = "stopOccs" /\ g.occ = i + 1
    BY <1>2, <2>1, <2>2, CallType, Call2Type DEF OccCalls, LoopCalls, Call, Call2
  <2>4. CASE occActive[i]
    <3>1. i \in statusObjects
      BY <2>1, <2>4 DEF FoundActive, ActiveOccs
    <3>2. Calls(<<f, g>>)
      BY <1>1, <1>7, <2>2, <2>4, <3>1 DEF StopOccs
    <3>3. PICK s : s = <<f, g>>
      OBVIOUS
    <3>4. /\ s \in Seq(Frame) /\ Calls(s) /\ Len(s) = 2 /\ s[1] = f /\ s[2] = g
          /\ \A l \in 1 .. 2 : ~ IsSet(s[l])
      BY <2>3, <3>2, <3>3, FewCalls DEF IsSet
    <3>5. PICK j : j = i + 1
      OBVIOUS
    <3>6. /\ 2 \in 1 .. 2 /\ 2 = Len(s) /\ 2 \in Nat
          /\ j = s[2].occ /\ s[2].fn = "stopOccs"
      BY <2>3, <3>4, <3>5
    <3>7. 2 \in 1 .. Len(todo') /\ todo'[2] = s[2]
      BY <1>2, <3>4, <3>6, ToStopNew
    <3>8. PICK B : B = ToStop(2)'
      OBVIOUS
    <3>9. B \subseteq OCC /\ \A o \in OCC : o \in B <=> occActive[o] /\ o >= j
      <4>1. PICK n, k : n = 2 /\ k = 2
        OBVIOUS
      <4>2. /\ n \in Nat /\ n = Len(s) /\ k \in 1 .. n
            /\ \A l \in 1 .. n : ~ IsSet(s[l])
            /\ j = s[k].occ /\ s[k].fn = "stopOccs"
        BY <3>4, <3>6, <4>1
      <4>3. ToStop(k)' \subseteq OCC
        BY <1>2, <3>4, <4>2, ToStopNew
      <4>4. \A o \in OCC : o \in ToStop(k)' <=> occActive[o] /\ o >= j
        BY <1>2, <3>4, <4>2, ToStopNew
      <4>5. QED
        BY <3>8, <4>1, <4>3, <4>4
    <3>10. i \in A /\ B = A \ {i}
      <4>1. \A o \in OCC : o >= j <=> o >= i /\ o # i
        BY <2>1, <3>5 DEF OCC
      <4>2. \A o \in OCC : o \in B <=> o \in A \ {i}
        BY <1>4, <3>9, <4>1
      <4>3. i >= i
        BY <2>1 DEF OCC
      <4>4. QED
        BY <1>4, <2>1, <2>4, <3>9, <4>2, <4>3
    <3>11. Cardinality(B) = Cardinality(A) - 1 /\ Cardinality(B) \in Nat
      BY <1>4, <3>9, <3>10, OccSets
    <3>12. Left(2)' = OneLess
      <4>1. todo' # <<>> /\ Head(todo').fn = "deactivate" /\ Head(todo').occ = i
        <5>1. todo'[1] = s[1]
          <6>1. 1 \in 1 .. Len(s) /\ s \in Seq(Frame) /\ Calls(s)
            BY <3>4
          <6>2. QED
            BY <6>1, CallsStack
        <5>2. todo' # <<>> => Head(todo') = todo'[1]
          BY <3>4, CallsStack
        <5>3. todo' # <<>>
          BY <3>7 DEF TypeOK
        <5>4. QED
          BY <2>3, <3>4, <5>1, <5>2, <5>3
      <4>2. occActive'[i] /\ i < todo'[2].occ
        BY <1>2, <2>1, <2>3, <2>4, <3>4, <3>7 DEF OCC
      <4>3. OneLess' = OneLess
        BY <1>2 DEF OneLess
      <4>4. QED
        BY <4>1, <4>2, <4>3 DEF Left, HeadIs
    <3>13. OneLess <= Cardinality(B)
      BY <1>2, <1>5, <3>11 DEF OneLess
    <3>14. Stopping(2)'
      BY <2>3, <3>4, <3>7, <3>8, <3>12, <3>13 DEF Stopping
    <3>15. QED
      BY <3>7, <3>14
  <2>5. CASE ~ occActive[i]
    <3>2. Calls(<<g>>)
      BY <1>1, <1>7, <2>2, <2>5 DEF StopOccs
    <3>3. PICK s : s = <<g>>
      OBVIOUS
    <3>4. /\ s \in Seq(Frame) /\ Calls(s) /\ Len(s) = 1 /\ s[1] = g
          /\ \A l \in 1 .. 1 : ~ IsSet(s[l])
      BY <2>3, <3>2, <3>3, FewCalls DEF IsSet
    <3>5. PICK j : j = i + 1
      OBVIOUS
    <3>6. /\ 1 \in 1 .. 1 /\ 1 = Len(s) /\ 1 \in Nat
          /\ j = s[1].occ /\ s[1].fn = "stopOccs"
      BY <2>3, <3>4, <3>5
    <3>7. 1 \in 1 .. Len(todo') /\ todo'[1] = s[1]
      BY <1>2, <3>4, <3>6, ToStopNew
    <3>8. PICK B : B = ToStop(1)'
      OBVIOUS
    <3>9. B \subseteq OCC /\ \A o \in OCC : o \in B <=> occActive[o] /\ o >= j
      <4>1. PICK n, k : n = 1 /\ k = 1
        OBVIOUS
      <4>2. /\ n \in Nat /\ n = Len(s) /\ k \in 1 .. n
            /\ \A l \in 1 .. n : ~ IsSet(s[l])
            /\ j = s[k].occ /\ s[k].fn = "stopOccs"
        BY <3>4, <3>6, <4>1
      <4>3. ToStop(k)' \subseteq OCC
        BY <1>2, <3>4, <4>2, ToStopNew
      <4>4. \A o \in OCC : o \in ToStop(k)' <=> occActive[o] /\ o >= j
        BY <1>2, <3>4, <4>2, ToStopNew
      <4>5. QED
        BY <3>8, <4>1, <4>3, <4>4
    <3>10. B = A
      <4>1. \A o \in OCC : o >= j <=> o >= i /\ o # i
        BY <2>1, <3>5 DEF OCC
      <4>2. \A o \in OCC : o \in B <=> o \in A
        BY <1>4, <2>5, <3>9, <4>1
      <4>3. QED
        BY <1>4, <3>9, <4>2
    <3>11. Left(1)' = activeCount
      <4>1. todo' # <<>> /\ Head(todo').fn = "stopOccs"
        <5>1. todo' # <<>> => Head(todo') = todo'[1]
          BY <3>4, CallsStack
        <5>2. todo' # <<>>
          BY <3>7 DEF TypeOK
        <5>3. QED
          BY <2>3, <3>4, <3>7, <5>1, <5>2
      <4>2. QED
        BY <1>2, <4>1 DEF Left, HeadIs
    <3>12. Stopping(1)'
      BY <1>5, <2>3, <3>4, <3>7, <3>8, <3>10, <3>11 DEF Stopping
    <3>13. QED
      BY <3>7, <3>12
  <2>6. QED
    BY <2>4, <2>5
<1>8. QED
  BY <1>6, <1>7

\* A reset is in progress after a step if it was before, no OCC being counted
\* meanwhile, or if the step begins it.
LEMMA InProgress ==
    ASSUME TypeOK, Step, resetInProgress'
    PROVE  \/ resetInProgress /\ activeCount' <= Counting
           \/ InitiateOccRequest /\ ~ resetInProgress
<1> USE DEF Running, resetVars, pollVars
<1>1. /\ todo # <<>> /\ Counting \in Nat
      /\ activeCount = Counting \/ Head(todo).fn = "wentInactive"
      /\ Head(todo).fn = "wentInactive" => Counting = OneLess
  BY StepRuns, CountingLess DEF Counting, HeadIs
<1>2. CASE WentActive
  <2>1. resetInProgress /\ Head(todo).fn = "wentActive"
    BY <1>2 DEF WentActive
  <2>2. activeCount' = activeCount
    BY <1>2, <2>1 DEF WentActive
  <2>3. QED
    BY <1>1, <2>1, <2>2
<1>3. CASE WentInactive
  <2>1. /\ resetInProgress' = (resetInProgress /\ ~ (OneLess = 0))
        /\ activeCount' = OneLess /\ Head(todo).fn = "wentInactive"
    BY <1>3 DEF WentInactive
  <2>2. resetInProgress
    BY <2>1, Zenon
  <2>3. activeCount' = Counting
    BY <1>1, <2>1
  <2>4. activeCount' <= Counting
    BY <1>1, <2>3
  <2>5. QED
    BY <2>2, <2>4
<1>4. CASE InitiateOccRequest
  <2>1. activeCount' = activeCount /\ Head(todo).fn = "initiateOccRequest"
    BY <1>4 DEF InitiateOccRequest
  <2>2. QED
    BY <1>1, <1>4, <2>1
<1>5. CASE HostPoweredOff
  BY <1>5 DEF HostPoweredOff
<1>6. CASE ~ WentActive /\ ~ WentInactive /\ ~ InitiateOccRequest /\ ~ HostPoweredOff
  <2>1. UNCHANGED <<activeCount, resetInProgress>> /\ Head(todo).fn # "wentInactive"
    BY <1>6 DEF Step, Activate, Deactivate, SetProperty, DeviceError, ResetOCC,
         Unbind, StartPoll, RestartWait, CheckWaiting, CheckSensor,
         CheckAllEnd, ClearQueue, ResetOccRequest, StopOccs,
         PldmResetOCC, ResetSent, PollerTimerExpired, PollOcc, ValidateOcc,
         ValidateMaster, UpdateOCCInactive, ClearData, ClearNext, ClearEnd,
         SendHRESET
  <2>2. QED
    BY <1>1, <2>1
<1>7. QED
  BY <1>2, <1>3, <1>4, <1>5, <1>6

\* A reset begins with the loop that stops all OCCs.
LEMMA StopBegins ==
    ASSUME TypeOK, TypeOK', todo # <<>>, CountBound',
           InitiateOccRequest, ~ resetInProgress
    PROVE  (\E k \in 1 .. Len(todo) : Stopping(k))'
<1>1. /\ occActive' = occActive /\ self \in Instance
      /\ Calls(<<Call2("stopOccs", 0, self)>>)
  BY HeadType DEF InitiateOccRequest, Running, ManagerCalls, TypeOK, occVars
<1>2. PICK g : g = Call2("stopOccs", 0, self)
  OBVIOUS
<1>3. g \in Frame /\ g.fn = "stopOccs" /\ g.occ = 0
  BY <1>1, <1>2, Call2Type, NAssumption DEF LoopCalls, Call2
<1>4. PICK s : s = <<g>>
  OBVIOUS
<1>5. /\ s \in Seq(Frame) /\ Calls(s) /\ Len(s) = 1 /\ s[1] = g
  BY <1>1, <1>2, <1>3, <1>4, FewCalls
<1>6. PICK n, k, i : n = 1 /\ k = 1 /\ i = 0
  OBVIOUS
<1>7. /\ n \in Nat /\ n = Len(s) /\ k \in 1 .. n
      /\ \A l \in 1 .. n : ~ IsSet(s[l])
      /\ i = s[k].occ /\ s[k].fn = "stopOccs"
  BY <1>3, <1>5, <1>6 DEF IsSet
<1>8. k \in 1 .. Len(todo') /\ todo'[k] = s[k]
  BY <1>1, <1>5, <1>7, ToStopNew
<1>9. PICK B : B = ToStop(k)'
  OBVIOUS
<1>10. B = ActiveOccs'
  <2>1. ToStop(k)' \subseteq OCC
    BY <1>1, <1>5, <1>7, ToStopNew
  <2>2. \A o \in OCC : o \in ToStop(k)' <=> occActive[o] /\ o >= i
    BY <1>1, <1>5, <1>7, ToStopNew
  <2>3. \A o \in OCC : o >= i
    BY <1>6 DEF OCC
  <2>4. \A o \in OCC : o \in B <=> occActive[o]
    BY <1>9, <2>2, <2>3
  <2>5. QED
    BY <1>1, <1>9, <2>1, <2>4 DEF ActiveOccs
<1>11. Left(k)' = activeCount'
  <2>1. todo' # <<>> /\ Head(todo').fn = "stopOccs"
    <3>1. todo' # <<>> => Head(todo') = todo'[1]
      BY <1>5, CallsStack
    <3>2. todo' # <<>>
      BY <1>8 DEF TypeOK
    <3>3. QED
      BY <1>6, <1>7, <1>8, <3>1, <3>2
  <2>2. QED
    BY <2>1 DEF Left, HeadIs
<1>12. Stopping(k)'
  BY <1>7, <1>8, <1>9, <1>10, <1>11 DEF Stopping, CountBound
<1>13. QED
  BY <1>8, <1>12

\* Every step keeps ResetStops.
LEMMA ResetStopsStep ==
    ASSUME TypeOK, TypeOK', Step, FromQueue, CountBound', FoundActive, ResetStops
    PROVE  ResetStops'
<1> DEFINE Goal == Counting' = 0 \/ (\E k \in 1 .. Len(todo) : Stopping(k))'
<1>1. SUFFICES ASSUME resetInProgress' PROVE Goal
  BY DEF ResetStops
<1>2. todo # <<>>
  BY StepRuns
<1>3. CASE InitiateOccRequest /\ ~ resetInProgress
  BY <1>2, <1>3, StopBegins
<1>4. CASE resetInProgress /\ activeCount' <= Counting
  <2>1. CASE Counting = 0
    <3>1. /\ activeCount' \in Nat
          /\ Counting' \in Nat /\ Counting' <= activeCount'
      BY CountingLessNext DEF TypeOK, DataOK
    <3>2. PICK c, d : c = Counting' /\ d = activeCount'
      OBVIOUS
    <3>3. d \in Nat /\ d <= 0 /\ c \in Nat /\ c <= d
      BY <1>4, <2>1, <3>1, <3>2
    <3>4. QED
      BY <3>2, <3>3
  <2>2. CASE \E k \in 1 .. Len(todo) : Stopping(k)
    <3>1. PICK k \in 1 .. Len(todo) : Stopping(k)
      BY <2>2
    <3>2. PICK s : Makes(s)
      BY StepMakes
    <3>3. CASE k > 1
      <4>1. PICK n, j : n = Len(s) /\ j = k + n - 1
        OBVIOUS
      <4>2. n \in Nat
        BY <3>2, <4>1 DEF Makes
      <4>3. j \in 1 .. Len(todo') /\ Stopping(j)'
        BY <1>2, <1>4, <3>1, <3>2, <3>3, <4>1, <4>2, StoppingKept
      <4>4. QED
        BY <4>3
    <3>4. CASE k = 1
      <4>1. Stopping(1) /\ Head(todo).fn = "stopOccs"
        BY <1>2, <3>1, <3>4 DEF Stopping, TypeOK
      <4>2. StopOccs
        BY <4>1 DEF Step, Running, Activate, Deactivate, SetProperty, DeviceError,
             ResetOCC, Unbind, StartPoll, RestartWait, CheckWaiting, CheckSensor,
             CheckAllEnd, ClearQueue, ResetOccRequest, WentActive, WentInactive,
             PldmResetOCC, ResetSent, PollerTimerExpired, PollOcc, ValidateOcc,
             ValidateMaster, UpdateOCCInactive, ClearData, ClearNext, ClearEnd,
             SendHRESET, InitiateOccRequest, HostPoweredOff
      <4>3. QED
        BY <1>2, <4>1, <4>2, StopTurn
    <3>5. QED
      BY <3>1, <3>3, <3>4
  <2>3. QED
    BY <1>4, <2>1, <2>2 DEF ResetStops
<1>5. QED
  BY <1>1, <1>3, <1>4, InProgress

\* An event that activates an OCC has found it.
LEMMA EventActivates ==
    ASSUME Event, NEW f, todo' = <<f>>, f.fn = "activate"
    PROVE  f.occ \in statusObjects'
<1> USE CallIs DEF hostVars, mgrVars
<1>1. ASSUME NEW fn, NEW o, fn # "activate", todo' = <<Call(fn, o)>> PROVE FALSE
  BY <1>1
<1>2. ASSUME NEW o \in statusObjects, todo' = <<Call("activate", o)>>,
             statusObjects' = statusObjects
      PROVE  f.occ \in statusObjects'
  BY <1>2
<1>3. ASSUME NEW g, NEW h, todo' = <<g, h>> PROVE FALSE
  BY <1>3
<1>4. CASE todo' = todo /\ todo = <<>>
  BY <1>4
<1>5. CASE DiscoverTimerExpired \/ PollTimerExpired
  BY <1>1, <1>4, <1>5
     DEF DiscoverTimerExpired, PollTimerExpired, Idle, CheckAllActiveSensors
<1>6. CASE WaitTimerExpired
  BY <1>1, <1>3, <1>6 DEF WaitTimerExpired
<1>7. CASE SensorRunning
  BY <1>2, <1>4, <1>7 DEF SensorRunning, UpdateOCCActive, Idle
<1>8. CASE SensorStopped
  BY <1>1, <1>8 DEF SensorStopped
<1>9. CASE HresetResult
  BY <1>1, <1>2, <1>9 DEF HresetResult, SbeHRESETResult
<1>10. CASE OccError \/ PresenceMismatch \/ SbeTimeout
  BY <1>1, <1>3, <1>10 DEF OccError, PresenceMismatch, SbeTimeout
<1>11. CASE DBusWrite
  BY <1>1, <1>2, <1>11 DEF DBusWrite
<1>12. CASE ResetGivenUp \/ HostStateOff
  BY <1>1, <1>3, <1>12 DEF ResetGivenUp, HostStateOff
<1>13. QED
  BY <1>5, <1>6, <1>7, <1>8, <1>9, <1>10, <1>11, <1>12 DEF Event

\* An event keeps FoundActive.
LEMMA FoundEvent ==
    ASSUME Event, FoundActive
    PROVE  FoundActive'
<1>1. statusObjects \subseteq statusObjects'
  BY DEF Event, DiscoverTimerExpired, PollTimerExpired, WaitTimerExpired,
         SensorRunning, SensorStopped, HresetResult, OccError, PresenceMismatch,
         SbeTimeout, DBusWrite, ResetGivenUp, HostStateOff,
         mgrVars
<1>2. ActiveOccs' \subseteq statusObjects'
  BY <1>1, EventBegins DEF FoundActive, ActiveOccs
<1>3. \A k \in 1 .. Len(todo') :
         todo'[k].fn \in {"activate", "setActive"} => todo'[k].occ \in statusObjects'
  <2>1. CASE todo' = <<>>
    BY <2>1
  <2>2. CASE \E f : BeginsOne(f)
    <3>1. PICK f : BeginsOne(f)
      BY <2>2
    <3>2. todo' = <<f>> /\ f.fn # "setActive"
      BY <3>1 DEF BeginsOne, Marked
    <3>3. f.fn = "activate" => f.occ \in statusObjects'
      BY <3>2, EventActivates
    <3>4. QED
      BY <3>2, <3>3
  <2>3. CASE \E f, g : BeginsTwo(f, g)
    <3>1. PICK f, g : BeginsTwo(f, g)
      BY <2>3
    <3>2. /\ todo' = <<f, g>> /\ f.fn \notin {"activate", "setActive"}
          /\ g.fn \notin {"activate", "setActive"}
      BY <3>1 DEF BeginsTwo, Marked, AtHead
    <3>3. QED
      BY <3>2
  <2>4. QED
    BY <2>1, <2>2, <2>3, EventCalls
<1>4. QED
  BY <1>2, <1>3 DEF FoundActive

\* An event finds the stack empty, and leaves a reset in progress.
LEMMA EventIdle == Event => Idle
BY DEF Event, DiscoverTimerExpired, PollTimerExpired, WaitTimerExpired,
       SensorRunning, SensorStopped, HresetResult, OccError, PresenceMismatch,
       SbeTimeout, DBusWrite, ResetGivenUp, HostStateOff

LEMMA EventResets == Event => resetInProgress' = resetInProgress
BY DEF Event, DiscoverTimerExpired, PollTimerExpired, WaitTimerExpired,
       SensorRunning, SensorStopped, HresetResult, OccError, PresenceMismatch,
       SbeTimeout, DBusWrite, ResetGivenUp, HostStateOff,
       resetVars

\* No call is left: the OCCs are stopped.
LEMMA StoppedIdle ==
    ASSUME ResetStops, Idle, resetInProgress
    PROVE  activeCount = 0
<1>1. Len(todo) = 0 /\ 1 .. Len(todo) = {} /\ Counting = activeCount
  BY DEF Idle, Counting, HeadIs
<1>2. QED
  BY <1>1 DEF ResetStops

\* The OCCs that may be counted have been found, and a reset in progress has
\* stopped them or is about to.
ResetInv == FoundActive /\ ResetStops

LEMMA ResetInvHolds == Spec => []ResetInv
<1>1. Init => ResetInv
  BY DEF Init, ResetInv, FoundActive, ResetStops, ActiveOccs
<1>2. TypeOK /\ TypeOK' /\ CountInv /\ CountInv' /\ ResetInv /\ [Next]_vars
         => ResetInv'
  <2> SUFFICES ASSUME TypeOK, TypeOK', CountInv, CountInv', ResetInv, [Next]_vars
               PROVE  ResetInv'
    OBVIOUS
  <2>1. CASE Step
    <3>1. PICK s : Makes(s)
      BY <2>1, StepMakes
    <3>2. FoundActive'
      BY <2>1, <3>1, StepRuns, FoundStep DEF ResetInv
    <3>3. ResetStops'
      BY <2>1, ResetStopsStep DEF ResetInv, CountInv
    <3>4. QED
      BY <3>2, <3>3 DEF ResetInv
  <2>2. CASE Event
    <3>1. FoundActive'
      BY <2>2, FoundEvent DEF ResetInv
    <3>2. resetInProgress' => activeCount' = 0
      BY <2>2, EventIdle, EventResets, EventBegins, StoppedIdle DEF ResetInv
    <3>3. /\ activeCount' \in Nat
          /\ Counting' \in Nat /\ Counting' <= activeCount'
      BY CountingLessNext DEF TypeOK, DataOK
    <3>4. resetInProgress' => Counting' = 0
      <4>1. PICK c, d : c = Counting' /\ d = activeCount'
        OBVIOUS
      <4>2. d \in Nat /\ c \in Nat /\ c <= d
        BY <3>3, <4>1
      <4>3. d = 0 => c = 0
        BY <4>2
      <4>4. QED
        BY <3>2, <4>1, <4>3
    <3>5. QED
      BY <3>1, <3>4 DEF ResetInv, ResetStops
  <2>3. CASE HostChanges \/ UNCHANGED vars
    <3>1. UNCHANGED <<todo, occActive, activeCount, statusObjects, resetInProgress>>
      BY <2>3, OnlyTheHost DEF allButHost, mgrVars, resetVars, pollVars, occVars
    <3>2. FoundActive'
      BY <3>1 DEF ResetInv, FoundActive, ActiveOccs
    <3>3. Counting' = Counting
      BY <3>1 DEF Counting, OneLess, HeadIs
    <3>4. \A k : Stopping(k)' <=> Stopping(k)
      <4>1. \A k : Left(k)' = Left(k)
        BY <3>1 DEF Left, OneLess, HeadIs
      <4>2. \A k : ToStop(k)' = ToStop(k)
        BY <3>1 DEF ToStop, FinallyOn, OnAfter
      <4>3. QED
        BY <3>1, <4>1, <4>2 DEF Stopping
    <3>5. ResetStops'
      BY <3>1, <3>3, <3>4 DEF ResetInv, ResetStops
    <3>6. QED
      BY <3>2, <3>5 DEF ResetInv
  <2>4. QED
    BY <2>1, <2>2, <2>3 DEF Next
<1>3. QED
  BY <1>1, <1>2, TypeCorrect, CountInvHolds, PTL DEF Spec

\* Between handlers no OCC is counted while a reset is in progress: the loop of
\* initiateOccRequest has taken every counted OCC off the count, whatever its
\* callbacks did meanwhile, and statusCallBack has counted none.
THEOREM ResetIsStopped == Spec => []ResetStopsPolling
<1>1. ResetInv => ResetStopsPolling
  BY StoppedIdle DEF ResetInv, ResetStopsPolling
<1>2. QED
  BY <1>1, ResetInvHolds, PTL

\* No handler calls hostPoweredOff.
LEMMA NewCalls ==
    ASSUME NEW s, Makes(s)
    PROVE  \A k \in 1 .. Len(s) : s[k].fn # "hostPoweredOff"
<1>1. CASE Inside(s)
  BY <1>1, InsideShape
<1>2. CASE Outer(s)
  BY <1>2 DEF Outer, OuterFn, Inner
<1>3. QED
  BY <1>1, <1>2 DEF Makes

\* Every step keeps PoweredOffLast.
LEMMA PoweredOffStep ==
    ASSUME TypeOK, todo # <<>>, PoweredOffLast, NEW s, Makes(s)
    PROVE  PoweredOffLast'
<1>1. s \in Seq(Frame) /\ Calls(s)
  BY DEF Makes
<1>2. PICK n \in Nat : n = Len(s)
  BY <1>1
<1>3. /\ Len(todo') = Len(todo) + n - 1 /\ Len(todo) \in Nat
      /\ \A k \in 1 .. n : todo'[k] = s[k]
      /\ \A k \in (n + 1) .. Len(todo') :
            k - n + 1 \in 2 .. Len(todo) /\ todo'[k] = todo[k - n + 1]
  BY <1>1, <1>2, CallsStack
<1>4. SUFFICES ASSUME NEW k \in 1 .. (Len(todo') - 1)
               PROVE  todo'[k].fn # "hostPoweredOff"
  BY DEF PoweredOffLast
<1>5. CASE k \in 1 .. n
  BY <1>2, <1>3, <1>5, NewCalls
<1>6. CASE k \in (n + 1) .. Len(todo')
  <2>1. PICK l : l = k - n + 1 /\ todo'[k] = todo[l]
    BY <1>3, <1>6
  <2>2. l \in 1 .. (Len(todo) - 1)
    BY <1>3, <1>6, <2>1
  <2>3. QED
    BY <2>1, <2>2 DEF PoweredOffLast
<1>7. QED
  BY <1>3, <1>5, <1>6

\* A call made is on the stack.
LEMMA OnStackNew ==
    ASSUME TypeOK, todo # <<>>, NEW s \in Seq(Frame), Calls(s), NEW fns,
           NEW k \in 1 .. Len(s), s[k].fn \in fns
    PROVE  OnStack(fns)'
<1>1. /\ Len(todo') = Len(todo) + Len(s) - 1 /\ Len(todo) \in Nat /\ Len(todo) > 0
      /\ Len(s) \in Nat
  BY CallsStack
<1>2. todo'[k] = s[k]
  BY CallsStack
<1>3. k \in 1 .. Len(todo')
  BY <1>1
<1>4. QED
  BY <1>2, <1>3 DEF OnStack

\* The one call, or the first of two
LEMMA OnStackFirst ==
    ASSUME TypeOK, todo # <<>>, NEW fns, NEW f \in Frame, NEW g \in Frame,
           f.fn \in fns, Calls(<<f>>) \/ Calls(<<f, g>>)
    PROVE  OnStack(fns)'
<1>1. CASE Calls(<<f>>)
  <2>1. PICK s : s = <<f>>
    OBVIOUS
  <2>2. s \in Seq(Frame) /\ Calls(s) /\ 1 \in 1 .. Len(s) /\ s[1].fn \in fns
    BY <1>1, <2>1
  <2>3. QED
    BY <2>2, OnStackNew
<1>2. CASE Calls(<<f, g>>)
  <2>1. PICK s : s = <<f, g>>
    OBVIOUS
  <2>2. s \in Seq(Frame) /\ Calls(s) /\ 1 \in 1 .. Len(s) /\ s[1].fn \in fns
    BY <1>2, <2>1
  <2>3. QED
    BY <2>2, OnStackNew
<1>3. QED
  BY <1>1, <1>2

\* An OCC that is counted has the polling started.
LEMMA WentActiveStarts ==
    ASSUME TypeOK, WentActive, ~ resetInProgress
    PROVE  OnStack({"startPoll"})'
<1>1. todo # <<>> /\ self \in OCC
  BY HeadType DEF WentActive, Running, OccCalls, TypeOK
<1>2. PICK count : Calls(AfterCount(count))
  BY DEF WentActive
<1>3. PICK b, p, c : /\ AfterCount(count) = b \o <<p, c>>
                     /\ b \in Seq(Frame) /\ p \in Frame /\ c \in Frame
                     /\ p.fn = "startPoll"
  <2>1. PICK i, r, v, p, c :
           /\ i = Call("initiateOccRequest", resetInstance)
           /\ r = Call("restartWait", NoInstance) /\ v = Call("validateOcc", 0)
           /\ p = Call("startPoll", self) /\ c = Call("checkWaiting", self)
    OBVIOUS
  <2>2. /\ i \in Frame /\ r \in Frame /\ v \in Frame /\ p \in Frame /\ c \in Frame
        /\ p.fn = "startPoll"
    BY <1>1, <2>1, CallType, CallFn, NAssumption
       DEF OccCalls, LoopCalls, ManagerCalls, TypeOK, DataOK, Instance
  <2>3. PICK b : /\ b \in {<<>>, <<i, r>>, <<v>>}
                 /\ AfterCount(count) = b \o <<p, c>>
    BY <2>1, Zenon DEF AfterCount
  <2>4. b \in Seq(Frame)
    <3>1. <<>> \in Seq(Frame) /\ <<i, r>> \in Seq(Frame) /\ <<v>> \in Seq(Frame)
      BY <2>2, FewCalls
    <3>2. QED
      BY <2>3, <3>1, Zenon
  <2>5. QED
    BY <2>2, <2>3, <2>4
<1>4. PICK s, k : s = b \o <<p, c>> /\ k = Len(b) + 1
  OBVIOUS
<1>5. s \in Seq(Frame) /\ k \in 1 .. Len(s) /\ s[k] = p
  BY <1>3, <1>4
<1>6. QED
  BY <1>1, <1>2, <1>3, <1>4, <1>5, OnStackNew

\* What may stop the polling, or make it necessary
LEMMA PollChanges ==
    ASSUME Step
    PROVE  \/ UNCHANGED <<activeCount, pollTimer, resetInProgress>>
           \/ WentActive \/ WentInactive \/ PollOcc \/ InitiateOccRequest
           \/ HostPoweredOff
BY DEF Step, resetVars, pollVars, Activate, Deactivate, Unbind, SetProperty,
       DeviceError, ResetOCC, StartPoll, RestartWait, CheckWaiting, CheckSensor,
       CheckAllEnd, ClearQueue, ResetOccRequest, StopOccs, PldmResetOCC,
       ResetSent, PollerTimerExpired, ValidateOcc, ValidateMaster,
       UpdateOCCInactive, ClearData, ClearNext, ClearEnd, SendHRESET

\* A call that will start the polling does, or leads to another one.
LEMMA StarterRuns ==
    ASSUME TypeOK, TypeOK', Step, Head(todo).fn \in Starters,
           activeCount' > 0, ~ pollTimer', ~ resetInProgress'
    PROVE  OnStack(Starters)'
<1>1. todo # <<>> /\ resetInstance \in Instance /\ NoInstance \in Instance
  BY StepRuns DEF TypeOK, DataOK, Instance
<1>2. \/ StartPoll \/ PollerTimerExpired \/ PollOcc \/ InitiateOccRequest
  BY DEF Starters, Step, Running, Activate, Deactivate, SetProperty, DeviceError,
         ResetOCC, Unbind, RestartWait, CheckWaiting, CheckSensor, CheckAllEnd,
         ClearQueue, ResetOccRequest, WentActive, WentInactive, StopOccs,
         PldmResetOCC, ResetSent, ValidateOcc, ValidateMaster,
         UpdateOCCInactive, ClearData, ClearNext, ClearEnd, SendHRESET,
         HostPoweredOff
<1>3. CASE StartPoll
  <2>1. ~ pollTimer
    BY <1>3 DEF StartPoll, pollVars
  <2>2. PICK f : f = Call("pollerTimerExpired", NoInstance)
    OBVIOUS
  <2>3. f \in Frame /\ f.fn \in Starters
    BY <1>1, <2>2, CallType, CallFn DEF ManagerCalls, Starters
  <2>4. Calls(<<f>>)
    BY <1>3, <2>1, <2>2 DEF StartPoll, ReturnOr
  <2>5. QED
    BY <1>1, <2>3, <2>4, OnStackFirst
<1>4. CASE PollerTimerExpired
  <2>1. PICK f, g, h : /\ f = Call("initiateOccRequest", resetInstance)
                       /\ g = Call("restartWait", NoInstance)
                       /\ h = Call("pollOcc", 0)
    OBVIOUS
  <2>2. /\ f \in Frame /\ g \in Frame /\ h \in Frame
        /\ f.fn \in Starters /\ h.fn \in Starters
    BY <1>1, <2>1, CallType, CallFn, NAssumption
       DEF ManagerCalls, LoopCalls, Starters
  <2>3. Calls(<<f, g>>) \/ Calls(<<h>>)
    BY <1>4, <2>1 DEF PollerTimerExpired
  <2>4. QED
    BY <1>1, <2>2, <2>3, OnStackFirst
<1>5. CASE PollOcc
  <2>1. self \in OCC
    BY <1>5 DEF PollOcc, PollAgain, pollVars, TypeOK, DataOK
  <2>2. PICK f, g : f = Call("deviceError", self) /\ g = Call("pollOcc", self + 1)
    OBVIOUS
  <2>3. /\ f \in Frame /\ g \in Frame /\ g.fn \in Starters
    BY <2>1, <2>2, CallType, CallFn, NAssumption DEF OccCalls, LoopCalls, Starters, OCC
  <2>4. Calls(<<g>>) \/ Calls(<<f, g>>)
    BY <1>5, <2>2 DEF PollOcc, PollAgain
  <2>5. CASE Calls(<<g>>)
    BY <1>1, <2>3, <2>5, OnStackFirst
  <2>6. CASE Calls(<<f, g>>)
    <3>1. PICK s : s = <<f, g>>
      OBVIOUS
    <3>2. s \in Seq(Frame) /\ Calls(s) /\ 2 \in 1 .. Len(s) /\ s[2].fn \in Starters
      BY <2>3, <2>6, <3>1
    <3>3. QED
      BY <1>1, <3>2, OnStackNew
  <2>7. QED
    BY <2>4, <2>5, <2>6
<1>6. CASE InitiateOccRequest
  BY <1>6 DEF InitiateOccRequest
<1>7. QED
  BY <1>2, <1>3, <1>4, <1>5, <1>6

\* Every step keeps PollStarts: the host is powered off only when a reset in
\* progress has stopped all OCCs.
LEMMA PollStartsStep ==
    ASSUME TypeOK, TypeOK', Step, ResetStops, PoweredOffLast, PollStarts
    PROVE  PollStarts'
<1>1. SUFFICES ASSUME activeCount' > 0, ~ pollTimer', ~ resetInProgress'
               PROVE  OnStack(Starters)'
  BY DEF PollStarts
<1>2. todo # <<>> /\ activeCount \in Nat /\ activeCount' \in Nat
  BY StepRuns DEF TypeOK, DataOK
<1>3. CASE Head(todo).fn \in Starters
  BY <1>1, <1>3, StarterRuns
<1>4. CASE Head(todo).fn \notin Starters /\ OnStack(Starters)
  <2>1. PICK s \in Seq(Frame) : Calls(s) \/ Return
    <3>1. <<>> \in Seq(Frame)
      OBVIOUS
    <3>2. QED
      BY <3>1, StepCalls
  <2>2. QED
    BY <1>4, <2>1, OnStackKept
<1>5. CASE Head(todo).fn \notin Starters /\ ~ OnStack(Starters)
  <2>1. activeCount = 0 \/ pollTimer \/ resetInProgress
    BY <1>2, <1>5 DEF PollStarts
  <2>2. CASE UNCHANGED <<activeCount, pollTimer, resetInProgress>>
    BY <1>1, <1>2, <2>1, <2>2
  <2>3. CASE WentActive
    <3>1. ~ resetInProgress
      BY <1>1, <2>3 DEF WentActive, resetVars
    <3>2. OnStack({"startPoll"})'
      BY <2>3, <3>1, WentActiveStarts
    <3>3. QED
      BY <3>2 DEF OnStack, Starters
  <2>4. CASE WentInactive
    <3>1. /\ activeCount' = OneLess
          /\ resetInProgress' = (resetInProgress /\ ~ (OneLess = 0))
          /\ pollTimer' = (pollTimer /\ ~ (OneLess = 0))
      BY <2>4, Zenon DEF WentInactive
    <3>2. ~ (OneLess = 0)
      BY <1>1, <3>1
    <3>3. ~ pollTimer /\ ~ resetInProgress
      BY <1>1, <3>1, <3>2, Zenon
    <3>4. activeCount = 0 => OneLess = 0
      BY DEF OneLess
    <3>5. QED
      BY <2>1, <3>2, <3>3, <3>4
  <2>5. CASE PollOcc \/ InitiateOccRequest
    BY <1>5, <2>5 DEF PollOcc, InitiateOccRequest, Running, Starters
  <2>6. CASE HostPoweredOff
    <3>1. /\ Head(todo).fn = "hostPoweredOff" /\ activeCount' = activeCount
          /\ pollTimer' = pollTimer
      BY <2>6 DEF HostPoweredOff, Running, pollVars
    <3>2. resetInProgress
      BY <1>1, <1>2, <2>1, <3>1
    <3>3. Len(todo) = 1 /\ todo[1] = Head(todo)
      <4>1. todo[1] = Head(todo) /\ Len(todo) \in Nat /\ Len(todo) > 0
        BY <1>2 DEF TypeOK
      <4>2. ~ (1 \in 1 .. (Len(todo) - 1))
        BY <3>1, <4>1 DEF PoweredOffLast
      <4>3. PICK l \in Nat : l = Len(todo)
        BY <4>1
      <4>4. l > 0 /\ ~ (1 \in 1 .. (l - 1)) => l = 1
        OBVIOUS
      <4>5. QED
        BY <4>1, <4>2, <4>3, <4>4
    <3>4. Counting = 0
      BY <3>1, <3>2, <3>3 DEF ResetStops, Stopping
    <3>5. Counting = activeCount
      BY <3>1 DEF Counting, HeadIs
    <3>6. QED
      BY <1>1, <1>2, <3>1, <3>4, <3>5
  <2>7. QED
    BY <2>2, <2>3, <2>4, <2>5, <2>6, PollChanges
<1>6. QED
  BY <1>3, <1>4, <1>5

\* An event that stops the poll timer polls.
LEMMA PollStartsEvent ==
    ASSUME Event, PollStarts
    PROVE  PollStarts'
<1>1. CASE PollTimerExpired
  <2>1. PICK f : f = Call("pollerTimerExpired", NoInstance)
    OBVIOUS
  <2>2. todo' = <<f>> /\ f.fn \in Starters
    BY <1>1, <2>1, CallFn DEF PollTimerExpired, Starters
  <2>3. 1 \in 1 .. Len(todo') /\ todo'[1].fn \in Starters
    BY <2>2
  <2>4. QED
    BY <2>3 DEF PollStarts, OnStack
<1>2. CASE ~ PollTimerExpired
  <2>1. UNCHANGED <<activeCount, pollTimer, resetInProgress>>
    BY <1>2, EventBegins, EventResets
       DEF Event, DiscoverTimerExpired, WaitTimerExpired, SensorRunning,
           SensorStopped, HresetResult, OccError, PresenceMismatch, SbeTimeout,
           DBusWrite, ResetGivenUp, HostStateOff, pollVars
  <2>2. ~ OnStack(Starters)
    BY EventIdle DEF Idle, OnStack
  <2>3. QED
    BY <2>1, <2>2 DEF PollStarts
<1>3. QED
  BY <1>1, <1>2

\* An event calls hostPoweredOff last, if at all.
LEMMA PoweredOffEvent ==
    ASSUME Event
    PROVE  PoweredOffLast'
<1>1. CASE todo' = <<>> \/ \E f : BeginsOne(f)
  <2>1. todo' = <<>> \/ \E f : todo' = <<f>>
    BY <1>1 DEF BeginsOne
  <2>2. Len(todo') = 0 \/ Len(todo') = 1
    BY <2>1
  <2>3. 1 .. (0 - 1) = {} /\ 1 .. (1 - 1) = {}
    OBVIOUS
  <2>4. 1 .. (Len(todo') - 1) = {}
    BY <2>2, <2>3
  <2>5. QED
    BY <2>4 DEF PoweredOffLast
<1>2. CASE \E f, g : BeginsTwo(f, g)
  <2>1. PICK f, g : BeginsTwo(f, g)
    BY <1>2
  <2>2. todo' = <<f, g>>
    BY <2>1 DEF BeginsTwo
  <2>3. f.fn # "hostPoweredOff"
    <3>1. SUFFICES todo'[1].fn # "hostPoweredOff"
      BY <2>2
    <3>2. ASSUME NEW fn, NEW o, fn # "hostPoweredOff", NEW h, todo' = <<Call(fn, o), h>>
          PROVE  todo'[1].fn # "hostPoweredOff"
      BY <3>2, CallFn
    <3>3. Len(todo') = 2 /\ todo' # <<>> /\ \A h : todo' # <<h>>
      BY <2>2
    <3>4. CASE todo' = todo
      BY <3>3, <3>4, EventIdle DEF Idle
    <3>5. CASE \/ DiscoverTimerExpired \/ PollTimerExpired \/ WaitTimerExpired
      BY <3>2, <3>3, <3>4, <3>5
         DEF DiscoverTimerExpired, PollTimerExpired, WaitTimerExpired
    <3>6. CASE SensorRunning \/ SensorStopped \/ HresetResult
      BY <3>3, <3>4, <3>6 DEF SensorRunning, UpdateOCCActive, SensorStopped,
                              HresetResult, SbeHRESETResult
    <3>7. CASE OccError \/ PresenceMismatch \/ SbeTimeout \/ DBusWrite
      BY <3>2, <3>3, <3>7 DEF OccError, PresenceMismatch, SbeTimeout, DBusWrite
    <3>8. CASE ResetGivenUp \/ HostStateOff
      BY <3>2, <3>3, <3>4, <3>8 DEF ResetGivenUp, HostStateOff
    <3>9. QED
      BY <3>5, <3>6, <3>7, <3>8 DEF Event
  <2>4. QED
    BY <2>2, <2>3 DEF PoweredOffLast
<1>3. QED
  BY <1>1, <1>2, EventCalls

PollInv == PollStarts /\ PoweredOffLast

LEMMA PollInvHolds == Spec => []PollInv
<1>1. Init => PollInv
  BY DEF Init, PollInv, PollStarts, PoweredOffLast
<1>2. TypeOK /\ TypeOK' /\ ResetInv /\ PollInv /\ [Next]_vars => PollInv'
  <2> SUFFICES ASSUME TypeOK, TypeOK', ResetInv, PollInv, [Next]_vars
               PROVE  PollInv'
    OBVIOUS
  <2>1. CASE Step
    <3>1. PICK s : Makes(s)
      BY <2>1, StepMakes
    <3>2. PoweredOffLast'
      BY <2>1, <3>1, StepRuns, PoweredOffStep DEF PollInv
    <3>3. PollStarts'
      BY <2>1, PollStartsStep DEF PollInv, ResetInv
    <3>4. QED
      BY <3>2, <3>3 DEF PollInv
  <2>2. CASE Event
    BY <2>2, PollStartsEvent, PoweredOffEvent DEF PollInv
  <2>3. CASE HostChanges \/ UNCHANGED vars
    BY <2>3, OnlyTheHost
       DEF allButHost, resetVars, pollVars, PollInv, PollStarts, PoweredOffLast, OnStack
  <2>4. QED
    BY <2>1, <2>2, <2>3 DEF Next
<1>3. QED
  BY <1>1, <1>2, TypeCorrect, ResetInvHolds, PTL DEF Spec

\* Between handlers the poll timer runs exactly while an OCC is counted: no
\* reset, error or power-off in the middle of a poll leaves one unpolled.
THEOREM PolledAlways == Spec => []PolledWhileActive
<1>1. TypeOK /\ PollNeedsActive /\ PollInv /\ ResetInv => PolledWhileActive
  <2> SUFFICES ASSUME TypeOK, PollNeedsActive, PollInv, ResetInv, Idle
               PROVE  pollTimer <=> activeCount > 0
    BY DEF PolledWhileActive
  <2>1. ~ OnStack(Starters)
    BY DEF Idle, OnStack
  <2>2. resetInProgress => ~ (activeCount > 0)
    BY StoppedIdle DEF ResetInv
  <2>3. QED
    BY <2>1, <2>2 DEF PollInv, PollStarts, PollNeedsActive, TypeOK, DataOK
<1>2. QED
  BY <1>1, TypeCorrect, PollingStops, PollInvHolds, ResetInvHolds, PTL

-----------------------------------------------------------------------------
(* The master OCC                                                            *)

\* All OCCs that were found are counted.
Full == statusObjects # {} /\ activeCount >= Cardinality(statusObjects)
Watched == \E m \in Masters : presence[m]

\* A call of the loop of validateOccMaster that has not found a master
Seeks(f) == f.fn \in {"validateOcc", "validateMaster"} /\ f.arg = NoInstance
Seeking == \E k \in 1 .. Len(todo) : Seeks(todo[k])

\* The call at the head takes an OCC off the count, or makes one inactive that
\* is no more counted, if all are active.
Stops ==
    \/ /\ HeadIs({"deviceError", "deactivate", "wentInactive", "setInactive"})
       /\ self \in statusObjects
    \/ HeadIs({"initiateOccRequest"}) /\ ~ resetInProgress
    \/ HeadIs({"stopOccs"}) /\ \E o \in statusObjects : self <= o

\* When all OCCs are counted, the master is watched, or the validation has not
\* come to it, or the OCCs are about to be less.
MasterComes == Full => Watched \/ Seeking \/ Stops

\* What ends the watches of an OCC is followed by what makes it inactive.
UnbindFollowed ==
    \A j \in 1 .. Len(todo) : todo[j].fn = "unbind" =>
        /\ j < Len(todo)
        /\ todo[j + 1].fn = "setInactive" /\ todo[j + 1].occ = todo[j].occ

\* If all are counted, all are active, and nothing is counted more.
LEMMA AllActive ==
    ASSUME TypeOK, CountBound, FoundActive, Full
    PROVE  /\ ActiveOccs = statusObjects
           /\ activeCount = Cardinality(statusObjects)
           /\ activeCount \in Nat /\ activeCount > 0
<1>1. /\ ActiveOccs \subseteq statusObjects /\ statusObjects \subseteq OCC
      /\ activeCount \in Nat /\ statusObjects # {}
      /\ activeCount >= Cardinality(statusObjects)
      /\ activeCount <= Cardinality(ActiveOccs)
  BY DEF FoundActive, TypeOK, DataOK, Full, CountBound
<1>2. IsFiniteSet(OCC)
  BY NAssumption, FS_Interval DEF OCC
<1>3. IsFiniteSet(statusObjects)
  BY <1>1, <1>2, FS_Subset
<1>4. /\ IsFiniteSet(ActiveOccs)
      /\ Cardinality(ActiveOccs) <= Cardinality(statusObjects)
      /\ Cardinality(ActiveOccs) = Cardinality(statusObjects)
            => ActiveOccs = statusObjects
  BY <1>1, <1>3, FS_Subset
<1>5. Cardinality(statusObjects) \in Nat /\ Cardinality(ActiveOccs) \in Nat
      /\ Cardinality(statusObjects) # 0
  BY <1>1, <1>3, <1>4, FS_CardinalityType, FS_EmptySet
<1>6. PICK a \in Nat, b \in Nat, c \in Nat :
         a = Cardinality(ActiveOccs) /\ b = Cardinality(statusObjects) /\ c = activeCount
  BY <1>1, <1>5
<1>7. a <= b /\ c >= b /\ c <= a /\ b # 0
  BY <1>1, <1>4, <1>5, <1>6
<1>8. a = b /\ c = b /\ c > 0
  BY <1>7
<1>9. QED
  BY <1>1, <1>4, <1>6, <1>8

\* ... so that with an OCC that is not active, they are not all counted.
LEMMA NotFull ==
    ASSUME TypeOK, CountBound, FoundActive, NEW o \in statusObjects, ~ occActive[o]
    PROVE  ~ Full
BY AllActive DEF ActiveOccs

LEMMA NotFullNext ==
    (TypeOK /\ CountBound /\ FoundActive
       => \A o \in statusObjects : ~ occActive[o] => ~ Full)'
<1>1. TypeOK /\ CountBound /\ FoundActive
        => \A o \in statusObjects : ~ occActive[o] => ~ Full
  BY NotFull
<1>2. QED
  BY <1>1, PTL

LEMMA AllActiveNext ==
    (TypeOK /\ CountBound /\ FoundActive /\ Full
       => activeCount = Cardinality(statusObjects))'
<1>1. TypeOK /\ CountBound /\ FoundActive /\ Full
        => activeCount = Cardinality(statusObjects)
  BY AllActive
<1>2. QED
  BY <1>1, PTL

\* A call that seeks a master below the head stays on the stack.
LEMMA SeekingKept ==
    ASSUME TypeOK, todo # <<>>, NEW s \in Seq(Frame), Calls(s),
           Seeking, ~ Seeks(Head(todo))
    PROVE  Seeking'
<1>1. PICK k \in 1 .. Len(todo) : Seeks(todo[k])
  BY DEF Seeking
<1>2. /\ Len(s) \in Nat /\ Len(todo) \in Nat /\ Len(todo) > 0
      /\ Len(todo') = Len(todo) + Len(s) - 1 /\ Head(todo) = todo[1]
      /\ \A m \in 2 .. Len(todo) : todo'[m + (Len(s) - 1)] = todo[m]
  BY CallsStack
<1>3. k # 1
  BY <1>1, <1>2
<1>4. PICK n \in Nat, l \in Nat : n = Len(s) /\ l = Len(todo)
  BY <1>2
<1>5. k \in 2 .. l /\ k + (n - 1) \in 1 .. (l + n - 1)
  BY <1>3, <1>4
<1>6. todo'[k + (n - 1)] = todo[k] /\ k + (n - 1) \in 1 .. Len(todo')
  BY <1>2, <1>4, <1>5
<1>7. QED
  BY <1>1, <1>6 DEF Seeking

\* A new call at the head that seeks a master
LEMMA SeekingNew ==
    ASSUME TypeOK, todo # <<>>, NEW r \in Seq(Frame), r # <<>>, Calls(r),
           Seeks(r[1])
    PROVE  Seeking'
<1>2. 1 \in 1 .. Len(r)
  OBVIOUS
<1>3. /\ Len(r) \in Nat /\ Len(todo) \in Nat /\ Len(todo) > 0
      /\ Len(todo') = Len(todo) + Len(r) - 1 /\ todo'[1] = r[1]
  BY <1>2, CallsStack
<1>4. 1 \in 1 .. Len(todo')
  BY <1>2, <1>3
<1>5. QED
  BY <1>2, <1>3, <1>4 DEF Seeking

\* Every step keeps UnbindFollowed.
LEMMA UnbindStep ==
    ASSUME TypeOK, todo # <<>>, UnbindFollowed, NEW s, Makes(s)
    PROVE  UnbindFollowed'
<1>1. s \in Seq(Frame) /\ Calls(s)
  BY DEF Makes
<1>2. PICK n \in Nat : n = Len(s)
  BY <1>1
<1>3. /\ Len(todo') = Len(todo) + n - 1 /\ Len(todo) \in Nat /\ Len(todo) > 0
      /\ \A i \in 1 .. n : todo'[i] = s[i]
      /\ \A m \in 2 .. Len(todo) : todo'[m + (n - 1)] = todo[m]
      /\ \A i \in (n + 1) .. Len(todo') :
            i - n + 1 \in 2 .. Len(todo) /\ todo'[i] = todo[i - n + 1]
  BY <1>1, <1>2, CallsStack
<1>4. ASSUME NEW j \in 1 .. n, s[j].fn = "unbind"
      PROVE  j < n /\ s[j + 1].fn = "setInactive" /\ s[j + 1].occ = s[j].occ
  <2>1. CASE Outer(s)
    <3>1. OuterFn(s[j].fn)
      BY <1>2, <2>1 DEF Outer
    <3>2. FALSE
      BY <1>4, <3>1 DEF OuterFn, Inner
    <3>3. QED
      BY <3>2
  <2>2. CASE Inside(s)
    <3>1. s = <<Call("wentInactive", self), Call("unbind", self),
                Call("setInactive", self)>>
      <4>1. PICK a, b, c, d, e, f, g, h :
               /\ a = Call("setActive", self) /\ b = Call("wentActive", self)
               /\ c = Call("deviceError", self) /\ d = Call("setInactive", self)
               /\ e = Call("deactivate", self) /\ f = Call("resetOCC", self)
               /\ g = Call("resetOccRequest", self) /\ h = Call("wentInactive", self)
        OBVIOUS
      <4>2. \A x \in {a, b, c, d, e, f, g, h} : x.fn # "unbind"
        BY <4>1, CallIs
      <4>3. \/ s \in {<<a>>, <<b, a>>, <<c, d>>, <<d>>, <<>>, <<e, f>>, <<e, g>>}
            \/ s = <<h, Call("unbind", self), d>>
        BY <2>2, <4>1 DEF Inside
      <4>4. j \in 1 .. Len(s)
        BY <1>2
      <4>5. QED
        BY <1>4, <4>1, <4>2, <4>3, <4>4
    <3>2. PICK a, b, c : /\ a = Call("wentInactive", self) /\ b = Call("unbind", self)
                         /\ c = Call("setInactive", self)
      OBVIOUS
    <3>3. n = 3 /\ s[1] = a /\ s[2] = b /\ s[3] = c
      BY <1>2, <3>1, <3>2
    <3>4. /\ a.fn # "unbind" /\ c.fn # "unbind" /\ c.fn = "setInactive"
          /\ c.occ = b.occ
      BY <3>2, CallIs
    <3>5. j = 2
      BY <1>4, <3>3, <3>4
    <3>6. QED
      BY <3>3, <3>4, <3>5
  <2>3. QED
    BY <2>1, <2>2 DEF Makes
<1>5. ASSUME NEW j \in 1 .. Len(todo'), todo'[j].fn = "unbind"
      PROVE  /\ j < Len(todo')
             /\ todo'[j + 1].fn = "setInactive" /\ todo'[j + 1].occ = todo'[j].occ
  <2>1. CASE j <= n
    <3>1. j \in 1 .. n
      BY <2>1
    <3>2. todo'[j] = s[j] /\ j < n /\ s[j + 1].fn = "setInactive"
          /\ s[j + 1].occ = s[j].occ
      BY <1>3, <1>4, <1>5, <3>1
    <3>3. j + 1 \in 1 .. n /\ j < Len(todo')
      BY <1>3, <3>1, <3>2
    <3>4. QED
      BY <1>3, <3>2, <3>3
  <2>2. CASE j > n
    <3>1. j \in (n + 1) .. Len(todo')
      BY <1>3, <2>2
    <3>2. PICK m \in 2 .. Len(todo) : m = j - n + 1 /\ todo'[j] = todo[m]
      BY <1>3, <3>1
    <3>3. /\ m < Len(todo) /\ todo[m + 1].fn = "setInactive"
          /\ todo[m + 1].occ = todo[m].occ
      <4>1. m \in 1 .. Len(todo) /\ todo[m].fn = "unbind"
        BY <1>5, <3>2
      <4>2. QED
        BY <4>1 DEF UnbindFollowed
    <3>4. PICK l \in Nat : l = Len(todo)
      BY <1>3
    <3>5. m + 1 \in 2 .. l /\ (m + 1) + (n - 1) = j + 1 /\ j < l + n - 1
      BY <3>2, <3>3, <3>4
    <3>6. todo'[(m + 1) + (n - 1)] = todo[m + 1]
      BY <1>3, <3>4, <3>5
    <3>7. QED
      BY <1>3, <3>2, <3>3, <3>4, <3>5, <3>6
  <2>3. QED
    BY <1>3, <2>1, <2>2
<1>6. QED
  BY <1>5 DEF UnbindFollowed

\* The actions that a step at the head of the stack may be, for the calls that
\* MasterComes is about, and those that change the watch or the count
LEMMA MasterActions ==
    ASSUME Step
    PROVE  /\ Head(todo).fn = "validateOcc" => ValidateOcc
           /\ Head(todo).fn = "validateMaster" => ValidateMaster
           /\ Head(todo).fn = "deviceError" => DeviceError
           /\ Head(todo).fn = "deactivate" => Deactivate
           /\ Head(todo).fn = "wentInactive" => WentInactive
           /\ Head(todo).fn = "setInactive" => SetProperty
           /\ Head(todo).fn = "initiateOccRequest" => InitiateOccRequest
           /\ Head(todo).fn = "stopOccs" => StopOccs
           /\ \/ presence' = presence
              \/ Activate \/ Unbind \/ ValidateMaster
           /\ \/ activeCount' = activeCount
              \/ WentActive \/ WentInactive
<1>1. /\ \/ presence' = presence
         \/ Activate \/ Unbind \/ ValidateMaster
      /\ \/ activeCount' = activeCount
         \/ WentActive \/ WentInactive
  BY DEF Step, pollVars, occVars, Deactivate, SetProperty,
         DeviceError, ResetOCC, WentActive, StartPoll, RestartWait,
         WentInactive, CheckWaiting, CheckSensor, CheckAllEnd, ClearQueue,
         ResetOccRequest, InitiateOccRequest, StopOccs, PldmResetOCC,
         ResetSent, PollerTimerExpired, PollOcc, ValidateOcc, ValidateMaster,
         UpdateOCCInactive, ClearData, ClearNext, ClearEnd, SendHRESET,
         HostPoweredOff, Activate, Unbind
<1>2. \/ Head(todo).fn = "validateOcc" /\ ValidateOcc
      \/ Head(todo).fn = "validateMaster" /\ ValidateMaster
      \/ Head(todo).fn = "deviceError" /\ DeviceError
      \/ Head(todo).fn = "deactivate" /\ Deactivate
      \/ Head(todo).fn = "wentInactive" /\ WentInactive
      \/ Head(todo).fn = "setInactive" /\ SetProperty
      \/ Head(todo).fn = "initiateOccRequest" /\ InitiateOccRequest
      \/ Head(todo).fn = "stopOccs" /\ StopOccs
      \/ Head(todo).fn \notin
            {"validateOcc", "validateMaster", "deviceError", "deactivate",
             "wentInactive", "setInactive", "initiateOccRequest", "stopOccs"}
  BY DEF Step, Running, Activate, Deactivate, Unbind, SetProperty, DeviceError,
         ResetOCC, WentActive, StartPoll, RestartWait, WentInactive, CheckWaiting,
         CheckSensor, CheckAllEnd, ClearQueue, ResetOccRequest,
         InitiateOccRequest, StopOccs, PldmResetOCC, ResetSent,
         PollerTimerExpired, PollOcc, ValidateOcc, ValidateMaster,
         UpdateOCCInactive, ClearData, ClearNext, ClearEnd, SendHRESET,
         HostPoweredOff
<1>3. QED
  BY <1>1, <1>2

\* Only unbinding its device ends the presence watch of an OCC.
LEMMA PresenceKept ==
    ASSUME TypeOK, WatchesInv, Step, NEW m \in OCC, presence[m], ~ presence'[m]
    PROVE  Unbind /\ self = m
<1>1. presence \in [OCC -> BOOLEAN] /\ todo \in Seq(Frame) /\ todo # <<>>
  BY StepRuns DEF TypeOK, DataOK
<1>2. CASE presence' = presence
  BY <1>2
<1>3. CASE Activate
  <2>1. \/ UNCHANGED occVars
        \/ /\ ~ (occActive[self] /\ DeviceActive(self))
           /\ presence' = [presence EXCEPT ![self] = @ /\ ~ occActive[self]]
    BY <1>3, Zenon DEF Activate
  <2>2. CASE UNCHANGED occVars
    BY <2>2 DEF occVars
  <2>3. CASE /\ ~ (occActive[self] /\ DeviceActive(self))
             /\ presence' = [presence EXCEPT ![self] = @ /\ ~ occActive[self]]
    BY <1>1, <2>3 DEF WatchesInv, DeviceActive
  <2>4. QED
    BY <2>1, <2>2, <2>3
<1>4. CASE Unbind
  BY <1>1, <1>4 DEF Unbind
<1>5. CASE ValidateMaster
  <2>1. PICK master : presence' = [presence EXCEPT ![self] = @ \/ master]
    BY <1>5 DEF ValidateMaster
  <2>2. QED
    BY <1>1, <2>1
<1>6. QED
  BY <1>2, <1>3, <1>4, <1>5, MasterActions

\* The next turn of validateOccMaster, while it has not found a master
LEMMA SeekStep ==
    ASSUME TypeOK, Step, statusObjects' = statusObjects,
           ActiveOccs = statusObjects, Seeks(Head(todo))
    PROVE  Watched' \/ Seeking' \/ Stops'
<1>1. /\ todo \in Seq(Frame) /\ todo # <<>> /\ arg = NoInstance
      /\ Head(todo).fn \in LoopCalls => self \in 0 .. N
      /\ Head(todo).fn \in OccCalls => self \in OCC
      /\ presence \in [OCC -> BOOLEAN] /\ statusObjects \subseteq OCC
      /\ NoInstance \in Instance /\ <<>> \in Seq(Frame)
  BY StepRuns, HeadType DEF TypeOK, DataOK, Seeks, arg, Instance
<1>2. CASE Head(todo).fn = "validateOcc"
  <2>1. ValidateOcc /\ self \in 0 .. N
    BY <1>1, <1>2, MasterActions DEF LoopCalls
  <2>2. ~ (self \in statusObjects /\ ~ occActive[self])
    BY DEF ActiveOccs
  <2>3. NoMaster(arg)
    BY <1>1 DEF NoMaster
  <2>4. \/ self \in OCC /\ Calls(<<Call2("validateMaster", self, arg)>>)
        \/ \E front \in statusObjects : Calls(<<Call("deviceError", front)>>)
    BY <2>1, <2>2, <2>3, Zenon DEF ValidateOcc
  <2>5. CASE self \in OCC /\ Calls(<<Call2("validateMaster", self, arg)>>)
    <3>1. PICK f : f = Call2("validateMaster", self, NoInstance)
      OBVIOUS
    <3>2. f \in Frame /\ Seeks(f)
      BY <1>1, <2>5, <3>1, Call2Type DEF OccCalls, Seeks, Call2
    <3>3. PICK r : r = <<f>>
      OBVIOUS
    <3>4. r \in Seq(Frame) /\ r # <<>> /\ r[1] = f /\ Calls(r)
      BY <1>1, <2>5, <3>1, <3>2, <3>3
    <3>5. QED
      BY <1>1, <3>2, <3>4, SeekingNew
  <2>6. CASE \E front \in statusObjects : Calls(<<Call("deviceError", front)>>)
    <3>1. PICK front \in statusObjects : Calls(<<Call("deviceError", front)>>)
      BY <2>6
    <3>2. PICK f : f = Call("deviceError", front)
      OBVIOUS
    <3>3. f.fn = "deviceError" /\ f.occ = front
      BY <3>2, CallIs
    <3>4. todo' # <<>> /\ Head(todo') = f
      BY <1>1, <3>1, <3>2 DEF Calls
    <3>5. QED
      BY <3>1, <3>3, <3>4 DEF Stops, HeadIs, self
  <2>7. QED
    BY <2>4, <2>5, <2>6
<1>3. CASE Head(todo).fn = "validateMaster"
  <2>1. ValidateMaster /\ self \in OCC
    BY <1>1, <1>3, MasterActions DEF OccCalls
  <2>2. CASE self \in statusObjects /\ DeviceMaster(self)
    <3>1. presence'[self] /\ self \in Masters
      BY <1>1, <2>1, <2>2 DEF ValidateMaster, DeviceMaster
    <3>2. QED
      BY <3>1 DEF Watched
  <2>3. CASE ~ (self \in statusObjects /\ DeviceMaster(self))
    <3>1. PICK f : f = Call2("validateOcc", self + 1, NoInstance)
      OBVIOUS
    <3>2. self + 1 \in 0 .. N
      BY <2>1, NAssumption DEF OCC
    <3>3. f \in Frame /\ Seeks(f)
      BY <1>1, <3>1, <3>2, Call2Type DEF LoopCalls, Seeks, Call2
    <3>4. Calls(<<f>>)
      BY <1>1, <2>1, <2>3, <3>1, Zenon DEF ValidateMaster
    <3>5. PICK r : r = <<f>>
      OBVIOUS
    <3>6. r \in Seq(Frame) /\ r # <<>> /\ r[1] = f /\ Calls(r)
      BY <3>3, <3>4, <3>5
    <3>7. QED
      BY <1>1, <3>3, <3>6, SeekingNew
  <2>4. QED
    BY <2>2, <2>3
<1>4. QED
  BY <1>2, <1>3 DEF Seeks

\* What is at the head after a call made others
LEMMA HeadCalls ==
    ASSUME TypeOK, todo # <<>>, NEW r \in Seq(Frame), r # <<>>, Calls(r)
    PROVE  todo' # <<>> /\ Head(todo') = r[1]
<1>1. Tail(todo) \in Seq(Frame)
  BY DEF TypeOK
<1>2. todo' = r \o Tail(todo)
  BY DEF Calls
<1>3. QED
  BY <1>1, <1>2

\* All OCCs are active and one of them is about to be stopped: it still is, or
\* they are no more all counted.
LEMMA StopStep ==
    ASSUME TypeOK, TypeOK', Step, statusObjects' = statusObjects,
           ActiveOccs = statusObjects, activeCount = Cardinality(statusObjects),
           activeCount > 0, statusObjects # {},
           CountBound', FoundActive', Stops, Full'
    PROVE  Stops'
<1>1. /\ todo \in Seq(Frame) /\ todo # <<>>
      /\ Head(todo).fn \in LoopCalls => self \in 0 .. N
      /\ Head(todo).fn \in OccCalls => self \in OCC
      /\ Head(todo).fn \in ManagerCalls => self \in Instance
      /\ arg \in Instance
      /\ activeCount \in Nat /\ activeCount' \in Nat /\ statusObjects \subseteq OCC
      /\ occActive \in [OCC -> BOOLEAN]
  BY StepRuns, HeadType DEF TypeOK, DataOK
<1>2. ASSUME NEW r \in Seq(Frame), r # <<>>, Calls(r)
      PROVE  \A fns : r[1].fn \in fns => HeadIs(fns)' /\ self' = r[1].occ
  BY <1>1, <1>2, HeadCalls DEF HeadIs, self
<1>3. \A o \in statusObjects : occActive[o]
  BY DEF ActiveOccs
<1>4. CASE HeadIs({"deviceError"}) /\ self \in statusObjects
  <2>1. DeviceError
    BY <1>4, MasterActions DEF HeadIs
  <2>2. PICK f, g : f = Call("deactivate", self) /\ g = Call("resetOCC", self)
    OBVIOUS
  <2>3. f \in Frame /\ g \in Frame /\ f.fn = "deactivate" /\ f.occ = self
    BY <1>1, <1>4, <2>2, CallType, CallIs DEF OccCalls
  <2>4. Calls(<<f, g>>)
    BY <2>1, <2>2 DEF DeviceError
  <2>5. /\ <<f, g>> \in Seq(Frame) /\ <<f, g>> # <<>>
        /\ <<f, g>>[1] = f
    BY <2>3
  <2>6. HeadIs({"deactivate"})' /\ self' = self
    BY <1>2, <2>3, <2>4, <2>5
  <2>7. QED
    BY <1>4, <2>6 DEF Stops, HeadIs
<1>5. CASE HeadIs({"deactivate"}) /\ self \in statusObjects
  <2>1. Deactivate
    BY <1>5, MasterActions DEF HeadIs
  <2>2. PICK f, g, h : /\ f = Call("wentInactive", self) /\ g = Call("unbind", self)
                       /\ h = Call("setInactive", self)
    OBVIOUS
  <2>3. /\ f \in Frame /\ g \in Frame /\ h \in Frame
        /\ f.fn = "wentInactive" /\ f.occ = self
    BY <1>1, <1>5, <2>2, CallType, CallIs DEF OccCalls
  <2>4. Calls(<<f, g, h>>)
    BY <1>3, <1>5, <2>1, <2>2 DEF Deactivate
  <2>5. /\ <<f, g, h>> \in Seq(Frame) /\ <<f, g, h>> # <<>>
        /\ <<f, g, h>>[1] = f
    BY <2>3
  <2>6. HeadIs({"wentInactive"})' /\ self' = self
    BY <1>2, <2>3, <2>4, <2>5
  <2>7. QED
    BY <1>5, <2>6 DEF Stops, HeadIs
<1>6. CASE HeadIs({"wentInactive"})
  <2>1. WentInactive
    BY <1>6, MasterActions DEF HeadIs
  <2>2. activeCount' = OneLess
    BY <2>1, Zenon DEF WentInactive
  <2>3. activeCount' < activeCount
    BY <1>1, <2>2 DEF OneLess
  <2>4. activeCount' >= Cardinality(statusObjects)
    BY DEF Full
  <2>5. PICK a \in Nat, b \in Nat : a = activeCount /\ b = activeCount'
    BY <1>1
  <2>6. b < a /\ b >= a
    BY <2>3, <2>4, <2>5
  <2>7. QED
    BY <2>6
<1>7. CASE HeadIs({"setInactive"}) /\ self \in statusObjects
  <2>1. SetProperty /\ Head(todo).fn = "setInactive"
    BY <1>7, MasterActions DEF HeadIs
  <2>2. occActive' = [occActive EXCEPT ![self] = FALSE]
    BY <2>1 DEF SetProperty
  <2>3. ~ occActive'[self]
    BY <1>1, <1>7, <2>2
  <2>4. QED
    BY <1>7, <2>3, NotFullNext
<1>8. CASE HeadIs({"initiateOccRequest"}) /\ ~ resetInProgress
  <2>1. InitiateOccRequest
    BY <1>8, MasterActions DEF HeadIs
  <2>2. PICK f : f = Call2("stopOccs", 0, self)
    OBVIOUS
  <2>3. f \in Frame /\ f.fn = "stopOccs" /\ f.occ = 0
    <3>1. self \in Instance /\ 0 \in 0 .. N
      BY <1>1, <1>8, NAssumption DEF HeadIs, ManagerCalls
    <3>2. QED
      BY <2>2, <3>1, Call2Type DEF LoopCalls, Call2
  <2>4. Calls(<<f>>)
    BY <1>8, <2>1, <2>2, Zenon DEF InitiateOccRequest
  <2>5. /\ <<f>> \in Seq(Frame) /\ <<f>> # <<>>
        /\ <<f>>[1] = f
    BY <2>3
  <2>6. HeadIs({"stopOccs"})' /\ self' = 0
    BY <1>2, <2>3, <2>4, <2>5
  <2>7. \A o \in statusObjects : 0 <= o
    BY <1>1 DEF OCC
  <2>8. QED
    BY <2>6, <2>7 DEF Stops, HeadIs
<1>9. CASE HeadIs({"stopOccs"}) /\ \E o \in statusObjects : self <= o
  <2>1. StopOccs /\ self \in 0 .. N
    BY <1>1, <1>9, MasterActions DEF HeadIs, LoopCalls
  <2>2. PICK o \in statusObjects : self <= o
    BY <1>9
  <2>3. self # N /\ o \in 0 .. (N - 1) /\ self \in OCC
    BY <1>1, <2>1, <2>2, NAssumption DEF OCC
  <2>4. PICK f, g : f = Call("deactivate", self) /\ g = Call2("stopOccs", self + 1, arg)
    OBVIOUS
  <2>5. /\ f \in Frame /\ g \in Frame /\ f.fn = "deactivate" /\ f.occ = self
        /\ g.fn = "stopOccs" /\ g.occ = self + 1
    <3>1. self + 1 \in 0 .. N
      BY <2>3, NAssumption DEF OCC
    <3>2. QED
      BY <1>1, <2>3, <2>4, <3>1, CallType, Call2Type, CallIs
         DEF OccCalls, LoopCalls, Call2
  <2>6. CASE self \in statusObjects
    <3>1. Calls(<<f, g>>)
      BY <1>3, <2>1, <2>3, <2>4, <2>6, Zenon DEF StopOccs
    <3>2. /\ <<f, g>> \in Seq(Frame) /\ <<f, g>> # <<>>
        /\ <<f, g>>[1] = f
      BY <2>5
    <3>3. HeadIs({"deactivate"})' /\ self' = self
      BY <1>2, <2>5, <3>1, <3>2
    <3>4. QED
      BY <2>6, <3>3 DEF Stops, HeadIs
  <2>7. CASE self \notin statusObjects
    <3>1. Calls(<<g>>)
      BY <2>1, <2>3, <2>4, <2>7, Zenon DEF StopOccs
    <3>2. /\ <<g>> \in Seq(Frame) /\ <<g>> # <<>>
        /\ <<g>>[1] = g
      BY <2>5
    <3>3. HeadIs({"stopOccs"})' /\ self' = self + 1
      BY <1>2, <2>5, <3>1, <3>2
    <3>4. self + 1 <= o
      BY <2>2, <2>3, <2>7 DEF OCC
    <3>5. QED
      BY <3>3, <3>4 DEF Stops, HeadIs
  <2>8. QED
    BY <2>6, <2>7
<1>10. QED
  BY <1>4, <1>5, <1>6, <1>7, <1>8, <1>9 DEF Stops, HeadIs

\* An OCC that is counted as the last one has the master looked for, or a reset
\* started.
LEMMA LastCounted ==
    ASSUME TypeOK, WentActive, ~ resetInProgress,
           activeCount' = Cardinality(statusObjects)
    PROVE  Seeking' \/ Stops'
<1>1. todo # <<>> /\ self \in OCC /\ resetInstance \in Instance
      /\ NoInstance \in Instance
  BY HeadType DEF WentActive, Running, OccCalls, TypeOK, DataOK, Instance
<1>2. /\ activeCount' = activeCount + 1 /\ Calls(AfterCount(activeCount + 1))
      /\ UNCHANGED resetInProgress
  BY Zenon DEF WentActive, resetVars
<1>3. PICK i, r, v, p, c :
         /\ i = Call("initiateOccRequest", resetInstance)
         /\ r = Call("restartWait", NoInstance) /\ v = Call("validateOcc", 0)
         /\ p = Call("startPoll", self) /\ c = Call("checkWaiting", self)
  OBVIOUS
<1>4. /\ i \in Frame /\ r \in Frame /\ v \in Frame /\ p \in Frame /\ c \in Frame
      /\ i.fn = "initiateOccRequest" /\ Seeks(v)
  BY <1>1, <1>3, CallType, CallIs, NAssumption
     DEF OccCalls, LoopCalls, ManagerCalls, Seeks, Call, Call2
<1>5. AfterCount(activeCount + 1) \in {<<i, r>> \o <<p, c>>, <<v>> \o <<p, c>>}
  BY <1>2, <1>3, Zenon DEF AfterCount
<1>6. CASE AfterCount(activeCount + 1) = <<i, r>> \o <<p, c>>
  <2>1. PICK q : q = <<i, r>> \o <<p, c>>
    OBVIOUS
  <2>2. q \in Seq(Frame) /\ q # <<>> /\ q[1] = i
    BY <1>4, <2>1
  <2>3. todo' # <<>> /\ Head(todo') = i
    BY <1>1, <1>2, <1>6, <2>1, <2>2, HeadCalls
  <2>4. QED
    BY <1>2, <1>4, <2>3 DEF Stops, HeadIs
<1>7. CASE AfterCount(activeCount + 1) = <<v>> \o <<p, c>>
  <2>1. PICK q : q = <<v>> \o <<p, c>>
    OBVIOUS
  <2>2. q \in Seq(Frame) /\ q # <<>> /\ q[1] = v
    BY <1>4, <2>1
  <2>3. QED
    BY <1>1, <1>2, <1>4, <1>7, <2>1, <2>2, SeekingNew
<1>8. QED
  BY <1>5, <1>6, <1>7

\* What is at the head after a call returned
LEMMA HeadReturns ==
    ASSUME todo \in Seq(Frame), Return, 1 < Len(todo)
    PROVE  todo' # <<>> /\ Head(todo') = todo[2]
<1>1. /\ todo' = Tail(todo) /\ todo' \in Seq(Frame) /\ Len(todo) \in Nat
      /\ Len(todo') = Len(todo) - 1
  BY DEF Return
<1>2. Len(todo') > 0 /\ todo'[1] = todo[2]
  BY <1>1
<1>3. todo' # <<>>
  <2>1. SUFFICES ASSUME todo' = <<>> PROVE FALSE
    OBVIOUS
  <2>2. Len(todo') = 0
    BY <2>1
  <2>3. QED
    BY <1>1, <1>2, <2>2
<1>4. Head(todo') = todo'[1]
  BY <1>1, <1>3
<1>5. QED
  BY <1>2, <1>3, <1>4

\* Every step keeps MasterComes: a watch that ends is that of an OCC that is about
\* to be inactive, and no OCC becomes the last one counted without a validation.
LEMMA MasterStep ==
    ASSUME TypeOK, TypeOK', Step, CountBound, CountBound', FoundActive,
           FoundActive', WatchesInv, UnbindFollowed, MasterComes
    PROVE  MasterComes'
<1>1. PICK s : Makes(s)
  BY StepMakes
<1>2. /\ s \in Seq(Frame) /\ Calls(s) /\ statusObjects' = statusObjects
      /\ todo # <<>> /\ todo \in Seq(Frame)
      /\ activeCount \in Nat /\ activeCount' \in Nat
  BY <1>1, StepRuns DEF Makes, TypeOK, DataOK
<1>3. SUFFICES ASSUME Full' PROVE Watched' \/ Seeking' \/ Stops'
  BY DEF MasterComes
<1>4. CASE WentActive /\ ~ resetInProgress
  <2>1. activeCount' = Cardinality(statusObjects)
    BY <1>2, <1>3, AllActiveNext
  <2>2. QED
    BY <1>4, <2>1, LastCounted
<1>5. CASE ~ (WentActive /\ ~ resetInProgress)
  <2>1. activeCount' <= activeCount
    <3>1. CASE WentActive /\ resetInProgress
      BY <1>2, <3>1 DEF WentActive
    <3>2. CASE WentInactive
      <4>1. activeCount' = OneLess
        BY <3>2, Zenon DEF WentInactive
      <4>2. QED
        BY <1>2, <4>1 DEF OneLess
    <3>3. QED
      BY <1>2, <1>5, <3>1, <3>2, MasterActions
  <2>2. Full
    <3>1. /\ statusObjects # {} /\ activeCount' >= Cardinality(statusObjects)
      BY <1>2, <1>3 DEF Full
    <3>2. Cardinality(statusObjects) \in Nat
      <4>1. statusObjects \subseteq OCC
        BY DEF TypeOK, DataOK
      <4>2. QED
        BY <4>1, OccSets
    <3>3. QED
      BY <1>2, <2>1, <3>1, <3>2 DEF Full
  <2>3. /\ ActiveOccs = statusObjects /\ activeCount = Cardinality(statusObjects)
        /\ activeCount > 0 /\ statusObjects # {}
    BY <2>2, AllActive DEF Full
  <2>4. CASE Watched
    <3>1. PICK m \in Masters : presence[m]
      BY <2>4 DEF Watched
    <3>2. CASE presence'[m]
      BY <3>2 DEF Watched
    <3>3. CASE ~ presence'[m]
      <4>1. m \in OCC /\ Unbind /\ self = m
        BY <3>1, <3>3, MastersAssumption, PresenceKept
      <4>2. m \in statusObjects
        BY <2>3, <3>1, <4>1 DEF WatchesInv, DeviceActive, ActiveOccs
      <4>3. Head(todo).fn = "unbind" /\ Head(todo).occ = m /\ Return
        BY <4>1 DEF Unbind, Running, self
      <4>4. 1 \in 1 .. Len(todo) /\ Head(todo) = todo[1] /\ Len(todo) \in Nat
        BY <1>2
      <4>5. /\ 1 < Len(todo) /\ todo[2].fn = "setInactive" /\ todo[2].occ = m
        <5>1. todo[1].fn = "unbind" /\ todo[1].occ = m
          BY <4>3, <4>4
        <5>2. /\ 1 < Len(todo) /\ todo[1 + 1].fn = "setInactive"
              /\ todo[1 + 1].occ = todo[1].occ
          BY <4>4, <5>1, Zenon DEF UnbindFollowed
        <5>3. 1 + 1 = 2
          OBVIOUS
        <5>4. QED
          BY <5>1, <5>2, <5>3
      <4>6. todo' # <<>> /\ Head(todo') = todo[2]
        BY <1>2, <4>3, <4>5, HeadReturns
      <4>7. QED
        <5>1. Head(todo').fn = "setInactive" /\ Head(todo').occ \in statusObjects'
          BY <1>2, <4>2, <4>5, <4>6
        <5>2. Stops'
          BY <4>6, <5>1 DEF Stops, HeadIs, self
        <5>3. QED
          BY <5>2
    <3>4. QED
      BY <3>2, <3>3
  <2>5. CASE Seeks(Head(todo))
    BY <1>2, <2>3, <2>5, SeekStep
  <2>6. CASE Seeking /\ ~ Seeks(Head(todo))
    BY <1>2, <2>6, SeekingKept
  <2>7. CASE Stops
    BY <1>2, <1>3, <2>3, <2>7, StopStep
  <2>8. QED
    BY <2>2, <2>4, <2>5, <2>6, <2>7 DEF MasterComes
<1>6. QED
  BY <1>4, <1>5

\* An event finds the master watched if all OCCs are counted.
LEMMA MasterEvent ==
    ASSUME TypeOK, TypeOK', Event, CountBound, FoundActive, MasterComes
    PROVE  MasterComes'
<1>1. SUFFICES ASSUME Full' PROVE Watched'
  BY DEF MasterComes
<1>2. todo = <<>> /\ activeCount' = activeCount
  BY EventIdle, EventBegins DEF Idle
<1>3. presence' = presence
  BY DEF Event, DiscoverTimerExpired, PollTimerExpired, WaitTimerExpired,
         SensorRunning, SensorStopped, HresetResult, OccError, PresenceMismatch,
         SbeTimeout, DBusWrite, ResetGivenUp,
         HostStateOff, UpdateOCCActive, occVars
<1>4. statusObjects' = statusObjects \/ statusObjects = {}
  BY DEF Event, DiscoverTimerExpired, PollTimerExpired, WaitTimerExpired,
         SensorRunning, SensorStopped, HresetResult, OccError, PresenceMismatch,
         SbeTimeout, DBusWrite, ResetGivenUp,
         HostStateOff, mgrVars
<1>5. CASE statusObjects = {}
  <2>1. ActiveOccs = {} /\ Cardinality({}) = 0
    BY <1>5, FS_EmptySet DEF FoundActive
  <2>2. activeCount' <= 0
    BY <1>2, <2>1 DEF CountBound
  <2>3. Cardinality(statusObjects') \in Nat /\ Cardinality(statusObjects') # 0
    <3>1. statusObjects' \subseteq OCC /\ statusObjects' # {}
      BY <1>1 DEF TypeOK, DataOK, Full
    <3>2. IsFiniteSet(OCC)
      BY NAssumption, FS_Interval DEF OCC
    <3>3. IsFiniteSet(statusObjects')
      BY <3>1, <3>2, FS_Subset
    <3>4. QED
      BY <3>1, <3>3, FS_CardinalityType, FS_EmptySet
  <2>4. activeCount' >= Cardinality(statusObjects') /\ activeCount' \in Nat
    BY <1>1 DEF Full, TypeOK, DataOK
  <2>5. PICK a \in Nat, b \in Nat : a = activeCount' /\ b = Cardinality(statusObjects')
    BY <2>3, <2>4
  <2>6. QED
    BY <2>2, <2>3, <2>4, <2>5
<1>6. CASE statusObjects' = statusObjects
  <2>1. Full
    BY <1>1, <1>2, <1>6 DEF Full
  <2>2. ~ Seeking /\ ~ Stops
    BY <1>2 DEF Seeking, Stops, HeadIs
  <2>3. QED
    BY <1>3, <2>1, <2>2 DEF MasterComes, Watched
<1>7. QED
  BY <1>4, <1>5, <1>6

\* The inductive invariant
MasterInv == UnbindFollowed /\ MasterComes

LEMMA MasterInvHolds == Spec => []MasterInv
<1>1. Init => MasterInv
  BY DEF Init, MasterInv, UnbindFollowed, MasterComes, Full
<1>2. /\ TypeOK /\ TypeOK' /\ CountInv /\ CountInv' /\ ResetInv /\ ResetInv'
      /\ WatchesInv /\ MasterInv /\ [Next]_vars
      => MasterInv'
  <2> SUFFICES ASSUME TypeOK, TypeOK', CountInv, CountInv', ResetInv, ResetInv',
                      WatchesInv, MasterInv, [Next]_vars
               PROVE  MasterInv'
    OBVIOUS
  <2>1. CountBound /\ CountBound' /\ FoundActive /\ FoundActive'
    BY DEF CountInv, ResetInv
  <2>2. CASE Step
    <3>1. PICK s : Makes(s)
      BY <2>2, StepMakes
    <3>2. UnbindFollowed'
      BY <2>2, <3>1, StepRuns, UnbindStep DEF MasterInv
    <3>3. MasterComes'
      BY <2>1, <2>2, MasterStep DEF MasterInv
    <3>4. QED
      BY <3>2, <3>3 DEF MasterInv
  <2>3. CASE Event
    <3>1. MasterComes'
      BY <2>1, <2>3, MasterEvent DEF MasterInv
    <3>2. UnbindFollowed'
      <4>1. ASSUME NEW j \in 1 .. Len(todo') PROVE todo'[j].fn # "unbind"
        <5>1. todo'[j].fn \notin Marked
          BY <2>3, EventBegins DEF Begun
        <5>2. QED
          BY <5>1 DEF Marked
      <4>2. QED
        BY <4>1 DEF UnbindFollowed
    <3>3. QED
      BY <3>1, <3>2 DEF MasterInv
  <2>4. CASE HostChanges \/ UNCHANGED vars
    <3>1. UNCHANGED <<todo, presence, activeCount, statusObjects, resetInProgress>>
      BY <2>4, OnlyTheHost DEF allButHost, mgrVars, resetVars, pollVars, occVars
    <3>2. (Full' <=> Full) /\ (Watched' <=> Watched) /\ (Stops' <=> Stops)
          /\ (Seeking' <=> Seeking)
      BY <3>1 DEF Full, Watched, Stops, Seeking, HeadIs, self
    <3>3. QED
      BY <3>1, <3>2 DEF MasterInv, MasterComes, UnbindFollowed
  <2>5. QED
    BY <2>2, <2>3, <2>4 DEF Next
<1>3. QED
  BY <1>1, <1>2, TypeCorrect, CountInvHolds, ResetInvHolds, WatchesInvHolds, PTL
     DEF Spec

\* Whenever all OCCs are counted, a master has been found and the OCCs that it
\* sees are watched: an error, a reset or another activation in the middle of
\* validateOccMaster has it validated once more before the OCCs are all counted.
THEOREM MasterIsValidated == Spec => []MasterValidated
<1>1. TypeOK /\ MasterInv => MasterValidated
  <2> SUFFICES ASSUME TypeOK, MasterInv, Idle, statusObjects # {},
                      activeCount = Cardinality(statusObjects)
               PROVE  \E m \in Masters : presence[m]
    BY DEF MasterValidated
  <2>1. Full
    BY DEF Full, TypeOK, DataOK
  <2>2. ~ Seeking /\ ~ Stops
    BY DEF Idle, Seeking, Stops, HeadIs
  <2>3. QED
    BY <2>1, <2>2 DEF MasterInv, MasterComes, Watched
<1>2. QED
  BY <1>1, TypeCorrect, MasterInvHolds, PTL
==============================================================================
