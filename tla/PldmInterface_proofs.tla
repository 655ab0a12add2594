-------------------------- MODULE PldmInterface_proofs --------------------------
(***************************************************************************)
(* Proofs about PldmInterface for any number of OCCs and any faults: type  *)
(* correctness, that an open transport is timed and that its response is   *)
(* handled for the OCC and the type of the request, that the instance ID   *)
(* is given back, and that the interface implements a RequestChannel.      *)
(***************************************************************************)
EXTENDS PldmInterface, TLAPS

(* What the operations on the transport keep                                 *)

Sound(s) == s \in Transport /\ Timed(s) /\ Matched(s)

\* Freeing the instance ID changes nothing else.
LEMMA FreeSound ==
    ASSUME NEW s, Sound(s), NEW t \in freePldmInstanceId(s)
    PROVE  Sound(t) /\ t.request = s.request
BY DEF Sound, Transport, Timed, Matched, freePldmInstanceId, OrFault

\* A closed transport is ready for the next request.
LEMMA CloseSound ==
    ASSUME NEW s \in Transport, NEW t \in pldmClose(s)
    PROVE  Sound(t) /\ t.request = NoRequest
<1>1. PICK u \in freePldmInstanceId(s) :
         t = [u EXCEPT !.pldmRspTimer = FALSE, !.open = FALSE,
                       !.eventSource = "none", !.request = NoRequest]
  BY DEF pldmClose
<1>2. u \in Transport
  BY DEF freePldmInstanceId, OrFault, Transport
<1>3. QED
  BY <1>1, <1>2 DEF Sound, Transport, Timed, Matched

\* Where a step may lead from a request: it stays, is closed, is sent when none
\* was outstanding, or is followed by a reset.
MayFollow(request, next) ==
    \/ next = request
    \/ next = NoRequest
    \/ request = NoRequest /\ next \in Requests
    \/ request # NoRequest /\ next \in [type : {Reset}, occ : OCC]

\* A request is sent only on a transport that carries none.
LEMMA SendSound ==
    ASSUME NEW s, Sound(s), s.msgType \in MsgTypes, NEW o \in OCC,
           NEW t \in sendPldm(s, o)
    PROVE  /\ Sound(t)
           /\ \/ t.request = s.request
              \/ /\ s.request = NoRequest
                 /\ t.request \in {NoRequest, [type |-> s.msgType, occ |-> o]}
<1>1. CASE t \in freePldmInstanceId(s)
  BY <1>1, FreeSound
<1>2. CASE ~ s.open /\ t \in {Sent(s, o), [Sent(s, o) EXCEPT !.eventSource = "none"]}
  <2>1. Sent(s, o) \in Transport
    BY DEF Sound, Transport, Sent, Opened, ResponseCallback, Requests
  <2>2. /\ Sent(s, o).request = [type |-> s.msgType, occ |-> o]
        /\ Sent(s, o).open /\ Sent(s, o).pldmRspTimer
        /\ ~ Sent(s, o).pldmResponseReceived
        /\ Sent(s, o).pldmResponseOcc = o
        /\ Sent(s, o).eventSource = ResponseCallback(s.msgType)
    BY DEF Sound, Transport, Sent, Opened
  <2>3. s.request = NoRequest
    BY <1>2 DEF Sound, Timed
  <2>4. [type |-> s.msgType, occ |-> o] # NoRequest
    BY DEF NoRequest
  <2>5. QED
    BY <1>2, <2>1, <2>2, <2>3, <2>4 DEF Sound, Timed, Matched, Transport
<1>3. CASE ~ s.open /\ t \in pldmClose(Opened(s, o))
  <2>1. Opened(s, o) \in Transport
    BY DEF Sound, Transport, Opened, ResponseCallback
  <2>2. s.request = NoRequest
    BY <1>3 DEF Sound, Timed
  <2>3. QED
    BY <1>3, <2>1, <2>2, CloseSound
<1>4. QED
  BY <1>1, <1>2, <1>3 DEF sendPldm, AlreadyOpen, OrFault

\* Nor do the statements before that disturb the request that is outstanding.
LEMMA EncodeSound ==
    ASSUME NEW s, Sound(s), NEW type \in MsgTypes, NEW o \in OCC,
           NEW t \in EncodeAndSend(s, type, o) \cup NotEncoded(s, type)
    PROVE  /\ Sound(t)
           /\ \/ t.request = s.request
              \/ /\ s.request = NoRequest
                 /\ t.request \in {NoRequest, [type |-> type, occ |-> o]}
<1>1. CASE t \in EncodeAndSend(s, type, o)
  <2> DEFINE u == [s EXCEPT !.pldmInstanceID = TRUE,
                            !.msgType = type,
                            !.resetInstance = IF type = Sensor THEN @ ELSE o]
  <2>1. Sound(u) /\ u.msgType = type /\ u.request = s.request
    BY DEF Sound, Transport, Timed, Matched
  <2>2. t \in sendPldm(u, o)
    BY <1>1 DEF EncodeAndSend
  <2> HIDE DEF u
  <2>3. QED
    BY <2>1, <2>2, SendSound
<1>2. CASE t \in NotEncoded(s, type)
  BY <1>2 DEF Sound, Transport, Timed, Matched, NotEncoded, getPldmInstanceId,
              OrFault
<1>3. QED
  BY <1>1, <1>2

\* PDRs are those of OCCs that exist.
LEMMA FetchedType ==
    ASSUME NEW cache \in SUBSET OCC, NEW c \in Fetched(cache)
    PROVE  c \subseteq OCC
BY NAssumption DEF Fetched, Pdrs, OrFault, OCC

\* clearData keeps the data well typed.
CacheOK ==
    /\ occSensors \subseteq OCC /\ sbeSensors \subseteq OCC
    /\ occEffecters \subseteq OCC /\ sbeEffecters \subseteq OCC
    /\ outstandingHResets \subseteq OCC
    /\ told \in Told

LEMMA ClearDataType == CacheOK /\ ClearData => CacheOK'
BY DEF CacheOK, ClearData, TellNothing, NotTold, Told

\* A reset is sent when no request is outstanding, or not at all.
LEMMA ResetSound ==
    ASSUME NEW s, Sound(s), NEW o \in Instance, CacheOK, ResetOCC(s, o)
    PROVE  /\ CacheOK' /\ Sound(io')
           /\ \/ io'.request = s.request
              \/ /\ s.request = NoRequest
                 /\ io'.request \in {NoRequest, [type |-> Reset, occ |-> o]}
                 /\ io'.request # NoRequest => o \in OCC
<1>1. CASE hostRunning
  <2>1. PICK effecters \in Fetched(occEffecters) :
           /\ occEffecters' = effecters
           /\ \/ o \notin effecters /\ io' = s
              \/ /\ o \in effecters
                 /\ io' \in EncodeAndSend(s, Reset, o) \cup NotEncoded(s, Reset)
           /\ TellNothing
           /\ UNCHANGED <<occSensors, sbeSensors, sbeEffecters, outstandingHResets>>
    BY <1>1 DEF ResetOCC
  <2>2. effecters \subseteq OCC
    BY FetchedType DEF CacheOK
  <2>3. CacheOK'
    BY <2>1, <2>2 DEF CacheOK, TellNothing, NotTold, Told
  <2>4. CASE o \in effecters
    BY <2>1, <2>2, <2>3, <2>4, EncodeSound DEF MsgTypes
  <2>5. QED
    BY <2>1, <2>3, <2>4
<1>2. CASE ~ hostRunning
  BY <1>2, ClearDataType DEF ResetOCC
<1>3. QED
  BY <1>1, <1>2

-----------------------------------------------------------------------------
(* The invariant and the refinement                                          *)

Inv == TypeOK /\ OpenIsTimed /\ ResponseMatchesRequest

\* The invariant, seen as a property of the transport and of the caches.
LEMMA InvParts == Inv <=> Sound(io) /\ CacheOK /\ hostRunning \in BOOLEAN
BY DEF Inv, TypeOK, OpenIsTimed, ResponseMatchesRequest, Sound, CacheOK

LEMMA InitSound == Init => Sound(io) /\ CacheOK /\ hostRunning \in BOOLEAN
<1>1. SUFFICES ASSUME Init PROVE Sound(io) /\ CacheOK /\ hostRunning \in BOOLEAN
  OBVIOUS
<1>2. 0 \in OCC
  BY NAssumption DEF OCC
<1>3. QED
  BY <1>1, <1>2 DEF Init, Sound, Transport, Timed, Matched, CacheOK, NotTold, Told

\* Every handler keeps the transport sound and moves its request as a
\* RequestChannel does.
LEMMA NextSound ==
    ASSUME Sound(io), CacheOK, hostRunning \in BOOLEAN, Next
    PROVE  /\ Sound(io') /\ CacheOK' /\ hostRunning' \in BOOLEAN
           /\ MayFollow(io.request, io'.request)
<1> USE DEF MayFollow
<1>0. /\ io \in Transport /\ io.resetInstance \in OCC
      /\ io.pldmResponseOcc \in OCC /\ OCC \subseteq Instance
  BY DEF Sound, Transport, Instance
<1>1. CASE ManagerResets
  <2>1. PICK o \in Instance : ResetOCC(io, o)
    BY <1>1 DEF ManagerResets
  <2>2. QED
    BY <1>1, <2>1, ResetSound DEF ManagerResets, Requests, MsgTypes
<1>2. CASE ManagerHresets
  <2>1. CASE ~ hostRunning
    BY <1>2, <2>1, ClearDataType DEF ManagerHresets, SendHRESET
  <2>2. CASE hostRunning
    <3>1. PICK o \in OCC, effecters \in Fetched(sbeEffecters) :
             /\ sbeEffecters' = effecters
             /\ \/ io' = io
                \/ io' \in EncodeAndSend(io, Hreset, o) \cup NotEncoded(io, Hreset)
             /\ outstandingHResets' \subseteq outstandingHResets \cup {o}
             /\ TellNothing
             /\ UNCHANGED <<occSensors, sbeSensors, occEffecters, hostRunning>>
      BY <1>2, <2>2 DEF ManagerHresets, SendHRESET
    <3>2. CacheOK'
      BY <3>1, FetchedType DEF CacheOK, TellNothing, NotTold, Told
    <3>3. QED
      BY <3>1, <3>2, EncodeSound DEF MsgTypes, Requests
  <2>3. QED
    BY <2>1, <2>2
<1>3. CASE ManagerChecks
  <2>1. PICK o \in OCC, sensors \in Fetched(occSensors) :
           \/ /\ occSensors' = sensors
              /\ io' \in EncodeAndSend(io, Sensor, o) \cup NotEncoded(io, Sensor)
           \/ /\ \E more \in Pdrs : occSensors' = sensors \cup more
              /\ io' = io
    BY <1>3 DEF ManagerChecks, CheckActiveSensor
  <2>2. \A more \in Pdrs : more \subseteq OCC
    BY NAssumption DEF Pdrs, OrFault, OCC
  <2>3. CacheOK' /\ hostRunning' = hostRunning
    BY <1>3, <2>1, <2>2, FetchedType
       DEF ManagerChecks, CheckActiveSensor, CacheOK, TellNothing, NotTold, Told
  <2>4. QED
    BY <2>1, <2>3, EncodeSound DEF MsgTypes, Requests
<1>4. CASE PldmRspExpired
  <2>1. ~ io.pldmResponseReceived
    BY <1>4 DEF PldmRspExpired, Sound, Timed
  <2>2. PICK closed \in pldmClose(io) :
           \/ ResetOCC(closed, io.pldmResponseOcc)
           \/ io' = closed /\ NothingElse
    BY <1>4, <2>1 DEF PldmRspExpired
  <2>3. Sound(closed) /\ closed.request = NoRequest
    BY <1>0, CloseSound
  <2>4. io.request # NoRequest /\ hostRunning' = hostRunning
    BY <1>4 DEF PldmRspExpired, Sound, Timed
  <2>5. CASE ResetOCC(closed, io.pldmResponseOcc)
    BY <1>0, <2>3, <2>4, <2>5, ResetSound
  <2>6. CASE io' = closed /\ NothingElse
    BY <2>3, <2>4, <2>6
       DEF NothingElse, cacheVars, TellNothing, NotTold, CacheOK, Told
  <2>7. QED
    BY <2>2, <2>5, <2>6
<1>5. CASE ResponseNotRead
  <2>1. io' = [io EXCEPT !.eventSource = "none"]
    BY <1>5 DEF ResponseNotRead
  <2>2. Sound(io') /\ io'.request = io.request
    BY <2>1 DEF Sound, Transport, Timed, Matched
  <2>3. QED
    BY <1>5, <2>2 DEF ResponseNotRead, NothingElse, cacheVars, TellNothing,
                      NotTold, CacheOK, Told
<1>6. CASE SensorRefused
  BY <1>0, <1>6, CloseSound DEF SensorRefused, NothingElse, cacheVars,
                                TellNothing, NotTold, CacheOK, Told
<1>7. CASE SensorRead \/ ResetAccepted
  <2>1. PICK closed \in pldmClose(io) :
           io' = [closed EXCEPT !.pldmResponseReceived = TRUE]
    BY <1>7 DEF SensorRead, ResetAccepted
  <2>2. Sound(closed) /\ closed.request = NoRequest
    BY <1>0, CloseSound
  <2>3. Sound(io') /\ io'.request = NoRequest
    BY <2>1, <2>2 DEF Sound, Transport, Timed, Matched
  <2>4. QED
    BY <1>0, <1>7, <2>3 DEF SensorRead, ResetAccepted, NothingElse, cacheVars,
                            TellNothing, NotTold, CacheOK, Told
<1>8. CASE ResetRefused
  <2>1. PICK closed \in pldmClose(io) :
           \/ ResetOCC(closed, io.resetInstance)
           \/ io' = closed /\ NothingElse
    BY <1>8 DEF ResetRefused
  <2>2. Sound(closed) /\ closed.request = NoRequest
    BY <1>0, CloseSound
  <2>3. io.request # NoRequest /\ hostRunning' = hostRunning
    BY <1>8 DEF ResetRefused, Sound, Timed
  <2>4. CASE ResetOCC(closed, io.resetInstance)
    BY <1>0, <2>2, <2>3, <2>4, ResetSound
  <2>5. CASE io' = closed /\ NothingElse
    BY <2>2, <2>3, <2>5
       DEF NothingElse, cacheVars, TellNothing, NotTold, CacheOK, Told
  <2>6. QED
    BY <2>1, <2>4, <2>5
<1>9. CASE OccSensorEvent \/ SbeSensorEvent \/ OtherSensorEvent
  <2>1. occSensors' \subseteq OCC /\ sbeSensors' \subseteq OCC
    BY <1>9, FetchedType
       DEF OccSensorEvent, SbeSensorEvent, HresetEnds, OtherSensorEvent,
           FetchSensors, CacheOK
  <2>2. told' \in Told
    BY <1>9, <2>1
       DEF OccSensorEvent, SbeSensorEvent, HresetEnds, OtherSensorEvent, Told,
           TellNothing, NotTold
  <2>3. CacheOK' /\ hostRunning' \in BOOLEAN
    BY <1>9, <2>1, <2>2
       DEF OccSensorEvent, SbeSensorEvent, HresetEnds, OtherSensorEvent, CacheOK
  <2>4. io' = io \/ io' \in pldmClose(io)
    BY <1>9 DEF OccSensorEvent, SbeSensorEvent, HresetEnds, OtherSensorEvent
  <2>5. QED
    BY <1>0, <2>3, <2>4, CloseSound
<1>10. CASE HostStateOff
  BY <1>10, ClearDataType DEF HostStateOff
<1>11. CASE HostBootsOrStops
  BY <1>11 DEF HostBootsOrStops, NothingElse, cacheVars, TellNothing, NotTold,
               CacheOK, Told
<1>12. QED
  BY <1>1, <1>2, <1>3, <1>4, <1>5, <1>6, <1>7, <1>8, <1>9, <1>10, <1>11
  DEF Next

LEMMA InvInductive == Spec => []Inv
<1>1. Init => Inv
  BY InitSound, InvParts
<1>2. Inv /\ [Next]_vars => Inv'
  <2>1. SUFFICES ASSUME Inv, [Next]_vars PROVE Inv'
    OBVIOUS
  <2>2. CASE Next
    <3>1. Sound(io') /\ CacheOK' /\ hostRunning' \in BOOLEAN
      BY <2>1, <2>2, InvParts, NextSound
    <3>2. QED
      BY <3>1 DEF Inv, TypeOK, OpenIsTimed, ResponseMatchesRequest, Sound, CacheOK
  <2>3. CASE UNCHANGED vars
    BY <2>1, <2>3 DEF Inv, TypeOK, OpenIsTimed, ResponseMatchesRequest, vars,
                      cacheVars
  <2>4. QED
    BY <2>1, <2>2, <2>3
<1>3. QED
  BY <1>1, <1>2, PTL DEF Spec

\* Every reachable state is well typed, whatever fails.
THEOREM TypeCorrect == Spec => []TypeOK
<1>1. Inv => TypeOK
  BY DEF Inv
<1>2. QED
  BY <1>1, InvInductive, PTL

\* No failure between opening the transport and sending the request leaves it
\* open with no timer that closes it.
THEOREM OpenTimed == Spec => []OpenIsTimed
<1>1. Inv => OpenIsTimed
  BY DEF Inv
<1>2. QED
  BY <1>1, InvInductive, PTL

\* The answer of the host is attributed to the OCC that was asked about and goes
\* to the callback that understands it.
THEOREM ResponseMatched == Spec => []ResponseMatchesRequest
<1>1. Inv => ResponseMatchesRequest
  BY DEF Inv
<1>2. QED
  BY <1>1, InvInductive, PTL

\* The interface implements a RequestChannel: one request at a time.
THEOREM Refinement == Spec => ImplementsChannel
<1>1. Init => Channel!Init
  BY DEF Init, Channel!Init, Channel!NoRequest, NoRequest
<1>2. Inv /\ [Next]_vars => [Channel!Next]_(io.request)
  <2>1. SUFFICES ASSUME Inv, [Next]_vars, io'.request # io.request
                 PROVE  Channel!Next
    OBVIOUS
  <2>2. Next
    BY <2>1 DEF vars
  <2>3. MayFollow(io.request, io'.request)
    BY <2>1, <2>2, InvParts, NextSound
  <2>4. QED
    BY <2>1, <2>3 DEF MayFollow, Channel!Next, Channel!Send, Channel!Close,
       Channel!RetryReset, Channel!NoRequest, Channel!Requests,
       Channel!MsgTypes, NoRequest, Requests, MsgTypes
<1>3. QED
  BY <1>1, <1>2, InvInductive, PTL DEF Spec, ImplementsChannel, Channel!Spec

-----------------------------------------------------------------------------
(* The instance ID                                                           *)

\* Neither an encoding nor the freeing of the ID fails.
IdsAreFreed == Faults \cap {"encode", "freeId"} = {}

IdKeptOpen(s) == s.pldmInstanceID => s.open

LEMMA CloseFrees ==
    ASSUME IdsAreFreed, NEW s \in Transport,
           NEW t \in freePldmInstanceId(s) \cup pldmClose(s)
    PROVE  ~ t.pldmInstanceID
<1>1. \A u \in freePldmInstanceId(s) : u \in Transport /\ ~ u.pldmInstanceID
  BY DEF IdsAreFreed, freePldmInstanceId, OrFault, Transport
<1>2. CASE t \in pldmClose(s)
  <2>1. PICK u \in freePldmInstanceId(s) :
           t = [u EXCEPT !.pldmRspTimer = FALSE, !.open = FALSE,
                         !.eventSource = "none", !.request = NoRequest]
    BY <1>2 DEF pldmClose
  <2>2. QED
    BY <1>1, <2>1 DEF Transport
<1>3. QED
  BY <1>1, <1>2

\* Whatever fails, a request that does not leave the transport open has given
\* its ID back; one that finds it open gives back the ID of the other request.
LEMMA SendFrees ==
    ASSUME IdsAreFreed, NEW s \in Transport, s.msgType \in MsgTypes,
           NEW o \in OCC, NEW t \in sendPldm(s, o)
    PROVE  IdKeptOpen(t)
<1>1. CASE t \in freePldmInstanceId(s)
  BY <1>1, CloseFrees DEF IdKeptOpen
<1>2. CASE t \in {Sent(s, o), [Sent(s, o) EXCEPT !.eventSource = "none"]}
  BY <1>2 DEF Sent, Opened, Transport, IdKeptOpen
<1>3. CASE t \in pldmClose(Opened(s, o))
  <2>1. Opened(s, o) \in Transport
    BY DEF Transport, Opened, ResponseCallback
  <2>2. QED
    BY <1>3, <2>1, CloseFrees DEF IdKeptOpen
<1>4. QED
  BY <1>1, <1>2, <1>3 DEF sendPldm, OrFault

LEMMA EncodeFrees ==
    ASSUME IdsAreFreed, NEW s \in Transport, NEW type \in MsgTypes, NEW o \in OCC,
           NEW t \in EncodeAndSend(s, type, o) \cup NotEncoded(s, type)
    PROVE  IdKeptOpen(t)
<1>1. CASE t \in EncodeAndSend(s, type, o)
  <2> DEFINE u == [s EXCEPT !.pldmInstanceID = TRUE,
                            !.msgType = type,
                            !.resetInstance = IF type = Sensor THEN @ ELSE o]
  <2>1. u \in Transport /\ u.msgType = type
    BY DEF Transport
  <2>2. t \in sendPldm(u, o)
    BY <1>1 DEF EncodeAndSend
  <2> HIDE DEF u
  <2>3. QED
    BY <2>1, <2>2, SendFrees
<1>2. CASE t \in NotEncoded(s, type)
  BY <1>2 DEF IdsAreFreed, NotEncoded, OrFault, IdKeptOpen
<1>3. QED
  BY <1>1, <1>2

LEMMA ResetFrees ==
    ASSUME IdsAreFreed, CacheOK, NEW s \in Transport, IdKeptOpen(s), NEW o,
           ResetOCC(s, o)
    PROVE  IdKeptOpen(io')
<1>1. CASE io' = s
  BY <1>1
<1>2. ASSUME NEW effecters \in Fetched(occEffecters), o \in effecters,
             io' \in EncodeAndSend(s, Reset, o) \cup NotEncoded(s, Reset)
      PROVE  IdKeptOpen(io')
  <2>1. o \in OCC
    BY <1>2, FetchedType DEF CacheOK
  <2>2. QED
    BY <1>2, <2>1, EncodeFrees DEF MsgTypes
<1>3. QED
  BY <1>1, <1>2 DEF ResetOCC

\* Every handler gives the ID back with the transport.
LEMMA NextFrees ==
    ASSUME IdsAreFreed, Inv, Next, IdKeptOpen(io)
    PROVE  IdKeptOpen(io')
<1>0. io \in Transport /\ CacheOK
  BY InvParts DEF Sound
<1>1. \A closed \in pldmClose(io) : closed \in Transport /\ IdKeptOpen(closed)
  BY <1>0, CloseFrees, CloseSound DEF Sound, IdKeptOpen
<1>2. CASE ManagerResets
  BY <1>0, <1>2, ResetFrees DEF ManagerResets
<1>3. CASE ManagerHresets \/ ManagerChecks
  <2>1. \/ io' = io
        \/ \E o \in OCC, type \in MsgTypes :
              io' \in EncodeAndSend(io, type, o) \cup NotEncoded(io, type)
    BY <1>3 DEF ManagerHresets, SendHRESET, ManagerChecks, CheckActiveSensor,
                MsgTypes
  <2>2. QED
    BY <1>0, <2>1, EncodeFrees
<1>4. CASE PldmRspExpired
  <2>1. io.open
    BY <1>4, InvParts DEF PldmRspExpired, Sound, Timed
  <2>2. CASE io.pldmResponseReceived
    BY <2>1, <2>2, InvParts DEF Sound, Timed
  <2>3. CASE ~ io.pldmResponseReceived
    BY <1>0, <1>1, <1>4, <2>3, ResetFrees DEF PldmRspExpired
  <2>4. QED
    BY <2>2, <2>3, <1>0 DEF Transport
<1>5. CASE ResetRefused
  BY <1>0, <1>1, <1>5, ResetFrees DEF ResetRefused
<1>6. CASE SensorRead \/ ResetAccepted
  <2>1. PICK closed \in pldmClose(io) :
           io' = [closed EXCEPT !.pldmResponseReceived = TRUE]
    BY <1>6 DEF SensorRead, ResetAccepted
  <2>2. QED
    BY <1>1, <2>1 DEF Transport, IdKeptOpen
<1>7. CASE ResponseNotRead
  BY <1>0, <1>7 DEF ResponseNotRead, Transport, IdKeptOpen
<1>8. CASE \/ SensorRefused \/ OccSensorEvent \/ SbeSensorEvent
           \/ OtherSensorEvent \/ HostStateOff \/ HostBootsOrStops
  <2>1. io' = io \/ io' \in pldmClose(io)
    BY <1>8 DEF SensorRefused, OccSensorEvent, SbeSensorEvent, OtherSensorEvent,
                HostStateOff, HostBootsOrStops
  <2>2. QED
    BY <1>1, <2>1
<1>9. QED
  BY <1>2, <1>3, <1>4, <1>5, <1>6, <1>7, <1>8 DEF Next

\* The instance ID comes back with the transport, whatever else fails.
THEOREM IdReturned == Spec => []IdIsReturned
<1>1. IdIsReturned <=> (IdsAreFreed => IdKeptOpen(io))
  BY DEF IdIsReturned, IdsAreFreed, IdKeptOpen
<1>2. Init => IdIsReturned
  BY DEF Init, IdIsReturned
<1>3. Inv /\ IdIsReturned /\ [Next]_vars => IdIsReturned'
  <2>1. CASE UNCHANGED vars
    BY <2>1 DEF vars, IdIsReturned
  <2>2. CASE Next
    BY <2>2, NextFrees DEF IdIsReturned, IdsAreFreed, IdKeptOpen
  <2>3. QED
    BY <2>1, <2>2
<1>4. QED
  BY <1>2, <1>3, InvInductive, PTL DEF Spec
===============================================================================
