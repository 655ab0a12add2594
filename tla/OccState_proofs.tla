---------------------------- MODULE OccState_proofs ----------------------------
(***************************************************************************)
(* Theorems about one Status object: what holds of an OCC through reads,   *)
(* retries, activations and deactivations, and the polls in the middle of  *)
(* them, for every directory of files and every set of faults.             *)
(*                                                                         *)
(* The operations of OccState map a state to a set of states, so that the  *)
(* lemmas say of each operation which states it can lead to.  Two kinds of *)
(* facts are told apart: Sound holds in the middle of every operation, and *)
(* so for every nested poll; the others hold again when a handler ends.    *)
(***************************************************************************)
EXTENDS OccState, Sensors_proofs

(***************************************************************************)
(* Sensors                                                                 *)
(***************************************************************************)

\* A sensor that shows the worst of the readings it comes from
ShownRight == {x \in Sensor : x.seen # {} => /\ IsWorst(x.temp, x.seen)
                                             /\ x.functional <=> x.temp # NaN}

LEMMA NaNIsRight ==
    ASSUME NEW x \in ShownRight
    PROVE  SetSensorValueToNaN(x) \in ShownRight /\ NoValue(SetSensorValueToNaN(x))
<1>1. CASE x.temp = Unknown
  BY <1>1 DEF SetSensorValueToNaN, NoValue
<1>2. CASE x.temp # Unknown
  <2>1. SetSensorValueToNaN(x) = [temp |-> NaN, functional |-> TRUE, seen |-> {}]
    BY <1>2 DEF SetSensorValueToNaN
  <2>2. QED
    BY <2>1 DEF ShownRight, Sensor, Readings, NoValue
<1>3. QED
  BY <1>1, <1>2

\* Whatever the directory, a new value is the worst of its readings.
LEMMA ReadIsRight ==
    ASSUME NEW x \in ShownRight
    PROVE  ReadTempSensors(x) \subseteq ShownRight
<1> SUFFICES ASSUME NEW d \in Directories
             PROVE  [temp |-> Fused(d), functional |-> Fused(d) # NaN,
                     seen |-> ReadingsOf(d)] \in ShownRight
  BY DEF ReadTempSensors, FruValues
<1>1. d \in Seq(Readings) /\ d # <<>>
  BY DirectoriesAssumption
<1>2. Fused(d) \in Readings /\ IsWorst(Fused(d), ReadingsOf(d))
  BY <1>1, FusedIsWorst
<1>3. ReadingsOf(d) \in SUBSET Readings
  BY <1>1 DEF ReadingsOf
<1>4. QED
  BY <1>2, <1>3 DEF ShownRight, Sensor

(***************************************************************************)
(* What holds in the middle of every operation                             *)
(***************************************************************************)

\* Only a master is taken for the active master, a processor is reported
\* throttled only while files are watched, and the sensors are right.
Sound == {s \in Occ : /\ s.masterActive => IsMaster
                      /\ s.throttle \ {"SAFE"} # {} => s.watch # "off"
                      /\ s.sensors \in ShownRight}

\* The manager that is told leaves a sound state sound.
Keeps(told) == \A s \in Sound : told[s] \subseteq Sound

\* What the prover needs of the numbers
LEMMA OneMoreType ==
    ASSUME NEW n \in 0 .. MaxFailed
    PROVE  OneMore(n) \in 0 .. MaxFailed
BY DEF OneMore, MaxFailed, OccReadRetries

LEMMA SensorsOffSound ==
    ASSUME NEW s \in Sound
    PROVE  \E x \in ShownRight, valid \in BOOLEAN :
              SensorsOff(s) = [s EXCEPT !.sensors = x, !.sensorsValid = valid]
<1>1. s \in Occ /\ s.sensors \in ShownRight
  BY DEF Sound
<1>2. SetSensorValueToNaN(s.sensors) \in ShownRight
  BY <1>1, NaNIsRight
<1>3. CASE s.sensorsValid
  BY <1>2, <1>3 DEF SensorsOff
<1>4. CASE ~s.sensorsValid
  <2>1. s = [s EXCEPT !.sensors = s.sensors, !.sensorsValid = s.sensorsValid]
    BY <1>1 DEF Occ
  <2>2. s.sensorsValid \in BOOLEAN
    BY <1>1 DEF Occ
  <2>3. QED
    BY <1>1, <1>4, <2>1, <2>2 DEF SensorsOff
<1>5. QED
  BY <1>3, <1>4

\* What is done before the manager is told
LEMMA QuiesceSound ==
    ASSUME NEW s \in Sound, s.occActive
    PROVE  LET t == [Quiesce(s) EXCEPT !.sensors = SetSensorValueToNaN(@)]
           IN /\ t \in Sound /\ ~t.masterActive /\ NoValue(t.sensors)
              /\ t.occActive /\ t.lastState = s.lastState
              /\ t.retries = s.retries /\ t.failedOpens = s.failedOpens
              /\ t.stateValid = s.stateValid
<1>1. PICK x \in ShownRight, valid \in BOOLEAN :
         SensorsOff(s) = [s EXCEPT !.sensors = x, !.sensorsValid = valid]
  BY SensorsOffSound
<1> DEFINE y == SetSensorValueToNaN(x)
<1>2. y \in ShownRight /\ NoValue(y)
  BY <1>1, NaNIsRight
<1>3. s \in Occ /\ (s.masterActive => IsMaster)
      /\ (s.throttle \ {"SAFE"} # {} => s.watch # "off")
  BY DEF Sound
<1> DEFINE t == [s EXCEPT !.sensors = y, !.sensorsValid = valid,
                          !.masterActive = FALSE, !.safeTimer = FALSE]
<1>4. [Quiesce(s) EXCEPT !.sensors = SetSensorValueToNaN(@)] = t
  <2>1. (s.masterActive /\ ~Master(s)) = FALSE
    BY <1>3 DEF Master, Occ
  <2>2. Quiesce(s) = [s EXCEPT !.sensors = x, !.sensorsValid = valid,
                               !.masterActive = FALSE, !.safeTimer = FALSE]
    BY <1>1, <1>3, <2>1 DEF Quiesce, Occ
  <2> HIDE DEF y
  <2>3. QED
    BY <1>3, <2>2 DEF Occ, y
<1> HIDE DEF y
<1>5. t \in Occ
  BY <1>2, <1>3 DEF Occ, ShownRight
<1>6. t \in Sound
  BY <1>2, <1>3, <1>5 DEF Sound, Occ
<1>7. QED
  BY <1>2, <1>3, <1>4, <1>6 DEF Occ

\* OccActive ends FALSE, with nothing bound, watched or throttled.
LEMMA GoneSound ==
    ASSUME NEW s \in Sound
    PROVE  /\ Gone(s) \in Sound /\ ~Gone(s).occActive /\ ~Gone(s).bound
           /\ Gone(s).polledLate = s.polledLate /\ Gone(s).sensors = s.sensors
           /\ Gone(s).masterActive = s.masterActive
           /\ Gone(s).lastState = s.lastState /\ Gone(s).retries = s.retries
           /\ Gone(s).failedOpens = s.failedOpens
           /\ Gone(s).stateValid = s.stateValid
<1>1. Gone(s) = [s EXCEPT !.watch = "off", !.bound = FALSE, !.throttle = {},
                          !.occActive = FALSE]
  BY DEF Gone, Unbind, Sound, Occ
<1>2. s \in Occ /\ Gone(s) \in Occ
  BY <1>1 DEF Sound, Occ
<1>3. Gone(s).throttle = {}
  BY <1>1, <1>2 DEF Occ
<1>4. /\ ~Gone(s).occActive /\ ~Gone(s).bound
      /\ Gone(s).polledLate = s.polledLate /\ Gone(s).sensors = s.sensors
      /\ Gone(s).masterActive = s.masterActive
      /\ Gone(s).lastState = s.lastState /\ Gone(s).retries = s.retries
      /\ Gone(s).failedOpens = s.failedOpens
      /\ Gone(s).stateValid = s.stateValid
  BY <1>1, <1>2 DEF Occ
<1>5. Gone(s) \in Sound
  BY <1>2, <1>3, <1>4 DEF Sound
<1>6. QED
  BY <1>4, <1>5

(***************************************************************************)
(* Deactivation and errors                                                 *)
(***************************************************************************)

\* What is told in the middle changes nothing, or is a poll that is remembered.
Careful(told) == \A s \in Sound : \A t \in told[s] : t = s \/ t.polledLate

\* ... or reads no state
Steady(told) == \A s \in Sound : \A t \in told[s] : t.lastState = s.lastState

\* An inactive OCC that publishes nothing, unless it was polled too late
Off(t) == /\ ~t.occActive /\ ~t.bound
          /\ ~t.polledLate => (NoValue(t.sensors) /\ ~t.masterActive)

LEMMA DeactivateSound ==
    ASSUME NEW s \in Sound, s.occActive, NEW told, Keeps(told),
           NEW t \in Deactivate(s, told)
    PROVE  /\ t \in Sound /\ ~t.occActive /\ ~t.bound
           /\ Careful(told) => Off(t)
           /\ Steady(told) => t.lastState = s.lastState
<1> DEFINE q == [Quiesce(s) EXCEPT !.sensors = SetSensorValueToNaN(@)]
<1>1. /\ q \in Sound /\ ~q.masterActive /\ NoValue(q.sensors)
      /\ q.lastState = s.lastState
  BY QuiesceSound
<1>2. PICK u \in told[q] : t = Gone(u)
  BY DEF Deactivate
<1> HIDE DEF q
<1>3. u \in Sound
  BY <1>1, <1>2 DEF Keeps
<1>4. /\ t \in Sound /\ ~t.occActive /\ ~t.bound
      /\ t.polledLate = u.polledLate /\ t.sensors = u.sensors
      /\ t.masterActive = u.masterActive /\ t.lastState = u.lastState
  BY <1>2, <1>3, GoneSound
<1>5. ASSUME Careful(told)
      PROVE  Off(t)
  <2>1. u = q \/ u.polledLate
    BY <1>1, <1>2, <1>5 DEF Careful
  <2>2. QED
    BY <1>1, <1>4, <2>1 DEF Off
<1>6. ASSUME Steady(told)
      PROVE  t.lastState = s.lastState
  BY <1>1, <1>2, <1>4, <1>6 DEF Steady
<1>7. QED
  BY <1>4, <1>5, <1>6

\* An error leaves an active OCC off, and an inactive one what it was, with no
\* failure counted.
LEMMA DeviceErrorSound ==
    ASSUME NEW s \in Sound, NEW told, Keeps(told), NEW t \in DeviceError(s, told)
    PROVE  /\ t \in Sound /\ ~t.occActive /\ t.failedOpens = 0
           /\ s.occActive => ~t.bound /\ (Careful(told) => Off(t))
           /\ ~s.occActive => /\ t.sensors = s.sensors /\ t.bound = s.bound
                              /\ t.masterActive = s.masterActive
                              /\ t.polledLate = s.polledLate
                              /\ t.lastState = s.lastState
           /\ Steady(told) => t.lastState = s.lastState
<1> DEFINE u == [s EXCEPT !.masterActive = @ /\ ~Master(s)]
<1>1. s \in Occ
  BY DEF Sound
<1>2. u \in Sound /\ u.occActive = s.occActive /\ u.lastState = s.lastState
      /\ u.sensors = s.sensors /\ u.bound = s.bound /\ u.polledLate = s.polledLate
      /\ (~s.occActive => u.masterActive = s.masterActive)
  <2>1. u \in Occ
    BY <1>1 DEF Occ
  <2>2. QED
    BY <1>1, <2>1 DEF Sound, Occ, Master
<1>3. PICK v \in OccInactive(u, told) :
         t = [v EXCEPT !.resetAsked = TRUE, !.failedOpens = 0, !.failedReads = 0]
  BY DEF DeviceError
<1> HIDE DEF u
<1>4. ASSUME v \in Sound
      PROVE  /\ t \in Sound /\ t.failedOpens = 0
             /\ t.occActive = v.occActive /\ t.bound = v.bound
             /\ t.polledLate = v.polledLate /\ t.sensors = v.sensors
             /\ t.masterActive = v.masterActive /\ t.lastState = v.lastState
  <2>1. v \in Occ
    BY <1>4 DEF Sound
  <2>2. 0 \in 0 .. MaxFailed
    BY DEF MaxFailed, OccReadRetries
  <2>3. t \in Occ /\ t.failedOpens = 0
    BY <1>3, <2>1, <2>2 DEF Occ
  <2>4. /\ t.occActive = v.occActive /\ t.bound = v.bound
        /\ t.polledLate = v.polledLate /\ t.sensors = v.sensors
        /\ t.masterActive = v.masterActive /\ t.lastState = v.lastState
        /\ t.throttle = v.throttle /\ t.watch = v.watch
    BY <1>3, <2>1 DEF Occ
  <2>5. QED
    BY <1>4, <2>3, <2>4 DEF Sound
<1>5. CASE s.occActive
  <2>1. v \in Deactivate(u, told)
    BY <1>2, <1>3, <1>5 DEF OccInactive
  <2>2. /\ v \in Sound /\ ~v.occActive /\ ~v.bound
        /\ Careful(told) => Off(v)
        /\ Steady(told) => v.lastState = u.lastState
    BY <1>2, <1>5, <2>1, DeactivateSound
  <2>3. Careful(told) => Off(t)
    BY <1>4, <2>2 DEF Off
  <2>4. QED
    BY <1>2, <1>4, <1>5, <2>2, <2>3
<1>6. CASE ~s.occActive
  <2>1. v = u
    BY <1>2, <1>3, <1>6 DEF OccInactive
  <2>2. QED
    BY <1>2, <1>4, <1>6, <2>1
<1>7. QED
  BY <1>1, <1>5, <1>6 DEF Occ

(***************************************************************************)
(* Reading the state                                                       *)
(***************************************************************************)

\* Each failure to open the file costs a retry, until one is read.
Retried(s) == /\ s.failedOpens <= OccReadRetries - s.retries
              /\ s.stateValid => s.failedOpens = 0

Timed(s) == s.lastState = "SAFE" => s.safeTimer

\* What a read makes of an active OCC
Leads(s, t, told) ==
    /\ t \in Sound
    /\ Retried(s) => Retried(t)
    /\ Timed(s) /\ (t.occActive \/ Steady(told)) => Timed(t)
    /\ ~t.occActive => ~t.bound /\ (Careful(told) => Off(t))

\* No failure counts: no retry can be missing.
LEMMA NoneFailed ==
    ASSUME NEW t \in Sound, t.failedOpens = 0
    PROVE  Retried(t)
<1>1. t.retries \in 0 .. OccReadRetries
  BY DEF Sound, Occ
<1>2. QED
  BY <1>1 DEF Retried, OccReadRetries

LEMMA NotReadLeads ==
    ASSUME NEW s \in Sound, s.occActive, NEW told, Keeps(told),
           NEW t \in NotRead(s, told)
    PROVE  /\ t \in Sound
           /\ \/ /\ s.retries > 0 /\ t.retries = s.retries - 1 /\ t.occActive
                 /\ t.failedOpens = s.failedOpens /\ t.stateValid = s.stateValid
                 /\ t.lastState = s.lastState /\ t.safeTimer = s.safeTimer
              \/ /\ t.failedOpens = 0 /\ ~t.occActive /\ ~t.bound
                 /\ Careful(told) => Off(t)
                 /\ Steady(told) => t.lastState = "NO"
<1> DEFINE q == [SensorsOff(s) EXCEPT !.failedReads = OneMore(@)]
<1>1. PICK x \in ShownRight, valid \in BOOLEAN :
         SensorsOff(s) = [s EXCEPT !.sensors = x, !.sensorsValid = valid]
  BY SensorsOffSound
<1>2. s \in Occ /\ OneMore(s.failedReads) \in 0 .. MaxFailed
  BY OneMoreType DEF Sound, Occ
<1>3. q = [s EXCEPT !.sensors = x, !.sensorsValid = valid,
                    !.failedReads = OneMore(s.failedReads)]
  BY <1>1, <1>2 DEF Occ
<1>4. q \in Occ
  BY <1>2, <1>3 DEF Occ, ShownRight
<1>5. /\ q.sensors = x /\ q.occActive = s.occActive /\ q.retries = s.retries
      /\ q.failedOpens = s.failedOpens /\ q.stateValid = s.stateValid
      /\ q.lastState = s.lastState /\ q.safeTimer = s.safeTimer
      /\ q.masterActive = s.masterActive /\ q.throttle = s.throttle
      /\ q.watch = s.watch
  BY <1>2, <1>3 DEF Occ
<1>6. q \in Sound
  BY <1>4, <1>5 DEF Sound
<1>7. CASE q.retries > 0
  <2>1. t = [q EXCEPT !.retries = @ - 1]
    BY <1>7 DEF NotRead
  <2> HIDE DEF q
  <2>2. q.retries - 1 \in 0 .. OccReadRetries
    BY <1>4, <1>7 DEF Occ, OccReadRetries
  <2>3. t \in Occ
    BY <1>4, <2>1, <2>2 DEF Occ
  <2>4. t \in Sound
    BY <1>4, <1>6, <2>1, <2>3 DEF Sound, Occ
  <2>5. QED
    BY <1>4, <1>5, <1>7, <2>1, <2>4 DEF Occ
<1>8. CASE ~(q.retries > 0)
  <2> DEFINE given == [q EXCEPT !.lastState = "NO", !.stateValid = FALSE]
  <2>1. PICK u \in DeviceError(given, told) :
           t = [u EXCEPT !.retries = OccReadRetries]
    BY <1>8 DEF NotRead
  <2> HIDE DEF q
  <2>2. given \in Occ
    BY <1>4 DEF Occ, States
  <2>3. given \in Sound /\ given.occActive /\ given.lastState = "NO"
    BY <1>4, <1>5, <1>6, <2>2 DEF Sound, Occ
  <2> HIDE DEF given
  <2>4. /\ u \in Sound /\ ~u.occActive /\ u.failedOpens = 0 /\ ~u.bound
        /\ Careful(told) => Off(u)
        /\ Steady(told) => u.lastState = "NO"
    BY <2>1, <2>3, DeviceErrorSound
  <2>5. u \in Occ /\ OccReadRetries \in 0 .. OccReadRetries
    BY <2>4 DEF Sound, OccReadRetries
  <2>6. t \in Occ
    BY <2>1, <2>5 DEF Occ
  <2>7. /\ t.occActive = u.occActive /\ t.failedOpens = u.failedOpens
        /\ t.bound = u.bound /\ t.lastState = u.lastState
        /\ t.polledLate = u.polledLate /\ t.sensors = u.sensors
        /\ t.masterActive = u.masterActive /\ t.throttle = u.throttle
        /\ t.watch = u.watch
    BY <2>1, <2>5 DEF Occ
  <2>8. t \in Sound
    BY <2>4, <2>6, <2>7 DEF Sound
  <2>9. QED
    BY <2>4, <2>7, <2>8 DEF Off
<1>9. QED
  BY <1>7, <1>8

\* A file that cannot be opened, and one that cannot be read
LEMMA OpenFailedLeads ==
    ASSUME NEW s \in Sound, s.occActive, NEW told, Keeps(told),
           NEW t \in OpenFailed(s, told)
    PROVE  Leads(s, t, told)
<1> DEFINE q == [s EXCEPT !.stateValid = FALSE, !.failedOpens = OneMore(@)]
<1>1. s \in Occ /\ OneMore(s.failedOpens) \in 0 .. MaxFailed
  BY OneMoreType DEF Sound, Occ
<1>2. q \in Occ
  BY <1>1 DEF Occ
<1>3. /\ q.occActive = s.occActive /\ q.retries = s.retries
      /\ q.failedOpens = OneMore(s.failedOpens) /\ q.stateValid = FALSE
      /\ q.lastState = s.lastState /\ q.safeTimer = s.safeTimer
      /\ q.masterActive = s.masterActive /\ q.throttle = s.throttle
      /\ q.watch = s.watch /\ q.sensors = s.sensors
  BY <1>1 DEF Occ
<1>4. q \in Sound
  BY <1>2, <1>3 DEF Sound
<1>5. t \in NotRead(q, told)
  BY DEF OpenFailed
<1> HIDE DEF q
<1>6. t \in Sound
  BY <1>3, <1>4, <1>5, NotReadLeads
<1>7. CASE /\ q.retries > 0 /\ t.retries = q.retries - 1 /\ t.occActive
           /\ t.failedOpens = q.failedOpens /\ t.stateValid = q.stateValid
           /\ t.lastState = q.lastState /\ t.safeTimer = q.safeTimer
  <2>1. ASSUME Retried(s)
        PROVE  Retried(t)
    <3>1. s.retries \in 0 .. 1 /\ s.failedOpens \in 0 .. MaxFailed
      BY <1>1 DEF Occ, OccReadRetries
    <3>2. s.failedOpens = 0 /\ s.retries = 1
      BY <1>3, <1>7, <2>1, <3>1 DEF Retried, OccReadRetries
    <3>3. t.failedOpens = 1 /\ t.retries = 0 /\ t.stateValid = FALSE
      BY <1>3, <1>7, <3>2 DEF OneMore, MaxFailed, OccReadRetries
    <3>4. QED
      BY <3>3 DEF Retried, OccReadRetries
  <2>2. Timed(s) => Timed(t)
    BY <1>3, <1>7 DEF Timed
  <2>3. QED
    BY <1>6, <1>7, <2>1, <2>2 DEF Leads
<1>8. CASE /\ t.failedOpens = 0 /\ ~t.occActive /\ ~t.bound
           /\ Careful(told) => Off(t)
           /\ Steady(told) => t.lastState = "NO"
  BY <1>6, <1>8, NoneFailed DEF Leads, Timed
<1>9. QED
  BY <1>3, <1>4, <1>5, <1>7, <1>8, NotReadLeads

LEMMA ReadFailedLeads ==
    ASSUME NEW s \in Sound, s.occActive, NEW told, Keeps(told),
           NEW t \in ReadFailed(s, told)
    PROVE  Leads(s, t, told)
<1> DEFINE q == [s EXCEPT !.failedOpens = 0]
<1>1. s \in Occ /\ 0 \in 0 .. MaxFailed
  BY DEF Sound, MaxFailed, OccReadRetries
<1>2. q \in Occ
  BY <1>1 DEF Occ
<1>3. /\ q.occActive = s.occActive /\ q.failedOpens = 0
      /\ q.lastState = s.lastState /\ q.safeTimer = s.safeTimer
      /\ q.masterActive = s.masterActive /\ q.throttle = s.throttle
      /\ q.watch = s.watch /\ q.sensors = s.sensors
  BY <1>1 DEF Occ
<1>4. q \in Sound
  BY <1>2, <1>3 DEF Sound
<1>5. t \in NotRead(q, told)
  BY DEF ReadFailed
<1> HIDE DEF q
<1>6. t \in Sound /\ t.failedOpens = 0
  BY <1>3, <1>4, <1>5, NotReadLeads
<1>7. Retried(t)
  BY <1>6, NoneFailed
<1>8. QED
  BY <1>3, <1>4, <1>5, <1>6, <1>7, NotReadLeads DEF Leads, Timed

\* An OCC that has been asked to run: it still does, or an error made it go off
Running(s, t, told) ==
    /\ t \in Sound /\ t.failedOpens = 0
    /\ \/ t.occActive /\ t.lastState = s.lastState
       \/ /\ ~t.occActive /\ ~t.bound /\ (Careful(told) => Off(t))
          /\ Steady(told) => t.lastState = s.lastState

LEMMA SendModeRuns ==
    ASSUME NEW s \in Sound, s.occActive, s.failedOpens = 0,
           NEW told, Keeps(told), NEW t \in SendMode(s, told)
    PROVE  Running(s, t, told)
<1>1. CASE ~Master(s)
  BY <1>1 DEF SendMode, Running
<1>2. CASE Master(s)
  <2> DEFINE on == [s EXCEPT !.masterActive = TRUE]
  <2>1. t = on \/ t \in DeviceError(on, told)
    BY <1>2 DEF SendMode, OrFault
  <2>2. s \in Occ /\ on \in Occ
    BY DEF Sound, Occ
  <2>3. /\ on \in Sound /\ on.occActive /\ on.failedOpens = 0
        /\ on.lastState = s.lastState
    BY <1>2, <2>2 DEF Sound, Occ, Master
  <2> HIDE DEF on
  <2>4. CASE t = on
    BY <2>3, <2>4 DEF Running
  <2>5. CASE t \in DeviceError(on, told)
    BY <2>3, <2>5, DeviceErrorSound DEF Running
  <2>6. QED
    BY <2>1, <2>4, <2>5
<1>3. QED
  BY <1>1, <1>2

LEMMA WentActiveRuns ==
    ASSUME NEW s \in Sound, s.occActive, s.failedOpens = 0,
           NEW told, Keeps(told), NEW t \in WentActive(s, told)
    PROVE  Running(s, t, told)
<1>1. PICK u \in SendMode(s, told) : t \in SendAmbient(u, told)
  BY DEF WentActive
<1>2. Running(s, u, told)
  BY SendModeRuns
<1>3. t = u \/ t \in DeviceError(u, told)
  BY <1>1 DEF SendAmbient, OrFault
<1>4. CASE t = u
  BY <1>2, <1>4
<1>5. CASE t \in DeviceError(u, told)
  <2>1. u \in Sound
    BY <1>2 DEF Running
  <2>2. /\ t \in Sound /\ ~t.occActive /\ t.failedOpens = 0
        /\ u.occActive => ~t.bound /\ (Careful(told) => Off(t))
        /\ ~u.occActive => /\ t.sensors = u.sensors /\ t.bound = u.bound
                           /\ t.masterActive = u.masterActive
                           /\ t.polledLate = u.polledLate
                           /\ t.lastState = u.lastState
        /\ Steady(told) => t.lastState = u.lastState
    BY <1>5, <2>1, DeviceErrorSound
  <2>3. CASE u.occActive
    BY <1>2, <2>2, <2>3 DEF Running
  <2>4. CASE ~u.occActive
    BY <1>2, <2>2, <2>4 DEF Running, Off
  <2>5. QED
    BY <2>3, <2>4
<1>6. QED
  BY <1>3, <1>4, <1>5

\* A good state stops the timer of the safe state, which is not the last one.
LEMMA GoodStateSound ==
    ASSUME NEW s \in Sound
    PROVE  /\ GoodState(s) \in Sound /\ GoodState(s).lastState = s.lastState
           /\ GoodState(s).occActive = s.occActive /\ GoodState(s).bound = s.bound
           /\ GoodState(s).failedOpens = s.failedOpens
           /\ GoodState(s).polledLate = s.polledLate
           /\ GoodState(s).sensors = s.sensors
           /\ GoodState(s).masterActive = s.masterActive
<1>1. s \in Occ /\ GoodState(s) \in Occ
  BY DEF Sound, Occ, GoodState
<1>2. /\ GoodState(s).lastState = s.lastState
      /\ GoodState(s).occActive = s.occActive /\ GoodState(s).bound = s.bound
      /\ GoodState(s).failedOpens = s.failedOpens
      /\ GoodState(s).polledLate = s.polledLate
      /\ GoodState(s).sensors = s.sensors
      /\ GoodState(s).masterActive = s.masterActive
      /\ GoodState(s).throttle = s.throttle /\ GoodState(s).watch = s.watch
  BY <1>1 DEF GoodState, Occ
<1>3. QED
  BY <1>1, <1>2 DEF Sound

LEMMA BadStateSound ==
    ASSUME NEW s \in Sound
    PROVE  /\ BadState(s) \in Sound /\ BadState(s).safeTimer
           /\ BadState(s).occActive = s.occActive
           /\ BadState(s).failedOpens = s.failedOpens
<1>1. PICK x \in ShownRight, valid \in BOOLEAN :
         SensorsOff(s) = [s EXCEPT !.sensors = x, !.sensorsValid = valid]
  BY SensorsOffSound
<1>2. s \in Occ
  BY DEF Sound
<1>3. BadState(s) = [s EXCEPT !.sensors = x, !.sensorsValid = valid,
                              !.safeTimer = TRUE]
  BY <1>1, <1>2 DEF BadState, Occ
<1>4. BadState(s) \in Occ
  BY <1>2, <1>3 DEF Occ, ShownRight
<1>5. /\ BadState(s).safeTimer /\ BadState(s).occActive = s.occActive
      /\ BadState(s).failedOpens = s.failedOpens /\ BadState(s).sensors = x
      /\ BadState(s).masterActive = s.masterActive
      /\ BadState(s).throttle = s.throttle /\ BadState(s).watch = s.watch
  BY <1>2, <1>3 DEF Occ
<1>6. QED
  BY <1>4, <1>5 DEF Sound

LEMMA NewStateLeads ==
    ASSUME NEW s \in Sound, s.occActive, s.failedOpens = 0,
           NEW state \in States, NEW told, Keeps(told),
           NEW t \in NewState(s, state, told)
    PROVE  Leads(s, t, told)
<1> DEFINE q == [s EXCEPT !.lastState = state]
<1>1. s \in Occ /\ q \in Occ
  BY DEF Sound, Occ
<1>2. /\ q \in Sound /\ q.occActive /\ q.failedOpens = 0 /\ q.lastState = state
  BY <1>1 DEF Sound, Occ
<1>3. CASE state = "ACTIVE"
  <2>1. PICK u \in WentActive(q, told) : t = GoodState(u)
    BY <1>3 DEF NewState
  <2> HIDE DEF q
  <2>2. Running(q, u, told)
    BY <1>2, <2>1, WentActiveRuns
  <2>3. u \in Sound /\ u.failedOpens = 0
    BY <2>2 DEF Running
  <2>4. /\ t \in Sound /\ t.lastState = u.lastState
        /\ t.occActive = u.occActive /\ t.bound = u.bound
        /\ t.failedOpens = u.failedOpens /\ t.polledLate = u.polledLate
        /\ t.sensors = u.sensors /\ t.masterActive = u.masterActive
    BY <2>1, <2>3, GoodStateSound
  <2>5. Retried(t)
    BY <2>3, <2>4, NoneFailed
  <2>6. CASE u.occActive
    BY <1>2, <1>3, <2>2, <2>4, <2>5, <2>6 DEF Running, Leads, Timed
  <2>7. CASE ~u.occActive
    BY <1>2, <1>3, <2>2, <2>4, <2>5, <2>7 DEF Running, Leads, Timed, Off
  <2>8. QED
    BY <2>6, <2>7
<1>4. CASE state \in Good \ {"ACTIVE"}
  <2>1. t = GoodState(q)
    BY <1>4 DEF NewState
  <2> HIDE DEF q
  <2>2. t \in Sound /\ t.occActive /\ t.failedOpens = 0 /\ t.lastState = state
    BY <1>2, <2>1, GoodStateSound
  <2>3. QED
    BY <1>4, <2>2, NoneFailed DEF Leads, Timed, Good
<1>5. CASE state \notin Good
  <2>1. t = BadState(q)
    BY <1>5 DEF NewState, Good
  <2> HIDE DEF q
  <2>2. t \in Sound /\ t.occActive /\ t.failedOpens = 0 /\ t.safeTimer
    BY <1>2, <2>1, BadStateSound
  <2>3. QED
    BY <2>2, NoneFailed DEF Leads, Timed
<1>6. QED
  BY <1>3, <1>4, <1>5

LEMMA StateReadLeads ==
    ASSUME NEW s \in Sound, s.occActive, NEW state \in States,
           NEW told, Keeps(told), NEW t \in StateRead(s, state, told)
    PROVE  Leads(s, t, told)
<1> DEFINE q == [s EXCEPT !.failedOpens = 0, !.failedReads = 0]
<1>1. s \in Occ /\ 0 \in 0 .. MaxFailed
  BY DEF Sound, MaxFailed, OccReadRetries
<1>2. q \in Occ
  BY <1>1 DEF Occ
<1>3. /\ q.occActive = s.occActive /\ q.failedOpens = 0
      /\ q.lastState = s.lastState /\ q.safeTimer = s.safeTimer
      /\ q.masterActive = s.masterActive /\ q.throttle = s.throttle
      /\ q.watch = s.watch /\ q.sensors = s.sensors
  BY <1>1 DEF Occ
<1>4. q \in Sound
  BY <1>2, <1>3 DEF Sound
<1>5. CASE state = s.lastState
  <2>1. t = q
    BY <1>5 DEF StateRead
  <2> HIDE DEF q
  <2>2. Retried(t)
    BY <1>3, <1>4, <2>1, NoneFailed
  <2>3. QED
    BY <1>3, <1>4, <2>1, <2>2 DEF Leads, Timed
<1>6. CASE state # s.lastState
  <2>1. t \in NewState(q, state, told)
    BY <1>6 DEF StateRead
  <2> HIDE DEF q
  <2>2. Leads(q, t, told)
    BY <1>3, <1>4, <2>1, NewStateLeads
  <2>3. Retried(q)
    BY <1>3, <1>4, NoneFailed
  <2>4. QED
    BY <1>3, <2>2, <2>3 DEF Leads, Timed
<1>7. QED
  BY <1>5, <1>6

\* A good state renews the retries, and no failure counts then.
LEMMA ReplenishSound ==
    ASSUME NEW s \in Sound
    PROVE  /\ Replenish(s) \in Sound /\ Replenish(s).occActive = s.occActive
           /\ Retried(s) => Retried(Replenish(s))
           /\ Timed(s) => Timed(Replenish(s))
<1>1. CASE s.stateValid
  <2> DEFINE q == [s EXCEPT !.retries = OccReadRetries]
  <2>1. Replenish(s) = q
    BY <1>1 DEF Replenish
  <2>2. s \in Occ /\ OccReadRetries \in 0 .. OccReadRetries
    BY DEF Sound, OccReadRetries
  <2>3. q \in Occ
    BY <2>2 DEF Occ
  <2>4. /\ q.occActive = s.occActive /\ q.failedOpens = s.failedOpens
        /\ q.lastState = s.lastState /\ q.safeTimer = s.safeTimer
        /\ q.masterActive = s.masterActive /\ q.throttle = s.throttle
        /\ q.watch = s.watch /\ q.sensors = s.sensors
    BY <2>2 DEF Occ
  <2>5. q \in Sound
    BY <2>3, <2>4 DEF Sound
  <2> HIDE DEF q
  <2>6. Retried(s) => Retried(q)
    BY <1>1, <2>4, <2>5, NoneFailed DEF Retried
  <2>7. QED
    BY <2>1, <2>4, <2>5, <2>6 DEF Timed
<1>2. CASE ~s.stateValid
  BY <1>2 DEF Replenish
<1>3. QED
  BY <1>1, <1>2

LEMMA ReadOccStateLeads ==
    ASSUME NEW s \in Sound, s.occActive, NEW told, Keeps(told),
           NEW t \in ReadOccState(s, told)
    PROVE  Leads(s, t, told)
<1> DEFINE q == Replenish(s)
<1>1. /\ q \in Sound /\ q.occActive
      /\ Retried(s) => Retried(q)
      /\ Timed(s) => Timed(q)
  BY ReplenishSound
<1>2. \/ t \in OpenFailed(q, told)
      \/ t \in ReadFailed(q, told)
      \/ \E state \in States : t \in StateRead(q, state, told)
  BY DEF ReadOccState, OccReadStateNow, OrFault
<1> HIDE DEF q
<1>3. Leads(q, t, told)
  BY <1>1, <1>2, OpenFailedLeads, ReadFailedLeads, StateReadLeads
<1>4. QED
  BY <1>1, <1>3 DEF Leads

(***************************************************************************)
(* Polls, from the event loop and in the middle                            *)
(***************************************************************************)

LEMMA SensorsReadLeads ==
    ASSUME NEW s, NEW told, NEW t, Leads(s, t, told), NEW u \in GetSensorValues(t)
    PROVE  Leads(s, u, told)
<1>1. CASE t.bound
  <2>1. PICK x \in ReadTempSensors(t.sensors) : u = [t EXCEPT !.sensors = x]
    BY <1>1 DEF GetSensorValues
  <2>2. t \in Sound /\ t \in Occ /\ t.occActive
    BY <1>1 DEF Leads, Sound
  <2>3. x \in ShownRight
    BY <2>1, <2>2, ReadIsRight DEF Sound
  <2>4. u \in Occ
    BY <2>1, <2>2, <2>3 DEF Occ, ShownRight
  <2>5. /\ u.occActive = t.occActive /\ u.failedOpens = t.failedOpens
        /\ u.lastState = t.lastState /\ u.safeTimer = t.safeTimer
        /\ u.masterActive = t.masterActive /\ u.throttle = t.throttle
        /\ u.watch = t.watch /\ u.sensors = x
        /\ u.stateValid = t.stateValid /\ u.retries = t.retries
    BY <2>1, <2>2 DEF Occ
  <2>6. u \in Sound
    BY <2>2, <2>3, <2>4, <2>5 DEF Sound
  <2>7. QED
    BY <2>2, <2>5, <2>6 DEF Leads, Retried, Timed
<1>2. CASE ~t.bound
  BY <1>2 DEF GetSensorValues
<1>3. QED
  BY <1>1, <1>2

\* A poll of an OCC that is active, and of one that is not
LEMMA PolledActive ==
    ASSUME NEW s \in Sound, s.occActive, NEW told, Keeps(told),
           NEW t \in Polled(s, told)
    PROVE  Leads(s, t, told)
<1>1. PICK u \in ReadOccState(s, told) : t \in GetSensorValues(u)
  BY DEF Polled
<1>2. Leads(s, u, told)
  BY ReadOccStateLeads
<1>3. QED
  BY <1>1, <1>2, SensorsReadLeads

LEMMA PolledInactive ==
    ASSUME NEW s \in Sound, ~s.occActive, NEW told, NEW t \in Polled(s, told)
    PROVE  /\ t \in Sound /\ ~t.occActive /\ NoValue(t.sensors)
           /\ t.masterActive = s.masterActive /\ t.polledLate = s.polledLate
           /\ Retried(s) => Retried(t)
<1> DEFINE x == SetSensorValueToNaN(s.sensors)
<1>1. s \in Occ /\ s.sensors \in ShownRight
  BY DEF Sound
<1>2. x \in ShownRight /\ NoValue(x)
  BY <1>1, NaNIsRight
<1>3. t = [s EXCEPT !.sensors = x]
  BY <1>1 DEF Polled
<1> HIDE DEF x
<1>4. t \in Occ
  BY <1>1, <1>2, <1>3 DEF Occ, ShownRight
<1>5. /\ t.occActive = s.occActive /\ t.failedOpens = s.failedOpens
      /\ t.masterActive = s.masterActive /\ t.throttle = s.throttle
      /\ t.watch = s.watch /\ t.sensors = x /\ t.polledLate = s.polledLate
      /\ t.stateValid = s.stateValid /\ t.retries = s.retries
  BY <1>1, <1>3 DEF Occ
<1>6. t \in Sound
  BY <1>2, <1>4, <1>5 DEF Sound
<1>7. QED
  BY <1>2, <1>5, <1>6 DEF Retried

LEMMA PolledSound ==
    ASSUME NEW s \in Sound, NEW told, Keeps(told), NEW t \in Polled(s, told)
    PROVE  t \in Sound /\ (Retried(s) => Retried(t))
BY PolledActive, PolledInactive DEF Leads

LEMMA QuietKeeps == Keeps(Quiet) /\ Careful(Quiet) /\ Steady(Quiet)
<1>1. \A s \in Sound : Quiet[s] = {s}
  BY DEF Quiet, Sound
<1>2. QED
  BY <1>1 DEF Keeps, Careful, Steady

\* A poll in the middle of a deactivation is remembered, and changes nothing
\* that the rest of the deactivation rests on.
LEMMA LatePoll ==
    ASSUME NEW s \in Sound, NEW t \in MayPollLate[s]
    PROVE  /\ t \in Sound /\ (t = s \/ t.polledLate)
           /\ Retried(s) => Retried(t)
<1>1. \/ t = s
      \/ \E u \in Polled(s, Quiet) : t = [u EXCEPT !.polledLate = TRUE]
  BY DEF MayPollLate, Sound, OrFault
<1>2. CASE t = s
  BY <1>2
<1>3. ASSUME NEW u \in Polled(s, Quiet), t = [u EXCEPT !.polledLate = TRUE]
      PROVE  t \in Sound /\ t.polledLate /\ (Retried(s) => Retried(t))
  <2>1. u \in Sound /\ (Retried(s) => Retried(u))
    BY QuietKeeps, PolledSound
  <2>2. u \in Occ
    BY <2>1 DEF Sound
  <2>3. t \in Occ
    BY <1>3, <2>2 DEF Occ
  <2>4. /\ t.masterActive = u.masterActive /\ t.throttle = u.throttle
        /\ t.watch = u.watch /\ t.sensors = u.sensors /\ t.polledLate
        /\ t.failedOpens = u.failedOpens
        /\ t.stateValid = u.stateValid /\ t.retries = u.retries
    BY <1>3, <2>2 DEF Occ
  <2>5. t \in Sound
    BY <2>1, <2>3, <2>4 DEF Sound
  <2>6. QED
    BY <2>1, <2>4, <2>5 DEF Retried
<1>4. QED
  BY <1>1, <1>2, <1>3

LEMMA LateKeeps == Keeps(MayPollLate) /\ Careful(MayPollLate)
BY LatePoll DEF Keeps, Careful

(***************************************************************************)
(* The handlers                                                            *)
(***************************************************************************)

\* What holds of an OCC between two handlers
Stands(s) ==
    /\ s \in Sound
    /\ Retried(s)
    /\ s.occActive => Timed(s)
    /\ (~s.occActive /\ ~s.polledLate) => (NoValue(s.sensors) /\ ~s.masterActive)

LEMMA ErrorStands ==
    ASSUME NEW s \in Sound, NEW t \in DeviceError(s, MayPollLate),
           (~s.occActive /\ ~s.polledLate) => (NoValue(s.sensors) /\ ~s.masterActive)
    PROVE  Stands(t) /\ ~t.occActive
<1>1. /\ t \in Sound /\ ~t.occActive /\ t.failedOpens = 0
      /\ s.occActive => Off(t)
      /\ ~s.occActive => /\ t.sensors = s.sensors
                         /\ t.masterActive = s.masterActive
                         /\ t.polledLate = s.polledLate
  BY LateKeeps, DeviceErrorSound
<1>2. Retried(t)
  BY <1>1, NoneFailed
<1>3. QED
  BY <1>1, <1>2 DEF Stands, Off

\* occActive(false)
LEMMA InactiveStands ==
    ASSUME NEW s \in Sound, Stands(s), NEW t \in OccInactive(s, MayPollLate)
    PROVE  Stands(t)
<1>1. CASE ~s.occActive
  BY <1>1 DEF OccInactive
<1>2. CASE s.occActive
  <2> DEFINE q == [Quiesce(s) EXCEPT !.sensors = SetSensorValueToNaN(@)]
  <2>1. t \in Deactivate(s, MayPollLate)
    BY <1>2 DEF OccInactive
  <2>2. t \in Sound /\ ~t.occActive /\ Off(t)
    BY <1>2, <2>1, LateKeeps, DeactivateSound
  <2>3. /\ q \in Sound /\ q.retries = s.retries
        /\ q.failedOpens = s.failedOpens /\ q.stateValid = s.stateValid
    BY <1>2, QuiesceSound
  <2>4. PICK u \in MayPollLate[q] : t = Gone(u)
    BY <2>1 DEF Deactivate
  <2> HIDE DEF q
  <2>5. Retried(q)
    BY <2>3 DEF Stands, Retried
  <2>6. u \in Sound /\ Retried(u)
    BY <2>3, <2>4, <2>5, LatePoll
  <2>7. Retried(t)
    BY <2>4, <2>6, GoneSound DEF Retried
  <2>8. QED
    BY <2>2, <2>7 DEF Stands, Off
<1>3. QED
  BY <1>1, <1>2

\* The OCC is disabled because not all of its files can be watched.
LEMMA NotWatchedStands ==
    ASSUME NEW s \in Sound, NEW t \in NotWatched(s),
           (~s.occActive /\ ~s.polledLate) => (NoValue(s.sensors) /\ ~s.masterActive)
    PROVE  Stands(t)
<1> DEFINE q == [s EXCEPT !.watch = "partial"]
<1>1. PICK u \in DeviceError(q, MayPollLate) : t = [u EXCEPT !.occActive = FALSE]
  BY DEF NotWatched
<1>2. s \in Occ /\ q \in Occ
  BY DEF Sound, Occ
<1>3. /\ q.masterActive = s.masterActive /\ q.watch = "partial"
      /\ q.sensors = s.sensors /\ q.polledLate = s.polledLate
      /\ q.occActive = s.occActive
  BY <1>2 DEF Occ
<1>4. q \in Sound
  BY <1>2, <1>3 DEF Sound
<1> HIDE DEF q
<1>5. Stands(u) /\ ~u.occActive
  BY <1>1, <1>3, <1>4, ErrorStands
<1>6. u \in Occ
  BY <1>5 DEF Stands, Sound
<1>7. t = u
  BY <1>1, <1>5, <1>6 DEF Occ
<1>8. QED
  BY <1>5, <1>7

\* occActive(true) of an inactive OCC: a poll in the middle finds no last state,
\* so that the one it reads starts its timer even if OccActive is changed back.
LEMMA ActivateStands ==
    ASSUME NEW s \in Sound, Stands(s), ~s.occActive, NEW t \in Activate(s)
    PROVE  Stands(t)
<1> DEFINE on == [s EXCEPT !.bound = TRUE, !.throttle = {}, !.lastState = "NO",
                           !.resetAsked = FALSE]
           watched == [on EXCEPT !.watch = "on", !.occActive = TRUE,
                                 !.polledLate = FALSE]
<1>1. s \in Occ /\ on \in Occ
  BY DEF Sound, Occ, States
<1>2. /\ on.masterActive = s.masterActive /\ on.throttle = {}
      /\ on.sensors = s.sensors /\ on.polledLate = s.polledLate
      /\ on.occActive = s.occActive /\ on.failedOpens = s.failedOpens
      /\ on.stateValid = s.stateValid /\ on.retries = s.retries
      /\ on.lastState = "NO"
  BY <1>1 DEF Occ
<1>3. on \in Sound
  BY <1>1, <1>2 DEF Sound
<1>4. \/ \E u \in MayPoll[watched] : t = [u EXCEPT !.occActive = TRUE]
      \/ t \in NotWatched(on)
  BY DEF Activate, OrFault
<1> HIDE DEF on
<1>5. CASE t \in NotWatched(on)
  BY <1>2, <1>3, <1>5, NotWatchedStands DEF Stands
<1>6. ASSUME NEW u \in MayPoll[watched], t = [u EXCEPT !.occActive = TRUE]
      PROVE  Stands(t)
  <2>1. watched \in Occ
    BY <1>3 DEF Sound, Occ
  <2>2. /\ watched.masterActive = on.masterActive /\ watched.throttle = {}
        /\ watched.sensors = on.sensors /\ watched.occActive
        /\ watched.failedOpens = on.failedOpens
        /\ watched.stateValid = on.stateValid /\ watched.retries = on.retries
        /\ watched.lastState = "NO"
    BY <1>2, <1>3 DEF Sound, Occ
  <2>3. watched \in Sound
    BY <1>3, <2>1, <2>2 DEF Sound
  <2> HIDE DEF watched
  <2>4. Retried(watched) /\ Timed(watched)
    BY <1>2, <2>2 DEF Stands, Retried, Timed
  <2>5. u = watched \/ u \in Polled(watched, Quiet)
    BY <1>6, <2>1 DEF MayPoll, OrFault
  <2>6. u \in Sound /\ Retried(u) /\ Timed(u)
    BY <2>2, <2>3, <2>4, <2>5, QuietKeeps, PolledActive DEF Leads
  <2>7. u \in Occ /\ t \in Occ
    BY <1>6, <2>6 DEF Sound, Occ
  <2>8. /\ t.masterActive = u.masterActive /\ t.throttle = u.throttle
        /\ t.watch = u.watch /\ t.sensors = u.sensors /\ t.occActive
        /\ t.failedOpens = u.failedOpens
        /\ t.stateValid = u.stateValid /\ t.retries = u.retries
        /\ t.lastState = u.lastState /\ t.safeTimer = u.safeTimer
    BY <1>6, <2>7 DEF Occ
  <2>9. t \in Sound
    BY <2>6, <2>7, <2>8 DEF Sound
  <2>10. QED
    BY <2>6, <2>8, <2>9 DEF Stands, Retried, Timed
<1>7. QED
  BY <1>4, <1>5, <1>6

LEMMA RebindStands ==
    ASSUME NEW s \in Sound, Stands(s), s.occActive, NEW t \in Rebind(s)
    PROVE  Stands(t)
<1> DEFINE on == [s EXCEPT !.bound = TRUE]
<1>1. s \in Occ /\ on \in Occ
  BY DEF Sound, Occ
<1>2. /\ on.masterActive = s.masterActive /\ on.throttle = s.throttle
      /\ on.sensors = s.sensors /\ on.watch = s.watch
      /\ on.occActive = s.occActive /\ on.failedOpens = s.failedOpens
      /\ on.stateValid = s.stateValid /\ on.retries = s.retries
      /\ on.lastState = s.lastState /\ on.safeTimer = s.safeTimer
  BY <1>1 DEF Occ
<1>3. on \in Sound
  BY <1>1, <1>2 DEF Sound
<1>4. t = [on EXCEPT !.watch = "on"] \/ t \in NotWatched(on)
  BY DEF Rebind, OrFault
<1> HIDE DEF on
<1>5. CASE t \in NotWatched(on)
  BY <1>2, <1>3, <1>5, NotWatchedStands
<1>6. CASE t = [on EXCEPT !.watch = "on"]
  <2>1. on \in Occ /\ t \in Occ
    BY <1>3, <1>6 DEF Sound, Occ
  <2>2. /\ t.masterActive = on.masterActive /\ t.throttle = on.throttle
        /\ t.sensors = on.sensors /\ t.watch = "on"
        /\ t.occActive = on.occActive /\ t.failedOpens = on.failedOpens
        /\ t.stateValid = on.stateValid /\ t.retries = on.retries
        /\ t.lastState = on.lastState /\ t.safeTimer = on.safeTimer
    BY <1>6, <2>1 DEF Occ
  <2>3. t \in Sound
    BY <1>3, <2>1, <2>2 DEF Sound
  <2>4. QED
    BY <1>2, <2>2, <2>3 DEF Stands, Retried, Timed
<1>7. QED
  BY <1>4, <1>5, <1>6

\* A poll from the event loop
LEMMA PolledStands ==
    ASSUME NEW s \in Sound, Stands(s), NEW t \in Polled(s, MayPollLate)
    PROVE  Stands(t)
<1>1. CASE s.occActive
  <2>1. Leads(s, t, MayPollLate)
    BY <1>1, LateKeeps, PolledActive
  <2>2. QED
    BY <1>1, <2>1, LateKeeps DEF Leads, Stands, Off
<1>2. CASE ~s.occActive
  BY <1>2, PolledInactive DEF Stands
<1>3. QED
  BY <1>1, <1>2

\* The timer of the safe state has expired: an active OCC is reset.
LEMMA ExpiredStands ==
    ASSUME NEW s \in Sound, Stands(s), NEW t,
           LET expired == [s EXCEPT !.safeTimer = FALSE]
           IN IF s.occActive THEN t \in DeviceError(expired, MayPollLate)
              ELSE t = expired
    PROVE  Stands(t)
<1> DEFINE expired == [s EXCEPT !.safeTimer = FALSE]
<1>1. s \in Occ /\ expired \in Occ
  BY DEF Sound, Occ
<1>2. /\ expired.masterActive = s.masterActive /\ expired.watch = s.watch
      /\ expired.throttle = s.throttle /\ expired.sensors = s.sensors
      /\ expired.occActive = s.occActive /\ expired.polledLate = s.polledLate
      /\ expired.failedOpens = s.failedOpens
      /\ expired.stateValid = s.stateValid /\ expired.retries = s.retries
  BY <1>1 DEF Occ
<1>3. expired \in Sound
  BY <1>1, <1>2 DEF Sound
<1>4. CASE s.occActive
  <2>1. t \in DeviceError(expired, MayPollLate)
    BY <1>4
  <2> HIDE DEF expired
  <2>2. QED
    BY <1>2, <1>3, <1>4, <2>1, ErrorStands
<1>5. CASE ~s.occActive
  <2>1. t = expired
    BY <1>5
  <2> HIDE DEF expired
  <2>2. QED
    BY <1>2, <1>3, <1>5, <2>1 DEF Stands, Retried
<1>6. QED
  BY <1>4, <1>5

\* A throttle cause changes nothing else.
LEMMA ThrottledStands ==
    ASSUME Stands(occ), NEW cause \in Causes, NEW on \in BOOLEAN,
           Throttled(cause, on), cause = "SAFE" \/ occ.watch # "off"
    PROVE  Stands(occ')
<1>1. occ \in Sound /\ occ \in Occ
  BY DEF Stands, Sound
<1>2. PICK causes \in SUBSET Causes :
         /\ occ' = [occ EXCEPT !.throttle = causes]
         /\ causes = occ.throttle \cup {cause} \/ causes = occ.throttle \ {cause}
  BY <1>1 DEF Throttled, Occ
<1>3. occ' \in Occ
  BY <1>1, <1>2 DEF Occ
<1>4. /\ occ'.masterActive = occ.masterActive /\ occ'.watch = occ.watch
      /\ occ'.throttle = causes /\ occ'.sensors = occ.sensors
      /\ occ'.occActive = occ.occActive /\ occ'.polledLate = occ.polledLate
      /\ occ'.failedOpens = occ.failedOpens /\ occ'.stateValid = occ.stateValid
      /\ occ'.retries = occ.retries /\ occ'.lastState = occ.lastState
      /\ occ'.safeTimer = occ.safeTimer
  BY <1>1, <1>2 DEF Occ
<1>5. causes \ {"SAFE"} # {} => occ.watch # "off"
  BY <1>1, <1>2 DEF Sound
<1>6. occ' \in Sound
  BY <1>1, <1>3, <1>4, <1>5 DEF Sound
<1>7. QED
  BY <1>4, <1>6 DEF Stands, Retried, Timed

\* Nothing is known of an OCC at first.
LEMMA InitStands == Init => Stands(occ)
<1> SUFFICES ASSUME Init
             PROVE  Stands(occ)
  OBVIOUS
<1>1. NoSensor \in ShownRight /\ NoValue(NoSensor)
  BY DEF NoSensor, ShownRight, Sensor, NoValue
<1>2. 0 \in 0 .. OccReadRetries /\ 0 \in 0 .. MaxFailed
  BY DEF OccReadRetries, MaxFailed
<1>3. occ \in Occ
  BY <1>1, <1>2 DEF Init, Occ, States, ShownRight
<1>4. /\ occ.sensors = NoSensor /\ ~occ.masterActive /\ occ.throttle = {}
      /\ ~occ.occActive /\ occ.failedOpens = 0
  BY DEF Init
<1>5. occ \in Sound
  BY <1>1, <1>3, <1>4 DEF Sound
<1>6. QED
  BY <1>1, <1>4, <1>5, NoneFailed DEF Stands

LEMMA NextStands == Stands(occ) /\ [Next]_occ => Stands(occ')
<1> SUFFICES ASSUME Stands(occ), [Next]_occ
             PROVE  Stands(occ')
  OBVIOUS
<1>1. occ \in Sound
  BY DEF Stands
<1>2. CASE OccActiveTrue
  BY <1>1, <1>2, ActivateStands, RebindStands DEF OccActiveTrue
<1>3. CASE OccActiveFalse
  BY <1>1, <1>3, InactiveStands DEF OccActiveFalse
<1>4. CASE PollerTimerExpired
  BY <1>1, <1>4, PolledStands DEF PollerTimerExpired
<1>5. CASE ErrorReported
  BY <1>1, <1>5, ErrorStands DEF ErrorReported, Stands
<1>6. CASE SafeStateDelayExpired
  BY <1>1, <1>6, ExpiredStands DEF SafeStateDelayExpired
<1>7. CASE ThrottleReported
  BY <1>1, <1>7, ThrottledStands DEF ThrottleReported, Causes
<1>8. CASE UpdateOccSafeMode
  BY <1>1, <1>8, ThrottledStands DEF UpdateOccSafeMode, Causes
<1>9. CASE UNCHANGED occ
  BY <1>9
<1>10. QED
  BY <1>2, <1>3, <1>4, <1>5, <1>6, <1>7, <1>8, <1>9 DEF Next

(***************************************************************************)
(* The theorems                                                            *)
(***************************************************************************)

LEMMA Standing == Spec => []Stands(occ)
<1> DEFINE Inv == Stands(occ)
<1>1. Init => Inv
  BY InitStands
<1>2. Inv /\ [Next]_occ => Inv'
  BY NextStands
<1> HIDE DEF Inv
<1>3. Spec => []Inv
  BY <1>1, <1>2, PTL DEF Spec
<1>4. QED
  BY <1>3 DEF Inv

\* The retries never underflow and every field keeps its type, whatever fails
\* and whatever is polled in the middle (Status::occActive, readOccState).
THEOREM TypeCorrect == Spec => []TypeOK
<1>1. Stands(occ) => TypeOK
  BY DEF Stands, Sound, TypeOK
<1>2. QED
  BY <1>1, Standing, PTL

\* At the second failure in a row to open the state file the OCC is disabled:
\* each failure costs a retry, and only a good state renews them
\* (occReadStateNow, readOccState).
THEOREM MissingDisabled == Spec => []MissingIsDisabled
<1>1. Stands(occ) => MissingIsDisabled
  BY DEF Stands, Sound, Occ, Retried, MissingIsDisabled, OccReadRetries
<1>2. QED
  BY <1>1, Standing, PTL

\* The timer of the safe state runs while an active OCC is in it
\* (occReadStateNow, safeStateDelayExpired).
THEOREM SafeTimed == Spec => []SafeIsTimed
<1>1. Stands(occ) => SafeIsTimed
  BY DEF Stands, Timed, SafeIsTimed
<1>2. QED
  BY <1>1, Standing, PTL

\* What D-Bus shows of an OCC ends with it (Status::occActive).
THEOREM StaleCleared == Spec => []NothingStale
<1>1. Stands(occ) => NothingStale
  BY DEF Stands, Sound, NothingStale
<1>2. QED
  BY <1>1, Standing, PTL

\* D-Bus shows the worst of the readings of a FRU, for all directories of files
\* (readTempSensors, setSensorValueToNaN).
THEOREM WorstShown == Spec => []WorstIsShown
<1>1. Stands(occ) => WorstIsShown
  BY DEF Stands, Sound, ShownRight, WorstIsShown
<1>2. QED
  BY <1>1, Standing, PTL
===============================================================================
