------------------------------- MODULE PowerCap -------------------------------
(***************************************************************************)
(* The power cap of openpower-occ-control (powercap.cpp): the cap that the *)
(* user sets over D-Bus is kept within the limits that the master OCC      *)
(* reports, and sent to that OCC.  Both the user and the program write the *)
(* properties PowerCap and PowerCapEnable of the settings daemon, and the  *)
(* program is told of every change, its own ones too, by a later signal.   *)
(*                                                                         *)
(* The user and D-Bus think in watts of input (AC) power, the OCC and the  *)
(* files of its driver in watts of output (DC) power; the conversions      *)
(* round.  Only one OCC is the master here.                                *)
(***************************************************************************)
EXTENDS Integers, Sequences

CONSTANTS
    Derating,       \* PS_DERATING_FACTOR, a percentage
    UintMax,        \* UINT_MAX, the maximum while none is known
    Caps,           \* the power caps that the user sets, in watts of input power
    OccBounds,      \* the bounds that the OCC may report, in watts of output power
    Faults,
    MaxSignals      \* how many writes of the user may await their signal

\* Which files or calls may fail: "settings" are the reads of the properties,
\* "setProperty" the program's own write of PowerCap.
FaultKinds == {"limitFile", "userFile", "settings", "setProperty", "persist"}

ASSUME DeratingAssumption == Derating \in 1 .. 100
ASSUME UintMaxAssumption == UintMax \in Nat
ASSUME CapsAssumption == Caps \subseteq 0 .. UintMax
ASSUME BoundsAssumption == OccBounds \subseteq [softMin : Nat, max : Nat]
ASSUME FaultsAssumption == Faults \subseteq FaultKinds
ASSUME SignalsAssumption == MaxSignals \in Nat

VARIABLES
    settings,       \* the properties of the settings daemon
    signals,        \* PropertiesChanged signals not handled yet
    limits,         \* persistedData.capData
    linked,         \* is masterOccObj set
    occActive,      \* is the master OCC active
    bounds,         \* what its files power*_cap_min_soft and power*_cap_max read
    userCap,        \* what its file power*_cap_user reads, 0 for no cap
    lastWrite       \* how the last update since it went active ended (history):
                    \* "unshown" if the OCC has a cap that D-Bus could not be told

occVars == <<linked, occActive, bounds, userCap, lastWrite>>
vars == <<settings, signals, limits, occVars>>

Settings == [cap : Nat, enabled : BOOLEAN]
Signals == [cap : Nat] \cup [enabled : BOOLEAN]
Limits == [softMin : Nat, max : Nat]
DefaultLimits == [softMin |-> 0, max |-> UintMax]

OkOr(fault) == IF fault \in Faults THEN BOOLEAN ELSE {TRUE}

-----------------------------------------------------------------------------
(* Conversions                                                               *)

\* cap / (PS_DERATING_FACTOR / 100.0), rounded up (by adding 0.9) or truncated
RoundedUp_Truncated(watts) == (100 * watts) \div Derating

RoundedUp(watts) == (1000 * watts + 9 * Derating) \div (10 * Derating)

Truncated(watts) == (100 * watts) \div Derating

\* getOccInput: the cap in output power, or 0 to disable it
Derated(cap) == (cap * Derating) \div 100

GetOccInput_Negative(cap, enabled) == IF enabled THEN Derated(cap) ELSE -1

GetOccInput(cap, enabled) == IF enabled THEN Derated(cap) ELSE 0

\* The limits, in input power, of an OCC with these bounds
LimitsOf(b) == [softMin |-> RoundedUp(b.softMin), max |-> Truncated(b.max)]

InLimits(cap, l) == l.softMin <= cap /\ cap <= l.max

\* What pcapChanged makes of a power cap: a cap of 0 cannot be enabled.
TooLow(cap, enabled) ==
    cap \in 1 .. limits.softMin - 1 \/ (cap = 0 /\ enabled)

TooHigh_Never(cap) == FALSE

TooHigh(cap) == cap > limits.max

Clamped(cap, enabled) ==
    IF TooLow(cap, enabled) THEN limits.softMin
    ELSE IF TooHigh(cap) THEN limits.max
    ELSE cap

-----------------------------------------------------------------------------
(* The settings daemon and the OCC                                           *)

\* A write of PowerCap with rest the signals that are still to be handled: a
\* signal is sent if the value changes.
SetPowerCap(cap, rest) ==
    /\ settings' = [settings EXCEPT !.cap = cap]
    /\ signals' = IF cap = settings.cap THEN rest
                  ELSE Append(rest, [cap |-> cap])

\* utils::setProperty(PowerCap): it catches every exception, so that its caller
\* goes on in the same way when the write failed and nothing is signalled.
TrySetPowerCap(cap, rest, shown) ==
    IF shown THEN SetPowerCap(cap, rest)
    ELSE signals' = rest /\ UNCHANGED settings

Result(ok, shown) ==
    IF ~ ok THEN "failed" ELSE IF shown THEN "ok" ELSE "unshown"

\* writeOcc, whose file may be missing; result: what to say if it is found
WriteOcc(value, result) ==
    \E found \in OkOr("userFile") :
        /\ userCap' = IF found THEN value ELSE userCap
        /\ lastWrite' = IF found THEN result ELSE "failed"

-----------------------------------------------------------------------------
(* Actions                                                                   *)

\* The user writes one of the properties (external: the settings daemon).
UserWrites ==
    /\ Len(signals) < MaxSignals
    /\ \/ \E cap \in Caps \ {settings.cap} : SetPowerCap(cap, signals)
       \/ /\ settings' = [settings EXCEPT !.enabled = ~ @]
          /\ signals' = Append(signals, [enabled |-> ~ settings.enabled])
    /\ UNCHANGED <<limits, occVars>>

\* The properties as pcapChanged sees them: one in the signal, the other one
\* read from the settings daemon, or 0 and FALSE if that fails.
Changed_OnlyMessage(signal, ok) ==
    IF "cap" \in DOMAIN signal THEN [cap |-> signal.cap, enabled |-> FALSE]
    ELSE [cap |-> IF ok THEN settings.cap ELSE 0, enabled |-> signal.enabled]

Changed(signal, ok) ==
    IF "cap" \in DOMAIN signal
    THEN [cap |-> signal.cap, enabled |-> ok /\ settings.enabled]
    ELSE [cap |-> IF ok THEN settings.cap ELSE 0, enabled |-> signal.enabled]

\* pcapChanged
PcapChanged ==
    /\ signals # <<>>
    /\ \E ok \in OkOr("settings"), shown \in OkOr("setProperty") :
          LET new == Changed(Head(signals), ok)
              cap == Clamped(new.cap, new.enabled)
          IN /\ \/ /\ TooLow(new.cap, new.enabled) \/ TooHigh(new.cap)
                   /\ TrySetPowerCap(cap, Tail(signals), shown)
                \/ /\ ~ (TooLow(new.cap, new.enabled) \/ TooHigh(new.cap)) /\ shown
                   /\ signals' = Tail(signals) /\ UNCHANGED settings
             /\ IF linked /\ occActive
                THEN WriteOcc(GetOccInput(cap, new.enabled), Result(ok, shown))
                ELSE UNCHANGED <<userCap, lastWrite>>
    /\ UNCHANGED <<limits, linked, occActive, bounds>>

\* The limits that updatePcapBounds reads, any of which may be missing
ReadLimits(b) ==
    {[softMin |-> IF min THEN LimitsOf(b).softMin ELSE limits.softMin,
      max |-> IF max THEN LimitsOf(b).max ELSE limits.max] :
        min, max \in OkOr("limitFile")}

\* The check of the user's cap at the end of updatePcapBounds, with the limits
\* l and an OCC whose cap is now occCap: nothing is done,
NothingWritten(occCap, result) ==
    /\ userCap' = occCap /\ lastWrite' = result
    /\ UNCHANGED <<settings, signals>>

\* ... or the cap is brought within the limits and written to the OCC
CheckUserCap(l, occCap) ==
    LET cap == settings.cap
        newCap == IF cap < l.softMin THEN l.softMin ELSE l.max
        \* what readUserCapHwmon returns, 0 if the OCC has no cap
        hwmonUserCap == Truncated(occCap)
    IN \/ "settings" \in Faults /\ NothingWritten(occCap, "failed")
       \/ ~ settings.enabled /\ NothingWritten(occCap, "none")
       \/ cap = 0 /\ NothingWritten(occCap, "none")
       \/ /\ settings.enabled /\ cap # 0 /\ InLimits(cap, l)
          /\ \/ hwmonUserCap \in {0, cap} /\ NothingWritten(occCap, "none")
             \/ "userFile" \in Faults /\ NothingWritten(occCap, "failed")
             \/ /\ hwmonUserCap \notin {0, cap}
                /\ userCap' = Derated(cap) /\ lastWrite' = "ok"
                /\ UNCHANGED <<settings, signals>>
       \/ /\ settings.enabled /\ cap # 0 /\ ~ InLimits(cap, l)
          /\ \E shown \in OkOr("setProperty") :
                /\ TrySetPowerCap(newCap, signals, shown)
                /\ \/ /\ userCap' = Derated(newCap)
                      /\ lastWrite' = Result(TRUE, shown)
                   \/ /\ "userFile" \in Faults
                      /\ userCap' = occCap /\ lastWrite' = "failed"

\* The master OCC goes active: Manager::updatePcapBounds links it, and the
\* limits and the cap are brought up to date.  It may have been reset meanwhile,
\* and then has lost its cap.
MasterWentActive ==
    /\ ~ occActive
    /\ occActive' = TRUE /\ linked' = TRUE
    /\ \E b \in OccBounds, occCap \in {userCap, 0} :
          /\ bounds' = b
          /\ limits' \in ReadLimits(b)
          /\ CheckUserCap(limits', occCap)

MasterWentInactive ==
    /\ occActive
    /\ occActive' = FALSE
    /\ lastWrite' = "none"
    /\ UNCHANGED <<settings, signals, limits, linked, bounds, userCap>>

\* The program restarts and loads the limits, if it can; meanwhile nobody
\* receives the signals of the user's writes.
Restart ==
    /\ occActive' = FALSE /\ linked' = FALSE
    /\ lastWrite' = "none"
    /\ limits' \in {limits} \cup
                   (IF "persist" \in Faults THEN {DefaultLimits} ELSE {})
    /\ signals' = <<>>
    /\ settings' \in {settings} \cup [cap : Caps, enabled : BOOLEAN]
    /\ UNCHANGED <<bounds, userCap>>

-----------------------------------------------------------------------------

Init ==
    /\ settings \in [cap : Caps, enabled : BOOLEAN]
    /\ signals = <<>>
    /\ limits = DefaultLimits
    /\ linked = FALSE
    /\ occActive = FALSE
    /\ bounds \in OccBounds
    /\ userCap = 0
    /\ lastWrite = "none"

Next ==
    \/ UserWrites \/ PcapChanged
    \/ MasterWentActive \/ MasterWentInactive \/ Restart

Spec == Init /\ [][Next]_vars

\* The event loop handles the signals of the bus.
FairSpec == Spec /\ WF_vars(PcapChanged)

-----------------------------------------------------------------------------
(* Properties                                                                *)

\* Every variable has its type.
TypeOK ==
    /\ settings \in Settings
    /\ signals \in Seq(Signals)
    /\ limits \in Limits
    /\ linked \in BOOLEAN
    /\ occActive \in BOOLEAN
    /\ bounds \in OccBounds
    /\ userCap \in Nat
    /\ lastWrite \in {"none", "ok", "unshown", "failed"}

\* When no signal is pending, and no read and no file failed, the active OCC has
\* the cap that D-Bus shows, however writes, signals, activations and restarts
\* were interleaved (pcapChanged).  If D-Bus could not be told of the last one,
\* the OCC has that: the cap on D-Bus, brought within the limits.  If nothing was
\* written since it went active, a disabled cap, an OCC without any cap and the
\* rounding of its cap pass the check of updatePcapBounds.
CapIsEnforced ==
    occActive /\ signals = <<>> /\ lastWrite # "failed" =>
        \/ /\ lastWrite # "unshown"
           /\ userCap = GetOccInput(settings.cap, settings.enabled)
        \/ /\ lastWrite = "unshown"
           /\ userCap = GetOccInput(Clamped(settings.cap, settings.enabled),
                                    settings.enabled)
        \/ /\ lastWrite = "none"
           /\ \/ ~ settings.enabled
              \/ 0 \in {settings.cap, userCap}
              \/ Truncated(userCap) = settings.cap

\* A cap that is sent to the OCC whose limits are known is one that the OCC
\* accepts, after clamping in input power and conversion to output power.
SentIsAccepted ==
    [][ /\ userCap' \notin {userCap, 0}
        /\ limits' = LimitsOf(bounds')
        => bounds'.softMin <= userCap' /\ userCap' <= bounds'.max ]_vars

\* A cap that is enabled, of an active OCC, and not within the limits.  The write
\* that would bring it back is not tried again when it fails, as nobody sees that
\* (utils::setProperty): the cap on D-Bus then stays out of the limits until its
\* next change or the next activation, while the OCC has it within the limits.
OutOfLimits ==
    /\ occActive /\ lastWrite \notin {"failed", "unshown"}
    /\ settings.enabled /\ settings.cap # 0
    /\ ~ InLimits(settings.cap, limits)

\* A cap outside the limits is brought back, unless a read or a write fails: the
\* program's own writes do not chase each other for ever, although each of them
\* is signalled to the program.
RangeRestored == OutOfLimits ~> ~ OutOfLimits
===============================================================================
