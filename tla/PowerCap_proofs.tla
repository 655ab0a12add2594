----------------------------- MODULE PowerCap_proofs -----------------------------
(***************************************************************************)
(* Theorems about the power cap: types, and the arithmetic by which a cap  *)
(* that was clamped in input power is accepted in output power.            *)
(***************************************************************************)
EXTENDS PowerCap, TLAPS

\* A quotient of natural numbers is one, so that all conversions yield watts.
LEMMA QuotientIsNat ==
    ASSUME NEW x \in Nat, NEW y \in Nat \ {0}
    PROVE  x \div y \in Nat
  OBVIOUS

LEMMA CapsAreNat == Caps \subseteq Nat
  BY CapsAssumption, UintMaxAssumption

LEMMA ProductIsNat ==
    ASSUME NEW x \in Nat, NEW y \in Nat
    PROVE  x * y \in Nat
  OBVIOUS

LEMMA DeratedIsNat ==
    ASSUME NEW cap \in Nat
    PROVE  Derated(cap) \in Nat
  <1>1. cap * Derating \in Nat
    BY DeratingAssumption, ProductIsNat
  <1> QED
    BY <1>1, QuotientIsNat DEF Derated

LEMMA InputIsNat ==
    ASSUME NEW cap \in Nat, NEW enabled \in BOOLEAN
    PROVE  GetOccInput(cap, enabled) \in Nat
  BY DeratedIsNat DEF GetOccInput

LEMMA LimitsAreNat ==
    ASSUME NEW b \in OccBounds
    PROVE  LimitsOf(b) \in Limits
  <1>1. b.softMin \in Nat /\ b.max \in Nat
    BY BoundsAssumption
  <1>2. 10 * Derating \in Nat \ {0} /\ Derating \in Nat \ {0}
    BY DeratingAssumption
  <1>3. 1000 * b.softMin + 9 * Derating \in Nat /\ 100 * b.max \in Nat
    BY <1>1, <1>2
  <1>4. RoundedUp(b.softMin) \in Nat
    BY <1>2, <1>3, QuotientIsNat DEF RoundedUp
  <1>5. Truncated(b.max) \in Nat
    BY <1>2, <1>3, QuotientIsNat DEF Truncated
  <1> QED
    BY <1>4, <1>5 DEF LimitsOf, Limits

LEMMA ClampedIsNat ==
    ASSUME TypeOK, NEW cap \in Nat, NEW enabled \in BOOLEAN
    PROVE  Clamped(cap, enabled) \in Nat
  BY DEF Clamped, TypeOK, Limits

-----------------------------------------------------------------------------
(* Input and output power                                                    *)

\* With the default derating of 90 percent the soft minimum, rounded up to input
\* power, is at least the OCC's own minimum when it is converted back.
LEMMA MinRoundTrip ==
    ASSUME Derating = 90, NEW w \in Nat
    PROVE  w <= Derated(RoundedUp(w))
  <1> DEFINE up == (1000 * w + 810) \div 900
  <1>1. w <= (up * 90) \div 100
    OBVIOUS
  <1>2. RoundedUp(w) = up
    BY DEF RoundedUp
  <1>3. Derated(up) = (up * 90) \div 100
    BY DEF Derated
  <1> HIDE DEF up
  <1> QED
    BY <1>1, <1>2, <1>3

\* The maximum, truncated to input power, is at most the OCC's own maximum.
LEMMA MaxRoundTrip ==
    ASSUME Derating = 90, NEW w \in Nat
    PROVE  Derated(Truncated(w)) <= w
  <1>1. Derated(Truncated(w)) = (((100 * w) \div 90) * 90) \div 100
    BY DEF Derated, Truncated
  <1>2. (((100 * w) \div 90) * 90) \div 100 <= w
    OBVIOUS
  <1> QED
    BY <1>1, <1>2

\* Conversion keeps the order of caps.
LEMMA InputIsMonotone ==
    ASSUME Derating = 90, NEW a \in Nat, NEW b \in Nat, a <= b
    PROVE  Derated(a) <= Derated(b)
  <1>1. (a * 90) \div 100 <= (b * 90) \div 100
    OBVIOUS
  <1> QED
    BY <1>1 DEF Derated

\* So what is sent for a cap within the limits of an OCC is within its bounds.
LEMMA InLimitsIsAccepted ==
    ASSUME Derating = 90, NEW b \in OccBounds, NEW cap \in Nat,
           InLimits(cap, LimitsOf(b))
    PROVE  /\ b.softMin <= Derated(cap)
           /\ Derated(cap) <= b.max
  <1>1. /\ b.softMin \in Nat /\ b.max \in Nat
        /\ RoundedUp(b.softMin) \in Nat /\ Truncated(b.max) \in Nat
    BY BoundsAssumption, LimitsAreNat DEF LimitsOf, Limits
  <1>2. /\ Derated(cap) \in Nat
        /\ Derated(RoundedUp(b.softMin)) \in Nat
        /\ Derated(Truncated(b.max)) \in Nat
    BY <1>1, DeratedIsNat
  <1>3. RoundedUp(b.softMin) <= cap /\ cap <= Truncated(b.max)
    BY DEF InLimits, LimitsOf
  <1>4. Derated(RoundedUp(b.softMin)) <= Derated(cap)
    BY <1>1, <1>3, InputIsMonotone
  <1>5. Derated(cap) <= Derated(Truncated(b.max))
    BY <1>1, <1>3, InputIsMonotone
  <1>6. b.softMin <= Derated(RoundedUp(b.softMin))
    BY <1>1, MinRoundTrip
  <1>7. Derated(Truncated(b.max)) <= b.max
    BY <1>1, MaxRoundTrip
  <1> DEFINE low == Derated(RoundedUp(b.softMin))
             high == Derated(Truncated(b.max))
             sent == Derated(cap)
  <1>8. low \in Nat /\ high \in Nat /\ sent \in Nat
    BY <1>2
  <1>9. b.softMin <= low /\ low <= sent /\ sent <= high /\ high <= b.max
    BY <1>4, <1>5, <1>6, <1>7
  <1> HIDE DEF low, high, sent
  <1>10. b.softMin <= sent /\ sent <= b.max
    BY <1>1, <1>8, <1>9
  <1> QED
    BY <1>10 DEF sent

-----------------------------------------------------------------------------
(* Type correctness                                                          *)

\* A write to the settings daemon keeps the types.
LEMMA SetPowerCapType ==
    ASSUME TypeOK, NEW cap \in Nat, NEW rest \in Seq(Signals),
           SetPowerCap(cap, rest)
    PROVE  settings' \in Settings /\ signals' \in Seq(Signals)
  <1>1. settings' \in Settings
    BY DEF SetPowerCap, TypeOK, Settings
  <1>2. [cap |-> cap] \in Signals
    BY DEF Signals
  <1>3. signals' \in Seq(Signals)
    BY <1>2 DEF SetPowerCap
  <1> QED
    BY <1>1, <1>3

\* So does one that may fail.
LEMMA TrySetType ==
    ASSUME TypeOK, NEW cap \in Nat, NEW rest \in Seq(Signals), NEW shown \in BOOLEAN,
           TrySetPowerCap(cap, rest, shown)
    PROVE  settings' \in Settings /\ signals' \in Seq(Signals)
  BY SetPowerCapType DEF TrySetPowerCap, TypeOK

\* So does the check of the user's cap on activation.
LEMMA CheckUserCapType ==
    ASSUME TypeOK, NEW l \in Limits, NEW occCap \in Nat, CheckUserCap(l, occCap)
    PROVE  /\ settings' \in Settings /\ signals' \in Seq(Signals)
           /\ userCap' \in Nat /\ lastWrite' \in {"none", "ok", "unshown", "failed"}
  <1> DEFINE newCap == IF settings.cap < l.softMin THEN l.softMin ELSE l.max
  <1>1. newCap \in Nat /\ settings.cap \in Nat
    BY DEF Limits, TypeOK, Settings
  <1>2. Derated(newCap) \in Nat /\ Derated(settings.cap) \in Nat
    BY <1>1, DeratedIsNat
  <1>3. CASE \E result \in {"none", "failed"} : NothingWritten(occCap, result)
    BY <1>3 DEF NothingWritten, TypeOK
  <1>4. CASE /\ userCap' = Derated(settings.cap) /\ lastWrite' = "ok"
             /\ UNCHANGED <<settings, signals>>
    BY <1>2, <1>4 DEF TypeOK
  <1>5. ASSUME NEW shown \in BOOLEAN, TrySetPowerCap(newCap, signals, shown),
               \/ userCap' = Derated(newCap) /\ lastWrite' = Result(TRUE, shown)
               \/ userCap' = occCap /\ lastWrite' = "failed"
        PROVE  /\ settings' \in Settings /\ signals' \in Seq(Signals)
               /\ userCap' \in Nat
               /\ lastWrite' \in {"none", "ok", "unshown", "failed"}
    <2> HIDE DEF newCap
    <2>1. settings' \in Settings /\ signals' \in Seq(Signals)
      BY <1>1, <1>5, TrySetType DEF TypeOK
    <2>2. lastWrite' \in {"none", "ok", "unshown", "failed"}
      BY <1>5 DEF Result
    <2> QED
      BY <1>2, <1>5, <2>1, <2>2
  <1> QED
    BY <1>3, <1>4, <1>5 DEF CheckUserCap, OkOr

\* Every step keeps the types.
LEMMA StepType == TypeOK /\ [Next]_vars => TypeOK'
  <1> SUFFICES ASSUME TypeOK, [Next]_vars PROVE TypeOK'
    OBVIOUS
  <1>1. CASE UserWrites
    <2>1. settings' \in Settings /\ signals' \in Seq(Signals)
      <3>1. CASE \E cap \in Caps \ {settings.cap} : SetPowerCap(cap, signals)
        BY <3>1, CapsAreNat, SetPowerCapType DEF TypeOK
      <3>2. CASE /\ settings' = [settings EXCEPT !.enabled = ~ @]
                 /\ signals' = Append(signals, [enabled |-> ~ settings.enabled])
        <4>1. [enabled |-> ~ settings.enabled] \in Signals
          BY DEF Signals
        <4>2. signals' \in Seq(Signals)
          BY <3>2, <4>1 DEF TypeOK
        <4>3. settings' \in Settings
          BY <3>2 DEF TypeOK, Settings
        <4> QED
          BY <4>2, <4>3
      <3> QED
        BY <1>1, <3>1, <3>2 DEF UserWrites
    <2> QED
      BY <1>1, <2>1 DEF UserWrites, TypeOK, occVars
  <1>2. CASE PcapChanged
    <2> DEFINE new(ok) == Changed(Head(signals), ok)
               clamped(ok) == Clamped(new(ok).cap, new(ok).enabled)
    <2>1. Head(signals) \in Signals /\ Tail(signals) \in Seq(Signals)
      BY <1>2 DEF PcapChanged, TypeOK
    <2>2. PICK ok \in BOOLEAN, shown \in BOOLEAN :
            /\ \/ TrySetPowerCap(clamped(ok), Tail(signals), shown)
               \/ signals' = Tail(signals) /\ UNCHANGED settings
            /\ IF linked /\ occActive
               THEN WriteOcc(GetOccInput(clamped(ok), new(ok).enabled),
                             Result(ok, shown))
               ELSE UNCHANGED <<userCap, lastWrite>>
      BY <1>2 DEF PcapChanged, OkOr
    <2>3. new(ok).cap \in Nat /\ new(ok).enabled \in BOOLEAN
      BY <2>1 DEF Changed, Signals, TypeOK, Settings
    <2>4. clamped(ok) \in Nat
      BY <2>3, ClampedIsNat
    <2>5. GetOccInput(clamped(ok), new(ok).enabled) \in Nat
      BY <2>3, <2>4, InputIsNat
    <2>6. settings' \in Settings /\ signals' \in Seq(Signals)
      <3> HIDE DEF clamped, new
      <3> QED
        BY <2>1, <2>2, <2>4, TrySetType DEF TypeOK
    <2>7. userCap' \in Nat /\ lastWrite' \in {"none", "ok", "unshown", "failed"}
      <3> HIDE DEF clamped, new
      <3> QED
        BY <2>2, <2>5 DEF WriteOcc, Result, TypeOK
    <2> QED
      BY <1>2, <2>6, <2>7 DEF PcapChanged, TypeOK
  <1>3. CASE MasterWentActive
    <2>1. PICK b \in OccBounds, occCap \in {userCap, 0} :
            bounds' = b /\ limits' \in ReadLimits(b) /\ CheckUserCap(limits', occCap)
      BY <1>3 DEF MasterWentActive
    <2>2. limits' \in Limits
      BY <2>1, LimitsAreNat DEF ReadLimits, Limits, TypeOK
    <2>3. /\ settings' \in Settings /\ signals' \in Seq(Signals)
          /\ userCap' \in Nat /\ lastWrite' \in {"none", "ok", "unshown", "failed"}
      BY <2>1, <2>2, CheckUserCapType DEF TypeOK
    <2> QED
      BY <1>3, <2>1, <2>2, <2>3 DEF MasterWentActive, TypeOK
  <1>4. CASE MasterWentInactive
    BY <1>4 DEF MasterWentInactive, TypeOK
  <1>5. CASE Restart
    <2>1. DefaultLimits \in Limits
      BY UintMaxAssumption DEF DefaultLimits, Limits
    <2>2. settings' \in Settings
      <3>1. [cap : Caps, enabled : BOOLEAN] \subseteq Settings
        BY CapsAreNat DEF Settings
      <3> QED
        BY <1>5, <3>1 DEF Restart, TypeOK
    <2>3. signals' \in Seq(Signals)
      BY <1>5 DEF Restart
    <2> QED
      BY <1>5, <2>1, <2>2, <2>3 DEF Restart, TypeOK
  <1>6. CASE UNCHANGED vars
    BY <1>6 DEF TypeOK, vars, occVars
  <1> QED
    BY <1>1, <1>2, <1>3, <1>4, <1>5, <1>6 DEF Next

LEMMA TypeCorrectInit == Init => TypeOK
  <1> SUFFICES ASSUME Init PROVE TypeOK
    OBVIOUS
  <1>1. settings \in Settings
    BY CapsAreNat DEF Init, Settings
  <1>2. signals \in Seq(Signals)
    BY DEF Init
  <1>3. limits \in Limits
    BY UintMaxAssumption DEF Init, Limits, DefaultLimits
  <1> QED
    BY <1>1, <1>2, <1>3 DEF Init, TypeOK

\* Every variable of the power cap keeps its type, whatever the OCC reports and
\* the user sets.
THEOREM TypeCorrect == Spec => []TypeOK
  BY TypeCorrectInit, StepType, PTL DEF Spec

-----------------------------------------------------------------------------
(* What is sent to the OCC                                                   *)

LimitsOrdered ==
    \A b \in OccBounds : LimitsOf(b).softMin <= LimitsOf(b).max

\* A step sends the OCC a cap within the limits, or none.
LEMMA StepSends ==
    ASSUME TypeOK, [Next]_vars, userCap' \notin {userCap, 0},
           limits'.softMin <= limits'.max
    PROVE  \E cap \in Nat : /\ InLimits(cap, limits')
                            /\ userCap' = Derated(cap)
  <1>1. CASE PcapChanged
    <2> DEFINE new(ok) == Changed(Head(signals), ok)
               clamped(ok) == Clamped(new(ok).cap, new(ok).enabled)
    <2>1. PICK ok \in BOOLEAN, result \in {"ok", "unshown", "failed"} :
             WriteOcc(GetOccInput(clamped(ok), new(ok).enabled), result)
      BY <1>1 DEF PcapChanged, OkOr, Result
    <2>2. new(ok).cap \in Nat /\ new(ok).enabled \in BOOLEAN
      BY <1>1 DEF PcapChanged, Changed, Signals, TypeOK, Settings
    <2>3. clamped(ok) \in Nat
      BY <2>2, ClampedIsNat
    <2>4. userCap' = GetOccInput(clamped(ok), new(ok).enabled)
      <3> HIDE DEF clamped, new
      <3> QED
        BY <2>1 DEF WriteOcc
    <2>5. new(ok).enabled = TRUE
      <3> HIDE DEF clamped, new
      <3> QED
        BY <2>2, <2>4 DEF GetOccInput
    <2>6. limits' = limits
      BY <1>1 DEF PcapChanged
    <2>7. InLimits(clamped(ok), limits')
      <3> HIDE DEF new
      <3> QED
        BY <2>2, <2>5, <2>6 DEF Clamped, TooLow, TooHigh, InLimits, TypeOK, Limits
    <2> QED
      <3> HIDE DEF clamped, new
      <3> QED
        BY <2>3, <2>4, <2>5, <2>7 DEF GetOccInput
  <1>2. CASE MasterWentActive
    <2>1. PICK b \in OccBounds, occCap \in {userCap, 0} :
            limits' \in ReadLimits(b) /\ CheckUserCap(limits', occCap)
      BY <1>2 DEF MasterWentActive
    <2>2. limits' \in Limits
      BY <2>1, LimitsAreNat DEF ReadLimits, Limits, TypeOK
    <2> DEFINE newCap == IF settings.cap < limits'.softMin THEN limits'.softMin
                         ELSE limits'.max
    <2>3. newCap \in Nat /\ settings.cap \in Nat /\ InLimits(newCap, limits')
      BY <2>2 DEF TypeOK, Settings, Limits, InLimits
    <2>4. \/ userCap' = occCap
          \/ userCap' = Derated(newCap)
          \/ /\ InLimits(settings.cap, limits')
             /\ userCap' = Derated(settings.cap)
      BY <2>1 DEF CheckUserCap, NothingWritten
    <2> HIDE DEF newCap
    <2> QED
      BY <2>1, <2>3, <2>4
  <1>3. CASE UserWrites \/ MasterWentInactive \/ Restart \/ UNCHANGED vars
    BY <1>3 DEF UserWrites, MasterWentInactive, Restart, vars, occVars
  <1> QED
    BY <1>1, <1>2, <1>3 DEF Next

\* With the default derating, and for all bounds that an OCC may report whose
\* limits in input power are in order, a cap that is sent to the OCC whose
\* limits are known lies within the bounds of that OCC.
THEOREM SentAccepted ==
    ASSUME Derating = 90, LimitsOrdered
    PROVE  Spec => SentIsAccepted
  <1> DEFINE Sends == /\ userCap' \notin {userCap, 0}
                      /\ limits' = LimitsOf(bounds')
             Accepted == bounds'.softMin <= userCap' /\ userCap' <= bounds'.max
  <1>1. TypeOK /\ [Next]_vars => [Sends => Accepted]_vars
    <2> SUFFICES ASSUME TypeOK, [Next]_vars, Sends PROVE Accepted
      OBVIOUS
    <2>1. bounds' \in OccBounds
      BY StepType DEF TypeOK
    <2>2. limits'.softMin <= limits'.max
      BY <2>1 DEF LimitsOrdered
    <2>3. PICK cap \in Nat : /\ InLimits(cap, limits')
                             /\ userCap' = Derated(cap)
      BY <2>2, StepSends
    <2> QED
      BY <2>1, <2>3, InLimitsIsAccepted
  <1> QED
    BY <1>1, TypeCorrect, PTL DEF Spec, SentIsAccepted
-----------------------------------------------------------------------------
(* The cap that the OCC has                                                  *)

\* What a signal says of the properties is what they are.
Says(signal, s) ==
    IF "cap" \in DOMAIN signal THEN signal.cap = s.cap
    ELSE signal.enabled = s.enabled

\* The last signal that awaits its handler says what D-Bus shows: an earlier
\* one may be out of date, and its handler is told the other property only.
LastSays == signals # <<>> => Says(signals[Len(signals)], settings)

\* An OCC that is active has been linked by its activation.
ActiveIsLinked == occActive => linked

Enforced == TypeOK /\ LastSays /\ ActiveIsLinked /\ CapIsEnforced

\* Handling the first of several signals leaves the last one.
LEMMA TailSays ==
    ASSUME TypeOK, LastSays, signals # <<>>, Tail(signals) # <<>>
    PROVE  Says(Tail(signals)[Len(Tail(signals))], settings)
  <1>1. /\ signals \in Seq(Signals) /\ Len(signals) \in Nat
        /\ Len(Tail(signals)) = Len(signals) - 1 /\ Tail(signals) \in Seq(Signals)
    BY DEF TypeOK
  <1>2. Len(Tail(signals)) > 0
    BY <1>1
  <1>3. Tail(signals)[Len(signals) - 1] = signals[Len(signals)]
    BY <1>1, <1>2
  <1> QED
    BY <1>1, <1>3 DEF LastSays

\* A write of the cap is signalled, or it changes nothing.
LEMMA SetPowerCapSays ==
    ASSUME TypeOK, NEW cap \in Nat, NEW rest \in Seq(Signals),
           rest # <<>> => Says(rest[Len(rest)], settings), SetPowerCap(cap, rest)
    PROVE  /\ LastSays'
           /\ settings'.cap = cap /\ settings'.enabled = settings.enabled
           /\ signals' = <<>> => rest = <<>>
  <1>1. settings'.cap = cap /\ settings'.enabled = settings.enabled
    BY DEF SetPowerCap, TypeOK, Settings
  <1>2. CASE cap = settings.cap
    <2>1. signals' = rest
      BY <1>2 DEF SetPowerCap
    <2>2. LastSays'
      BY <1>1, <1>2, <2>1 DEF LastSays, Says
    <2> QED
      BY <1>1, <2>1, <2>2
  <1>3. CASE cap # settings.cap
    <2> DEFINE signal == [cap |-> cap]
    <2>1. signals' = Append(rest, signal)
      BY <1>3 DEF SetPowerCap
    <2>2. signal \in Signals /\ "cap" \in DOMAIN signal /\ signal.cap = cap
      BY DEF Signals
    <2> HIDE DEF signal
    <2>3. signals'[Len(signals')] = signal /\ Len(signals') > 0
      BY <2>1, <2>2
    <2>4. signals' # <<>>
      BY <2>3
    <2>5. LastSays'
      BY <1>1, <2>2, <2>3 DEF LastSays, Says
    <2> QED
      BY <1>1, <2>4, <2>5
  <1> QED
    BY <1>2, <1>3

\* So with one that may fail; without the signal, D-Bus keeps the cap it shows.
LEMMA TrySetSays ==
    ASSUME TypeOK, NEW cap \in Nat, NEW rest \in Seq(Signals), NEW shown \in BOOLEAN,
           rest # <<>> => Says(rest[Len(rest)], settings),
           TrySetPowerCap(cap, rest, shown)
    PROVE  /\ LastSays'
           /\ settings'.cap = IF shown THEN cap ELSE settings.cap
           /\ settings'.enabled = settings.enabled
           /\ signals' = <<>> => rest = <<>>
  <1>1. CASE shown
    BY <1>1, SetPowerCapSays DEF TrySetPowerCap
  <1>2. CASE ~ shown
    BY <1>2 DEF TrySetPowerCap, LastSays
  <1> QED
    BY <1>1, <1>2

\* The handler of the last signal sends the OCC what D-Bus shows then: one of the
\* properties is in the signal, the other one is read, or the write has failed.
LEMMA ChangedIsShown ==
    ASSUME TypeOK, LastSays, signals # <<>>, Tail(signals) = <<>>
    PROVE  Changed(Head(signals), TRUE) = settings
  <1>1. /\ signals \in Seq(Signals) /\ Len(signals) \in Nat
        /\ Len(Tail(signals)) = Len(signals) - 1
    BY DEF TypeOK
  <1>2. Head(signals) = signals[Len(signals)] /\ Head(signals) \in Signals
    <2>1. ~ (Len(<<>>) > 0)
      OBVIOUS
    <2>2. ~ (Len(Tail(signals)) > 0)
      BY <2>1, Zenon
    <2>3. Len(signals) = 1
      BY <1>1, <2>2
    <2> QED
      BY <1>1, <2>3
  <1>3. Says(Head(signals), settings)
    BY <1>2 DEF LastSays
  <1>4. settings = [cap |-> settings.cap, enabled |-> settings.enabled]
    BY DEF TypeOK, Settings
  <1>5. settings.enabled \in BOOLEAN
    BY DEF TypeOK, Settings
  <1>6. CASE "cap" \in DOMAIN Head(signals)
    BY <1>3, <1>4, <1>5, <1>6 DEF Says, Changed
  <1>7. CASE "cap" \notin DOMAIN Head(signals)
    BY <1>3, <1>4, <1>5, <1>7 DEF Says, Changed
  <1> QED
    BY <1>6, <1>7

LEMMA PcapChangedEnforces ==
    ASSUME Enforced, PcapChanged
    PROVE  LastSays' /\ CapIsEnforced'
  <1> USE DEF Enforced
  <1> DEFINE new(ok) == Changed(Head(signals), ok)
             clamped(ok) == Clamped(new(ok).cap, new(ok).enabled)
  <1>1. /\ signals # <<>> /\ Head(signals) \in Signals
        /\ Tail(signals) \in Seq(Signals) /\ UNCHANGED <<linked, occActive>>
    BY DEF PcapChanged, TypeOK
  <1>2. PICK ok \in BOOLEAN, shown \in BOOLEAN :
          /\ \/ /\ TooLow(new(ok).cap, new(ok).enabled) \/ TooHigh(new(ok).cap)
                /\ TrySetPowerCap(clamped(ok), Tail(signals), shown)
             \/ /\ ~ (TooLow(new(ok).cap, new(ok).enabled) \/ TooHigh(new(ok).cap))
                /\ shown
                /\ signals' = Tail(signals) /\ UNCHANGED settings
          /\ IF linked /\ occActive
             THEN WriteOcc(GetOccInput(clamped(ok), new(ok).enabled),
                           Result(ok, shown))
             ELSE UNCHANGED <<userCap, lastWrite>>
    BY DEF PcapChanged, OkOr
  <1>3. new(ok).cap \in Nat /\ new(ok).enabled \in BOOLEAN
    BY <1>1 DEF Changed, Signals, TypeOK, Settings
  <1>4. clamped(ok) \in Nat
    BY <1>3, ClampedIsNat
  <1>5. Tail(signals) # <<>> => Says(Tail(signals)[Len(Tail(signals))], settings)
    BY <1>1, TailSays
  <1>6. ASSUME occActive', Tail(signals) = <<>>, lastWrite' # "failed"
        PROVE  /\ ok /\ new(ok) = settings
               /\ lastWrite' = IF shown THEN "ok" ELSE "unshown"
               /\ userCap' = GetOccInput(clamped(ok), settings.enabled)
    <2>1. WriteOcc(GetOccInput(clamped(ok), new(ok).enabled), Result(ok, shown))
      BY <1>1, <1>2, <1>6 DEF ActiveIsLinked
    <2> HIDE DEF clamped
    <2>2. /\ userCap' = GetOccInput(clamped(ok), new(ok).enabled)
          /\ lastWrite' = Result(ok, shown)
      BY <1>6, <2>1 DEF WriteOcc
    <2>3. ok /\ lastWrite' = IF shown THEN "ok" ELSE "unshown"
      BY <1>6, <2>2 DEF Result
    <2>4. new(ok) = settings
      BY <1>1, <1>6, <2>3, ChangedIsShown
    <2> HIDE DEF new
    <2> QED
      BY <2>2, <2>3, <2>4
  <1>7. CASE TooLow(new(ok).cap, new(ok).enabled) \/ TooHigh(new(ok).cap)
    <2>1. TrySetPowerCap(clamped(ok), Tail(signals), shown)
      BY <1>2, <1>7
    <2>2. /\ LastSays'
          /\ settings'.cap = IF shown THEN clamped(ok) ELSE settings.cap
          /\ settings'.enabled = settings.enabled
          /\ signals' = <<>> => Tail(signals) = <<>>
      <3> HIDE DEF clamped
      <3> QED
        BY <1>1, <1>4, <1>5, <2>1, TrySetSays
    <2>3. ASSUME occActive', signals' = <<>>, lastWrite' # "failed"
          PROVE  IF shown
                 THEN /\ lastWrite' = "ok"
                      /\ userCap' = GetOccInput(settings'.cap, settings'.enabled)
                 ELSE /\ lastWrite' = "unshown"
                      /\ userCap' = GetOccInput(
                             Clamped(settings.cap, settings.enabled)',
                             settings'.enabled)
      <3>1. /\ new(ok) = settings
            /\ lastWrite' = IF shown THEN "ok" ELSE "unshown"
            /\ userCap' = GetOccInput(clamped(ok), settings.enabled)
        BY <1>6, <2>2, <2>3
      <3>2. clamped(ok) = Clamped(settings.cap, settings.enabled)
        BY <3>1
      <3>3. limits' = limits
        BY DEF PcapChanged
      <3>4. ASSUME ~ shown
            PROVE  Clamped(settings.cap, settings.enabled)' = clamped(ok)
        <4>1. settings'.cap = settings.cap /\ settings'.enabled = settings.enabled
          BY <2>2, <3>4
        <4> QED
          BY <3>2, <3>3, <4>1 DEF Clamped, TooLow, TooHigh
      <3> HIDE DEF clamped
      <3> QED
        BY <2>2, <3>1, <3>4
    <2> QED
      BY <2>2, <2>3 DEF CapIsEnforced
  <1>8. CASE ~ (TooLow(new(ok).cap, new(ok).enabled) \/ TooHigh(new(ok).cap))
    <2>1. shown /\ signals' = Tail(signals) /\ UNCHANGED settings
      BY <1>2, <1>8
    <2>2. clamped(ok) = new(ok).cap
      BY <1>8 DEF Clamped
    <2> HIDE DEF clamped, new
    <2>3. LastSays'
      BY <1>5, <2>1 DEF LastSays
    <2>4. ASSUME occActive', signals' = <<>>, lastWrite' # "failed"
          PROVE  /\ lastWrite' = "ok"
                 /\ userCap' = GetOccInput(settings'.cap, settings'.enabled)
      BY <1>6, <2>1, <2>2, <2>4
    <2> QED
      BY <2>3, <2>4 DEF CapIsEnforced
  <1> QED
    BY <1>7, <1>8

\* A cap that reads as 0 in input power is no cap: the derating is a percentage.
LEMMA TruncatedZero ==
    ASSUME NEW w \in Nat, Truncated(w) = 0
    PROVE  w = 0
  <1>1. \A n \in Nat, d \in 1 .. 100 : (100 * n) \div d = 0 => n = 0
    OBVIOUS
  <1> QED
    BY <1>1, DeratingAssumption DEF Truncated

LEMMA WentActiveEnforces ==
    ASSUME Enforced, MasterWentActive
    PROVE  LastSays' /\ CapIsEnforced'
  <1> USE DEF Enforced
  <1>1. PICK b \in OccBounds, occCap \in {userCap, 0} :
          limits' \in ReadLimits(b) /\ CheckUserCap(limits', occCap)
    BY DEF MasterWentActive
  <1>2. limits' \in Limits /\ occCap \in Nat
    BY <1>1, LimitsAreNat DEF ReadLimits, Limits, TypeOK
  <1> DEFINE newCap == IF settings.cap < limits'.softMin THEN limits'.softMin
                       ELSE limits'.max
  <1>3. newCap \in Nat /\ settings.cap \in Nat /\ settings.enabled \in BOOLEAN
    BY <1>2 DEF TypeOK, Settings, Limits
  <1>4. CASE NothingWritten(occCap, "failed")
    BY <1>4 DEF NothingWritten, LastSays, CapIsEnforced
  <1>5. CASE /\ NothingWritten(occCap, "none")
             /\ \/ ~ settings.enabled
                \/ settings.cap = 0
                \/ Truncated(occCap) \in {0, settings.cap}
    <2>1. /\ userCap' = occCap /\ lastWrite' = "none"
          /\ UNCHANGED <<settings, signals>>
      BY <1>5 DEF NothingWritten
    <2>2. \/ ~ settings.enabled
          \/ settings.cap = 0
          \/ occCap = 0
          \/ Truncated(occCap) = settings.cap
      BY <1>2, <1>5, TruncatedZero
    <2> QED
      BY <2>1, <2>2 DEF LastSays, CapIsEnforced
  <1>6. CASE /\ settings.enabled
             /\ userCap' = Derated(settings.cap) /\ lastWrite' = "ok"
             /\ UNCHANGED <<settings, signals>>
    BY <1>6 DEF LastSays, CapIsEnforced, GetOccInput
  <1>7. ASSUME settings.enabled, settings.cap # 0, ~ InLimits(settings.cap, limits'),
               NEW shown \in BOOLEAN, TrySetPowerCap(newCap, signals, shown),
               \/ userCap' = Derated(newCap) /\ lastWrite' = Result(TRUE, shown)
               \/ userCap' = occCap /\ lastWrite' = "failed"
        PROVE  LastSays' /\ CapIsEnforced'
    <2>1. /\ LastSays'
          /\ settings'.cap = IF shown THEN newCap ELSE settings.cap
          /\ settings'.enabled = settings.enabled
      <3> HIDE DEF newCap
      <3> QED
        BY <1>3, <1>7, TrySetSays DEF LastSays, TypeOK
    <2>2. CASE lastWrite' = "failed"
      BY <2>1, <2>2 DEF CapIsEnforced
    <2>3. CASE lastWrite' # "failed" /\ shown
      <3> HIDE DEF newCap
      <3>1. userCap' = Derated(newCap) /\ lastWrite' = "ok"
        BY <1>7, <2>3 DEF Result
      <3> QED
        BY <1>7, <2>1, <2>3, <3>1 DEF CapIsEnforced, GetOccInput
    <2>4. CASE lastWrite' # "failed" /\ ~ shown
      <3>1. userCap' = Derated(newCap) /\ lastWrite' = "unshown"
        <4> HIDE DEF newCap
        <4> QED
          BY <1>7, <2>4 DEF Result
      <3>2. Clamped(settings.cap, settings.enabled)' = newCap
        <4>1. settings'.cap = settings.cap /\ settings'.enabled
          BY <1>7, <2>1, <2>4
        <4> QED
          BY <1>2, <1>3, <1>7, <4>1
          DEF Clamped, TooLow, TooHigh, InLimits, Limits
      <3> HIDE DEF newCap
      <3> QED
        BY <1>7, <2>1, <3>1, <3>2 DEF CapIsEnforced, GetOccInput
    <2> QED
      BY <2>2, <2>3, <2>4
  <1> QED
    BY <1>1, <1>4, <1>5, <1>6, <1>7 DEF CheckUserCap, OkOr

\* The other steps leave no OCC active, or a signal under way.
LEMMA StepEnforces == Enforced /\ [Next]_vars => Enforced'
  <1> SUFFICES ASSUME Enforced, [Next]_vars PROVE Enforced'
    OBVIOUS
  <1>1. TypeOK'
    BY StepType DEF Enforced
  <1>2. ActiveIsLinked'
    BY DEF Enforced, ActiveIsLinked, Next, vars, occVars, UserWrites,
           PcapChanged, MasterWentActive, MasterWentInactive, Restart
  <1>3. LastSays' /\ CapIsEnforced'
    <2> USE DEF Enforced
    <2>1. CASE UserWrites
      <3>1. CASE \E cap \in Caps \ {settings.cap} : SetPowerCap(cap, signals)
        <4>1. PICK cap \in Nat \ {settings.cap} : SetPowerCap(cap, signals)
          BY <3>1, CapsAreNat
        <4>2. LastSays'
          BY <4>1, SetPowerCapSays DEF LastSays, TypeOK
        <4>3. signals' = Append(signals, [cap |-> cap])
          BY <4>1 DEF SetPowerCap
        <4>4. Len(signals') > 0
          BY <4>3 DEF TypeOK
        <4>5. signals' # <<>>
          BY <4>4
        <4> QED
          BY <4>2, <4>5 DEF CapIsEnforced
      <3>2. CASE /\ settings' = [settings EXCEPT !.enabled = ~ @]
                 /\ signals' = Append(signals, [enabled |-> ~ settings.enabled])
        <4> DEFINE signal == [enabled |-> ~ settings.enabled]
        <4>1. /\ signal \in Signals /\ "cap" \notin DOMAIN signal
              /\ signal.enabled = settings'.enabled
          BY <3>2 DEF Signals, TypeOK, Settings
        <4> HIDE DEF signal
        <4>2. signals'[Len(signals')] = signal /\ Len(signals') > 0
          BY <3>2, <4>1 DEF TypeOK, signal
        <4>3. signals' # <<>>
          BY <4>2
        <4> QED
          BY <4>1, <4>2, <4>3 DEF LastSays, Says, CapIsEnforced
      <3> QED
        BY <2>1, <3>1, <3>2 DEF UserWrites
    <2>2. CASE PcapChanged
      BY <2>2, PcapChangedEnforces
    <2>3. CASE MasterWentActive
      BY <2>3, WentActiveEnforces
    <2>4. CASE MasterWentInactive
      BY <2>4 DEF MasterWentInactive, LastSays, CapIsEnforced
    <2>5. CASE Restart
      BY <2>5 DEF Restart, LastSays, CapIsEnforced
    <2>6. CASE UNCHANGED vars
      BY <2>6 DEF vars, occVars, LastSays, CapIsEnforced, Clamped, TooLow, TooHigh
    <2> QED
      BY <2>1, <2>2, <2>3, <2>4, <2>5, <2>6 DEF Next
  <1> QED
    BY <1>1, <1>2, <1>3 DEF Enforced

\* With no signal pending, and no read and no file failed, the active OCC has the
\* cap that D-Bus shows, or, when D-Bus could not be told of it, that cap brought
\* within the limits: for every cap, derating and bounds, and any number of
\* writes of the user under way (pcapChanged, updatePcapBounds, setProperty).
THEOREM CapEnforced == Spec => []CapIsEnforced
  <1>1. Init => Enforced
    BY TypeCorrectInit DEF Init, Enforced, LastSays, ActiveIsLinked, CapIsEnforced
  <1>2. Enforced => CapIsEnforced
    BY DEF Enforced
  <1> QED
    BY <1>1, <1>2, StepEnforces, PTL DEF Spec
===============================================================================
