---------------------------- MODULE PowerMode_proofs ----------------------------
(***************************************************************************)
(* Theorems about the power mode and the IPS parameters: what is persisted *)
(* is what D-Bus shows and what the master OCC has, through every handler, *)
(* refused command and restart, for every default and every bound.         *)
(*                                                                         *)
(* The operations of PowerMode map one state of the object to another.     *)
(* The lemmas relate the two: Keeps holds of every operation, Steady of    *)
(* those that leave the mode alone, and Calm of those that leave alone     *)
(* what the master OCC has as well.                                        *)
(***************************************************************************)
EXTENDS PowerMode, TLAPS

(***************************************************************************)
(* What holds of the object                                                *)
(***************************************************************************)

\* A mode that is initialized is one of the modes, and is in the file.
Sane(s) ==
    /\ s \in Objects
    /\ s.data.modeInit => s.data.mode \in Modes /\ s.file = s.data
    /\ s.file.modeInit => s.file.mode \in Modes

IpsShown(s) ==
    (s.ipsObject /\ s.data.ipsInit /\ ~s.notRestored) => s.dbusIps = s.data.ips

\* The IPS object exists exactly in the modes that allow it.
IpsAllowed(s) == s.ipsObject = ~Eco(s.data.mode)

ModeShown(s) ==
    HasValidMode(s) => s.dbusMode = DbusModeOf(s, s.data.mode) /\ IpsAllowed(s)

\* A master OCC is active only if its mode could be sent.
MasterHasMode(s) == s.masterActive => s.masterSet /\ HasValidMode(s)

ModeGiven(s) == (s.masterActive /\ ~s.modeFailed) => s.occMode = s.data.mode

\* What the master OCC has is what is persisted, or what is built in.
GoodIps(s) ==
    /\ s.occIps.enter <= s.occIps.exit
    /\ s.occIps = FallbackIps \/ (s.data.ipsInit /\ s.occIps = s.data.ips)

\* ... or is still to be sent, once the mode can be.
IpsGiven(s) ==
    (s.masterActive /\ s.ipsObject /\ ~s.ipsFailed)
        => GoodIps(s) \/ (s.needToSendIpsData /\ s.modeFailed)

\* In the middle of sendModeChange the parameters may still have to be sent.
IpsPending(s) ==
    (s.masterActive /\ s.ipsObject /\ ~s.ipsFailed)
        => GoodIps(s) \/ s.needToSendIpsData

\* What every operation keeps
Keeps(s, t) ==
    /\ t.customer = s.customer /\ t.masterSet = s.masterSet
    /\ t.masterActive = s.masterActive /\ t.data.locked = s.data.locked
    /\ IpsShown(s) => IpsShown(t)

\* ... and those that do not change the mode
Steady(s, t) ==
    /\ Keeps(s, t)
    /\ t.data.modeInit = s.data.modeInit /\ t.data.mode = s.data.mode
    /\ t.dbusMode = s.dbusMode /\ t.ipsObject = s.ipsObject
    /\ t.occMode = s.occMode /\ t.modeFailed = s.modeFailed

\* ... and those that send nothing either
Calm(s, t) ==
    /\ Steady(s, t)
    /\ t.needToSendIpsData = s.needToSendIpsData
    /\ t.occIps = s.occIps /\ t.ipsFailed = s.ipsFailed
    /\ GoodIps(s) => GoodIps(t)

LEMMA CalmSelf == \A s : Calm(s, s)
BY DEF Calm, Steady, Keeps

LEMMA CalmTrans ==
    ASSUME NEW s, NEW t, NEW u, Calm(s, t), Calm(t, u)
    PROVE  Calm(s, u)
BY DEF Calm, Steady, Keeps

LEMMA SteadyTrans ==
    ASSUME NEW s, NEW t, NEW u, Steady(s, t), Steady(t, u)
    PROVE  Steady(s, u)
BY DEF Steady, Keeps

LEMMA KeepsTrans ==
    ASSUME NEW s, NEW t, NEW u, Keeps(s, t), Keeps(t, u)
    PROVE  Keeps(s, u)
BY DEF Keeps

(***************************************************************************)
(* OccPersistData and the IPS object                                       *)
(***************************************************************************)

\* Updates of the persistent data: everything else is left alone.
LEMMA UpdateModeIs ==
    ASSUME NEW s, Sane(s), NEW mode \in Modes
    PROVE  LET t == UpdateMode(s, mode)
           IN /\ Sane(t) /\ Keeps(s, t)
              /\ t.data.modeInit /\ t.data.mode = mode
              /\ t.data.ips = s.data.ips /\ t.data.ipsInit = s.data.ipsInit
              /\ t.dbusMode = s.dbusMode /\ t.ipsObject = s.ipsObject
              /\ t.occMode = s.occMode /\ t.modeFailed = s.modeFailed
              /\ t.needToSendIpsData = s.needToSendIpsData
              /\ t.occIps = s.occIps /\ t.ipsFailed = s.ipsFailed
<1> DEFINE d == [s.data EXCEPT !.modeInit = TRUE, !.mode = mode]
           t == [s EXCEPT !.data = d, !.file = d]
<1>1. s \in Objects /\ s.data \in Data
  BY DEF Sane, Objects
<1>2. /\ d \in Data /\ d.modeInit /\ d.mode = mode
      /\ d.ips = s.data.ips /\ d.ipsInit = s.data.ipsInit
      /\ d.locked = s.data.locked
  BY <1>1 DEF Data
<1>3. UpdateMode(s, mode) = t
  BY <1>1 DEF UpdateMode, Save, Objects, Data
<1> HIDE DEF d
<1>4. /\ t \in Objects /\ t.data = d /\ t.file = d
      /\ t.customer = s.customer /\ t.masterSet = s.masterSet
      /\ t.masterActive = s.masterActive /\ t.dbusIps = s.dbusIps
      /\ t.notRestored = s.notRestored
      /\ t.dbusMode = s.dbusMode /\ t.ipsObject = s.ipsObject
      /\ t.occMode = s.occMode /\ t.modeFailed = s.modeFailed
      /\ t.needToSendIpsData = s.needToSendIpsData
      /\ t.occIps = s.occIps /\ t.ipsFailed = s.ipsFailed
  BY <1>1, <1>2 DEF Objects
<1> HIDE DEF t
<1>5. QED
  BY <1>2, <1>3, <1>4 DEF Sane, Keeps, IpsShown

\* New parameters are persisted and shown.
LEMMA TellIPS ==
    ASSUME NEW s, Sane(s), NEW ips \in IpsParms
    PROVE  LET t == UpdateDbusIPS(UpdateIPS(s, ips), ips)
           IN /\ Sane(t) /\ Steady(s, t) /\ IpsShown(t)
              /\ t.data.ips = ips /\ t.data.ipsInit
              /\ t.needToSendIpsData = s.needToSendIpsData
              /\ t.occIps = s.occIps /\ t.ipsFailed = s.ipsFailed
<1> DEFINE d == [s.data EXCEPT !.ipsInit = TRUE, !.ips = ips]
           u == [s EXCEPT !.data = d, !.file = d]
           t == UpdateDbusIPS(u, ips)
<1>1. s \in Objects /\ s.data \in Data
  BY DEF Sane, Objects
<1>2. /\ d \in Data /\ d.ipsInit /\ d.ips = ips
      /\ d.modeInit = s.data.modeInit /\ d.mode = s.data.mode
      /\ d.locked = s.data.locked
  BY <1>1 DEF Data
<1>3. UpdateIPS(s, ips) = u
  BY <1>1 DEF UpdateIPS, Save, Objects, Data
<1> HIDE DEF d
<1>4. /\ u \in Objects /\ u.data = d /\ u.file = d
      /\ u.customer = s.customer /\ u.masterSet = s.masterSet
      /\ u.masterActive = s.masterActive
      /\ u.dbusMode = s.dbusMode /\ u.ipsObject = s.ipsObject
      /\ u.occMode = s.occMode /\ u.modeFailed = s.modeFailed
      /\ u.needToSendIpsData = s.needToSendIpsData
      /\ u.occIps = s.occIps /\ u.ipsFailed = s.ipsFailed
  BY <1>1, <1>2 DEF Objects
<1> HIDE DEF u
<1>5. /\ t \in Objects /\ t.data = d /\ t.file = d
      /\ t.customer = u.customer /\ t.masterSet = u.masterSet
      /\ t.masterActive = u.masterActive
      /\ t.dbusMode = u.dbusMode /\ t.ipsObject = u.ipsObject
      /\ t.occMode = u.occMode /\ t.modeFailed = u.modeFailed
      /\ t.needToSendIpsData = u.needToSendIpsData
      /\ t.occIps = u.occIps /\ t.ipsFailed = u.ipsFailed
      /\ t.ipsObject => t.dbusIps = ips
  <2>1. CASE u.ipsObject
    <3>1. t = [u EXCEPT !.dbusIps = ips, !.notRestored = FALSE]
      BY <2>1 DEF UpdateDbusIPS
    <3> HIDE DEF t
    <3>2. QED
      BY <1>4, <3>1 DEF Objects
  <2>2. CASE ~u.ipsObject
    <3>1. t = u
      BY <2>2 DEF UpdateDbusIPS
    <3> HIDE DEF t
    <3>2. QED
      BY <1>4, <2>2, <3>1
  <2>3. QED
    BY <2>1, <2>2
<1>6. t = UpdateDbusIPS(UpdateIPS(s, ips), ips)
  BY <1>3
<1> HIDE DEF t
<1>7. QED
  BY <1>2, <1>4, <1>5, <1>6 DEF Sane, Steady, Keeps, IpsShown

\* The persisted parameters are shown by a new object.
LEMMA ShowIPS ==
    ASSUME NEW s, Sane(s)
    PROVE  LET t == UpdateDbusIPS(s, s.data.ips)
           IN Sane(t) /\ Calm(s, t) /\ IpsShown(t)
<1>1. CASE s.ipsObject
  <2> DEFINE t == [s EXCEPT !.dbusIps = s.data.ips, !.notRestored = FALSE]
  <2>1. UpdateDbusIPS(s, s.data.ips) = t
    BY <1>1 DEF UpdateDbusIPS
  <2>2. s \in Objects /\ s.data.ips \in IpsParms
    BY DEF Sane, Objects, Data
  <2>3. /\ t \in Objects /\ t.data = s.data /\ t.file = s.file
        /\ t.customer = s.customer /\ t.masterSet = s.masterSet
        /\ t.masterActive = s.masterActive
        /\ t.dbusMode = s.dbusMode /\ t.ipsObject = s.ipsObject
        /\ t.occMode = s.occMode /\ t.modeFailed = s.modeFailed
        /\ t.needToSendIpsData = s.needToSendIpsData
        /\ t.occIps = s.occIps /\ t.ipsFailed = s.ipsFailed
        /\ t.dbusIps = s.data.ips
    BY <2>2 DEF Objects
  <2> HIDE DEF t
  <2>4. QED
    BY <2>1, <2>3 DEF Sane, Calm, Steady, Keeps, IpsShown, GoodIps
<1>2. CASE ~s.ipsObject
  <2>1. UpdateDbusIPS(s, s.data.ips) = s
    BY <1>2 DEF UpdateDbusIPS
  <2>2. QED
    BY <1>2, <2>1, CalmSelf DEF IpsShown
<1>3. QED
  BY <1>1, <1>2

LEMMA AddIpsWatchIs ==
    ASSUME NEW s, Sane(s), NEW luck \in Lucks
    PROVE  Sane(AddIpsWatch(s, luck)) /\ Calm(s, AddIpsWatch(s, luck))
<1>1. CASE s.watching
  BY <1>1, CalmSelf DEF AddIpsWatch
<1>2. CASE ~s.watching
  <2>1. luck.watch \in {"watched", "noFile", "notOpened", "notRegistered"}
    BY DEF Lucks, WatchResults
  <2>2. s.fd \in Descriptors
    BY DEF Sane, Objects
  <2>3. PICK fd \in Descriptors, watching \in BOOLEAN :
          AddIpsWatch(s, luck) = [s EXCEPT !.watching = watching, !.fd = fd]
    BY <1>2, <2>1, <2>2 DEF AddIpsWatch, Descriptors
  <2> DEFINE t == [s EXCEPT !.watching = watching, !.fd = fd]
  <2>4. /\ t \in Objects /\ t.data = s.data /\ t.file = s.file
        /\ t.customer = s.customer /\ t.masterSet = s.masterSet
        /\ t.masterActive = s.masterActive
        /\ t.dbusMode = s.dbusMode /\ t.ipsObject = s.ipsObject
        /\ t.occMode = s.occMode /\ t.modeFailed = s.modeFailed
        /\ t.needToSendIpsData = s.needToSendIpsData
        /\ t.occIps = s.occIps /\ t.ipsFailed = s.ipsFailed
        /\ t.dbusIps = s.dbusIps /\ t.notRestored = s.notRestored
    BY DEF Sane, Objects
  <2> HIDE DEF t
  <2>5. AddIpsWatch(s, luck) = t
    BY <2>3 DEF t
  <2>6. QED
    BY <2>4, <2>5 DEF Sane, Calm, Steady, Keeps, IpsShown, GoodIps
<1>3. QED
  BY <1>1, <1>2

LEMMA RemoveIpsWatchIs ==
    ASSUME NEW s, Sane(s)
    PROVE  Sane(RemoveIpsWatch(s)) /\ Calm(s, RemoveIpsWatch(s))
<1> DEFINE fd == Closed(s.fd)
           t == [s EXCEPT !.watching = FALSE, !.ipsActive = FALSE, !.fd = fd]
<1>1. fd \in Descriptors
  BY DEF Closed, Sane, Objects, Descriptors
<1>2. RemoveIpsWatch(s) = t
  BY DEF RemoveIpsWatch, Sane, Objects
<1> HIDE DEF fd
<1>3. /\ t \in Objects /\ t.data = s.data /\ t.file = s.file
      /\ t.customer = s.customer /\ t.masterSet = s.masterSet
      /\ t.masterActive = s.masterActive
      /\ t.dbusMode = s.dbusMode /\ t.ipsObject = s.ipsObject
      /\ t.occMode = s.occMode /\ t.modeFailed = s.modeFailed
      /\ t.needToSendIpsData = s.needToSendIpsData
      /\ t.occIps = s.occIps /\ t.ipsFailed = s.ipsFailed
      /\ t.dbusIps = s.dbusIps /\ t.notRestored = s.notRestored
  BY <1>1 DEF Sane, Objects
<1> HIDE DEF t
<1>4. QED
  BY <1>2, <1>3 DEF Sane, Calm, Steady, Keeps, IpsShown, GoodIps

\* Without an object nothing is to be sent.
LEMMA RemoveIpsObjectIs ==
    ASSUME NEW s, Sane(s)
    PROVE  LET t == RemoveIpsObject(s)
           IN /\ Sane(t) /\ Keeps(s, t) /\ t.data = s.data
              /\ t.dbusMode = s.dbusMode /\ ~t.ipsObject
              /\ t.occMode = s.occMode /\ t.modeFailed = s.modeFailed
<1> DEFINE t == RemoveIpsObject(s)
<1>1. CASE s.ipsObject
  <2> DEFINE fd == Closed(s.fd)
  <2>1. fd \in Descriptors
    BY DEF Closed, Sane, Objects, Descriptors
  <2>2. t = [s EXCEPT !.watching = FALSE, !.ipsActive = FALSE, !.fd = fd,
                      !.ipsObject = FALSE, !.dbusIps = NoIps,
                      !.needToSendIpsData = FALSE]
    BY <1>1 DEF RemoveIpsObject, RemoveIpsWatch, Sane, Objects
  <2>3. NoIps \in IpsParms
    BY DEF NoIps, IpsParms, Utils
  <2> HIDE DEF fd, t
  <2>4. /\ t \in Objects /\ t.data = s.data /\ t.file = s.file
        /\ t.customer = s.customer /\ t.masterSet = s.masterSet
        /\ t.masterActive = s.masterActive
        /\ t.dbusMode = s.dbusMode /\ ~t.ipsObject
        /\ t.occMode = s.occMode /\ t.modeFailed = s.modeFailed
    BY <2>1, <2>2, <2>3 DEF Sane, Objects
  <2>5. QED
    BY <2>4 DEF t, Sane, Keeps, IpsShown
<1>2. CASE ~s.ipsObject
  <2>1. t = [s EXCEPT !.needToSendIpsData = FALSE]
    BY <1>2 DEF RemoveIpsObject
  <2> HIDE DEF t
  <2>2. /\ t \in Objects /\ t.data = s.data /\ t.file = s.file
        /\ t.customer = s.customer /\ t.masterSet = s.masterSet
        /\ t.masterActive = s.masterActive
        /\ t.dbusMode = s.dbusMode /\ ~t.ipsObject
        /\ t.occMode = s.occMode /\ t.modeFailed = s.modeFailed
    BY <1>2, <2>1 DEF Sane, Objects
  <2>3. QED
    BY <2>2 DEF t, Sane, Keeps, IpsShown
<1>3. QED
  BY <1>1, <1>2

(***************************************************************************)
(* Reading the IPS parameters                                              *)
(***************************************************************************)

LEMMA DefaultsAreIps ==
    /\ DefaultIPSParms \in IpsParms
    /\ FallbackIps \in IpsParms /\ FallbackIps.enter <= FallbackIps.exit
    /\ NoIps \in IpsParms
<1> DEFINE fallback == [FallbackIps EXCEPT !.exit = DefaultIps.exit]
           ordered == IF fallback.enter > fallback.exit
                      THEN [fallback EXCEPT !.enter = fallback.exit]
                      ELSE fallback
<1>1. DefaultIps \in [enter : 0 .. 2, exit : 0 .. 2]
  BY DefaultsAssumption DEF IpsParms, Utils
<1>2. FallbackIps \in IpsParms /\ FallbackIps.enter <= FallbackIps.exit
      /\ NoIps \in IpsParms
  BY DEF FallbackIps, NoIps, IpsParms, Utils
<1>3. fallback \in IpsParms
  BY <1>1, <1>2 DEF IpsParms, Utils
<1>4. ordered \in IpsParms
  BY <1>3 DEF IpsParms
<1>5. [ordered EXCEPT !.enter = DefaultIps.enter] \in IpsParms
  BY <1>1, <1>4 DEF IpsParms, Utils
<1>6. QED
  BY <1>2, <1>5 DEF DefaultIPSParms

LEMMA UseDefaultsIs ==
    ASSUME NEW s, Sane(s)
    PROVE  LET t == UseDefaultIPSParms(s)
           IN /\ Sane(t) /\ Steady(s, t)
              /\ emReady => IpsShown(t)
              /\ t.needToSendIpsData = s.needToSendIpsData
              /\ t.occIps = s.occIps /\ t.ipsFailed = s.ipsFailed
<1>1. CASE emReady
  <2>1. UseDefaultIPSParms(s)
          = UpdateDbusIPS(UpdateIPS(s, DefaultIPSParms), DefaultIPSParms)
    BY <1>1 DEF UseDefaultIPSParms
  <2>2. QED
    BY <2>1, DefaultsAreIps, TellIPS
<1>2. CASE ~emReady
  <2>1. UseDefaultIPSParms(s) = s
    BY <1>2 DEF UseDefaultIPSParms
  <2>2. QED
    BY <1>2, <2>1, CalmSelf DEF Calm
<1>3. QED
  BY <1>1, <1>2

LEMMA InitIpsIs ==
    ASSUME NEW s, Sane(s)
    PROVE  Sane(InitIps(s)) /\ Calm(s, InitIps(s))
<1>1. CASE s.data.modeInit /\ ~s.data.ipsInit
  <2>1. InitIps(s) = UseDefaultIPSParms(s)
    BY <1>1 DEF InitIps
  <2> DEFINE t == UseDefaultIPSParms(s)
  <2>2. /\ Sane(t) /\ Steady(s, t)
        /\ t.needToSendIpsData = s.needToSendIpsData
        /\ t.occIps = s.occIps /\ t.ipsFailed = s.ipsFailed
    BY UseDefaultsIs
  <2> HIDE DEF t
  <2>3. GoodIps(s) => GoodIps(t)
    BY <1>1, <2>2 DEF GoodIps
  <2>4. Calm(s, t)
    BY <2>2, <2>3 DEF Calm
  <2>5. QED
    BY <2>1, <2>2, <2>4 DEF t
<1>2. CASE ~(s.data.modeInit /\ ~s.data.ipsInit)
  <2>1. InitIps(s) = s
    BY <1>2 DEF InitIps
  <2>2. QED
    BY <2>1, CalmSelf
<1>3. QED
  BY <1>1, <1>2

Ordered(s) == s.data.ipsInit => s.data.ips.enter <= s.data.ips.exit

\* What is read is in order; a good state of the OCC is not disturbed, since
\* parameters out of order were never sent.
LEMMA OrderIPSIs ==
    ASSUME NEW s, Sane(s)
    PROVE  LET t == OrderIPS(s) IN Sane(t) /\ Calm(s, t) /\ Ordered(t)
<1> DEFINE ips == s.data.ips
           ordered == [ips EXCEPT !.enter = ips.exit]
<1>1. ips \in [enter : 0 .. 2, exit : 0 .. 2]
  BY DEF Sane, Objects, Data, IpsParms, Utils
<1>2. CASE s.data.ipsInit /\ ips.enter > ips.exit
  <2>1. ordered \in IpsParms /\ ordered.enter = ordered.exit
        /\ ordered.exit \in 0 .. 2
    BY <1>1 DEF IpsParms, Utils
  <2> DEFINE t == UpdateDbusIPS(UpdateIPS(s, ordered), ordered)
  <2>2. OrderIPS(s) = t
    BY <1>2 DEF OrderIPS
  <2> HIDE DEF ordered
  <2>3. /\ Sane(t) /\ Steady(s, t) /\ IpsShown(t)
        /\ t.data.ips = ordered /\ t.data.ipsInit
        /\ t.needToSendIpsData = s.needToSendIpsData
        /\ t.occIps = s.occIps /\ t.ipsFailed = s.ipsFailed
    BY <2>1, TellIPS
  <2> HIDE DEF t
  <2>4. Ordered(t)
    BY <2>1, <2>3 DEF Ordered
  <2>5. ~(s.occIps.enter <= s.occIps.exit /\ s.occIps = ips)
    BY <1>1, <1>2
  <2>6. GoodIps(s) => GoodIps(t)
    BY <2>3, <2>5 DEF GoodIps
  <2>7. QED
    BY <2>2, <2>3, <2>4, <2>6 DEF Calm
<1>3. CASE ~(s.data.ipsInit /\ ips.enter > ips.exit)
  <2>1. OrderIPS(s) = s
    BY <1>3 DEF OrderIPS
  <2>2. Ordered(s)
    BY <1>1, <1>3 DEF Ordered
  <2>3. QED
    BY <2>1, <2>2, CalmSelf
<1>4. QED
  BY <1>2, <1>3

\* The mode is only initialized by a read if it is missing.
LEMMA ReadIPSCalm ==
    ASSUME NEW s, Sane(s), NEW w, s.data.modeInit \/ s.data.ipsInit
    PROVE  LET t == ReadIPS(s, w) IN Sane(t) /\ Calm(s, t) /\ Ordered(t)
<1>1. CASE s.data.ipsInit
  <2>1. ReadIPS(s, w) = OrderIPS(s)
    BY <1>1 DEF ReadIPS
  <2>2. QED
    BY <2>1, OrderIPSIs
<1>2. CASE ~s.data.ipsInit
  <2>1. InitMode(s, w) = s
    BY <1>2 DEF InitMode
  <2>2. ReadIPS(s, w) = OrderIPS(InitIps(s))
    BY <1>2, <2>1 DEF ReadIPS
  <2>3. Sane(InitIps(s)) /\ Calm(s, InitIps(s))
    BY InitIpsIs
  <2>4. QED
    BY <2>2, <2>3, OrderIPSIs, CalmTrans
<1>3. QED
  BY <1>1, <1>2

(***************************************************************************)
(* The mode on D-Bus                                                       *)
(***************************************************************************)

LEMMA DefaultedIs ==
    ASSUME NEW s, Sane(s)
    PROVE  LET t == Defaulted(s)
           IN /\ Sane(t) /\ Keeps(s, t) /\ t.ipsObject = s.ipsObject
              /\ t.needToSendIpsData = s.needToSendIpsData
              /\ t.data.modeInit /\ t.data.mode = DefaultMode
<1>1. DefaultMode \in Modes
  BY DefaultsAssumption DEF Modes
<1>2. QED
  BY <1>1, UpdateModeIs DEF Defaulted

LEMMA SteadyShows ==
    ASSUME NEW s, NEW t, Steady(s, t), ModeShown(s)
    PROVE  ModeShown(t)
BY DEF Steady, Keeps, ModeShown, IpsAllowed, HasValidMode, IsValidMode, DbusModeOf

LEMMA SetDbusMode ==
    ASSUME NEW s, Sane(s), NEW mode \in Modes
    PROVE  LET t == [s EXCEPT !.dbusMode = mode]
           IN /\ Sane(t) /\ Keeps(s, t) /\ t.data = s.data
              /\ t.dbusMode = mode /\ t.ipsObject = s.ipsObject
              /\ t.occMode = s.occMode /\ t.modeFailed = s.modeFailed
              /\ t.needToSendIpsData = s.needToSendIpsData
              /\ t.occIps = s.occIps /\ t.ipsFailed = s.ipsFailed
<1> DEFINE t == [s EXCEPT !.dbusMode = mode]
<1>1. /\ t \in Objects /\ t.data = s.data /\ t.file = s.file
      /\ t.customer = s.customer /\ t.masterSet = s.masterSet
      /\ t.masterActive = s.masterActive
      /\ t.dbusMode = mode /\ t.ipsObject = s.ipsObject
      /\ t.occMode = s.occMode /\ t.modeFailed = s.modeFailed
      /\ t.needToSendIpsData = s.needToSendIpsData
      /\ t.occIps = s.occIps /\ t.ipsFailed = s.ipsFailed
      /\ t.dbusIps = s.dbusIps /\ t.notRestored = s.notRestored
  BY DEF Sane, Objects
<1> HIDE DEF t
<1>2. Sane(t) /\ Keeps(s, t)
  BY <1>1 DEF Sane, Keeps, IpsShown
<1>3. QED
  BY <1>1, <1>2 DEF t

\* Once the parameters are to be sent, they are as long as there is an object.
ToSend(s) == s.ipsObject => s.needToSendIpsData

\* What is in t is what was in w, but for the mode on D-Bus.
SameIps(w, t) ==
    /\ t.data = w.data /\ t.ipsObject = w.ipsObject
    /\ t.needToSendIpsData = w.needToSendIpsData
    /\ t.occIps = w.occIps /\ t.ipsFailed = w.ipsFailed

\* A valid mode is shown, with w as the state that has an IPS object.
LEMMA ShowModeIs ==
    ASSUME NEW s, Sane(s), NEW w, Sane(w), Keeps(s, w),
           NEW mode \in Modes, IsValidMode(s, mode)
    PROVE  LET t == ShowMode(s, mode, w)
           IN /\ Sane(t) /\ Keeps(s, t) /\ t.dbusMode = DbusModeOf(t, mode)
              /\ IF Eco(mode) THEN t.data = s.data /\ ~t.ipsObject
                 ELSE SameIps(w, t)
<1> DEFINE v == IF Eco(mode) THEN RemoveIpsObject(s) ELSE w
           shown == DbusModeOf(s, mode)
           t == [v EXCEPT !.dbusMode = shown]
<1>1. ShowMode(s, mode, w) = t
  BY DEF ShowMode
<1>2. shown \in Modes
  BY DEF DbusModeOf, Modes
<1>3. /\ Sane(v) /\ Keeps(s, v)
      /\ IF Eco(mode) THEN v.data = s.data /\ ~v.ipsObject ELSE v = w
  <2>1. CASE Eco(mode)
    <3>1. v = RemoveIpsObject(s)
      BY <2>1
    <3>2. QED
      BY <2>1, <3>1, RemoveIpsObjectIs
  <2>2. CASE ~Eco(mode)
    BY <2>2
  <2>3. QED
    BY <2>1, <2>2
<1> HIDE DEF v, shown
<1>4. /\ Sane(t) /\ Keeps(v, t) /\ SameIps(v, t) /\ t.dbusMode = shown
  BY <1>2, <1>3, SetDbusMode DEF SameIps
<1> HIDE DEF t
<1>5. Keeps(s, t)
  BY <1>3, <1>4, KeepsTrans
<1>6. shown = DbusModeOf(t, mode)
  BY <1>5 DEF Keeps, DbusModeOf, shown
<1>7. QED
  BY <1>1, <1>3, <1>4, <1>5, <1>6 DEF SameIps

\* A missing mode becomes the default, which is shown.
LEMMA InitModeIs ==
    ASSUME NEW s, Sane(s), ~s.data.modeInit, emReady,
           NEW w, Sane(w), Keeps(Defaulted(s), w), w.ipsObject,
           w.data.modeInit, w.data.mode = DefaultMode
    PROVE  LET t == InitMode(s, w)
           IN /\ Sane(t) /\ Keeps(s, t) /\ ModeShown(t)
              /\ t.data.modeInit /\ t.data.mode = DefaultMode
              /\ ToSend(s) /\ ToSend(w) => ToSend(t)
<1> DEFINE d == Defaulted(s)
           t == ShowMode(d, DefaultMode, w)
<1>1. /\ Sane(d) /\ Keeps(s, d) /\ d.ipsObject = s.ipsObject
      /\ d.needToSendIpsData = s.needToSendIpsData
      /\ d.data.modeInit /\ d.data.mode = DefaultMode
  BY DefaultedIs
<1>2. InitMode(s, w) = t
  BY DEF InitMode
<1>3. Keeps(d, w)
  OBVIOUS
<1>4. DefaultMode \in Modes
  BY DefaultsAssumption DEF Modes
<1> HIDE DEF d
<1>5. CASE IsValidMode(d, DefaultMode)
  <2>1. /\ Sane(t) /\ Keeps(d, t) /\ t.dbusMode = DbusModeOf(t, DefaultMode)
        /\ IF Eco(DefaultMode) THEN t.data = d.data /\ ~t.ipsObject
           ELSE SameIps(w, t)
    BY <1>1, <1>3, <1>4, <1>5, ShowModeIs
  <2> HIDE DEF t
  <2>2. Keeps(s, t)
    BY <1>1, <2>1, KeepsTrans
  <2>3. /\ t.data.modeInit /\ t.data.mode = DefaultMode
        /\ ToSend(w) => ToSend(t)
        /\ t.ipsObject <=> ~Eco(DefaultMode)
    BY <1>1, <2>1 DEF SameIps, ToSend
  <2>4. IpsAllowed(t)
    BY <2>1, <2>3 DEF IpsAllowed, Sane, Objects, Eco
  <2>5. QED
    BY <1>2, <2>1, <2>2, <2>3, <2>4 DEF ModeShown
<1>6. CASE ~IsValidMode(d, DefaultMode)
  <2>1. t = d
    BY <1>6 DEF ShowMode
  <2>2. QED
    BY <1>1, <1>2, <1>6, <2>1 DEF ModeShown, HasValidMode, ToSend
<1>7. QED
  BY <1>5, <1>6

\* The state with an IPS object that s turns into when its mode is missing
WithIps(s, w) ==
    /\ Sane(w) /\ Keeps(Defaulted(s), w) /\ w.ipsObject
    /\ w.data.modeInit /\ w.data.mode = DefaultMode

LEMMA ReadIPSIs ==
    ASSUME NEW s, Sane(s), NEW w, WithIps(s, w)
    PROVE  LET t == ReadIPS(s, w)
           IN /\ Sane(t) /\ Keeps(s, t) /\ Ordered(t)
              /\ ModeShown(s) => ModeShown(t)
<1>1. CASE s.data.modeInit \/ s.data.ipsInit
  <2>1. Sane(ReadIPS(s, w)) /\ Calm(s, ReadIPS(s, w)) /\ Ordered(ReadIPS(s, w))
    BY <1>1, ReadIPSCalm
  <2>2. QED
    BY <2>1, SteadyShows DEF Calm, Steady
<1>2. CASE ~s.data.modeInit /\ ~s.data.ipsInit
  <2> DEFINE u == InitMode(s, w)
             v == InitIps(u)
             t == OrderIPS(v)
  <2>1. ReadIPS(s, w) = t
    BY <1>2 DEF ReadIPS
  <2>2. Sane(u) /\ Keeps(s, u) /\ (ModeShown(s) => ModeShown(u))
    <3>1. CASE emReady
      BY <1>2, <3>1, InitModeIs DEF WithIps
    <3>2. CASE ~emReady
      <4>1. u = s
        BY <3>2 DEF InitMode
      <4>2. QED
        BY <4>1 DEF Keeps
    <3>3. QED
      BY <3>1, <3>2
  <2> HIDE DEF u
  <2>3. Sane(v) /\ Calm(u, v)
    BY <2>2, InitIpsIs
  <2> HIDE DEF v
  <2>4. Sane(t) /\ Calm(v, t) /\ Ordered(t)
    BY <2>3, OrderIPSIs
  <2> HIDE DEF t
  <2>5. Calm(u, t)
    BY <2>3, <2>4, CalmTrans
  <2>6. Steady(u, t) /\ Keeps(u, t)
    BY <2>5 DEF Calm, Steady
  <2>7. Keeps(s, t)
    BY <2>2, <2>6, KeepsTrans
  <2>8. QED
    BY <2>1, <2>2, <2>4, <2>6, <2>7, SteadyShows
<1>3. QED
  BY <1>1, <1>2

\* What a new IPS object does not disturb; it is still to be told to the OCC.
Made(s, t) ==
    /\ t.ipsObject /\ t.data.modeInit /\ t.data.mode = s.data.mode
    /\ t.dbusMode = s.dbusMode
    /\ t.occMode = s.occMode /\ t.modeFailed = s.modeFailed
    /\ t.occIps = s.occIps /\ t.ipsFailed = s.ipsFailed
    /\ GoodIps(s) => GoodIps(t)
    /\ t.needToSendIpsData
         \/ (s.ipsObject /\ t.needToSendIpsData = s.needToSendIpsData)

LEMMA CalmIsMade ==
    ASSUME NEW s, NEW t, Calm(s, t), s.ipsObject, s.data.modeInit
    PROVE  Made(s, t)
BY DEF Calm, Steady, Made

LEMMA CreateIpsObjectIs ==
    ASSUME NEW s, Sane(s), NEW luck \in Lucks
    PROVE  LET t == CreateIpsObject(s, luck)
           IN /\ Sane(t) /\ Keeps(s, t)
              /\ s.data.modeInit => Made(s, t)
<1>1. CASE s.ipsObject
  <2>1. CreateIpsObject(s, luck) = s
    BY <1>1 DEF CreateIpsObject
  <2>2. QED
    BY <1>1, <2>1 DEF Made, Keeps
<1>2. CASE ~s.ipsObject
  <2> DEFINE new == [s EXCEPT !.ipsObject = TRUE]
             d == Defaulted(new)
             read == ReadIPS(new, d)
             shown == IF read.data.ipsInit
                      THEN UpdateDbusIPS(read, read.data.ips) ELSE read
             watched == AddIpsWatch(shown, luck)
             t == [watched EXCEPT !.needToSendIpsData = TRUE]
  <2>1. CreateIpsObject(s, luck) = t
    BY <1>2 DEF CreateIpsObject, ReadByNew
  <2>2. /\ new \in Objects /\ new.ipsObject
        /\ new.data = s.data /\ new.file = s.file
        /\ new.customer = s.customer /\ new.masterSet = s.masterSet
        /\ new.masterActive = s.masterActive /\ new.dbusMode = s.dbusMode
        /\ new.occMode = s.occMode /\ new.modeFailed = s.modeFailed
        /\ new.occIps = s.occIps /\ new.ipsFailed = s.ipsFailed
    BY DEF Sane, Objects
  <2> HIDE DEF new
  <2>3. Sane(new) /\ (GoodIps(s) => GoodIps(new))
    BY <2>2 DEF Sane, GoodIps
  <2>4. WithIps(new, d)
    <3>1. /\ Sane(d) /\ d.ipsObject = new.ipsObject
          /\ d.data.modeInit /\ d.data.mode = DefaultMode
      BY <2>3, DefaultedIs
    <3>2. QED
      BY <2>2, <3>1 DEF WithIps, Keeps
  <2>5. /\ Sane(read) /\ Keeps(new, read)
        /\ s.data.modeInit => Calm(new, read)
    BY <2>2, <2>3, <2>4, ReadIPSIs, ReadIPSCalm
  <2> HIDE DEF read
  <2>6. Sane(shown) /\ Calm(read, shown) /\ IpsShown(shown)
    <3>1. CASE read.data.ipsInit
      BY <2>5, <3>1, ShowIPS
    <3>2. CASE ~read.data.ipsInit
      BY <2>5, <3>2, CalmSelf DEF IpsShown
    <3>3. QED
      BY <3>1, <3>2
  <2> HIDE DEF shown
  <2>7. Sane(watched) /\ Calm(shown, watched)
    BY <2>6, AddIpsWatchIs
  <2> HIDE DEF watched
  <2>8. Calm(read, watched) /\ IpsShown(watched)
    BY <2>6, <2>7, CalmTrans DEF Calm, Steady, Keeps
  <2>9. /\ t \in Objects /\ t.needToSendIpsData
        /\ t.data = watched.data /\ t.file = watched.file
        /\ t.customer = watched.customer /\ t.masterSet = watched.masterSet
        /\ t.masterActive = watched.masterActive
        /\ t.dbusMode = watched.dbusMode /\ t.ipsObject = watched.ipsObject
        /\ t.occMode = watched.occMode /\ t.modeFailed = watched.modeFailed
        /\ t.occIps = watched.occIps /\ t.ipsFailed = watched.ipsFailed
        /\ t.dbusIps = watched.dbusIps /\ t.notRestored = watched.notRestored
    BY <2>7 DEF Sane, Objects
  <2> HIDE DEF t
  <2>10. Sane(t) /\ IpsShown(t) /\ (GoodIps(watched) => GoodIps(t))
    BY <2>7, <2>8, <2>9 DEF Sane, IpsShown, GoodIps
  <2>11. Keeps(new, watched)
    BY <2>5, <2>8, KeepsTrans DEF Calm, Steady
  <2>12. Keeps(s, t)
    BY <2>2, <2>9, <2>10, <2>11 DEF Keeps
  <2>13. ASSUME s.data.modeInit
         PROVE  Made(s, t)
    <3>1. Calm(new, watched)
      BY <2>5, <2>8, <2>13, CalmTrans
    <3>2. Made(new, watched)
      BY <2>2, <2>13, <3>1, CalmIsMade
    <3>3. QED
      BY <2>2, <2>3, <2>9, <2>10, <3>2 DEF Made
  <2>14. QED
    BY <2>1, <2>10, <2>12, <2>13
<1>3. QED
  BY <1>1, <1>2

\* The argument of initPersistentData and getIPSParms
LEMMA DefaultedWithIps ==
    ASSUME NEW s, Sane(s), NEW luck \in Lucks
    PROVE  LET w == CreateIpsObject(Defaulted(s), luck)
           IN WithIps(s, w) /\ (ToSend(s) => ToSend(w))
<1> DEFINE d == Defaulted(s)
           w == CreateIpsObject(d, luck)
<1>1. /\ Sane(d) /\ d.data.modeInit /\ d.data.mode = DefaultMode
      /\ ToSend(s) => ToSend(d)
  BY DefaultedIs DEF ToSend
<1> HIDE DEF d
<1>2. Sane(w) /\ Keeps(d, w) /\ Made(d, w)
  BY <1>1, CreateIpsObjectIs
<1> HIDE DEF w
<1>3. QED
  BY <1>1, <1>2 DEF WithIps, Made, ToSend, d, w

LEMMA GetIPSParmsIs ==
    ASSUME NEW s, Sane(s), NEW luck \in Lucks
    PROVE  LET t == GetIPSParms(s, luck)
           IN /\ Sane(t) /\ Keeps(s, t) /\ Ordered(t)
              /\ ModeShown(s) => ModeShown(t)
              /\ s.data.modeInit => Calm(s, t)
BY DefaultedWithIps, ReadIPSIs, ReadIPSCalm DEF GetIPSParms

LEMMA InitPersistentDataIs ==
    ASSUME NEW s, Sane(s), NEW luck \in Lucks
    PROVE  LET t == InitPersistentData(s, luck)
           IN /\ Sane(t) /\ Keeps(s, t)
              /\ ModeShown(s) => ModeShown(t)
              /\ s.data.modeInit => Calm(s, t)
              /\ ToSend(s) => ToSend(t)
<1> DEFINE w == CreateIpsObject(Defaulted(s), luck)
           u == InitMode(s, w)
           t == InitIps(u)
<1>1. InitPersistentData(s, luck) = t
  BY DEF InitPersistentData
<1>2. WithIps(s, w) /\ (ToSend(s) => ToSend(w))
  BY DefaultedWithIps
<1> HIDE DEF w
<1>3. /\ Sane(u) /\ Keeps(s, u)
      /\ ModeShown(s) => ModeShown(u)
      /\ s.data.modeInit => Calm(s, u)
      /\ ToSend(s) => ToSend(u)
  <2>1. CASE s.data.modeInit \/ ~emReady
    <3>1. u = s
      BY <2>1 DEF InitMode
    <3>2. QED
      BY <3>1, CalmSelf DEF Keeps
  <2>2. CASE ~s.data.modeInit /\ emReady
    BY <1>2, <2>2, InitModeIs DEF WithIps
  <2>3. QED
    BY <2>1, <2>2
<1> HIDE DEF u
<1>4. Sane(t) /\ Calm(u, t)
  BY <1>3, InitIpsIs
<1> HIDE DEF t
<1>5. Steady(u, t) /\ Keeps(u, t) /\ (ToSend(u) => ToSend(t))
  BY <1>4 DEF Calm, Steady, ToSend
<1>6. Keeps(s, t) /\ (ModeShown(s) => ModeShown(t))
  BY <1>3, <1>5, KeepsTrans, SteadyShows
<1>7. s.data.modeInit => Calm(s, t)
  BY <1>3, <1>4, CalmTrans
<1>8. QED
  BY <1>1, <1>3, <1>4, <1>5, <1>6, <1>7

LEMMA GetModeIs ==
    ASSUME NEW s, Sane(s), NEW luck \in Lucks
    PROVE  LET t == GetMode(s, luck)
           IN /\ Sane(t) /\ Keeps(s, t)
              /\ ModeShown(s) => ModeShown(t)
              /\ s.data.modeInit => t = s
              /\ ToSend(s) => ToSend(t)
<1>1. CASE s.data.modeInit
  BY <1>1 DEF GetMode, Keeps
<1>2. CASE ~s.data.modeInit
  <2>1. GetMode(s, luck) = InitPersistentData(s, luck)
    BY <1>2 DEF GetMode
  <2>2. QED
    BY <1>2, <2>1, InitPersistentDataIs
<1>3. QED
  BY <1>1, <1>2

(***************************************************************************)
(* Commands to the master OCC                                              *)
(***************************************************************************)

\* What is sent is in order, and stands as the parameters the OCC has.
LEMMA SendIpsDataIs ==
    ASSUME NEW s, Sane(s), NEW luck \in Lucks, s.masterActive => s.data.modeInit
    PROVE  LET t == SendIpsData(s, luck)
           IN /\ Sane(t) /\ Steady(s, t)
              /\ (OccReachable(s) /\ s.ipsObject /\ ~t.ipsFailed) => GoodIps(t)
              /\ ~OccReachable(s) => t = s
<1> DEFINE t == SendIpsData(s, luck)
           read == GetIPSParms(s, luck)
<1>1. CASE ~(OccReachable(s) /\ s.ipsObject)
  BY <1>1, CalmSelf DEF SendIpsData, Calm
<1>2. CASE OccReachable(s) /\ s.ipsObject
  <2>1. Sane(read) /\ Calm(s, read) /\ Ordered(read)
    BY <1>2, GetIPSParmsIs DEF OccReachable
  <2>2. t = IF luck.ips
            THEN [read EXCEPT !.occIps = IpsOf(read), !.ipsFailed = FALSE,
                              !.needToSendIpsData = FALSE]
            ELSE [read EXCEPT !.ipsFailed = TRUE]
    BY <1>2 DEF SendIpsData
  <2> HIDE DEF read, t
  <2>3. /\ IpsOf(read) \in IpsParms /\ IpsOf(read).enter <= IpsOf(read).exit
        /\ IpsOf(read) = FallbackIps
             \/ (read.data.ipsInit /\ IpsOf(read) = read.data.ips)
    BY <2>1, DefaultsAreIps DEF IpsOf, Ordered, Sane, Objects, Data
  <2>4. /\ t \in Objects /\ t.data = read.data /\ t.file = read.file
        /\ t.customer = read.customer /\ t.masterSet = read.masterSet
        /\ t.masterActive = read.masterActive
        /\ t.dbusMode = read.dbusMode /\ t.ipsObject = read.ipsObject
        /\ t.occMode = read.occMode /\ t.modeFailed = read.modeFailed
        /\ t.dbusIps = read.dbusIps /\ t.notRestored = read.notRestored
        /\ t.ipsFailed \/ t.occIps = IpsOf(read)
    <3>1. CASE luck.ips
      <4>1. t = [read EXCEPT !.occIps = IpsOf(read), !.ipsFailed = FALSE,
                             !.needToSendIpsData = FALSE]
        BY <2>2, <3>1
      <4>2. QED
        BY <2>1, <2>3, <4>1 DEF Sane, Objects
    <3>2. CASE ~luck.ips
      <4>1. t = [read EXCEPT !.ipsFailed = TRUE]
        BY <2>2, <3>2
      <4>2. QED
        BY <2>1, <4>1 DEF Sane, Objects
    <3>3. QED
      BY <3>1, <3>2
  <2>5. Sane(t) /\ Steady(read, t)
    BY <2>1, <2>4 DEF Sane, Steady, Keeps, IpsShown
  <2>6. Steady(s, t)
    BY <2>1, <2>5, SteadyTrans DEF Calm
  <2>7. ~t.ipsFailed => GoodIps(t)
    BY <2>3, <2>4 DEF GoodIps
  <2>8. QED
    BY <1>2, <2>5, <2>6, <2>7 DEF t
<1>3. QED
  BY <1>1, <1>2

\* The IPS object is made to fit the mode, and is told to the OCC.
LEMMA AllowIpsIs ==
    ASSUME NEW s, Sane(s), NEW luck \in Lucks, HasValidMode(s), IpsPending(s)
    PROVE  LET t == AllowIps(s, luck)
           IN /\ Sane(t) /\ Keeps(s, t) /\ IpsAllowed(t) /\ IpsPending(t)
              /\ t.data.modeInit /\ t.data.mode = s.data.mode
              /\ t.dbusMode = s.dbusMode
<1> DEFINE t == AllowIps(s, luck)
<1>1. s.data.modeInit
  BY DEF HasValidMode
<1>2. CASE Eco(s.data.mode)
  <2>1. t = RemoveIpsObject(s)
    BY <1>2 DEF AllowIps
  <2> HIDE DEF t
  <2>2. /\ Sane(t) /\ Keeps(s, t) /\ t.data = s.data
        /\ t.dbusMode = s.dbusMode /\ ~t.ipsObject
    BY <2>1, RemoveIpsObjectIs
  <2>3. IpsAllowed(t)
    BY <1>2, <2>2 DEF IpsAllowed, Sane, Objects
  <2>4. QED
    BY <1>1, <2>2, <2>3 DEF t, IpsPending
<1>3. CASE ~Eco(s.data.mode)
  <2>1. Sane(t) /\ Keeps(s, t) /\ Made(s, t)
    <3>1. CASE s.ipsObject
      <4>1. t = AddIpsWatch(s, luck)
        BY <1>3, <3>1 DEF AllowIps
      <4>2. Sane(t) /\ Calm(s, t)
        BY <4>1, AddIpsWatchIs
      <4>3. Made(s, t)
        BY <1>1, <3>1, <4>2, CalmIsMade
      <4>4. QED
        BY <4>2, <4>3 DEF Calm, Steady
    <3>2. CASE ~s.ipsObject
      <4>1. t = CreateIpsObject(s, luck)
        BY <1>3, <3>2 DEF AllowIps
      <4>2. QED
        BY <1>1, <4>1, CreateIpsObjectIs
    <3>3. QED
      BY <3>1, <3>2
  <2> HIDE DEF t
  <2>2. IpsAllowed(t)
    BY <1>3, <2>1 DEF IpsAllowed, Made, Sane, Objects
  <2>3. IpsPending(t)
    BY <2>1 DEF IpsPending, Made, Keeps
  <2>4. QED
    BY <2>1, <2>2, <2>3 DEF Made, t
<1>4. QED
  BY <1>2, <1>3

LEMMA SetModeIs ==
    ASSUME NEW s, Sane(s), NEW luck \in Lucks, HasValidMode(s), IpsPending(s),
           s.masterActive => s.masterSet
    PROVE  LET t == SetMode(s, luck)
           IN /\ Sane(t) /\ Keeps(s, t) /\ ModeGiven(t) /\ IpsGiven(t)
              /\ t.data.modeInit /\ t.data.mode = s.data.mode
              /\ t.dbusMode = s.dbusMode /\ t.ipsObject = s.ipsObject
<1> DEFINE t == SetMode(s, luck)
<1>1. s.data.modeInit /\ s.data.mode \in Modes
  BY DEF HasValidMode, Sane
<1>2. CASE ~OccReachable(s)
  <2>1. t = s
    BY <1>2 DEF SetMode
  <2>2. ~s.masterActive
    BY <1>2 DEF OccReachable
  <2>3. QED
    BY <1>1, <2>1, <2>2 DEF Keeps, ModeGiven, IpsGiven
<1>3. CASE OccReachable(s) /\ ~luck.mode
  <2>1. t = [s EXCEPT !.modeFailed = TRUE]
    BY <1>3 DEF SetMode
  <2> HIDE DEF t
  <2>2. /\ t \in Objects /\ t.data = s.data /\ t.file = s.file
        /\ t.customer = s.customer /\ t.masterSet = s.masterSet
        /\ t.masterActive = s.masterActive
        /\ t.dbusMode = s.dbusMode /\ t.ipsObject = s.ipsObject
        /\ t.dbusIps = s.dbusIps /\ t.notRestored = s.notRestored
        /\ t.modeFailed /\ t.needToSendIpsData = s.needToSendIpsData
        /\ t.occIps = s.occIps /\ t.ipsFailed = s.ipsFailed
    BY <2>1 DEF Sane, Objects
  <2>3. Sane(t) /\ Keeps(s, t) /\ ModeGiven(t)
    BY <2>2 DEF Sane, Keeps, IpsShown, ModeGiven
  <2>4. IpsGiven(t)
    BY <2>2 DEF IpsGiven, IpsPending, GoodIps
  <2>5. QED
    BY <1>1, <2>2, <2>3, <2>4 DEF t
<1>4. CASE OccReachable(s) /\ luck.mode
  <2> DEFINE set == [s EXCEPT !.occMode = s.data.mode, !.modeFailed = FALSE]
  <2>1. t = IF set.needToSendIpsData THEN SendIpsData(set, luck) ELSE set
    BY <1>4 DEF SetMode
  <2>2. /\ set \in Objects /\ set.data = s.data /\ set.file = s.file
        /\ set.customer = s.customer /\ set.masterSet = s.masterSet
        /\ set.masterActive = s.masterActive
        /\ set.dbusMode = s.dbusMode /\ set.ipsObject = s.ipsObject
        /\ set.dbusIps = s.dbusIps /\ set.notRestored = s.notRestored
        /\ ~set.modeFailed /\ set.occMode = s.data.mode
        /\ set.needToSendIpsData = s.needToSendIpsData
        /\ set.occIps = s.occIps /\ set.ipsFailed = s.ipsFailed
    BY <1>1 DEF Sane, Objects
  <2> HIDE DEF set
  <2>3. Sane(set) /\ Keeps(s, set) /\ ModeGiven(set) /\ IpsPending(set)
    BY <2>2 DEF Sane, Keeps, IpsShown, ModeGiven, IpsPending, GoodIps
  <2>4. OccReachable(set)
    BY <1>4, <2>2 DEF OccReachable
  <2>5. CASE set.needToSendIpsData
    <3>1. t = SendIpsData(set, luck)
      BY <2>1, <2>5
    <3> HIDE DEF t
    <3>2. /\ Sane(t) /\ Steady(set, t)
          /\ (set.ipsObject /\ ~t.ipsFailed) => GoodIps(t)
      BY <1>1, <2>2, <2>3, <2>4, <3>1, SendIpsDataIs
    <3>3. Keeps(s, t)
      BY <2>3, <3>2, KeepsTrans DEF Steady
    <3>4. ModeGiven(t) /\ IpsGiven(t)
      BY <2>3, <3>2 DEF Steady, Keeps, ModeGiven, IpsGiven
    <3>5. QED
      BY <1>1, <2>2, <3>2, <3>3, <3>4 DEF Steady, t
  <2>6. CASE ~set.needToSendIpsData
    <3>1. t = set
      BY <2>1, <2>6
    <3>2. IpsGiven(set)
      BY <2>3, <2>6 DEF IpsPending, IpsGiven
    <3>3. QED
      BY <1>1, <2>2, <2>3, <3>1, <3>2
  <2>7. QED
    BY <2>5, <2>6
<1>5. QED
  BY <1>2, <1>3, <1>4

LEMMA SendModeChangeIs ==
    ASSUME NEW s, Sane(s), NEW luck \in Lucks, s.masterActive => s.masterSet,
           IpsPending(s), s.data.modeInit \/ ToSend(s)
    PROVE  LET t == SendModeChange(s, luck)
           IN /\ Sane(t) /\ Keeps(s, t)
              /\ ModeShown(s) => ModeShown(t)
              /\ HasValidMode(t) => ModeGiven(t) /\ IpsGiven(t) /\ IpsAllowed(t)
              /\ HasValidMode(s) => /\ HasValidMode(t)
                                    /\ t.data.mode = s.data.mode
                                    /\ t.dbusMode = s.dbusMode
<1> DEFINE got == GetMode(s, luck)
           allowed == AllowIps(got, luck)
           t == SetMode(allowed, luck)
<1>1. /\ Sane(got) /\ Keeps(s, got)
      /\ ModeShown(s) => ModeShown(got)
      /\ HasValidMode(s) => got = s
      /\ IpsPending(got)
  <2>1. /\ Sane(got) /\ Keeps(s, got)
        /\ ModeShown(s) => ModeShown(got)
        /\ s.data.modeInit => got = s
        /\ ToSend(s) => ToSend(got)
    BY GetModeIs
  <2>2. IpsPending(got)
    BY <2>1 DEF ToSend, IpsPending
  <2>3. QED
    BY <2>1, <2>2 DEF HasValidMode
<1>2. SendModeChange(s, luck) = IF HasValidMode(got) THEN t ELSE got
  BY DEF SendModeChange
<1> HIDE DEF got
<1>3. CASE HasValidMode(got)
  <2>1. /\ Sane(allowed) /\ Keeps(got, allowed)
        /\ IpsAllowed(allowed) /\ IpsPending(allowed)
        /\ allowed.data.modeInit /\ allowed.data.mode = got.data.mode
        /\ allowed.dbusMode = got.dbusMode
    BY <1>1, <1>3, AllowIpsIs
  <2> HIDE DEF allowed
  <2>2. HasValidMode(allowed) /\ (allowed.masterActive => allowed.masterSet)
    BY <1>1, <1>3, <2>1 DEF Keeps, HasValidMode, IsValidMode
  <2>3. /\ Sane(t) /\ Keeps(allowed, t) /\ ModeGiven(t) /\ IpsGiven(t)
        /\ t.data.modeInit /\ t.data.mode = allowed.data.mode
        /\ t.dbusMode = allowed.dbusMode /\ t.ipsObject = allowed.ipsObject
    BY <2>1, <2>2, SetModeIs
  <2> HIDE DEF t
  <2>4. Keeps(s, t) /\ Keeps(got, t)
    BY <1>1, <2>1, <2>3, KeepsTrans
  <2>5. IpsAllowed(t) /\ HasValidMode(t)
    BY <2>1, <2>2, <2>3 DEF IpsAllowed, HasValidMode, IsValidMode, Keeps
  <2>6. ModeShown(s) => ModeShown(t)
    BY <1>1, <1>3, <2>1, <2>3, <2>4, <2>5 DEF ModeShown, DbusModeOf, Keeps
  <2>7. QED
    BY <1>1, <1>2, <1>3, <2>1, <2>3, <2>4, <2>5, <2>6
<1>4. CASE ~HasValidMode(got)
  BY <1>1, <1>2, <1>4
<1>5. QED
  BY <1>3, <1>4

LEMMA UpdateDbusModeIs ==
    ASSUME NEW s, Sane(s), NEW luck \in Lucks,
           NEW mode \in Modes, IsValidMode(s, mode)
    PROVE  LET t == UpdateDbusMode(s, mode, luck)
           IN /\ Sane(t) /\ Keeps(s, t) /\ t.dbusMode = DbusModeOf(t, mode)
              /\ s.data.modeInit => /\ t.data.modeInit
                                    /\ t.data.mode = s.data.mode
                                    /\ t.ipsObject = ~Eco(mode)
                                    /\ IpsPending(s) => IpsPending(t)
<1> DEFINE w == CreateIpsObject(s, luck)
           t == ShowMode(s, mode, w)
<1>1. UpdateDbusMode(s, mode, luck) = t
  BY DEF UpdateDbusMode
<1>2. Sane(w) /\ Keeps(s, w) /\ (s.data.modeInit => Made(s, w))
  BY CreateIpsObjectIs
<1> HIDE DEF w
<1>3. /\ Sane(t) /\ Keeps(s, t) /\ t.dbusMode = DbusModeOf(t, mode)
      /\ IF Eco(mode) THEN t.data = s.data /\ ~t.ipsObject ELSE SameIps(w, t)
  BY <1>2, ShowModeIs
<1> HIDE DEF t
<1>4. ASSUME s.data.modeInit
      PROVE  /\ t.data.modeInit /\ t.data.mode = s.data.mode
             /\ t.ipsObject <=> ~Eco(mode)
             /\ IpsPending(s) => IpsPending(t)
  <2>1. CASE Eco(mode)
    BY <1>3, <1>4, <2>1 DEF IpsPending
  <2>2. CASE ~Eco(mode)
    BY <1>2, <1>3, <1>4, <2>2
       DEF IpsPending, GoodIps, Made, SameIps, Keeps
  <2>3. QED
    BY <2>1, <2>2
<1>5. t.ipsObject \in BOOLEAN /\ (Eco(mode)) \in BOOLEAN
  BY <1>3 DEF Sane, Objects, Eco
<1>6. QED
  BY <1>1, <1>3, <1>4, <1>5

LEMMA InvalidateModeIs ==
    ASSUME NEW s, Sane(s)
    PROVE  LET t == InvalidateMode(s)
           IN Sane(t) /\ Keeps(s, t) /\ ~t.data.modeInit
<1> DEFINE d == [s.data EXCEPT !.modeInit = FALSE]
           t == [s EXCEPT !.data = d]
<1>1. s \in Objects /\ s.data \in Data
  BY DEF Sane, Objects
<1>2. /\ d \in Data /\ ~d.modeInit /\ d.locked = s.data.locked
      /\ d.ips = s.data.ips /\ d.ipsInit = s.data.ipsInit
  BY <1>1 DEF Data
<1>3. InvalidateMode(s) = t
  BY <1>1 DEF InvalidateMode, Objects, Data
<1> HIDE DEF d
<1>4. /\ t \in Objects /\ t.data = d /\ t.file = s.file
      /\ t.customer = s.customer /\ t.masterSet = s.masterSet
      /\ t.masterActive = s.masterActive /\ t.ipsObject = s.ipsObject
      /\ t.dbusIps = s.dbusIps /\ t.notRestored = s.notRestored
  BY <1>1, <1>2 DEF Objects
<1> HIDE DEF t
<1>5. QED
  BY <1>2, <1>3, <1>4 DEF Sane, Keeps, IpsShown

\* A mode that is not valid is not shown.
LEMMA InvalidShows ==
    ASSUME NEW s, ~s.data.modeInit
    PROVE  ModeShown(s)
BY DEF ModeShown, HasValidMode

LEMMA MasterOffIs ==
    ASSUME NEW s, Sane(s)
    PROVE  LET t == MasterOff(s)
           IN /\ Sane(t) /\ ~t.masterActive /\ t.data = s.data
              /\ t.customer = s.customer /\ t.dbusMode = s.dbusMode
              /\ t.ipsObject = s.ipsObject
              /\ IpsShown(s) => IpsShown(t)
<1> DEFINE u == RemoveIpsWatch(s)
           t == [u EXCEPT !.masterActive = FALSE]
<1>1. Sane(u) /\ Calm(s, u)
  BY RemoveIpsWatchIs
<1>2. u.data = s.data
  BY DEF RemoveIpsWatch, Sane, Objects
<1>3. MasterOff(s) = t
  BY DEF MasterOff
<1> HIDE DEF u
<1>4. /\ t \in Objects /\ t.data = u.data /\ t.file = u.file
      /\ t.customer = u.customer /\ ~t.masterActive
      /\ t.dbusMode = u.dbusMode /\ t.ipsObject = u.ipsObject
      /\ t.dbusIps = u.dbusIps /\ t.notRestored = u.notRestored
  BY <1>1 DEF Sane, Objects
<1> HIDE DEF t
<1>5. Sane(t) /\ (IpsShown(u) => IpsShown(t))
  BY <1>1, <1>4 DEF Sane, IpsShown
<1>6. QED
  BY <1>1, <1>2, <1>3, <1>4, <1>5 DEF Calm, Steady, Keeps

(***************************************************************************)
(* What holds between two handlers                                         *)
(***************************************************************************)

Good(s) ==
    /\ Sane(s) /\ ModeShown(s) /\ MasterHasMode(s)
    /\ ModeGiven(s) /\ IpsGiven(s)

\* The mode of a locked object stays, as long as it is supported.
Locked(s, t) ==
    (s.data.locked /\ HasValidMode(s) /\ IsValidMode(t, s.data.mode))
        => (t.data.locked /\ t.data.mode = s.data.mode)

\* Without an active master there is nothing to be given.
LEMMA NoMasterGood ==
    ASSUME NEW s, Sane(s), ModeShown(s), ~s.masterActive
    PROVE  Good(s)
BY DEF Good, MasterHasMode, ModeGiven, IpsGiven

LEMMA SteadyGood ==
    ASSUME NEW s, Good(s), NEW t, Sane(t), Steady(s, t), IpsGiven(t)
    PROVE  Good(t) /\ Locked(s, t)
<1>1. ModeShown(t)
  BY SteadyShows DEF Good
<1>2. MasterHasMode(t) /\ ModeGiven(t)
  BY DEF Good, MasterHasMode, ModeGiven, HasValidMode, IsValidMode, Steady, Keeps
<1>3. Locked(s, t)
  BY DEF Locked, Steady, Keeps
<1>4. QED
  BY <1>1, <1>2, <1>3 DEF Good

LEMMA CalmGood ==
    ASSUME NEW s, Good(s), NEW t, Sane(t), Calm(s, t)
    PROVE  Good(t) /\ Locked(s, t)
<1>1. IpsGiven(t)
  BY DEF Good, Calm, Steady, Keeps, IpsGiven
<1>2. QED
  BY <1>1, SteadyGood DEF Calm

\* What a mode that is valid and was sent leaves
LEMMA SentGood ==
    ASSUME NEW s, Sane(s), ModeShown(s), s.masterActive => s.masterSet,
           HasValidMode(s), ModeGiven(s), IpsGiven(s)
    PROVE  Good(s)
BY DEF Good, MasterHasMode

LEMMA GoodPending ==
    ASSUME NEW s, Good(s)
    PROVE  IpsPending(s) /\ (s.masterActive => s.masterSet /\ s.data.modeInit)
BY DEF Good, IpsGiven, IpsPending, MasterHasMode, HasValidMode

(***************************************************************************)
(* The constructor                                                         *)
(***************************************************************************)

LEMMA StartIs ==
    ASSUME NEW file \in Data, file.modeInit => file.mode \in Modes,
           NEW luck \in Lucks
    PROVE  LET t == Start(file, luck)
           IN /\ Good(t) /\ IpsShown(t)
              /\ (file.modeInit /\ IsValidMode(t, file.mode))
                     => t.data.mode = file.mode /\ t.data.locked = file.locked
<1> DEFINE fresh == [data |-> file, file |-> file, customer |-> SupportedModes,
                     dbusMode |-> NoMode, ipsObject |-> FALSE, dbusIps |-> NoIps,
                     ipsActive |-> FALSE, watching |-> FALSE, fd |-> "none",
                     needToSendIpsData |-> FALSE, masterSet |-> FALSE,
                     masterActive |-> FALSE, occMode |-> NoMode, occIps |-> NoIps,
                     modeFailed |-> FALSE, ipsFailed |-> FALSE,
                     notRestored |-> FALSE]
           got == GetMode(fresh, luck)
           shown == UpdateDbusMode(got, got.data.mode, luck)
           without == InvalidateMode(got)
           missing == InitPersistentData(without, luck)
<1>1. Start(file, luck) = IF HasValidMode(got) THEN shown ELSE missing
  BY DEF Start
<1>2. /\ fresh \in Objects /\ fresh.data = file /\ fresh.file = file
      /\ ~fresh.masterActive /\ ~fresh.ipsObject
  <2>1. NoIps \in IpsParms
    BY DefaultsAreIps
  <2>2. SupportedModes \in SUBSET Modes
    BY DEF SupportedModes, Modes
  <2>3. QED
    BY <2>1, <2>2 DEF Objects, Descriptors
<1> HIDE DEF fresh
<1>3. Sane(fresh) /\ IpsShown(fresh)
  BY <1>2 DEF Sane, IpsShown
<1>4. /\ Sane(got) /\ Keeps(fresh, got)
      /\ file.modeInit => got = fresh
  BY <1>2, <1>3, GetModeIs
<1> HIDE DEF got
<1>5. CASE HasValidMode(got)
  <2>1. got.data.modeInit /\ got.data.mode \in Modes
        /\ IsValidMode(got, got.data.mode)
    BY <1>4, <1>5 DEF HasValidMode, Sane
  <2>2. /\ Sane(shown) /\ Keeps(got, shown)
        /\ shown.dbusMode = DbusModeOf(shown, got.data.mode)
        /\ shown.data.mode = got.data.mode
        /\ shown.ipsObject = ~Eco(got.data.mode)
    BY <1>4, <2>1, UpdateDbusModeIs
  <2> HIDE DEF shown
  <2>3. ModeShown(shown)
    BY <2>2 DEF ModeShown, IpsAllowed
  <2>4. Keeps(fresh, shown)
    BY <1>4, <2>2, KeepsTrans
  <2>5. Good(shown) /\ IpsShown(shown)
    BY <1>2, <1>3, <2>2, <2>3, <2>4, NoMasterGood DEF Keeps
  <2>6. QED
    BY <1>1, <1>2, <1>4, <1>5, <2>2, <2>4, <2>5 DEF Keeps
<1>6. CASE ~HasValidMode(got)
  <2>1. Sane(without) /\ Keeps(got, without) /\ ~without.data.modeInit
    BY <1>4, InvalidateModeIs
  <2> HIDE DEF without
  <2>2. /\ Sane(missing) /\ Keeps(without, missing)
        /\ ModeShown(without) => ModeShown(missing)
    BY <2>1, InitPersistentDataIs
  <2> HIDE DEF missing
  <2>3. Keeps(fresh, missing) /\ Keeps(got, missing)
    BY <1>4, <2>1, <2>2, KeepsTrans
  <2>4. ModeShown(missing)
    BY <2>1, <2>2, InvalidShows
  <2>5. Good(missing) /\ IpsShown(missing)
    BY <1>2, <1>3, <2>2, <2>3, <2>4, NoMasterGood DEF Keeps
  <2>6. ~(file.modeInit /\ IsValidMode(missing, file.mode))
    BY <1>2, <1>4, <1>6, <2>3 DEF HasValidMode, IsValidMode, Keeps
  <2>7. QED
    BY <1>1, <1>6, <2>5, <2>6
<1>7. QED
  BY <1>5, <1>6

(***************************************************************************)
(* The handlers                                                            *)
(***************************************************************************)

\* What a client wrote is shown and persisted, or the defaults are.
LEMMA ChangeIpsIs ==
    ASSUME NEW s, Sane(s), NEW write \in IpsWrites
    PROVE  LET t == ChangeIps(s, write)
           IN Sane(t) /\ Steady(s, t) /\ IpsShown(t)
<1> DEFINE ips == [IpsOf(s) EXCEPT ![write.prop] = write.value]
           t == ChangeIps(s, write)
<1>1. ips \in IpsParms
  <2>1. IpsOf(s) \in IpsParms
    BY DefaultsAreIps DEF IpsOf, Sane, Objects, Data
  <2>2. write.prop \in {"enter", "exit"} /\ write.value \in Utils
    BY WritesAssumption
  <2>3. CASE write.prop = "enter"
    BY <2>1, <2>2, <2>3 DEF IpsParms
  <2>4. CASE write.prop = "exit"
    BY <2>1, <2>2, <2>4 DEF IpsParms
  <2>5. QED
    BY <2>2, <2>3, <2>4
<1>2. t = IF ips.exit # 0 THEN UpdateDbusIPS(UpdateIPS(s, ips), ips)
          ELSE IF emReady THEN UseDefaultIPSParms(s)
          ELSE [s EXCEPT !.notRestored = TRUE]
  BY DEF ChangeIps
<1> HIDE DEF ips, t
<1>3. CASE ips.exit # 0
  <2>1. t = UpdateDbusIPS(UpdateIPS(s, ips), ips)
    BY <1>2, <1>3
  <2>2. QED
    BY <1>1, <2>1, TellIPS DEF t
<1>4. CASE ips.exit = 0 /\ emReady
  <2>1. t = UseDefaultIPSParms(s)
    BY <1>2, <1>4
  <2>2. QED
    BY <1>4, <2>1, UseDefaultsIs DEF t
<1>5. CASE ips.exit = 0 /\ ~emReady
  <2>1. t = [s EXCEPT !.notRestored = TRUE]
    BY <1>2, <1>5
  <2>2. /\ t \in Objects /\ t.data = s.data /\ t.file = s.file
        /\ t.customer = s.customer /\ t.masterSet = s.masterSet
        /\ t.masterActive = s.masterActive
        /\ t.dbusMode = s.dbusMode /\ t.ipsObject = s.ipsObject
        /\ t.occMode = s.occMode /\ t.modeFailed = s.modeFailed
        /\ t.notRestored
    BY <2>1 DEF Sane, Objects
  <2>3. Sane(t) /\ Steady(s, t) /\ IpsShown(t)
    BY <2>2 DEF Sane, Steady, Keeps, IpsShown
  <2>4. QED
    BY <2>3 DEF t
<1>6. QED
  BY <1>3, <1>4, <1>5

\* The handler of the signal, whether or not the object is still there
LEMMA IpsChangedIs ==
    ASSUME Good(pm), NEW luck \in Lucks, NEW write \in IpsWrites
    PROVE  LET read == GetIPSParms(pm, luck)
               t == IF read.ipsObject
                    THEN SendIpsData(ChangeIps(read, write), luck) ELSE read
           IN Good(t) /\ IpsShown(t) /\ Locked(pm, t)
<1> DEFINE read == GetIPSParms(pm, luck)
           changed == ChangeIps(read, write)
           t == SendIpsData(changed, luck)
<1>1. Sane(pm) /\ (pm.masterActive => pm.masterSet /\ pm.data.modeInit)
  BY GoodPending DEF Good
<1>2. /\ Sane(read) /\ Keeps(pm, read)
      /\ ModeShown(pm) => ModeShown(read)
      /\ pm.data.modeInit => Calm(pm, read)
  BY <1>1, GetIPSParmsIs
<1> HIDE DEF read
<1>3. Good(read) /\ Locked(pm, read)
  <2>1. CASE pm.data.modeInit
    BY <1>2, <2>1, CalmGood
  <2>2. CASE ~pm.data.modeInit
    <3>1. ~read.masterActive
      BY <1>1, <1>2, <2>2 DEF Keeps
    <3>2. Good(read)
      BY <1>2, <3>1, NoMasterGood DEF Good
    <3>3. QED
      BY <2>2, <3>2 DEF Locked, HasValidMode
  <2>3. QED
    BY <2>1, <2>2
<1>4. CASE read.ipsObject
  <2>1. Sane(changed) /\ Steady(read, changed) /\ IpsShown(changed)
    BY <1>2, ChangeIpsIs
  <2> HIDE DEF changed
  <2>2. changed.masterActive => changed.masterSet /\ changed.data.modeInit
    BY <1>3, <2>1, GoodPending DEF Steady, Keeps
  <2>3. /\ Sane(t) /\ Steady(changed, t)
        /\ (OccReachable(changed) /\ changed.ipsObject /\ ~t.ipsFailed)
               => GoodIps(t)
    BY <2>1, <2>2, SendIpsDataIs
  <2> HIDE DEF t
  <2>4. Steady(read, t) /\ IpsShown(t)
    BY <2>1, <2>3, SteadyTrans DEF Steady, Keeps
  <2>5. IpsGiven(t)
    BY <2>2, <2>3 DEF IpsGiven, OccReachable, Steady, Keeps
  <2>6. Good(t) /\ Locked(read, t)
    BY <1>3, <2>3, <2>4, <2>5, SteadyGood
  <2>7. Locked(pm, t)
    BY <1>2, <1>3, <2>4, <2>6
       DEF Locked, HasValidMode, IsValidMode, Steady, Keeps, Calm
  <2>8. QED
    BY <1>4, <2>4, <2>6, <2>7 DEF read, changed, t
<1>5. CASE ~read.ipsObject
  BY <1>3, <1>5 DEF IpsShown, read
<1>6. QED
  BY <1>4, <1>5

LEMMA DefaultsReadyIs ==
    ASSUME Good(pm), NEW luck \in Lucks
    PROVE  LET kept == IF HasValidMode(pm) THEN pm ELSE InvalidateMode(pm)
               t == InitPersistentData(kept, luck)
           IN Good(t) /\ Keeps(pm, t) /\ Locked(pm, t)
<1> DEFINE kept == IF HasValidMode(pm) THEN pm ELSE InvalidateMode(pm)
           t == InitPersistentData(kept, luck)
<1>1. CASE HasValidMode(pm)
  <2>1. Sane(t) /\ Calm(pm, t)
    BY <1>1, InitPersistentDataIs DEF Good, HasValidMode
  <2>2. QED
    BY <2>1, CalmGood DEF Calm, Steady
<1>2. CASE ~HasValidMode(pm)
  <2>1. kept = InvalidateMode(pm)
    BY <1>2
  <2> HIDE DEF kept
  <2>2. Sane(kept) /\ Keeps(pm, kept) /\ ~kept.data.modeInit
    BY <2>1, InvalidateModeIs DEF Good
  <2>3. /\ Sane(t) /\ Keeps(kept, t)
        /\ ModeShown(kept) => ModeShown(t)
    BY <2>2, InitPersistentDataIs
  <2> HIDE DEF t
  <2>4. Keeps(pm, t) /\ ModeShown(t)
    BY <2>2, <2>3, KeepsTrans, InvalidShows
  <2>5. ~t.masterActive
    BY <1>2, <2>4 DEF Good, MasterHasMode, Keeps
  <2>6. Good(t) /\ Locked(pm, t)
    BY <1>2, <2>3, <2>4, <2>5, NoMasterGood DEF Locked
  <2>7. QED
    BY <2>4, <2>6 DEF t, kept
<1>3. QED
  BY <1>1, <1>2

\* A client's write is shown, and its signal under way.
LEMMA IpsWriteIs ==
    ASSUME Good(pm), NEW write \in IpsWrites
    PROVE  Good([pm EXCEPT !.dbusIps[write.prop] = write.value])
           /\ Locked(pm, [pm EXCEPT !.dbusIps[write.prop] = write.value])
<1> DEFINE ips == [pm.dbusIps EXCEPT ![write.prop] = write.value]
           t == [pm EXCEPT !.dbusIps = ips]
<1>1. Sane(pm)
  BY DEF Good
<1>2. ips \in IpsParms
  <2>1. pm.dbusIps \in IpsParms
    BY <1>1 DEF Sane, Objects
  <2>2. write.prop \in {"enter", "exit"} /\ write.value \in Utils
    BY WritesAssumption
  <2>3. CASE write.prop = "enter"
    BY <2>1, <2>2, <2>3 DEF IpsParms
  <2>4. CASE write.prop = "exit"
    BY <2>1, <2>2, <2>4 DEF IpsParms
  <2>5. QED
    BY <2>2, <2>3, <2>4
<1>3. [pm EXCEPT !.dbusIps[write.prop] = write.value] = t
  BY <1>1 DEF Sane, Objects
<1> HIDE DEF ips
<1>4. /\ t \in Objects /\ t.data = pm.data /\ t.file = pm.file
      /\ t.customer = pm.customer /\ t.masterSet = pm.masterSet
      /\ t.masterActive = pm.masterActive
      /\ t.dbusMode = pm.dbusMode /\ t.ipsObject = pm.ipsObject
      /\ t.occMode = pm.occMode /\ t.modeFailed = pm.modeFailed
      /\ t.needToSendIpsData = pm.needToSendIpsData
      /\ t.occIps = pm.occIps /\ t.ipsFailed = pm.ipsFailed
  BY <1>1, <1>2 DEF Sane, Objects
<1> HIDE DEF t
<1>5. Sane(t)
  BY <1>1, <1>4 DEF Sane
<1>6. Good(t)
  BY <1>4, <1>5
     DEF Good, ModeShown, MasterHasMode, ModeGiven, IpsGiven, GoodIps,
         IpsAllowed, HasValidMode, IsValidMode, DbusModeOf
<1>7. QED
  BY <1>3, <1>4, <1>6 DEF Locked

\* Only what is watched changes.
LEMMA AnalyzeIpsEventIs ==
    ASSUME Good(pm), NEW luck \in Lucks, AnalyzeIpsEvent(luck)
    PROVE  Good(pm') /\ Keeps(pm, pm') /\ Locked(pm, pm')
<1>1. PICK seek \in OkOr("read"), read \in OkOr("read"), active \in BOOLEAN :
        LET s == IF seek THEN pm ELSE AddIpsWatch(RemoveIpsWatch(pm), luck)
        IN pm' = IF s.watching /\ read
                 THEN [s EXCEPT !.ipsActive = active /\ s.ipsObject]
                 ELSE RemoveIpsWatch(s)
  BY DEF AnalyzeIpsEvent
<1> DEFINE s == IF seek THEN pm ELSE AddIpsWatch(RemoveIpsWatch(pm), luck)
<1>2. Sane(pm)
  BY DEF Good
<1>3. Sane(s) /\ Calm(pm, s)
  <2>1. CASE seek
    BY <1>2, <2>1, CalmSelf
  <2>2. CASE ~seek
    BY <1>2, <2>2, RemoveIpsWatchIs, AddIpsWatchIs, CalmTrans
  <2>3. QED
    BY <2>1, <2>2
<1>4. pm' = IF s.watching /\ read
            THEN [s EXCEPT !.ipsActive = active /\ s.ipsObject]
            ELSE RemoveIpsWatch(s)
  BY <1>1
<1> HIDE DEF s
<1>5. Sane(pm') /\ Calm(s, pm')
  <2>1. CASE s.watching /\ read
    <3> DEFINE on == active /\ s.ipsObject
               t == [s EXCEPT !.ipsActive = on]
    <3>1. on \in BOOLEAN
      OBVIOUS
    <3> HIDE DEF on
    <3>2. /\ t \in Objects /\ t.data = s.data /\ t.file = s.file
          /\ t.customer = s.customer /\ t.masterSet = s.masterSet
          /\ t.masterActive = s.masterActive
          /\ t.dbusMode = s.dbusMode /\ t.ipsObject = s.ipsObject
          /\ t.occMode = s.occMode /\ t.modeFailed = s.modeFailed
          /\ t.needToSendIpsData = s.needToSendIpsData
          /\ t.occIps = s.occIps /\ t.ipsFailed = s.ipsFailed
          /\ t.dbusIps = s.dbusIps /\ t.notRestored = s.notRestored
      BY <1>3, <3>1 DEF Sane, Objects
    <3> HIDE DEF t
    <3>3. Sane(t) /\ Calm(s, t)
      BY <1>3, <3>2 DEF Sane, Calm, Steady, Keeps, IpsShown, GoodIps
    <3>4. pm' = t
      BY <1>4, <2>1 DEF t, on
    <3>5. QED
      BY <3>3, <3>4
  <2>2. CASE ~(s.watching /\ read)
    BY <1>3, <1>4, <2>2, RemoveIpsWatchIs
  <2>3. QED
    BY <2>1, <2>2
<1>6. Calm(pm, pm')
  BY <1>3, <1>5, CalmTrans
<1>7. QED
  BY <1>5, <1>6, CalmGood DEF Calm, Steady

LEMMA ModeLockIs ==
    ASSUME Good(pm)
    PROVE  LET t == Save([pm EXCEPT !.data.locked = TRUE])
           IN Good(t) /\ (IpsShown(pm) => IpsShown(t)) /\ Locked(pm, t)
<1> DEFINE d == [pm.data EXCEPT !.locked = TRUE]
           t == [pm EXCEPT !.data = d, !.file = d]
<1>1. pm \in Objects /\ pm.data \in Data /\ Sane(pm)
  BY DEF Good, Sane, Objects
<1>2. /\ d \in Data /\ d.locked /\ d.modeInit = pm.data.modeInit
      /\ d.mode = pm.data.mode /\ d.ipsInit = pm.data.ipsInit
      /\ d.ips = pm.data.ips
  BY <1>1 DEF Data
<1>3. Save([pm EXCEPT !.data.locked = TRUE]) = t
  BY <1>1 DEF Save, Objects, Data
<1> HIDE DEF d
<1>4. /\ t \in Objects /\ t.data = d /\ t.file = d
      /\ t.customer = pm.customer /\ t.masterSet = pm.masterSet
      /\ t.masterActive = pm.masterActive
      /\ t.dbusMode = pm.dbusMode /\ t.ipsObject = pm.ipsObject
      /\ t.occMode = pm.occMode /\ t.modeFailed = pm.modeFailed
      /\ t.needToSendIpsData = pm.needToSendIpsData
      /\ t.occIps = pm.occIps /\ t.ipsFailed = pm.ipsFailed
      /\ t.dbusIps = pm.dbusIps /\ t.notRestored = pm.notRestored
  BY <1>1, <1>2 DEF Objects
<1> HIDE DEF t
<1>5. Sane(t)
  BY <1>1, <1>2, <1>4 DEF Sane
<1>6. Good(t)
  BY <1>2, <1>4, <1>5
     DEF Good, ModeShown, MasterHasMode, ModeGiven, IpsGiven, GoodIps,
         IpsAllowed, HasValidMode, IsValidMode, DbusModeOf
<1>7. (IpsShown(pm) => IpsShown(t)) /\ Locked(pm, t)
  BY <1>2, <1>4 DEF IpsShown, Locked
<1>8. QED
  BY <1>3, <1>6, <1>7

\* The new mode is persisted before it is sent, and sent before it is shown.
LEMMA PowerModePropertyIs ==
    ASSUME Good(pm), NEW luck \in Lucks, NEW mode \in Modes,
           mode \in pm.customer, ~pm.data.locked
    PROVE  LET t == [SendModeChange(UpdateMode(pm, mode), luck)
                        EXCEPT !.dbusMode = mode]
           IN Good(t) /\ Keeps(pm, t) /\ Locked(pm, t)
<1> DEFINE u == UpdateMode(pm, mode)
           v == SendModeChange(u, luck)
           t == [v EXCEPT !.dbusMode = mode]
<1>1. Sane(pm) /\ IpsPending(pm) /\ (pm.masterActive => pm.masterSet)
  BY GoodPending DEF Good
<1>2. /\ Sane(u) /\ Keeps(pm, u) /\ u.data.modeInit /\ u.data.mode = mode
      /\ IpsPending(u)
  BY <1>1, UpdateModeIs DEF Keeps, IpsPending, GoodIps
<1> HIDE DEF u
<1>3. HasValidMode(u) /\ (u.masterActive => u.masterSet)
  BY <1>1, <1>2 DEF HasValidMode, IsValidMode, Keeps
<1>4. /\ Sane(v) /\ Keeps(u, v) /\ HasValidMode(v) /\ v.data.mode = mode
      /\ ModeGiven(v) /\ IpsGiven(v) /\ IpsAllowed(v)
  BY <1>2, <1>3, SendModeChangeIs
<1> HIDE DEF v
<1>5. /\ Sane(t) /\ Keeps(v, t) /\ t.data = v.data
      /\ t.dbusMode = mode /\ t.ipsObject = v.ipsObject
      /\ t.occMode = v.occMode /\ t.modeFailed = v.modeFailed
      /\ t.needToSendIpsData = v.needToSendIpsData
      /\ t.occIps = v.occIps /\ t.ipsFailed = v.ipsFailed
  BY <1>4, SetDbusMode
<1> HIDE DEF t
<1>6. Keeps(pm, t)
  BY <1>2, <1>4, <1>5, KeepsTrans
<1>7. /\ HasValidMode(t) /\ IpsAllowed(t) /\ ModeGiven(t) /\ IpsGiven(t)
      /\ t.masterActive => t.masterSet
  BY <1>1, <1>4, <1>5, <1>6
     DEF HasValidMode, IsValidMode, IpsAllowed, ModeGiven, IpsGiven, GoodIps,
         Keeps
<1>8. ModeShown(t)
  BY <1>4, <1>5, <1>6, <1>7 DEF ModeShown, DbusModeOf, Keeps
<1>9. Good(t)
  BY <1>5, <1>7, <1>8, SentGood
<1>10. QED
  BY <1>6, <1>9 DEF t, v, u, Locked

\* The pass-through interface shows the new mode before it is persisted.
LEMMA PassThroughSetModeIs ==
    ASSUME Good(pm), NEW luck \in Lucks, NEW mode \in Modes,
           IsValidMode(pm, mode), ~pm.data.locked
    PROVE  LET t == SendModeChange(
                        UpdateMode(UpdateDbusMode(pm, mode, luck), mode), luck)
           IN Good(t) /\ Keeps(pm, t) /\ Locked(pm, t)
<1> DEFINE u == UpdateDbusMode(pm, mode, luck)
           v == UpdateMode(u, mode)
           t == SendModeChange(v, luck)
<1>1. /\ Sane(pm) /\ IpsPending(pm)
      /\ pm.masterActive => pm.masterSet /\ pm.data.modeInit
  BY GoodPending DEF Good
<1>2. /\ Sane(u) /\ Keeps(pm, u) /\ u.dbusMode = DbusModeOf(u, mode)
      /\ IpsPending(u)
  <2>1. /\ Sane(u) /\ Keeps(pm, u) /\ u.dbusMode = DbusModeOf(u, mode)
        /\ pm.data.modeInit => IpsPending(u)
    BY <1>1, UpdateDbusModeIs
  <2>2. QED
    BY <1>1, <2>1 DEF IpsPending, Keeps
<1> HIDE DEF u
<1>3. /\ Sane(v) /\ Keeps(u, v) /\ v.data.modeInit /\ v.data.mode = mode
      /\ v.dbusMode = u.dbusMode /\ IpsPending(v)
  BY <1>2, UpdateModeIs DEF Keeps, IpsPending, GoodIps
<1> HIDE DEF v
<1>4. /\ HasValidMode(v) /\ v.dbusMode = DbusModeOf(v, mode)
      /\ v.masterActive => v.masterSet
  BY <1>1, <1>2, <1>3 DEF HasValidMode, IsValidMode, DbusModeOf, Keeps
<1>5. /\ Sane(t) /\ Keeps(v, t) /\ HasValidMode(t) /\ t.data.mode = mode
      /\ ModeGiven(t) /\ IpsGiven(t) /\ IpsAllowed(t)
      /\ t.dbusMode = v.dbusMode
  BY <1>3, <1>4, SendModeChangeIs
<1> HIDE DEF t
<1>6. Keeps(pm, t)
  BY <1>2, <1>3, <1>5, KeepsTrans
<1>7. ModeShown(t) /\ (t.masterActive => t.masterSet)
  BY <1>1, <1>4, <1>5, <1>6 DEF ModeShown, DbusModeOf, Keeps
<1>8. Good(t)
  BY <1>5, <1>7, SentGood
<1>9. QED
  BY <1>6, <1>8 DEF t, v, u, Locked

\* The mode is sent to a master that went active; if it cannot be, the master
\* is disabled.
LEMMA MasterWentActiveIs ==
    ASSUME Good(pm), NEW luck \in Lucks, MasterWentActive(luck)
    PROVE  Good(pm') /\ (IpsShown(pm) => IpsShown(pm')) /\ Locked(pm, pm')
<1> DEFINE toSend == pm.needToSendIpsData \/ pm.ipsObject
           on == [pm EXCEPT !.masterSet = TRUE, !.masterActive = TRUE,
                            !.needToSendIpsData = toSend,
                            !.occMode = NoMode, !.occIps = NoIps,
                            !.modeFailed = FALSE, !.ipsFailed = FALSE]
           sent == SendModeChange(on, luck)
<1>1. Sane(pm) /\ pm \in Objects /\ ModeShown(pm)
  BY DEF Good, Sane
<1>2. pm' = IF ModeChangeSent(sent) THEN sent ELSE MasterOff(sent)
  BY <1>1 DEF MasterWentActive, Objects
<1>3. toSend \in BOOLEAN /\ (pm.ipsObject => toSend)
  BY <1>1 DEF Objects
<1> HIDE DEF toSend
<1>4. /\ on \in Objects /\ on.data = pm.data /\ on.file = pm.file
      /\ on.customer = pm.customer /\ on.masterSet
      /\ on.dbusMode = pm.dbusMode /\ on.ipsObject = pm.ipsObject
      /\ on.needToSendIpsData = toSend
      /\ on.dbusIps = pm.dbusIps /\ on.notRestored = pm.notRestored
  BY <1>1, <1>3, DefaultsAreIps DEF Objects
<1> HIDE DEF on
<1>5. /\ Sane(on) /\ ModeShown(on) /\ ToSend(on) /\ IpsPending(on)
      /\ IpsShown(pm) => IpsShown(on)
      /\ HasValidMode(on) <=> HasValidMode(pm)
  BY <1>1, <1>3, <1>4
     DEF Sane, ModeShown, ToSend, IpsPending, IpsShown, IpsAllowed,
         HasValidMode, IsValidMode, DbusModeOf
<1>6. /\ Sane(sent) /\ Keeps(on, sent) /\ ModeShown(sent)
      /\ HasValidMode(sent) => ModeGiven(sent) /\ IpsGiven(sent)
      /\ HasValidMode(on) => sent.data.mode = on.data.mode
  BY <1>4, <1>5, SendModeChangeIs
<1> HIDE DEF sent
<1>7. /\ IpsShown(pm) => IpsShown(sent)
      /\ sent.masterSet /\ Locked(pm, sent)
  BY <1>4, <1>5, <1>6 DEF Keeps, Locked
<1>8. CASE ModeChangeSent(sent)
  <2>1. pm' = sent /\ HasValidMode(sent)
    BY <1>2, <1>8 DEF ModeChangeSent
  <2>2. Good(sent)
    BY <1>6, <1>7, <2>1, SentGood
  <2>3. QED
    BY <1>7, <2>1, <2>2
<1>9. CASE ~ModeChangeSent(sent)
  <2> DEFINE off == MasterOff(sent)
  <2>1. /\ Sane(off) /\ ~off.masterActive /\ off.data = sent.data
        /\ off.customer = sent.customer /\ off.dbusMode = sent.dbusMode
        /\ off.ipsObject = sent.ipsObject
        /\ IpsShown(sent) => IpsShown(off)
    BY <1>6, MasterOffIs
  <2> HIDE DEF off
  <2>2. ModeShown(off)
    BY <1>6, <2>1
       DEF ModeShown, IpsAllowed, HasValidMode, IsValidMode, DbusModeOf
  <2>3. Good(off)
    BY <2>1, <2>2, NoMasterGood
  <2>4. Locked(pm, off)
    BY <1>7, <2>1 DEF Locked, IsValidMode
  <2>5. pm' = off
    BY <1>2, <1>9 DEF off
  <2>6. QED
    BY <1>7, <2>1, <2>3, <2>4, <2>5
<1>10. QED
  BY <1>8, <1>9

LEMMA MasterOffGood ==
    ASSUME Good(pm)
    PROVE  LET t == MasterOff(pm)
           IN Good(t) /\ (IpsShown(pm) => IpsShown(t)) /\ Locked(pm, t)
<1> DEFINE t == MasterOff(pm)
<1>1. /\ Sane(t) /\ ~t.masterActive /\ t.data = pm.data
      /\ t.customer = pm.customer /\ t.dbusMode = pm.dbusMode
      /\ t.ipsObject = pm.ipsObject
      /\ IpsShown(pm) => IpsShown(t)
  BY MasterOffIs DEF Good
<1> HIDE DEF t
<1>2. ModeShown(t)
  BY <1>1 DEF Good, ModeShown, IpsAllowed, HasValidMode, IsValidMode, DbusModeOf
<1>3. Good(t)
  BY <1>1, <1>2, NoMasterGood
<1>4. QED
  BY <1>1, <1>3 DEF t, Locked

LEMMA OtherFilesIs ==
    ASSUME Good(pm), OtherFiles
    PROVE  Good(pm') /\ Keeps(pm, pm') /\ Locked(pm, pm')
<1>1. PICK fd \in Descriptors : pm' = [pm EXCEPT !.fd = fd]
  BY DEF OtherFiles, Descriptors
<1>2. Sane(pm)
  BY DEF Good
<1> DEFINE t == [pm EXCEPT !.fd = fd]
<1>3. /\ t \in Objects /\ t.data = pm.data /\ t.file = pm.file
      /\ t.customer = pm.customer /\ t.masterSet = pm.masterSet
      /\ t.masterActive = pm.masterActive
      /\ t.dbusMode = pm.dbusMode /\ t.ipsObject = pm.ipsObject
      /\ t.occMode = pm.occMode /\ t.modeFailed = pm.modeFailed
      /\ t.needToSendIpsData = pm.needToSendIpsData
      /\ t.occIps = pm.occIps /\ t.ipsFailed = pm.ipsFailed
      /\ t.dbusIps = pm.dbusIps /\ t.notRestored = pm.notRestored
  BY <1>2 DEF Sane, Objects
<1> HIDE DEF t
<1>4. Sane(t) /\ Calm(pm, t)
  BY <1>2, <1>3 DEF Sane, Calm, Steady, Keeps, IpsShown, GoodIps
<1>5. pm' = t
  BY <1>1 DEF t
<1>6. QED
  BY <1>4, <1>5, CalmGood DEF Calm, Steady

(***************************************************************************)
(* The invariant, and the theorems                                         *)
(***************************************************************************)

Environment ==
    /\ emReady \in BOOLEAN
    /\ signals \in Seq(IpsWrites) /\ Len(signals) <= MaxSignals

\* What every handler leaves, whichever commands and files failed it
Inv == Good(pm) /\ (signals = <<>> => IpsShown(pm)) /\ Environment

LEMMA InitInv == Init => Inv
<1> SUFFICES ASSUME Init PROVE Inv
  OBVIOUS
<1>1. PICK luck \in Lucks : pm = Start(NoData, luck)
  BY DEF Init
<1>2. NoData \in Data /\ ~NoData.modeInit
  BY DefaultsAreIps DEF NoData, Data
<1>3. Good(pm) /\ IpsShown(pm)
  BY <1>1, <1>2, StartIs
<1>4. Environment
  <2>1. signals = <<>> /\ MaxSignals \in Nat
    BY WritesAssumption DEF Init
  <2>2. signals \in Seq(IpsWrites) /\ Len(signals) = 0
    BY <2>1
  <2>3. emReady \in BOOLEAN
    BY DEF Init
  <2>4. QED
    BY <2>1, <2>2, <2>3 DEF Environment
<1>5. QED
  BY <1>3, <1>4 DEF Inv

\* One step: the invariant is kept, and the lock holds.
LEMMA NextInv ==
    ASSUME Inv, [Next]_vars
    PROVE  Inv' /\ Locked(pm, pm')
<1>1. /\ Good(pm) /\ Sane(pm) /\ pm \in Objects /\ Environment
      /\ signals = <<>> => IpsShown(pm)
  BY DEF Inv, Good, Sane
\* A handler of one of these keeps what is shown, and leaves the signals.
<1>2. ASSUME Good(pm'), IpsShown(pm) => IpsShown(pm'), Locked(pm, pm'),
             signals' = signals, emReady' \in BOOLEAN
      PROVE  Inv' /\ Locked(pm, pm')
  <2>1. Environment'
    BY <1>1, <1>2 DEF Environment
  <2>2. signals' = <<>> => IpsShown(pm')
    BY <1>1, <1>2
  <2>3. QED
    BY <1>2, <2>1, <2>2 DEF Inv, Good, IpsShown
<1>3. emReady \in BOOLEAN
  BY <1>1 DEF Environment
<1>4. CASE PowerModeLock
  <2>1. pm' = Save([pm EXCEPT !.data.locked = TRUE]) /\ UNCHANGED <<emReady, signals>>
    BY <1>4 DEF PowerModeLock
  <2>2. QED
    BY <1>1, <1>2, <1>3, <2>1, ModeLockIs
<1>5. CASE EntityManagerReady \/ EntityManagerStops \/ UNCHANGED vars
  <2>1. pm' = pm /\ signals' = signals /\ emReady' \in BOOLEAN
    BY <1>3, <1>5 DEF EntityManagerReady, EntityManagerStops, vars
  <2>2. Locked(pm, pm')
    BY <2>1 DEF Locked
  <2>3. QED
    BY <1>1, <1>2, <2>1, <2>2
<1>6. CASE MasterWentInactive
  <2>1. pm' = MasterOff(pm) /\ UNCHANGED <<emReady, signals>>
    BY <1>6 DEF MasterWentInactive
  <2>2. QED
    BY <1>1, <1>2, <1>3, <2>1, MasterOffGood
<1>7. CASE OtherFiles
  <2>1. UNCHANGED <<emReady, signals>>
    BY <1>7 DEF OtherFiles
  <2>2. QED
    BY <1>1, <1>2, <1>3, <1>7, <2>1, OtherFilesIs DEF Keeps
<1>8. ASSUME NEW write \in IpsWrites, IpsWrite(write)
      PROVE  Inv' /\ Locked(pm, pm')
  <2>1. /\ pm' = [pm EXCEPT !.dbusIps[write.prop] = write.value]
        /\ signals' = Append(signals, write) /\ emReady' = emReady
        /\ Len(signals) < MaxSignals
    BY <1>8 DEF IpsWrite
  <2>2. Good(pm') /\ Locked(pm, pm')
    BY <1>1, <2>1, IpsWriteIs
  <2>3. signals \in Seq(IpsWrites) /\ MaxSignals \in Nat
    BY <1>1, WritesAssumption DEF Environment
  <2>4. /\ signals' \in Seq(IpsWrites)
        /\ Len(signals') = Len(signals) + 1 /\ Len(signals) \in Nat
    BY <2>1, <2>3
  <2>5. signals' # <<>> /\ Len(signals') <= MaxSignals
    BY <2>1, <2>3, <2>4
  <2>6. Environment'
    BY <1>3, <2>1, <2>4, <2>5 DEF Environment
  <2>7. QED
    BY <2>2, <2>5, <2>6 DEF Inv, Good
<1>9. ASSUME NEW luck \in Lucks, IpsChanged(luck)
      PROVE  Inv' /\ Locked(pm, pm')
  <2>1. /\ signals # <<>> /\ signals \in Seq(IpsWrites)
        /\ signals' = Tail(signals) /\ emReady' = emReady
    BY <1>1, <1>9 DEF IpsChanged, Environment
  <2>2. /\ Head(signals) \in IpsWrites
        /\ signals' \in Seq(IpsWrites) /\ Len(signals') = Len(signals) - 1
    BY <2>1
  <2>3. Environment'
    <3>1. /\ Len(signals) \in Nat /\ Len(signals) <= MaxSignals
          /\ MaxSignals \in Nat
      BY <1>1, <2>1, WritesAssumption DEF Environment
    <3>2. Len(signals') <= MaxSignals
      BY <2>2, <3>1
    <3>3. QED
      BY <1>3, <2>1, <2>2, <3>2 DEF Environment
  <2>4. LET read == GetIPSParms(pm, luck)
        IN pm' = IF read.ipsObject
                 THEN SendIpsData(ChangeIps(read, Head(signals)), luck) ELSE read
    BY <1>9 DEF IpsChanged
  <2>5. Good(pm') /\ IpsShown(pm') /\ Locked(pm, pm')
    BY <1>1, <2>2, <2>4, IpsChangedIs
  <2>6. QED
    BY <2>3, <2>5 DEF Inv, Good, IpsShown
<1>10. ASSUME NEW luck \in Lucks, DefaultsReady(luck)
       PROVE  Inv' /\ Locked(pm, pm')
  <2>1. LET kept == IF HasValidMode(pm) THEN pm ELSE InvalidateMode(pm)
        IN pm' = InitPersistentData(kept, luck)
    BY <1>10 DEF DefaultsReady
  <2>2. UNCHANGED <<emReady, signals>>
    BY <1>10 DEF DefaultsReady
  <2>3. Good(pm') /\ Keeps(pm, pm') /\ Locked(pm, pm')
    BY <1>1, <2>1, DefaultsReadyIs
  <2>4. QED
    BY <1>2, <1>3, <2>2, <2>3 DEF Keeps
<1>11. ASSUME NEW luck \in Lucks, AnalyzeIpsEvent(luck)
       PROVE  Inv' /\ Locked(pm, pm')
  <2>1. UNCHANGED <<emReady, signals>>
    BY <1>11 DEF AnalyzeIpsEvent
  <2>2. Good(pm') /\ Keeps(pm, pm') /\ Locked(pm, pm')
    BY <1>1, <1>11, AnalyzeIpsEventIs
  <2>3. QED
    BY <1>2, <1>3, <2>1, <2>2 DEF Keeps
<1>12. ASSUME NEW luck \in Lucks, MasterWentActive(luck)
       PROVE  Inv' /\ Locked(pm, pm')
  <2>1. UNCHANGED <<emReady, signals>>
    BY <1>12 DEF MasterWentActive
  <2>2. Good(pm') /\ (IpsShown(pm) => IpsShown(pm')) /\ Locked(pm, pm')
    BY <1>1, <1>12, MasterWentActiveIs
  <2>3. QED
    BY <1>2, <1>3, <2>1, <2>2
<1>13. ASSUME NEW luck \in Lucks, Restart(luck)
       PROVE  Inv' /\ Locked(pm, pm')
  <2>1. pm' = Start(pm.file, luck) /\ signals' = <<>> /\ emReady' = emReady
    BY <1>13 DEF Restart
  <2>2. /\ pm.file \in Data
        /\ pm.file.modeInit => pm.file.mode \in Modes
        /\ pm.data.modeInit => pm.file = pm.data
    BY <1>1 DEF Sane, Objects
  <2>3. /\ Good(pm') /\ IpsShown(pm')
        /\ (pm.file.modeInit /\ IsValidMode(pm', pm.file.mode))
               => pm'.data.mode = pm.file.mode
                  /\ pm'.data.locked = pm.file.locked
    BY <2>1, <2>2, StartIs
  <2>4. Locked(pm, pm')
    BY <2>2, <2>3 DEF Locked, HasValidMode
  <2>5. Environment'
    <3>1. signals' \in Seq(IpsWrites) /\ Len(signals') = 0
      BY <2>1
    <3>2. QED
      BY <1>3, <2>1, <3>1, WritesAssumption DEF Environment
  <2>6. QED
    BY <2>3, <2>4, <2>5 DEF Inv, Good, IpsShown
<1>14. ASSUME NEW luck \in Lucks, NEW mode \in Modes,
              PowerModeProperty(mode, luck)
       PROVE  Inv' /\ Locked(pm, pm')
  <2>1. /\ ~pm.data.locked /\ mode \in pm.customer
        /\ pm' = [SendModeChange(UpdateMode(pm, mode), luck)
                     EXCEPT !.dbusMode = mode]
        /\ UNCHANGED <<emReady, signals>>
    BY <1>14 DEF PowerModeProperty
  <2>2. Good(pm') /\ Keeps(pm, pm') /\ Locked(pm, pm')
    BY <1>1, <2>1, PowerModePropertyIs
  <2>3. QED
    BY <1>2, <1>3, <2>1, <2>2 DEF Keeps
<1>15. ASSUME NEW luck \in Lucks, NEW mode \in Modes,
              PassThroughSetMode(mode, luck)
       PROVE  Inv' /\ Locked(pm, pm')
  <2>1. /\ ~pm.data.locked /\ IsValidMode(pm, mode)
        /\ pm' = SendModeChange(
                     UpdateMode(UpdateDbusMode(pm, mode, luck), mode), luck)
        /\ UNCHANGED <<emReady, signals>>
    BY <1>15 DEF PassThroughSetMode
  <2>2. Good(pm') /\ Keeps(pm, pm') /\ Locked(pm, pm')
    BY <1>1, <2>1, PassThroughSetModeIs
  <2>3. QED
    BY <1>2, <1>3, <2>1, <2>2 DEF Keeps
<1>16. QED
  BY <1>4, <1>5, <1>6, <1>7, <1>8, <1>9, <1>10, <1>11, <1>12, <1>13, <1>14,
     <1>15 DEF Next

LEMMA InvHolds == Spec => []Inv
<1>1. Inv /\ [Next]_vars => Inv'
  BY NextInv
<1>2. QED
  BY InitInv, <1>1, PTL DEF Spec

\* The object, its file and what the master OCC has are always well formed, and
\* an initialized mode is one of the modes.
THEOREM TypeCorrect == Spec => []TypeOK
<1>1. Inv => TypeOK
  BY DEF Inv, Good, Sane, Environment, TypeOK
<1>2. QED
  BY InvHolds, <1>1, PTL

\* The mode that is persisted is the one on D-Bus, and the IPS object is there
\* exactly if the mode allows it: after a client's write, the pass-through
\* interface, late defaults and every restart, and whatever failed.
THEOREM ModeShownAlways == Spec => []ModeIsShown
<1>1. Inv => ModeIsShown
  BY DEF Inv, Good, ModeShown, IpsAllowed, ModeIsShown
<1>2. QED
  BY InvHolds, <1>1, PTL

\* Once no write is under way the IPS object shows what is persisted.
THEOREM IpsShownAlways == Spec => []IpsIsShown
<1>1. Inv => IpsIsShown
  BY DEF Inv, IpsShown, IpsIsShown
<1>2. QED
  BY InvHolds, <1>1, PTL

\* The active master OCC runs in the persisted mode, unless it refused it.
THEOREM OccModeRight == Spec => []OccHasMode
<1>1. Inv => OccHasMode
  BY DEF Inv, Good, ModeGiven, OccHasMode
<1>2. QED
  BY InvHolds, <1>1, PTL

\* The active master OCC has the persisted parameters or those built in, in
\* order, unless it refused a command: a new IPS object is always sent.
THEOREM OccIpsRight == Spec => []OccHasIps
<1>1. Inv => OccHasIps
  BY DEF Inv, Good, IpsGiven, GoodIps, OccHasIps
<1>2. QED
  BY InvHolds, <1>1, PTL

\* A lock survives every handler, and every crash, since what is initialized
\* is always in the file.
THEOREM LockAlways == Spec => LockHolds
<1>1. Inv /\ [Next]_vars
        => [(pm.data.locked /\ HasValidMode(pm) /\ IsValidMode(pm', pm.data.mode))
              => (pm'.data.locked /\ pm'.data.mode = pm.data.mode)]_vars
  BY NextInv DEF Locked
<1>2. QED
  BY InvHolds, <1>1, PTL DEF Spec, LockHolds
=============================================================================
