------------------------------- MODULE PowerMode -------------------------------
(***************************************************************************)
(* The power mode and the Idle Power Saver (IPS) parameters                *)
(* (powermode.cpp): what is persisted, what D-Bus shows, what the master   *)
(* OCC was told, and the watch on the IPS status file.                     *)
(*                                                                         *)
(* Modes: "STATIC" stands for the modes every system supports, "EFF" for   *)
(* the efficiency (ECO) modes, in which there is no IPS object and which   *)
(* only the entity manager can allow, "OEM" for the OEM modes.  Of the IPS *)
(* parameters the two utilizations are kept, whose order matters.          *)
(*                                                                         *)
(* An operation maps a state of the PowerMode object to the next; luck     *)
(* says which of the commands and files it needs will work.                *)
(***************************************************************************)
EXTENDS Naturals, Sequences

CONSTANTS
    DefaultMode,    \* the default mode in the entity manager
    DefaultIps,     \* the default IPS parameters in the entity manager
    IpsWrites,      \* what clients write to the IPS object: [prop, value]
    MaxSignals,     \* bound on PropertiesChanged signals under way
    Faults          \* what may fail

Modes == {"STATIC", "EFF", "OEM"}
FaultKinds == {"mode", "ips", "watch", "read", "lateDefaults"}
Utils == 0 .. 2
IpsParms == [enter : Utils, exit : Utils]

ASSUME DefaultsAssumption ==
    /\ DefaultMode \in {"STATIC", "EFF"}
    /\ DefaultIps \in IpsParms
ASSUME WritesAssumption ==
    /\ IpsWrites \subseteq [prop : {"enter", "exit"}, value : Utils]
    /\ MaxSignals \in Nat
ASSUME FaultsAssumption == Faults \subseteq FaultKinds

VARIABLES
    pm,         \* the PowerMode object, its file and what the master OCC has
    emReady,    \* the entity manager's defaults can be read
    signals     \* writes to the IPS object whose signal is under way

vars == <<pm, emReady, signals>>

NoMode == "none"
NoIps == [enter |-> 0, exit |-> 0]
\* The parameters that getIPSParms and getDefaultIPSParms start from
FallbackIps == [enter |-> 1, exit |-> 2]

\* PowerModeData: what OccPersistData keeps and saves
NoData == [modeInit |-> FALSE, mode |-> NoMode, ipsInit |-> FALSE,
           ips |-> NoIps, locked |-> FALSE]
Data == [modeInit : BOOLEAN, mode : Modes \cup {NoMode}, ipsInit : BOOLEAN,
         ips : IpsParms, locked : BOOLEAN]

\* The commands and files an operation needs work, or not.
OkOr(kind) == IF kind \in Faults THEN BOOLEAN ELSE {TRUE}
\* Watching the IPS status file works, or there is no file, or it cannot be
\* opened, or the event loop refuses it.
WatchResults == IF "watch" \in Faults
                THEN {"watched", "noFile", "notOpened", "notRegistered"}
                ELSE {"watched"}
Lucks == [mode : OkOr("mode"), ips : OkOr("ips"), watch : WatchResults]

\* What the number in fd stands for: -1, the IPS status file, no file (any
\* more), or a file that another part of the program has opened since.
Descriptors == {"none", "ips", "closed", "other"}

\* The PowerMode object, its file, and what the master OCC has
Objects == [data : Data, file : Data, customer : SUBSET Modes,
            dbusMode : Modes \cup {NoMode}, ipsObject : BOOLEAN,
            dbusIps : IpsParms, ipsActive : BOOLEAN, watching : BOOLEAN,
            fd : Descriptors, needToSendIpsData : BOOLEAN, masterSet : BOOLEAN,
            masterActive : BOOLEAN, occMode : Modes \cup {NoMode},
            occIps : IpsParms, modeFailed : BOOLEAN, ipsFailed : BOOLEAN,
            notRestored : BOOLEAN]

OemModes == {"OEM"}
Eco(mode) == mode = "EFF"
IsValidMode(s, mode) == mode \in s.customer \cup OemModes
DbusModeOf(s, mode) == IF mode \in s.customer THEN mode ELSE "OEM"
HasValidMode(s) == s.data.modeInit /\ IsValidMode(s, s.data.mode)
OccReachable(s) == s.masterActive /\ s.masterSet

(***************************************************************************)
(* OccPersistData: every update is saved                                   *)
(***************************************************************************)
Save(s) == [s EXCEPT !.file = s.data]
UpdateMode_OnlyFlag(s, mode) == Save([s EXCEPT !.data.modeInit = TRUE])

UpdateMode(s, mode) == Save([s EXCEPT !.data.modeInit = TRUE, !.data.mode = mode])

UpdateIPS(s, ips) == Save([s EXCEPT !.data.ipsInit = TRUE, !.data.ips = ips])

InvalidateMode(s) == [s EXCEPT !.data.modeInit = FALSE]

(***************************************************************************)
(* The IPS object on D-Bus, and the watch on the IPS status file           *)
(***************************************************************************)
UpdateDbusIPS(s, ips) ==
    IF s.ipsObject THEN [s EXCEPT !.dbusIps = ips, !.notRestored = FALSE] ELSE s

\* close(fd): the number stays in fd.
Closed(fd) == IF fd = "none" THEN fd ELSE "closed"

AddIpsWatch(s, luck) ==
    IF s.watching THEN s
    ELSE [s EXCEPT !.watching = luck.watch = "watched",
                   !.fd = CASE luck.watch = "watched" -> "ips"
                            [] luck.watch = "noFile" -> @
                            [] luck.watch = "notOpened" -> "none"
                            [] luck.watch = "notRegistered" -> "closed"]

RemoveIpsWatch(s) ==
    [s EXCEPT !.watching = FALSE, !.ipsActive = FALSE, !.fd = Closed(@)]

RemoveIpsObject(s) ==
    IF s.ipsObject
    THEN [RemoveIpsWatch(s) EXCEPT !.ipsObject = FALSE, !.dbusIps = NoIps,
                                   !.needToSendIpsData = FALSE]
    ELSE [s EXCEPT !.needToSendIpsData = FALSE]

\* The enter utilization is compared before it has been read.
DefaultIPSParms ==
    LET fallback == [FallbackIps EXCEPT !.exit = DefaultIps.exit]
        ordered == IF fallback.enter > fallback.exit
                   THEN [fallback EXCEPT !.enter = fallback.exit] ELSE fallback
    IN [ordered EXCEPT !.enter = DefaultIps.enter]

UseDefaultIPSParms(s) ==
    IF emReady THEN UpdateDbusIPS(UpdateIPS(s, DefaultIPSParms), DefaultIPSParms)
    ELSE s

(***************************************************************************)
(* Persistent data.  initPersistentData, updateDbusMode, createIpsObject   *)
(* and getIPSParms call each other; the nested call finds the IPS object   *)
(* created, which ends the recursion.                                      *)
(***************************************************************************)

\* The default mode becomes the persisted mode.
Defaulted(s) == UpdateMode(s, DefaultMode)

\* updateDbusMode; withIps is s with an IPS object.
ShowMode(s, mode, withIps) ==
    IF ~IsValidMode(s, mode) THEN s
    ELSE [(IF Eco(mode) THEN RemoveIpsObject(s) ELSE withIps)
              EXCEPT !.dbusMode = DbusModeOf(s, mode)]

InitMode(s, withIps) ==
    IF s.data.modeInit \/ ~emReady THEN s
    ELSE ShowMode(Defaulted(s), DefaultMode, withIps)

InitIps(s) == IF s.data.modeInit /\ ~s.data.ipsInit THEN UseDefaultIPSParms(s) ELSE s

OrderIPS_NotShown(s) ==
    LET ips == s.data.ips
    IN IF s.data.ipsInit /\ ips.enter > ips.exit
       THEN UpdateIPS(s, [ips EXCEPT !.enter = ips.exit]) ELSE s

\* Parameters out of order are corrected where they are read.
OrderIPS(s) ==
    LET ips == s.data.ips
        ordered == [ips EXCEPT !.enter = ips.exit]
    IN IF s.data.ipsInit /\ ips.enter > ips.exit
       THEN UpdateDbusIPS(UpdateIPS(s, ordered), ordered) ELSE s

\* getIPSParms
ReadIPS(s, withIps) ==
    OrderIPS(IF s.data.ipsInit THEN s ELSE InitIps(InitMode(s, withIps)))

\* createIpsObject: what it calls finds the object created.
ReadByNew(s) == LET new == [s EXCEPT !.ipsObject = TRUE] IN ReadIPS(new, Defaulted(new))

CreateIpsObject_NotNeeded(s, luck) ==
    IF s.ipsObject THEN s
    ELSE LET read == ReadByNew(s)
         IN AddIpsWatch(IF read.data.ipsInit
                        THEN UpdateDbusIPS(read, read.data.ips) ELSE read, luck)

CreateIpsObject(s, luck) ==
    IF s.ipsObject THEN s
    ELSE LET read == ReadByNew(s)
             shown == IF read.data.ipsInit
                      THEN UpdateDbusIPS(read, read.data.ips) ELSE read
         IN [AddIpsWatch(shown, luck) EXCEPT !.needToSendIpsData = TRUE]

UpdateDbusMode(s, mode, luck) == ShowMode(s, mode, CreateIpsObject(s, luck))

InitPersistentData(s, luck) ==
    InitIps(InitMode(s, CreateIpsObject(Defaulted(s), luck)))

\* getIPSParms, and the parameters it returns
GetIPSParms(s, luck) == ReadIPS(s, CreateIpsObject(Defaulted(s), luck))
IpsOf(s) == IF s.data.ipsInit THEN s.data.ips ELSE FallbackIps

GetMode(s, luck) == IF s.data.modeInit THEN s ELSE InitPersistentData(s, luck)

(***************************************************************************)
(* Commands to the master OCC                                              *)
(***************************************************************************)
SendIpsData(s, luck) ==
    IF ~(OccReachable(s) /\ s.ipsObject) THEN s
    ELSE LET read == GetIPSParms(s, luck)
         IN IF luck.ips
            THEN [read EXCEPT !.occIps = IpsOf(read), !.ipsFailed = FALSE,
                              !.needToSendIpsData = FALSE]
            ELSE [read EXCEPT !.ipsFailed = TRUE]

AllowIps_KeepsObject(s, luck) ==
    IF s.ipsObject THEN AddIpsWatch(s, luck) ELSE CreateIpsObject(s, luck)

\* The IPS object is there exactly in the modes that allow it.
AllowIps(s, luck) ==
    IF Eco(s.data.mode) THEN RemoveIpsObject(s)
    ELSE IF s.ipsObject THEN AddIpsWatch(s, luck)
    ELSE CreateIpsObject(s, luck)

\* The rest of sendModeChange.  isPowerVM is left out: it returns its initial
\* TRUE, and what it asks D-Bus is compiled only with POWERVM_CHECK.
SetMode(s, luck) ==
    IF ~OccReachable(s) THEN s
    ELSE IF ~luck.mode THEN [s EXCEPT !.modeFailed = TRUE]
    ELSE LET set == [s EXCEPT !.occMode = s.data.mode, !.modeFailed = FALSE]
         IN IF set.needToSendIpsData THEN SendIpsData(set, luck) ELSE set

SendModeChange(s, luck) ==
    LET got == GetMode(s, luck)
    IN IF HasValidMode(got) THEN SetMode(AllowIps(got, luck), luck) ELSE got

\* Whether sendModeChange, which led to state s, returned SUCCESS
ModeChangeSent(s) == HasValidMode(s) /\ ~(OccReachable(s) /\ s.modeFailed)

(***************************************************************************)
(* The handlers                                                            *)
(***************************************************************************)

PowerModeProperty_IgnoresLock(mode, luck) ==
    /\ mode \in pm.customer
    /\ pm' = [SendModeChange(UpdateMode(pm, mode), luck) EXCEPT !.dbusMode = mode]
    /\ UNCHANGED <<emReady, signals>>

PassThroughSetMode_SendsFirst(mode, luck) ==
    /\ ~pm.data.locked
    /\ IsValidMode(pm, mode)
    /\ pm' = UpdateMode(SendModeChange(UpdateDbusMode(pm, mode, luck), luck), mode)
    /\ UNCHANGED <<emReady, signals>>

\* powerMode: a client writes the mode property.
PowerModeProperty(mode, luck) ==
    /\ ~pm.data.locked
    /\ mode \in pm.customer
    /\ pm' = [SendModeChange(UpdateMode(pm, mode), luck) EXCEPT !.dbusMode = mode]
    /\ UNCHANGED <<emReady, signals>>

\* setMode: a mode change by the pass-through interface
PassThroughSetMode(mode, luck) ==
    /\ ~pm.data.locked
    /\ IsValidMode(pm, mode)
    /\ pm' = SendModeChange(UpdateMode(UpdateDbusMode(pm, mode, luck), mode), luck)
    /\ UNCHANGED <<emReady, signals>>

PowerModeLock ==
    /\ pm' = Save([pm EXCEPT !.data.locked = TRUE])
    /\ UNCHANGED <<emReady, signals>>

\* A client writes a property of the IPS object; ipsChanged is told later.
IpsWrite(write) ==
    /\ pm.ipsObject
    /\ Len(signals) < MaxSignals
    /\ pm' = [pm EXCEPT !.dbusIps[write.prop] = write.value]
    /\ signals' = Append(signals, write)
    /\ UNCHANGED emReady

\* An exit utilization of 0 restores the defaults, if they can be read.
ChangeIps(s, write) ==
    LET ips == [IpsOf(s) EXCEPT ![write.prop] = write.value]
    IN IF ips.exit # 0 THEN UpdateDbusIPS(UpdateIPS(s, ips), ips)
       ELSE IF emReady THEN UseDefaultIPSParms(s)
       ELSE [s EXCEPT !.notRestored = TRUE]

IpsChanged(luck) ==
    /\ signals # <<>>
    /\ signals' = Tail(signals)
    /\ LET read == GetIPSParms(pm, luck)
       IN pm' = IF read.ipsObject
                THEN SendIpsData(ChangeIps(read, Head(signals)), luck) ELSE read
    /\ UNCHANGED emReady

\* The entity manager starts to answer; its signal may come later.
EntityManagerReady == emReady' = TRUE /\ ~emReady /\ UNCHANGED <<pm, signals>>

\* It stops answering: the program may be started again before it does.
EntityManagerStops ==
    /\ emReady /\ "lateDefaults" \in Faults
    /\ emReady' = FALSE
    /\ UNCHANGED <<pm, signals>>

\* The signal that the defaults are available; what is missing is read, if the
\* entity manager still answers.
DefaultsReady(luck) ==
    /\ LET kept == IF HasValidMode(pm) THEN pm ELSE InvalidateMode(pm)
       IN pm' = InitPersistentData(kept, luck)
    /\ UNCHANGED <<emReady, signals>>

\* analyzeIpsEvent: the IPS status file changed, or can no longer be read.
AnalyzeIpsEvent(luck) ==
    /\ pm.watching
    /\ \E seek, read \in OkOr("read"), active \in BOOLEAN :
          LET s == IF seek THEN pm ELSE AddIpsWatch(RemoveIpsWatch(pm), luck)
          IN pm' = IF s.watching /\ read
                   THEN [s EXCEPT !.ipsActive = active /\ s.ipsObject]
                   ELSE RemoveIpsWatch(s)
    /\ UNCHANGED <<emReady, signals>>

\* The master OCC reports that it is active (occReadStateNow,
\* occsWentActive); it is disabled if the mode cannot be sent.
MasterOff(s) == [RemoveIpsWatch(s) EXCEPT !.masterActive = FALSE]

MasterWentActive(luck) ==
    /\ LET on == [pm EXCEPT !.masterSet = TRUE, !.masterActive = TRUE,
                            !.needToSendIpsData = @ \/ pm.ipsObject,
                            !.occMode = NoMode, !.occIps = NoIps,
                            !.modeFailed = FALSE, !.ipsFailed = FALSE]
           sent == SendModeChange(on, luck)
       IN pm' = IF ModeChangeSent(sent) THEN sent ELSE MasterOff(sent)
    /\ UNCHANGED <<emReady, signals>>

MasterWentInactive ==
    /\ pm.masterActive
    /\ pm' = MasterOff(pm)
    /\ UNCHANGED <<emReady, signals>>

\* Another part of the program opens a file, such as an error file of a device,
\* and is given a number that was closed, or closes that file.
OtherFiles ==
    /\ pm.fd \in {"closed", "other"}
    /\ pm' = [pm EXCEPT !.fd = IF @ = "closed" THEN "other" ELSE "closed"]
    /\ UNCHANGED <<emReady, signals>>

(***************************************************************************)
(* The constructor: getSupportedModes, load, and the persisted mode, or    *)
(* the default if there is none or it is not supported.                    *)
(***************************************************************************)
SupportedModes == IF emReady THEN {"STATIC", "EFF"} ELSE {"STATIC"}

Start(file, luck) ==
    LET fresh == [data |-> file, file |-> file, customer |-> SupportedModes,
                  dbusMode |-> NoMode, ipsObject |-> FALSE, dbusIps |-> NoIps,
                  ipsActive |-> FALSE, watching |-> FALSE, fd |-> "none",
                  needToSendIpsData |-> FALSE, masterSet |-> FALSE,
                  masterActive |-> FALSE, occMode |-> NoMode, occIps |-> NoIps,
                  modeFailed |-> FALSE, ipsFailed |-> FALSE,
                  notRestored |-> FALSE]
        got == GetMode(fresh, luck)
    IN IF HasValidMode(got) THEN UpdateDbusMode(got, got.data.mode, luck)
       ELSE InitPersistentData(InvalidateMode(got), luck)

\* The program stops, or crashes, between two handlers and is started again.
Restart(luck) ==
    /\ pm' = Start(pm.file, luck)
    /\ signals' = <<>>
    /\ UNCHANGED emReady

Init ==
    /\ emReady \in {TRUE, "lateDefaults" \notin Faults}
    /\ signals = <<>>
    /\ \E luck \in Lucks : pm = Start(NoData, luck)

Next ==
    \/ PowerModeLock \/ EntityManagerReady \/ EntityManagerStops
    \/ MasterWentInactive \/ OtherFiles
    \/ \E write \in IpsWrites : IpsWrite(write)
    \/ \E luck \in Lucks :
          \/ IpsChanged(luck) \/ DefaultsReady(luck) \/ AnalyzeIpsEvent(luck)
          \/ MasterWentActive(luck) \/ Restart(luck)
          \/ \E mode \in Modes : \/ PowerModeProperty(mode, luck)
                                 \/ PassThroughSetMode(mode, luck)

Spec == Init /\ [][Next]_vars

(***************************************************************************)
(* Properties                                                              *)
(***************************************************************************)

\* Type correctness of the PowerMode object, its file and the environment; the
\* persisted mode is one of the modes once it is initialized.
TypeOK ==
    /\ pm \in Objects
    /\ pm.data.modeInit => pm.data.mode \in Modes
    /\ emReady \in BOOLEAN
    /\ signals \in Seq(IpsWrites) /\ Len(signals) <= MaxSignals

\* D-Bus shows the persisted mode, and the IPS object exists exactly in the
\* modes that allow it, whichever handler changed the mode, and when it fails.
ModeIsShown ==
    HasValidMode(pm) =>
        /\ pm.dbusMode = DbusModeOf(pm, pm.data.mode)
        /\ pm.ipsObject = ~Eco(pm.data.mode)

\* When no signal is under way the IPS object shows the persisted parameters,
\* unless their defaults could not be restored.
IpsIsShown ==
    (pm.ipsObject /\ pm.data.ipsInit /\ signals = <<>> /\ ~pm.notRestored)
        => pm.dbusIps = pm.data.ips

\* The active master OCC runs in the persisted mode, unless it refused it.
OccHasMode == (pm.masterActive /\ ~pm.modeFailed) => pm.occMode = pm.data.mode

\* The active master OCC has the persisted IPS parameters, in order, or those
\* that are built in, unless it refused the mode or the parameters.
OccHasIps ==
    (pm.masterActive /\ pm.ipsObject /\ ~pm.modeFailed /\ ~pm.ipsFailed)
        => /\ pm.occIps \in {pm.data.ips, FallbackIps}
           /\ pm.occIps.enter <= pm.occIps.exit

\* A locked mode stays what it is, and locked, through handlers and restarts,
\* as long as the program finds it among those the system supports.
LockHolds ==
    [][(pm.data.locked /\ HasValidMode(pm) /\ IsValidMode(pm', pm.data.mode))
          => (pm'.data.locked /\ pm'.data.mode = pm.data.mode)]_vars

\* "close file": what removeIpsWatch closes is the IPS status file, never a file
\* that another part of the program has opened.  It does not hold: the number
\* stays in fd and is closed again by the next removeIpsWatch.
OnlyOwnFileClosed ==
    [][(pm.fd = "other" /\ ~OtherFiles) => pm'.fd # "closed"]_vars
=============================================================================
