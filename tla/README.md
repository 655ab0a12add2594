# openpower-occ-control in TLA+

openpower-occ-control runs on the BMC of a POWER server. It finds the On-Chip
Controllers (OCCs) of the host's processors, binds a kernel driver to each of
them when the host says that it runs, polls them, publishes their sensors on
D-Bus, sets their power mode and power cap, watches them for errors, and asks
the host to reset them when something is wrong. It is one process with one
event loop (sd-event): timers, D-Bus signals, file descriptors and PLDM
responses are callbacks that run to completion, but that call each other
re-entrantly and leave state behind for each other.

This directory models that control. `OccManager` is the heart of it; the other
modules each take one of the objects that the manager drives, and `OccSystem`
puts the manager and the PLDM interface together.

| file | content |
|---|---|
| `OccManager.tla` | discovery, activation, polling and reset of all OCCs, with their call stack |
| `PldmInterface.tla` | requests to the host: transport, instance ID, timer, retries, PDR caches |
| `RequestChannel.tla` | what `PldmInterface` promises: one outstanding request (abstract) |
| `OccSystem.tla` | `OccManager` and `PldmInterface` calling each other |
| `OccState.tla` | one `Status` object: state reads, retries, safe timer, throttling, sensors |
| `Sensors.tla` | the temperature of one FRU, from several files |
| `PowerMode.tla` | power mode and idle power saver, persisted, shown and sent |
| `PowerCap.tla` | the user's power cap, its limits and its signals |
| `OccCommand.tla` | a command to an OCC, attempt by attempt, and the pass-through |
| `MC_*.tla`, `*.cfg` | instances for TLC |
| `*_proofs.tla` | theorems about the modules, with their proofs |
| `PROJECT.json` | components, runs, mutants, code lines of every definition, findings, hazards, theorems |

Run `tlc -config OccManager_faults.cfg MC_OccManager` (and so on) for a run,
`tlapm OccManager_proofs.tla` for a proof module. Names like `Foo_Bar` in a
module (`Foo` changed by a plausible bug `Bar`) are the mutants that
`PROJECT.json` lists: replacing `Foo` by one makes a property fail, which shows
that the property says something about the code. They take no part in the
specifications.

# 1. Inventory

| component | state | operations | interacts with |
|---|---|---|---|
| **Manager** (`occ_manager.cpp`) | `statusObjects`, `activeCount`, `resetRequired`, `resetInstance`, `resetInProgress`, `waitingForAllOccActiveSensors`, `queuedActiveState`, `outstandingHResets`, three timers | discover OCCs; `updateOCCActive`; `statusCallBack`; `pollerTimerExpired`; `checkAllActiveSensors`; `initiateOccRequest`; `validateOccMaster`; SBE timeout and HRESET result; host state off | calls `Status` and `pldm::Interface`, which call it back *while it is running* |
| **Status** (`occ_status.cpp`) | `OccActive`, `lastState`, `stateValid`, `sensorsValid`, retries, safe timer, throttle properties | `occActive(bool)`; `readOccState`; `deviceError`; `resetOCC`; throttle callbacks; safe-state timer | `Device` below it, `Manager` above it |
| **Device, watches** (`occ_device.cpp`, `occ_errors.cpp`, `occ_presence.cpp`) | driver binding; watched files | bind, unbind; add, remove a watch; read `occ_active`, `occ_master` | sysfs; callbacks into `Status` |
| **PLDM interface** (`pldm.cpp`) | transport, instance ID, response timer, *static* `msgType` and `resetInstance`, PDR caches | `checkActiveSensor`, `resetOCC`, `sendHRESET`, response callbacks, `pldmRspExpired`, sensor events, `clearData` | host firmware; `Manager` |
| **Sensor readings** (`occ_manager.cpp`, `occ_dbus.cpp`) | values and functional flags on D-Bus | `getSensorValues`, `readTempSensors`, `setSensorValueToNaN` | hwmon files; polls of the manager |
| **Power mode, IPS** (`powermode.cpp`) | persisted mode and IPS parameters, lock, D-Bus objects, IPS watch and its descriptor | mode property, pass-through mode, IPS signal, late defaults, send to OCC | D-Bus clients, entity manager, master OCC, `occPersistData` file |
| **Power cap** (`powercap.cpp`) | persisted limits, path of the master's files | `pcapChanged`, `updatePcapBounds`, `writeOcc` | settings daemon, master OCC's hwmon files |
| **OCC command, pass-through** (`occ_command.cpp`, `occ_pass_through.cpp`) | descriptor and response of a call; whether the OCC is active | `send` with retries; `setMode`; dump | `/dev/occN`; D-Bus clients |
| **FFDC, utilities, main program, build, tests** | descriptors | I/O, formatting, start-up | |

What is hard in it, and what correctness means, component by component. The
list of places, each with its line and the properties that watch it, is
`hazards` in `PROJECT.json`.

* **Manager.** Setting `OccActive` runs `statusCallBack`, which may poll, and
  polling may find an error, which may set `OccActive` of the same OCC while
  the first call is still half done. `activeCount`, the poll timer, the queued
  activations and the reset flags are updated at different depths of such a
  nest. *Correct*: an OCC is counted once, the poll timer runs exactly while
  some OCC is counted, a reset stops all of them first, a required reset is
  started, an inactive OCC is not watched, and the recursion is bounded.
* **Status.** State reads fail, are retried, are nested in activations, and
  start or stop the safe timer. *Correct*: an OCC that cannot be read is
  disabled, SAFE state does not last, nothing is published of an inactive OCC.
* **Sensor readings.** Several files report one temperature, failed or not
  available. *Correct*: the worst of them is shown, in whatever order.
* **PLDM interface.** One transport for three kinds of request; each step of a
  request may fail; a response races its timer and an event about the same OCC.
  *Correct*: no transport stays open, no instance ID is lost, a response is
  taken for the request it answers, a reset is retried until acknowledged.
* **Manager and PLDM interface.** Each calls the other in the middle of its
  handlers, `clearData` calls back from inside a loop over its cache, and a
  request that is refused, lost or never sent must be made up for by the other
  side. *Correct*: together they do what each assumes of the other; waits end.
* **Power mode.** Four writers (D-Bus, pass-through, IPS signals, defaults that
  arrive late) of one mode that is kept in four places (memory, file, D-Bus,
  OCC), and a descriptor that is closed more often than it is opened.
  *Correct*: the four agree, a locked mode stays, no other file is closed.
* **Power cap.** The program and the user write the same two properties, and
  each write comes back as a signal. *Correct*: the OCC gets the cap that D-Bus
  shows, accepts it despite rounding, and the clamping comes to an end.
* **OCC command.** Attempts leave pieces of a response behind; the signal that
  tells the pass-through about an OCC is late. *Correct*: what is accepted is
  one valid answer to the command; the event loop gets its calls back.

# 2. The modules and the code

`PROJECT.json` "map" gives the lines of every definition; this is the outline.

## OccManager

State is the members of `Manager` and, per OCC, `OccActive`, the binding, the
error watch, the presence watch and the sensor flag of `Status`/`Device`.
The sysfs files of an OCC are the driver's and external: `occ_active` reads
whether it is bound, and `occ_master` reads 1 only while it is, for the OCCs in
`Masters`.

The variable `todo` is the **call stack**. A `Step` executes the call at its
head: it does what the function does up to its first call into another
function, and replaces the head by the calls that the function makes, followed
by the *rest* of the function as a call of its own. So `occActive(true)` becomes
`<<wentActive, setActive>>`: the callback into the manager, and only then the
closing assignment of the property. An `Event` (timer, PLDM event, file, D-Bus
write, host state) is accepted only when the stack is empty. There is one
action for each function, and one for each remainder of a function that a
nested call can overtake; loops over OCCs carry their index on the stack.

The host alone changes in the middle of a nest as well (`HostChanges`): every
`isHostRunning` of the code is a D-Bus read of `BootProgress`, so that a function
and its callbacks may see different answers, and the host state event Off, which
is another property, may come while `BootProgress` still says running
(`HostStateOff` has no guard on it). A change counts from the next such read on,
so a step of the host is allowed only when the call at the head is one that reads
it (`HostIsRead`), or between handlers. `checkAllActiveSensors` reads it in its
first turn, before the loop; without a running host it goes by what the static
`allActiveSensorAvailable` was left at.

| actions | code |
|---|---|
| `Activate Deactivate Unbind SetProperty` | `Status::occActive` |
| `DeviceError ResetOCC` | `Status::deviceError`, `Status::resetOCC` |
| `WentActive StartPoll WentInactive RestartWait CheckWaiting` | `Manager::statusCallBack` and what it leaves for after its calls |
| `CheckSensor CheckAllEnd ClearQueue` | `checkAllActiveSensors` |
| `ResetOccRequest InitiateOccRequest StopOccs PldmResetOCC ResetSent` | `resetOccRequest`, `initiateOccRequest` |
| `PollerTimerExpired PollOcc` | `pollerTimerExpired` |
| `ValidateOcc ValidateMaster` | `validateOccMaster` |
| `SendHRESET HresetResult SbeTimeout` | `sbeTimeout`, `sbeHRESETResult` |
| `ClearData HostPoweredOff HostStateOff ResetGivenUp` | `hostPoweredOff`, `clearData` |
| `DiscoverTimerExpired WaitTimerExpired` | `findAndCreateObjects`, `occsNotAllRunning` |
| `SensorRunning SensorStopped UpdateOCCInactive` | `updateOCCActive` called by PLDM |
| `OccError PresenceMismatch DBusWrite` | watch callbacks, D-Bus property write |
| `HostBoots HostStops` | what `isHostRunning` reads |

## PldmInterface and RequestChannel

`io` is a record with everything that concerns the request: instance ID,
transport, event source, timer, `pldmResponseReceived`, and the two function
statics. A function on the transport is an operator from a value of `io` to
the *set* of values it can leave; a handler composes them in the order of the
code and is one action. `told` is the callback that the handler ends in.
`RequestChannel` is the abstract promise: nothing is outstanding, a request is
sent, it is closed, and only a reset may be sent in the step that closes
another request. `ImplementsChannel` maps `request` to `io.request`.

## OccSystem

One event loop with both. Where `OccManager` leaves the answers and events of
the host to its environment, and `PldmInterface` the requests, each is a call of
the other: a step of the manager that asks for a sensor, a reset or an HRESET is
conjoined with the operation of the interface (`CheckSensor`, `ValidateOcc`,
`PldmResetOCC`, `SendHRESET`), and a handler of the interface with the callback
that it ends in (`PldmEvent`, `Deliver`). `hostRunning`, which changes in the
middle of the manager's handlers as it does in `OccManager`, and the outstanding
HRESETs are one variable for both. `clearData` is the one function of the
interface that calls back before its end: `ClearData` makes one callback per
step, each of which runs to its end in the manager before the next, and clears
the caches last. `GivenUp` is the retry of a reset that finds the host gone.
`ImplementsManager` says that this is `OccManager`, whose environment is thereby
shown to be general enough.

## OccState and Sensors

One OCC, its record `occ`, in the style of `PldmInterface`: `Activate`,
`Deactivate`, `ReadState`, `GetSensorValues` and so on map a state to a set of
states. The manager is the environment. Its callback in the middle of an
activation or deactivation may poll this OCC, and `told` is a function value
that says what that callback can do to the state. The fields `failedOpens`,
`failedReads` and `polledLate` are history that only properties read.
`Sensors` holds one FRU temperature: what the files may read, how two readings
are combined (`Fuse`), and what turns the sensor off; `seen` keeps the readings
that the value comes from.

## PowerMode

`pm` is what `PowerMode` and `OccPersistData` keep, what D-Bus shows, what
the master OCC was told, and the descriptor of the IPS file. `luck` says which
commands and files of an operation work. `signals` are the writes to the IPS
object of which the `PropertiesChanged` signal has not been handled; `emReady`
whether the entity manager has the defaults, which may change either way at any
time (`EntityManagerReady`, `EntityManagerStops`). `Restart` forgets all but the
file.

## PowerCap

The settings daemon (`settings`) is external and modelled from how the code
uses it: a write changes a property and queues a signal, a write of the present
value does not. `PcapChanged` handles the signal at the head of the queue,
reading the *other* property as it is by then. The program's own write of the cap
(`TrySetPowerCap`) may fail unnoticed, as `utils::setProperty` catches every
exception: the handler goes on and sends the clamped cap to the OCC, while D-Bus
keeps the old one and sends no signal. The conversions between input
and output power are modelled as what they do (`RoundedUp`, `Truncated`,
`Derated`). `lastWrite` is history.

## OccCommand

`call` is the `send` under way or the last one. `OpenDevice`, `Write`, `Read`
and `Check` are the parts of the loop in `OccCommand::send`; they run with no
event in between and are steps only so that the order of the returns and of the
`continue`s is visible. A response is a sequence of *pieces*, what each attempt
added to the buffer, told apart by what the size, checksum and command checks
can see. `PassThroughSend` and `ActiveStatusEvent` are the pass-through;
`SetterSends`, `ClientAsks` and `CollectDumpData` are its callers.

# 3. Runs and what they show

Every property is written out above its definition.

| run | instance | states | shows |
|---|---|---|---|
| `OccManager_faults` | 2 OCCs, one master, every fault: watches, reads, errors, presence, SBE timeouts, a host that comes and goes between and within handlers, drivers bound before start, D-Bus writes to `OccActive`, OCCs missing in `/dev` | 2 640 000 | the ten invariants of the manager, among them `CountBound`, `PolledWhileActive`, `MasterValidated`, `WaitingHasTimer`, `NestingBounded` |
| `OccSystem_recovery` | 1 OCC, an SBE that needs an HRESET, a host that stops, answers that cannot be read; fair | 161 000 | the system is `OccManager` (`ImplementsManager`); a reset that was asked for and not acknowledged is retried (`ResetIsRetried`); a required reset is started while the OCCs are polled (`ResetServed`), the wait for sensors ends (`SensorsComeIn`) |
| `PldmInterface_faults` | 2 OCCs, all failures of sending; fair timer | 105 000 | the transport's safety, `QueryEnds` (liveness), refinement of `RequestChannel` |
| `OccState_faults` | a master OCC, every failure, nested polls, a FRU with two or three files in any order; fair timer | 7 300 | `MissingIsDisabled`, `SafeIsTimed`, `NothingStale`, `WorstIsShown`, `SafeIsReset` (liveness) |
| `PowerMode_faults` | late, vanishing and unordered defaults, ECO default mode, two IPS writes under way, refused commands, missing files, restarts | 211 000 | the persisted mode is what D-Bus shows and the OCC has, D-Bus shows the persisted IPS parameters once the signals are handled (`IpsIsShown`), the OCC has them; the lock holds |
| `PowerCap_races` | derating 90 %, two bounds, five caps, all failures, that of the program's own write to D-Bus among them; fair | 94 000 | `CapIsEnforced`, `SentIsAccepted`, `RangeRestored` (liveness) |
| `OccCommand_attempts` | two commands, one encoded as 0, every answer, part and failure; fair | 4 300 | `AcceptedIsAnswered`, `FlagFollows`, `CallsReturn` (liveness) |

Five runs show that the code does *not* do what one of its comments says. Each
checks one property and ends in a counterexample:

| run | property | what happens |
|---|---|---|
| `OccManager_activebound` | `ActiveIsBound` | a device error inside the activation of the same OCC unbinds it, and the outer call then sets `OccActive` (`occ_status.cpp:154`) |
| `OccManager_polled` | `ActiveIsPolled` | a reset initiated with no OCC active leaves `resetInProgress` set; the next OCC is neither counted nor polled (`occ_manager.cpp:430`) |
| `PldmInterface_asked` | `OnlyUnackedRetried` | a reset that could not be sent has already changed `msgType` while another request is outstanding, in the counterexample an HRESET (`ManagerHresets`, then a `ManagerResets` that finds the transport open); the timeout of that request then sends a reset (`pldm.cpp:829`) |
| `OccState_reads` | `UnreadIsDisabled` | a state file that opens but cannot be read renews the retries at each poll; the OCC is never disabled (`occ_status.cpp:221`) |
| `PowerMode_descriptor` | `OnlyOwnFileClosed` | removing the IPS watch a second time closes the number of a descriptor that belongs to another file by then (`powermode.cpp:1152`) |

## Bounds

| bound | why it is enough |
|---|---|
| `N = 2` OCCs | every interaction in the manager is of an OCC with itself, with one other, or with the count reaching 0 or N; both are distinct with 2. The theorems hold for every `N` below 255 |
| `N = 1` in `OccSystem` | one transport and one request at a time: the interplay of a query, a reset and an HRESET is of one OCC; what another OCC adds is a further caller, and safety of the composition is proved for every `N` (`Refinement`). The liveness needs the small instance |
| `todo`: none | the stack is not cut; `NestingBounded`, which is proved, says that it holds at most `9 * N + 15` calls |
| `hresets`: `HresetOfMaster`, the CONSTRAINT of `OccManager_faults` | HRESETs are awaited for the SBE of the master only. The answer to one activates its OCC or requests a reset for it; for the other OCC a D-Bus write and an error of the OCC start the same calls. The theorems do not have the bound |
| `OccReadRetries = 1` (code: 1) | the code's constant |
| `MaxFailed = OccReadRetries + 2` | history is needed only up to the first value that violates a property |
| one nested poll in `OccState` | a callback of the manager polls at most once before it returns |
| FRUs of two and three files | the combination looks at one file and the value so far; `FuseKeepsWorst` is for all readings |
| `Retries = 1` in `OccCommand` (code: 1) | the code's constant; a response has at most two pieces |
| `MaxSignals = 2` | two writes under way are one overtaking another; the program's own answers (PowerCap) come on top and are not cut |
| `Utils = 0..2`, two IPS parameters | 0 asks for defaults; 1 and 2 are the least that can be out of order. The other IPS parameters are stored beside these and compared with nothing |
| three modes | one each of the kinds the code distinguishes: supported everywhere, ECO, OEM |
| caps `0 8 11 12 15`, bounds `9..11` and `10..12` | below, at, between and above both pairs of limits (10..12 and 12..13 input watts), with bounds that round up and that do not |

Faults are a constant, so that a run names what may fail. After the faults
`freeId` and `encode` the code leaves an instance ID allocated, so they are left
out of `PldmInterface_faults`, and `IdIsReturned` is stated for the case that
they do not happen. `encode` means that libpldm rejects the fixed arguments of a
request. Neither is in a run; the theorems allow both. The runs of `OccSystem` have
no failures of sending, after which the code does not retry (section 5).
`OccSystem_recovery` leaves out the unreadable state file for the time that
liveness takes only: with it its properties hold in 225 000 states.
`PowerMode_faults` leaves out the watch that cannot be set up, for the same
reason: with it its properties hold in 267 000 states, and the theorems allow it.

Symmetry is not used: instance numbers are compared and looped over in order.

Deadlock is checked in every run.

## Fairness

The event loop is the scheduler, and it dispatches what is due.

* `WF(Step)`, `WF(SendStep)`, `WF(PassThroughSend)`: a handler that has begun
  runs to its end. For `OccCommand` this includes that the driver, asked to read
  again and again, answers or fails in the end.
* `SF(PollTimerExpired)`, `SF(DiscoverTimerExpired)`, `SF(RspTimerExpires)` in
  `OccSystem`: a timer fires although other handlers are served between its
  being armed and its expiry, during which `todo` is not empty and the event not
  enabled. sd-event serves pending sources in the order they became pending at
  the same priority, so that none starves.
* `SF(HostAnswers(o))`, `SF(HostAccepts)`: a running host that is asked for a
  sensor, or for a reset, again and again answers, or accepts, at last. The
  retries of the code rest on this and on nothing more: any number of answers
  may be lost, refused or unreadable before.
* `WF(PldmRspExpired)`, `WF(SafeStateDelayExpired)` in the other modules: an
  armed timer that is not disarmed expires.
* `WF(PcapChanged)`: a signal in the queue of the bus is handled.

Nothing is assumed of the user, the OCC or the entity manager, and in the
modules other than `OccSystem` nothing of the host: they may never answer.

# 4. Proofs

Proved for all values of the constants that satisfy the modules' assumptions
(`0 < N < 255`, any set of masters, any set of faults).

**OccManager** (`OccManager_proofs`)

* `TypeCorrect`: `Spec => []TypeOK`. The work is in the call stack: `Step`
  replaces its head by calls whose arguments are of the right OCC (`StepCalls`),
  by loops that end (`HeadType`), and `activeCount` does not underflow.
  A change of the host leaves everything but `hostRunning` alone (`OnlyTheHost`),
  in the middle of a nest too: no invariant below rests on what the host was seen
  to be by an earlier call of the nest.
* `PollingStops`: `Spec => []PollNeedsActive`. Inductive together with `TypeOK`:
  each of the actions that starts the timer or decrements the count does so
  under a test of the other (`PollStep`).
* `WaitIsTimed`: `Spec => []WaitingHasTimer`. It is *not* inductive: in the
  middle of `checkAllActiveSensors` the flag is set and the timer is not. The
  strengthening `WaitingInv` says that then a `checkSensor` or `checkAllEnd`
  call is on the stack; `OnStackKept` shows that no other step takes it off.
* `QueueIsDrained`: `Spec => []QueueDrained`, by the same argument: `QueueInv`
  says that an OCC that has a status object is queued only while sensors are
  awaited or a `clearQueue` call is on the stack.
* `WatchesAreRight`: `Spec => []WatchesFollowBinding`. In the middle of a
  handler an OCC may be active and unwatched; what must not happen is that
  `setInactive` finds it watched. `Chained` says which call directly precedes it
  on the stack (`unbind`, or a request of a reset after a deactivation), and
  `HeadFollows` what that call has left. `FewChained` and `ChainCalls` carry
  it through the handlers that make no such call (`StepCallsFree`).
* `NestingIsBounded`: `Spec => []NestingBounded`, at most `9 * N + 15` calls.
  `Height` bounds what a call puts on the stack above its own place as long as
  nobody is activated from `queuedActiveState`; it falls from 7 to 1 for
  `checkAllActiveSensors` once `waitingForAllOccActiveSensors` is cleared, which
  is why the code has to clear it before it starts the reset. Each OCC in the
  queue can add 9 calls, once (`Room`). `StackFits` says that every suffix of
  the stack fits in its room; `PlainFits` and `QueueFits` go through the
  handlers, `FitKeeps` through the stack. The bound does grow with the OCCs that
  report before they are found: with 4 of them more than 26 calls nest.
* `CountIsBounded`: `Spec => []CountBound`. It is far from inductive: between
  `wentInactive`, which decrements the count, and `setInactive` of the same OCC
  the callback may activate another OCC from the queue, whose callback may
  deactivate the first OCC once more, or start a reset that stops them all. The
  inductive invariant is `CountInv`. Its core, `Counted`, says that the bound
  holds whenever *any number of calls on the stack has returned*: `OnAfter` is
  the value that `occActive` has then, `Counting` the count that the head
  leaves, `Owed` an activation that is under way, and `Returning` the OCCs that
  may still be activated from the queue before a pending assignment undoes it.
  The one exception is `WatchFailed`: the error watch of an OCC that is active
  fails while it is activated again, and it is deactivated below its own
  `setInactive`. The other parts say what may be nested in what: `Balanced`,
  that in each part of the stack the OCCs left inactive are made up for by
  others left active; `Separate` and `EndsApart`, that a pending `setInactive`
  has no call above it that may deactivate another OCC before it; `HeadsOnly`,
  `FromQueue`, `ResetFollows` and `ClearAlone`, where certain calls can be on
  the stack. `StepMakes` reduces the 27 handlers to two kinds of lists of calls
  (`Outer`, which leave `occActive` alone, and `Inside`, the seven of a
  `Status`), `CallsStack` and `AfterCalls` relate the old stack to the new one,
  and each part has its step lemma. An event starts a stack on which all of
  them hold (`Begun`). TLC has checked the parts on instances with two OCCs and
  all faults, and with three.
* `ResetIsStopped`: `Spec => []ResetStopsPolling`, on top of `CountInv`. While a
  reset is in progress, `ResetStops`: no OCC is counted, or the loop of
  `initiateOccRequest` is on the stack and has yet to come to at least as many
  active OCCs as are counted (`Stopping`). `StopTurn` is one turn of the loop;
  `StoppingKept` shows that the calls above it keep this, as each takes an OCC
  off the count before it becomes inactive. `FoundActive` is needed because the
  loop runs over the status objects.
* `PolledAlways`: `Spec => []PolledWhileActive`. While an OCC is counted and
  neither is polled nor being reset, a call that will start the polling or the
  reset is on the stack (`PollStarts`). `HostPoweredOff` ends a reset without
  stopping anything: it is the last call on the stack (`PoweredOffLast`), so
  that by `ResetStops` no OCC is counted by then.
* `MasterIsValidated`: `Spec => []MasterValidated`. By `CountInv`, if all OCCs
  are counted then all are active (`AllActive`), so that a step that leaves one
  inactive says nothing of the master. The inductive invariant `MasterComes`
  adds to the property what is under way while they are all counted: the loop of
  `validateOccMaster` has not come to a master yet (`Seeking`), or the call at
  the head is about to stop an OCC (`Stops`). A presence watch ends in
  `unbind` only (`PresenceKept`), and on the stack the assignment that makes the
  OCC inactive follows it directly (`UnbindFollowed`). `StopStep`, `SeekStep` and `LastCounted` are the
  deactivations, the loop, and the activation that completes the count.

**PldmInterface** (`PldmInterface_proofs`)

* `TypeCorrect`, `OpenTimed`, `ResponseMatched`: the inductive invariant is
  `TypeOK /\ OpenIsTimed /\ ResponseMatchesRequest`. Its parts about the
  transport (`Sound`) are proved to be kept by each operator (`FreeSound`,
  `CloseSound`, `EncodeSound`, `SendSound`, `ResetSound`), and then by each
  handler (`NextSound`).
* `IdReturned`: `Spec => []IdIsReturned`, on top of that invariant: each
  operation leaves the instance ID free or the transport open (`CloseFrees`,
  `SendFrees`, `EncodeFrees`, `ResetFrees`).
* `Refinement`: `Spec => ImplementsChannel`, each step of the interface is a
  step of `RequestChannel` or leaves the request as it is.

**OccSystem** (`OccSystem_proofs`)

* `Refinement`: if the host may stop, `Spec => ImplementsManager`. A callback of
  the interface is an event of the manager's environment only if it names an OCC
  that exists, and an HRESET that is outstanding. The invariant `PldmTyped` (the
  transport and the caches are about OCCs) is proved for each operation that the
  manager calls (`ResetTyped`, `CheckTyped`, `HresetTyped`); `HandlerTyped`
  proves it of the handlers together with what they can tell the manager
  (`Outcome`), `DeliverIsEvent` makes an event of that. The theorems about
  `OccManager` thus hold of the system.

**OccState** (`OccState_proofs`)

The operations of the module map a state to the set of states they can lead to,
and a poll in the middle of an activation or deactivation is an argument of
them. The proofs are about those sets:

* `Sound` holds in the middle of every operation, so every nested poll finds it
  (`Keeps`): the sensors show the worst of their readings, the master flag is
  that of a master, and a processor is throttled only while files are watched.
* `Stands` holds between handlers: it adds that a missing file is counted no
  further than it is retried, that the safe timer runs in the safe state, and
  that an inactive OCC shows nothing. Each operation restores it (`...Leads`,
  `...Stands`), whatever the poll in its middle leaves, as long as the poll
  either leaves the object alone or marks it as polled late (`Careful`).
* `TypeCorrect`, `MissingDisabled`, `SafeTimed`, `StaleCleared` and `WorstShown`
  follow, for every kind of OCC, set of faults, number of retries and directory.

**PowerMode** (`PowerMode_proofs`)

* The invariant `Inv` says of the object: an initialized mode is one of the
  modes and is in the file (`Sane`); D-Bus shows it (`ModeShown`); a master OCC
  is active only with a mode that could be sent, has that mode (`ModeGiven`) and
  has parameters that are persisted, or built in, or still to be sent
  (`IpsGiven`). That last case is why `OccHasIps` is not inductive: when the
  mode was refused the parameters are not sent either, and a later mode change
  has to send them.
* The operations are functions from object to object, so that each lemma relates
  the two: `Keeps` for all, `Steady` for those that leave the mode alone, `Calm`
  for those that send nothing. `SendModeChangeIs` is where the parameters that
  were still to be sent are.
* `TypeCorrect`, `ModeShownAlways`, `IpsShownAlways`, `OccModeRight` and
  `OccIpsRight`; and the action property `LockAlways`, for which every handler
  is shown to leave a locked mode alone.

**PowerCap** (`PowerCap_proofs`)

* `TypeCorrect`: values stay naturals through every conversion.
* `CapEnforced`: `Spec => []CapIsEnforced`. When the write of the clamped cap to
  D-Bus failed, `lastWrite` is "unshown", and the OCC has the cap of D-Bus
  brought within the limits; else it has that of D-Bus. Not inductive: while signals are
  pending it says nothing, and the last signal must make it true again. The
  strengthening says that the last pending signal says what the properties are
  (`LastSays`), whatever was written since the earlier ones, and that an active
  OCC is linked.
* `SentAccepted`: every cap that is sent to an OCC whose limits are known is 0
  or within the bounds that the OCC reports. It assumes `Derating = 90`, the
  default of the build option (with others, 95 for one, it does not hold), and
  that the limits made from the bounds are in order (`LimitsOrdered`). The lemmas `MinRoundTrip`,
  `MaxRoundTrip` and `InputIsMonotone` say that converting a bound to input
  power and back does not lead out of the bounds, for every natural number.

**OccCommand** (`OccCommand_proofs`)

* `AcceptedAnswered`: `Spec => []AcceptedIsAnswered`. The checksum is removed
  only from a response that passed every check and whose call has returned
  (`Stripped`); that such a response is one answer, and not what two attempts
  left in the buffer, is `OneAnswerIsRight`.
* `FlagIsRight`: the last signal under way says what `OccActive` is.

**Sensors** (`Sensors_proofs`)

* `FusedIsWorst`: the temperature of a FRU is the worst of what its files read,
  for any number of files in any order. `FuseKeepsWorst` and `FirstIsWorst` are
  the induction step and the base. The induction itself cannot cite the
  library's theorems, which take an operator; `SetInduction` states it for a
  *set* of numbers instead, and `ValuesExist` is the existence of the recursive
  function that `Fused` is.

**Only model-checked.**

* All liveness (`ResetServed`, `ResetIsRetried`, `SensorsComeIn`, `QueryEnds`,
  `SafeIsReset`, `RangeRestored`, `CallsReturn`): out of the prover's reach.

# 5. Deviations in the code

Seen while modelling; the models have them, and the properties are stated so as
to allow them. Those of section 3 are not repeated.

*Manager and PLDM*

* `activeCount` is documented as the "Number of OCCs that are bound"
  (`occ_manager.hpp:217`). It is at most the number of active ones
  (`CountBound`), of which some may be unbound (`OccManager_activebound`).
* That `occ_master` of an unbound OCC reads 0 comes from the driver. If it
  could read 1, `MasterValidated` would fail with three OCCs: one that nested
  activations left active but unbound would be validated as the master, and its
  presence watch cleared by the second branch of `occActive`.
* A reset required when no OCC is polled has no timer that would start it;
  `ResetServed` is limited to the time OCCs are polled.
* `initiateOccRequest` may be called with `resetInstance` already back at 255
  (`occ_manager.cpp:401`).
* `clearData` may be called within itself: it runs after the host state Off while
  `BootProgress` still says running, its callback makes the last missing sensor
  available, a required reset is started, and by then the host is seen stopped, so
  that `resetOCC` clears the map which the outer loop iterates over
  (`pldm.cpp:287`). The outer loop then goes on with an iterator of a cleared
  map, which is undefined behaviour; the model lets it end after any turn or go
  on, and the properties hold either way.
* The error watches of an OCC that is bound and not active may be on;
  `WatchesFollowBinding` allows them.
* A reset may be asked of the host while an OCC is active: with two OCCs, the
  callbacks made while the first is stopped, or a write to `OccActive`, activate
  the other one again.
* A reset that stays in progress (`OccManager_polled`) also keeps
  `checkAllActiveSensors` from asking for sensors, so that the wait for them goes
  on; `SensorsComeIn` excepts it.
* The branch of `occActive(false)` that unbinds an inactive but bound device is
  unreachable, as `Device` reads 0 while the property is FALSE.
* A request made while another is outstanding fails to open the transport and
  frees the instance ID of the outstanding one (`pldm.cpp:705`, `:929`).
* An HRESET is recorded as outstanding whether it was sent or not
  (`pldm.cpp:523`).
* A reset for which no effecter is found, or that cannot be encoded or sent, is
  not tried again (`pldm.cpp:459` and following), although the manager has it in
  progress. `ResetIsRetried` therefore fails once failures of sending are added
  to `OccSystem_recovery`.

*Status and sensors*

* State 0 read directly after activation does not start the safe timer; after
  a failed open and a good read of the same state, `stateValid` and
  `sensorsValid` stay FALSE.
* A good state sets `sensorsValid` although the failure of the mode change
  before it has deactivated the OCC. In SAFE state, sensors set to NaN are
  published again by `getSensorValues` in the same poll (`occ_status.cpp:504`).
* "update to NaN and not functional" (`occ_status.cpp:80`, `:504`):
  `setSensorValueToNaN` leaves the sensors functional;
  `setSensorValueToNonFunctional` is never called.
* When no file of a FRU can be read its last value stays on D-Bus.
* A poll in the middle of a deactivation can enable mode changes and the safe
  timer again (`NothingStale` excepts it).
* The IPS watch is never added at activation.

*Power mode*

* Defaults of the IPS parameters are compared before one of them has been read
  (`powermode.cpp:1018`), so that parameters out of order can be shown and sent.
* Defaults that arrive late are not sent to the OCC; a failure to send a mode
  written to the D-Bus property is ignored; a request for defaults while the
  entity manager is unavailable leaves the request itself (exit of 0) on D-Bus.
* The modes that D-Bus allows are read once, in the constructor; an unsupported
  default mode fails and leads to a reset.
* A restart before the entity manager answers knows only the default modes
  (`powermode.cpp:68`). A persisted ECO mode is then taken for unsupported and
  replaced by the default when the defaults arrive (`powermode.cpp:85`, `:876`),
  even if it was locked. `LockHolds` excepts a mode that the program does not find
  among the supported ones.
* `invalidateMode` is not saved; a crash within `save()` loses the file,
  the lock included.

*Power cap*

* On activation an OCC whose cap reads 0 is not sent the enabled cap, and one
  whose cap was disabled meanwhile keeps it (`powercap.cpp:184`).
* The check for a changed cap compares rounded values: a difference of a watt
  may go unsent.
* A write of the clamped cap to D-Bus that fails is not seen by the program
  (`utils.cpp:107`): the OCC gets the clamped cap (`powercap.cpp:214`, `:446`),
  D-Bus keeps one out of the limits, and nothing tries again until the next write
  or the next activation. `CapIsEnforced` says what the OCC has then;
  `RangeRestored` excepts it, as it does a property that cannot be read or a file
  that is missing.
* A write of the user can be overwritten by the clamping of an earlier signal;
  a property that cannot be read counts as 0 or FALSE.
* Limits that are crossed, because equal bounds round past each other or one of
  two could not be read, make the two clamps chase each other for ever.
* With another derating factor the soft minimum may convert to less than the
  OCC's minimum; the path of the master's files is not refreshed while it
  exists (`powercap.cpp:284`).

*OCC command*

* "The checksum will be validated and removed from the response"
  (`occ_command.hpp:117`): a valid response to *another* command, at the last
  attempt, returns SUCCESS with its checksum in place. The setters check the
  length and so reject it (`AcceptedIsAnswered`); a client of the pass-through
  gets it.
* A failed attempt leaves what it read in the buffer, and the next one appends
  to it.
* Commands to an OCC that was activated are refused, and commands to one that
  has stopped sent, until the signal arrives (`FlagFollows` excepts it).

# 6. Not modelled

* **FFDC and PELs**: copies of SBE data into an error log, and a file that is
  waited for; no state that another part reads.
* **Utilities, main, build, services, tests**: I/O and start-up, with no control
  that another part depends on. `isHostRunning` is the variable `hostRunning`,
  and `setProperty` of the power cap is `TrySetPowerCap`.
* **Within modelled parts**: wording and throttling of traces, PEL contents, the
  D-Bus control signal of Power9, the hwmon path, driver binding that fails, the
  layout of commands, `isPowerVM` (`powermode.cpp:473`: it returns the TRUE it
  starts from; only its D-Bus query, which no build option of the repository
  turns on, could throw), power readings and DVFS limits (one file each, without
  redundancy), the names of sensors, the modes that D-Bus allows, the power
  cap's hard minimum, a master OCC that changes, the descriptor and read of each
  error file.
* **One module for everything**: `OccSystem` composes the two components that
  call each other in both directions. `OccState`, `PowerMode` and `PowerCap` are
  called by the manager and call it back only through activation and device
  errors, which are faults of `OccManager` (`readState`, `occError`); a product
  of their states is out of TLC's reach.

# 7. Plan

Done, in this order: `OccManager` with its runs and first proofs;
`PldmInterface` with `RequestChannel`, refinement and proofs; `OccState`;
`PowerMode`; `PowerCap` with proofs; `OccCommand` with the pass-through;
`Sensors` in `OccState` with proofs; the descriptor of the IPS file; `OccSystem`
with its refinement proved.

Then the proofs: every invariant that a passing run checks, the refinements and
the action property. Nothing of the plan is left. What could be added is listed
in section 6.
