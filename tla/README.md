# Verification of the sugo machine application

The machine application drives a filament recycling machine: a merger unit (two
heaters and a feeder motor) melts and feeds, a coil unit (a motor and a tension
sensor) winds up. Each part is a *service component*, an active object with an
event queue, a worker thread and a state machine; components talk by synchronous
requests and by notifications. Around them are the hardware they drive, the brokers
that carry their messages, and the application that starts and stops it all. This directory holds TLA+ models of that system,
TLC runs that check them and proofs that TLAPS checks. Paths below are relative to
the repository.

Run a check with `tlc -config <cfg> <module>.tla` (section 3 gives both for each
run), and the proofs of a module with `tlapm <module>.tla`, the eight modules whose
names end in `Proofs` (section 4).

## 1. The parts of the system

| Part | State | Operations | Talks to | Correct when |
| --- | --- | --- | --- | --- |
| `EventQueue` (libs/ServiceComponent) | queue, mutex, condition variable | push, pull, reset | pushed by IO, timer and worker threads, pulled by the worker | a bounded FIFO that loses, doubles and strands nothing |
| `StateMachine` | current state, transition table, its queue | push, processNextEvent | runs the component's actions | every event is taken in the state the table has a transition for |
| `StatedServiceComponent`, `ServiceComponent`, `ProcessContext` | run flag, thread, broker | start, stop, request and notification handlers | broker, state machine | stop returns, nothing runs afterwards, nothing accepted is lost while running |
| `MachineControl` | two flags (unit is running), motor speed | SwitchOn/Off, Start, StartHeatless, Stop, speed requests; four hand-written notification handlers | merger and coil control, user interface | off and stopped are safe, no state on the way is final, what it tells is true |
| `FilamentMergerControl` | two flags (heater is hot) | SwitchOn/Off, StartHeating, Start/StopFeeding | heaters, feeder motor | hot only when both heaters are |
| `FilamentCoilControl` | tension control flag | SwitchOn/Off, StartCoil, StopCoil | coil motor, tension sensor | pauses on overload and resumes |
| `FilamentFeederMotor`, `FilamentCoilMotor`, `MotorService` | speed, offset speed | SwitchOn/Off, Start/StopMotor, speeds | stepper motor | rotates only when started; speed within its range |
| `FilamentMergerHeater`, `FilamentPreHeater`, `HeaterService` | temperatures, timer | SwitchOn/Off; the timer reports limits | relay, temperature sensor | relay open when off and when too hot; tells of no heat that is not there |
| `FilamentTensionSensor`, `...Service`, `GpioPinEventObserver` | last event, repeat timer, three observers | SwitchOn/Off; observers report edges | GPIO pins | no deadlock between observers and timer |
| `UserInterfaceControl`, `UserLightService` | machine state shown | notifications of the machine, web requests | MachineControl, RemoteControlServer | shows what the machine told |
| `MessageBroker` (`Server`, `Client`, `Publisher`, `Subscriber`) | sockets, sequence number, socket table | send, notify, subscribe, start, stop | ZeroMQ | an answer belongs to its request; a notification arrives in order |
| `Timer`, `Thread`, `IOContext`, `ProcessContext` (libs/Common) | thread, mutex, flags | start, stop, join | everything with a thread | nothing runs before it may; a join ends |
| `ExecutionGroup`, `ExecutionBundle`, `MachineApplication` | the components | start, stop, wait | all components | it serves complete or not at all; hardware outlives its users |
| `ServiceGateway` | reply socket, thread | start, stop, letters of remote clients | brokers of all components | a client hears what became of its letter |
| `RemoteControlServer`, `Connection` | web server thread, connections | start, stop, notifications | UserInterfaceControl | every use of a connection finds it; what can be understood is answered |
| Hardware abstraction layer: `TicController`, `StepperMotor`, `Max31865`, `SpiControl`, pins | controller state, bus, pins | init, start, stop, speed, read, finalize | motor and heater services | a motor turns as told and stands when it must; a sensor reads its own chip |
| Configuration, command line | options | parse, extract | hardware layer | all of a file or nothing |
| Service component generator (Python) | tables of a description | parse, validate, write | build | a table is closed and is what was described |

What makes this hard: five kinds of threads per component (worker, broker IO,
publisher, timer, pin observers) push into one bounded queue; flags are written by
the IO thread and read and reset by the worker without a lock; a request is answered
when its event is *queued*, not when it is handled; errors travel up as
notifications while switch-offs travel down as requests; a push that a full queue
refuses, and an event without a transition, disappear in a release build; stop has
to catch a worker that may be anywhere in its loop. Below that, two threads drive one
motor, two timers share one bus, all motors share one reset pin, and a request that times
out leaves its socket in the middle of an exchange. `PROJECT.json` lists these
hazards at their lines.

## 2. The modules

| Module | Models |
| --- | --- |
| `Mailbox` | What an event queue promises: a bounded FIFO handed out atomically. Abstract; it has no threads. |
| `EventQueue` | The code of EventQueue.hpp: mutex sections as actions, the condition variable as the sets of blocked and of woken threads. |
| `StatedServiceComponent` | One component with any table, its threads and its owner; instantiates `EventQueue` as `Q` and uses its actions inside its own. |
| `MachineTables` | MachineServiceComponent.yaml as data: tables, subscriptions, events of requests. |
| `Machine` | Eight components with these tables, their hand-written actions and handlers, requests, notifications, sensors, hardware and a user. |
| `FilamentTensionSensorService` | The tension sensor's threads: three pin observers, the repeat timer, the mutex between them and the worker that starts and stops them. |
| `StepperMotor`, `Motor` | The driver of a motor as lists of transfers to its Tic controller; a motor component whose worker and IO thread both use that driver. |
| `Max31865`, `Heater` | The conversion of a register to a temperature; a heater component with its worker, its timer and its relay. |
| `SpiBus` | Two sensors on one SPI bus, set up one after the other and read by two timer threads without a lock. |
| `MessageBroker` | Requests between brokers: mutex, request and reply sockets, time-outs, late answers, handlers that ask others. |
| `ServiceGateway` | The JSON-RPC gateway over `MessageBroker`: what becomes of each kind of letter. |
| `Notifications` | Publishers used by several threads, and the socket table of a subscriber. |
| `Thread` | Start hand-shake, join and restart of threads and process contexts. |
| `RemoteControl` | `UserInterfaceControl` and `RemoteControlServer`: connections, poll loop, requests, notifications. |
| `Application` | `MachineApplication::start` from the options to the end of the process. |
| `Hal` | The hardware layer as a whole: order of initialization and destruction, the shared reset pin. |
| `Configuration` | Options, a JSON file, and the part that a device reads. |
| `ServiceComponentParser` | The generator: expansion of the descriptions, validation, the order in which files are written. |
| `MCStatedServiceComponent`, `MCMachine`, `MCDevices`, `MCMessages`, `MCOperation` | Values for the constants of the runs. |
| `QueueProofs`, `StatedServiceComponentProofs` | Theorems about the queue, about notifications, and about the active object. |
| `MachineProofs` | Theorems about the components of the machine together: devices, switching off, what the machine tells. |
| `MessageBrokerProofs`, `GatewayProofs` | Theorems about requests, and about the gateway that makes them for its clients. |
| `OperationProofs` | Theorems about `Thread`, `Hal`, `Application` and `RemoteControl`. |
| `DeviceProofs` | Theorems about `Heater`, `SpiBus` and `Motor`. |
| `TensionSensorProofs` | Theorems about the threads of `FilamentTensionSensorService`. |

`MessageBroker` assumes nothing of `Machine`; `Machine` in turn assumes of it that a
request is answered, is not sent, or times out and is handled late, and that a socket
whose request timed out refuses all later ones, as `FailsOnlyByItsOwnTimeout` shows. `Motor` and `Heater` take their
tables from `MachineTables`. `ServiceGateway` extends `MessageBroker` and drives it through
one broker of its own. Three MC modules put modules that share nothing side by side: their
variable `unit` (or `device`) says which one a behaviour is about, and the others rest in an
initial state of their own. A state of such a run is thus a state of one module, and each
run answers one question about several of them.

Operators whose comment starts with "Faulty variant" are plausible bugs. Nothing
uses them; each is substituted for the definition it varies to see that a property
notices (`PROJECT.json`, "mutants").

### EventQueue

`queue` is m_queue, `waiting` the threads inside `m_condVar.wait`, `woken` those that
left the wait and have not got the mutex back, `pulled` the last result of each
thread's pull. A section under the mutex is one action: `Push`, `Pull` (an event was
there), `PullWaits`, `PullResumes` (after the wait, with or without an event),
`Reset`. `NotifyOne` chooses any blocked thread, and is lost when there is none;
`WakesSpuriously` is the wakeup the C++ standard permits. `HasRoom` keeps the code's
test `m_maxSize == size + 1`: a queue of size n holds n - 1 events, and one of size 0
is unbounded.

### StatedServiceComponent

`owner` says where the thread that calls start() and stop() is, `worker` where the
worker is between the test of m_processEvents, the pull, the dispatch and the
action. The stop function is two steps, clearing the flag and resetting the queue,
because the worker may test the flag between them; then come the join and the stop of
the broker. StartBroker may fail with the worker left running, as in the code. The
IO thread pushes as long as the broker runs, also while stop() joins. Timer and
observer threads (`sensing`) are started and stopped by actions and are not stopped
by stop(). An event without a transition ends the whole process (debug build) or is
dropped (release build); the model allows both. The worker's action is reduced to the
events it may push (`raises`). Events carry two history values, the session they were
accepted in and whether that was after its reset, which no guard reads.

### Machine

Here the queue is the mailbox (which `QueueProofs` shows it to implement) and
the actions are modelled in full. `Dispatch` takes an event, changes the state and loads `todo`
with what the action will send and tell, in the code's order; `Sends` and `Tells` are
one step of it each, so that anything may happen between two of them. A request is one
step at the receiver: its IO thread pushes and answers; the sender's reaction to a
failure ("return" after an error, "continue" after it, "ignore") is part of the step,
since the actions differ in it. What a worker does to its own hardware happens in
`Dispatch`, and fails at most `maxBroken` times in a scenario; no other thread can see the difference
to a later moment of the same action. `Tells` is a push into the own queue followed by a
notification, in one step: the notification is on its way for an arbitrary time in
any case. Notifications of one publisher to its one subscriber stay in order (`mail`);
those of different publishers are not ordered. Handlers written by hand (two controls)
set their flag in one step (`Delivers`) and push in another (`IoPushes`), so the worker
may read or reset the flag in between; generated handlers only push. `reported` stands
for the flags: MachineControl's two `m_is...Running` and FilamentMergerControl's two
`m_is...TemperatureReached`. In `MachineControl::startMachine` the two flags are reset
together with taking the event, before the action's first request, as in the code;
setting one between the two resets has the same effect as before or after.

A request may fail in four ways, one action each. It may not be sent for want of a connection
(`SendUnsent`), after which its socket can be used again. It may time out (`SendTimesOut`): the receiver handles it
all the same, at once or much later (`late`, `HandlesLate`), and the socket of the sender awaits the
answer for ever (`jammed`). A sender whose socket awaits an answer is refused at once
(`SendRefused`), whatever it sends and to whom. And a full queue makes the answer an
error (`SendAnswered`). `maxLost` bounds the requests that are not sent or time out, `lossy` names
them; refusals are not bounded. Three variables record what the callers make of
it: `failed` has the workers of which a request failed and was noticed, `missed` the components
whose last SwitchOff failed, which nobody notices (ControlService.hpp:85-98), and `unset` the motors whose speed was not
set once. That happens without notice too: the hardware did not take the speed
(MotorService.cpp:84, FilamentFeederMotor.cpp:56, FilamentCoilMotor.cpp:58, 68, 79), or a control that
forwards the request could not, since its socket is `jammed`, nothing was sent or nothing came back, and
answered Success (`Forwards`, ServiceComponent.hpp:121-136). A forwarded request that times out jams the control's
socket like any other. `slips` of a scenario names the motors to which this may happen.

Left out of `Machine`: motor speeds, but for whether one was not set; GetState, GetTemperature, GetMotorSpeed, which change nothing;
TargetTemperatureRangeLeft, which nobody subscribes to; start and stop of the
components, which StatedServiceComponent has; UserInterfaceControl. A temperature or a
tension report may come at any time while the observation runs, more often than the
hysteresis of HeaterService and the edges of the sensor allow: a property that holds
for these reports holds for fewer.

The user gives a fixed list of orders. He waits until the machine has settled before
the next one, except for orders in `hasty`. Without that a Start given before
the controls have finished their Initialization is dropped by them (they accepted
SwitchOn, and MachineControl goes to Stopped when they did, not when they are done).

### FilamentTensionSensorService

`worker` is where startSensorObservation or stopSensorObservation is, one part after
the other in the order of the code; `observer` is where the thread of each
GpioPinEventObserver is in its loop, `timer` where that of Timer is. Starting the
threads always succeeds: they keep the scheduling of their creator, for which
Thread::start returns true. The section of handleFilamentTensionEvent under the mutex is
one step (`Handles`) unless it joins the timer, when the mutex stays taken
(`joining`); the comparison before it is a step of its own (`Compares`), since it is made
without the mutex. The timer's section is two steps, reading the last event and
telling it. A wait of the timer may end at any moment: period, notification and
spurious wakeup look the same to the code. The levels of the pins after the
last edge read (`risen`) outlive a switch-off because the kernel keeps the edges of a
pin; pins may be at odd levels together, which covers more than a real filament does.
`told`, `read` and `overtaken` are history of one observation.

### StepperMotor and Motor

A call of the driver is a list of transfers over I2C (`Reset`, `Rotate`, `Stop`, ...). `tic` is the
controller: velocity, target velocity, energized, locked in safe start. It is outside the
repository and modelled by what the driver relies on (`Effect`). Each transfer is a step,
so that those of the worker and those of the IO thread interleave; either may fail, and `After`
gives what is left of the call then, in the code's order of `&&`. `poll` repeats until the
motor stands or the controller reports an error. `Ramp` is the motor itself. The driver's
unit conversion keeps its integer division: 1 rpm comes back as 0. A negative sum of
speed and offset becomes a huge unsigned number in the code, which the driver refuses
(`Accepted`). A controller that could not be set up is deleted; the next transfer would use a null
pointer, and the model stops there (`Crashed`). `crossed` is history: a request for speed came while the
worker was at the motor.

### Max31865 and Heater

`getTemperature` is the signed 16-bit code of the register, the division towards zero and the
look-up table, thinned out to the entries that the limits of the heaters tell apart. The
worker's actions are one step each, except for `switchOff`: it tells the timer to
stop and waits for its thread, so opening the relay is a step of its own
(`HeaterOpens`). The timer's handler is two steps, reading and comparing. `current` and
`lastChecked` are the members of HeaterService, which outlive a switch-off as they do in the
code. `toldReached`, `wasHot` and `hasty` are history.

### SpiBus

One step is one call of SpiControl or of a pin. `transfer` is m_tr, whose buffers point into the stack
of the thread that filled it last: a thread may send the byte of another, receive into the
stack of another, or touch a stack that has gone, which gives any byte. A chip that is
selected takes the first byte for an address and counts on; two selected at a time drive one
line and their answer is noise. `disturbed` marks the messages that met another one or a
failed call, `doubtful` the chips that had such a message since they were set up,
`stuck` those that could not be deselected.

### MessageBroker

`call` is where each thread is in send: entered, or past the mutex with its request sent. `awaiting` is the
state of the REQ socket, `peers` what it is connected to, `sequence` m_sequenceNumber. `Sends` is
the section from the lock to the socket's send; a socket that still awaits an answer refuses
it, and the connection stays. `TimesOut` ends the call and leaves the socket as it is, `Receives` frees and
disconnects it. The IO thread takes a request, looks for its handler (`Serves`), asks what the
handler asks (`HandlerAsks`) and answers (`Replies`). `Handlers` says whether a handler stops at
the first failure (MachineControl's speed requests) or ignores it (a forwarded request).
A response that nobody filled in has the code Success, as in the code. Messages between one pair
of sockets stay in order; ZeroMQ delivers or the call times out. How long a time-out
is has no meaning here: any call under way may time out.

### ServiceGateway

A reply socket that has received a letter owes a reply (`owes`) and receives nothing until it has
replied. A letter is of one of six kinds, told apart where the code does: a request, one whose
method is not two parts, a notification, empty, no JSON, and JSON that is no
JSON-RPC. The last raises an exception that ends the thread.

### Notifications

A notification is two frames, each a call on the publisher's socket; the socket joins the
frames of all threads. `sockets` is m_socketInfoArray, `subscriptions` m_subscriptionMap. `subscribe` and
`unsubscribe` find, connect, disconnect and free sockets and undo what failed.
`receives` counts the receives that are pending at a socket: one is armed when it is connected
and again after each receipt. `due` is history: what was sent under a topic that was subscribed when
it was sent and stays so, with no other thread between the two frames.

### Thread

The mutex of the thread object is held by the owner during start and by the thread while the
process runs. `Stops` and `Waits` begin a join that `Joins` ends. Setting the policy
of a real-time thread may fail; then start returns false and the thread waits
for ever, as m_isReady stays false. `told` is the call of the stop function.

### RemoteControl

`guard` is m_mutexStartStop over several steps, `connections` the map, `webs` those with an open
websocket, `sockets` what mongoose holds. `Reports` is the library: the next event of a connection, in an
order that the library's documentation permits. Each handler is one step under the mutex,
except a request of a page: it is read without it, the control of the machine is asked, and
the answer is sent under it; in between the worker may send a newer state. The
worker's `sendNotification` is two steps, taking the mutex and sending. A page sends a request (`Asks`, `wants`) whether or not
somebody still reads it. One that is malformed (no JSON, no type or command, or one that is no string) throws in
Connection.cpp:125 or UserInterfaceControl.cpp:91-113; nothing between there and Thread.cpp:89 catches that, so
`ThrowsOut` ends the thread, with connections and m_doListen as they are. The exception passes through
mongoose, which is C and taken to be compiled so that it can. Mongoose is not made for two threads:
a message to a connection that the other thread handles may be lost (`garbled`).

### Application

`stage` is the position in MachineApplication::start, `turn` the bundle that is started, waited for or stopped,
`call` the step inside the start or stop of a component. Each step may fail where the code's can. An IO thread
may end by an exception (`Throws`), which is what ends the wait. A stop unbinds the server before the
publisher, as MessageBroker::stop does (`Unbinds`). `Destroys` is the end of the
scope: a thread object that is still joinable ends the process (`outcome` is "terminated"), be it
of an IO thread or of a worker.

### Hal

`halAt` walks through the initialization in the order of HardwareAbstractionLayer::init and, from any
point of failure, through the destruction in the reverse order of the members. `resetPin` is shared: each
TicController::init and each finalize sets it, and all controllers restart (`AllRestarted`). A
motor that is told to turn sets step mode and limits again; `believed` is what the services
think, `tic` what the controllers do.

### Configuration and ServiceComponentParser

Both are sequential and modelled one loop iteration a step, so that a failure may come between two.
`FindsNoLeaf` is the file without leaves, at which the parser throws, `PushesOption` joins values of one name, `Stores` is po::store with its exception at the first value that does
not fit; `Extracted` is the prefix search of HalHelper. Names are short sequences of characters, because the
question is which name is a prefix of which. The parser's `Matching` stands for Python's
`re.match`, which matches a prefix.

## 3. The runs

| Run | Module / cfg | Checks | Bounds |
| --- | --- | --- | --- |
| component | MCStatedServiceComponent / Component | `TypeOK`, `StoppedMeansQuiet`, `OldEventsAreLate`; liveness `StopReturnsUnlessMissed`, `AcceptedIsHandled` | a small table with a self-pushing action and an event without transition, a queue of size 3 that holds two, any number of restarts |
| component_stop | MCStatedServiceComponent / ComponentStop | `StopReturns` is **violated** | same |
| machine | MCMachine / Machine | `MachineInvariant`, `OffIsSafe`, `FailuresSurface`, `StoppedIsSafe`, `NeverStuck`, `TellsTruth`, `RunningRuns` | five scenarios. Nothing fails in (a) SwitchOn, Start, Stop with three reports out of MaxTemperatureReached and TensionTooLow; (b) SwitchOn, StartHeatless, Stop with an overload and its end. One call of the hardware fails in (c) SwitchOn, StartHeatless, SwitchOff; (d) SwitchOn, Start with a heater that gets hot. One request is not sent or times out in (e) SwitchOn, StartHeatless, SwitchOff: any that machine control sends, or StartMotor of coil control; the speed of the feeder may not be set, and any number of requests is refused afterwards |
| machine_timeout | MCMachine / MachineTimeout | `ErrorIsSafe` is **violated** | scenario (e) |
| machine_hasty | MCMachine / MachineHasty | liveness `SwitchesOff`, `Settles` | SwitchOn, StartHeatless, SwitchOff at any time; queues that hold one event |
| machine_assertion | MCMachine / MachineAssertion | `EveryEventHasTransition` is **violated** | SwitchOn, StartHeatless, Stop |
| tension_sensor | FilamentTensionSensorService / TensionSensor | `TypeOK`, `QuietWhenOff`, `LastToldIsLast`, `RepeatsWhileTense`, `InStepWithPins`; liveness `StopsUnlessDeadlocked` | none: three observers, any number of edges and restarts |
| tension_sensor_stop | FilamentTensionSensorService / TensionSensorStop | `ObservationStops` is **violated** | none |
| devices | MCDevices / Devices | `MotorInvariant`, `HeaterInvariant`, `SpiInvariant`; liveness `DevicesProgress` | motor: start and stop or switch off, two requests for speed or offset (one that exceeds the maximum, an offset up or down), one failed transfer, with and without safe start; heater: on, off, on again, four registers (cold, hot, just below, a fault), two changes, one failing read or relay; bus: two sensors, three readings, one failed call |
| messages | MCMessages / Messages | `Bounded`, `NoStrandedEvent`, `BrokerInvariant`, `GatewayInvariant`, `NotificationInvariant`; refinement `IsMailbox`; liveness `EventReachesWaiter`, `MessagesProgress` | two kinds of event, three pullers, a queue of size 4 that holds three; six brokers with three plans of up to two requests each and one time-out; three letters of the six kinds; three publishers, of which one notifies from two threads, two topics, two sockets, two notifications, three subscriptions, one failed socket call |
| broker_timeout | MCMessages / BrokerTimeout | `FailsOnlyByItsOwnTimeout` is **violated** | same |
| operation | MCOperation / Operation | `ApplicationInvariant`, `HalInvariant`, `ThreadInvariant`, `RemoteInvariant`, `ConfigurationInvariant`, `ParserInvariant`; action and liveness properties `OperationProgress` | three components and the gateway, any IO thread may end by an exception; two motors, two sensors, three turns; two contexts, one of them real-time, started twice; two clients, two notifications, two requests, one garbled message; files of up to three leaves; descriptions of two components |

Some properties are conjunctions; each conjunct is a
definition with a comment of its own in its module:

| Property | Its parts |
| --- | --- |
| `MachineInvariant` | `TypeOK`, `HardwareFollowsStates` |
| `MotorInvariant` | `MotorTypeOK`, `StillWhenNotRunning`, `TurnsAsTold` |
| `HeaterInvariant` | `HeaterTypeOK`, `ReachedWasHot` |
| `SpiInvariant` | `SpiTypeOK`, `ReadsItsOwnChip`, `ReadyMeansConfigured` |
| `DevicesProgress` | `StopEnds`, `HotStops` |
| `BrokerInvariant` | `BrokerTypeOK`, `AnswersMatch`, `SuccessMeansHandled` |
| `GatewayInvariant` | `GatewayTypeOK`, `GatewayTellsTruth` |
| `NotificationInvariant` | `NotificationTypeOK`, `SocketsFitSubscriptions`, `NothingLostUnlessOverlapping`, `OrderKept` |
| `MessagesProgress` | `CallsEnd`, `LettersAnswered`, `DueArrives` |
| `ApplicationInvariant` | `ApplicationTypeOK`, `WaitsForCompleteSystem`, `ServesWithWorker`, `HardwareOutlivesIo` |
| `HalInvariant` | `HalTypeOK`, `NothingTurnsWhenGone`, `TurnsAsSetUp`, `NoSilentStop`, `NothingMisused` |
| `ThreadInvariant` | `ThreadTypeOK`, `RunsPrepared` |
| `RemoteInvariant` | `RemoteTypeOK`, `EventHasConnection`, `ConnectionsLive`, `ViewIsCurrent` |
| `ConfigurationInvariant` | `AllOrNothing`, `AsWritten`, `OwnOptionsOnly` |
| `ParserInvariant` | `GeneratedIsClosed`, `WholeOrRefused`, `TableIsDescription` |
| `OperationProgress` | `GatewayFailureStopsGroup`, `StartDecides`, `WaitEnds`, `UndisturbedWhileSending`, `RequestsAnswered`, `NoticesShown` |

A device or a unit never changes in a behaviour, so `DevicesProgress` and `OperationProgress`
state the leads-to parts of their devices and units in one formula; TLC's work grows with
the number of formulas.

### What they show

*The queue.* It is a bounded mailbox: nothing is lost, doubled or reordered although
wakeups may be spurious, stolen by a thread that never waited, or lost. While a
thread is blocked every queued event has a woken thread coming for it. `reset` does
not "unblock all" (IQueue.hpp:76): it wakes one. Every component has one puller, so
this does no harm today.

*The component.* After stop() nothing of the worker is left. A restarted component
can meet an event of its previous life, but only one accepted after the reset, while stop() joined
and stopped the broker. stop() returns provided the worker is not between
the test of the flag and the wait; in that window the reset's notification is
missed, the worker waits with nobody to wake it, and stop() blocks for ever
(`StopReturns`). A start() directly followed by stop() can meet it.

*The machine.* `EveryEventHasTransition` fails in the ordinary start: the two controls
report that they run, both flags are set before the first CheckStartingState is taken,
it completes the start, and the second one arrives in Running, where
`ASSERT_NOT_REACHABLE` ends a debug build. All other runs therefore check what a
build without assertions does, where such an event is dropped. There:

- `MachineInvariant`: whatever is under way, at most as many motors and heaters are
  otherwise than their components' states say as calls of the hardware have failed;
  what is off observes nothing (a heater in error does go on observing).
- `OffIsSafe`: settled in Off or Error nothing is on, and in Off all components are off,
  also when a request of the start failed half way and what was started must be switched off
  again, with two exceptions. One is a motor when a call of the hardware failed, since nothing
  tries to stop it again (MotorService.cpp:109-116), whereas a relay is tried again by the error
  handling. The other is a component to which a SwitchOff did not get, or whose control one
  did not get to.
- `ErrorIsSafe` fails by that second exception. When a request of a start times out,
  handleError sends its two SwitchOffs through the same REQ socket, which refuses them both
  (MessageBroker.cpp:107, ControlService.hpp:91-95): the machine has told that it is in Error and
  settles there, and what was started, or is started by the late request, goes on. Nor does a
  SwitchOff of the user get any further than MachineControl then.
- `FailuresSurface`: a worker's request that failed, for whatever reason, and a call of the hardware that
  failed end in Error, except that SwitchOnFailed of the tension sensor has no transition: nobody
  hears of it. The code passes over three kinds of failure, which the property does not count: a failed
  SwitchOff, a forwarded SetMotorSpeed that failed, and a speed that the hardware did not take. A
  motor may therefore run at a wrong speed in a machine that has settled in Running.
- `StoppedIsSafe`, `NeverStuck`, `RunningRuns`, `TellsTruth`: these hold but for
  exceptions that are written into the properties because the tables lack
  transitions. (1) A Stop that reaches the merger when it has just become HeatedUp has no transition: the
  machine stays in Stopping with the heaters on. (2) A coil that is overloaded before
  the start is complete leaves the machine in Starting. (3) A coil told to stop while
  Pausing ignores it and, when the overload ends, starts its motor again although the
  machine is in Stopped or Stopping. Each exception names the states in which it may occur, so
  that nothing else hides behind it.
- `SwitchesOff`, `Settles`: SwitchOff wins in every state and the components come
  to rest, even if most of their pushes are refused. A switch-off that a full queue of one refuses may
  leave a component on, which is why `OffIsSafe` is not claimed there.

*The tension sensor.* The observer that sees the tension get normal stops the timer
and joins its thread while it holds the mutex. If the period has just passed the
timer's handler waits for that mutex: both wait for ever, and with them the next
stopSensorObservation and so the worker of the component (`ObservationStops`). Apart from that
switching off ends and leaves no thread behind (`StopsUnlessDeadlocked`,
`QuietWhenOff`), what was told last is the last event although the timer repeats it
(`LastToldIsLast`), and the timer runs exactly while the tension is not normal, although the
observers start and stop it for each other (`RepeatsWhileTense`). Comparing without
the mutex loses an edge only when another is read before it is handled (`InStepWithPins`).

*The devices.* A motor stands in every state in which it must, once its component has done
its work, even if one transfer failed: the shutdown has two transfers of which each suffices
(`StillWhenNotRunning`; it takes a controller with safe start). A running motor turns at speed
plus offset unless a request met the worker at the motor (`TurnsAsTold`). The worker that polls for the
standstill gets on (`StopEnds`). Exceptions that the code has: a failed setStepMode deletes the
controller and a later start uses the null pointer (StepperMotor.cpp:149-154, 132).
A heater tells that it is hot only if it was since it was switched on (`ReachedWasHot`),
and one that stays too hot opens its relay (`HotStops`), unless the temperature is the one that was checked
last, perhaps before the heater was switched on: HeaterService.cpp:71 reports changes only. A read that failed
looks like a temperature (Max31865.cpp:155). On the bus each sensor reads its own chip only as long as no two timers
meet (`ReadsItsOwnChip` names that exception): nothing keeps them apart, and
SpiControl.cpp:233-237 returns an uninitialized byte when the transfer fails.

*Messages.* An answer always belongs to its request, late answers included (`AnswersMatch`),
and every call returns (`CallsEnd`). But one request that times out leaves the REQ socket
awaiting, and every later request of that component, to any peer, is refused
(`FailsOnlyByItsOwnTimeout`). Success means handled, except that a forwarded request whose
send failed is answered with the response nobody filled in, which is Success
(`SuccessMeansHandled`). A client of the gateway hears the truth about its letter
(`GatewayTellsTruth`), again except for a send that failed, whose error response has the code Success
(ServiceGateway.cpp:164-169). A notification, an empty letter or one that is no JSON leaves the reply socket owing
an answer, and invalid JSON-RPC ends the thread: nobody is answered after
that (`LettersAnswered` names it). Notifications whose two frames no other thread broke into
arrive, once and in order; those of two threads that publish at a time may be lost, since the
socket has no lock (`NothingLostUnlessOverlapping`).

*Operation.* The application waits only for a complete system (`WaitsForCompleteSystem`),
takes the group down when the gateway fails, and gets to its wait or its end
unless a worker misses the call to stop. When a member fails the start leaves
the others' threads behind, and their destructors end the process (`outcome` "terminated" is
reached). waitUntilFinished joins the IO threads only, not the workers, and nothing stops these
afterwards: a process that served and whose IO threads have ended is terminated by the thread objects of
its workers, and never returns success (`Destroys`). The gateway's RPC
thread object contextRpcServer is declared and never started (ServiceGateway.cpp:72).
Threads run prepared, also after a restart (`RunsPrepared`); a join ends unless the policy could
not be set. RemoteControlServer::stop cannot return once the server listens: it
joins under the mutex that the handlers take, and mg_mgr_free reports closings to handlers;
`RequestsAnswered` and `NoticesShown` except that. One malformed message of any page ends the
thread of the server, and no page is answered or told anything afterwards, while the lights go on;
`RequestsAnswered` and `ViewIsCurrent` say what holds as long as the thread runs. MachineApplication.cpp:169 calls it. A stop before the loop begins is overwritten
by it. A page may keep an older state when its reply overtakes a newer message
(`ViewIsCurrent` names it), and the speed it shows is always 0 (UserInterfaceControl.cpp:72).
A motor turns as it was set up and as its service believes, unless a driver deleted its
controller and took all motors down by the common reset pin (`NoSilentStop`).
A configuration is read whole or not at all; a file without leaves is refused by an exception
(ConfigurationFileParser.cpp:78), and an empty JSON list reads as one empty string. The generator
writes closed tables that are what was described, all or nothing, except that a
forwarded notification is refused after the header is written
(ServiceComponentSourceGenerator.py:208-209); a regular expression matches prefixes, and
two entries that differ in their next state only are accepted.

### Bounds and why they are enough

Queues of the machine hold 10 like the code's default, where refused pushes would
hide the property, and 2 (that is one event) in machine_hasty, where they are the point. Three reports are
the least that heat both heaters and leave one for another moment; an overload and its end
pause and resume a coil (`sensed` of a scenario lists what its reports may be, in order). One failure meets every call and every step of the
orders; two failures at once are not claimed. Of the requests that are not answered scenario (e) has all that machine control
sends, since those roll back a start, and of those below it StartMotor of the coil
only, since the merger's multiplies the states and is handled alike. `reports` (bounded by the length of `sensed`), `lost`,
`broken` and `orders` are the only counters of `Machine`. The faults are looked at in scenarios of their own
because the orders and reports of the others add nothing to them but states. Without the bound the queues of Mailbox and EventQueue are finite
through `MaxSize` itself.

Two requests for speed are the least that follow each other within one action of the
motor; the speed 6 lies above the maximum of 4, and an offset of 2 before it gives a sum
that is refused. The four
registers give one temperature below, one above and one between the limits, and a fault; a heater starts cold, and one change
before the switch-on makes it anything else. On the bus two
sensors are all that the machine has, and three readings let one follow a disturbed
one. The six brokers are the longest chain of the machine (user interface, control, coil,
motor) with its fork; after one time-out the same socket is used again in two plans. Three letters put a good one before and after a bad
one. Two sockets for three publishers fill the table and refuse one. Two clients, two
notifications and two requests let each overtake the other. Two descriptions are what
subscribing, taking over and redefining need. In `Application` three components have one
before and one after the one that fails.

CHECK_DEADLOCK FALSE stands in the configurations of Machine, the devices, messages and
operation since users run out of orders, bounds are reached, a start or a parser comes to its end
(the bound is the reason, not the code), and in those of the tension sensor and of
the component, whose deadlocks are in the code.

### Fairness

`EventQueue!FairSpec` (and `MessageSpec` for the queue): a thread that left its wait gets the mutex at last (weak
fairness of `PullResumes` for each puller); a new pull, a push and a reset need not happen.
`StatedServiceComponent!FairSpec`: the worker runs when it can, and so does an owner
inside start() or stop(); nobody need call these, send, or be woken without a
notification. `Machine!FairSpec`: some thread of some component runs while one can. That
is weaker than fairness of each thread and suffices, as the runs show: users and sensors
need not do anything. `FilamentTensionSensorService!FairSpec`: each thread runs, a wait for an
edge ends (it has a timeout), and an observer that waits for the mutex gets it if it is
free again and again: the only one that takes it repeatedly is the timer, which sleeps
a period in between.

The newer modules state weak fairness of each thread of the code and of nothing
else. `MotorFairness`: worker, IO thread, and the motor, which follows its controller. `HeaterFairness`: worker and
timer, whose period ends. `BrokerFairness`: the IO thread and each calling thread of
each broker; a time-out need not happen. `GatewayFairness`: the thread of the gateway.
`NotificationFairness`: the receipt at each socket. `ThreadFairness`: owner and thread, and a process
that was told to end, or ends by itself, returns. `RemoteFairness`: worker, server thread, and the one who starts and
stops. `ApplicationFairness`: the main thread. `Hal`, `SpiBus`, `Configuration` and
`ServiceComponentParser` have safety properties only and no fairness.

## 4. Proofs

Each theorem holds for every value of the constants that satisfies the assumption of its
module. For each the invariant that the run checks was found not to be inductive, but for the
two noted; the strengthening (`...IInv`) was checked by TLC on the instance of the run, then
proved with one lemma per action, and the theorem follows by temporal logic.

| Theorem | Of | For every |
| --- | --- | --- |
| `QueueProofs`: `TypeCorrect`, `NeverOverfull`, `NothingStranded`, `ImplementsMailbox` | `Bounded`, `NoStrandedEvent`, `IsMailbox` | queue size, finite set of pullers |
| `StatedServiceComponentProofs`: `TypeCorrect`, `QuietWhenStopped`, `OldEventsComeLate` | `TypeOK`, `StoppedMeansQuiet`, `OldEventsAreLate` | transition table, queue size, restarts |
| `MachineProofs`: `ComponentsHold` | `MachineInvariant` | user, reports, requests that fail or are late, failures, queue size |
| `MachineProofs`: `OffIsSafeHolds`, `OffReachesAll` | `OffIsSafe` | the same, while no queue is about to be full |
| `MachineProofs`: `MachineTellsTruth` | `TellsTruth` | the same, for a patient user (below) |
| `MachineProofs`: `FailuresSurfaceHolds` | `FailuresSurface` | the same, while no queue is about to be full and nothing stops but at the end |
| `MessageBrokerProofs`: `AnswersBelong` | `BrokerInvariant` | brokers, plans, handlers that ask others, time-outs |
| `GatewayProofs`: `ClientsAreToldTheTruth` | `GatewayInvariant` | the same, and letters |
| `QueueProofs`: `UndisturbedArrivesInOrder` | `NotificationInvariant` | publishers, notifying threads, topics, number of sockets, failed calls |
| `OperationProofs`: `ThreadsRunPrepared` | `ThreadInvariant` | contexts, runs |
| `OperationProofs`: `HardwareIsSafe` | `HalInvariant` | lists of motors and sensors |
| `OperationProofs`: `ServesWhatHasStarted`, `FailedGatewayLeavesNothing` | `ApplicationInvariant`; the action property `GatewayFailureStopsGroup` | group of components |
| `OperationProofs`: `ClientsSeeTheMachine`, `NobodyDisturbsTheWorker` | `RemoteInvariant`; the action property `UndisturbedWhileSending` | clients, notifications, requests, garbled messages |
| `DeviceProofs`: `NoOldHeatIsTold` | `HeaterInvariant` | limits, registers, orders, failures |
| `DeviceProofs`: `ReadsItsOwnRegisters` | `SpiInvariant` | sensors on the bus, readings, failed calls |
| `DeviceProofs`: `MotorDoesAsTold` | `MotorInvariant` | speeds, orders, requests, failed transfers |
| `TensionSensorProofs`: `TensionTypeCorrect`, `TensionIsQuietWhenOff`, `TensionLastToldIsLast`, `TensionRepeatsWhileTense`, `TensionInStepWithPins` | `TypeOK`, `QuietWhenOff`, `LastToldIsLast`, `RepeatsWhileTense`, `InStepWithPins` | (no constants) |

The two action properties stand in the run operation as conjuncts of `OperationProgress`.

### The arguments

- *Queue.* `TypeCorrect` is inductive as it stands. `NeverOverfull`: a push needs `HasRoom`, so
  the length grows to at most MaxSize - 1; when MaxSize is 0 there is no bound.
  `NothingStranded`: with a thread blocked, at most as many events are queued as threads are
  woken; a push adds one event and wakes one thread, `PullResumes` takes at most one of
  each, and a thread blocks only on an empty queue. It is inductive together with
  `TypeOK` (finiteness of `woken` comes from that of Puller). `ImplementsMailbox`: each
  action maps to one of `Mailbox` or to a stutter.
- *Component.* `QuietWhenStopped` strengthens the property by where owner and worker can be at
  the same time; in particular a woken thread is the worker inside pull, so that it dispatches
  only what it has pulled (`TypeCorrect`).
  `OldEventsComeLate` strengthens the property by what is queued and pulled in each phase of
  start() and stop().
- *Machine.* First the tables: each entry that does something to a device leads to a state
  that says so (`EntriesFitDevice`), each that leaves it alone joins two states that say
  the same, and none leads to Off past the end of the observation (`EntriesFitObserver`).
  So a call that succeeds puts its device where its state is, or leaves both
  (`DispatchedDevice`), and one that fails leads astray that one device
  (`AstrayBound`). `MachineInvariant` becomes inductive with one addition: what is left of an action
  tells only what the component may tell, since whether a notification has a
  subscriber was decided when the action was begun.
- *Switching off.* A controller below one that is off or in error may be busy, in error
  itself, or not reached by a request yet. `StepsInv`: what is left of an action is sent to the
  component's own subordinates, and after a switch-off or an error it only switches them off,
  heedless of failures. `DownInv`: a component below one that is off or in error is about to be told, or was not
  reached by the last attempt (`missed`), or a switch-off that timed out is on its way to it, or it has in its
  queue a switch-off or an error with no switch-on after it, or is off or in error itself. A SwitchOn that
  timed out may arrive behind all that; but then the socket of its sender refuses the
  switch-off, so that the component is in `missed` (`LateFits`, `LateOnInv`): this is where the exception of the
  property comes from. `OffInv` says the same of one that is off,
  where an error does not count unless it is about to be reported, since MachineControl then
  goes to Error. `HeatersInv`: a heater in its error state stays hot only after a second failure,
  as handling the error switches it off again, and one that is off and hot has the error on its
  way. For a settled machine the queues and actions are empty, which leaves the states, and
  `MachineInvariant` ties the devices to them. The property is claimed for at most one failed call,
  as in the run, and for any number of requests that fail. The hypothesis `AllHaveRoom` is there because a full queue refuses an order nobody
  repeats; with unbounded queues (size 0) it always holds.
- *Telling.* MachineControl tells where it goes before it is there, in the step that pushes
  the event that takes it there. `OrdersInv`: an order of a user who waits finds the machine at rest,
  so nothing is queued behind or in front of it. `ArrivalsInv`: StartingSucceeded and StoppingSucceeded
  are handled in the course of their start or stop, or when it no longer matters, and meanwhile
  nothing else is told. `RestInv`: what the rest of an action may tell in each state. `ToldInv`: where the
  machine is has been told, or is about to be, or an error is about to be handled. The hypothesis
  `Patient` lets the user stop and switch off at any moment. TLC shows why other orders have
  to wait: StartHeatless and Stop given at once schedule the check of the stop twice, so
  StoppingSucceeded comes twice, and the second one ends a later stop
  early: MachineControl is in Stopped and has told "Starting" last.
- *Failures.* What failed reaches MachineControl from below. `AlarmInv`: as long as the machine
  has not ended (in error, or off for good), something that failed has left an error somewhere,
  in a state, in a queue or in the rest of an action, unless the tension sensor waits in
  Initialization for ever. `ErrorsInv`: a component in error has told its subscriber, or is about to; so
  in a settled machine the error stands at the top. An error would get lost with a
  switch-off, or with a step that passes over its failure. `CallsInv`: nobody is told to stop or to switch
  off, by a request in time or late, but below a component in error, whose own error then counts. `SayInv` says what the actions
  may say, `LastInv` that the order to switch off is the last one. The hypothesis `Unstopped` (no Stop,
  SwitchOff only as the last order, no overload that pauses the coil) is that of the
  property: stopMotor and switchOff do not look at the result of stopping the motor
  (FilamentFeederMotor.cpp:98-110), and the heaters' switch-off is not looked at by the merger
  (FilamentMergerControl.cpp:97-115), so after them a failure may be forgotten. The number of requests that fail,
  of speeds that are not set and of failed calls is not bounded, and the orders may come without waiting.
- *Requests.* `AnswersMatch` and `SuccessMeansHandled` follow from where a request can be. Of each
  broker at most one request, or its answer, is under way (`OnePlace`), and only
  while its socket awaits (`OnlyWhileAwaiting`): therefore a late answer finds a socket that
  refuses to send, and never the next call. What is under way belongs to the thread that
  holds the mutex (`OfTheHolder`); numbers are not used twice (`Numbered`). `Covers` says how far
  a handler has got with what it asks, through time-outs of its own.
- *Gateway.* It finds the outcome of its call by number. `CallOfLetter` counts: requests sent
  are as many as responses given, or one more while a letter is read.
- *Notifications.* `NothingLostUnlessOverlapping` needs where a due notification waits: between
  its frames (`FramesInv`), or in the socket of its subscription (`QueuedInv`), which is one per
  publisher (`FitInv`) and has a receive pending (`Receiving`). `OrderKept` needs the same order
  in the sockets, and between a socket and what was received (`OrderInv`, `NumbersInv`).
- *Operation.* `Thread`: a thread that is ready was prepared, whatever an earlier run left
  (`ReadyInv`). `Hal`: what is open at each stage, and that only a motor with a driver turns
  (`StageInv`, `DriverInv`). `Application`: what a start has got done by each step, what
  is up at each stage of the start, what is down at each stage of the stop (`StartInv`,
  `UpInv`, `DownInv`). `RemoteControl`: the events of a connection come in
  order, each open connection is known to the polling thread but the one that is being
  opened, a thread that threw leaves them as they were, and what is on its way to lights and pages is newer than what they show
  (`ConnectionInv`, `LoopInv`, `ViewInv`).
- *Heater.* An event of the timer that the heater will heed lies behind the event that ends
  the switch-on (`HeedsNews`), because switching off joins the timer's thread
  (`OffIsOff`): what an earlier time has left in the queue comes before. This fails when an order
  comes before the one before it is done, which the property excepts.
- *Bus.* A thread whose message is undisturbed is alone on the bus, with no chip stuck (`Alone`); then
  the chip counts the registers along with it (`ReadsInOrder`). Whatever else may have
  changed a chip's configuration makes it `doubtful` (`Doubts`).

- *Motor.* Each thread has a list of transfers and local steps left, and the
  properties are about the moments between. `WorkInv`: which steps may be left in each state of the motor.
  `InitInv`: a motor that is not initialized stands and is locked at the end. `StillInv`:
  outside of its work only the shutdown may be left to do, and of its two transfers, which each
  suffice, one is still to come or has worked; this is lost with the second failure, so
  the property counts them. `UndisturbedInv` (with `StartInv`, `TurnInv`): while no transfer failed and the threads
  did not cross, the controller's target is the speed the motor was told last, or one of
  the threads is about to set it.
- *Tension sensor.* `PlacesInv`: where the worker is tells which observers there are.
  `MutexInv`: only an observer that joins the timer and a timer that repeats hold the mutex over a step.
  `JoiningInv`, `TimerInv`, `ToldInv`: who joins the timer has told that the tension is normal, the timer
  exists exactly while it is not, and repeats the last event. `StepInv`: while no edge overtakes another, one
  observer at a time handles one. The module has no constants, so the theorems say what the run
  says; they say why it holds.

### What is assumed

Bounds are natural numbers and markers such as "nobody" no member of a set. Beyond that:
`ComponentAssumption` and `MachineAssumption` give tables and scenarios their types.
`TablesAreFunctions` is about definitions only, and TLC evaluates it.
`BrokerAssumption`: a handler that does not stop at a failure forwards to one receiver
(ServiceComponent.hpp:134 is the only one that ignores it). `GatewayAssumption`: the gateway has
no requests handled and sends none of its own. `HalAssumption`: the list of motors is a list; the same motor
may even stand in it twice. `ApplicationAssumption`: the group is a non-empty list without repetition, and
the gateway is not in it (MachineApplication.cpp:112-132). `RemoteAssumption`: the notices are those that UserInterfaceControl
converts. `HeaterAssumption`: the lower limit is below the upper one, registers have 16 bits;
`HeaterOrdersAssumption`: orders are SwitchOn and SwitchOff, in any number.
`SpiAssumption`: no sensor is called "nobody". `MotorOrdersAssumption`: orders are those of the motor's
table, in any number; `MotorRequestsAssumption`: requested speeds are natural numbers.

### Only model-checked

- Liveness: `EventReachesWaiter`, `StopReturnsUnlessMissed`, `AcceptedIsHandled`, `SwitchesOff`,
  `Settles`, `StopsUnlessDeadlocked`, `DevicesProgress`, `MessagesProgress` and the liveness in
  `OperationProgress`. It is out of the prover's reach.
- `StoppedIsSafe`, `NeverStuck`, `RunningRuns` hold for the scenarios of their runs and are
  not claimed for all: what disturbs the exchange, a full queue or a request that fails, or for `NeverStuck` a
  second order given too early, can break them (section 3). They say what an
  exchange of several components comes to when nothing disturbs it (a start, a stop, a pause), so that
  an invariant for them would list the stages of that exchange, which is what TLC does.
- `ConfigurationInvariant`, `ParserInvariant`: their models fold and flatten sequences, and what these
  operators compute for every input takes an induction over data, which is out of reach.

## 5. Not modelled

The simulator of the Stub build; register layouts and byte encodings of TicController and Max31865 other
than those a property is about; formatting and parsing of messages, JSON and HTTP; the command line and the
syntax of option values; files and wording of the web page, the lamps' pins; the text of generated
files; reading requests (GetState, GetTemperature, GetMotorSpeed), which change nothing; the length of periods
and time-outs. Logging throughout.

## 6. Plan

1. Done: every component is modelled but for what section 5 names; the proofs of section 4.
2. What `Machine` assumes of the motor, the heater and the tension sensor, as abstract
   specifications that `Motor`, `Heater` and `FilamentTensionSensorService` implement.
