------------------------------- MODULE Machine -------------------------------
(***************************************************************************)
(* The components of the filament machine at work: each has a worker that  *)
(* takes events from its queue, runs the action of the transition step by  *)
(* step, and an IO thread that turns requests and notifications into       *)
(* events.  A request is synchronous, a notification travels on its own;   *)
(* those of one publisher stay in order.  A request may not be sent, or    *)
(* time out: it is handled late then, and every later request of its       *)
(* sender is refused.  Timers and observers report what the hardware does, *)
(* and a user gives MachineControl a list of orders without waiting for    *)
(* their effect.                                                           *)
(*                                                                         *)
(* An event without a transition is dropped, as in a build without         *)
(* assertions (StateMachine.hpp:134-138).  Queues hold the default number  *)
(* of events.  Of motor speeds there is only whether one was not set.      *)
(***************************************************************************)
EXTENDS MachineTables, Naturals, FiniteSets

CONSTANT
    Scenarios       \* the users, sensors and faults that a behaviour may be about

Order == {"SwitchOn", "SwitchOff", "Start", "StartHeatless", "Stop"}

Request == {"SwitchOn", "SwitchOff", "StartHeating", "StartFeeding", "StopFeeding",
            "StartCoil", "StartCoilHeatless", "StopCoil", "StartMotor", "StopMotor",
            "SetMotorSpeed", "ChangeOffsetSpeed"}

Temperature == {"MinTemperatureReached", "MaxTemperatureReached"}
Tension == {"TensionTooLow", "TensionTooHigh", "TensionOverloaded"}

\* A scenario: the orders that the user gives, and those of them without waiting; what
\* timers and observers may report first, second and so on; the requests that may get
\* lost, by sender; the motors whose speed may not be set; bounds on the requests that
\* get lost and on the other calls of the hardware that fail; and maxQueueSize of the
\* event queues.
Scenario ==
    [orders : Seq(Order), hasty : SUBSET Order, sensed : Seq(SUBSET (Temperature \cup Tension)),
     lossy : SUBSET (Component \X Request), slips : SUBSET Motor,
     maxLost : Nat, maxBroken : Nat, maxSize : Nat]

ASSUME MachineAssumption == Scenarios \subseteq Scenario

VARIABLES
    scenario,       \* never changes
    state,          \* m_state of each component
    queue,          \* its event queue
    todo,           \* what is left of the action that its worker runs
    io,             \* the event that its IO thread is about to push, or "none"
    mail,           \* notifications on their way to the publisher's subscriber
    reported,       \* the units that MachineControl takes for running, and the
                    \* heaters that FilamentMergerControl takes for hot
    controlTension, \* m_controlTension of FilamentCoilControl
    driven,         \* the heater relays that are closed, the motors that rotate
    observing,      \* the components whose timer or observers run
    jammed,         \* the components whose request socket awaits an answer for ever
    late,           \* requests that timed out and that nobody has handled yet
    missed,         \* the components whose last SwitchOff failed, which nobody looks at
    failed,         \* the components of which a worker's other request failed
    unset,          \* the motors whose speed was not set once, which nobody looks at
    told,           \* the last notification of MachineControl
    orders, reports, lost, broken

control == <<state, queue, todo, io, mail, reported, controlTension, told>>
hardware == <<driven, observing>>
calls == <<jammed, late, missed, failed, unset>>
budget == <<scenario, orders, reports, lost, broken>>
vars == <<control, hardware, calls, budget>>

Notification == UNION {Subscribed(p) : p \in Publisher}
Told == {"none", "Stopped", "HeatingUp", "Starting", "Running", "SwitchedOff",
         "ErrorOccurred"}
Event == (UNION {EventsOf[c] : c \in Component}) \cup {"SwitchOnFailed"}
Failure == {"return", "continue", "ignore"}

Step ==
    [do : {"send"}, to : Component, what : Request, fails : Failure]
    \cup [do : {"tell"}, event : Event \cup {"none"}, notification : Notification \cup Told]

TypeOK ==
    /\ \A c \in Component :
          /\ state[c] \in StatesOf[c]
          /\ queue[c] \in Seq(Event)
          /\ todo[c] \in Seq(Step)
          /\ io[c] \in Event \cup {"none"}
    /\ \A p \in Publisher : mail[p] \in Seq(Subscribed(p))
    /\ reported \in [Control -> SUBSET Component]
    /\ controlTension \in BOOLEAN
    /\ driven \subseteq Motor \cup Heater
    /\ observing \subseteq Heater \cup {"FilamentTensionSensor"}
    /\ jammed \subseteq Component
    /\ late \subseteq [from : Component, to : Component, what : Request]
    /\ missed \subseteq Component
    /\ failed \subseteq Component
    /\ unset \subseteq Motor
    /\ told \in Told
    /\ orders \in Seq(Order)
    /\ reports \in 0..Len(scenario.sensed)
    /\ lost \in 0..scenario.maxLost
    /\ broken \in 0..scenario.maxBroken

Init ==
    /\ state = [c \in Component |-> "Off"]
    /\ queue = [c \in Component |-> <<>>]
    /\ todo = [c \in Component |-> <<>>]
    /\ io = [c \in Component |-> "none"]
    /\ mail = [p \in Publisher |-> <<>>]
    /\ reported = [c \in Control |-> {}]
    /\ controlTension = FALSE
    /\ driven = {}
    /\ observing = {}
    /\ jammed = {}
    /\ late = {}
    /\ missed = {}
    /\ failed = {}
    /\ unset = {}
    /\ told = "none"
    /\ scenario \in Scenarios
    /\ orders = scenario.orders
    /\ reports = 0
    /\ lost = 0
    /\ broken = 0
-----------------------------------------------------------------------------
(* The actions of the transition tables, as what they send and tell, one step *)
(* after the other.  What they do to the hardware they do first.              *)

\* A request, and what the action does when it fails: report an error and end,
\* report an error and go on, or just go on.
Send(t, r, f) == [do |-> "send", to |-> t, what |-> r, fails |-> f]

\* An event pushed into the component's own queue, then a notification.  Nobody can
\* tell the notification from one that takes a little longer to arrive.
Tell(e, n) == [do |-> "tell", event |-> e, notification |-> n]
Push(e) == Tell(e, "none")
Notify(n) == Tell("none", n)

BothRunning == reported["MachineControl"] = {"FilamentMergerControl", "FilamentCoilControl"}

StartMachine(heatless) ==
    << Send("FilamentMergerControl", "SetMotorSpeed", "return"),
       Send("FilamentMergerControl", "StartFeeding", "return"),
       Send("FilamentCoilControl", "SetMotorSpeed", "return"),
       Send("FilamentCoilControl",
            IF heatless THEN "StartCoilHeatless" ELSE "StartCoil", "return"),
       Notify("Starting") >>

\* A component that cannot be switched off is passed over: its caller looks at no result.
SwitchOffComponent(c) == Send(c, "SwitchOff", "ignore")

MachineSwitchOff ==
    << SwitchOffComponent("FilamentMergerControl"), SwitchOffComponent("FilamentCoilControl") >>

\* The flags are read when the action begins; the IO thread may change them and
\* push in two steps, so nothing is lost by that.
CheckStartingState ==
    IF BothRunning
    THEN << Tell("StartingSucceeded", "Running") >> ELSE <<>>

\* Faulty variant: the user is not told that the machine has stopped.
CheckStoppingStateSilently ==
    IF reported["MachineControl"] = {} THEN << Push("StoppingSucceeded") >> ELSE <<>>

CheckStoppingState ==
    IF reported["MachineControl"] = {}
    THEN << Tell("StoppingSucceeded", "Stopped") >> ELSE <<>>

MachineAction(action, event) ==
    CASE action = "switchOn" ->
            << Send("FilamentMergerControl", "SwitchOn", "return"),
               Send("FilamentCoilControl", "SwitchOn", "return"),
               Push("SwitchOnSucceeded") >>
      [] action = "startHeating" ->
            << Send("FilamentMergerControl", "StartHeating", "continue"),
               Notify("HeatingUp") >>
      [] action = "startMachine" -> StartMachine(event = "StartHeatless")
      [] action = "checkStartingState" -> CheckStartingState
      [] action = "stopMachine" ->
            << Send("FilamentMergerControl", "StopFeeding", "return"),
               Send("FilamentCoilControl", "StopCoil", "return") >>
      [] action = "checkStoppingState" -> CheckStoppingState
      [] action = "notifyStopped" -> << Notify("Stopped") >>
      [] action = "switchOff" -> Append(MachineSwitchOff, Notify("SwitchedOff"))
      [] action = "handleError" -> Append(MachineSwitchOff, Notify("ErrorOccurred"))
      [] OTHER -> <<>>

\* Faulty variant: the pre-heater is forgotten.
MergerHeaterOff == << SwitchOffComponent("FilamentMergerHeater") >>

HeatersOff ==
    << SwitchOffComponent("FilamentMergerHeater"), SwitchOffComponent("FilamentPreHeater") >>

MergerSwitchOff == << SwitchOffComponent("FilamentFeederMotor") >> \o HeatersOff

MergerAction(action) ==
    CASE action = "switchOn" ->
            << Send("FilamentFeederMotor", "SwitchOn", "return"),
               Push("SwitchOnSucceeded") >>
      [] action = "heatingUp" ->
            << Send("FilamentPreHeater", "SwitchOn", "continue"),
               Send("FilamentMergerHeater", "SwitchOn", "continue") >>
      [] action = "notifyHeatedUp" -> << Notify("HeatedUp") >>
      [] action = "startMotor" -> << Send("FilamentFeederMotor", "StartMotor", "return") >>
      [] action = "notifyRunning" -> << Notify("FeedingRunning") >>
      [] action = "stopMerger" ->
            HeatersOff \o << Send("FilamentFeederMotor", "StopMotor", "continue"),
                             Notify("FeedingStopped") >>
      [] action = "switchOff" -> MergerSwitchOff
      [] action = "handleError" -> Append(MergerSwitchOff, Notify("ErrorOccurred"))
      [] OTHER -> <<>>

CoilSwitchOff ==
    << SwitchOffComponent("FilamentCoilMotor"), SwitchOffComponent("FilamentTensionSensor") >>

CoilAction(action) ==
    CASE action = "switchOn" ->
            << Send("FilamentCoilMotor", "SwitchOn", "return"),
               Send("FilamentTensionSensor", "SwitchOn", "return"),
               Push("SwitchOnSucceeded") >>
      [] action = "startMotor" -> << Send("FilamentCoilMotor", "StartMotor", "return") >>
      [] action = "notifyRunning" -> << Notify("CoilRunning") >>
      [] action = "stopMotor" ->
            << Send("FilamentCoilMotor", "StopMotor", "continue"), Notify("CoilStopped") >>
      [] action = "controlFilamentTension" ->
            IF controlTension
            THEN << Send("FilamentCoilMotor", "ChangeOffsetSpeed", "return") >> ELSE <<>>
      [] action = "switchOff" -> CoilSwitchOff
      [] action = "handleError" -> Append(CoilSwitchOff, Notify("ErrorOccurred"))
      [] OTHER -> <<>>

\* The actions next to the hardware; ok says whether the hardware did its part.
MotorAction(action, ok) ==
    CASE action = "switchOn" ->
            IF ok THEN << Push("SwitchOnSucceeded") >> ELSE << Push("ErrorOccurred") >>
      [] action = "startMotor" ->
            IF ok THEN << Tell("StartMotorSucceeded", "StartMotorSucceeded") >>
                  ELSE << Tell("ErrorOccurred", "ErrorOccurred") >>
      [] action = "stopMotor" -> << Tell("StopMotorSucceeded", "StopMotorSucceeded") >>
      [] action = "handleError" -> << Notify("ErrorOccurred") >>
      [] OTHER -> <<>>

\* startHeating notifies only what it does on MinTemperatureReached, and nobody
\* subscribes to that; stopHeating runs on MaxTemperatureReached alone.
HeaterAction(action, ok) ==
    CASE action = "switchOn" ->
            IF ok THEN << Push("SwitchOnSucceeded") >> ELSE << Push("ErrorOccurred") >>
      [] action = "stopHeating" /\ ok -> << Notify("TargetTemperatureRangeReached") >>
      [] action \in {"startHeating", "stopHeating", "switchOff"} /\ ~ok ->
            << Push("ErrorOccurred") >>
      [] action = "handleError" -> << Notify("ErrorOccurred") >>
      [] OTHER -> <<>>

SensorAction(action, ok) ==
    CASE action = "switchOn" ->
            IF ok THEN << Push("SwitchOnSucceeded") >> ELSE << Push("SwitchOnFailed") >>
      [] action = "handleError" -> << Notify("ErrorOccurred") >>
      [] OTHER -> <<>>

Action(c, action, event, ok) ==
    CASE c = "MachineControl" -> MachineAction(action, event)
      [] c = "FilamentMergerControl" -> MergerAction(action)
      [] c = "FilamentCoilControl" -> CoilAction(action)
      [] c \in Motor -> MotorAction(action, ok)
      [] c \in Heater -> HeaterAction(action, ok)
      [] OTHER -> SensorAction(action, ok)

\* The calls of the hardware that can fail. Stopping an observation cannot.
CanFail(c, action) ==
    \/ c \in Motor \cup Heater /\ action # "none"
    \/ c = "FilamentTensionSensor" /\ action = "switchOn"

\* Faulty variant: a heater that has become hot leaves its relay closed.
DrivenThroughHeat(c, action) ==
    CASE action \in {"startMotor", "startHeating"} -> driven \cup {c}
      [] action \in {"stopMotor", "switchOff", "handleError"} -> driven \ {c}
      [] OTHER -> driven

\* The relays and motors after an action of a heater or a motor that succeeded.
DrivenAfter(c, action) ==
    CASE action \in {"startMotor", "startHeating"} -> driven \cup {c}
      [] action \in {"stopMotor", "stopHeating", "switchOff", "handleError"} -> driven \ {c}
      [] OTHER -> driven

\* A heater that fails goes on observing its temperature.
ObservingAfter(c, action, ok) ==
    CASE action = "switchOn" /\ ok -> observing \cup {c}
      [] action = "switchOff" -> observing \ {c}
      [] action = "handleError" /\ c = "FilamentTensionSensor" -> observing \ {c}
      [] OTHER -> observing

\* The actions that forget the reports of their subordinates.
Forgets(c, action) ==
    \/ c = "MachineControl" /\ action = "startMachine"
    \/ c = "FilamentMergerControl" /\ action \in {"switchOn", "heatingUp"}
-----------------------------------------------------------------------------
\* A push refused by a full queue has no effect.
HasRoom(c) == Len(queue[c]) + 1 # scenario.maxSize
Pushed(c, e) == IF HasRoom(c) THEN [queue EXCEPT ![c] = Append(@, e)] ELSE queue

\* The speed of motor m is set, or not: MotorService returns what became of it, and
\* nobody looks.
SetsSpeed(m) == \/ UNCHANGED unset
                \/ m \in scenario.slips /\ unset' = unset \cup {m}

Idle(c) == todo[c] = <<>>
Entries(c) == {t \in Table(c) : t.state = state[c] /\ t.event = Head(queue[c])}

\* The worker of c takes an event and begins the action of its transition.  Only
\* this worker uses the hardware of c.
Dispatch(c) ==
    /\ Idle(c)
    /\ queue[c] # <<>>
    /\ \E t \in Entries(c), ok \in BOOLEAN :
          /\ ~ok => CanFail(c, t.action) /\ broken < scenario.maxBroken
          /\ state' = [state EXCEPT ![c] = t.next]
          /\ todo' = [todo EXCEPT ![c] = Action(c, t.action, t.event, ok)]
          /\ driven' = IF ok /\ c \in Motor \cup Heater THEN DrivenAfter(c, t.action) ELSE driven
          /\ observing' = IF c \in Heater \cup {"FilamentTensionSensor"}
                          THEN ObservingAfter(c, t.action, ok) ELSE observing
          /\ broken' = IF ok THEN broken ELSE broken + 1
          /\ reported' = IF Forgets(c, t.action) THEN [reported EXCEPT ![c] = {}]
                                                 ELSE reported
          /\ IF c \in Motor /\ t.action = "startMotor" THEN SetsSpeed(c) ELSE UNCHANGED unset
    /\ queue' = [queue EXCEPT ![c] = Tail(@)]
    /\ UNCHANGED <<io, mail, controlTension, jammed, late, missed, failed, told, scenario,
                   orders, reports, lost>>

DispatchFails(c) ==
    /\ Idle(c)
    /\ queue[c] # <<>>
    /\ Entries(c) = {}
    /\ queue' = [queue EXCEPT ![c] = Tail(@)]
    /\ UNCHANGED <<state, todo, io, mail, reported, controlTension, told, hardware, calls,
                   budget>>

\* The next step of the action that c runs.
AtStep(c, do) == ~Idle(c) /\ Head(todo[c]).do = do
Goes(c) == todo' = [todo EXCEPT ![c] = Tail(@)]

\* Faulty variant: an action that ends early reports no error.
FailsSilently(c) ==
    todo' = [todo EXCEPT ![c] =
        CASE Head(@).fails = "return" -> <<>>
          [] Head(@).fails = "continue" -> << Push("ErrorOccurred") >> \o Tail(@)
          [] OTHER -> Tail(@)]

Fails(c) ==
    todo' = [todo EXCEPT ![c] =
        CASE Head(@).fails = "return" -> << Push("ErrorOccurred") >>
          [] Head(@).fails = "continue" -> << Push("ErrorOccurred") >> \o Tail(@)
          [] OTHER -> Tail(@)]

Own(c, e) == IF e = "none" THEN queue ELSE Pushed(c, e)

\* Faulty variant: the worker waits for room in its own queue.
TellsWhenRoom(c) ==
    /\ AtStep(c, "tell")
    /\ HasRoom(c)
    /\ queue' = Own(c, Head(todo[c]).event)
    /\ LET n == Head(todo[c]).notification
       IN  IF n = "none" THEN UNCHANGED <<mail, told>>
           ELSE IF c = "MachineControl" THEN told' = n /\ UNCHANGED mail
           ELSE mail' = [mail EXCEPT ![c] = Append(@, n)] /\ UNCHANGED told
    /\ Goes(c)
    /\ UNCHANGED <<state, io, reported, controlTension, hardware, calls, budget>>

Tells(c) ==
    /\ AtStep(c, "tell")
    /\ queue' = Own(c, Head(todo[c]).event)
    /\ LET n == Head(todo[c]).notification
       IN  IF n = "none" THEN UNCHANGED <<mail, told>>
           ELSE IF c = "MachineControl" THEN told' = n /\ UNCHANGED mail
           ELSE mail' = [mail EXCEPT ![c] = Append(@, n)] /\ UNCHANGED told
    /\ Goes(c)
    /\ UNCHANGED <<state, io, reported, controlTension, hardware, calls, budget>>

\* The requests for speed push no event.
PushesEvent(r) == r \notin {"SetMotorSpeed", "ChangeOffsetSpeed"}
Accepts(t, r) == PushesEvent(r) => HasRoom(t)

MotorOf(c) == IF c = "FilamentMergerControl" THEN "FilamentFeederMotor" ELSE "FilamentCoilMotor"

TimedOut(c, t, r) == [from |-> c, to |-> t, what |-> r]

\* The IO thread of control c forwards a request for speed to its motor, with the request
\* socket of c, and answers Success whatever comes of it.  The forwarded request may be
\* refused, not be sent, or time out.  Others wait to be handled late.
Forwards(c, others) ==
    LET m == MotorOf(c)
    IN  \/ /\ c \notin jammed
           /\ SetsSpeed(m)
           /\ late' = others
           /\ UNCHANGED jammed
        \/ /\ c \in jammed \/ m \in scenario.slips
           /\ unset' = unset \cup {m}
           /\ late' = others
           /\ UNCHANGED jammed
        \/ /\ c \notin jammed /\ m \in scenario.slips
           /\ unset' = unset \cup {m}
           /\ late' = others \cup {TimedOut(c, m, "SetMotorSpeed")}
           /\ jammed' = jammed \cup {c}

\* The effect of request r at component t, in t's IO thread.
Handles(t, r, others) ==
    /\ io[t] = "none"
    /\ queue' = IF PushesEvent(r) THEN Pushed(t, EventOf(r)) ELSE queue
    /\ controlTension' = CASE r = "StartCoil" -> TRUE
                           [] r = "StartCoilHeatless" -> FALSE
                           [] OTHER -> controlTension
    /\ IF ~PushesEvent(r) /\ t \in Control THEN Forwards(t, others)
       ELSE /\ late' = others
            /\ UNCHANGED jammed
            /\ IF PushesEvent(r) THEN UNCHANGED unset ELSE SetsSpeed(t)

GetsLost(c, r) ==
    <<c, r>> \in scenario.lossy /\ lost < scenario.maxLost /\ lost' = lost + 1

\* What is known of SwitchOff when a request reaches t, or is going to, and when it fails.
Reaches(t, r) == missed' = IF r = "SwitchOff" THEN missed \ {t} ELSE missed
Misses(t, r) == missed' = IF r = "SwitchOff" THEN missed \cup {t} ELSE missed

\* A failed request of worker c; SwitchOff is in missed.
Noted(c, r) == failed' = IF r = "SwitchOff" THEN failed ELSE failed \cup {c}

\* A socket that still awaits an answer refuses to send.
SendRefused(c, t, r) ==
    /\ c \in jammed
    /\ Fails(c)
    /\ Noted(c, r)
    /\ Misses(t, r)
    /\ UNCHANGED <<queue, controlTension, jammed, late, unset, lost>>

\* The request is answered; a full queue makes the answer an error.
SendAnswered(c, t, r) ==
    /\ c \notin jammed
    /\ Handles(t, r, late)
    /\ IF Accepts(t, r) THEN Goes(c) /\ Reaches(t, r) /\ UNCHANGED failed
       ELSE Fails(c) /\ Noted(c, r) /\ Misses(t, r)
    /\ UNCHANGED lost

\* No connection: nothing is sent, and the socket can be used again.
SendUnsent(c, t, r) ==
    /\ c \notin jammed
    /\ GetsLost(c, r)
    /\ Fails(c)
    /\ Noted(c, r)
    /\ Misses(t, r)
    /\ UNCHANGED <<queue, controlTension, jammed, late, unset>>

\* No answer in time: the request is still handled, at once or later, and the socket
\* awaits the answer for ever.
SendTimesOut(c, t, r) ==
    /\ c \notin jammed
    /\ GetsLost(c, r)
    /\ Fails(c)
    /\ Noted(c, r)
    /\ Reaches(t, r)
    /\ jammed' = jammed \cup {c}
    /\ late' = late \cup {TimedOut(c, t, r)}
    /\ UNCHANGED <<queue, controlTension, unset>>

Sends(c) ==
    /\ AtStep(c, "send")
    /\ LET t == Head(todo[c]).to
           r == Head(todo[c]).what
       IN  \/ SendRefused(c, t, r)
           \/ SendAnswered(c, t, r)
           \/ SendUnsent(c, t, r)
           \/ SendTimesOut(c, t, r)
    /\ UNCHANGED <<state, io, mail, reported, told, hardware, scenario, orders,
                   reports, broken>>

\* The IO thread of its receiver handles a request whose sender no longer waits.
HandlesLate(o) ==
    /\ o \in late
    /\ Handles(o.to, o.what, late \ {o})
    /\ IF Accepts(o.to, o.what) THEN UNCHANGED missed ELSE Misses(o.to, o.what)
    /\ UNCHANGED <<state, todo, io, mail, reported, failed, told, hardware, budget>>
-----------------------------------------------------------------------------
\* The notifications whose handlers are written by hand; the generated handlers
\* of the others push an event of their own.
Reports == {"FeedingRunning", "FeedingStopped", "CoilRunning", "CoilStopped",
            "TargetTemperatureRangeReached"}

\* Faulty variant: a unit that has stopped still counts as running.
HeardOnce(p, n) == [reported EXCEPT ![Subscriber(p)] = @ \cup {p}]

\* What the subscriber of p takes for running or hot when it has heard n.
Heard(p, n) ==
    [reported EXCEPT ![Subscriber(p)] =
        IF n \in {"FeedingStopped", "CoilStopped"} THEN @ \ {p} ELSE @ \cup {p}]

\* The event that report n of p makes its subscriber push, or "none": both
\* heaters are hot, and this one was not before.
Concludes(p, n) ==
    CASE n \in {"FeedingRunning", "CoilRunning"} -> "CheckStartingState"
      [] n \in {"FeedingStopped", "CoilStopped"} -> "CheckStoppingState"
      [] /\ n = "TargetTemperatureRangeReached"
         /\ reported["FilamentMergerControl"] = Heater \ {p} -> "HeatingUpSucceeded"
      [] OTHER -> "none"

\* The subscriber's IO thread handles the oldest notification of p.  A report
\* changes the flags first, without a lock, and is pushed afterwards.
Delivers(p) ==
    /\ mail[p] # <<>>
    /\ io[Subscriber(p)] = "none"
    /\ LET n == Head(mail[p])
           c == Subscriber(p)
       IN  \/ /\ n \in Reports
              /\ reported' = Heard(p, n)
              /\ io' = [io EXCEPT ![c] = Concludes(p, n)]
              /\ UNCHANGED queue
           \/ /\ n \notin Reports
              /\ queue' = Pushed(c, IF n = "HeatedUp" THEN "MergerHeatedUp" ELSE n)
              /\ UNCHANGED <<reported, io>>
    /\ mail' = [mail EXCEPT ![p] = Tail(@)]
    /\ UNCHANGED <<state, todo, controlTension, told, hardware, calls, budget>>

IoPushes(c) ==
    /\ io[c] # "none"
    /\ queue' = Pushed(c, io[c])
    /\ io' = [io EXCEPT ![c] = "none"]
    /\ UNCHANGED <<state, todo, mail, reported, controlTension, told, hardware, calls, budget>>

\* Nothing is under way.
Quiet ==
    /\ \A c \in Component : Idle(c) /\ queue[c] = <<>> /\ io[c] = "none"
    /\ \A p \in Publisher : mail[p] = <<>>
    /\ late = {}

\* A user's order reaches MachineControl.  The user waits until the machine has
\* settled, unless the order is a hasty one.
UserOrders ==
    /\ orders # <<>>
    /\ Head(orders) \in scenario.hasty \/ Quiet
    /\ io["MachineControl"] = "none"
    /\ queue' = Pushed("MachineControl", Head(orders))
    /\ orders' = Tail(orders)
    /\ UNCHANGED <<state, todo, io, mail, reported, controlTension, told, hardware, calls,
                   scenario, reports, lost, broken>>

Occurs(report) == reports < Len(scenario.sensed) /\ report \in scenario.sensed[reports + 1]

\* A timer of a heater has seen the temperature change beyond a limit, and
\* observers of the tension sensor an edge; the latter notify directly.
TemperatureReported(h, e) ==
    /\ h \in observing
    /\ Occurs(e)
    /\ reports' = reports + 1
    /\ queue' = Pushed(h, e)
    /\ UNCHANGED <<state, todo, io, mail, reported, controlTension, told, hardware, calls,
                   scenario, orders, lost, broken>>

TensionReported(n) ==
    /\ "FilamentTensionSensor" \in observing
    /\ Occurs(n)
    /\ reports' = reports + 1
    /\ mail' = [mail EXCEPT !["FilamentTensionSensor"] = Append(@, n)]
    /\ UNCHANGED <<state, queue, todo, io, reported, controlTension, told, hardware, calls,
                   scenario, orders, lost, broken>>

WorkerStep(c) ==
    \/ Dispatch(c)
    \/ DispatchFails(c)
    \/ Tells(c)
    \/ Sends(c)

ThreadStep ==
    \/ \E c \in Component : WorkerStep(c) \/ IoPushes(c)
    \/ \E p \in Publisher : Delivers(p)
    \/ \E o \in late : HandlesLate(o)

Next ==
    \/ ThreadStep
    \/ UserOrders
    \/ \E h \in Heater, e \in Temperature : TemperatureReported(h, e)
    \/ \E n \in Tension : TensionReported(n)

Spec == Init /\ [][Next]_vars

\* Some worker or IO thread runs while one of them can.  Users and sensors need
\* not do anything.
FairSpec == Spec /\ WF_vars(ThreadStep)
-----------------------------------------------------------------------------
\* Every event finds a transition in the state in which it is taken: the code
\* asserts that it does, "ASSERT_NOT_REACHABLE" (StateMachine.hpp:137).
EveryEventHasTransition ==
    \A c \in Component : Idle(c) /\ queue[c] # <<>> => Entries(c) # {}

\* The motors and heaters that are at work, by their states.
AtWork == {c \in Motor \cup Heater : state[c] \in {"Starting", "Running", "HeatingOn"}}

\* Each call of the hardware that failed leaves at most one device otherwise than its
\* state says, whatever came in between; a component that is off observes nothing, and
\* neither does a tension sensor in its error state (FilamentFeederMotor.cpp:63-110,
\* FilamentMergerHeater.cpp:66-128, FilamentTensionSensor.cpp:65-77).
HardwareFollowsStates ==
    /\ Cardinality((driven \ AtWork) \cup (AtWork \ driven)) <= broken
    /\ \A c \in observing : state[c] # "Off"
    /\ "FilamentTensionSensor" \in observing => state["FilamentTensionSensor"] # "Error"

\* What holds of the components at any time, whoever uses them and whatever fails.
MachineInvariant == TypeOK /\ HardwareFollowsStates

At(c, s) == state[c] = s
Faultless == lost = 0 /\ broken = 0 /\ jammed = {}

\* SwitchOff did not get to c, or not to the control that would have passed it on.
NotToldOff(c) ==
    \/ c \in missed
    \/ c \in Publisher /\ Subscriber(c) \in missed

\* When the machine has settled in Off or Error, no heater is on and no motor rotates,
\* whatever was queued or on its way when it was switched off or failed, and also when a
\* request of a start failed: what was started already is switched off again
\* (MachineControl.cpp:186-214, 259-269).  A heater that could not be switched off at
\* first is off, because its error handling tries again (FilamentMergerHeater.cpp:112-127).
\* In Off every component is off, so that it can be switched on again: errors that cross
\* the switch-off on the way up leave no component behind.  Two things are excepted: a
\* motor when a call of the hardware failed, and what SwitchOff did not get to, since
\* nobody looks at its result (ControlService.hpp:85-98).  After a time-out no SwitchOff
\* of that sender gets anywhere: see ErrorIsSafe.
OffIsSafe ==
    Quiet =>
        /\ state["MachineControl"] \in {"Off", "Error"} =>
              \A d \in driven : NotToldOff(d) \/ (d \in Motor /\ broken > 0)
        /\ At("MachineControl", "Off") =>
              \A c \in Component : At(c, "Off") \/ NotToldOff(c)

\* The sender handles a response that is missing "appropriate" (doc/Architecture.md:132):
\* a machine whose hardware works and that has settled in Error has nothing switched on.
ErrorIsSafe == Quiet /\ broken = 0 /\ At("MachineControl", "Error") => driven = {}

\* When the machine has settled in Stopped, nothing is on.  Two tension reports can
\* break that: an overload that pauses the coil and hides the stop from it, since
\* Pausing has no transition for StopMotor, and its end that starts the coil motor
\* again (MachineServiceComponent.yaml:501-533).
StoppedIsSafe ==
    Quiet /\ Faultless /\ At("MachineControl", "Stopped") =>
        driven \subseteq IF reports < 2 THEN {} ELSE {"FilamentCoilMotor"}

\* The machine does not settle on the way to a state, but for what follows from
\* transitions that the tables lack: a coil paused before the start was complete,
\* a merger that was told to stop when it was just hot, a coil that resumed after
\* the stop (MachineControl.cpp:216-252).
NeverStuck ==
    Quiet /\ Faultless =>
        /\ ~At("MachineControl", "Initialization")
        /\ At("MachineControl", "Starting") => At("FilamentCoilControl", "Paused")
        /\ At("MachineControl", "Stopping") =>
              \/ At("FilamentMergerControl", "HeatedUp")
              \/ At("FilamentCoilControl", "Running")

\* When the machine has settled in Running, the feeder rotates, and so does the
\* coil unless it is paused: flags left from an earlier run, or set on the IO
\* thread while the start goes on, do not claim more (MachineControl.cpp:117-143).
RunningRuns ==
    Quiet /\ Faultless /\ At("MachineControl", "Running") =>
        /\ "FilamentFeederMotor" \in driven
        /\ "FilamentCoilMotor" \in driven \/ At("FilamentCoilControl", "Paused")

\* Neither a request that a worker sent and that failed, because it was lost, timed out,
\* or was refused by a full queue or by a socket that awaits an answer, nor a call of the
\* hardware that failed is passed over: the machine settles in Error, unless it is the
\* tension sensor that did not start, whose SwitchOnFailed has no transition
\* (FilamentTensionSensor.cpp:74-77).  What the code does pass over is not in failed and
\* broken, and does not keep the others from being seen: a SwitchOff
\* (ControlService.hpp:85-98), a request for speed that is forwarded
\* (ServiceComponent.hpp:134), and a speed that the hardware did not take
\* (MotorService.cpp:84, FilamentFeederMotor.cpp:56, FilamentCoilMotor.cpp:58, 68, 79): a
\* motor in unset may run at a wrong speed in a machine that is Running.  Nor is anything
\* said of a machine that is off.
FailuresSurface ==
    Quiet /\ (failed # {} \/ broken > 0) /\ ~At("MachineControl", "Off") =>
        \/ At("MachineControl", "Error")
        \/ At("FilamentTensionSensor", "Initialization")

\* When the machine has settled, the last thing it told is where it is, although it
\* tells before the event that takes it there is handled (MachineControl.cpp:220-221,
\* 249-250).
TellsTruth ==
    Quiet =>
        CASE At("MachineControl", "Off") -> told \in {"none", "SwitchedOff"}
          [] At("MachineControl", "Error") -> told = "ErrorOccurred"
          [] state["MachineControl"] \in {"Stopped", "HeatingUp", "Starting", "Running"} ->
                told = state["MachineControl"]
          [] OTHER -> TRUE

\* The machine obeys a SwitchOff that it has accepted, in whatever state it is.
SwitchesOff ==
    (\E i \in DOMAIN queue["MachineControl"] : queue["MachineControl"][i] = "SwitchOff")
        ~> At("MachineControl", "Off")

\* The components come to rest: errors that are reported up and switch-offs that
\* are sent down do not chase each other, and nobody waits for ever.
Settles == <>[]Quiet
=============================================================================
