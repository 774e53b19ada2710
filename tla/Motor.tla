-------------------------------- MODULE Motor --------------------------------
(***************************************************************************)
(* A motor component, FilamentFeederMotor or FilamentCoilMotor, over the   *)
(* driver of its motor.  Its worker runs the actions of the table and its  *)
(* IO thread the requests for speed; both call the same driver, without a  *)
(* lock, and the controller sees their transfers interleaved.              *)
(***************************************************************************)
EXTENDS StepperMotor, MachineTables

CONSTANTS
    MotorOrders,    \* the sequence of sets from which the component is sent its events
    Speeds,         \* the speeds that it may be asked for
    Increments,     \* the changes of offset that it may be asked for
    MaxRequests,    \* bound: requests for speed
    MaxFaults       \* bound: transfers that fail

ASSUME MotorOrdersAssumption ==
    MotorOrders \in Seq(SUBSET {"SwitchOn", "SwitchOff", "StartMotor", "StopMotor"})

ASSUME MotorRequestsAssumption ==
    /\ Speeds \subseteq Nat /\ Increments \subseteq Int
    /\ MaxRequests \in Nat /\ MaxFaults \in Nat

VARIABLES
    motor,          \* m_state of the component
    events,         \* its event queue
    steps,          \* what is left of the call that each thread makes
    sending,        \* the velocity that each thread is about to send
    motorSpeed,     \* m_motorSpeed of MotorService
    offset,         \* m_motorOffsetSpeed
    ownSpeed,       \* m_speed of the driver
    tic,            \* the controller
    up,             \* the hardware has been initialized
    crossed,        \* history: a request came while the worker used the motor
    motorOrders, requests, faults

motorVars == <<motor, events, steps, sending, motorSpeed, offset, ownSpeed, tic, up,
               crossed, motorOrders, requests, faults>>

Thread == {"worker", "io"}

LocalSteps ==
    {"initialized", "initFailed", "resetSpeeds", "sendSpeed", "rotationSpeed", "started",
     "startFailed", "stopped", "clamp"}

MotorTypeOK ==
    /\ motor \in MotorStates
    /\ events \in Seq({t.event : t \in MotorTable})
    /\ steps \in [Thread -> Seq(Transfers \cup LocalSteps)]
    /\ sending \in [Thread -> Nat]
    /\ motorSpeed \in Nat
    /\ offset \in Int
    /\ ownSpeed \in 0..MaxSpeed
    /\ tic \in [there : BOOLEAN, target : Nat, velocity : Nat, energized : BOOLEAN,
                locked : BOOLEAN, safeStart : BOOLEAN]
    /\ up \in BOOLEAN
    /\ crossed \in BOOLEAN
    /\ requests \in 0..MaxRequests
    /\ faults \in 0..MaxFaults

MotorInit ==
    /\ motor = "Off"
    /\ events = <<>>
    /\ steps = [t \in Thread |->
                   IF t = "worker" THEN InitController \o << "initialized" >> ELSE <<>>]
    /\ sending = [t \in Thread |-> 0]
    /\ motorSpeed = 0
    /\ offset = 0
    /\ ownSpeed = 0
    /\ tic \in {PoweredUp(TRUE), PoweredUp(FALSE)}
    /\ up = FALSE
    /\ crossed = FALSE
    /\ motorOrders = MotorOrders
    /\ requests = 0
    /\ faults = 0
-----------------------------------------------------------------------------
AtRest(t) == steps[t] = <<>>
NextStep(t) == Head(steps[t])
Rest(t) == Tail(steps[t])

\* The process crashes when a call uses the controller after it was deleted.
Crashed == \E t \in Thread : ~AtRest(t) /\ NextStep(t) \in Transfers /\ ~tic.there

\* Faulty variant: startMotor leaves the speed to the driver.
ActionWithoutSpeed(action) ==
    CASE action = "switchOn" -> Reset \o << "resetSpeeds" >>
      [] action = "startMotor" -> Rotate \o << "started" >>
      [] action = "stopMotor" -> Stop(FALSE) \o << "stopped" >>
      [] action = "switchOff" -> Stop(FALSE)
      [] action = "handleError" -> Stop(TRUE)
      [] OTHER -> <<>>

\* What the worker does in the actions of the table.
MotorAction(action) ==
    CASE action = "switchOn" -> Reset \o << "resetSpeeds" >>
      [] action = "startMotor" -> << "sendSpeed" >> \o Rotate \o << "started" >>
      [] action = "stopMotor" -> Stop(FALSE) \o << "stopped" >>
      [] action = "switchOff" -> Stop(FALSE)
      [] action = "handleError" -> Stop(TRUE)
      [] OTHER -> <<>>

\* The worker takes an event; one without a transition is dropped.
MotorDispatch ==
    /\ AtRest("worker")
    /\ events # <<>>
    /\ LET entries == {t \in MotorTable : t.state = motor /\ t.event = Head(events)}
       IN  \/ /\ entries = {}
              /\ UNCHANGED <<motor, steps>>
           \/ \E t \in entries :
                 /\ motor' = t.next
                 /\ steps' = [steps EXCEPT !["worker"] = MotorAction(t.action)]
    /\ events' = Tail(events)
    /\ UNCHANGED <<sending, motorSpeed, offset, ownSpeed, tic, up, crossed, motorOrders,
                   requests, faults>>

\* Thread t makes the next transfer of its call.
MotorTransfer(t) ==
    /\ ~AtRest(t)
    /\ NextStep(t) \in Transfers
    /\ \E ok \in BOOLEAN :
          /\ ~ok => faults < MaxFaults
          /\ faults' = IF ok THEN faults ELSE faults + 1
          /\ tic' = Controller(tic, NextStep(t), ok, sending[t])
          /\ steps' = [steps EXCEPT ![t] = After(tic, NextStep(t), ok, Rest(t))]
    /\ UNCHANGED <<motor, events, sending, motorSpeed, offset, ownSpeed, up, crossed,
                   motorOrders, requests>>

\* setSpeed refuses what exceeds the maximum; a negative sum does, once it is unsigned.
Accepted(sum) == sum \in 0..MaxSpeed
Sum == motorSpeed + offset

\* Thread t sets a speed: the sum of speed and offset, or the driver's own once more.
SetSpeed(t) ==
    /\ ~AtRest(t)
    /\ \/ /\ NextStep(t) = "sendSpeed"
          /\ \/ /\ Accepted(Sum)
                /\ ownSpeed' = Sum
                /\ sending' = [sending EXCEPT ![t] = rpmToMicrostepsPer10kSeconds(Sum)]
                /\ steps' = [steps EXCEPT ![t] = << "setTargetVelocity" >> \o Rest(t)]
             \/ /\ ~Accepted(Sum)
                /\ steps' = [steps EXCEPT ![t] = Rest(t)]
                /\ UNCHANGED <<ownSpeed, sending>>
       \/ /\ NextStep(t) = "rotationSpeed"
          /\ sending' = [sending EXCEPT ![t] = rpmToMicrostepsPer10kSeconds(ownSpeed)]
          /\ steps' = [steps EXCEPT ![t] = << "setRotationVelocity" >> \o Rest(t)]
          /\ UNCHANGED ownSpeed
    /\ UNCHANGED <<motor, events, motorSpeed, offset, tic, up, crossed, motorOrders,
                   requests, faults>>

\* The event that ends an action, pushed into the component's own queue.
Result(step) ==
    CASE step = "resetSpeeds" -> << "SwitchOnSucceeded" >>
      [] step = "started" -> << "StartMotorSucceeded" >>
      [] step = "startFailed" -> << "ErrorOccurred" >>
      [] step = "stopped" -> << "StopMotorSucceeded" >>
      [] OTHER -> <<>>

\* The worker ends an action, or the initialization of the hardware; without the
\* latter nothing is started.
MotorFinish ==
    /\ ~AtRest("worker")
    /\ LET step == NextStep("worker")
       IN  /\ step \in LocalSteps \ {"sendSpeed", "rotationSpeed", "clamp"}
           /\ events' = events \o Result(step)
           /\ up' = (up \/ step = "initialized")
           /\ tic' = IF step = "initFailed" THEN Deleted(tic) ELSE tic
           /\ motorSpeed' = IF step = "resetSpeeds" THEN 0 ELSE motorSpeed
           /\ offset' = IF step = "resetSpeeds" THEN 0 ELSE offset
    /\ steps' = [steps EXCEPT !["worker"] = Rest("worker")]
    /\ UNCHANGED <<motor, sending, ownSpeed, crossed, motorOrders, requests, faults>>

Crosses == crossed \/ ~AtRest("worker") \/ events # <<>>

\* The IO thread handles a request for speed v: it keeps the speed first and clamps
\* it afterwards.
SetMotorSpeed(v) ==
    /\ up /\ AtRest("io")
    /\ requests < MaxRequests
    /\ requests' = requests + 1
    /\ motorSpeed' = v
    /\ steps' = [steps EXCEPT !["io"] = << "clamp", "sendSpeed" >>]
    /\ crossed' = Crosses
    /\ UNCHANGED <<motor, events, sending, offset, ownSpeed, tic, up, motorOrders, faults>>

Clamp ==
    /\ ~AtRest("io") /\ NextStep("io") = "clamp"
    /\ motorSpeed' = IF motorSpeed > MaxSpeed THEN MaxSpeed ELSE motorSpeed
    /\ steps' = [steps EXCEPT !["io"] = Rest("io")]
    /\ UNCHANGED <<motor, events, sending, offset, ownSpeed, tic, up, crossed, motorOrders,
                   requests, faults>>

Clamped(n) == IF n < 0 THEN 0 ELSE IF n > MaxSpeed THEN MaxSpeed ELSE n
AddOffset(d) == Clamped(motorSpeed + offset + d) - motorSpeed

\* The IO thread handles a request to change the offset by d.
ChangeOffset(d) ==
    /\ up /\ AtRest("io")
    /\ requests < MaxRequests
    /\ requests' = requests + 1
    /\ offset' = AddOffset(d)
    /\ steps' = [steps EXCEPT !["io"] = << "sendSpeed" >>]
    /\ crossed' = Crosses
    /\ UNCHANGED <<motor, events, sending, motorSpeed, ownSpeed, tic, up, motorOrders, faults>>

MotorOrdered ==
    /\ up
    /\ motorOrders # <<>>
    /\ \E e \in Head(motorOrders) : events' = Append(events, e)
    /\ motorOrders' = Tail(motorOrders)
    /\ crossed' = (crossed \/ ~AtRest("io"))
    /\ UNCHANGED <<motor, steps, sending, motorSpeed, offset, ownSpeed, tic, up, requests,
                   faults>>

\* The motor reaches the target velocity.
Ramp ==
    /\ Normal(tic)
    /\ tic.velocity # tic.target
    /\ tic' = Ramped(tic)
    /\ UNCHANGED <<motor, events, steps, sending, motorSpeed, offset, ownSpeed, up, crossed,
                   motorOrders, requests, faults>>

MotorWorkerStep == MotorDispatch \/ MotorTransfer("worker") \/ SetSpeed("worker") \/ MotorFinish
MotorIoStep == MotorTransfer("io") \/ SetSpeed("io") \/ Clamp

MotorNext ==
    /\ ~Crashed
    /\ \/ MotorWorkerStep
       \/ MotorIoStep
       \/ Ramp
       \/ MotorOrdered
       \/ \E v \in Speeds : SetMotorSpeed(v)
       \/ \E d \in Increments : ChangeOffset(d)

MotorSpec == MotorInit /\ [][MotorNext]_motorVars

\* Both threads run, and the motor does what the controller makes it do.
MotorFairness ==
    /\ WF_motorVars(~Crashed /\ MotorWorkerStep)
    /\ WF_motorVars(~Crashed /\ MotorIoStep)
    /\ WF_motorVars(~Crashed /\ Ramp)
-----------------------------------------------------------------------------
\* The motor stands, once the component is in a state in which it must and has done
\* what it had to do, even if one transfer failed: the shutdown has two transfers that
\* each keep it from turning (StepperMotor.cpp:265-266).  It takes a controller with
\* safe start.
StillWhenNotRunning ==
    /\ motor \in {"Off", "Initialization", "Stopped", "Error"}
    /\ \A t \in Thread : AtRest(t)
    /\ tic.safeStart /\ faults <= 1
    => tic.velocity = 0

\* A running motor turns at the sum of speed and offset, unless a request came while
\* the worker used the motor: then the transfers of the two may arrive in the other
\* order (MotorService.cpp:62-70, StepperMotor.cpp:335-341).
TurnsAsTold ==
    /\ motor = "Running" /\ events = <<>>
    /\ \A t \in Thread : AtRest(t)
    /\ faults = 0 /\ ~crossed
    /\ Accepted(Sum)
    => Normal(tic) /\ tic.target = rpmToMicrostepsPer10kSeconds(Sum)

\* The worker that waits for the motor to stop goes on, unless the motor is told
\* to turn meanwhile (StepperMotor.cpp:247-268).
Polls == ~AtRest("worker") /\ NextStep("worker") = "poll"
GoesOn == ~Polls \/ tic.target # 0
StopEnds == Polls ~> GoesOn

\* What holds of the motor at any time: it does as it was told last, and nothing when it
\* must stand (MotorService.cpp:40-119 over StepperMotor.cpp).
MotorInvariant == MotorTypeOK /\ StillWhenNotRunning /\ TurnsAsTold
=============================================================================
