----------------------- MODULE StatedServiceComponent -----------------------
(***************************************************************************)
(* A service component driven by a state machine, as an active object: its *)
(* event queue, the worker thread that pulls and dispatches events, the IO *)
(* thread that pushes what requests and notifications ask for, the timer   *)
(* and observer threads that push what the hardware reports, and the owner *)
(* that starts and stops the component, again and again.                   *)
(*                                                                         *)
(* An event carries two history values that the code does not have and no  *)
(* guard reads: the session (between two starts) it was accepted in, as a  *)
(* parity, and whether it was accepted after that session's reset.         *)
(***************************************************************************)
EXTENDS Naturals, Sequences, FiniteSets

CONSTANTS
    Name,           \* the events of the component
    State,          \* the states of its state machine
    InitState,
    Transitions,    \* m_transitions: a sequence of [state, event, next, raises]
    Requested,      \* the events that requests and notifications push
    Sensed,         \* the events that timer or observer threads push
    MaxSize,        \* maxQueueSize of the event queue
    Worker,
    None

\* A transition, with the events that its action may push.
TransitionType == [state : State, event : Name, next : State,
                   raises : SUBSET Name]

ASSUME ComponentAssumption ==
    /\ MaxSize \in Nat
    /\ InitState \in State
    /\ Transitions \in Seq(TransitionType)
    /\ Requested \subseteq Name
    /\ Sensed \subseteq Name

Entry == [name : Name, session : {0, 1}, late : BOOLEAN]

ASSUME NoneAssumption == None \notin Entry

VARIABLES
    queue, waiting, woken, pulled,  \* the event queue, see EventQueue
    state,          \* m_state
    processEvents,  \* m_processEvents
    owner,          \* where the owner is in start() and stop()
    worker,         \* where the worker thread is in its loop
    raising,        \* events the running action may still push
    brokerOn,       \* the message broker delivers to the component
    sensing,        \* a timer or observer thread of the component runs
    session

queueVars == <<queue, waiting, woken, pulled>>
threadVars == <<processEvents, owner, worker, raising>>
vars == <<queueVars, threadVars, state, brokerOn, sensing, session>>

Q == INSTANCE EventQueue WITH Event <- Entry, Puller <- {Worker}

OwnerAt == {"stopped", "starting", "spawned", "running", "failed",
            "stopping", "joining", "joined", "aborted"}
WorkerAt == {"none", "check", "pull", "dispatch", "action", "done", "aborted"}

\* The variables have their types, and what the worker looks up in the table is
\* an event of the component: a wakeup that finds nothing is not one, whoever
\* caused it (StateMachine.hpp:128).
TypeOK ==
    /\ Q!TypeOK
    /\ state \in State
    /\ processEvents \in BOOLEAN
    /\ owner \in OwnerAt
    /\ worker \in WorkerAt
    /\ raising \subseteq Name
    /\ brokerOn \in BOOLEAN
    /\ sensing \in BOOLEAN
    /\ session \in {0, 1}
    /\ worker = "dispatch" => pulled[Worker] \in Entry

Init ==
    /\ Q!Init
    /\ state = InitState
    /\ processEvents = FALSE
    /\ owner = "stopped"
    /\ worker = "none"
    /\ raising = {}
    /\ brokerOn = FALSE
    /\ sensing = FALSE
    /\ session = 0
-----------------------------------------------------------------------------
\* The history values of an event accepted now.
AfterReset == owner \in {"joining", "joined", "stopped"}
Tagged(n) == [name |-> n, session |-> session, late |-> AfterReset]

\* StateMachine::push: refused without effect when the queue has no room.
PushEvent(n) ==
    \/ Q!Push(Tagged(n))
    \/ ~Q!HasRoom /\ UNCHANGED queueVars

\* The IO thread handles a request or a notification: the answer to a
\* request is Success exactly when the event was accepted.
IoPushes(n) ==
    /\ brokerOn
    /\ PushEvent(n)
    /\ UNCHANGED <<threadVars, state, brokerOn, sensing, session>>

\* A timer or an observer of the component reports.  These threads do not
\* belong to the broker or the process context, and stop() leaves them on.
SensorPushes(n) ==
    /\ sensing
    /\ PushEvent(n)
    /\ UNCHANGED <<threadVars, state, brokerOn, sensing, session>>
-----------------------------------------------------------------------------
(* The owner's start(). *)

Start ==
    /\ owner = "stopped"
    /\ processEvents' = TRUE
    /\ owner' = "starting"
    /\ session' = 1 - session
    /\ UNCHANGED <<queueVars, worker, raising, state, brokerOn, sensing>>

StartWorker ==
    /\ owner = "starting"
    /\ worker' = "check"
    /\ owner' = "spawned"
    /\ UNCHANGED <<queueVars, processEvents, raising, state, brokerOn, sensing,
                   session>>

\* The broker starts and the subscriptions are made; when one of these
\* fails, start() returns false and the worker goes on.
StartBroker ==
    /\ owner = "spawned"
    /\ \/ owner' = "running" /\ brokerOn' = TRUE
       \/ owner' = "failed" /\ brokerOn' \in BOOLEAN
    /\ UNCHANGED <<queueVars, processEvents, worker, raising, state, sensing,
                   session>>

(* The owner's stop(): clear the flag, reset the queue, join, stop the broker. *)

Stop ==
    /\ owner \in {"running", "failed"}
    /\ processEvents' = FALSE
    /\ owner' = "stopping"
    /\ UNCHANGED <<queueVars, worker, raising, state, brokerOn, sensing, session>>

\* Faulty variant: the stop function only notifies.
StopKeepsQueue ==
    /\ owner = "stopping"
    /\ Q!NotifyOne
    /\ owner' = "joining"
    /\ UNCHANGED <<queue, pulled, processEvents, worker, raising, state, brokerOn,
                   sensing, session>>

\* Faulty variant: the stop function flushes the queue and wakes nobody.
StopWakesNobody ==
    /\ owner = "stopping"
    /\ queue' = <<>>
    /\ owner' = "joining"
    /\ UNCHANGED <<waiting, woken, pulled, processEvents, worker, raising, state,
                   brokerOn, sensing, session>>

StopResetsQueue ==
    /\ owner = "stopping"
    /\ Q!Reset
    /\ owner' = "joining"
    /\ UNCHANGED <<processEvents, worker, raising, state, brokerOn, sensing,
                   session>>

\* Faulty variant: stop() does not wait for the worker.
StopWithoutJoin ==
    /\ owner = "joining"
    /\ owner' = "joined"
    /\ UNCHANGED <<queueVars, processEvents, worker, raising, state, brokerOn,
                   sensing, session>>

StopJoins ==
    /\ owner = "joining"
    /\ worker = "done"
    /\ worker' = "none"
    /\ owner' = "joined"
    /\ UNCHANGED <<queueVars, processEvents, raising, state, brokerOn, sensing,
                   session>>

StopBroker ==
    /\ owner = "joined"
    /\ brokerOn' = FALSE
    /\ owner' = "stopped"
    /\ UNCHANGED <<queueVars, processEvents, worker, raising, state, sensing,
                   session>>
-----------------------------------------------------------------------------
(* The worker: while (m_processEvents) processNextEvent(). *)

ChecksFlag ==
    /\ worker = "check"
    /\ worker' = IF processEvents THEN "pull" ELSE "done"
    /\ UNCHANGED <<queueVars, processEvents, owner, raising, state, brokerOn,
                   sensing, session>>

\* Faulty variant: what pull returned is not looked at.
PullsBlindly ==
    /\ worker = "pull"
    /\ \/ Q!Pull(Worker) /\ worker' = "dispatch"
       \/ Q!PullWaits(Worker) /\ UNCHANGED worker
       \/ Q!PullResumes(Worker) /\ worker' = "dispatch"
    /\ UNCHANGED <<processEvents, owner, raising, state, brokerOn, sensing,
                   session>>

\* The pull of processNextEvent; without an event the loop goes round.
Pulls ==
    /\ worker = "pull"
    /\ \/ Q!Pull(Worker) /\ worker' = "dispatch"
       \/ Q!PullWaits(Worker) /\ UNCHANGED worker
       \/ Q!PullResumes(Worker)
          /\ worker' = IF pulled'[Worker] = None THEN "check" ELSE "dispatch"
    /\ UNCHANGED <<processEvents, owner, raising, state, brokerOn, sensing,
                   session>>

WakesSpuriously ==
    /\ Q!WakesSpuriously(Worker)
    /\ UNCHANGED <<threadVars, state, brokerOn, sensing, session>>

\* findTransition: the first entry of the table that fits.
Fits(i) ==
    /\ Transitions[i].state = state
    /\ Transitions[i].event = pulled[Worker].name

Found(i) == Fits(i) /\ \A j \in 1..(i - 1) : ~Fits(j)

\* The new state is set before the action runs.
Dispatches(i) ==
    /\ worker = "dispatch"
    /\ Found(i)
    /\ state' = Transitions[i].next
    /\ raising' = Transitions[i].raises
    /\ worker' = "action"
    /\ UNCHANGED <<queueVars, processEvents, owner, brokerOn, sensing, session>>

\* No transition: ASSERT_NOT_REACHABLE ends the process of a debug build, with
\* all its threads; any other build has lost the event and goes on.  One
\* specification covers both.
DispatchFails ==
    /\ worker = "dispatch"
    /\ \A i \in DOMAIN Transitions : ~Fits(i)
    /\ \/ worker' = "check" /\ UNCHANGED <<owner, brokerOn, sensing>>
       \/ /\ worker' = "aborted"
          /\ owner' = "aborted"
          /\ brokerOn' = FALSE
          /\ sensing' = FALSE
    /\ UNCHANGED <<queueVars, processEvents, raising, state, session>>

\* The action pushes an event of its own and ignores whether it got in.
ActionPushes(n) ==
    /\ worker = "action"
    /\ n \in raising
    /\ raising' = raising \ {n}
    /\ PushEvent(n)
    /\ UNCHANGED <<processEvents, owner, worker, state, brokerOn, sensing,
                   session>>

\* The action returns; it may have started or stopped a sensor thread.
ActionReturns ==
    /\ worker = "action"
    /\ worker' = "check"
    /\ raising' = {}
    /\ sensing' \in IF Sensed = {} THEN {FALSE} ELSE BOOLEAN
    /\ UNCHANGED <<queueVars, processEvents, owner, state, brokerOn, session>>

WorkerStep ==
    \/ ChecksFlag
    \/ Pulls
    \/ \E i \in DOMAIN Transitions : Dispatches(i)
    \/ DispatchFails
    \/ \E n \in Name : ActionPushes(n)
    \/ ActionReturns

StartStep == StartWorker \/ StartBroker
StopStep == StopResetsQueue \/ StopJoins \/ StopBroker

Next ==
    \/ \E n \in Requested : IoPushes(n)
    \/ \E n \in Sensed : SensorPushes(n)
    \/ Start
    \/ StartStep
    \/ Stop
    \/ StopStep
    \/ WorkerStep
    \/ WakesSpuriously

Spec == Init /\ [][Next]_vars

\* The worker thread runs, and so does an owner inside start() or stop().
\* Nobody is obliged to call start() or stop(), to send, or to wake the
\* worker without a notification.
FairSpec ==
    /\ Spec
    /\ WF_vars(WorkerStep)
    /\ WF_vars(StartStep \/ StopStep)
-----------------------------------------------------------------------------
\* When stop() has joined, the worker is gone: it neither waits on the queue
\* nor runs an action (StatedServiceComponent.hpp:95).
StoppedMeansQuiet ==
    owner \in {"joined", "stopped", "starting"} =>
        worker = "none" /\ waiting = {} /\ woken = {} /\ raising = {}

\* A restarted component handles an event of the session before only when it
\* was accepted after that session's reset: requests and sensors are still
\* served while stop() joins and stops the broker, and what they push waits
\* for the next start (StatedServiceComponent.hpp:82, 95-96).
OldEventsAreLate ==
    /\ \A i \in DOMAIN queue : queue[i].session # session => queue[i].late
    /\ worker = "dispatch" /\ pulled[Worker].session # session
         => pulled[Worker].late

\* An accepted event is handled, unless the owner stops the component.
AcceptedIsHandled ==
    \A n \in Name :
        (owner = "running" /\ \E i \in DOMAIN queue : queue[i].name = n)
          ~> \/ worker = "dispatch" /\ pulled[Worker].name = n
             \/ owner # "running"

\* The worker found the flag set and has not reached the wait: the window in
\* which it misses the reset's notification.
BeforeTheWait == worker = "pull" /\ Worker \notin waiting \cup woken

\* stop() returns if the worker is anywhere but in that window when the flag
\* is cleared: blocked, woken, dispatching or in an action.
StopReturnsUnlessMissed ==
    (owner = "stopping" /\ ~BeforeTheWait) ~> owner \in {"stopped", "aborted"}

\* stop() returns: the reset is there to "unblock" the worker
\* (StatedServiceComponent.hpp:81), and the test StartAndStop calls stop()
\* right after start() and goes on (StatedServiceComponentIntegrationTest.cpp:98).
StopReturns == owner = "stopping" ~> owner \in {"stopped", "aborted"}
=============================================================================
