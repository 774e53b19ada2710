--------------------- MODULE FilamentTensionSensorService ---------------------
(* The observation of the filament tension: three threads observe a pin each  *)
(* (GpioPinEventObserver), a timer repeats the last event (Timer), and the    *)
(* worker of FilamentTensionSensor starts and stops them all.  A mutex guards *)
(* what the observers and the timer tell.                                     *)
EXTENDS Naturals, Sequences, SequencesExt

Order == <<"low", "high", "overload">>
Sensor == Range(Order)
Event == {"Low", "Normal", "High", "Overload"}
Free == "free"

VARIABLES
    worker,     \* what the worker does, and with which part
    observing,  \* m_doObserve of each observer
    observer,   \* where the thread of each observer is
    risen,      \* the level of each pin after the last edge that was read
    current,    \* the event each observer handles (currentEvent)
    last,       \* m_lastFilamentTensionEvent
    mutex,      \* who holds m_mutex
    doRun,      \* m_doRun of the timer
    timer,      \* where the thread of the timer is
    repeating,  \* the event the timer is about to repeat
    \* History, read by no guard.
    told,       \* the last event told in this observation
    read,       \* the meaning of the last edge that was read in it
    overtaken   \* an edge was read while another one was handled

history == <<told, read, overtaken>>
vars == <<worker, observing, observer, risen, current, last, mutex, doRun,
          timer, repeating, history>>

At(what, part) == [at |-> what, part |-> part]
Position(s) == CHOOSE i \in DOMAIN Order : Order[i] = s
IsLast(s) == s = Order[Len(Order)]
After(s) == Order[Position(s) + 1]

Idle == At("off", "none")
Running == At("running", "none")
WorkerAt == {Idle, Running} \cup [at : {"start", "stop", "join"}, part : Sensor]
            \cup [at : {"stop", "join"}, part : {"timer"}]

TypeOK ==
    /\ worker \in WorkerAt
    /\ observing \in [Sensor -> BOOLEAN]
    /\ observer \in [Sensor -> {"none", "check", "wait", "compare", "lock",
                                "joining", "done"}]
    /\ risen \in [Sensor -> BOOLEAN]
    /\ current \in [Sensor -> Event]
    /\ last \in Event
    /\ mutex \in Sensor \cup {"timer", Free}
    /\ doRun \in BOOLEAN
    /\ timer \in {"none", "check", "wait", "lock", "repeat", "done"}
    /\ repeating \in {"Low", "High"}
    /\ told \in Event
    /\ read \in Event
    /\ overtaken \in BOOLEAN

\* A pin may have any level when the program starts.
Init ==
    /\ worker = Idle
    /\ observing = [s \in Sensor |-> FALSE]
    /\ observer = [s \in Sensor |-> "none"]
    /\ risen \in [Sensor -> BOOLEAN]
    /\ current = [s \in Sensor |-> "Normal"]
    /\ last = "Normal"
    /\ mutex = Free
    /\ doRun = FALSE
    /\ timer = "none"
    /\ repeating = "Low"
    /\ told = "Normal"
    /\ read = "Normal"
    /\ overtaken = FALSE

-----------------------------------------------------------------------------
(* The worker. *)

SwitchOn ==
    /\ worker = Idle
    /\ worker' = At("start", Order[1])
    /\ last' = "Normal"
    /\ told' = "Normal"
    /\ read' = "Normal"
    /\ overtaken' = FALSE
    /\ UNCHANGED <<observing, observer, risen, current, mutex, doRun, timer, repeating>>

\* The observers run with the policy of their creator: their start succeeds.
StartObserver(s) ==
    /\ worker = At("start", s)
    /\ worker' = IF IsLast(s) THEN Running ELSE At("start", After(s))
    /\ observing' = [observing EXCEPT ![s] = TRUE]
    /\ observer' = [observer EXCEPT ![s] = "check"]
    /\ UNCHANGED <<risen, current, last, mutex, doRun, timer, repeating, history>>

SwitchOff ==
    /\ worker = Running
    /\ worker' = At("stop", Order[1])
    /\ UNCHANGED <<observing, observer, risen, current, last, mutex, doRun, timer,
                   repeating, history>>

StopObserver(s) ==
    /\ worker = At("stop", s)
    /\ worker' = At("join", s)
    /\ observing' = [observing EXCEPT ![s] = FALSE]
    /\ UNCHANGED <<observer, risen, current, last, mutex, doRun, timer, repeating, history>>

\* Faulty variant: the observers are not joined.
JoinNoObserver(s) ==
    /\ worker = At("join", s)
    /\ worker' = At("stop", IF IsLast(s) THEN "timer" ELSE After(s))
    /\ observer' = [observer EXCEPT ![s] = IF @ = "done" THEN "none" ELSE @]
    /\ UNCHANGED <<observing, risen, current, last, mutex, doRun, timer, repeating, history>>

JoinObserver(s) ==
    /\ worker = At("join", s)
    /\ observer[s] = "done"
    /\ worker' = At("stop", IF IsLast(s) THEN "timer" ELSE After(s))
    /\ observer' = [observer EXCEPT ![s] = "none"]
    /\ UNCHANGED <<observing, risen, current, last, mutex, doRun, timer, repeating, history>>

\* Faulty variant: the timer is notified, its flag is not cleared.
StopTimerByNotification ==
    /\ worker = At("stop", "timer")
    /\ worker' = IF timer = "none" THEN Idle ELSE At("join", "timer")
    /\ UNCHANGED <<observing, observer, risen, current, last, mutex, doRun, timer,
                   repeating, history>>

StopTimer ==
    /\ worker = At("stop", "timer")
    /\ \/ timer = "none" /\ worker' = Idle /\ UNCHANGED doRun
       \/ timer # "none" /\ worker' = At("join", "timer") /\ doRun' = FALSE
    /\ UNCHANGED <<observing, observer, risen, current, last, mutex, timer, repeating,
                   history>>

JoinTimer ==
    /\ worker = At("join", "timer")
    /\ timer = "done"
    /\ worker' = Idle
    /\ timer' = "none"
    /\ UNCHANGED <<observing, observer, risen, current, last, mutex, doRun, repeating,
                   history>>

-----------------------------------------------------------------------------
(* The observers. *)

Moves(s, from, to) ==
    /\ observer[s] = from
    /\ observer' = [observer EXCEPT ![s] = to]

ObserverChecks(s) ==
    /\ Moves(s, "check", IF observing[s] THEN "wait" ELSE "done")
    /\ UNCHANGED <<worker, observing, risen, current, last, mutex, doRun, timer,
                   repeating, history>>

ObserverTimesOut(s) ==
    /\ Moves(s, "wait", "check")
    /\ UNCHANGED <<worker, observing, risen, current, last, mutex, doRun, timer,
                   repeating, history>>

\* What an edge means, given the pin and its level afterwards.
Meaning(s, up) ==
    CASE up /\ s = "low" -> "Low"
      [] up /\ s = "high" -> "High"
      [] up /\ s = "overload" -> "Overload"
      [] ~up /\ s = "overload" -> "High"
      [] OTHER -> "Normal"

\* The kernel keeps the edges of a pin in order.  One that is read when the
\* observer has to stop is dropped.
ReadsEdge(s) ==
    /\ risen' = [risen EXCEPT ![s] = ~@]
    /\ \/ /\ observing[s]
          /\ Moves(s, "wait", "compare")
          /\ current' = [current EXCEPT ![s] = Meaning(s, ~risen[s])]
          /\ read' = Meaning(s, ~risen[s])
          /\ overtaken' = (overtaken \/ \E o \in Sensor \ {s} :
                                observer[o] \in {"compare", "lock"})
       \/ /\ ~observing[s]
          /\ Moves(s, "wait", "check")
          /\ UNCHANGED <<current, read, overtaken>>
    /\ UNCHANGED <<worker, observing, last, mutex, doRun, timer, repeating, told>>

\* Faulty variant: the event is given up when the mutex is taken.
ComparesIfFree(s) ==
    /\ Moves(s, "compare",
             IF mutex = Free /\ current[s] # last THEN "lock" ELSE "check")
    /\ UNCHANGED <<worker, observing, risen, current, last, mutex, doRun, timer,
                   repeating, history>>

\* The comparison is made without the mutex.
Compares(s) ==
    /\ Moves(s, "compare", IF current[s] # last THEN "lock" ELSE "check")
    /\ UNCHANGED <<worker, observing, risen, current, last, mutex, doRun, timer,
                   repeating, history>>

\* The section under the mutex.  It is one step unless it joins the timer: who
\* reads `last` without the mutex tells nothing.
TellsAndStopsTimer(s) ==
    /\ current[s] = "Normal"
    /\ \/ timer = "none" /\ Moves(s, "lock", "check") /\ UNCHANGED <<mutex, doRun>>
       \/ /\ timer # "none"
          /\ Moves(s, "lock", "joining")
          /\ mutex' = s
          /\ doRun' = FALSE
    /\ UNCHANGED timer

\* Faulty variant: the timer is started for a low tension only.
TellsAndStartsTimerWhenLow(s) ==
    /\ current[s] # "Normal"
    /\ Moves(s, "lock", "check")
    /\ \/ timer = "none" /\ current[s] = "Low" /\ timer' = "check" /\ doRun' = TRUE
       \/ (timer # "none" \/ current[s] # "Low") /\ UNCHANGED <<timer, doRun>>
    /\ UNCHANGED mutex

TellsAndStartsTimer(s) ==
    /\ current[s] # "Normal"
    /\ Moves(s, "lock", "check")
    /\ \/ timer = "none" /\ timer' = "check" /\ doRun' = TRUE
       \/ timer # "none" /\ UNCHANGED <<timer, doRun>>
    /\ UNCHANGED mutex

Handles(s) ==
    /\ mutex = Free
    /\ last' = current[s]
    /\ told' = current[s]
    /\ TellsAndStopsTimer(s) \/ TellsAndStartsTimer(s)
    /\ UNCHANGED <<worker, observing, risen, current, repeating, read, overtaken>>

JoinsTimer(s) ==
    /\ Moves(s, "joining", "check")
    /\ timer = "done"
    /\ timer' = "none"
    /\ mutex' = Free
    /\ UNCHANGED <<worker, observing, risen, current, last, doRun, repeating, history>>

-----------------------------------------------------------------------------
(* The timer. *)

TimerMoves(from, to) ==
    /\ timer = from
    /\ timer' = to
    /\ UNCHANGED <<worker, observing, observer, risen, current, last, doRun, read,
                   overtaken>>

TimerChecks ==
    /\ TimerMoves("check", IF doRun THEN "wait" ELSE "done")
    /\ UNCHANGED <<mutex, repeating, told>>

\* The period has passed, or stop() notified, or the wakeup is spurious.
TimerWakes ==
    /\ TimerMoves("wait", IF doRun THEN "lock" ELSE "check")
    /\ UNCHANGED <<mutex, repeating, told>>

\* Faulty variant: the timer repeats without the mutex.
TimerLocksNot ==
    /\ \/ /\ last \in {"Low", "High"}
          /\ TimerMoves("lock", "repeat")
          /\ repeating' = last
       \/ /\ last \notin {"Low", "High"}
          /\ TimerMoves("lock", "check")
          /\ UNCHANGED repeating
    /\ UNCHANGED <<mutex, told>>

\* Faulty variant: whatever the last event is, the timer repeats it.
TimerLocksForAny ==
    /\ mutex = Free
    /\ TimerMoves("lock", "repeat")
    /\ mutex' = "timer"
    /\ repeating' = last
    /\ UNCHANGED told

TimerLocks ==
    /\ mutex = Free
    /\ \/ /\ last \in {"Low", "High"}
          /\ TimerMoves("lock", "repeat")
          /\ mutex' = "timer"
          /\ repeating' = last
       \/ /\ last \notin {"Low", "High"}
          /\ TimerMoves("lock", "check")
          /\ UNCHANGED <<mutex, repeating>>
    /\ UNCHANGED told

TimerRepeats ==
    /\ TimerMoves("repeat", "check")
    /\ told' = repeating
    /\ mutex' = Free
    /\ UNCHANGED repeating

-----------------------------------------------------------------------------
Worker ==
    \/ \E s \in Sensor : StartObserver(s) \/ StopObserver(s) \/ JoinObserver(s)
    \/ StopTimer
    \/ JoinTimer

Observer(s) ==
    \/ ObserverChecks(s)
    \/ Compares(s)
    \/ Handles(s)
    \/ JoinsTimer(s)

TimerThread == TimerChecks \/ TimerWakes \/ TimerLocks \/ TimerRepeats

Next ==
    \/ SwitchOn
    \/ SwitchOff
    \/ Worker
    \/ \E s \in Sensor : Observer(s) \/ ObserverTimesOut(s) \/ ReadsEdge(s)
    \/ TimerThread

Spec == Init /\ [][Next]_vars

\* Each thread runs, and a wait for an edge ends by its timeout at the latest.
\* The timer sleeps a period between two repetitions, long enough for an observer
\* to get the mutex: it gets it if it is free again and again.  Nobody need switch
\* on or off and no edge need come.
FairSpec ==
    /\ Spec
    /\ WF_vars(Worker)
    /\ \A s \in Sensor :
        /\ WF_vars(ObserverChecks(s) \/ Compares(s) \/ JoinsTimer(s))
        /\ WF_vars(ObserverTimesOut(s) \/ ReadsEdge(s))
        /\ SF_vars(Handles(s))
    /\ WF_vars(TimerThread)

-----------------------------------------------------------------------------
(* Properties. *)

\* When the worker is done with switching off, neither an observer nor the timer
\* is left and nobody holds the mutex (stopSensorObservation): the next start
\* finds every thread joined, as its assertions demand.
QuietWhenOff ==
    worker = Idle =>
        /\ \A s \in Sensor : observer[s] = "none"
        /\ timer = "none"
        /\ mutex = Free

\* What was told last is the last event: a repetition by the timer never comes
\* after the news that ended it (the mutex of handleFilamentTensionEvent and
\* repeatFilamentTensionEvent).
LastToldIsLast == mutex # "timer" => told = last

\* The timer exists exactly while the tension is not normal, whatever observers
\* and timer do at the same time, unless somebody is about to stop it: no tension
\* goes unrepeated and no timer is left behind by an event of another observer.
RepeatsWhileTense ==
    (\A s \in Sensor : observer[s] # "joining")
        /\ worker \notin {At("join", "timer"), Idle}
        => (timer # "none" <=> last # "Normal")

\* The observers compare without the mutex, but an edge gets lost only if another
\* one is read before it is handled: otherwise the last event is what the last
\* edge means once all observers wait again.
InStepWithPins ==
    /\ worker = Running
    /\ \A s \in Sensor : observer[s] \notin {"compare", "lock"}
    /\ ~overtaken
    => last = read

\* The timer waits for a mutex whose holder waits for the timer to end.
Deadlocked == timer = "lock" /\ \E s \in Sensor : observer[s] = "joining"

\* Switching off ends, except in the deadlock of an observer that stops the timer
\* with the timer's handler (handleFilamentTensionEvent).
StopsUnlessDeadlocked ==
    worker.at \in {"stop", "join"} ~> (worker = Idle \/ Deadlocked)

\* "Stops the filament tension sensor observation."
\* (FilamentTensionSensorService.hpp): whoever stops it gets it stopped.
ObservationStops == worker.at \in {"stop", "join"} ~> worker = Idle
=============================================================================
