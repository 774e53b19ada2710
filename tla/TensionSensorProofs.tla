------------------------- MODULE TensionSensorProofs -------------------------
(***************************************************************************)
(* The observation of the filament tension: the worker, the three          *)
(* observers and the timer, whatever the pins do and in any order.         *)
(***************************************************************************)
EXTENDS FilamentTensionSensorService, TLAPS

-----------------------------------------------------------------------------
(* The inductive invariant. *)

\* The worker has told the observer of s to observe and not yet to stop.
Observed(s) ==
    \/ worker.at = "running"
    \/ worker.at = "start" /\ Position(s) < Position(worker.part)
    \/ /\ worker.at = "stop" /\ worker.part # "timer"
       /\ Position(worker.part) <= Position(s)
    \/ /\ worker.at = "join" /\ worker.part # "timer"
       /\ Position(worker.part) < Position(s)

\* Where the worker is tells which observers there are; one that is done has been
\* told to stop.
PlacesInv ==
    \A s \in Sensor :
       /\ observing[s] <=> Observed(s)
       /\ observer[s] = "none" <=> ~Observed(s) /\ worker # At("join", s)
       /\ observer[s] = "done" => ~observing[s]

\* The mutex is held over a step by an observer that joins the timer and by the timer
\* while it repeats.
MutexInv ==
    /\ \A s \in Sensor : mutex = s <=> observer[s] = "joining"
    /\ mutex = "timer" <=> timer = "repeat"

\* Who joins the timer has told that the tension is normal, and the timer is there.
JoiningInv == \A s \in Sensor : observer[s] = "joining" => last = "Normal" /\ timer # "none"

\* The timer exists exactly while the tension is not normal and is gone in the end.
TimerInv ==
    /\ RepeatsWhileTense
    /\ worker = Idle => timer = "none"

\* What the timer is about to repeat is the last event.
ToldInv == told = last /\ (timer = "repeat" => repeating = last)

Handling(s) == observer[s] \in {"compare", "lock"}

\* One observer at a time handles an edge, if none overtakes another, and it is the last.
StepInv ==
    ~overtaken =>
       /\ \A s \in Sensor : Handling(s) => /\ current[s] = read
                                           /\ \A o \in Sensor : Handling(o) => o = s
       /\ (\A s \in Sensor : ~Handling(s)) => last = read

TensionIInv ==
    /\ TypeOK
    /\ PlacesInv /\ MutexInv /\ JoiningInv /\ TimerInv /\ ToldInv /\ StepInv
-----------------------------------------------------------------------------
(* The sensors in their order, and where the worker can be. *)

LEMMA SensorIs == Sensor = {"low", "high", "overload"}
  <1>1. DOMAIN Order = 1 .. 3 /\ Order[1] = "low" /\ Order[2] = "high" /\ Order[3] = "overload"
    BY DEF Order
  <1>2. \A i \in 1 .. 3 : i = 1 \/ i = 2 \/ i = 3
    OBVIOUS
  <1>3. 1 \in 1 .. 3 /\ 2 \in 1 .. 3 /\ 3 \in 1 .. 3
    OBVIOUS
  <1>4. QED
    BY <1>1, <1>2, <1>3 DEF Sensor, Range

LEMMA PositionIs ==
    Position("low") = 1 /\ Position("high") = 2 /\ Position("overload") = 3
  <1>1. DOMAIN Order = 1 .. 3 /\ Order[1] = "low" /\ Order[2] = "high" /\ Order[3] = "overload"
    BY DEF Order
  <1>2. \A i \in 1 .. 3 : i = 1 \/ i = 2 \/ i = 3
    OBVIOUS
  <1>3. 1 \in 1 .. 3 /\ 2 \in 1 .. 3 /\ 3 \in 1 .. 3
    OBVIOUS
  <1>4. \A s \in {"low", "high", "overload"} :
           Position(s) \in 1 .. 3 /\ Order[Position(s)] = s
    BY <1>1, <1>3 DEF Position
  <1>5. QED
    BY <1>1, <1>2, <1>4

LEMMA OrderIs ==
    /\ Order[1] = "low"
    /\ \A s \in Sensor : IsLast(s) <=> s = "overload"
    /\ After("low") = "high" /\ After("high") = "overload"
  <1>1. Len(Order) = 3 /\ Order[1] = "low" /\ Order[2] = "high" /\ Order[3] = "overload"
    BY DEF Order
  <1>2. \A s \in Sensor : IsLast(s) <=> s = "overload"
    BY <1>1 DEF IsLast
  <1>3. After("low") = Order[2] /\ After("high") = Order[3]
    BY PositionIs DEF After
  <1>4. QED
    BY <1>1, <1>2, <1>3

LEMMA AtIs ==
    ASSUME NEW what, NEW part
    PROVE  At(what, part).at = what /\ At(what, part).part = part
  BY DEF At

\* Where the worker is, by the names of its places.
LEMMA WorkerIs ==
    ASSUME worker \in WorkerAt
    PROVE  /\ worker = At(worker.at, worker.part)
           /\ \/ worker.at = "off" /\ worker.part = "none"
              \/ worker.at = "running" /\ worker.part = "none"
              \/ worker.at \in {"start", "stop", "join"} /\ worker.part \in Sensor
              \/ worker.at \in {"stop", "join"} /\ worker.part = "timer"
  <1>1. CASE worker = Idle
    BY <1>1, AtIs DEF Idle
  <1>2. CASE worker = Running
    BY <1>2, AtIs DEF Running
  <1>3. CASE worker \in [at : {"start", "stop", "join"}, part : Sensor]
    BY <1>3 DEF At
  <1>4. CASE worker \in [at : {"stop", "join"}, part : {"timer"}]
    BY <1>4 DEF At
  <1>5. QED
    BY <1>1, <1>2, <1>3, <1>4 DEF WorkerAt

LEMMA PlacesAre ==
    /\ \A s \in Sensor : At("start", s) \in WorkerAt /\ At("stop", s) \in WorkerAt
                         /\ At("join", s) \in WorkerAt
    /\ At("stop", "timer") \in WorkerAt /\ At("join", "timer") \in WorkerAt
    /\ Idle \in WorkerAt /\ Running \in WorkerAt
  BY DEF WorkerAt, At
-----------------------------------------------------------------------------
(* What a step leaves alone. *)

ObserverAt == {"none", "check", "wait", "compare", "lock", "joining", "done"}
Busy == {"compare", "lock", "joining"}
Halts == {At("join", "timer"), Idle}

\* A step that no busy observer makes and that changes neither the timer nor what it
\* shares keeps the invariant, apart from where the threads are.
LEMMA KeepsShared ==
    ASSUME TensionIInv,
           current' = current, last' = last, mutex' = mutex, timer' = timer,
           repeating' = repeating, told' = told, read' = read, overtaken' = overtaken,
           \A t \in Sensor : \/ observer'[t] = observer[t]
                             \/ observer[t] \notin Busy /\ observer'[t] \notin Busy,
           worker' \notin Halts => worker \notin Halts,
           worker' = Idle => timer = "none"
    PROVE  MutexInv' /\ JoiningInv' /\ TimerInv' /\ ToldInv' /\ StepInv'
  <1>1. \A t \in Sensor : /\ observer'[t] = "joining" <=> observer[t] = "joining"
                          /\ Handling(t)' <=> Handling(t)
    BY DEF Busy, Handling
  <1>2. MutexInv' /\ JoiningInv'
    BY <1>1 DEF TensionIInv, MutexInv, JoiningInv
  <1>3. TimerInv'
    <2>1. RepeatsWhileTense'
      BY <1>1 DEF TensionIInv, TimerInv, RepeatsWhileTense, Halts
    <2>2. QED
      BY <2>1 DEF TimerInv
  <1>4. ToldInv'
    BY DEF TensionIInv, ToldInv
  <1>5. StepInv'
    BY <1>1 DEF TensionIInv, StepInv
  <1>6. QED
    BY <1>2, <1>3, <1>4, <1>5

\* An observer moves on, and not to its end unless it has been told to stop.
LEMMA KeepsPlaces ==
    ASSUME TensionIInv, worker' = worker, observing' = observing,
           NEW s \in Sensor, NEW to \in ObserverAt \ {"none"},
           observer' = [observer EXCEPT ![s] = to],
           observer[s] # "none", to = "done" => ~observing[s]
    PROVE  PlacesInv' /\ observer' \in [Sensor -> ObserverAt]
  <1>1. observer \in [Sensor -> ObserverAt]
    BY DEF TensionIInv, TypeOK, ObserverAt
  <1>2. observer' \in [Sensor -> ObserverAt]
    BY <1>1
  <1>3. \A t \in Sensor : Observed(t)' <=> Observed(t)
    BY DEF Observed
  <1>4. \A t \in Sensor : observer'[t] = IF t = s THEN to ELSE observer[t]
    BY <1>1
  <1>5. PlacesInv'
    BY <1>3, <1>4 DEF TensionIInv, PlacesInv
  <1>6. QED
    BY <1>2, <1>5

-----------------------------------------------------------------------------
(* The worker. *)

LEMMA SwitchesOn ==
    ASSUME TensionIInv, SwitchOn
    PROVE  TensionIInv'
  <1>1. /\ worker = Idle /\ worker' = At("start", "low")
        /\ last' = "Normal" /\ told' = "Normal" /\ read' = "Normal" /\ overtaken' = FALSE
        /\ observing' = observing /\ observer' = observer /\ risen' = risen
        /\ current' = current /\ mutex' = mutex /\ doRun' = doRun /\ timer' = timer
        /\ repeating' = repeating
    BY OrderIs DEF SwitchOn
  <1>2. \A s \in Sensor : ~Observed(s) /\ ~Observed(s)'
    BY <1>1, SensorIs, PositionIs, AtIs DEF Observed, Idle
  <1>3. \A s \in Sensor : worker # At("join", s) /\ worker' # At("join", s)
    BY <1>1, AtIs DEF Idle
  <1>4. \A s \in Sensor : observer[s] = "none"
    BY <1>2, <1>3 DEF TensionIInv, PlacesInv
  <1>5. timer = "none"
    BY <1>1 DEF TensionIInv, TimerInv
  <1>6. TypeOK'
    BY <1>1, SensorIs, PlacesAre DEF TensionIInv, TypeOK, Event
  <1>7. PlacesInv'
    BY <1>1, <1>2, <1>3 DEF TensionIInv, PlacesInv
  <1>8. MutexInv'
    BY <1>1 DEF TensionIInv, MutexInv
  <1>9. JoiningInv'
    BY <1>1, <1>4 DEF JoiningInv
  <1>10. TimerInv'
    BY <1>1, <1>5 DEF TimerInv, RepeatsWhileTense
  <1>11. ToldInv'
    BY <1>1, <1>5 DEF ToldInv
  <1>12. StepInv'
    BY <1>1, <1>4 DEF StepInv, Handling
  <1>13. QED
    BY <1>6, <1>7, <1>8, <1>9, <1>10, <1>11, <1>12 DEF TensionIInv

LEMMA SwitchesOff ==
    ASSUME TensionIInv, SwitchOff
    PROVE  TensionIInv'
  <1>1. /\ worker = Running /\ worker' = At("stop", "low")
        /\ observing' = observing /\ observer' = observer /\ risen' = risen
        /\ current' = current /\ last' = last /\ mutex' = mutex /\ doRun' = doRun
        /\ timer' = timer /\ repeating' = repeating /\ told' = told /\ read' = read
        /\ overtaken' = overtaken
    BY OrderIs DEF SwitchOff, history
  <1>2. \A s \in Sensor : Observed(s) /\ Observed(s)'
    BY <1>1, SensorIs, PositionIs, AtIs DEF Observed, Running
  <1>3. TypeOK'
    BY <1>1, SensorIs, PlacesAre DEF TensionIInv, TypeOK
  <1>4. PlacesInv'
    BY <1>1, <1>2 DEF TensionIInv, PlacesInv
  <1>5. worker \notin Halts /\ worker' # Idle
    BY <1>1, AtIs DEF Halts, Running, Idle
  <1>6. MutexInv' /\ JoiningInv' /\ TimerInv' /\ ToldInv' /\ StepInv'
    BY <1>1, <1>5, KeepsShared
  <1>7. QED
    BY <1>3, <1>4, <1>6 DEF TensionIInv

LEMMA ObserverStarts ==
    ASSUME TensionIInv, NEW s \in Sensor, StartObserver(s)
    PROVE  TensionIInv'
  <1>1. /\ worker = At("start", s)
        /\ worker' = IF IsLast(s) THEN Running ELSE At("start", After(s))
        /\ observing' = [observing EXCEPT ![s] = TRUE]
        /\ observer' = [observer EXCEPT ![s] = "check"]
        /\ risen' = risen
        /\ current' = current /\ last' = last /\ mutex' = mutex /\ doRun' = doRun
        /\ timer' = timer /\ repeating' = repeating /\ told' = told /\ read' = read
        /\ overtaken' = overtaken
    BY DEF StartObserver, history
  <1>2. /\ s = "low" => worker' = At("start", "high")
        /\ s = "high" => worker' = At("start", "overload")
        /\ s = "overload" => worker' = Running
    BY <1>1, OrderIs, SensorIs
  <1>3. /\ worker.at = "start" /\ worker.part = s
        /\ s # "overload" => worker'.at = "start"
        /\ s = "low" => worker'.part = "high"
        /\ s = "high" => worker'.part = "overload"
        /\ s = "overload" => worker'.at = "running"
    BY <1>1, <1>2, SensorIs, AtIs DEF Running
  <1>4. \A t \in Sensor : /\ Observed(t)' <=> Observed(t) \/ t = s
                          /\ worker # At("join", t) /\ worker' # At("join", t)
    <2>1. \A t \in Sensor : Observed(t)' <=> Observed(t) \/ t = s
      BY <1>3, SensorIs, PositionIs DEF Observed
    <2>2. worker.at # "join" /\ worker'.at # "join"
      BY <1>3, SensorIs
    <2>3. QED
      BY <2>1, <2>2, AtIs
  <1>5. observer \in [Sensor -> ObserverAt] /\ observing \in [Sensor -> BOOLEAN]
    BY DEF TensionIInv, TypeOK, ObserverAt
  <1>6. ~Observed(s) /\ observer[s] = "none"
    <2>1. ~Observed(s)
      BY <1>3, SensorIs, PositionIs DEF Observed
    <2>2. QED
      BY <1>4, <2>1 DEF TensionIInv, PlacesInv
  <1>7. TypeOK'
    <2>1. worker' \in WorkerAt
      BY <1>2, SensorIs, PlacesAre
    <2>2. observer' \in [Sensor -> ObserverAt] /\ observing' \in [Sensor -> BOOLEAN]
      BY <1>1, <1>5 DEF ObserverAt
    <2>3. QED
      BY <1>1, <2>1, <2>2 DEF TensionIInv, TypeOK, ObserverAt
  <1>8. \A t \in Sensor : /\ observer'[t] = IF t = s THEN "check" ELSE observer[t]
                          /\ observing'[t] = IF t = s THEN TRUE ELSE observing[t]
    BY <1>1, <1>5
  <1>9. PlacesInv'
    BY <1>4, <1>8 DEF TensionIInv, PlacesInv
  <1>10. worker \notin Halts /\ worker' # Idle
    <2>1. worker.at # "join" /\ worker.at # "off" /\ worker'.at # "off"
      BY <1>3, SensorIs
    <2>2. QED
      BY <2>1, AtIs DEF Halts, Idle
  <1>11. MutexInv' /\ JoiningInv' /\ TimerInv' /\ ToldInv' /\ StepInv'
    <2>1. \A t \in Sensor : \/ observer'[t] = observer[t]
                            \/ observer[t] \notin Busy /\ observer'[t] \notin Busy
      BY <1>6, <1>8 DEF Busy
    <2>2. QED
      BY <1>1, <1>10, <2>1, KeepsShared
  <1>12. QED
    BY <1>7, <1>9, <1>11 DEF TensionIInv

LEMMA ObserverStops ==
    ASSUME TensionIInv, NEW s \in Sensor, StopObserver(s)
    PROVE  TensionIInv'
  <1>1. /\ worker = At("stop", s) /\ worker' = At("join", s)
        /\ observing' = [observing EXCEPT ![s] = FALSE] /\ observer' = observer
        /\ risen' = risen /\ current' = current /\ last' = last /\ mutex' = mutex
        /\ doRun' = doRun /\ timer' = timer /\ repeating' = repeating /\ told' = told
        /\ read' = read /\ overtaken' = overtaken
    BY DEF StopObserver, history
  <1>2. /\ worker.at = "stop" /\ worker.part = s
        /\ worker'.at = "join" /\ worker'.part = s
    BY <1>1, AtIs
  <1>3. \A t \in Sensor : /\ Observed(t)' <=> Observed(t) /\ t # s
                          /\ worker # At("join", t)
                          /\ worker' = At("join", t) <=> t = s
    <2>1. \A t \in Sensor : Observed(t)' <=> Observed(t) /\ t # s
      BY <1>2, SensorIs, PositionIs DEF Observed
    <2>2. QED
      BY <1>1, <1>2, <2>1, AtIs
  <1>4. observing \in [Sensor -> BOOLEAN]
    BY DEF TensionIInv, TypeOK
  <1>5. Observed(s)
    BY <1>2, SensorIs, PositionIs DEF Observed
  <1>6. TypeOK'
    <2>1. worker' \in WorkerAt /\ observing' \in [Sensor -> BOOLEAN]
      BY <1>1, <1>4, PlacesAre
    <2>2. QED
      BY <1>1, <2>1 DEF TensionIInv, TypeOK
  <1>7. \A t \in Sensor : observing'[t] = IF t = s THEN FALSE ELSE observing[t]
    BY <1>1, <1>4
  <1>8. PlacesInv'
    BY <1>1, <1>3, <1>5, <1>7 DEF TensionIInv, PlacesInv
  <1>9. worker \notin Halts /\ worker' # Idle
    BY <1>2, AtIs DEF Halts, Idle
  <1>10. MutexInv' /\ JoiningInv' /\ TimerInv' /\ ToldInv' /\ StepInv'
    BY <1>1, <1>9, KeepsShared
  <1>11. QED
    BY <1>6, <1>8, <1>10 DEF TensionIInv

LEMMA ObserverIsJoined ==
    ASSUME TensionIInv, NEW s \in Sensor, JoinObserver(s)
    PROVE  TensionIInv'
  <1>1. /\ worker = At("join", s) /\ observer[s] = "done"
        /\ worker' = At("stop", IF IsLast(s) THEN "timer" ELSE After(s))
        /\ observer' = [observer EXCEPT ![s] = "none"] /\ observing' = observing
        /\ risen' = risen /\ current' = current /\ last' = last /\ mutex' = mutex
        /\ doRun' = doRun /\ timer' = timer /\ repeating' = repeating /\ told' = told
        /\ read' = read /\ overtaken' = overtaken
    BY DEF JoinObserver, history
  <1>2. /\ s = "low" => worker' = At("stop", "high")
        /\ s = "high" => worker' = At("stop", "overload")
        /\ s = "overload" => worker' = At("stop", "timer")
    BY <1>1, OrderIs, SensorIs
  <1>3. /\ worker.at = "join" /\ worker.part = s /\ worker'.at = "stop"
        /\ s = "low" => worker'.part = "high"
        /\ s = "high" => worker'.part = "overload"
        /\ s = "overload" => worker'.part = "timer"
    BY <1>1, <1>2, SensorIs, AtIs
  <1>4. \A t \in Sensor : /\ Observed(t)' <=> Observed(t)
                          /\ worker = At("join", t) <=> t = s
                          /\ worker' # At("join", t)
    <2>1. \A t \in Sensor : Observed(t)' <=> Observed(t)
      BY <1>3, SensorIs, PositionIs DEF Observed
    <2>2. QED
      BY <1>1, <1>3, <2>1, AtIs
  <1>5. observer \in [Sensor -> ObserverAt]
    BY DEF TensionIInv, TypeOK, ObserverAt
  <1>6. ~Observed(s)
    BY <1>3, SensorIs, PositionIs DEF Observed
  <1>7. TypeOK'
    <2>1. worker' \in WorkerAt
      BY <1>2, SensorIs, PlacesAre
    <2>2. observer' \in [Sensor -> ObserverAt]
      BY <1>1, <1>5 DEF ObserverAt
    <2>3. QED
      BY <1>1, <2>1, <2>2 DEF TensionIInv, TypeOK, ObserverAt
  <1>8. \A t \in Sensor : observer'[t] = IF t = s THEN "none" ELSE observer[t]
    BY <1>1, <1>5
  <1>9. PlacesInv'
    BY <1>1, <1>4, <1>6, <1>8 DEF TensionIInv, PlacesInv
  <1>10. worker \notin Halts /\ worker' # Idle
    <2>1. worker.part # "timer" /\ worker.at # "off" /\ worker'.at # "off"
      BY <1>3, SensorIs
    <2>2. QED
      BY <2>1, AtIs DEF Halts, Idle
  <1>11. MutexInv' /\ JoiningInv' /\ TimerInv' /\ ToldInv' /\ StepInv'
    <2>1. \A t \in Sensor : \/ observer'[t] = observer[t]
                            \/ observer[t] \notin Busy /\ observer'[t] \notin Busy
      BY <1>1, <1>8 DEF Busy
    <2>2. QED
      BY <1>1, <1>10, <2>1, KeepsShared
  <1>12. QED
    BY <1>7, <1>9, <1>11 DEF TensionIInv

LEMMA TimerIsStopped ==
    ASSUME TensionIInv, StopTimer
    PROVE  TensionIInv'
  <1>1. /\ worker = At("stop", "timer")
        /\ \/ timer = "none" /\ worker' = Idle /\ doRun' = doRun
           \/ timer # "none" /\ worker' = At("join", "timer") /\ doRun' = FALSE
        /\ observing' = observing /\ observer' = observer /\ risen' = risen
        /\ current' = current /\ last' = last /\ mutex' = mutex /\ timer' = timer
        /\ repeating' = repeating /\ told' = told /\ read' = read
        /\ overtaken' = overtaken
    BY DEF StopTimer, history
  <1>2. /\ worker.at = "stop" /\ worker.part = "timer"
        /\ worker'.at = "off" \/ (worker'.at = "join" /\ worker'.part = "timer")
    BY <1>1, AtIs DEF Idle
  <1>3. \A t \in Sensor : ~Observed(t) /\ ~Observed(t)'
    BY <1>2 DEF Observed
  <1>4. \A t \in Sensor : worker # At("join", t) /\ worker' # At("join", t)
    <2>1. worker.at # "join"
      BY <1>2
    <2>2. worker'.at # "join" \/ worker'.part \notin Sensor
      BY <1>2, SensorIs
    <2>3. QED
      BY <2>1, <2>2, AtIs
  <1>5. TypeOK'
    <2>1. worker' \in WorkerAt /\ doRun' \in BOOLEAN
      BY <1>1, PlacesAre DEF TensionIInv, TypeOK
    <2>2. QED
      BY <1>1, <2>1 DEF TensionIInv, TypeOK
  <1>6. PlacesInv'
    BY <1>1, <1>3, <1>4 DEF TensionIInv, PlacesInv
  <1>7. worker \notin Halts
    BY <1>2, AtIs DEF Halts, Idle
  <1>8. worker' = Idle => timer = "none"
    <2>1. At("join", "timer") # Idle
      BY AtIs DEF Idle
    <2>2. QED
      BY <1>1, <2>1
  <1>9. MutexInv' /\ JoiningInv' /\ TimerInv' /\ ToldInv' /\ StepInv'
    BY <1>1, <1>7, <1>8, KeepsShared
  <1>10. QED
    BY <1>5, <1>6, <1>9 DEF TensionIInv

LEMMA TimerIsJoined ==
    ASSUME TensionIInv, JoinTimer
    PROVE  TensionIInv'
  <1>1. /\ worker = At("join", "timer") /\ timer = "done"
        /\ worker' = Idle /\ timer' = "none"
        /\ observing' = observing /\ observer' = observer /\ risen' = risen
        /\ current' = current /\ last' = last /\ mutex' = mutex /\ doRun' = doRun
        /\ repeating' = repeating /\ told' = told /\ read' = read
        /\ overtaken' = overtaken
    BY DEF JoinTimer, history
  <1>2. worker.at = "join" /\ worker.part = "timer" /\ worker'.at = "off"
    BY <1>1, AtIs DEF Idle
  <1>3. \A t \in Sensor : ~Observed(t) /\ ~Observed(t)'
    BY <1>2 DEF Observed
  <1>4. \A t \in Sensor : worker # At("join", t) /\ worker' # At("join", t)
    <2>1. worker.part \notin Sensor /\ worker'.at # "join"
      BY <1>2, SensorIs
    <2>2. QED
      BY <2>1, AtIs
  <1>5. \A t \in Sensor : observer[t] = "none"
    BY <1>3, <1>4 DEF TensionIInv, PlacesInv
  <1>6. TypeOK'
    <2>1. worker' \in WorkerAt
      BY <1>1, PlacesAre
    <2>2. QED
      BY <1>1, <2>1 DEF TensionIInv, TypeOK
  <1>7. PlacesInv'
    BY <1>1, <1>3, <1>4 DEF TensionIInv, PlacesInv
  <1>8. MutexInv'
    BY <1>1 DEF TensionIInv, MutexInv
  <1>9. JoiningInv'
    BY <1>1, <1>5 DEF JoiningInv
  <1>10. TimerInv'
    BY <1>1 DEF TimerInv, RepeatsWhileTense
  <1>11. ToldInv'
    BY <1>1 DEF TensionIInv, ToldInv
  <1>12. StepInv'
    BY <1>1 DEF TensionIInv, StepInv, Handling
  <1>13. QED
    BY <1>6, <1>7, <1>8, <1>9, <1>10, <1>11, <1>12 DEF TensionIInv

-----------------------------------------------------------------------------
(* The observers. *)

\* A step between two places in which an observer is not busy.
LEMMA ObserverMoves ==
    ASSUME TensionIInv, NEW s \in Sensor,
           NEW from \in ObserverAt \ (Busy \cup {"none"}), NEW to \in ObserverAt \ (Busy \cup {"none"}),
           Moves(s, from, to), to = "done" => ~observing[s],
           risen' \in [Sensor -> BOOLEAN],
           worker' = worker, observing' = observing, current' = current, last' = last,
           mutex' = mutex, doRun' = doRun, timer' = timer, repeating' = repeating,
           told' = told, read' = read, overtaken' = overtaken
    PROVE  TensionIInv'
  <1>1. observer[s] = from /\ observer' = [observer EXCEPT ![s] = to]
    BY DEF Moves
  <1>2. to \in ObserverAt \ {"none"} /\ observer[s] # "none"
    BY <1>1
  <1>3. PlacesInv' /\ observer' \in [Sensor -> ObserverAt]
    BY <1>1, <1>2, KeepsPlaces
  <1>4. TypeOK'
    BY <1>3 DEF TensionIInv, TypeOK, ObserverAt
  <1>5. \A t \in Sensor : \/ observer'[t] = observer[t]
                          \/ observer[t] \notin Busy /\ observer'[t] \notin Busy
    <2>1. observer \in [Sensor -> ObserverAt]
      BY DEF TensionIInv, TypeOK, ObserverAt
    <2>2. QED
      BY <1>1, <2>1
  <1>6. worker' = Idle => timer = "none"
    BY DEF TensionIInv, TimerInv
  <1>7. MutexInv' /\ JoiningInv' /\ TimerInv' /\ ToldInv' /\ StepInv'
    BY <1>5, <1>6, KeepsShared
  <1>8. QED
    BY <1>3, <1>4, <1>7 DEF TensionIInv

LEMMA ObserverGoesOn ==
    ASSUME TensionIInv, NEW s \in Sensor, ObserverChecks(s) \/ ObserverTimesOut(s)
    PROVE  TensionIInv'
  <1>1. /\ worker' = worker /\ observing' = observing /\ risen' = risen
        /\ current' = current /\ last' = last /\ mutex' = mutex /\ doRun' = doRun
        /\ timer' = timer /\ repeating' = repeating /\ told' = told /\ read' = read
        /\ overtaken' = overtaken
    BY DEF ObserverChecks, ObserverTimesOut, history
  <1>2. risen' \in [Sensor -> BOOLEAN]
    BY <1>1 DEF TensionIInv, TypeOK
  <1>3. {"check", "wait", "done"} \subseteq ObserverAt \ (Busy \cup {"none"})
    BY DEF ObserverAt, Busy
  <1>4. CASE ObserverChecks(s)
    <2> DEFINE to == IF observing[s] THEN "wait" ELSE "done"
    <2>1. Moves(s, "check", to) /\ to \in {"wait", "done"} /\ (to = "done" => ~observing[s])
      BY <1>4 DEF ObserverChecks
    <2> HIDE DEF to
    <2>2. to \in ObserverAt \ (Busy \cup {"none"})
      BY <1>3, <2>1
    <2>3. "check" \in ObserverAt \ (Busy \cup {"none"})
      BY <1>3
    <2>4. QED
      BY <1>1, <1>2, <2>1, <2>2, <2>3, ObserverMoves
  <1>5. CASE ObserverTimesOut(s)
    <2>1. Moves(s, "wait", "check")
      BY <1>5 DEF ObserverTimesOut
    <2>2. /\ "wait" \in ObserverAt \ (Busy \cup {"none"})
          /\ "check" \in ObserverAt \ (Busy \cup {"none"}) /\ "check" # "done"
      BY <1>3
    <2>3. QED
      BY <1>1, <1>2, <2>1, <2>2, ObserverMoves
  <1>6. QED
    BY <1>4, <1>5

\* An edge is read while no other observer handles one, or it overtakes.
LEMMA EdgeIsRead ==
    ASSUME TensionIInv, NEW s \in Sensor, ReadsEdge(s)
    PROVE  TensionIInv'
  <1> DEFINE means == Meaning(s, ~risen[s])
  <1>1. /\ risen' = [risen EXCEPT ![s] = ~@]
        /\ worker' = worker /\ observing' = observing /\ last' = last /\ mutex' = mutex
        /\ doRun' = doRun /\ timer' = timer /\ repeating' = repeating /\ told' = told
    BY DEF ReadsEdge
  <1>2. risen \in [Sensor -> BOOLEAN] /\ observer \in [Sensor -> ObserverAt]
        /\ current \in [Sensor -> Event]
    BY DEF TensionIInv, TypeOK, ObserverAt
  <1>3. risen' \in [Sensor -> BOOLEAN]
    BY <1>1, <1>2
  <1>4. means \in Event
    BY DEF Meaning, Event
  <1> HIDE DEF means
  <1>5. CASE ~observing[s]
    <2>1. /\ Moves(s, "wait", "check") /\ current' = current /\ read' = read
          /\ overtaken' = overtaken
      BY <1>5 DEF ReadsEdge
    <2>2. /\ "wait" \in ObserverAt \ (Busy \cup {"none"})
          /\ "check" \in ObserverAt \ (Busy \cup {"none"}) /\ "check" # "done"
      BY DEF ObserverAt, Busy
    <2>3. QED
      BY <1>1, <1>3, <2>1, <2>2, ObserverMoves
  <1>6. CASE observing[s]
    <2>1. /\ observer[s] = "wait" /\ observer' = [observer EXCEPT ![s] = "compare"]
          /\ current' = [current EXCEPT ![s] = means] /\ read' = means
          /\ overtaken' = (overtaken \/ \E o \in Sensor \ {s} : Handling(o))
      BY <1>6 DEF ReadsEdge, Moves, Handling, means
    <2>2. "compare" \in ObserverAt \ {"none"} /\ "compare" # "done" /\ observer[s] # "none"
      BY <2>1 DEF ObserverAt
    <2>3. PlacesInv' /\ observer' \in [Sensor -> ObserverAt]
      BY <1>1, <2>1, <2>2, KeepsPlaces
    <2>4. \A t \in Sensor : /\ observer'[t] = IF t = s THEN "compare" ELSE observer[t]
                            /\ current'[t] = IF t = s THEN means ELSE current[t]
      BY <1>2, <2>1
    <2>5. TypeOK'
      <3>1. current' \in [Sensor -> Event] /\ read' \in Event
        BY <1>2, <1>4, <2>1
      <3>2. overtaken' \in BOOLEAN
        <4>1. overtaken \in BOOLEAN
          BY DEF TensionIInv, TypeOK
        <4>2. QED
          BY <2>1, <4>1
      <3>3. QED
        BY <1>1, <1>3, <2>3, <3>1, <3>2 DEF TensionIInv, TypeOK, ObserverAt
    <2>6. \A t \in Sensor : observer'[t] = "joining" <=> observer[t] = "joining"
      BY <2>1, <2>4
    <2>7. MutexInv' /\ JoiningInv'
      BY <1>1, <2>6 DEF TensionIInv, MutexInv, JoiningInv
    <2>8. TimerInv'
      BY <1>1, <2>6 DEF TensionIInv, TimerInv, RepeatsWhileTense
    <2>9. ToldInv'
      BY <1>1 DEF TensionIInv, ToldInv
    <2>10. StepInv'
      <3>1. \A t \in Sensor : Handling(t)' <=> t = s \/ Handling(t)
        BY <2>4 DEF Handling
      <3>2. ASSUME ~overtaken'
            PROVE  /\ \A t \in Sensor : Handling(t)' => t = s
                   /\ current'[s] = read'
        <4>1. \A o \in Sensor : Handling(o) => o = s
          BY <2>1, <3>2
        <4>2. QED
          BY <2>1, <2>4, <3>1, <4>1
      <3>3. QED
        BY <3>1, <3>2 DEF StepInv
    <2>11. QED
      BY <2>3, <2>5, <2>7, <2>8, <2>9, <2>10 DEF TensionIInv
  <1>7. QED
    BY <1>5, <1>6

LEMMA ObserverCompares ==
    ASSUME TensionIInv, NEW s \in Sensor, Compares(s)
    PROVE  TensionIInv'
  <1> DEFINE to == IF current[s] # last THEN "lock" ELSE "check"
  <1>1. /\ observer[s] = "compare" /\ observer' = [observer EXCEPT ![s] = to]
        /\ worker' = worker /\ observing' = observing /\ risen' = risen
        /\ current' = current /\ last' = last /\ mutex' = mutex /\ doRun' = doRun
        /\ timer' = timer /\ repeating' = repeating /\ told' = told /\ read' = read
        /\ overtaken' = overtaken
    BY DEF Compares, Moves, history
  <1>2. to \in {"lock", "check"} /\ (to = "check" => current[s] = last)
    OBVIOUS
  <1> HIDE DEF to
  <1>3. to \in ObserverAt \ {"none"} /\ to # "done" /\ observer[s] # "none"
    BY <1>1, <1>2 DEF ObserverAt
  <1>4. PlacesInv' /\ observer' \in [Sensor -> ObserverAt]
    BY <1>1, <1>3, KeepsPlaces
  <1>5. \A t \in Sensor : observer'[t] = IF t = s THEN to ELSE observer[t]
    BY <1>1 DEF TensionIInv, TypeOK
  <1>6. TypeOK'
    BY <1>1, <1>4 DEF TensionIInv, TypeOK, ObserverAt
  <1>7. \A t \in Sensor : observer'[t] = "joining" <=> observer[t] = "joining"
    BY <1>1, <1>2, <1>5
  <1>8. MutexInv' /\ JoiningInv'
    BY <1>1, <1>7 DEF TensionIInv, MutexInv, JoiningInv
  <1>9. TimerInv'
    BY <1>1, <1>7 DEF TensionIInv, TimerInv, RepeatsWhileTense
  <1>10. ToldInv'
    BY <1>1 DEF TensionIInv, ToldInv
  <1>11. StepInv'
    <2>1. \A t \in Sensor : Handling(t)' <=> Handling(t) /\ (t = s => to = "lock")
      BY <1>1, <1>2, <1>5 DEF Handling
    <2>2. Handling(s)
      BY <1>1 DEF Handling
    <2>3. ASSUME ~overtaken, \A t \in Sensor : ~Handling(t)' PROVE last = read
      <3>1. to = "check"
        BY <1>2, <2>1, <2>2, <2>3
      <3>2. current[s] = read
        BY <2>2, <2>3 DEF TensionIInv, StepInv
      <3>3. QED
        BY <1>2, <3>1, <3>2
    <2>4. QED
      BY <1>1, <2>1, <2>3 DEF TensionIInv, StepInv
  <1>12. QED
    BY <1>4, <1>6, <1>8, <1>9, <1>10, <1>11 DEF TensionIInv

\* The section under the mutex: nobody else joins the timer meanwhile.
LEMMA ObserverHandles ==
    ASSUME TensionIInv, NEW s \in Sensor, Handles(s)
    PROVE  TensionIInv'
  <1>1. /\ mutex = Free /\ last' = current[s] /\ told' = current[s]
        /\ worker' = worker /\ observing' = observing /\ risen' = risen
        /\ current' = current /\ repeating' = repeating /\ read' = read
        /\ overtaken' = overtaken
    BY DEF Handles
  <1>2. PICK to \in {"check", "joining"} :
           /\ observer[s] = "lock" /\ observer' = [observer EXCEPT ![s] = to]
           /\ mutex' = IF to = "joining" THEN s ELSE mutex
           /\ to = "joining" =>
                 current[s] = "Normal" /\ timer' = timer /\ timer # "none" /\ doRun' = FALSE
           /\ to = "check" => timer' # "none" <=> current[s] # "Normal"
           /\ doRun' \in {doRun, TRUE, FALSE}
           /\ timer' = timer \/ (timer = "none" /\ timer' = "check")
    <2>1. CASE TellsAndStopsTimer(s) /\ timer = "none"
      <3>1. /\ current[s] = "Normal" /\ observer[s] = "lock"
            /\ observer' = [observer EXCEPT ![s] = "check"]
            /\ mutex' = mutex /\ doRun' = doRun /\ timer' = timer
        BY <2>1 DEF TellsAndStopsTimer, Moves
      <3>2. QED
        BY <2>1, <3>1
    <2>2. CASE TellsAndStopsTimer(s) /\ timer # "none"
      <3>1. /\ current[s] = "Normal" /\ observer[s] = "lock"
            /\ observer' = [observer EXCEPT ![s] = "joining"]
            /\ mutex' = s /\ doRun' = FALSE /\ timer' = timer
        BY <2>2 DEF TellsAndStopsTimer, Moves
      <3>2. QED
        BY <2>2, <3>1
    <2>3. CASE TellsAndStartsTimer(s)
      <3>1. /\ current[s] # "Normal" /\ observer[s] = "lock"
            /\ observer' = [observer EXCEPT ![s] = "check"] /\ mutex' = mutex
            /\ \/ timer = "none" /\ timer' = "check" /\ doRun' = TRUE
               \/ timer # "none" /\ timer' = timer /\ doRun' = doRun
        BY <2>3 DEF TellsAndStartsTimer, Moves
      <3>2. QED
        BY <3>1
    <2>4. QED
      BY <2>1, <2>2, <2>3 DEF Handles
  <1>3. \A t \in Sensor : observer[t] # "joining"
    <2>1. \A t \in Sensor : t # Free
      BY SensorIs DEF Free
    <2>2. QED
      BY <1>1, <2>1 DEF TensionIInv, MutexInv
  <1>4. timer # "repeat"
    BY <1>1 DEF TensionIInv, MutexInv, Free
  <1>5. to \in ObserverAt \ {"none"} /\ to # "done" /\ observer[s] # "none"
    BY <1>2 DEF ObserverAt
  <1>6. PlacesInv' /\ observer' \in [Sensor -> ObserverAt]
    BY <1>1, <1>2, <1>5, KeepsPlaces
  <1>7. \A t \in Sensor : observer'[t] = IF t = s THEN to ELSE observer[t]
    BY <1>2 DEF TensionIInv, TypeOK
  <1>8. TypeOK'
    <2>1. current[s] \in Event /\ doRun \in BOOLEAN
      BY DEF TensionIInv, TypeOK
    <2>2. doRun' \in BOOLEAN
      BY <1>2, <2>1
    <2>3. mutex' \in Sensor \cup {"timer", Free}
      BY <1>1, <1>2
    <2>4. timer' \in {"none", "check", "wait", "lock", "repeat", "done"}
      BY <1>2 DEF TensionIInv, TypeOK
    <2>5. last' \in Event /\ told' \in Event
      BY <1>1, <2>1
    <2>6. QED
      BY <1>1, <1>6, <2>2, <2>3, <2>4, <2>5 DEF TensionIInv, TypeOK, ObserverAt
  <1>9. MutexInv'
    <2>1. \A t \in Sensor : t # Free /\ t # "timer"
      BY SensorIs DEF Free
    <2>2. \A t \in Sensor : mutex' = t <=> observer'[t] = "joining"
      BY <1>1, <1>2, <1>3, <1>7, <2>1
    <2>3. mutex' # "timer" /\ timer' # "repeat"
      BY <1>1, <1>2, <1>4, <2>1 DEF Free
    <2>4. QED
      BY <2>2, <2>3 DEF MutexInv
  <1>10. JoiningInv'
    BY <1>1, <1>2, <1>3, <1>7 DEF JoiningInv
  <1>11. TimerInv'
    <2>1. RepeatsWhileTense'
      <3>1. CASE to = "joining"
        BY <1>7, <3>1 DEF RepeatsWhileTense
      <3>2. CASE to = "check"
        BY <1>1, <1>2, <3>2 DEF RepeatsWhileTense
      <3>3. QED
        BY <3>1, <3>2
    <2>2. worker # Idle
      <3>1. SUFFICES ASSUME worker = Idle PROVE FALSE
        OBVIOUS
      <3>2. worker.at = "off"
        BY <3>1, AtIs DEF Idle
      <3>3. ~Observed(s) /\ worker # At("join", s)
        BY <3>2, AtIs DEF Observed
      <3>4. QED
        BY <1>2, <3>3 DEF TensionIInv, PlacesInv
    <2>3. QED
      BY <1>1, <2>1, <2>2 DEF TimerInv
  <1>12. ToldInv'
    <2>1. timer' # "repeat"
      BY <1>2, <1>4
    <2>2. QED
      BY <1>1, <2>1 DEF ToldInv
  <1>13. StepInv'
    <2>1. \A t \in Sensor : Handling(t)' <=> Handling(t) /\ t # s
      BY <1>2, <1>7 DEF Handling
    <2>2. Handling(s)
      BY <1>2 DEF Handling
    <2>3. ~overtaken => /\ current[s] = read
                        /\ \A t \in Sensor : ~Handling(t)'
      BY <2>1, <2>2 DEF TensionIInv, StepInv
    <2>4. QED
      BY <1>1, <2>3 DEF StepInv
  <1>14. QED
    BY <1>6, <1>8, <1>9, <1>10, <1>11, <1>12, <1>13 DEF TensionIInv

LEMMA ObserverJoins ==
    ASSUME TensionIInv, NEW s \in Sensor, JoinsTimer(s)
    PROVE  TensionIInv'
  <1>1. /\ observer[s] = "joining" /\ observer' = [observer EXCEPT ![s] = "check"]
        /\ timer = "done" /\ timer' = "none" /\ mutex' = Free
        /\ worker' = worker /\ observing' = observing /\ risen' = risen
        /\ current' = current /\ last' = last /\ doRun' = doRun
        /\ repeating' = repeating /\ told' = told /\ read' = read
        /\ overtaken' = overtaken
    BY DEF JoinsTimer, Moves, history
  <1>2. "check" \in ObserverAt \ {"none"} /\ "check" # "done" /\ observer[s] # "none"
    BY <1>1 DEF ObserverAt
  <1>3. PlacesInv' /\ observer' \in [Sensor -> ObserverAt]
    BY <1>1, <1>2, KeepsPlaces
  <1>4. \A t \in Sensor : observer'[t] = IF t = s THEN "check" ELSE observer[t]
    BY <1>1 DEF TensionIInv, TypeOK
  <1>5. TypeOK'
    BY <1>1, <1>3 DEF TensionIInv, TypeOK, ObserverAt
  <1>6. mutex = s /\ last = "Normal"
    BY <1>1 DEF TensionIInv, MutexInv, JoiningInv
  <1>7. \A t \in Sensor : t # s => observer[t] # "joining"
    BY <1>6 DEF TensionIInv, MutexInv
  <1>8. \A t \in Sensor : observer'[t] # "joining"
    BY <1>4, <1>7
  <1>9. MutexInv'
    <2>1. \A t \in Sensor : t # Free
      BY SensorIs DEF Free
    <2>2. QED
      BY <1>1, <1>8, <2>1 DEF MutexInv, Free
  <1>10. JoiningInv'
    BY <1>8 DEF JoiningInv
  <1>11. TimerInv'
    BY <1>1, <1>6 DEF TimerInv, RepeatsWhileTense
  <1>12. ToldInv'
    BY <1>1 DEF TensionIInv, ToldInv
  <1>13. StepInv'
    <2>1. \A t \in Sensor : Handling(t)' <=> Handling(t)
      BY <1>1, <1>4 DEF Handling
    <2>2. QED
      BY <1>1, <2>1 DEF TensionIInv, StepInv
  <1>14. QED
    BY <1>3, <1>5, <1>9, <1>10, <1>11, <1>12, <1>13 DEF TensionIInv

-----------------------------------------------------------------------------
(* The timer. *)

LEMMA TimerGoesOn ==
    ASSUME TensionIInv, TimerThread
    PROVE  TensionIInv'
  <1>1. /\ worker' = worker /\ observing' = observing /\ observer' = observer
        /\ risen' = risen /\ current' = current /\ last' = last /\ doRun' = doRun
        /\ read' = read /\ overtaken' = overtaken
    BY DEF TimerThread, TimerChecks, TimerWakes, TimerLocks, TimerRepeats, TimerMoves
  <1>2. PICK to \in {"check", "wait", "lock", "repeat", "done"} :
           /\ timer # "none" /\ timer' = to
           /\ \/ /\ timer \in {"check", "wait"} /\ to # "repeat"
                 /\ mutex' = mutex /\ repeating' = repeating /\ told' = told
              \/ /\ timer = "lock" /\ mutex = Free /\ to = "repeat" /\ mutex' = "timer"
                 /\ last \in {"Low", "High"} /\ repeating' = last /\ told' = told
              \/ /\ timer = "lock" /\ mutex = Free /\ to = "check" /\ mutex' = mutex
                 /\ repeating' = repeating /\ told' = told
              \/ /\ timer = "repeat" /\ to = "check" /\ mutex' = Free
                 /\ repeating' = repeating /\ told' = repeating
    <2>1. CASE TimerChecks
      BY <2>1 DEF TimerChecks, TimerMoves
    <2>2. CASE TimerWakes
      BY <2>2 DEF TimerWakes, TimerMoves
    <2>3. CASE TimerLocks
      BY <2>3 DEF TimerLocks, TimerMoves
    <2>4. CASE TimerRepeats
      BY <2>4 DEF TimerRepeats, TimerMoves
    <2>5. QED
      BY <2>1, <2>2, <2>3, <2>4 DEF TimerThread
  <1>3. told = last /\ (timer = "repeat" => repeating = last)
    BY DEF TensionIInv, ToldInv
  <1>4. TypeOK'
    <2>1. mutex' \in Sensor \cup {"timer", Free} /\ repeating' \in {"Low", "High"}
      BY <1>2 DEF TensionIInv, TypeOK
    <2>2. told' = told
      BY <1>2, <1>3
    <2>3. timer' \in {"none", "check", "wait", "lock", "repeat", "done"}
      BY <1>2
    <2>4. QED
      BY <1>1, <2>1, <2>2, <2>3 DEF TensionIInv, TypeOK
  <1>5. PlacesInv'
    <2>1. \A s \in Sensor : Observed(s)' <=> Observed(s)
      BY <1>1 DEF Observed
    <2>2. QED
      BY <1>1, <2>1 DEF TensionIInv, PlacesInv
  <1>6. MutexInv'
    <2>1. \A s \in Sensor : s # Free /\ s # "timer"
      BY SensorIs DEF Free
    <2>2. "timer" # Free
      BY DEF Free
    <2>3. /\ \A s \in Sensor : mutex = s <=> observer[s] = "joining"
          /\ mutex = "timer" <=> timer = "repeat"
      BY DEF TensionIInv, MutexInv
    <2>4. \A s \in Sensor : mutex' = s <=> observer'[s] = "joining"
      BY <1>1, <1>2, <2>1, <2>2, <2>3
    <2>5. mutex' = "timer" <=> timer' = "repeat"
      BY <1>2, <2>2, <2>3
    <2>6. QED
      BY <2>4, <2>5 DEF MutexInv
  <1>7. timer' # "none"
    BY <1>2
  <1>8. JoiningInv'
    BY <1>1, <1>7 DEF TensionIInv, JoiningInv
  <1>9. TimerInv'
    BY <1>1, <1>2, <1>7 DEF TensionIInv, TimerInv, RepeatsWhileTense
  <1>10. ToldInv'
    BY <1>1, <1>2, <1>3 DEF ToldInv
  <1>11. StepInv'
    BY <1>1 DEF TensionIInv, StepInv, Handling
  <1>12. QED
    BY <1>4, <1>5, <1>6, <1>8, <1>9, <1>10, <1>11 DEF TensionIInv

-----------------------------------------------------------------------------
LEMMA TensionInitHolds == Init => TensionIInv
  <1> SUFFICES ASSUME Init PROVE TensionIInv
    OBVIOUS
  <1>1. TypeOK
    BY PlacesAre DEF Init, TypeOK, Event
  <1>2. PlacesInv
    <2>1. worker.at = "off"
      BY AtIs DEF Init, Idle
    <2>2. \A s \in Sensor : ~Observed(s) /\ worker # At("join", s)
      BY <2>1, AtIs DEF Observed
    <2>3. QED
      BY <2>2 DEF Init, PlacesInv
  <1>3. MutexInv
    <2>1. \A s \in Sensor : s # Free
      BY SensorIs DEF Free
    <2>2. QED
      BY <2>1 DEF Init, MutexInv, Free
  <1>4. JoiningInv /\ TimerInv /\ ToldInv
    BY DEF Init, JoiningInv, TimerInv, RepeatsWhileTense, ToldInv
  <1>5. StepInv
    BY DEF Init, StepInv, Handling
  <1>6. QED
    BY <1>1, <1>2, <1>3, <1>4, <1>5 DEF TensionIInv

LEMMA TensionStays == TensionIInv /\ UNCHANGED vars => TensionIInv'
  <1> SUFFICES ASSUME TensionIInv, UNCHANGED vars PROVE TensionIInv'
    OBVIOUS
  <1>1. /\ worker' = worker /\ observing' = observing /\ observer' = observer
        /\ risen' = risen /\ current' = current /\ last' = last /\ mutex' = mutex
        /\ doRun' = doRun /\ timer' = timer /\ repeating' = repeating
        /\ told' = told /\ read' = read /\ overtaken' = overtaken
    BY DEF vars, history
  <1>2. TypeOK'
    BY <1>1 DEF TensionIInv, TypeOK
  <1>3. PlacesInv'
    <2>1. \A s \in Sensor : Observed(s)' <=> Observed(s)
      BY <1>1 DEF Observed
    <2>2. QED
      BY <1>1, <2>1 DEF TensionIInv, PlacesInv
  <1>4. worker' = Idle => timer = "none"
    BY <1>1 DEF TensionIInv, TimerInv
  <1>5. MutexInv' /\ JoiningInv' /\ TimerInv' /\ ToldInv' /\ StepInv'
    BY <1>1, <1>4, KeepsShared
  <1>6. QED
    BY <1>2, <1>3, <1>5 DEF TensionIInv

LEMMA TensionGoesOn == TensionIInv /\ Next => TensionIInv'
  <1> SUFFICES ASSUME TensionIInv, Next PROVE TensionIInv'
    OBVIOUS
  <1>1. CASE SwitchOn
    BY <1>1, SwitchesOn
  <1>2. CASE SwitchOff
    BY <1>2, SwitchesOff
  <1>3. CASE Worker
    <2>1. ASSUME NEW s \in Sensor, StartObserver(s) PROVE TensionIInv'
      BY <2>1, ObserverStarts
    <2>2. ASSUME NEW s \in Sensor, StopObserver(s) PROVE TensionIInv'
      BY <2>2, ObserverStops
    <2>3. ASSUME NEW s \in Sensor, JoinObserver(s) PROVE TensionIInv'
      BY <2>3, ObserverIsJoined
    <2>4. QED
      BY <1>3, <2>1, <2>2, <2>3, TimerIsStopped, TimerIsJoined DEF Worker
  <1>4. ASSUME NEW s \in Sensor, Observer(s) \/ ObserverTimesOut(s) \/ ReadsEdge(s)
        PROVE  TensionIInv'
    <2>1. CASE ObserverChecks(s) \/ ObserverTimesOut(s)
      BY <2>1, ObserverGoesOn
    <2>2. CASE Compares(s)
      BY <2>2, ObserverCompares
    <2>3. CASE Handles(s)
      BY <2>3, ObserverHandles
    <2>4. CASE JoinsTimer(s)
      BY <2>4, ObserverJoins
    <2>5. CASE ReadsEdge(s)
      BY <2>5, EdgeIsRead
    <2>6. QED
      BY <1>4, <2>1, <2>2, <2>3, <2>4, <2>5 DEF Observer
  <1>5. CASE TimerThread
    BY <1>5, TimerGoesOn
  <1>6. QED
    BY <1>1, <1>2, <1>3, <1>4, <1>5 DEF Next

LEMMA TensionInvariantHolds == Spec => []TensionIInv
  <1>1. TensionIInv /\ [Next]_vars => TensionIInv'
    BY TensionStays, TensionGoesOn
  <1>2. QED
    BY <1>1, TensionInitHolds, PTL DEF Spec

\* The state of the observation stays what the code means by it.
THEOREM TensionTypeCorrect == Spec => []TypeOK
  <1>1. TensionIInv => TypeOK
    BY DEF TensionIInv
  <1>2. QED
    BY <1>1, TensionInvariantHolds, PTL

\* Whoever has stopped the observation has joined every thread of it, and nobody holds
\* the mutex (stopSensorObservation, FilamentTensionSensorService.cpp:97-103).
THEOREM TensionIsQuietWhenOff == Spec => []QuietWhenOff
  <1>1. TensionIInv => QuietWhenOff
    <2> SUFFICES ASSUME TensionIInv, worker = Idle
                 PROVE  /\ \A s \in Sensor : observer[s] = "none"
                        /\ timer = "none"
                        /\ mutex = Free
      BY DEF QuietWhenOff
    <2>1. worker.at = "off"
      BY AtIs DEF Idle
    <2>2. \A s \in Sensor : ~Observed(s) /\ worker # At("join", s)
      BY <2>1, AtIs DEF Observed
    <2>3. \A s \in Sensor : observer[s] = "none"
      BY <2>2 DEF TensionIInv, PlacesInv
    <2>4. timer = "none"
      BY DEF TensionIInv, TimerInv
    <2>5. mutex \notin Sensor /\ mutex # "timer"
      BY <2>3, <2>4 DEF TensionIInv, MutexInv
    <2>6. mutex = Free
      BY <2>5 DEF TensionIInv, TypeOK
    <2>7. QED
      BY <2>3, <2>4, <2>6
  <1>2. QED
    BY <1>1, TensionInvariantHolds, PTL

\* A repetition never comes after the news that ended it: the timer repeats under the
\* mutex what it has read under it (FilamentTensionSensorService.cpp:105-166).
THEOREM TensionLastToldIsLast == Spec => []LastToldIsLast
  <1>1. TensionIInv => LastToldIsLast
    BY DEF TensionIInv, ToldInv, LastToldIsLast
  <1>2. QED
    BY <1>1, TensionInvariantHolds, PTL

\* The timer exists exactly while the tension is not normal, whatever the observers do
\* at the same time, unless somebody is about to stop it.
THEOREM TensionRepeatsWhileTense == Spec => []RepeatsWhileTense
  <1>1. TensionIInv => RepeatsWhileTense
    BY DEF TensionIInv, TimerInv
  <1>2. QED
    BY <1>1, TensionInvariantHolds, PTL

\* The comparison without the mutex loses an edge only if another one is read before the
\* first one is handled.
THEOREM TensionInStepWithPins == Spec => []InStepWithPins
  <1>1. TensionIInv => InStepWithPins
    BY DEF TensionIInv, StepInv, Handling, InStepWithPins
  <1>2. QED
    BY <1>1, TensionInvariantHolds, PTL
=============================================================================
