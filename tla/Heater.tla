-------------------------------- MODULE Heater --------------------------------
(***************************************************************************)
(* A heater component, FilamentMergerHeater or FilamentPreHeater.  Its     *)
(* worker runs the actions of the table and switches the relay; the thread *)
(* of its timer reads the sensor, compares and pushes events.              *)
(***************************************************************************)
EXTENDS Max31865, Sequences, MachineTables

CONSTANTS
    HeaterOrders,   \* the lists of events that the component is sent
    Readings,       \* the values of the sensor's register
    TemperatureMin, \* the limits of the hysteresis
    TemperatureMax,
    MaxChanges,     \* bound: changes of the temperature
    MaxHeaterFaults \* bound: reads and switchings that fail

ASSUME HeaterAssumption ==
    /\ TemperatureMin \in Int /\ TemperatureMax \in Int /\ TemperatureMin < TemperatureMax
    /\ Readings \subseteq 0..65535

ASSUME HeaterOrdersAssumption == HeaterOrders \subseteq Seq({"SwitchOn", "SwitchOff"})

VARIABLES
    heater,         \* m_state of the component
    heaterEvents,   \* its event queue
    result,         \* what the worker has still to do in its action
    relay,          \* the relay is closed
    timer,          \* where the timer's thread is: "off", "waiting" or "checking"
    doRun,          \* m_doRun of the timer
    current,        \* m_currentTemperature
    lastChecked,    \* m_lastCheckedTemperature
    register,       \* what the sensor measures
    toldReached,    \* TargetTemperatureRangeReached was told last
    wasHot,         \* history: the maximum was read since the switch-on
    hasty,          \* history: an order came before the one before it was done
    heaterOrders, changes, sensorFaults, relayFaults

heaterVars == <<heater, heaterEvents, result, relay, timer, doRun, current, lastChecked,
                register, toldReached, wasHot, hasty, heaterOrders, changes,
                sensorFaults, relayFaults>>
heaterBudget == <<hasty, heaterOrders, changes, sensorFaults, relayFaults>>

HeaterTypeOK ==
    /\ heater \in HeaterStates
    /\ heaterEvents \in Seq({t.event : t \in HeaterTable})
    /\ result \in {"none", "join", "open", "SwitchOnSucceeded"}
    /\ relay \in BOOLEAN
    /\ timer \in {"off", "waiting", "checking"}
    /\ {doRun, toldReached, wasHot, hasty} \subseteq BOOLEAN
    /\ {current, lastChecked} \subseteq Temperatures
    /\ register \in Readings

HeaterInit ==
    /\ heater = "Off"
    /\ heaterEvents = <<>>
    /\ result = "none"
    /\ relay = FALSE
    /\ timer = "off"
    /\ doRun = FALSE
    /\ current = 0
    /\ lastChecked = NotChecked
    /\ register \in Readings
    /\ toldReached = FALSE
    /\ wasHot = FALSE
    /\ hasty = FALSE
    /\ heaterOrders \in HeaterOrders
    /\ changes = 0
    /\ sensorFaults = 0
    /\ relayFaults = 0
-----------------------------------------------------------------------------
Hot(t) == t >= TemperatureMax
Cold(t) == t <= TemperatureMin

\* updateHeaterTemperature: a read of the sensor, which may fail in two ways.
ReadsTemperature ==
    \E selected, transferred \in BOOLEAN :
       LET fails == ~(selected /\ transferred)
       IN  /\ fails => sensorFaults + relayFaults < MaxHeaterFaults
           /\ sensorFaults' = IF fails THEN sensorFaults + 1 ELSE sensorFaults
           /\ \E word \in Buffer(register, selected, transferred, Readings) :
                 current' = getTemperature(word)

\* switchHeater: the relay is read back, and a failure is known.
Switches(on, ok) ==
    /\ ~ok => sensorFaults + relayFaults < MaxHeaterFaults
    /\ relayFaults' = IF ok THEN relayFaults ELSE relayFaults + 1
    /\ relay' = IF ok THEN on ELSE relay

KeepsRelay == UNCHANGED <<relay, relayFaults>>
KeepsSensor == UNCHANGED <<current, sensorFaults>>

\* switchOn: read the temperature, start the timer.
HeaterSwitchOn(q) ==
    /\ ReadsTemperature
    /\ timer' = "waiting"
    /\ doRun' = TRUE
    /\ heaterEvents' = Append(q, "SwitchOnSucceeded")
    /\ wasHot' = FALSE
    /\ KeepsRelay
    /\ UNCHANGED <<result, toldReached>>

HeaterStartHeating(q) ==
    /\ \E ok \in BOOLEAN :
          /\ Switches(TRUE, ok)
          /\ heaterEvents' = IF ok THEN q ELSE Append(q, "ErrorOccurred")
    /\ KeepsSensor
    /\ UNCHANGED <<result, timer, doRun, toldReached, wasHot>>

HeaterStopHeating(q) ==
    /\ \E ok \in BOOLEAN :
          /\ Switches(FALSE, ok)
          /\ heaterEvents' = IF ok THEN q ELSE Append(q, "ErrorOccurred")
          /\ toldReached' = IF ok THEN TRUE ELSE toldReached
    /\ KeepsSensor
    /\ UNCHANGED <<result, timer, doRun, wasHot>>

\* handleError opens the relay and leaves the timer running.
HeaterHandleError(q) ==
    /\ \E ok \in BOOLEAN : Switches(FALSE, ok)
    /\ heaterEvents' = q
    /\ toldReached' = FALSE
    /\ KeepsSensor
    /\ UNCHANGED <<result, timer, doRun, wasHot>>

\* switchOff tells the timer to stop and waits for its thread, if it runs.
HeaterSwitchOff(q) ==
    /\ doRun' = FALSE
    /\ result' = "join"
    /\ heaterEvents' = q
    /\ toldReached' = FALSE
    /\ KeepsSensor
    /\ KeepsRelay
    /\ UNCHANGED <<timer, wasHot>>

HeaterDispatch ==
    /\ result = "none"
    /\ heaterEvents # <<>>
    /\ LET entries == {t \in HeaterTable : t.state = heater /\ t.event = Head(heaterEvents)}
           q == Tail(heaterEvents)
       IN  \/ \E t \in entries :
                 /\ heater' = t.next
                 /\ CASE t.action = "switchOn" -> HeaterSwitchOn(q)
                      [] t.action = "startHeating" -> HeaterStartHeating(q)
                      [] t.action = "stopHeating" -> HeaterStopHeating(q)
                      [] t.action = "handleError" -> HeaterHandleError(q)
                      [] t.action = "switchOff" -> HeaterSwitchOff(q)
                      [] OTHER ->
                            /\ heaterEvents' = q
                            /\ KeepsRelay /\ KeepsSensor
                            /\ UNCHANGED <<result, timer, doRun, toldReached, wasHot>>
           \/ /\ entries = {}
              /\ heaterEvents' = q
              /\ KeepsRelay /\ KeepsSensor
              /\ UNCHANGED <<heater, result, timer, doRun, toldReached, wasHot>>
    /\ UNCHANGED <<lastChecked, register, hasty, heaterOrders, changes>>

\* The timer's thread has ended, and the relay is opened.
HeaterOpens ==
    /\ result = "join"
    /\ timer = "off"
    /\ \E ok \in BOOLEAN :
          /\ Switches(FALSE, ok)
          /\ heaterEvents' = IF ok THEN heaterEvents ELSE Append(heaterEvents, "ErrorOccurred")
    /\ result' = "none"
    /\ UNCHANGED <<heater, timer, doRun, current, lastChecked, register, toldReached, wasHot,
                   hasty, heaterOrders, changes, sensorFaults>>

\* The timer's thread wakes up: it ends, or reads the temperature.
TimerWakes ==
    /\ timer = "waiting"
    /\ \/ /\ doRun
          /\ timer' = "checking"
          /\ ReadsTemperature
          /\ wasHot' = (wasHot \/ Hot(current'))
       \/ /\ ~doRun
          /\ timer' = "off"
          /\ KeepsSensor
          /\ UNCHANGED wasHot
    /\ UNCHANGED <<heater, heaterEvents, result, relay, doRun, lastChecked, register,
                   toldReached, hasty, heaterOrders, changes, relayFaults>>

\* Faulty variant: the check reports the limits without the hysteresis.
LimitWithoutHysteresis(t) ==
    IF t > TemperatureMin THEN << "MaxTemperatureReached" >> ELSE << "MinTemperatureReached" >>

\* Faulty variant: the two events are exchanged.
LimitExchanged(t) ==
    IF Hot(t) THEN << "MinTemperatureReached" >>
    ELSE IF Cold(t) THEN << "MaxTemperatureReached" >> ELSE <<>>

\* The event for temperature t, if it is beyond a limit.
LimitEvent(t) ==
    IF Hot(t) THEN << "MaxTemperatureReached" >>
    ELSE IF Cold(t) THEN << "MinTemperatureReached" >>
    ELSE <<>>

\* Then it compares: only a temperature that changed is reported.
TimerChecks ==
    /\ timer = "checking"
    /\ heaterEvents' = IF lastChecked # current /\ LimitEvent(current) # <<>>
                       THEN Append(heaterEvents, LimitEvent(current)[1]) ELSE heaterEvents
    /\ lastChecked' = current
    /\ timer' = "waiting"
    /\ UNCHANGED <<heater, result, relay, doRun, current, register, toldReached, wasHot,
                   heaterBudget>>

\* The temperature changes.  The register of a faulty sensor tells the fault.
Measures ==
    /\ changes < MaxChanges
    /\ changes' = changes + 1
    /\ register' \in Readings \ {register}
    /\ UNCHANGED <<heater, heaterEvents, result, relay, timer, doRun, current, lastChecked,
                   toldReached, wasHot, hasty, heaterOrders, sensorFaults,
                   relayFaults>>

\* A switch-on or switch-off is still to be done.
Ordering ==
    \/ heater = "Initialization" \/ result # "none"
    \/ \E i \in DOMAIN heaterEvents :
          heaterEvents[i] \in {"SwitchOn", "SwitchOff", "SwitchOnSucceeded"}

HeaterOrdered ==
    /\ heaterOrders # <<>>
    /\ heaterEvents' = Append(heaterEvents, Head(heaterOrders))
    /\ heaterOrders' = Tail(heaterOrders)
    /\ hasty' = (hasty \/ Ordering)
    /\ UNCHANGED <<heater, result, relay, timer, doRun, current, lastChecked, register,
                   toldReached, wasHot, changes, sensorFaults, relayFaults>>

HeaterWorkerStep == HeaterDispatch \/ HeaterOpens
TimerStep == TimerWakes \/ TimerChecks
HeaterNext == HeaterWorkerStep \/ TimerStep \/ Measures \/ HeaterOrdered

HeaterSpec == HeaterInit /\ [][HeaterNext]_heaterVars

\* Both threads run; the period of the timer comes to an end.
HeaterFairness == WF_heaterVars(HeaterWorkerStep) /\ WF_heaterVars(TimerStep)
-----------------------------------------------------------------------------
\* The heater is told to be hot only if it was, since it was switched on: what the
\* timer of an earlier time had pushed is not taken for news (FilamentMergerHeater.cpp:97-110).
\* A SwitchOnSucceeded of an earlier switch-on, when the switch-off came in between,
\* can break that: it takes the heater on before the old event is handled.
ReachedWasHot == toldReached /\ ~hasty => wasHot

\* A closed relay at a temperature that stays too hot is opened, unless the last
\* temperature that was checked, maybe before the heater was switched on, is the same:
\* that one is not reported again (HeaterService.cpp:71, 91).
HotReadings == {word \in Readings : Hot(getTemperature(word))}
TooHot(r) == relay /\ register = r /\ lastChecked # getTemperature(r)
NoLongerHot(r) == ~relay \/ register # r \/ timer = "off" \/ relayFaults > 0
HotStops == \A r \in HotReadings : TooHot(r) ~> NoLongerHot(r)

\* What holds of the heater at any time: it tells of no heat that is not there.
HeaterInvariant == HeaterTypeOK /\ ReachedWasHot
=============================================================================
