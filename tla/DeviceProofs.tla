----------------------------- MODULE DeviceProofs -----------------------------
(***************************************************************************)
(* The heater, the bus of the temperature sensors and the motor, whatever  *)
(* orders the components get, whatever the sensors measure, whatever       *)
(* speeds are asked for and whatever fails.                                *)
(***************************************************************************)
EXTENDS Heater, SpiBus, Motor, TLAPS

-----------------------------------------------------------------------------
(* The table of a heater. *)

HeaterEvents ==
    {"SwitchOn", "SwitchOff", "SwitchOnSucceeded", "ErrorOccurred",
     "MaxTemperatureReached", "MinTemperatureReached"}

LEMMA OnEntry ==
    ASSUME NEW states, NEW event, NEW next, NEW action, NEW t \in On(states, event, next, action)
    PROVE  t.state \in states /\ t.event = event /\ t.next = next /\ t.action = action
  BY DEF On

LEMMA EntryOn ==
    ASSUME NEW states, NEW event, NEW next, NEW action, NEW s \in states
    PROVE  \E t \in On(states, event, next, action) : t.event = event
  <1> DEFINE entry == [state |-> s, event |-> event, next |-> next, action |-> action]
  <1>1. entry \in On(states, event, next, action)
    BY DEF On
  <1>2. entry.event = event
    OBVIOUS
  <1>3. QED
    BY <1>1, <1>2

\* Where each action is taken, and where it leads.
LEMMA HeaterEntry ==
    ASSUME NEW t \in HeaterTable
    PROVE  /\ t.event \in HeaterEvents
           /\ t.next \in HeaterStates
           /\ t.action \in {"switchOn", "startHeating", "stopHeating", "handleError",
                            "switchOff", "none"}
           /\ t.action = "switchOn" => /\ t.state = "Off" /\ t.event = "SwitchOn"
                                       /\ t.next = "Initialization"
           /\ t.action = "startHeating" =>
                 /\ t.next = "HeatingOn"
                 /\ \/ t.state = "Initialization" /\ t.event = "SwitchOnSucceeded"
                    \/ t.state = "HeatingOff"
           /\ t.action = "stopHeating" => /\ t.state = "HeatingOn" /\ t.next = "HeatingOff"
                                          /\ t.event = "MaxTemperatureReached"
           /\ t.action = "handleError" => t.next = "Error"
           /\ t.action = "switchOff" => t.next = "Off"
           /\ t.action = "none" => t.next = t.state
  <1>1. t \in CommonEntries(HeaterStates)
           \/ t \in On({"Initialization"}, "SwitchOnSucceeded", "HeatingOn", "startHeating")
           \/ t \in On({"HeatingOn"}, "MaxTemperatureReached", "HeatingOff", "stopHeating")
           \/ t \in On({"HeatingOn"}, "MinTemperatureReached", "HeatingOn", "none")
           \/ t \in On({"HeatingOff"}, "MaxTemperatureReached", "HeatingOff", "none")
           \/ t \in On({"HeatingOff"}, "MinTemperatureReached", "HeatingOn", "startHeating")
    BY DEF HeaterTable
  <1>2. CASE t \in CommonEntries(HeaterStates)
    <2>1. \/ t \in On({"Off"}, "SwitchOff", "Off", "none")
          \/ t \in On(HeaterStates \ {"Error"}, "ErrorOccurred", "Error", "handleError")
          \/ t \in On({"Error"}, "ErrorOccurred", "Error", "none")
          \/ t \in On({"Off"}, "SwitchOn", "Initialization", "switchOn")
          \/ t \in On(HeaterStates \ {"Off"}, "SwitchOff", "Off", "switchOff")
      BY <1>2 DEF CommonEntries, ErrorEntries
    <2>2. CASE t \in On({"Off"}, "SwitchOff", "Off", "none")
      BY <2>2, OnEntry DEF HeaterEvents, HeaterStates
    <2>3. CASE t \in On(HeaterStates \ {"Error"}, "ErrorOccurred", "Error", "handleError")
      BY <2>3, OnEntry DEF HeaterEvents, HeaterStates
    <2>4. CASE t \in On({"Error"}, "ErrorOccurred", "Error", "none")
      BY <2>4, OnEntry DEF HeaterEvents, HeaterStates
    <2>5. CASE t \in On({"Off"}, "SwitchOn", "Initialization", "switchOn")
      BY <2>5, OnEntry DEF HeaterEvents, HeaterStates
    <2>6. CASE t \in On(HeaterStates \ {"Off"}, "SwitchOff", "Off", "switchOff")
      BY <2>6, OnEntry DEF HeaterEvents, HeaterStates
    <2>7. QED
      BY <2>1, <2>2, <2>3, <2>4, <2>5, <2>6
  <1>3. CASE t \in On({"Initialization"}, "SwitchOnSucceeded", "HeatingOn", "startHeating")
    BY <1>3, OnEntry DEF HeaterEvents, HeaterStates
  <1>4. CASE t \in On({"HeatingOn"}, "MaxTemperatureReached", "HeatingOff", "stopHeating")
    BY <1>4, OnEntry DEF HeaterEvents, HeaterStates
  <1>5. CASE t \in On({"HeatingOn"}, "MinTemperatureReached", "HeatingOn", "none")
    BY <1>5, OnEntry DEF HeaterEvents, HeaterStates
  <1>6. CASE t \in On({"HeatingOff"}, "MaxTemperatureReached", "HeatingOff", "none")
    BY <1>6, OnEntry DEF HeaterEvents, HeaterStates
  <1>7. CASE t \in On({"HeatingOff"}, "MinTemperatureReached", "HeatingOn", "startHeating")
    BY <1>7, OnEntry DEF HeaterEvents, HeaterStates
  <1>8. QED
    BY <1>1, <1>2, <1>3, <1>4, <1>5, <1>6, <1>7

LEMMA HeaterEventsAre == {t.event : t \in HeaterTable} = HeaterEvents
  <1>1. {t.event : t \in HeaterTable} \subseteq HeaterEvents
    BY HeaterEntry
  <1>2. \A e \in HeaterEvents : \E t \in HeaterTable : t.event = e
    <2>1. \E t \in HeaterTable : t.event = "SwitchOff"
      <3>1. \E t \in On({"Off"}, "SwitchOff", "Off", "none") : t.event = "SwitchOff"
        BY EntryOn
      <3>2. QED
        BY <3>1 DEF HeaterTable, CommonEntries, ErrorEntries
    <2>2. \E t \in HeaterTable : t.event = "ErrorOccurred"
      <3>1. \E t \in On({"Error"}, "ErrorOccurred", "Error", "none") : t.event = "ErrorOccurred"
        BY EntryOn
      <3>2. QED
        BY <3>1 DEF HeaterTable, CommonEntries, ErrorEntries
    <2>3. \E t \in HeaterTable : t.event = "SwitchOn"
      <3>1. \E t \in On({"Off"}, "SwitchOn", "Initialization", "switchOn") : t.event = "SwitchOn"
        BY EntryOn
      <3>2. QED
        BY <3>1 DEF HeaterTable, CommonEntries
    <2>4. \E t \in HeaterTable : t.event = "SwitchOnSucceeded"
      <3>1. \E t \in On({"Initialization"}, "SwitchOnSucceeded", "HeatingOn", "startHeating") :
               t.event = "SwitchOnSucceeded"
        BY EntryOn
      <3>2. QED
        BY <3>1 DEF HeaterTable
    <2>5. \E t \in HeaterTable : t.event = "MaxTemperatureReached"
      <3>1. \E t \in On({"HeatingOff"}, "MaxTemperatureReached", "HeatingOff", "none") :
               t.event = "MaxTemperatureReached"
        BY EntryOn
      <3>2. QED
        BY <3>1 DEF HeaterTable
    <2>6. \E t \in HeaterTable : t.event = "MinTemperatureReached"
      <3>1. \E t \in On({"HeatingOn"}, "MinTemperatureReached", "HeatingOn", "none") :
               t.event = "MinTemperatureReached"
        BY EntryOn
      <3>2. QED
        BY <3>1 DEF HeaterTable
    <2>7. QED
      BY <2>1, <2>2, <2>3, <2>4, <2>5, <2>6 DEF HeaterEvents
  <1>3. QED
    BY <1>1, <1>2

-----------------------------------------------------------------------------
(* The values of the sensor. *)

\* The table has an entry with the least resistance among those that a resistance does
\* not exceed.
LEMMA LeastEntry ==
    ASSUME NEW above \in SUBSET ResistanceToTemperature, above # {}
    PROVE  \E e \in above : \A f \in above : e.resistance <= f.resistance
  <1> DEFINE a == [resistance |-> 8031, temperature |-> -50]
             b == [resistance |-> 11940, temperature |-> 50]
             c == [resistance |-> 12286, temperature |-> 59]
             d == [resistance |-> 12324, temperature |-> 60]
             e == [resistance |-> 19410, temperature |-> 250]
  <1>1. \A f \in above : f = a \/ f = b \/ f = c \/ f = d \/ f = e
    BY DEF ResistanceToTemperature
  <1>2. /\ a.resistance = 8031 /\ b.resistance = 11940 /\ c.resistance = 12286
        /\ d.resistance = 12324 /\ e.resistance = 19410
    OBVIOUS
  <1> HIDE DEF a, b, c, d, e
  <1>3. CASE a \in above
    BY <1>1, <1>2, <1>3
  <1>4. CASE a \notin above /\ b \in above
    BY <1>1, <1>2, <1>4
  <1>5. CASE a \notin above /\ b \notin above /\ c \in above
    BY <1>1, <1>2, <1>5
  <1>6. CASE a \notin above /\ b \notin above /\ c \notin above /\ d \in above
    BY <1>1, <1>2, <1>6
  <1>7. CASE a \notin above /\ b \notin above /\ c \notin above /\ d \notin above
    BY <1>1, <1>2, <1>7
  <1>8. QED
    BY <1>3, <1>4, <1>5, <1>6, <1>7

LEMMA ReadingsAreTemperatures == \A word : getTemperature(word) \in Temperatures
  <1> SUFFICES ASSUME NEW word PROVE getTemperature(word) \in Temperatures
    OBVIOUS
  <1>1. CASE Fault(word)
    BY <1>1 DEF getTemperature, Temperatures
  <1>2. CASE ~Fault(word)
    <2> DEFINE above == {e \in ResistanceToTemperature : Resistance(word) <= e.resistance}
    <2>1. getTemperature(word) = LookUp(Resistance(word))
      BY <1>2 DEF getTemperature
    <2>2. CASE above = {}
      BY <2>1, <2>2 DEF LookUp, Temperatures
    <2>3. CASE above # {}
      <3>1. \E e \in above : \A f \in above : e.resistance <= f.resistance
        BY <2>3, LeastEntry
      <3>2. PICK e \in above : getTemperature(word) = e.temperature
        BY <2>1, <2>3, <3>1 DEF LookUp
      <3>3. QED
        BY <3>2 DEF Temperatures
    <2>4. QED
      BY <2>2, <2>3
  <1>3. QED
    BY <1>1, <1>2

-----------------------------------------------------------------------------
(* The heater: the inductive invariant. *)

HeaterTypeInv ==
    /\ heater \in HeaterStates
    /\ heaterEvents \in Seq(HeaterEvents)
    /\ result \in {"none", "join", "open", "SwitchOnSucceeded"}
    /\ relay \in BOOLEAN
    /\ timer \in {"off", "waiting", "checking"}
    /\ doRun \in BOOLEAN /\ toldReached \in BOOLEAN /\ wasHot \in BOOLEAN /\ hasty \in BOOLEAN
    /\ current \in Temperatures /\ lastChecked \in Temperatures
    /\ register \in Readings
    /\ heaterOrders \in Seq({"SwitchOn", "SwitchOff"})

\* A heater that is off has waited for the thread of its timer to end, so that nothing
\* but the queue is left of the time that it was on.
OffIsOff ==
    /\ result # "none" => heater = "Off"
    /\ heater = "Off" /\ result = "none" => timer = "off"

\* Whoever is off, starting or in error has told nothing.
ToldWhileHeating == toldReached => heater \in {"HeatingOn", "HeatingOff"}

\* What the timer finds hot was hot since the switch-on.
ChecksWhatWasRead == timer = "checking" /\ Hot(current) => wasHot

IsOrder(e) == e \in {"SwitchOn", "SwitchOff", "SwitchOnSucceeded"}
Orderless(q) == \A i \in DOMAIN q : ~IsOrder(q[i])

\* Of two orders, the second one comes when the first one is done.
OneOrder(q) == \A i, j \in DOMAIN q : IsOrder(q[i]) /\ IsOrder(q[j]) => i = j

Cool(q) == \A j \in DOMAIN q : q[j] # "MaxTemperatureReached"
CoolAfter(q) ==
    \A i, j \in DOMAIN q :
        q[i] = "SwitchOnSucceeded" /\ i < j => q[j] # "MaxTemperatureReached"

\* An event of the timer that the heater will heed is news: it lies behind the event
\* that ends the switch-on, which leaves those of an earlier time no effect.
HeedsNews ==
    \/ wasHot
    \/ /\ heater \in {"HeatingOn", "HeatingOff"} => Cool(heaterEvents)
       /\ heater = "Initialization" => CoolAfter(heaterEvents)

HeaterIInv ==
    /\ HeaterTypeInv
    /\ OffIsOff
    /\ ToldWhileHeating
    /\ ChecksWhatWasRead
    /\ ~hasty => OneOrder(heaterEvents) /\ HeedsNews /\ ReachedWasHot

-----------------------------------------------------------------------------
(* Queues. *)

LEMMA QueueTail ==
    ASSUME NEW q \in Seq(HeaterEvents), q # <<>>
    PROVE  /\ Head(q) \in HeaterEvents /\ Tail(q) \in Seq(HeaterEvents)
           /\ 1 \in DOMAIN q /\ Head(q) = q[1]
           /\ \A i \in DOMAIN Tail(q) : /\ i \in Nat \ {0} /\ i + 1 \in DOMAIN q
                                        /\ Tail(q)[i] = q[i + 1]
  OBVIOUS

LEMMA QueueAppend ==
    ASSUME NEW q \in Seq(HeaterEvents), NEW e \in HeaterEvents
    PROVE  /\ Append(q, e) \in Seq(HeaterEvents)
           /\ Len(q) + 1 \notin DOMAIN q
           /\ \A i \in DOMAIN Append(q, e) :
                 \/ i \in DOMAIN q /\ Append(q, e)[i] = q[i]
                 \/ i = Len(q) + 1 /\ Append(q, e)[i] = e
           /\ \A i \in DOMAIN q : i \in Nat /\ i < Len(q) + 1
  OBVIOUS

LEMMA TailKeepsQueue ==
    ASSUME NEW q \in Seq(HeaterEvents), q # <<>>
    PROVE  /\ OneOrder(q) => OneOrder(Tail(q))
           /\ OneOrder(q) /\ IsOrder(Head(q)) => Orderless(Tail(q))
           /\ Cool(q) => Cool(Tail(q))
           /\ CoolAfter(q) => CoolAfter(Tail(q))
           /\ CoolAfter(q) /\ Head(q) = "SwitchOnSucceeded" => Cool(Tail(q))
  <1>1. /\ 1 \in DOMAIN q /\ Head(q) = q[1]
        /\ \A i \in DOMAIN Tail(q) : /\ i \in Nat \ {0} /\ i + 1 \in DOMAIN q
                                     /\ Tail(q)[i] = q[i + 1]
    BY QueueTail
  <1>2. \A i, j \in DOMAIN Tail(q) : /\ i + 1 = j + 1 => i = j
                                     /\ i < j => i + 1 < j + 1
                                     /\ i + 1 # 1 /\ 1 < i + 1
    BY <1>1
  <1>3. ASSUME OneOrder(q) PROVE OneOrder(Tail(q))
    <2> SUFFICES ASSUME NEW i \in DOMAIN Tail(q), NEW j \in DOMAIN Tail(q),
                        IsOrder(Tail(q)[i]), IsOrder(Tail(q)[j])
                 PROVE  i = j
      BY DEF OneOrder
    <2>1. i + 1 = j + 1
      BY <1>1, <1>3 DEF OneOrder
    <2>2. QED
      BY <1>2, <2>1
  <1>4. ASSUME OneOrder(q), IsOrder(Head(q)) PROVE Orderless(Tail(q))
    BY <1>1, <1>2, <1>4 DEF OneOrder, Orderless
  <1>5. Cool(q) => Cool(Tail(q))
    BY <1>1 DEF Cool
  <1>6. CoolAfter(q) => CoolAfter(Tail(q))
    BY <1>1, <1>2 DEF CoolAfter
  <1>7. CoolAfter(q) /\ Head(q) = "SwitchOnSucceeded" => Cool(Tail(q))
    BY <1>1, <1>2 DEF CoolAfter, Cool
  <1>8. QED
    BY <1>3, <1>4, <1>5, <1>6, <1>7

LEMMA AppendKeepsQueue ==
    ASSUME NEW q \in Seq(HeaterEvents), NEW e \in HeaterEvents
    PROVE  /\ OneOrder(q) /\ ~IsOrder(e) => OneOrder(Append(q, e))
           /\ Orderless(q) => OneOrder(Append(q, e))
           /\ Cool(q) /\ e # "MaxTemperatureReached" => Cool(Append(q, e))
           /\ CoolAfter(q) /\ e # "MaxTemperatureReached" => CoolAfter(Append(q, e))
           /\ Orderless(q) /\ e = "SwitchOnSucceeded" => CoolAfter(Append(q, e))
  <1>1. \A i \in DOMAIN Append(q, e) :
           \/ i \in DOMAIN q /\ Append(q, e)[i] = q[i]
           \/ i = Len(q) + 1 /\ Append(q, e)[i] = e
    BY QueueAppend
  <1>2. OneOrder(q) /\ ~IsOrder(e) => OneOrder(Append(q, e))
    BY <1>1 DEF OneOrder
  <1>3. Orderless(q) => OneOrder(Append(q, e))
    BY <1>1 DEF Orderless, OneOrder
  <1>4. Cool(q) /\ e # "MaxTemperatureReached" => Cool(Append(q, e))
    BY <1>1 DEF Cool
  <1>5. CoolAfter(q) /\ e # "MaxTemperatureReached" => CoolAfter(Append(q, e))
    BY <1>1, QueueAppend DEF CoolAfter
  <1>6. Orderless(q) /\ e = "SwitchOnSucceeded" => CoolAfter(Append(q, e))
    BY <1>1, QueueAppend DEF Orderless, IsOrder, CoolAfter
  <1>7. QED
    BY <1>2, <1>3, <1>4, <1>5, <1>6

-----------------------------------------------------------------------------
(* The heater: its steps keep the invariant. *)

\* A step that reads the sensor finds a temperature; one that does not keeps it.
LEMMA SensorFinds ==
    ASSUME current \in Temperatures, ReadsTemperature \/ KeepsSensor
    PROVE  current' \in Temperatures
  BY ReadingsAreTemperatures DEF ReadsTemperature, KeepsSensor

LEMMA RelayIsKnown ==
    ASSUME relay \in BOOLEAN,
           KeepsRelay \/ \E on, ok \in BOOLEAN : Switches(on, ok)
    PROVE  relay' \in BOOLEAN
  BY DEF KeepsRelay, Switches

\* The worker takes an event and acts on the entry for it, if there is one.
LEMMA HeaterDispatchSplits ==
    ASSUME HeaterTypeInv, HeaterDispatch
    PROVE  LET q == Tail(heaterEvents) IN
           /\ result = "none" /\ heaterEvents # <<>>
           /\ UNCHANGED <<lastChecked, register, hasty, heaterOrders>>
           /\ \/ /\ heaterEvents' = q
                 /\ KeepsRelay /\ KeepsSensor
                 /\ UNCHANGED <<heater, result, timer, doRun, toldReached, wasHot>>
              \/ /\ heater = "Off" /\ Head(heaterEvents) = "SwitchOn"
                 /\ heater' = "Initialization" /\ HeaterSwitchOn(q)
              \/ /\ \/ heater = "Initialization" /\ Head(heaterEvents) = "SwitchOnSucceeded"
                    \/ heater = "HeatingOff"
                 /\ heater' = "HeatingOn" /\ HeaterStartHeating(q)
              \/ /\ heater = "HeatingOn" /\ Head(heaterEvents) = "MaxTemperatureReached"
                 /\ heater' = "HeatingOff" /\ HeaterStopHeating(q)
              \/ heater' = "Error" /\ HeaterHandleError(q)
              \/ heater' = "Off" /\ HeaterSwitchOff(q)
  <1> PICK q : q = Tail(heaterEvents)
    OBVIOUS
  <1> DEFINE entries == {t \in HeaterTable : t.state = heater /\ t.event = Head(heaterEvents)}
  <1>1. CASE /\ entries = {} /\ heaterEvents' = q /\ KeepsRelay /\ KeepsSensor
             /\ UNCHANGED <<heater, result, timer, doRun, toldReached, wasHot>>
    BY <1>1 DEF HeaterDispatch
  <1>2. ASSUME NEW t \in HeaterTable, t.state = heater, t.event = Head(heaterEvents),
               heater' = t.next,
               CASE t.action = "switchOn" -> HeaterSwitchOn(q)
                 [] t.action = "startHeating" -> HeaterStartHeating(q)
                 [] t.action = "stopHeating" -> HeaterStopHeating(q)
                 [] t.action = "handleError" -> HeaterHandleError(q)
                 [] t.action = "switchOff" -> HeaterSwitchOff(q)
                 [] OTHER ->
                       /\ heaterEvents' = q
                       /\ KeepsRelay /\ KeepsSensor
                       /\ UNCHANGED <<result, timer, doRun, toldReached, wasHot>>
        PROVE  \/ /\ heaterEvents' = q
                  /\ KeepsRelay /\ KeepsSensor
                  /\ UNCHANGED <<heater, result, timer, doRun, toldReached, wasHot>>
               \/ /\ heater = "Off" /\ Head(heaterEvents) = "SwitchOn"
                  /\ heater' = "Initialization" /\ HeaterSwitchOn(q)
               \/ /\ \/ heater = "Initialization" /\ Head(heaterEvents) = "SwitchOnSucceeded"
                     \/ heater = "HeatingOff"
                  /\ heater' = "HeatingOn" /\ HeaterStartHeating(q)
               \/ /\ heater = "HeatingOn" /\ Head(heaterEvents) = "MaxTemperatureReached"
                  /\ heater' = "HeatingOff" /\ HeaterStopHeating(q)
               \/ heater' = "Error" /\ HeaterHandleError(q)
               \/ heater' = "Off" /\ HeaterSwitchOff(q)
    <2>1. CASE t.action = "switchOn"
      BY <1>2, <2>1, HeaterEntry
    <2>2. CASE t.action = "startHeating"
      BY <1>2, <2>2, HeaterEntry
    <2>3. CASE t.action = "stopHeating"
      BY <1>2, <2>3, HeaterEntry
    <2>4. CASE t.action = "handleError"
      BY <1>2, <2>4, HeaterEntry
    <2>5. CASE t.action = "switchOff"
      BY <1>2, <2>5, HeaterEntry
    <2>6. CASE t.action = "none"
      BY <1>2, <2>6, HeaterEntry
    <2>7. QED
      BY <2>1, <2>2, <2>3, <2>4, <2>5, <2>6, HeaterEntry
  <1>3. /\ result = "none" /\ heaterEvents # <<>>
        /\ UNCHANGED <<lastChecked, register, hasty, heaterOrders>>
    BY DEF HeaterDispatch
  <1>4. QED
    BY <1>1, <1>2, <1>3 DEF HeaterDispatch

\* What the queue is after the worker took an event, and pushed one or none.
LEMMA DispatchKeepsTypes ==
    ASSUME HeaterTypeInv, HeaterDispatch
    PROVE  HeaterTypeInv'
  <1> PICK q : q = Tail(heaterEvents)
    OBVIOUS
  <1>1. q \in Seq(HeaterEvents)
    BY HeaterDispatchSplits, QueueTail DEF HeaterTypeInv
  <1>2. /\ Append(q, "SwitchOnSucceeded") \in Seq(HeaterEvents)
        /\ Append(q, "ErrorOccurred") \in Seq(HeaterEvents)
    BY <1>1, QueueAppend DEF HeaterEvents
  <1>3. UNCHANGED <<lastChecked, register, hasty, heaterOrders>>
    BY HeaterDispatchSplits
  <1>4. \/ /\ heaterEvents' = q
           /\ KeepsRelay /\ KeepsSensor
           /\ UNCHANGED <<heater, result, timer, doRun, toldReached, wasHot>>
        \/ heater' = "Initialization" /\ HeaterSwitchOn(q)
        \/ heater' = "HeatingOn" /\ HeaterStartHeating(q)
        \/ heater' = "HeatingOff" /\ HeaterStopHeating(q)
        \/ heater' = "Error" /\ HeaterHandleError(q)
        \/ heater' = "Off" /\ HeaterSwitchOff(q)
    BY HeaterDispatchSplits
  <1>5. current' \in Temperatures
    BY <1>4, SensorFinds
       DEF HeaterTypeInv, HeaterSwitchOn, HeaterStartHeating, HeaterStopHeating,
           HeaterHandleError, HeaterSwitchOff
  <1>6. relay' \in BOOLEAN
    BY <1>4, RelayIsKnown
       DEF HeaterTypeInv, HeaterSwitchOn, HeaterStartHeating, HeaterStopHeating,
           HeaterHandleError, HeaterSwitchOff
  <1>7. heaterEvents' \in Seq(HeaterEvents)
    BY <1>1, <1>2, <1>4
       DEF HeaterSwitchOn, HeaterStartHeating, HeaterStopHeating, HeaterHandleError,
           HeaterSwitchOff
  <1>8. /\ heater' \in HeaterStates
        /\ result' \in {"none", "join", "open", "SwitchOnSucceeded"}
        /\ timer' \in {"off", "waiting", "checking"}
        /\ doRun' \in BOOLEAN /\ toldReached' \in BOOLEAN /\ wasHot' \in BOOLEAN
    BY <1>4
       DEF HeaterTypeInv, HeaterStates, HeaterSwitchOn, HeaterStartHeating, HeaterStopHeating,
           HeaterHandleError, HeaterSwitchOff
  <1>9. QED
    BY <1>3, <1>5, <1>6, <1>7, <1>8 DEF HeaterTypeInv

LEMMA DispatchKeepsHeater ==
    ASSUME HeaterIInv, HeaterDispatch
    PROVE  HeaterIInv'
  <1> PICK q : q = Tail(heaterEvents)
    OBVIOUS
  <1> DEFINE Error == Append(q, "ErrorOccurred")
  <1>1. HeaterTypeInv /\ OffIsOff /\ ToldWhileHeating /\ ChecksWhatWasRead /\ HeaterTypeInv'
    BY DispatchKeepsTypes DEF HeaterIInv
  <1>2. /\ result = "none" /\ heaterEvents # <<>> /\ heaterEvents \in Seq(HeaterEvents)
        /\ q \in Seq(HeaterEvents) /\ hasty' = hasty
        /\ 1 \in DOMAIN heaterEvents /\ Head(heaterEvents) = heaterEvents[1]
    BY <1>1, HeaterDispatchSplits, QueueTail DEF HeaterTypeInv
  <1>3. /\ OneOrder(heaterEvents) => OneOrder(q) /\ OneOrder(Error)
        /\ Cool(heaterEvents) => Cool(q) /\ Cool(Error)
        /\ Cool(q) => Cool(Error)
        /\ CoolAfter(heaterEvents) => CoolAfter(q) /\ CoolAfter(Error)
    BY <1>2, TailKeepsQueue, AppendKeepsQueue DEF HeaterEvents, IsOrder
  <1>4. CASE /\ heaterEvents' = q
             /\ KeepsRelay /\ KeepsSensor
             /\ UNCHANGED <<heater, result, timer, doRun, toldReached, wasHot>>
    <2>1. OffIsOff' /\ ToldWhileHeating' /\ ChecksWhatWasRead'
      BY <1>1, <1>4 DEF OffIsOff, ToldWhileHeating, ChecksWhatWasRead, KeepsSensor
    <2>2. ~hasty => OneOrder(q) /\ HeedsNews' /\ ReachedWasHot'
      BY <1>2, <1>3, <1>4 DEF HeaterIInv, HeedsNews, ReachedWasHot
    <2>3. QED
      BY <1>1, <1>2, <1>4, <2>1, <2>2 DEF HeaterIInv
  <1>5. CASE /\ heater = "Off" /\ Head(heaterEvents) = "SwitchOn"
             /\ heater' = "Initialization" /\ HeaterSwitchOn(q)
    <2>1. /\ result' = "none" /\ timer' = "waiting" /\ toldReached' = FALSE
          /\ heaterEvents' = Append(q, "SwitchOnSucceeded")
      BY <1>1, <1>2, <1>5 DEF HeaterSwitchOn, ToldWhileHeating, HeaterTypeInv
    <2>2. OffIsOff' /\ ToldWhileHeating' /\ ChecksWhatWasRead' /\ ReachedWasHot'
      BY <1>5, <2>1 DEF OffIsOff, ToldWhileHeating, ChecksWhatWasRead, ReachedWasHot
    <2>3. ASSUME ~hasty PROVE OneOrder(heaterEvents)' /\ HeedsNews'
      <3>1. Orderless(q)
        BY <1>2, <1>5, <2>3, TailKeepsQueue DEF HeaterIInv, IsOrder
      <3>2. OneOrder(Append(q, "SwitchOnSucceeded")) /\ CoolAfter(Append(q, "SwitchOnSucceeded"))
        BY <1>2, <3>1, AppendKeepsQueue DEF HeaterEvents
      <3>3. QED
        BY <1>5, <2>1, <3>2 DEF HeedsNews
    <2>4. QED
      BY <1>1, <1>2, <2>2, <2>3 DEF HeaterIInv
  <1>6. CASE /\ \/ heater = "Initialization" /\ Head(heaterEvents) = "SwitchOnSucceeded"
                \/ heater = "HeatingOff"
             /\ heater' = "HeatingOn" /\ HeaterStartHeating(q)
    <2>1. /\ heaterEvents' \in {q, Error}
          /\ UNCHANGED <<result, timer, toldReached, wasHot, current>>
      BY <1>6 DEF HeaterStartHeating, KeepsSensor
    <2>2. OffIsOff' /\ ToldWhileHeating' /\ ChecksWhatWasRead'
      BY <1>1, <1>2, <1>6, <2>1 DEF OffIsOff, ToldWhileHeating, ChecksWhatWasRead
    <2>3. ASSUME ~hasty PROVE OneOrder(heaterEvents)' /\ HeedsNews' /\ ReachedWasHot'
      <3>1. wasHot \/ Cool(q)
        BY <1>2, <1>3, <1>6, <2>3, TailKeepsQueue DEF HeaterIInv, HeedsNews
      <3>2. HeedsNews'
        BY <1>3, <1>6, <2>1, <3>1 DEF HeedsNews
      <3>3. OneOrder(heaterEvents)' /\ ReachedWasHot'
        BY <1>2, <1>3, <2>1, <2>3 DEF HeaterIInv, ReachedWasHot
      <3>4. QED
        BY <3>2, <3>3
    <2>4. QED
      BY <1>1, <1>2, <2>2, <2>3 DEF HeaterIInv
  <1>7. CASE /\ heater = "HeatingOn" /\ Head(heaterEvents) = "MaxTemperatureReached"
             /\ heater' = "HeatingOff" /\ HeaterStopHeating(q)
    <2>1. /\ heaterEvents' \in {q, Error}
          /\ UNCHANGED <<result, timer, wasHot, current>>
      BY <1>7 DEF HeaterStopHeating, KeepsSensor
    <2>2. OffIsOff' /\ ToldWhileHeating' /\ ChecksWhatWasRead'
      BY <1>1, <1>2, <1>7, <2>1 DEF OffIsOff, ToldWhileHeating, ChecksWhatWasRead
    <2>3. ASSUME ~hasty PROVE OneOrder(heaterEvents)' /\ HeedsNews' /\ ReachedWasHot'
      <3>1. wasHot
        BY <1>2, <1>7, <2>3 DEF HeaterIInv, HeedsNews, Cool
      <3>2. OneOrder(heaterEvents)'
        BY <1>3, <2>1, <2>3 DEF HeaterIInv
      <3>3. QED
        BY <2>1, <3>1, <3>2 DEF HeedsNews, ReachedWasHot
    <2>4. QED
      BY <1>1, <1>2, <2>2, <2>3 DEF HeaterIInv
  <1>8. CASE heater' = "Error" /\ HeaterHandleError(q)
    <2>1. /\ heaterEvents' = q /\ toldReached' = FALSE
          /\ UNCHANGED <<result, timer, wasHot, current>>
      BY <1>8 DEF HeaterHandleError, KeepsSensor
    <2>2. OffIsOff' /\ ToldWhileHeating' /\ ChecksWhatWasRead' /\ HeedsNews' /\ ReachedWasHot'
      BY <1>1, <1>2, <1>8, <2>1
         DEF OffIsOff, ToldWhileHeating, ChecksWhatWasRead, HeedsNews, ReachedWasHot
    <2>3. ~hasty => OneOrder(heaterEvents)'
      BY <1>3, <2>1 DEF HeaterIInv
    <2>4. QED
      BY <1>1, <1>2, <2>2, <2>3 DEF HeaterIInv
  <1>9. CASE heater' = "Off" /\ HeaterSwitchOff(q)
    <2>1. /\ heaterEvents' = q /\ toldReached' = FALSE /\ result' = "join"
          /\ UNCHANGED <<timer, wasHot, current>>
      BY <1>9 DEF HeaterSwitchOff, KeepsSensor
    <2>2. OffIsOff' /\ ToldWhileHeating' /\ ChecksWhatWasRead' /\ HeedsNews' /\ ReachedWasHot'
      BY <1>1, <1>2, <1>9, <2>1
         DEF OffIsOff, ToldWhileHeating, ChecksWhatWasRead, HeedsNews, ReachedWasHot
    <2>3. ~hasty => OneOrder(heaterEvents)'
      BY <1>3, <2>1 DEF HeaterIInv
    <2>4. QED
      BY <1>1, <1>2, <2>2, <2>3 DEF HeaterIInv
  <1>10. QED
    BY <1>1, <1>4, <1>5, <1>6, <1>7, <1>8, <1>9, HeaterDispatchSplits

LEMMA OpensKeepsHeater ==
    ASSUME HeaterIInv, HeaterOpens
    PROVE  HeaterIInv'
  <1>1. /\ HeaterTypeInv /\ OffIsOff /\ ToldWhileHeating /\ ChecksWhatWasRead
        /\ heaterEvents \in Seq(HeaterEvents)
    BY DEF HeaterIInv, HeaterTypeInv
  <1>2. /\ heater = "Off" /\ timer = "off" /\ result' = "none"
        /\ heaterEvents' \in {heaterEvents, Append(heaterEvents, "ErrorOccurred")}
        /\ UNCHANGED <<heater, timer, doRun, current, lastChecked, register, toldReached,
                       wasHot, hasty, heaterOrders>>
    BY <1>1 DEF HeaterOpens, OffIsOff
  <1>3. /\ Append(heaterEvents, "ErrorOccurred") \in Seq(HeaterEvents)
        /\ OneOrder(heaterEvents) => OneOrder(Append(heaterEvents, "ErrorOccurred"))
    BY <1>1, QueueAppend, AppendKeepsQueue DEF HeaterEvents, IsOrder
  <1>4. HeaterTypeInv'
    <2>1. relay' \in BOOLEAN
      BY <1>1, RelayIsKnown DEF HeaterOpens, HeaterTypeInv
    <2>2. QED
      BY <1>1, <1>2, <1>3, <2>1 DEF HeaterTypeInv
  <1>5. OffIsOff' /\ ToldWhileHeating' /\ ChecksWhatWasRead'
    BY <1>1, <1>2 DEF OffIsOff, ToldWhileHeating, ChecksWhatWasRead
  <1>6. HeedsNews'
    BY <1>2 DEF HeedsNews
  <1>7. ~hasty => OneOrder(heaterEvents)' /\ ReachedWasHot'
    BY <1>2, <1>3 DEF HeaterIInv, ReachedWasHot
  <1>8. QED
    BY <1>2, <1>4, <1>5, <1>6, <1>7 DEF HeaterIInv

LEMMA TimerWakesKeepsHeater ==
    ASSUME HeaterIInv, TimerWakes
    PROVE  HeaterIInv'
  <1>1. HeaterTypeInv /\ OffIsOff /\ ToldWhileHeating
    BY DEF HeaterIInv
  <1>2. /\ timer = "waiting"
        /\ UNCHANGED <<heater, heaterEvents, result, relay, doRun, lastChecked, register,
                       toldReached, hasty, heaterOrders>>
        /\ \/ timer' = "checking" /\ ReadsTemperature /\ wasHot' = (wasHot \/ Hot(current'))
           \/ timer' = "off" /\ KeepsSensor /\ wasHot' = wasHot
    BY DEF TimerWakes
  <1>3. wasHot => wasHot'
    BY <1>2
  <1>4. HeaterTypeInv'
    <2>1. current' \in Temperatures
      BY <1>1, <1>2, SensorFinds DEF HeaterTypeInv
    <2>2. wasHot' \in BOOLEAN
      BY <1>1, <1>2 DEF HeaterTypeInv
    <2>3. QED
      BY <1>1, <1>2, <2>1, <2>2 DEF HeaterTypeInv
  <1>5. OffIsOff' /\ ToldWhileHeating'
    BY <1>1, <1>2 DEF OffIsOff, ToldWhileHeating
  <1>6. ChecksWhatWasRead'
    BY <1>2 DEF ChecksWhatWasRead, Hot
  <1>7. ~hasty => OneOrder(heaterEvents)' /\ HeedsNews' /\ ReachedWasHot'
    BY <1>2, <1>3 DEF HeaterIInv, HeedsNews, ReachedWasHot
  <1>8. QED
    BY <1>2, <1>4, <1>5, <1>6, <1>7 DEF HeaterIInv

LEMMA TimerChecksKeepsHeater ==
    ASSUME HeaterIInv, TimerChecks
    PROVE  HeaterIInv'
  <1>1. /\ HeaterTypeInv /\ OffIsOff /\ ToldWhileHeating /\ ChecksWhatWasRead
        /\ heaterEvents \in Seq(HeaterEvents)
    BY DEF HeaterIInv, HeaterTypeInv
  <1>2. /\ timer = "checking" /\ timer' = "waiting" /\ lastChecked' = current
        /\ UNCHANGED <<heater, result, relay, doRun, current, register, toldReached, wasHot,
                       hasty, heaterOrders>>
    BY DEF TimerChecks, heaterBudget
  <1>3. \/ heaterEvents' = heaterEvents
        \/ Hot(current) /\ heaterEvents' = Append(heaterEvents, "MaxTemperatureReached")
        \/ heaterEvents' = Append(heaterEvents, "MinTemperatureReached")
    BY DEF TimerChecks, LimitEvent
  <1>4. heaterEvents' \in Seq(HeaterEvents)
    BY <1>1, <1>3, QueueAppend DEF HeaterEvents
  <1>5. HeaterTypeInv' /\ OffIsOff' /\ ToldWhileHeating' /\ ChecksWhatWasRead'
    BY <1>1, <1>2, <1>4 DEF HeaterTypeInv, OffIsOff, ToldWhileHeating, ChecksWhatWasRead
  <1>6. ASSUME ~hasty PROVE OneOrder(heaterEvents)' /\ HeedsNews' /\ ReachedWasHot'
    <2>1. OneOrder(heaterEvents) /\ HeedsNews /\ ReachedWasHot
      BY <1>6 DEF HeaterIInv
    <2>2. OneOrder(heaterEvents)'
      BY <1>1, <1>3, <2>1, AppendKeepsQueue DEF HeaterEvents, IsOrder
    <2>3. CASE Hot(current)
      BY <1>1, <1>2, <2>2, <2>3 DEF ChecksWhatWasRead, HeedsNews, ReachedWasHot
    <2>4. CASE ~Hot(current)
      <3>1. /\ Cool(heaterEvents) => Cool(heaterEvents)'
            /\ CoolAfter(heaterEvents) => CoolAfter(heaterEvents)'
        BY <1>1, <1>3, <2>4, AppendKeepsQueue DEF HeaterEvents
      <3>2. QED
        BY <1>2, <2>1, <2>2, <3>1 DEF HeedsNews, ReachedWasHot
    <2>5. QED
      BY <2>3, <2>4
  <1>7. QED
    BY <1>2, <1>5, <1>6 DEF HeaterIInv

LEMMA HeaterOrderedKeepsHeater ==
    ASSUME HeaterIInv, HeaterOrdered
    PROVE  HeaterIInv'
  <1>1. /\ HeaterTypeInv /\ OffIsOff /\ ToldWhileHeating /\ ChecksWhatWasRead
        /\ heaterEvents \in Seq(HeaterEvents)
    BY DEF HeaterIInv, HeaterTypeInv
  <1>2. /\ heaterOrders # <<>> /\ heaterOrders' = Tail(heaterOrders)
        /\ heaterEvents' = Append(heaterEvents, Head(heaterOrders))
        /\ hasty' = (hasty \/ Ordering)
        /\ UNCHANGED <<heater, result, relay, timer, doRun, current, lastChecked, register,
                       toldReached, wasHot>>
    BY DEF HeaterOrdered
  <1>3. /\ Head(heaterOrders) \in {"SwitchOn", "SwitchOff"}
        /\ heaterOrders' \in Seq({"SwitchOn", "SwitchOff"})
    BY <1>1, <1>2 DEF HeaterTypeInv
  <1>4. Head(heaterOrders) \in HeaterEvents /\ Head(heaterOrders) # "MaxTemperatureReached"
    BY <1>3 DEF HeaterEvents
  <1>5. hasty' \in BOOLEAN
    <2>1. Ordering \in BOOLEAN
      BY DEF Ordering
    <2>2. QED
      BY <1>1, <1>2, <2>1 DEF HeaterTypeInv
  <1>6. HeaterTypeInv'
    BY <1>1, <1>2, <1>3, <1>4, <1>5, QueueAppend DEF HeaterTypeInv
  <1>7. OffIsOff' /\ ToldWhileHeating' /\ ChecksWhatWasRead'
    BY <1>1, <1>2 DEF OffIsOff, ToldWhileHeating, ChecksWhatWasRead
  <1>8. ASSUME ~hasty' PROVE OneOrder(heaterEvents)' /\ HeedsNews' /\ ReachedWasHot'
    <2>1. ~hasty /\ ~Ordering
      BY <1>2, <1>8
    <2>2. Orderless(heaterEvents) /\ heater # "Initialization"
      BY <2>1 DEF Ordering, Orderless, IsOrder
    <2>3. OneOrder(heaterEvents)'
      BY <1>1, <1>2, <1>4, <2>2, AppendKeepsQueue
    <2>4. Cool(heaterEvents) => Cool(heaterEvents)'
      BY <1>1, <1>2, <1>4, AppendKeepsQueue
    <2>5. QED
      BY <1>2, <2>1, <2>2, <2>3, <2>4 DEF HeaterIInv, HeedsNews, ReachedWasHot
  <1>9. QED
    BY <1>6, <1>7, <1>8 DEF HeaterIInv

\* Another temperature, and no step at all.
LEMMA RegisterKeepsHeater ==
    ASSUME HeaterIInv, register' \in Readings,
           UNCHANGED <<heater, heaterEvents, result, relay, timer, doRun, current, lastChecked,
                       toldReached, wasHot, hasty, heaterOrders>>
    PROVE  HeaterIInv'
  BY DEF HeaterIInv, HeaterTypeInv, OffIsOff, ToldWhileHeating, ChecksWhatWasRead, HeedsNews,
         ReachedWasHot

LEMMA HeaterInitHolds == HeaterInit => HeaterIInv
  <1> SUFFICES ASSUME HeaterInit PROVE HeaterIInv
    OBVIOUS
  <1>1. HeaterTypeInv
    <2>1. current \in Temperatures /\ lastChecked \in Temperatures
      BY DEF HeaterInit, Temperatures
    <2>2. heaterOrders \in Seq({"SwitchOn", "SwitchOff"})
      <3>1. heaterOrders \in HeaterOrders
        BY DEF HeaterInit
      <3>2. QED
        BY <3>1, HeaterOrdersAssumption
    <2>3. heaterEvents \in Seq(HeaterEvents)
      BY DEF HeaterInit
    <2>4. heater \in HeaterStates
      BY DEF HeaterInit, HeaterStates
    <2>5. QED
      BY <2>1, <2>2, <2>3, <2>4 DEF HeaterInit, HeaterTypeInv
  <1>2. OneOrder(heaterEvents) /\ HeedsNews /\ ReachedWasHot
    BY DEF HeaterInit, OneOrder, HeedsNews, ReachedWasHot
  <1>3. QED
    BY <1>1, <1>2 DEF HeaterInit, HeaterIInv, OffIsOff, ToldWhileHeating, ChecksWhatWasRead

\* For any orders, any temperatures and any failures: the heater tells of no heat that it
\* did not read since it was switched on, unless an order came before the one before it
\* was done (FilamentMergerHeater.cpp:66-126, HeaterService.cpp:41-92).
THEOREM NoOldHeatIsTold == HeaterSpec => []HeaterInvariant
  <1>1. ASSUME HeaterIInv, [HeaterNext]_heaterVars PROVE HeaterIInv'
    <2>1. CASE HeaterWorkerStep
      BY <1>1, <2>1, DispatchKeepsHeater, OpensKeepsHeater DEF HeaterWorkerStep
    <2>2. CASE TimerStep
      BY <1>1, <2>2, TimerWakesKeepsHeater, TimerChecksKeepsHeater DEF TimerStep
    <2>3. CASE Measures
      BY <1>1, <2>3, RegisterKeepsHeater DEF Measures
    <2>4. CASE HeaterOrdered
      BY <1>1, <2>4, HeaterOrderedKeepsHeater
    <2>5. CASE UNCHANGED heaterVars
      BY <1>1, <2>5, RegisterKeepsHeater DEF heaterVars, HeaterIInv, HeaterTypeInv
    <2>6. QED
      BY <1>1, <2>1, <2>2, <2>3, <2>4, <2>5 DEF HeaterNext
  <1>2. HeaterIInv => HeaterInvariant
    <2> SUFFICES ASSUME HeaterIInv PROVE HeaterInvariant
      OBVIOUS
    <2>1. HeaterTypeOK
      BY HeaterEventsAre DEF HeaterIInv, HeaterTypeInv, HeaterTypeOK
    <2>2. ReachedWasHot
      BY DEF HeaterIInv, ReachedWasHot
    <2>3. QED
      BY <2>1, <2>2 DEF HeaterInvariant
  <1>3. QED
    BY HeaterInitHolds, <1>1, <1>2, PTL DEF HeaterSpec

-----------------------------------------------------------------------------
(* The bus: the inductive invariant. *)

Chip == [selected : BOOLEAN, next : 0 .. Addressed, writes : BOOLEAN]

SpiTypeInv ==
    /\ stage \in [Chips -> {"new", "written", "ready", "failed"}]
    /\ spiAt \in [Chips -> {"idle", "selecting", "filling", "half", "transferring",
                            "deselecting", "failing"}]
    /\ sent \in [Chips -> Nat]
    /\ received \in [Chips -> Seq(Item)]
    /\ rbuf \in [Chips -> Item]
    /\ transfer \in [tx : Chips \cup {Nobody}, rx : Chips \cup {Nobody}]
    /\ chips \in [Chips -> Chip]
    /\ configured \subseteq Chips
    /\ reading \in [Chips -> [bytes : Seq(Item), disturbed : BOOLEAN]]
    /\ readings \in 0 .. MaxReadings
    /\ spiFaults \in 0 .. MaxSpiFaults
    /\ disturbed \subseteq Chips /\ doubtful \subseteq Chips /\ stuck \subseteq Chips

InMessage(c) == spiAt[c] \in {"filling", "half", "transferring"}
Selected(c) == chips[c].selected

\* How far the thread of a chip is in its message, and what points to it.
InStep ==
    \A c \in Chips :
        /\ spiAt[c] \in {"idle", "selecting", "failing"} => sent[c] = 0
        /\ InMessage(c) => sent[c] < Len(Message(c))
        /\ spiAt[c] = "deselecting" => sent[c] = Len(Message(c))
        /\ Len(received[c]) = IF sent[c] = 0 THEN 0 ELSE sent[c] - 1
        /\ transfer.tx = c => spiAt[c] \in {"half", "transferring"}
        /\ transfer.rx = c => spiAt[c] = "transferring"
        /\ Selected(c) => c \in stuck \/ InMessage(c) \/ spiAt[c] = "deselecting"
        /\ ~Selected(c) => chips[c] = Deselected

Undisturbed(c) == spiAt[c] # "idle" /\ c \notin disturbed

\* A message is undisturbed as long as its thread has the bus for itself.
Alone ==
    \A c \in Chips : Undisturbed(c) =>
        /\ \A d \in Chips : spiAt[d] # "idle" => d = c
        /\ stuck = {}
        /\ spiAt[c] # "failing"
        /\ spiAt[c] = "half" => transfer.tx = c
        /\ spiAt[c] = "transferring" => transfer.tx = c /\ transfer.rx = c

\* The first register of the message, and the one after n bytes of it.
First(c) == IF stage[c] = "written" THEN Config ELSE RtdMsb
Register(c, n) == (First(c) + n - 1) % (FaultStatus + 1)

\* Then what has been read is the registers of its chip, one after the other.
ReadsInOrder ==
    \A c \in Chips : Undisturbed(c) /\ stage[c] \in {"written", "ready"} =>
        /\ sent[c] = 0 /\ InMessage(c) => chips[c] = JustSelected
        /\ sent[c] > 0 => chips[c] = [selected |-> TRUE, next |-> Register(c, sent[c]),
                                      writes |-> FALSE]
        /\ \A i \in DOMAIN received[c] :
              received[c][i] = [chip |-> c, register |-> Register(c, i)]

\* What may have changed the configuration of a chip makes it doubtful.
Doubts ==
    \A c \in Chips :
        /\ spiAt[c] # "idle" /\ stage[c] # "new" /\ c \in disturbed => c \in doubtful
        /\ c \in stuck => stage[c] = "failed" \/ c \in doubtful
        /\ stage[c] = "ready" => c \in configured \cup doubtful

SpiIInv == SpiTypeInv /\ InStep /\ Alone /\ ReadsInOrder /\ Doubts /\ ReadsItsOwnChip
-----------------------------------------------------------------------------
(* The messages on the bus. *)

LEMMA NobodyIsNoChip == Nobody \notin Chips
  BY SpiAssumption DEF Chips, Nobody

\* A message that reads sends the register and then a zero for each answer.
LEMMA ReadsForm ==
    ASSUME NEW first \in Nat, NEW size \in Nat
    PROVE  /\ Reads(first, size) \in Seq(Nat)
           /\ Len(Reads(first, size)) = size + 1
           /\ Reads(first, size)[1] = first
           /\ \A i \in 2 .. size + 1 : Reads(first, size)[i] = 0
  <1> DEFINE zeros == [i \in 1 .. size |-> 0]
  <1>1. zeros \in Seq(Nat) /\ Len(zeros) = size
    OBVIOUS
  <1>2. <<first>> \in Seq(Nat) /\ Len(<<first>>) = 1 /\ <<first>>[1] = first
    OBVIOUS
  <1>3. \A i \in 1 .. size : zeros[i] = 0
    OBVIOUS
  <1>4. Reads(first, size) = <<first>> \o zeros
    BY DEF Reads
  <1> HIDE DEF zeros
  <1>5. QED
    BY <1>1, <1>2, <1>3, <1>4

LEMMA MessageForm ==
    ASSUME NEW c
    PROVE  /\ Message(c) \in Seq(Nat)
           /\ Len(Message(c)) \in {2, 3, 9}
           /\ stage[c] = "written" => /\ Len(Message(c)) = 9 /\ Message(c)[1] = 0
                                      /\ \A i \in 2 .. 9 : Message(c)[i] = 0
           /\ stage[c] = "ready" => /\ Len(Message(c)) = 3 /\ Message(c)[1] = 1
                                    /\ \A i \in 2 .. 3 : Message(c)[i] = 0
  <1>1. CASE stage[c] = "new"
    <2>1. Message(c) = <<128, 192>>
      BY <1>1 DEF Message, Config, WriteMask, AutoConversion
    <2>2. QED
      BY <1>1, <2>1
  <1>2. CASE stage[c] = "written"
    <2>1. Message(c) = Reads(0, 8)
      BY <1>2 DEF Message, Config, FaultStatus
    <2> DEFINE message == Reads(0, 8)
    <2>2. 0 \in Nat /\ 8 \in Nat /\ 8 + 1 = 9
      OBVIOUS
    <2>3. /\ message \in Seq(Nat) /\ Len(message) = 8 + 1 /\ message[1] = 0
          /\ \A i \in 2 .. 8 + 1 : message[i] = 0
      BY <2>2, ReadsForm, Zenon
    <2> HIDE DEF message
    <2>4. Message(c) = message
      BY <2>1 DEF message
    <2>5. QED
      BY <1>2, <2>2, <2>3, <2>4
  <1>3. CASE stage[c] \notin {"new", "written"}
    <2>1. Message(c) = Reads(1, 2)
      BY <1>3 DEF Message, RtdMsb
    <2> DEFINE message == Reads(1, 2)
    <2>2. 1 \in Nat /\ 2 \in Nat /\ 2 + 1 = 3
      OBVIOUS
    <2>3. /\ message \in Seq(Nat) /\ Len(message) = 2 + 1 /\ message[1] = 1
          /\ \A i \in 2 .. 2 + 1 : message[i] = 0
      BY <2>2, ReadsForm, Zenon
    <2> HIDE DEF message
    <2>4. Message(c) = message
      BY <2>1 DEF message
    <2>5. QED
      BY <1>3, <2>2, <2>3, <2>4
  <1>4. QED
    BY <1>1, <1>2, <1>3

LEMMA BytesAreBytes ==
    ASSUME SpiTypeInv, InStep, NEW byte \in Bytes
    PROVE  byte \in Nat
  <1>1. CASE transfer.tx = Nobody
    BY <1>1 DEF Bytes, RtdMsb, Config, WriteMask, AutoConversion
  <1>2. CASE transfer.tx # Nobody
    <2> DEFINE t == transfer.tx
    <2>1. t \in Chips
      BY <1>2 DEF SpiTypeInv
    <2>2. sent[t] \in Nat /\ sent[t] < Len(Message(t))
      BY <2>1 DEF SpiTypeInv, InStep, InMessage
    <2>3. sent[t] + 1 \in 1 .. Len(Message(t))
      BY <2>2, MessageForm
    <2>4. Message(t)[sent[t] + 1] \in Nat
      BY <2>3, MessageForm
    <2>5. byte = Message(t)[sent[t] + 1]
      BY <1>2 DEF Bytes
    <2>6. QED
      BY <2>4, <2>5
  <1>3. QED
    BY <1>1, <1>2

LEMMA ChipAfterIsChip ==
    ASSUME NEW chip \in Chip, NEW byte \in Nat
    PROVE  /\ ChipAfter(chip, byte) \in Chip
           /\ ChipAfter(chip, byte).selected = chip.selected
           /\ ~chip.selected => ChipAfter(chip, byte) = chip
  <1>1. byte % 8 \in 0 .. 8 /\ (chip.next + 1) % 8 \in 0 .. 8
    BY DEF Chip, Addressed, FaultStatus
  <1>2. chip.next \in Nat /\ chip.selected \in BOOLEAN /\ chip.writes \in BOOLEAN
    BY DEF Chip, Addressed, FaultStatus
  <1>3. CASE ~chip.selected
    <2>1. ChipAfter(chip, byte) = chip
      BY <1>3 DEF ChipAfter
    <2>2. QED
      BY <2>1
  <1>4. CASE chip.selected /\ chip.next = Addressed
    <2>1. ChipAfter(chip, byte) = [chip EXCEPT !.next = byte % (FaultStatus + 1),
                                               !.writes = byte >= WriteMask]
      BY <1>4 DEF ChipAfter
    <2>2. (byte >= WriteMask) \in BOOLEAN /\ byte % (FaultStatus + 1) \in 0 .. Addressed
      BY <1>1 DEF Addressed, FaultStatus
    <2>3. QED
      BY <1>4, <2>1, <2>2 DEF Chip
  <1>5. CASE chip.selected /\ chip.next # Addressed
    <2>1. ChipAfter(chip, byte) = [chip EXCEPT !.next = (@ + 1) % (FaultStatus + 1)]
      BY <1>5 DEF ChipAfter
    <2>2. (chip.next + 1) % (FaultStatus + 1) \in 0 .. Addressed
      BY <1>1 DEF Addressed, FaultStatus
    <2>3. QED
      BY <1>5, <2>1, <2>2 DEF Chip
  <1>6. QED
    BY <1>3, <1>4, <1>5

LEMMA AnswerIsItem ==
    ASSUME SpiTypeInv
    PROVE  Answer \in Item
  <1> DEFINE answering == {c \in Chips : chips[c].selected}
             answers(c) == chips[c].next # Addressed /\ ~chips[c].writes
             one == CHOOSE d \in answering : TRUE
  <1>1. CASE \E c \in answering : answering = {c} /\ answers(c)
    <2>1. PICK c \in answering : answering = {c} /\ answers(c)
      BY <1>1
    <2>2. one = c
      BY <2>1
    <2>3. Answer = [chip |-> one, register |-> chips[one].next]
      BY <1>1 DEF Answer
    <2>4. c \in Chips /\ chips[c].next \in 0 .. FaultStatus
      BY <2>1 DEF SpiTypeInv, Chip, Addressed, FaultStatus
    <2>5. QED
      BY <2>2, <2>3, <2>4 DEF Item
  <1>2. CASE ~ \E c \in answering : answering = {c} /\ answers(c)
    BY <1>2 DEF Answer, Item
  <1>3. QED
    BY <1>1, <1>2

\* The only chip that is selected answers with its next register.
LEMMA OneAnswers ==
    ASSUME NEW c \in Chips, chips[c].selected, \A d \in Chips : chips[d].selected => d = c,
           chips[c].next # Addressed, ~chips[c].writes
    PROVE  Answer = [chip |-> c, register |-> chips[c].next]
  <1> DEFINE answering == {d \in Chips : chips[d].selected}
             answers(d) == chips[d].next # Addressed /\ ~chips[d].writes
             one == CHOOSE d \in answering : TRUE
  <1>1. answering = {c}
    OBVIOUS
  <1>2. one = c
    BY <1>1
  <1>3. Answer = [chip |-> one, register |-> chips[one].next]
    BY <1>1 DEF Answer
  <1>4. QED
    BY <1>2, <1>3

\* Who works while a message is undisturbed is the thread of that message.
LEMMA OnlyOneActs ==
    ASSUME Alone, NEW c \in Chips, NEW d \in Chips, spiAt[c] # "idle", Undisturbed(d)
    PROVE  d = c
  BY DEF Alone

LEMMA JustSelectedForm ==
    /\ JustSelected = [selected |-> TRUE, next |-> 8, writes |-> FALSE]
    /\ JustSelected \in Chip
    /\ JustSelected.selected
  <1>1. Addressed = 8
    BY DEF Addressed, FaultStatus
  <1>2. JustSelected = [selected |-> TRUE, next |-> 8, writes |-> FALSE]
    BY <1>1 DEF JustSelected
  <1>3. 8 \in 0 .. Addressed
    BY <1>1
  <1>4. QED
    BY <1>2, <1>3 DEF Chip

LEMMA BeginsKeepsSpi ==
    ASSUME SpiIInv, NEW c \in Chips, Begins(c)
    PROVE  SpiIInv'
  <1> USE DEF SpiIInv
  <1>1. /\ spiAt[c] = "idle" /\ MayBegin(c)
        /\ spiAt' = [spiAt EXCEPT ![c] = "selecting"]
        /\ doubtful' = doubtful \cup {d \in disturbed' : stage[d] # "new"}
        /\ readings' = IF stage[c] = "ready" THEN readings + 1 ELSE readings
        /\ UNCHANGED <<stage, sent, received, rbuf, transfer, chips, configured, reading,
                       spiFaults, stuck>>
    BY DEF Begins
  <1>2. /\ disturbed' \subseteq Chips
        /\ \A d \in Chips : d \in disturbed /\ d # c => d \in disturbed'
        /\ \A d \in Chips : d \notin disturbed' =>
              /\ d # c => spiAt[d] = "idle"
              /\ d = c => Busy = {} /\ stuck = {}
    <2>1. Busy \subseteq Chips /\ disturbed \subseteq Chips
      BY DEF Busy, SpiTypeInv
    <2>2. CASE Busy # {}
      <3>1. disturbed' = disturbed \cup Busy \cup {c}
        BY <2>2 DEF Begins
      <3>2. QED
        BY <2>1, <3>1 DEF Busy
    <2>3. CASE Busy = {} /\ stuck # {}
      <3>1. disturbed' = disturbed \cup {c}
        BY <2>3 DEF Begins
      <3>2. QED
        BY <2>1, <2>3, <3>1 DEF Busy
    <2>4. CASE Busy = {} /\ stuck = {}
      <3>1. disturbed' = disturbed \ {c}
        BY <2>4 DEF Begins
      <3>2. QED
        BY <2>1, <2>4, <3>1 DEF Busy
    <2>5. QED
      BY <2>2, <2>3, <2>4
  <1>3. \A d \in Chips : d # c => spiAt'[d] = spiAt[d]
    BY <1>1 DEF SpiTypeInv
  <1>4. spiAt'[c] = "selecting"
    BY <1>1 DEF SpiTypeInv
  <1>5. ASSUME NEW d \in Chips, Undisturbed(d)'
        PROVE  d = c /\ stuck = {} /\ \A e \in Chips : e # c => spiAt[e] = "idle"
    <2>1. spiAt'[d] # "idle" /\ d \notin disturbed'
      BY <1>5 DEF Undisturbed
    <2>2. d = c
      BY <1>2, <1>3, <2>1
    <2>3. QED
      BY <1>2, <2>1, <2>2 DEF Busy
  <1>6. SpiTypeInv'
    <2>1. readings' \in 0 .. MaxReadings
      <3>1. stage[c] = "ready" => readings < MaxReadings
        BY <1>1 DEF MayBegin
      <3>2. QED
        BY <1>1, <3>1, SpiAssumption DEF SpiTypeInv
    <2>2. doubtful' \subseteq Chips
      BY <1>1, <1>2 DEF SpiTypeInv
    <2>3. QED
      BY <1>1, <1>2, <2>1, <2>2 DEF SpiTypeInv
  <1>7. InStep'
    <2>1. \A d \in Chips : Message(d)' = Message(d)
      BY <1>1 DEF Message
    <2>2. transfer.tx # c /\ transfer.rx # c /\ sent[c] = 0 /\ (Selected(c) => c \in stuck)
      BY <1>1 DEF InStep, InMessage
    <2>3. QED
      BY <1>1, <1>3, <1>4, <2>1, <2>2 DEF InStep, InMessage, Selected
  <1>8. Alone'
    BY <1>1, <1>3, <1>4, <1>5 DEF Alone
  <1>9. ReadsInOrder'
    <2> SUFFICES ASSUME NEW d \in Chips, Undisturbed(d)'
                 PROVE  /\ ~InMessage(d)' /\ sent'[d] = 0
                        /\ DOMAIN received'[d] = {}
      BY SMT DEF ReadsInOrder, SpiTypeInv
    <2>1. d = c
      BY <1>5
    <2>2. sent[c] = 0 /\ Len(received[c]) = 0 /\ received[c] \in Seq(Item)
      BY <1>1 DEF InStep, SpiTypeInv
    <2>3. DOMAIN received[c] = {}
      BY <2>2
    <2>4. QED
      BY <1>1, <1>4, <2>1, <2>2, <2>3 DEF InMessage
  <1>10. Doubts'
    BY <1>1, <1>2, <1>3, <1>4 DEF Doubts, SpiTypeInv
  <1>11. ReadsItsOwnChip'
    BY <1>1, Zenon DEF ReadsItsOwnChip
  <1>12. QED
    BY <1>6, <1>7, <1>8, <1>9, <1>10, <1>11

LEMMA CallFailsDisturbs ==
    ASSUME SpiTypeInv, NEW c \in Chips, CallFails(c)
    PROVE  /\ spiFaults' \in 0 .. MaxSpiFaults
           /\ disturbed' = disturbed \cup {c} /\ disturbed' \subseteq Chips
           /\ doubtful \subseteq doubtful' /\ doubtful' \subseteq Chips
           /\ stage[c] # "new" => c \in doubtful'
  BY SpiAssumption DEF CallFails, SpiTypeInv

LEMMA SelectsKeepsSpi ==
    ASSUME SpiIInv, NEW c \in Chips, Selects(c)
    PROVE  SpiIInv'
  <1> USE DEF SpiIInv
  <1>1. /\ spiAt[c] = "selecting"
        /\ UNCHANGED <<stage, sent, received, rbuf, transfer, configured, reading, readings,
                       stuck>>
        /\ transfer.tx # c /\ transfer.rx # c
    BY DEF Selects, InStep
  <1>2. \A d \in Chips : Message(d)' = Message(d)
    BY <1>1 DEF Message
  <1>3. ReadsItsOwnChip'
    BY <1>1, Zenon DEF ReadsItsOwnChip
  <1>4. CASE /\ CallWorks
             /\ spiAt' = [spiAt EXCEPT ![c] = "filling"]
             /\ chips' = IF chips[c].selected THEN chips ELSE [chips EXCEPT ![c] = JustSelected]
    <2>1. spiAt'[c] = "filling" /\ \A d \in Chips : d # c => spiAt'[d] = spiAt[d]
      BY <1>4 DEF SpiTypeInv
    <2>2. UNCHANGED <<spiFaults, disturbed, doubtful>>
      BY <1>4 DEF CallWorks
    <2>3. JustSelected \in Chip /\ JustSelected.selected
      BY JustSelectedForm
    <2>4. /\ chips' \in [Chips -> Chip]
          /\ \A d \in Chips : d # c => chips'[d] = chips[d]
          /\ Selected(c) => chips'[c] = chips[c]
          /\ ~Selected(c) => chips'[c] = JustSelected
      BY <1>4, <2>3 DEF SpiTypeInv, Selected
    <2>5. chips'[c].selected
      BY <2>3, <2>4 DEF Selected
    <2>6. \A d \in Chips : Undisturbed(d)' => d = c /\ Undisturbed(c)
      BY <1>1, <2>1, <2>2, OnlyOneActs DEF Undisturbed
    <2>7. SpiTypeInv'
      BY <1>1, <1>4, <2>2, <2>4 DEF SpiTypeInv
    <2>8. InStep'
      <3>1. sent[c] = 0
        BY <1>1 DEF InStep
      <3>2. Len(Message(c)) \in {2, 3, 9}
        BY MessageForm
      <3>3. 0 < Len(Message(c))
        <4>1. \A n \in {2, 3, 9} : 0 < n
          OBVIOUS
        <4>2. QED
          BY <3>2, <4>1
      <3>4. QED
        BY <1>1, <1>2, <2>1, <2>4, <2>5, <3>1, <3>3 DEF InStep, InMessage, Selected
    <2>9. Alone'
      BY <1>1, <2>1, <2>6 DEF Alone
    <2>10. ReadsInOrder'
      <3> SUFFICES ASSUME NEW d \in Chips, Undisturbed(d)'
                   PROVE  /\ sent'[d] = 0 /\ chips'[d] = JustSelected
                          /\ DOMAIN received'[d] = {}
        BY SMT DEF ReadsInOrder, SpiTypeInv
      <3>1. d = c /\ Undisturbed(c)
        BY <2>6
      <3>2. stuck = {}
        BY <3>1 DEF Alone
      <3>3. ~Selected(c)
        BY <1>1, <3>2 DEF InStep, InMessage
      <3>4. sent[c] = 0 /\ Len(received[c]) = 0 /\ received[c] \in Seq(Item)
        BY <1>1 DEF InStep, SpiTypeInv
      <3>5. DOMAIN received[c] = {}
        BY <3>4
      <3>6. QED
        BY <1>1, <2>4, <3>1, <3>3, <3>4, <3>5
    <2>11. Doubts'
      BY <1>1, <2>1, <2>2 DEF Doubts
    <2>12. QED
      BY <1>3, <2>7, <2>8, <2>9, <2>10, <2>11
  <1>5. CASE /\ CallFails(c)
             /\ spiAt' = [spiAt EXCEPT ![c] = "failing"]
             /\ UNCHANGED chips
    <2>1. spiAt'[c] = "failing" /\ \A d \in Chips : d # c => spiAt'[d] = spiAt[d]
      BY <1>5 DEF SpiTypeInv
    <2>2. \A d \in Chips : ~Undisturbed(d)'
      BY <1>1, <1>5, <2>1, CallFailsDisturbs, OnlyOneActs DEF Undisturbed
    <2>3. SpiTypeInv'
      BY <1>1, <1>5, CallFailsDisturbs DEF SpiTypeInv
    <2>4. InStep'
      BY <1>1, <1>2, <1>5, <2>1 DEF InStep, InMessage, Selected
    <2>5. Alone' /\ ReadsInOrder'
      BY <2>2 DEF Alone, ReadsInOrder
    <2>6. Doubts'
      BY <1>1, <1>5, <2>1, CallFailsDisturbs DEF Doubts
    <2>7. QED
      BY <1>3, <2>3, <2>4, <2>5, <2>6
  <1>6. QED
    BY <1>4, <1>5 DEF Selects

LEMMA FillsKeepsSpi ==
    ASSUME SpiIInv, NEW c \in Chips, Fills(c)
    PROVE  SpiIInv'
  <1> USE DEF SpiIInv
  <1>1. /\ spiAt[c] \in {"filling", "half"}
        /\ UNCHANGED <<stage, sent, received, rbuf, chips, configured, reading, readings,
                       spiFaults, disturbed, doubtful, stuck>>
    BY DEF Fills
  <1>2. /\ spiAt'[c] = IF spiAt[c] = "filling" THEN "half" ELSE "transferring"
        /\ \A d \in Chips : d # c => spiAt'[d] = spiAt[d]
        /\ spiAt' \in [Chips -> {"idle", "selecting", "filling", "half", "transferring",
                                 "deselecting", "failing"}]
    BY DEF Fills, SpiTypeInv
  <1>3. /\ transfer' \in [tx : Chips \cup {Nobody}, rx : Chips \cup {Nobody}]
        /\ transfer'.tx = IF spiAt[c] = "filling" THEN c ELSE transfer.tx
        /\ transfer'.rx = IF spiAt[c] = "filling" THEN transfer.rx ELSE c
    <2>1. CASE spiAt[c] = "filling"
      <3>1. transfer' = [transfer EXCEPT !.tx = c]
        BY <2>1 DEF Fills
      <3>2. QED
        BY <2>1, <3>1 DEF SpiTypeInv
    <2>2. CASE spiAt[c] = "half"
      <3>1. transfer' = [transfer EXCEPT !.rx = c]
        BY <2>2 DEF Fills
      <3>2. QED
        BY <2>2, <3>1 DEF SpiTypeInv
    <2>3. QED
      BY <1>1, <2>1, <2>2
  <1>4. \A d \in Chips : Message(d)' = Message(d)
    BY <1>1 DEF Message
  <1>5. \A d \in Chips : Undisturbed(d)' => d = c /\ Undisturbed(c)
    BY <1>1, <1>2, OnlyOneActs DEF Undisturbed
  <1>6. SpiTypeInv'
    BY <1>1, <1>2, <1>3 DEF SpiTypeInv
  <1>7. InStep'
    BY <1>1, <1>2, <1>3, <1>4 DEF InStep, InMessage, Selected
  <1>8. Alone'
    BY <1>1, <1>2, <1>3, <1>5 DEF Alone
  <1>9. ReadsInOrder'
    BY <1>1, <1>2, <1>5 DEF ReadsInOrder, InMessage, Register, First
  <1>10. Doubts'
    BY <1>1, <1>2 DEF Doubts
  <1>11. ReadsItsOwnChip'
    BY <1>1, Zenon DEF ReadsItsOwnChip
  <1>12. QED
    BY <1>6, <1>7, <1>8, <1>9, <1>10, <1>11

\* The registers follow one another, and after the last comes the first.
LEMMA NextRegister ==
    ASSUME NEW f \in {0, 1}, NEW n \in Nat, n > 0
    PROVE  /\ (f + n - 1) % 8 \in 0 .. 7
           /\ (((f + n - 1) % 8) + 1) % 8 = (f + (n + 1) - 1) % 8
  OBVIOUS

LEMMA FirstRegister ==
    ASSUME NEW f \in {0, 1}
    PROVE  f % 8 = f /\ (f + 1 - 1) % 8 = f /\ ~(f >= 128)
  OBVIOUS

\* A chip that was just selected takes its byte for an address, then it counts.
LEMMA ChipTakesAddress ==
    ASSUME NEW f \in {0, 1}
    PROVE  ChipAfter(JustSelected, f) = [selected |-> TRUE, next |-> f, writes |-> FALSE]
  <1>1. Addressed = 8 /\ FaultStatus + 1 = 8 /\ WriteMask = 128
    BY DEF Addressed, FaultStatus, WriteMask
  <1>2. JustSelected.selected /\ JustSelected.next = Addressed
    BY <1>1, JustSelectedForm
  <1>3. ChipAfter(JustSelected, f) =
            [JustSelected EXCEPT !.next = f % (FaultStatus + 1), !.writes = f >= WriteMask]
    BY <1>2 DEF ChipAfter
  <1>4. f % (FaultStatus + 1) = f /\ (f >= WriteMask) = FALSE
    BY <1>1, FirstRegister
  <1>5. ChipAfter(JustSelected, f) = [JustSelected EXCEPT !.next = f, !.writes = FALSE]
    BY <1>3, <1>4
  <1>6. QED
    BY <1>5, JustSelectedForm

LEMMA ChipCounts ==
    ASSUME NEW n \in 0 .. 7
    PROVE  ChipAfter([selected |-> TRUE, next |-> n, writes |-> FALSE], 0) =
               [selected |-> TRUE, next |-> (n + 1) % 8, writes |-> FALSE]
  <1> DEFINE chip == [selected |-> TRUE, next |-> n, writes |-> FALSE]
  <1>1. Addressed = 8 /\ FaultStatus + 1 = 8
    BY DEF Addressed, FaultStatus
  <1>2. chip.selected /\ chip.next = n /\ n # Addressed
    BY <1>1
  <1>3. ChipAfter(chip, 0) = [chip EXCEPT !.next = (chip.next + 1) % (FaultStatus + 1)]
    BY <1>2 DEF ChipAfter
  <1>4. (chip.next + 1) % (FaultStatus + 1) = (n + 1) % 8
    BY <1>1, <1>2
  <1>5. QED
    BY <1>3, <1>4

\* What sending a byte does to the thread that sends it, worked or not.
LEMMA SendsByteAdvances ==
    ASSUME SpiIInv, NEW c \in Chips, SendsByte(c)
    PROVE  /\ spiAt[c] = "transferring"
           /\ UNCHANGED <<stage, reading, readings, stuck>>
           /\ sent' \in [Chips -> Nat]
           /\ sent'[c] = sent[c] + 1 /\ sent[c] + 1 <= Len(Message(c))
           /\ \A d \in Chips : d # c => sent'[d] = sent[d]
           /\ spiAt' \in [Chips -> {"idle", "selecting", "filling", "half", "transferring",
                                    "deselecting", "failing"}]
           /\ spiAt'[c] = IF sent[c] + 1 = Len(Message(c)) THEN "deselecting" ELSE "filling"
           /\ \A d \in Chips : d # c => spiAt'[d] = spiAt[d]
           /\ transfer' \in [tx : Chips \cup {Nobody}, rx : Chips \cup {Nobody}]
           /\ \A d \in Chips : transfer'.tx = d => transfer.tx = d /\ d # c
           /\ \A d \in Chips : transfer'.rx = d => transfer.rx = d /\ d # c
  <1> USE DEF SpiIInv
  <1>1. spiAt[c] = "transferring" /\ UNCHANGED <<stage, reading, readings, stuck>>
    BY DEF SendsByte
  <1>2. Len(Message(c)) \in {2, 3, 9}
    BY MessageForm
  <1>3. sent[c] \in Nat /\ sent[c] < Len(Message(c))
    BY <1>1 DEF SpiTypeInv, InStep, InMessage
  <1>4. /\ sent' \in [Chips -> Nat] /\ sent'[c] = sent[c] + 1
        /\ \A d \in Chips : d # c => sent'[d] = sent[d]
    BY DEF SendsByte, SpiTypeInv
  <1>5. spiAt' = [spiAt EXCEPT ![c] =
                    IF sent'[c] = Len(Message(c)) THEN "deselecting" ELSE "filling"]
    BY DEF SendsByte
  <1>6. transfer' = [tx |-> IF transfer.tx = c THEN Nobody ELSE transfer.tx,
                     rx |-> IF transfer.rx = c THEN Nobody ELSE transfer.rx]
    BY DEF SendsByte
  <1>7. transfer.tx \in Chips \cup {Nobody} /\ transfer.rx \in Chips \cup {Nobody}
    BY DEF SpiTypeInv
  <1>8. spiAt \in [Chips -> {"idle", "selecting", "filling", "half", "transferring",
                             "deselecting", "failing"}]
    BY DEF SpiTypeInv
  <1>9. sent[c] + 1 <= Len(Message(c))
    BY <1>2, <1>3
  <1>10. /\ transfer' \in [tx : Chips \cup {Nobody}, rx : Chips \cup {Nobody}]
         /\ \A d \in Chips : transfer'.tx = d => transfer.tx = d /\ d # c
         /\ \A d \in Chips : transfer'.rx = d => transfer.rx = d /\ d # c
    BY <1>6, <1>7, NobodyIsNoChip
  <1>11. /\ spiAt'[c] = IF sent[c] + 1 = Len(Message(c)) THEN "deselecting" ELSE "filling"
         /\ \A d \in Chips : d # c => spiAt'[d] = spiAt[d]
         /\ spiAt' \in [Chips -> {"idle", "selecting", "filling", "half", "transferring",
                                  "deselecting", "failing"}]
    BY <1>4, <1>5, <1>8
  <1>12. QED
    BY <1>1, <1>4, <1>9, <1>10, <1>11

\* What it does to the chips and what is received.
LEMMA SendsByteReceives ==
    ASSUME SpiIInv, NEW c \in Chips, SendsByte(c)
    PROVE  /\ received' \in [Chips -> Seq(Item)]
           /\ rbuf' \in [Chips -> Item]
           /\ Len(received'[c]) = sent[c]
           /\ \A d \in Chips : d # c => received'[d] = received[d]
           /\ chips' \in [Chips -> Chip]
           /\ \A d \in Chips : chips'[d].selected = chips[d].selected
           /\ \A d \in Chips : ~chips[d].selected => chips'[d] = chips[d]
           /\ configured' \subseteq Chips
           /\ spiFaults' \in 0 .. MaxSpiFaults
           /\ disturbed \subseteq disturbed' /\ disturbed' \subseteq Chips
           /\ doubtful \subseteq doubtful' /\ doubtful' \subseteq Chips
  <1> USE DEF SpiIInv
  <1> DEFINE got(worked) == IF worked /\ transfer.rx # Nobody
                            THEN [rbuf EXCEPT ![transfer.rx] = Answer] ELSE rbuf
  <1>1. PICK worked \in BOOLEAN :
            /\ IF worked THEN CallWorks /\ Moves ELSE CallFails(c) /\ UNCHANGED <<chips, configured>>
            /\ received' = IF sent[c] = 0 THEN received
                           ELSE [received EXCEPT ![c] = Append(@, got(worked)[c])]
            /\ rbuf' = [got(worked) EXCEPT ![c] = Noise]
    BY DEF SendsByte
  <1>2. got(worked) \in [Chips -> Item]
    <2>1. Answer \in Item
      BY AnswerIsItem
    <2>2. rbuf \in [Chips -> Item] /\ transfer.rx \in Chips \cup {Nobody}
      BY DEF SpiTypeInv
    <2>3. QED
      BY <2>1, <2>2
  <1> HIDE DEF got
  <1>3. rbuf' \in [Chips -> Item]
    <2>1. Noise \in Item
      BY DEF Item
    <2>2. QED
      BY <1>1, <1>2, <2>1
  <1>4. /\ received' \in [Chips -> Seq(Item)] /\ Len(received'[c]) = sent[c]
        /\ \A d \in Chips : d # c => received'[d] = received[d]
    <2>1. /\ received \in [Chips -> Seq(Item)] /\ sent[c] \in Nat
          /\ Len(received[c]) = IF sent[c] = 0 THEN 0 ELSE sent[c] - 1
      BY DEF SpiTypeInv, InStep
    <2>2. got(worked)[c] \in Item
      BY <1>2
    <2>3. CASE sent[c] = 0
      BY <1>1, <2>1, <2>3
    <2>4. CASE sent[c] # 0
      <3> DEFINE longer == Append(received[c], got(worked)[c])
      <3>1. longer \in Seq(Item) /\ Len(longer) = sent[c]
        BY <2>1, <2>2, <2>4
      <3>2. received' = [received EXCEPT ![c] = longer]
        BY <1>1, <2>4
      <3> HIDE DEF longer
      <3>3. QED
        BY <2>1, <3>1, <3>2
    <2>5. QED
      BY <2>3, <2>4
  <1>5. CASE worked
    <2>1. UNCHANGED <<spiFaults, disturbed, doubtful>>
      BY <1>1, <1>5 DEF CallWorks
    <2>2. PICK byte \in Bytes :
              /\ chips' = [d \in Chips |-> ChipAfter(chips[d], byte)]
              /\ configured' = IF byte = AutoConversion THEN configured \cup Written
                               ELSE configured \ Written
      BY <1>1, <1>5 DEF Moves
    <2>3. byte \in Nat
      BY BytesAreBytes
    <2>4. chips \in [Chips -> Chip]
      BY DEF SpiTypeInv
    <2>5. /\ chips' \in [Chips -> Chip]
          /\ \A d \in Chips : chips'[d].selected = chips[d].selected
          /\ \A d \in Chips : ~chips[d].selected => chips'[d] = chips[d]
      BY <2>2, <2>3, <2>4, ChipAfterIsChip
    <2>6. configured' \subseteq Chips
      <3>1. Written \subseteq Chips /\ configured \subseteq Chips
        BY DEF Written, SpiTypeInv
      <3>2. QED
        BY <2>2, <3>1
    <2>7. QED
      BY <1>3, <1>4, <2>1, <2>5, <2>6 DEF SpiTypeInv
  <1>6. CASE ~worked
    BY <1>1, <1>3, <1>4, <1>6, CallFailsDisturbs DEF SpiTypeInv
  <1>7. QED
    BY <1>5, <1>6

LEMMA AppendIsLast ==
    ASSUME NEW S, NEW s \in Seq(S), NEW e \in S, NEW n \in Nat, Len(s) = n - 1
    PROVE  /\ DOMAIN s = 1 .. n - 1 /\ DOMAIN Append(s, e) = 1 .. n
           /\ Append(s, e)[n] = e
  <1>1. DOMAIN s = 1 .. n - 1
    OBVIOUS
  <1>2. Append(s, e) \in Seq(S) /\ Len(Append(s, e)) = n /\ Append(s, e)[Len(s) + 1] = e
    OBVIOUS
  <1>3. DOMAIN Append(s, e) = 1 .. Len(Append(s, e)) /\ Len(s) + 1 = n
    BY <1>2
  <1>4. QED
    BY <1>1, <1>2, <1>3

\* An undisturbed reading gets the next register of its own chip.
LEMMA SendsByteInOrder ==
    ASSUME SpiIInv, NEW c \in Chips, SendsByte(c), Undisturbed(c)',
           stage[c] \in {"written", "ready"}
    PROVE  /\ chips'[c] = [selected |-> TRUE, next |-> Register(c, sent[c] + 1), writes |-> FALSE]
           /\ \A i \in DOMAIN received'[c] :
                 received'[c][i] = [chip |-> c, register |-> Register(c, i)]
  <1> USE DEF SpiIInv
  <1> DEFINE got == [rbuf EXCEPT ![transfer.rx] = Answer]
  <1>1. spiAt[c] = "transferring"
    BY DEF SendsByte
  <1>2. Undisturbed(c)
    BY <1>1, SendsByteReceives DEF Undisturbed
  <1>3. /\ CallWorks /\ Moves
        /\ received' = IF sent[c] = 0 THEN received
                       ELSE [received EXCEPT ![c] = Append(@, got[c])]
    <2>1. PICK worked \in BOOLEAN :
              /\ IF worked THEN CallWorks /\ Moves ELSE CallFails(c) /\ UNCHANGED <<chips, configured>>
              /\ received' = IF sent[c] = 0 THEN received
                             ELSE [received EXCEPT ![c] = Append(@,
                                      (IF worked /\ transfer.rx # Nobody
                                       THEN [rbuf EXCEPT ![transfer.rx] = Answer] ELSE rbuf)[c])]
      BY DEF SendsByte
    <2>2. worked
      BY <2>1, CallFailsDisturbs DEF Undisturbed
    <2>3. transfer.rx # Nobody
      BY <1>1, <1>2, NobodyIsNoChip DEF Alone
    <2>4. QED
      BY <2>1, <2>2, <2>3
  <1>4. transfer.tx = c /\ transfer.rx = c
    BY <1>1, <1>2 DEF Alone
  <1>5. got[c] = Answer
    BY <1>4 DEF SpiTypeInv
  <1>6. Bytes = {Message(c)[sent[c] + 1]}
    BY <1>4, NobodyIsNoChip DEF Bytes
  <1>7. chips'[c] = ChipAfter(chips[c], Message(c)[sent[c] + 1])
    BY <1>3, <1>6 DEF Moves
  <1>8. First(c) \in {0, 1} /\ Message(c)[1] = First(c)
    BY MessageForm DEF First, Config, RtdMsb
  <1>9. /\ sent[c] \in Nat /\ sent[c] < Len(Message(c))
        /\ received[c] \in Seq(Item) /\ Len(received[c]) = IF sent[c] = 0 THEN 0 ELSE sent[c] - 1
    BY <1>1 DEF SpiTypeInv, InStep, InMessage
  <1>10. \A i \in DOMAIN received[c] : received[c][i] = [chip |-> c, register |-> Register(c, i)]
    BY <1>2 DEF ReadsInOrder
  <1>11. CASE sent[c] = 0
    <2>1. chips[c] = JustSelected
      BY <1>1, <1>2, <1>11 DEF ReadsInOrder, InMessage
    <2>2. chips'[c] = [selected |-> TRUE, next |-> First(c), writes |-> FALSE]
      <3>1. sent[c] + 1 = 1
        BY <1>11
      <3>2. chips'[c] = ChipAfter(JustSelected, First(c))
        BY <1>7, <1>8, <2>1, <3>1
      <3>3. QED
        BY <1>8, <3>2, ChipTakesAddress
    <2>3. Register(c, 1) = First(c)
      BY <1>8, FirstRegister DEF Register, FaultStatus
    <2>4. received' = received
      BY <1>3, <1>11
    <2>5. Register(c, sent[c] + 1) = First(c)
      <3>1. sent[c] + 1 = 1
        BY <1>11
      <3>2. QED
        BY <2>3, <3>1
    <2>6. QED
      BY <1>10, <2>2, <2>4, <2>5
  <1>12. CASE sent[c] > 0
    <2> DEFINE n == Register(c, sent[c])
    <2>1. /\ n \in 0 .. 7 /\ (n + 1) % 8 = Register(c, sent[c] + 1)
      <3>1. \A k : Register(c, k) = (First(c) + k - 1) % 8
        BY DEF Register, FaultStatus
      <3>2. /\ (First(c) + sent[c] - 1) % 8 \in 0 .. 7
            /\ (((First(c) + sent[c] - 1) % 8) + 1) % 8 = (First(c) + (sent[c] + 1) - 1) % 8
        BY <1>8, <1>9, <1>12, NextRegister
      <3>3. QED
        BY <3>1, <3>2
    <2> HIDE DEF n
    <2>2. chips[c] = [selected |-> TRUE, next |-> n, writes |-> FALSE]
      BY <1>2, <1>12 DEF ReadsInOrder, n
    <2>3. Message(c)[sent[c] + 1] = 0
      <3>1. sent[c] + 1 \in 2 .. Len(Message(c))
        <4>1. Len(Message(c)) \in {2, 3, 9}
          BY MessageForm
        <4>2. QED
          BY <1>9, <1>12, <4>1
      <3>2. QED
        BY <3>1, MessageForm
    <2>4. chips'[c] = [selected |-> TRUE, next |-> (n + 1) % 8, writes |-> FALSE]
      BY <1>7, <2>1, <2>2, <2>3, ChipCounts
    <2>5. Answer = [chip |-> c, register |-> n]
      <3>1. /\ chips[c].selected /\ chips[c].next = n /\ ~chips[c].writes
            /\ n # Addressed
        BY <2>1, <2>2 DEF Addressed, FaultStatus
      <3>2. \A d \in Chips : chips[d].selected => d = c
        BY <1>2 DEF Alone, InStep, InMessage, Selected
      <3>3. QED
        BY <3>1, <3>2, OneAnswers
    <2>6. received'[c] = Append(received[c], Answer)
      BY <1>3, <1>5, <1>12 DEF SpiTypeInv
    <2>7. \A i \in DOMAIN received'[c] :
             received'[c][i] = [chip |-> c, register |-> Register(c, i)]
      <3>1. Len(received[c]) = sent[c] - 1
        BY <1>9, <1>12
      <3> SUFFICES ASSUME NEW i \in DOMAIN received'[c]
                   PROVE  received'[c][i] = [chip |-> c, register |-> Register(c, i)]
        OBVIOUS
      <3>2. CASE i \in DOMAIN received[c]
        <4>1. received'[c][i] = received[c][i]
          BY <1>9, <2>6, <3>2
        <4>2. QED
          BY <1>10, <3>2, <4>1
      <3>3. CASE i \notin DOMAIN received[c]
        <4>1. Answer \in Item
          BY AnswerIsItem
        <4>2. /\ DOMAIN received[c] = 1 .. sent[c] - 1 /\ DOMAIN received'[c] = 1 .. sent[c]
              /\ received'[c][sent[c]] = Answer
          BY <1>9, <1>12, <2>6, <3>1, <4>1, AppendIsLast
        <4>3. i = sent[c]
          BY <1>9, <3>3, <4>2
        <4>4. QED
          BY <2>5, <4>2, <4>3 DEF n
      <3>4. QED
        BY <3>2, <3>3
    <2>8. QED
      BY <2>1, <2>4, <2>7
  <1>13. QED
    BY <1>9, <1>11, <1>12

\* A sensor that is ready and not doubtful is only read: nothing is written to it.
LEMMA OnlyDoubtfulIsWritten ==
    ASSUME SpiIInv, NEW c \in Chips, stage[c] = "ready", c \notin doubtful
    PROVE  c \notin Written
  <1> USE DEF SpiIInv
  <1> SUFFICES ASSUME chips[c].selected, chips[c].writes
               PROVE  FALSE
    BY DEF Written
  <1>1. c \notin stuck
    BY DEF Doubts
  <1>2. InMessage(c) \/ spiAt[c] = "deselecting"
    BY <1>1 DEF InStep, Selected
  <1>3. Undisturbed(c)
    BY <1>2 DEF Doubts, Undisturbed, InMessage
  <1>4. sent[c] \in Nat /\ (spiAt[c] = "deselecting" => sent[c] = Len(Message(c)))
    BY DEF SpiTypeInv, InStep
  <1>5. Len(Message(c)) = 3
    BY MessageForm
  <1>6. CASE sent[c] = 0
    <2>1. InMessage(c)
      BY <1>2, <1>4, <1>5, <1>6
    <2>2. chips[c] = JustSelected
      BY <1>3, <1>6, <2>1 DEF ReadsInOrder
    <2>3. QED
      BY <2>2, JustSelectedForm
  <1>7. CASE sent[c] > 0
    <2>1. chips[c] = [selected |-> TRUE, next |-> Register(c, sent[c]), writes |-> FALSE]
      BY <1>3, <1>7 DEF ReadsInOrder
    <2>2. QED
      BY <2>1
  <1>8. QED
    BY <1>4, <1>6, <1>7

LEMMA SendsByteKeepsSpi ==
    ASSUME SpiIInv, NEW c \in Chips, SendsByte(c)
    PROVE  SpiIInv'
  <1> USE DEF SpiIInv
  <1>1. UNCHANGED <<stage, reading, readings, stuck>> /\ spiAt[c] = "transferring"
    BY SendsByteAdvances
  <1>2. \A d \in Chips : Message(d)' = Message(d)
    BY <1>1 DEF Message
  <1>3. \A d \in Chips : Undisturbed(d)' => d = c /\ Undisturbed(c)
    <2>1. disturbed \subseteq disturbed'
      BY SendsByteReceives
    <2>2. \A d \in Chips : d # c => spiAt'[d] = spiAt[d]
      BY SendsByteAdvances
    <2>3. QED
      BY <1>1, <2>1, <2>2, OnlyOneActs DEF Undisturbed
  <1>4. /\ \A d \in Chips : d # c => spiAt'[d] = spiAt[d]
        /\ spiAt'[c] = IF sent[c] + 1 = Len(Message(c)) THEN "deselecting" ELSE "filling"
    BY SendsByteAdvances
  <1>5. sent[c] \in Nat /\ sent'[c] = sent[c] + 1 /\ \A d \in Chips : d # c => sent'[d] = sent[d]
    BY SendsByteAdvances DEF SpiTypeInv
  <1>6. SpiTypeInv'
    BY <1>1, SendsByteAdvances, SendsByteReceives DEF SpiTypeInv
  <1>7. InStep'
    <2> SUFFICES ASSUME NEW d \in Chips
                 PROVE  /\ spiAt'[d] \in {"idle", "selecting", "failing"} => sent'[d] = 0
                        /\ InMessage(d)' => sent'[d] < Len(Message(d))
                        /\ spiAt'[d] = "deselecting" => sent'[d] = Len(Message(d))
                        /\ Len(received'[d]) = IF sent'[d] = 0 THEN 0 ELSE sent'[d] - 1
                        /\ transfer'.tx = d => spiAt'[d] \in {"half", "transferring"}
                        /\ transfer'.rx = d => spiAt'[d] = "transferring"
                        /\ Selected(d)' => \/ d \in stuck'
                                           \/ InMessage(d)' \/ spiAt'[d] = "deselecting"
                        /\ ~Selected(d)' => chips'[d] = Deselected
      BY <1>2, Zenon DEF InStep, Deselected, Addressed, FaultStatus
    <2>1. CASE d = c
      <3>1. transfer'.tx # d /\ transfer'.rx # d
        BY <2>1, SendsByteAdvances
      <3>2. Len(received'[d]) = IF sent'[d] = 0 THEN 0 ELSE sent'[d] - 1
        BY <1>5, <2>1, SendsByteReceives
      <3>3. InMessage(d)' => sent'[d] < Len(Message(d))
        <4>1. Len(Message(c)) \in {2, 3, 9} /\ sent[c] + 1 <= Len(Message(c))
          BY MessageForm, SendsByteAdvances
        <4>2. QED
          BY <1>4, <1>5, <2>1, <4>1 DEF InMessage
      <3>4. ~Selected(d)' => chips'[d] = Deselected
        BY SendsByteReceives DEF InStep, Selected
      <3>5. QED
        BY <1>4, <1>5, <2>1, <3>1, <3>2, <3>3, <3>4 DEF InMessage
    <2>2. CASE d # c
      <3>1. spiAt'[d] = spiAt[d] /\ sent'[d] = sent[d] /\ received'[d] = received[d]
        BY <2>2, SendsByteAdvances, SendsByteReceives
      <3>2. /\ transfer'.tx = d => transfer.tx = d
            /\ transfer'.rx = d => transfer.rx = d
        BY SendsByteAdvances
      <3>3. Selected(d)' = Selected(d) /\ (~Selected(d) => chips'[d] = chips[d])
        BY SendsByteReceives DEF Selected
      <3>4. QED
        BY <1>1, <3>1, <3>2, <3>3 DEF InStep, InMessage
    <2>3. QED
      BY <2>1, <2>2
  <1>8. Alone'
    BY <1>1, <1>3, <1>4 DEF Alone
  <1>9. ReadsInOrder'
    <2> SUFFICES ASSUME NEW d \in Chips, Undisturbed(d)', stage'[d] \in {"written", "ready"}
                 PROVE  /\ sent'[d] > 0
                        /\ chips'[d] = [selected |-> TRUE, next |-> Register(d, sent[d])',
                                        writes |-> FALSE]
                        /\ \A i \in DOMAIN received'[d] :
                              received'[d][i] = [chip |-> d, register |-> Register(d, i)']
      BY SMT DEF ReadsInOrder
    <2>1. d = c /\ stage[c] \in {"written", "ready"}
      BY <1>1, <1>3
    <2>2. \A n \in Nat : Register(d, n)' = Register(c, n)
      BY <1>1, <2>1 DEF Register, First
    <2>3. Register(d, sent[d])' = Register(c, sent[c] + 1)
      BY <1>1, <1>5, <2>1 DEF Register, First
    <2>4. received'[c] \in Seq(Item)
      BY SendsByteReceives
    <2>5. /\ chips'[c] = [selected |-> TRUE, next |-> Register(c, sent[c] + 1), writes |-> FALSE]
          /\ \A i \in DOMAIN received'[c] :
                received'[c][i] = [chip |-> c, register |-> Register(c, i)]
      BY <2>1, SendsByteInOrder
    <2>6. \A i \in DOMAIN received'[c] : i \in Nat
      BY <2>4
    <2>7. sent'[d] > 0
      BY <1>5, <2>1
    <2>8. QED
      BY <2>1, <2>2, <2>3, <2>5, <2>6, <2>7
  <1>10. Doubts'
    <2> SUFFICES ASSUME NEW d \in Chips
                 PROVE  /\ spiAt'[d] # "idle" /\ stage'[d] # "new" /\ d \in disturbed' =>
                              d \in doubtful'
                        /\ d \in stuck' => stage'[d] = "failed" \/ d \in doubtful'
                        /\ stage'[d] = "ready" => d \in configured' \cup doubtful'
      BY DEF Doubts
    <2>1. d \in stuck' => stage'[d] = "failed" \/ d \in doubtful'
      BY <1>1, SendsByteReceives DEF Doubts
    <2>2. spiAt'[d] # "idle" => spiAt[d] # "idle"
      BY <1>1, <1>4
    <2>3. PICK worked \in BOOLEAN :
              IF worked THEN CallWorks /\ Moves ELSE CallFails(c) /\ UNCHANGED <<chips, configured>>
      BY DEF SendsByte
    <2>4. CASE worked
      <3>1. disturbed' = disturbed /\ doubtful' = doubtful
        BY <2>3, <2>4 DEF CallWorks
      <3>2. ASSUME stage'[d] = "ready"
            PROVE  d \in configured' \cup doubtful'
        <4>1. stage[d] = "ready"
          BY <1>1, <3>2
        <4>2. d \in configured \cup doubtful
          BY <4>1 DEF Doubts
        <4>3. d \notin doubtful => d \notin Written
          BY <4>1, OnlyDoubtfulIsWritten
        <4>4. configured' = configured \cup Written \/ configured' = configured \ Written
          BY <2>3, <2>4 DEF Moves
        <4>5. QED
          BY <3>1, <4>2, <4>3, <4>4
      <3>3. QED
        BY <1>1, <2>1, <2>2, <3>1, <3>2 DEF Doubts
    <2>5. CASE ~worked
      BY <1>1, <2>1, <2>2, <2>3, <2>5, CallFailsDisturbs DEF Doubts
    <2>6. QED
      BY <2>4, <2>5
  <1>11. ReadsItsOwnChip'
    BY <1>1, Zenon DEF ReadsItsOwnChip
  <1>12. QED
    BY <1>6, <1>7, <1>8, <1>9, <1>10, <1>11

Latest(c) == [bytes |-> received[c], disturbed |-> c \in disturbed']

LEMMA LatestForm ==
    ASSUME NEW c, received[c] \in Seq(Item)
    PROVE  /\ Latest(c) \in [bytes : Seq(Item), disturbed : BOOLEAN]
           /\ Latest(c).bytes = received[c]
           /\ c \in disturbed' => Latest(c).disturbed
  <1> DEFINE b == (c \in disturbed')
             l == [bytes |-> received[c], disturbed |-> b]
  <1>1. b \in BOOLEAN
    OBVIOUS
  <1>2. Latest(c) = l
    BY Zenon DEF Latest
  <1>3. c \in disturbed' => b = TRUE
    OBVIOUS
  <1> HIDE DEF b
  <1>4. l \in [bytes : Seq(Item), disturbed : BOOLEAN] /\ l.bytes = received[c] /\ l.disturbed = b
    BY <1>1
  <1> HIDE DEF l
  <1>5. QED
    BY <1>2, <1>3, <1>4

\* What the end of a message does to the thread and its sensor.
LEMMA ConcludesForm ==
    ASSUME SpiIInv, NEW c \in Chips, NEW worked \in BOOLEAN, Concludes(c, worked)
    PROVE  /\ stage' \in [Chips -> {"new", "written", "ready", "failed"}]
           /\ reading' \in [Chips -> [bytes : Seq(Item), disturbed : BOOLEAN]]
           /\ \A d \in Chips : d # c => stage'[d] = stage[d] /\ reading'[d] = reading[d]
           /\ \/ reading'[c] = reading[c]
              \/ /\ stage[c] = "ready"
                 /\ reading'[c] = Latest(c)
           /\ stage'[c] = "ready" /\ stage[c] # "ready" =>
                 worked /\ stage[c] = "written" /\ TRUE \in Verified(c)
           /\ ~worked => stage'[c] = "failed" \/ stage[c] = "ready"
           /\ stage[c] = "failed" => stage'[c] = "failed"
  <1> USE DEF SpiIInv
  <1>1. /\ stage \in [Chips -> {"new", "written", "ready", "failed"}]
        /\ reading \in [Chips -> [bytes : Seq(Item), disturbed : BOOLEAN]]
        /\ received[c] \in Seq(Item)
    BY DEF SpiTypeInv
  <1>2. CASE stage[c] = "new" /\ worked
    <2>1. stage' = [stage EXCEPT ![c] = "written"] /\ reading' = reading
      BY <1>2 DEF Concludes
    <2>2. QED
      BY <1>1, <1>2, <2>1
  <1>3. CASE stage[c] = "written" /\ worked
    <2>1. PICK verified \in Verified(c) :
              IF verified
              THEN stage' = [stage EXCEPT ![c] = "ready"] /\ UNCHANGED reading
              ELSE Fails(c)
      BY <1>3 DEF Concludes
    <2>2. Verified(c) \subseteq BOOLEAN
      BY DEF Verified
    <2>3. CASE verified
      <3>1. stage' = [stage EXCEPT ![c] = "ready"] /\ reading' = reading
        BY <2>1, <2>3
      <3>2. TRUE \in Verified(c)
        BY <2>1, <2>2, <2>3
      <3>3. QED
        BY <1>1, <1>3, <3>1, <3>2
    <2>4. CASE ~verified
      <3>1. stage' = [stage EXCEPT ![c] = "failed"] /\ reading' = reading
        BY <2>1, <2>4 DEF Fails
      <3>2. QED
        BY <1>1, <1>3, <3>1
    <2>5. QED
      BY <2>3, <2>4
  <1>4. CASE stage[c] = "ready"
    <2>1. stage' = stage /\ reading' = [reading EXCEPT ![c] = Latest(c)]
      BY <1>4 DEF Concludes, Latest
    <2>2. Latest(c) \in [bytes : Seq(Item), disturbed : BOOLEAN]
      BY <1>1, LatestForm
    <2>3. /\ reading' \in [Chips -> [bytes : Seq(Item), disturbed : BOOLEAN]]
          /\ \A d \in Chips : d # c => reading'[d] = reading[d]
          /\ reading'[c] = Latest(c)
      <3> DEFINE l == Latest(c)
      <3>1. reading' = [reading EXCEPT ![c] = l] /\ l \in [bytes : Seq(Item), disturbed : BOOLEAN]
        BY <2>1, <2>2
      <3> HIDE DEF l
      <3>2. /\ reading' \in [Chips -> [bytes : Seq(Item), disturbed : BOOLEAN]]
            /\ \A d \in Chips : d # c => reading'[d] = reading[d]
            /\ reading'[c] = l
        BY <1>1, <3>1
      <3>3. QED
        BY <3>2 DEF l
    <2>4. /\ stage' \in [Chips -> {"new", "written", "ready", "failed"}]
          /\ \A d \in Chips : d # c => stage'[d] = stage[d]
          /\ stage'[c] = "ready"
      BY <1>1, <1>4, <2>1
    <2>5. QED
      BY <1>4, <2>3, <2>4
  <1>5. CASE stage[c] # "ready" /\ (worked => stage[c] \notin {"new", "written"})
    <2>1. Fails(c)
      BY <1>5 DEF Concludes
    <2>2. stage' = [stage EXCEPT ![c] = "failed"] /\ reading' = reading
      BY <2>1 DEF Fails
    <2>3. QED
      BY <1>1, <1>5, <2>2
  <1>6. QED
    BY <1>2, <1>3, <1>4, <1>5

LEMMA EndsForm ==
    ASSUME SpiIInv, NEW c \in Chips, Ends(c)
    PROVE  /\ spiAt' \in [Chips -> {"idle", "selecting", "filling", "half", "transferring",
                                    "deselecting", "failing"}]
           /\ sent' \in [Chips -> Nat] /\ received' \in [Chips -> Seq(Item)]
           /\ spiAt'[c] = "idle" /\ sent'[c] = 0 /\ Len(received'[c]) = 0
           /\ \A d \in Chips : d # c => /\ spiAt'[d] = spiAt[d] /\ sent'[d] = sent[d]
                                        /\ received'[d] = received[d]
  <1>1. <<>> \in Seq(Item) /\ Len(<<>>) = 0
    OBVIOUS
  <1>2. QED
    BY <1>1 DEF Ends, SpiIInv, SpiTypeInv

\* An undisturbed message of a sensor that has been set up ends with its registers, and
\* one that has just verified its configuration with the one it has.
LEMMA UndisturbedEnd ==
    ASSUME SpiIInv, NEW c \in Chips, spiAt[c] = "deselecting", Undisturbed(c)
    PROVE  /\ stage[c] = "ready" =>
                 received[c] = << [chip |-> c, register |-> RtdMsb],
                                  [chip |-> c, register |-> RtdMsb + 1] >>
           /\ stage[c] = "written" /\ TRUE \in Verified(c) => c \in configured
  <1> USE DEF SpiIInv
  <1>1. /\ sent[c] = Len(Message(c)) /\ received[c] \in Seq(Item)
        /\ Len(received[c]) = IF sent[c] = 0 THEN 0 ELSE sent[c] - 1
    BY DEF InStep, SpiTypeInv
  <1>2. CASE stage[c] = "ready"
    <2>1. Len(received[c]) = 2
      <3>1. Len(Message(c)) = 3
        BY <1>2, MessageForm
      <3>2. QED
        BY <1>1, <3>1
    <2>2. \A i \in 1 .. 2 : received[c][i] = [chip |-> c, register |-> Register(c, i)]
      <3>1. \A i \in DOMAIN received[c] :
               received[c][i] = [chip |-> c, register |-> Register(c, i)]
        BY <1>2 DEF ReadsInOrder
      <3>2. DOMAIN received[c] = 1 .. 2
        BY <1>1, <2>1
      <3>3. QED
        BY <3>1, <3>2, Zenon
    <2>3. Register(c, 1) = RtdMsb /\ Register(c, 2) = RtdMsb + 1
      BY <1>2 DEF Register, First, RtdMsb, FaultStatus
    <2>4. /\ received[c][1] = [chip |-> c, register |-> RtdMsb]
          /\ received[c][2] = [chip |-> c, register |-> RtdMsb + 1]
      BY <2>2, <2>3
    <2>5. QED
      BY <1>1, <1>2, <2>1, <2>4
  <1>3. CASE stage[c] = "written"
    <2>1. Len(received[c]) = 8
      <3>1. Len(Message(c)) = 9
        BY <1>3, MessageForm
      <3>2. QED
        BY <1>1, <3>1
    <2>2. received[c][1] = [chip |-> c, register |-> Register(c, 1)]
      <3>1. \A i \in DOMAIN received[c] :
               received[c][i] = [chip |-> c, register |-> Register(c, i)]
        BY <1>3 DEF ReadsInOrder
      <3>2. 1 \in DOMAIN received[c]
        BY <1>1, <2>1
      <3>3. QED
        BY <3>1, <3>2, Zenon
    <2>3. Register(c, 1) = Config /\ Config + 1 = 1
      BY <1>3 DEF Register, First, Config, FaultStatus
    <2>4. received[c][Config + 1] = [chip |-> c, register |-> Config]
      BY <2>2, <2>3
    <2>5. c \notin configured => Verified(c) = {FALSE}
      BY <2>4 DEF Verified
    <2>6. QED
      BY <1>3, <2>5
  <1>4. QED
    BY <1>2, <1>3

\* Whatever becomes of the message of c, once its chip is released or stuck.
LEMMA EndKeepsSpi ==
    ASSUME SpiIInv, NEW c \in Chips, NEW worked \in BOOLEAN,
           Concludes(c, worked), Ends(c),
           spiAt[c] \in {"deselecting", "failing"},
           worked => spiAt[c] = "deselecting" /\ c \notin stuck',
           UNCHANGED <<rbuf, transfer, configured, readings>>,
           spiFaults' \in 0 .. MaxSpiFaults,
           disturbed \subseteq disturbed', disturbed' \subseteq Chips,
           disturbed' \subseteq disturbed \cup {c},
           doubtful \subseteq doubtful', doubtful' \subseteq Chips,
           ~worked /\ spiAt[c] = "deselecting" =>
               c \in disturbed' /\ (stage[c] # "new" => c \in doubtful'),
           stuck' \subseteq Chips, stuck' \subseteq stuck \cup {c}, stuck \subseteq stuck' \cup {c},
           spiAt[c] = "failing" => stuck' = stuck,
           chips' \in [Chips -> Chip],
           \A d \in Chips : d # c => chips'[d] = chips[d],
           chips'[c].selected => c \in stuck',
           ~chips'[c].selected => chips'[c] = Deselected
    PROVE  SpiIInv'
  <1> USE DEF SpiIInv
  <1>1. SpiTypeInv'
    <2>1. /\ stage' \in [Chips -> {"new", "written", "ready", "failed"}]
          /\ reading' \in [Chips -> [bytes : Seq(Item), disturbed : BOOLEAN]]
      BY ConcludesForm
    <2>2. /\ spiAt' \in [Chips -> {"idle", "selecting", "filling", "half", "transferring",
                                   "deselecting", "failing"}]
          /\ sent' \in [Chips -> Nat] /\ received' \in [Chips -> Seq(Item)]
      BY EndsForm
    <2>3. QED
      BY <2>1, <2>2 DEF SpiTypeInv
  <1>2. \A d \in Chips : d # c => Message(d)' = Message(d)
    BY ConcludesForm DEF Message
  <1>3. \A d \in Chips : ~Undisturbed(d)'
    <2> SUFFICES ASSUME NEW d \in Chips, Undisturbed(d)'
                 PROVE  FALSE
      OBVIOUS
    <2>1. d # c /\ spiAt'[d] = spiAt[d]
      BY EndsForm DEF Undisturbed
    <2>2. Undisturbed(d)
      BY <2>1 DEF Undisturbed
    <2>3. QED
      BY <2>1, <2>2, OnlyOneActs
  <1>4. Alone' /\ ReadsInOrder'
    BY <1>3 DEF Alone, ReadsInOrder
  <1>5. InStep'
    <2> SUFFICES ASSUME NEW d \in Chips
                 PROVE  /\ spiAt'[d] \in {"idle", "selecting", "failing"} => sent'[d] = 0
                        /\ InMessage(d)' => sent'[d] < Len(Message(d)')
                        /\ spiAt'[d] = "deselecting" => sent'[d] = Len(Message(d)')
                        /\ Len(received'[d]) = IF sent'[d] = 0 THEN 0 ELSE sent'[d] - 1
                        /\ transfer'.tx = d => spiAt'[d] \in {"half", "transferring"}
                        /\ transfer'.rx = d => spiAt'[d] = "transferring"
                        /\ Selected(d)' => \/ d \in stuck'
                                           \/ InMessage(d)' \/ spiAt'[d] = "deselecting"
                        /\ ~Selected(d)' => chips'[d] = Deselected
      BY Zenon DEF InStep, Deselected, Addressed, FaultStatus
    <2>1. CASE d = c
      <3>1. transfer.tx # c /\ transfer.rx # c
        BY DEF InStep
      <3>2. QED
        BY <2>1, <3>1, EndsForm DEF InMessage, Selected
    <2>2. CASE d # c
      <3>1. /\ spiAt'[d] = spiAt[d] /\ sent'[d] = sent[d] /\ received'[d] = received[d]
            /\ Message(d)' = Message(d) /\ chips'[d] = chips[d]
        BY <1>2, <2>2, EndsForm
      <3>2. d \in stuck => d \in stuck'
        BY <2>2
      <3>3. QED
        BY <3>1, <3>2 DEF InStep, InMessage, Selected
    <2>3. QED
      BY <2>1, <2>2
  <1>6. Doubts'
    <2> SUFFICES ASSUME NEW d \in Chips
                 PROVE  /\ spiAt'[d] # "idle" /\ stage'[d] # "new" /\ d \in disturbed' =>
                              d \in doubtful'
                        /\ d \in stuck' => stage'[d] = "failed" \/ d \in doubtful'
                        /\ stage'[d] = "ready" => d \in configured' \cup doubtful'
      BY DEF Doubts
    <2>1. CASE d # c
      <3>1. /\ spiAt'[d] = spiAt[d] /\ stage'[d] = stage[d]
            /\ d \in disturbed' => d \in disturbed
            /\ d \in stuck' => d \in stuck
        <4>1. spiAt'[d] = spiAt[d]
          BY <2>1, EndsForm
        <4>2. stage'[d] = stage[d]
          BY <2>1, ConcludesForm
        <4>3. QED
          BY <2>1, <4>1, <4>2
      <3>2. QED
        BY <3>1 DEF Doubts
    <2>2. CASE d = c
      <3>1. spiAt'[c] = "idle"
        BY EndsForm
      <3>2. c \in stuck' => stage'[c] = "failed" \/ c \in doubtful'
        <4> SUFFICES ASSUME c \in stuck', stage'[c] # "failed"
                     PROVE  c \in doubtful'
          OBVIOUS
        <4>1. ~worked
          OBVIOUS
        <4>2. stage[c] = "ready"
          <5>1. ~worked => stage'[c] = "failed" \/ stage[c] = "ready"
            BY ConcludesForm
          <5>2. QED
            BY <4>1, <5>1
        <4>3. CASE spiAt[c] = "deselecting"
          BY <4>1, <4>2, <4>3
        <4>4. CASE spiAt[c] = "failing"
          BY <4>2, <4>4 DEF Doubts
        <4>5. QED
          BY <4>3, <4>4
      <3>3. stage'[c] = "ready" => c \in configured' \cup doubtful'
        <4> SUFFICES ASSUME stage'[c] = "ready"
                     PROVE  c \in configured \cup doubtful'
          OBVIOUS
        <4>1. CASE stage[c] = "ready"
          BY <4>1 DEF Doubts
        <4>2. CASE worked /\ stage[c] = "written" /\ TRUE \in Verified(c)
          <5>1. CASE c \in disturbed
            BY <4>2, <5>1 DEF Doubts
          <5>2. CASE c \notin disturbed
            BY <4>2, <5>2, UndisturbedEnd DEF Undisturbed
          <5>3. QED
            BY <5>1, <5>2
        <4>3. QED
          BY <4>1, <4>2, ConcludesForm
      <3>4. QED
        BY <2>2, <3>1, <3>2, <3>3
    <2>3. QED
      BY <2>1, <2>2
  <1>7. ReadsItsOwnChip'
    <2> SUFFICES ASSUME NEW d \in Chips
                 PROVE  \/ reading'[d] = Nothing
                        \/ reading'[d].disturbed
                        \/ reading'[d].bytes = << [chip |-> d, register |-> RtdMsb],
                                                  [chip |-> d, register |-> RtdMsb + 1] >>
      BY Zenon DEF ReadsItsOwnChip
    <2>1. CASE reading'[d] = reading[d]
      BY <2>1 DEF ReadsItsOwnChip
    <2>2. CASE d = c /\ stage[c] = "ready" /\ reading'[c] = Latest(c)
      <3>1. reading'[c].bytes = received[c] /\ (c \in disturbed' => reading'[c].disturbed)
        <4>1. received[c] \in Seq(Item)
          BY DEF SpiTypeInv
        <4>2. QED
          BY <2>2, <4>1, LatestForm
      <3>2. c \notin disturbed' => Undisturbed(c) /\ spiAt[c] = "deselecting"
        BY DEF Undisturbed, Alone
      <3>3. QED
        BY <2>2, <3>1, <3>2, UndisturbedEnd
    <2>3. QED
      BY <2>1, <2>2, ConcludesForm
  <1>8. QED
    BY <1>1, <1>4, <1>5, <1>6, <1>7

LEMMA DeselectsKeepsSpi ==
    ASSUME SpiIInv, NEW c \in Chips, Deselects(c)
    PROVE  SpiIInv'
  <1> USE DEF SpiIInv
  <1>1. /\ spiAt[c] = "deselecting" /\ Ends(c)
        /\ UNCHANGED <<rbuf, transfer, configured, readings>>
    BY DEF Deselects
  <1>2. chips \in [Chips -> Chip] /\ disturbed \subseteq Chips /\ doubtful \subseteq Chips
        /\ stuck \subseteq Chips /\ spiFaults \in 0 .. MaxSpiFaults
    BY DEF SpiTypeInv
  <1>3. CASE CallWorks /\ chips' = Released(c) /\ Concludes(c, TRUE) /\ stuck' = stuck \ {c}
    <2>1. UNCHANGED <<spiFaults, disturbed, doubtful>>
      BY <1>3 DEF CallWorks
    <2>2. /\ chips' \in [Chips -> Chip] /\ chips'[c] = Deselected /\ ~chips'[c].selected
          /\ \A d \in Chips : d # c => chips'[d] = chips[d]
      <3>1. Deselected \in Chip /\ ~Deselected.selected
        BY DEF Deselected, Chip, Addressed, FaultStatus
      <3>2. QED
        BY <1>2, <1>3, <3>1 DEF Released
    <2>3. Concludes(c, TRUE) /\ stuck' = stuck \ {c} /\ TRUE \in BOOLEAN
      BY <1>3
    <2>4. QED
      BY <1>1, <1>2, <2>1, <2>2, <2>3, EndKeepsSpi
  <1>4. CASE CallFails(c) /\ stuck' = stuck \cup {c} /\ Concludes(c, FALSE) /\ UNCHANGED chips
    <2>1. /\ disturbed' = disturbed \cup {c} /\ disturbed' \subseteq Chips
          /\ doubtful \subseteq doubtful' /\ doubtful' \subseteq Chips
          /\ spiFaults' \in 0 .. MaxSpiFaults /\ (stage[c] # "new" => c \in doubtful')
      BY <1>4, CallFailsDisturbs
    <2>2. /\ chips' = chips /\ stuck' = stuck \cup {c} /\ Concludes(c, FALSE) /\ FALSE \in BOOLEAN
      BY <1>4
    <2>3. ~chips[c].selected => chips[c] = Deselected
      BY DEF InStep, Selected
    <2>4. QED
      BY <1>1, <1>2, <2>1, <2>2, <2>3, EndKeepsSpi
  <1>5. QED
    BY <1>3, <1>4 DEF Deselects

LEMMA GivesUpSelectingKeepsSpi ==
    ASSUME SpiIInv, NEW c \in Chips, GivesUpSelecting(c)
    PROVE  SpiIInv'
  <1> USE DEF SpiIInv
  <1>1. /\ spiAt[c] = "failing" /\ Ends(c) /\ Concludes(c, FALSE) /\ FALSE \in BOOLEAN
        /\ UNCHANGED <<rbuf, transfer, chips, configured, readings, stuck>>
        /\ UNCHANGED <<spiFaults, disturbed, doubtful>>
    BY DEF GivesUpSelecting, CallWorks
  <1>2. chips \in [Chips -> Chip] /\ disturbed \subseteq Chips /\ doubtful \subseteq Chips
        /\ stuck \subseteq Chips /\ spiFaults \in 0 .. MaxSpiFaults
    BY DEF SpiTypeInv
  <1>3. /\ chips[c].selected => c \in stuck
        /\ ~chips[c].selected => chips[c] = Deselected
    BY <1>1 DEF InStep, InMessage, Selected
  <1>4. QED
    BY <1>1, <1>2, <1>3, EndKeepsSpi
-----------------------------------------------------------------------------
(* The bus. *)

LEMMA SpiInitHolds == SpiInit => SpiIInv
  <1> SUFFICES ASSUME SpiInit
               PROVE  SpiIInv
    OBVIOUS
  <1>1. \A c \in Chips : /\ spiAt[c] = "idle" /\ stage[c] = "new" /\ sent[c] = 0
                          /\ received[c] = <<>> /\ chips[c] = Deselected
                          /\ reading[c] = Nothing
    BY DEF SpiInit
  <1>2. Deselected \in Chip /\ ~Deselected.selected
    BY DEF Deselected, Chip, Addressed, FaultStatus
  <1>3. SpiTypeInv
    <2>1. Noise \in Item /\ Nothing \in [bytes : Seq(Item), disturbed : BOOLEAN]
      BY DEF Item, Nothing
    <2>2. <<>> \in Seq(Item)
      OBVIOUS
    <2>3. QED
      BY <1>2, <2>1, <2>2, SpiAssumption DEF SpiInit, SpiTypeInv
  <1>4. InStep
    <2>1. transfer = [tx |-> Nobody, rx |-> Nobody]
      BY DEF SpiInit
    <2>2. \A c \in Chips : transfer.tx # c /\ transfer.rx # c
      BY <2>1, NobodyIsNoChip
    <2>3. \A c \in Chips : Len(received[c]) = 0
      BY <1>1
    <2>4. QED
      BY <1>1, <1>2, <2>2, <2>3 DEF InStep, InMessage, Selected
  <1>5. Alone /\ ReadsInOrder
    BY <1>1 DEF Alone, ReadsInOrder, Undisturbed
  <1>6. Doubts
    BY <1>1 DEF Doubts, SpiInit
  <1>7. ReadsItsOwnChip
    BY <1>1, Zenon DEF ReadsItsOwnChip
  <1>8. QED
    BY <1>3, <1>4, <1>5, <1>6, <1>7 DEF SpiIInv

LEMMA SpiNextHolds == SpiIInv /\ [SpiNext]_spiVars => SpiIInv'
  <1> SUFFICES ASSUME SpiIInv, [SpiNext]_spiVars
               PROVE  SpiIInv'
    OBVIOUS
  <1>1. CASE SpiNext
    <2>1. PICK c \in Chips : \/ Begins(c) \/ Selects(c) \/ Fills(c) \/ SendsByte(c)
                             \/ Deselects(c) \/ GivesUpSelecting(c)
      BY <1>1 DEF SpiNext
    <2>2. QED
      BY <2>1, BeginsKeepsSpi, SelectsKeepsSpi, FillsKeepsSpi, SendsByteKeepsSpi,
         DeselectsKeepsSpi, GivesUpSelectingKeepsSpi
  <1>2. CASE UNCHANGED spiVars
    <2>1. UNCHANGED <<stage, spiAt, sent, received, rbuf, transfer, chips, configured, reading,
                      readings, spiFaults, disturbed, doubtful, stuck>>
      BY <1>2 DEF spiVars
    <2>2. SpiTypeInv'
      BY <2>1 DEF SpiIInv, SpiTypeInv
    <2>3. InStep'
      BY <2>1 DEF SpiIInv, InStep, InMessage, Selected, Message
    <2>4. Alone' /\ Doubts'
      BY <2>1 DEF SpiIInv, Alone, Doubts, Undisturbed
    <2>5. ReadsInOrder'
      BY <2>1 DEF SpiIInv, ReadsInOrder, Undisturbed, InMessage, Register, First
    <2>6. ReadsItsOwnChip'
      BY <2>1, Zenon DEF SpiIInv, ReadsItsOwnChip
    <2>7. QED
      BY <2>2, <2>3, <2>4, <2>5, <2>6 DEF SpiIInv
  <1>3. QED
    BY <1>1, <1>2

LEMMA SpiIInvImplies == SpiIInv => SpiInvariant
  <1> SUFFICES ASSUME SpiIInv
               PROVE  SpiInvariant
    OBVIOUS
  <1> USE DEF SpiIInv
  <1>1. SpiTypeOK
    <2>1. \A c \in Chips : sent[c] \in 0 .. Len(Message(c)) /\ Len(received[c]) <= FaultStatus + 1
      <3> SUFFICES ASSUME NEW c \in Chips
                   PROVE  sent[c] \in 0 .. Len(Message(c)) /\ Len(received[c]) <= 8
        BY DEF FaultStatus
      <3>1. Len(Message(c)) \in {2, 3, 9}
        BY MessageForm
      <3>2. sent[c] \in Nat /\ Len(received[c]) = IF sent[c] = 0 THEN 0 ELSE sent[c] - 1
        BY DEF SpiTypeInv, InStep
      <3>3. \/ spiAt[c] \in {"idle", "selecting", "failing"} \/ InMessage(c)
            \/ spiAt[c] = "deselecting"
        BY DEF SpiTypeInv, InMessage
      <3>4. sent[c] = 0 \/ sent[c] < Len(Message(c)) \/ sent[c] = Len(Message(c))
        BY <3>3 DEF InStep
      <3> DEFINE n == sent[c]
                 l == Len(Message(c))
                 r == Len(received[c])
      <3> HIDE DEF n, l, r
      <3>5. n \in Nat /\ l \in {2, 3, 9} /\ r = (IF n = 0 THEN 0 ELSE n - 1) /\ (n = 0 \/ n < l \/ n = l)
        BY <3>1, <3>2, <3>4 DEF n, l, r
      <3>6. n \in 0 .. l /\ r <= 8
        BY <3>5
      <3>7. QED
        BY <3>6 DEF n, l, r
    <2>2. \A c \in Chips : chips[c].next \in 0 .. Addressed
      BY DEF SpiTypeInv, Chip
    <2>3. \A c \in Chips : chips[c].selected => c \in Busy \cup stuck
      BY DEF InStep, InMessage, Selected, Busy
    <2>4. QED
      BY <2>1, <2>2, <2>3 DEF SpiTypeInv, SpiTypeOK
  <1>2. ReadyMeansConfigured
    BY DEF Doubts, ReadyMeansConfigured, AllReady
  <1>3. QED
    BY <1>1, <1>2 DEF SpiInvariant

\* Whatever the sensors, however their threads meet on the bus and whatever calls fail: a
\* temperature is made of the two registers of the sensor that was asked, unless its message
\* met another one or a failed call; and a sensor that is ready converts, unless one of its
\* messages did so since it was configured (Max31865.cpp, SpiControl.cpp).
THEOREM ReadsItsOwnRegisters == SpiSpec => []SpiInvariant
  <1>1. SpiSpec => []SpiIInv
    BY SpiInitHolds, SpiNextHolds, PTL DEF SpiSpec
  <1>2. QED
    BY <1>1, SpiIInvImplies, PTL
-----------------------------------------------------------------------------
(* The table of a motor. *)

MotorEvents ==
    {"SwitchOn", "SwitchOff", "SwitchOnSucceeded", "ErrorOccurred", "StartMotor",
     "StartMotorSucceeded", "StopMotor", "StopMotorSucceeded"}

AtWork == {"Starting", "Running"}

\* Where each action is taken, and where it leads: a motor that is at work leaves that
\* only by stopping.
LEMMA MotorEntry ==
    ASSUME NEW t \in MotorTable
    PROVE  /\ t.event \in MotorEvents
           /\ t.next \in MotorStates
           /\ t.action \in {"switchOn", "startMotor", "stopMotor", "switchOff",
                            "handleError", "none"}
           /\ t.action = "switchOn" => t.next = "Initialization" /\ t.state \notin AtWork
           /\ t.action = "startMotor" <=> t.next = "Starting"
           /\ t.action = "startMotor" => t.state = "Stopped"
           /\ t.action = "stopMotor" => t.next = "Stopping"
           /\ t.action = "switchOff" => t.next = "Off"
           /\ t.action = "handleError" => t.next = "Error"
           /\ t.action = "none" => (t.next = "Running" <=> t.state \in AtWork)
           /\ t.event = "ErrorOccurred" => t.next = "Error"
  <1>1. \/ t \in On({"Off"}, "SwitchOff", "Off", "none")
        \/ t \in On(MotorStates \ {"Error"}, "ErrorOccurred", "Error", "handleError")
        \/ t \in On({"Error"}, "ErrorOccurred", "Error", "none")
        \/ t \in On({"Off"}, "SwitchOn", "Initialization", "switchOn")
        \/ t \in On(MotorStates \ {"Off", "Running", "Starting"}, "SwitchOff", "Off", "none")
        \/ t \in On({"Starting", "Running"}, "SwitchOff", "Off", "switchOff")
        \/ t \in On({"Initialization"}, "SwitchOnSucceeded", "Stopped", "none")
        \/ t \in On({"Stopped"}, "StopMotor", "Stopped", "none")
        \/ t \in On({"Stopped"}, "StartMotor", "Starting", "startMotor")
        \/ t \in On({"Starting"}, "StartMotorSucceeded", "Running", "none")
        \/ t \in On({"Running", "Starting"}, "StopMotor", "Stopping", "stopMotor")
        \/ t \in On({"Stopping"}, "StopMotor", "Stopping", "none")
        \/ t \in On({"Stopping"}, "StopMotorSucceeded", "Stopped", "none")
    BY DEF MotorTable, ErrorEntries
  <1>2. CASE t \in On({"Off"}, "SwitchOff", "Off", "none")
    BY <1>2, OnEntry DEF MotorEvents, MotorStates, AtWork
  <1>3. CASE t \in On(MotorStates \ {"Error"}, "ErrorOccurred", "Error", "handleError")
    BY <1>3, OnEntry DEF MotorEvents, MotorStates, AtWork
  <1>4. CASE t \in On({"Error"}, "ErrorOccurred", "Error", "none")
    BY <1>4, OnEntry DEF MotorEvents, MotorStates, AtWork
  <1>5. CASE t \in On({"Off"}, "SwitchOn", "Initialization", "switchOn")
    BY <1>5, OnEntry DEF MotorEvents, MotorStates, AtWork
  <1>6. CASE t \in On(MotorStates \ {"Off", "Running", "Starting"}, "SwitchOff", "Off", "none")
    BY <1>6, OnEntry DEF MotorEvents, MotorStates, AtWork
  <1>7. CASE t \in On({"Starting", "Running"}, "SwitchOff", "Off", "switchOff")
    BY <1>7, OnEntry DEF MotorEvents, MotorStates, AtWork
  <1>8. CASE t \in On({"Initialization"}, "SwitchOnSucceeded", "Stopped", "none")
    BY <1>8, OnEntry DEF MotorEvents, MotorStates, AtWork
  <1>9. CASE t \in On({"Stopped"}, "StopMotor", "Stopped", "none")
    BY <1>9, OnEntry DEF MotorEvents, MotorStates, AtWork
  <1>10. CASE t \in On({"Stopped"}, "StartMotor", "Starting", "startMotor")
    BY <1>10, OnEntry DEF MotorEvents, MotorStates, AtWork
  <1>11. CASE t \in On({"Starting"}, "StartMotorSucceeded", "Running", "none")
    BY <1>11, OnEntry DEF MotorEvents, MotorStates, AtWork
  <1>12. CASE t \in On({"Running", "Starting"}, "StopMotor", "Stopping", "stopMotor")
    BY <1>12, OnEntry DEF MotorEvents, MotorStates, AtWork
  <1>13. CASE t \in On({"Stopping"}, "StopMotor", "Stopping", "none")
    BY <1>13, OnEntry DEF MotorEvents, MotorStates, AtWork
  <1>14. CASE t \in On({"Stopping"}, "StopMotorSucceeded", "Stopped", "none")
    BY <1>14, OnEntry DEF MotorEvents, MotorStates, AtWork
  <1>15. QED
    BY <1>1, <1>2, <1>3, <1>4, <1>5, <1>6, <1>7, <1>8, <1>9, <1>10, <1>11, <1>12, <1>13, <1>14

\* An error is heeded in every state.
LEMMA MotorHeedsErrors ==
    ASSUME NEW s \in MotorStates
    PROVE  \E t \in MotorTable : t.state = s /\ t.event = "ErrorOccurred"
  <1> DEFINE heeds == [state |-> s, event |-> "ErrorOccurred", next |-> "Error",
                       action |-> "handleError"]
             ignores == [state |-> "Error", event |-> "ErrorOccurred", next |-> "Error",
                         action |-> "none"]
  <1>1. CASE s # "Error"
    <2>1. heeds \in On(MotorStates \ {"Error"}, "ErrorOccurred", "Error", "handleError")
      BY <1>1 DEF On
    <2>2. heeds \in MotorTable
      BY <2>1 DEF MotorTable, ErrorEntries
    <2>3. heeds.state = s /\ heeds.event = "ErrorOccurred"
      OBVIOUS
    <2>4. QED
      BY <2>2, <2>3
  <1>2. CASE s = "Error"
    <2>1. ignores \in On({"Error"}, "ErrorOccurred", "Error", "none")
      BY DEF On
    <2>2. ignores \in MotorTable
      BY <2>1 DEF MotorTable, ErrorEntries
    <2>3. ignores.state = s /\ ignores.event = "ErrorOccurred"
      BY <1>2
    <2>4. QED
      BY <2>2, <2>3
  <1>3. QED
    BY <1>1, <1>2

LEMMA MotorEventsAre == {t.event : t \in MotorTable} = MotorEvents
  <1>1. {t.event : t \in MotorTable} \subseteq MotorEvents
    BY MotorEntry
  <1>2. \E t \in MotorTable : t.event = "SwitchOff"
    <2>1. \E t \in On({"Off"}, "SwitchOff", "Off", "none") : t.event = "SwitchOff"
      BY EntryOn
    <2>2. QED
      BY <2>1 DEF MotorTable, ErrorEntries
  <1>3. \E t \in MotorTable : t.event = "ErrorOccurred"
    BY MotorHeedsErrors DEF MotorStates
  <1>4. \E t \in MotorTable : t.event = "SwitchOn"
    <2>1. \E t \in On({"Off"}, "SwitchOn", "Initialization", "switchOn") : t.event = "SwitchOn"
      BY EntryOn
    <2>2. QED
      BY <2>1 DEF MotorTable
  <1>5. \E t \in MotorTable : t.event = "SwitchOnSucceeded"
    <2>1. \E t \in On({"Initialization"}, "SwitchOnSucceeded", "Stopped", "none") :
             t.event = "SwitchOnSucceeded"
      BY EntryOn
    <2>2. QED
      BY <2>1 DEF MotorTable
  <1>6. \E t \in MotorTable : t.event = "StartMotor"
    <2>1. \E t \in On({"Stopped"}, "StartMotor", "Starting", "startMotor") :
             t.event = "StartMotor"
      BY EntryOn
    <2>2. QED
      BY <2>1 DEF MotorTable
  <1>7. \E t \in MotorTable : t.event = "StartMotorSucceeded"
    <2>1. \E t \in On({"Starting"}, "StartMotorSucceeded", "Running", "none") :
             t.event = "StartMotorSucceeded"
      BY EntryOn
    <2>2. QED
      BY <2>1 DEF MotorTable
  <1>8. \E t \in MotorTable : t.event = "StopMotor"
    <2>1. \E t \in On({"Stopping"}, "StopMotor", "Stopping", "none") : t.event = "StopMotor"
      BY EntryOn
    <2>2. QED
      BY <2>1 DEF MotorTable
  <1>9. \E t \in MotorTable : t.event = "StopMotorSucceeded"
    <2>1. \E t \in On({"Stopping"}, "StopMotorSucceeded", "Stopped", "none") :
             t.event = "StopMotorSucceeded"
      BY EntryOn
    <2>2. QED
      BY <2>1 DEF MotorTable
  <1>10. QED
    BY <1>1, <1>2, <1>3, <1>4, <1>5, <1>6, <1>7, <1>8, <1>9 DEF MotorEvents
-----------------------------------------------------------------------------
(* The motor: what its threads have still to do. *)

Has(s, x) == \E i \in DOMAIN s : s[i] = x
Over(s, S) == \A i \in DOMAIN s : s[i] \in S

StopSteps ==
    {"haltAndHold", "setZeroVelocity", "readState", "poll", "pollOnce", "deEnergize",
     "enterSafeStart"}

InitSteps ==
    {"reset", "resetCommandTimeout", "initExitSafeStart", "haltAndSetPosition",
     "initStepMode", "getInitState", "initEnterSafeStart", "initialized", "initFailed"}

StartSteps ==
    {"sendSpeed", "setTargetVelocity", "checkStill", "setStepMode", "configure",
     "clearErrors", "exitSafeStart", "energize", "rotationSpeed", "setRotationVelocity",
     "started"}

\* The place of a step in a start.
Place(step) ==
    CASE step \in {"sendSpeed", "setTargetVelocity"} -> 1
      [] step = "checkStill" -> 2
      [] step = "setStepMode" -> 3
      [] step = "configure" -> 4
      [] step = "clearErrors" -> 5
      [] step = "exitSafeStart" -> 6
      [] step = "energize" -> 7
      [] step \in {"rotationSpeed", "setRotationVelocity"} -> 8
      [] OTHER -> 9

\* A start goes on in its order, and tells its end after it has set the velocity.
InPlace(s) ==
    /\ Over(s, StartSteps)
    /\ \A i, j \in DOMAIN s : i < j => Place(s[i]) < Place(s[j])
    /\ Has(s, "started")
    /\ \A i \in DOMAIN s : Place(s[i]) < 8 => Has(s, "rotationSpeed")

\* A motor that is without power is locked next, and one that is told to stop is watched.
EndsLocked(s) ==
    \A i \in DOMAIN s :
       /\ s[i] = "deEnergize" => i + 1 \in DOMAIN s /\ s[i + 1] = "enterSafeStart"
       /\ s[i] \in {"haltAndHold", "setZeroVelocity"} =>
             /\ i + 1 \in DOMAIN s /\ s[i + 1] = "readState"
             /\ i + 2 \in DOMAIN s /\ s[i + 2] \in {"poll", "pollOnce"}

\* The initialization ends with its result, and locks what it has unlocked before.
EndsInitialized(s) ==
    \A i \in DOMAIN s :
       /\ s[i] \in {"initialized", "initFailed"} => i = Len(s)
       /\ s[i] = "initExitSafeStart" /\ Has(s, "initialized") =>
             \E j \in DOMAIN s : i < j /\ s[j] = "initEnterSafeStart"

Work == steps["worker"]
IoWork == steps["io"]

\* What a worker has to do in a state of the component, apart from a stop.
Duties(state) ==
    IF state = "Starting" THEN StartSteps \cup {"startFailed"}
    ELSE {"stopped", "getSpeed", "resetSpeeds"}

WorkInv ==
    /\ Over(IoWork, {"clamp", "sendSpeed", "setTargetVelocity"} \cup StopSteps)
    /\ ~up => /\ motor = "Off" /\ events = <<>> /\ IoWork = <<>>
              /\ Over(Work, InitSteps)
              /\ EndsInitialized(Work)
    /\ up => /\ EndsLocked(Work)
             /\ Over(Work, StopSteps \cup Duties(motor))
             /\ motor = "Running" => Work = <<>>

\* What keeps a motor from turning, and the half of it.
Blocked == tic.velocity = 0 /\ ~Normal(tic)
PoweredOff == tic.velocity = 0 /\ ~tic.energized

\* A motor that is not initialized yet stands, and is locked at the end.
InitInv ==
    ~up => /\ tic.velocity = 0 /\ tic.target = 0
           /\ Work # <<>> => tic.there
           /\ (/\ Has(Work, "initialized") /\ ~Has(Work, "initEnterSafeStart")
               /\ tic.safeStart) => tic.locked

\* While the motor is not at work only the shutdown may be left to do.
StillInv ==
    (/\ up /\ tic.safeStart /\ faults <= 1
     /\ motor \notin {"Starting", "Running"} /\ ~Has(Work, "deEnergize")) =>
        IF Has(Work, "enterSafeStart") THEN faults = 1 \/ PoweredOff ELSE Blocked

Follows(sum) == Accepted(sum) => tic.target = rpmToMicrostepsPer10kSeconds(sum)

\* How far a start has got that nothing disturbs.
StartedInv ==
    /\ InPlace(Work)
    /\ ~Has(Work, "sendSpeed") => (Accepted(Sum) => ownSpeed = Sum)
    /\ Has(Work, "setTargetVelocity") => ~Has(Work, "sendSpeed")
    /\ ~Has(Work, "exitSafeStart") => ~tic.locked
    /\ ~Has(Work, "energize") => tic.energized
    /\ Has(Work, "setRotationVelocity") =>
          sending["worker"] = rpmToMicrostepsPer10kSeconds(ownSpeed)
    /\ ~Has(Work, "rotationSpeed") /\ ~Has(Work, "setRotationVelocity") =>
          tic.target = rpmToMicrostepsPer10kSeconds(ownSpeed)

StartInv ==
    motor = "Starting" /\ Work # <<>> => Work = << "startFailed" >> \/ StartedInv

\* A motor that turns does as it was told, or the IO thread is about to tell it so.
TurnInv ==
    motor \in {"Starting", "Running"} /\ Work = <<>> /\ ~Has(events, "ErrorOccurred") =>
       /\ Normal(tic)
       /\ IoWork = <<>> => Follows(Sum)
       /\ IoWork = << "setTargetVelocity" >> =>
             sending["io"] = rpmToMicrostepsPer10kSeconds(Sum)

\* While no transfer has failed the IO thread sets the speed and nothing else, and while
\* the threads do not cross it does so beside an idle worker.
UndisturbedInv ==
    faults = 0 =>
       /\ up => tic.there
       /\ IoWork \in {<<>>, << "clamp", "sendSpeed" >>, << "sendSpeed" >>,
                      << "setTargetVelocity" >>}
       /\ ~crossed => /\ IoWork = <<>> \/ (Work = <<>> /\ events = <<>>)
                      /\ StartInv
                      /\ TurnInv

Orders == {"SwitchOn", "SwitchOff", "StartMotor", "StopMotor"}

TicStates ==
    [there : BOOLEAN, target : Nat, velocity : Nat, energized : BOOLEAN,
     locked : BOOLEAN, safeStart : BOOLEAN]

Step == Transfers \cup LocalSteps

MotorTypeInv ==
    /\ motor \in MotorStates
    /\ events \in Seq(MotorEvents)
    /\ steps \in [Thread -> Seq(Step)]
    /\ sending \in [Thread -> Nat]
    /\ motorSpeed \in Nat /\ offset \in Int /\ ownSpeed \in 0 .. MaxSpeed
    /\ tic \in TicStates
    /\ up \in BOOLEAN /\ crossed \in BOOLEAN
    /\ motorOrders \in Seq(SUBSET Orders)
    /\ requests \in 0 .. MaxRequests /\ faults \in 0 .. MaxFaults

MotorIInv == MotorTypeInv /\ WorkInv /\ InitInv /\ StillInv /\ UndisturbedInv
-----------------------------------------------------------------------------
(* What is left of a call. *)

LEMMA RestOf ==
    ASSUME NEW S, NEW s \in Seq(S), s # <<>>
    PROVE  /\ Tail(s) \in Seq(S) /\ Head(s) \in S
           /\ 1 \in DOMAIN s /\ Head(s) = s[1]
           /\ \A i \in DOMAIN s : i \in Nat \ {0}
           /\ \A i \in DOMAIN Tail(s) : /\ i \in Nat \ {0} /\ i + 1 \in DOMAIN s
                                        /\ Tail(s)[i] = s[i + 1]
           /\ \A i \in DOMAIN s : i = 1 \/ (i - 1 \in DOMAIN Tail(s) /\ s[i] = Tail(s)[i - 1])
  <1>1. /\ Len(s) \in Nat /\ Len(s) > 0 /\ DOMAIN s = 1 .. Len(s)
        /\ Tail(s) \in Seq(S) /\ Len(Tail(s)) = Len(s) - 1
        /\ DOMAIN Tail(s) = 1 .. Len(s) - 1
        /\ \A i \in 1 .. Len(s) - 1 : Tail(s)[i] = s[i + 1]
    OBVIOUS
  <1>2. \A i \in 2 .. Len(s) : i - 1 \in 1 .. Len(s) - 1 /\ Tail(s)[i - 1] = s[i]
    BY <1>1
  <1>3. QED
    BY <1>1, <1>2

LEMMA JoinAt ==
    ASSUME NEW S, NEW s \in Seq(S), NEW r \in Seq(S)
    PROVE  /\ s \o r \in Seq(S) /\ Len(s \o r) = Len(s) + Len(r)
           /\ DOMAIN (s \o r) = 1 .. Len(s) + Len(r)
           /\ \A i \in 1 .. Len(s) + Len(r) :
                 (s \o r)[i] = IF i <= Len(s) THEN s[i] ELSE r[i - Len(s)]
  OBVIOUS

LEMMA JoinOf ==
    ASSUME NEW S, NEW s \in Seq(S), NEW r \in Seq(S)
    PROVE  /\ s \o r \in Seq(S) /\ Len(s) \in Nat
           /\ \A i \in DOMAIN (s \o r) : i \in Nat
           /\ \A i \in DOMAIN s : i \in DOMAIN (s \o r) /\ (s \o r)[i] = s[i]
           /\ \A i \in DOMAIN r : /\ i + Len(s) \in DOMAIN (s \o r)
                                  /\ (s \o r)[i + Len(s)] = r[i]
           /\ \A i \in DOMAIN (s \o r) :
                 \/ i \in DOMAIN s
                 \/ i - Len(s) \in DOMAIN r /\ (s \o r)[i] = r[i - Len(s)]
  <1>1. /\ Len(s) \in Nat /\ Len(r) \in Nat
        /\ DOMAIN s = 1 .. Len(s) /\ DOMAIN r = 1 .. Len(r)
        /\ s \o r \in Seq(S) /\ DOMAIN (s \o r) = 1 .. Len(s) + Len(r)
        /\ \A i \in 1 .. Len(s) + Len(r) :
              (s \o r)[i] = IF i <= Len(s) THEN s[i] ELSE r[i - Len(s)]
    BY JoinAt
  <1>2. \A i \in 1 .. Len(r) : /\ i + Len(s) \in 1 .. Len(s) + Len(r)
                               /\ ~(i + Len(s) <= Len(s)) /\ (i + Len(s)) - Len(s) = i
    BY <1>1
  <1>3. QED
    BY <1>1, <1>2

LEMMA RestHas ==
    ASSUME NEW S, NEW s \in Seq(S), s # <<>>
    PROVE  /\ Tail(s) \in Seq(S) /\ Head(s) \in S
           /\ \A x : Has(s, x) <=> Head(s) = x \/ Has(Tail(s), x)
           /\ \A X : Over(s, X) <=> Head(s) \in X /\ Over(Tail(s), X)
  <1>1. /\ Tail(s) \in Seq(S) /\ Head(s) \in S /\ 1 \in DOMAIN s /\ Head(s) = s[1]
        /\ \A i \in DOMAIN Tail(s) : i + 1 \in DOMAIN s /\ Tail(s)[i] = s[i + 1]
        /\ \A i \in DOMAIN s : i = 1 \/ (i - 1 \in DOMAIN Tail(s) /\ s[i] = Tail(s)[i - 1])
    BY RestOf
  <1>2. \A x : Has(s, x) <=> Head(s) = x \/ Has(Tail(s), x)
    BY <1>1 DEF Has
  <1>3. \A X : Over(s, X) <=> Head(s) \in X /\ Over(Tail(s), X)
    BY <1>1 DEF Over
  <1>4. QED
    BY <1>1, <1>2, <1>3

LEMMA Joined ==
    ASSUME NEW S, NEW s \in Seq(S), NEW r \in Seq(S)
    PROVE  /\ s \o r \in Seq(S)
           /\ \A x : Has(s \o r, x) <=> Has(s, x) \/ Has(r, x)
           /\ \A X : Over(s \o r, X) <=> Over(s, X) /\ Over(r, X)
           /\ EndsLocked(s) /\ EndsLocked(r) => EndsLocked(s \o r)
  <1>1. /\ s \o r \in Seq(S) /\ Len(s) \in Nat
        /\ \A i \in DOMAIN (s \o r) : i \in Nat
        /\ \A i \in DOMAIN s : i \in DOMAIN (s \o r) /\ (s \o r)[i] = s[i]
        /\ \A i \in DOMAIN r : i + Len(s) \in DOMAIN (s \o r) /\ (s \o r)[i + Len(s)] = r[i]
        /\ \A i \in DOMAIN (s \o r) :
              \/ i \in DOMAIN s
              \/ /\ i - Len(s) \in DOMAIN r
                 /\ (s \o r)[i] = r[i - Len(s)]
    BY JoinOf
  <1>2. \A x : Has(s \o r, x) <=> Has(s, x) \/ Has(r, x)
    BY <1>1 DEF Has
  <1>3. \A X : Over(s \o r, X) <=> Over(s, X) /\ Over(r, X)
    BY <1>1 DEF Over
  <1>4. ASSUME EndsLocked(s), EndsLocked(r) PROVE EndsLocked(s \o r)
    <2> SUFFICES ASSUME NEW i \in DOMAIN (s \o r)
                 PROVE  /\ (s \o r)[i] = "deEnergize" =>
                              i + 1 \in DOMAIN (s \o r) /\ (s \o r)[i + 1] = "enterSafeStart"
                        /\ (s \o r)[i] \in {"haltAndHold", "setZeroVelocity"} =>
                              /\ i + 1 \in DOMAIN (s \o r) /\ (s \o r)[i + 1] = "readState"
                              /\ i + 2 \in DOMAIN (s \o r)
                              /\ (s \o r)[i + 2] \in {"poll", "pollOnce"}
      BY DEF EndsLocked
    <2>1. CASE i \in DOMAIN s
      BY <1>1, <1>4, <2>1 DEF EndsLocked
    <2>2. CASE i \notin DOMAIN s
      <3>1. /\ i - Len(s) \in DOMAIN r /\ (s \o r)[i] = r[i - Len(s)]
            /\ i \in Nat /\ Len(s) \in Nat
            /\ (i - Len(s) + 1) + Len(s) = i + 1 /\ (i - Len(s) + 2) + Len(s) = i + 2
        BY <1>1, <2>2
      <3> DEFINE k == i - Len(s)
                 l == Len(s)
                 t == s \o r
      <3>2. /\ k \in DOMAIN r /\ t[i] = r[k]
            /\ (k + 1) + l = i + 1 /\ (k + 2) + l = i + 2
            /\ \A j \in DOMAIN r : j + l \in DOMAIN t /\ t[j + l] = r[j]
        BY <1>1, <3>1
      <3> HIDE DEF k, l, t
      <3>3. t[i] = "deEnergize" => i + 1 \in DOMAIN t /\ t[i + 1] = "enterSafeStart"
        <4>1. t[i] = "deEnergize" => k + 1 \in DOMAIN r /\ r[k + 1] = "enterSafeStart"
          BY <1>4, <3>2 DEF EndsLocked
        <4>2. QED
          BY <3>2, <4>1
      <3>4. t[i] \in {"haltAndHold", "setZeroVelocity"} =>
               /\ i + 1 \in DOMAIN t /\ t[i + 1] = "readState"
               /\ i + 2 \in DOMAIN t /\ t[i + 2] \in {"poll", "pollOnce"}
        <4>1. t[i] \in {"haltAndHold", "setZeroVelocity"} =>
                 /\ k + 1 \in DOMAIN r /\ r[k + 1] = "readState"
                 /\ k + 2 \in DOMAIN r /\ r[k + 2] \in {"poll", "pollOnce"}
          BY <1>4, <3>2 DEF EndsLocked
        <4>2. QED
          BY <3>2, <4>1
      <3>5. QED
        BY <3>3, <3>4 DEF t
    <2>3. QED
      BY <2>1, <2>2
  <1>5. QED
    BY <1>1, <1>2, <1>3, <1>4

LEMMA RestEndsLocked ==
    ASSUME NEW S, NEW s \in Seq(S), s # <<>>, EndsLocked(s)
    PROVE  /\ EndsLocked(Tail(s))
           /\ Head(s) = "deEnergize" => Has(Tail(s), "enterSafeStart")
           /\ EndsLocked([Tail(s) EXCEPT ![2] = "pollOnce"])
              \/ Head(s) \notin {"haltAndHold", "setZeroVelocity"}
  <1>1. /\ 1 \in DOMAIN s /\ Head(s) = s[1]
        /\ \A i \in DOMAIN Tail(s) : i \in Nat \ {0} /\ i + 1 \in DOMAIN s /\ Tail(s)[i] = s[i + 1]
        /\ \A i \in DOMAIN s : i = 1 \/ (i - 1 \in DOMAIN Tail(s) /\ s[i] = Tail(s)[i - 1])
        /\ \A i \in DOMAIN s : i \in Nat \ {0}
    BY RestOf
  <1>2. EndsLocked(Tail(s))
    <2> SUFFICES ASSUME NEW i \in DOMAIN Tail(s)
                 PROVE  /\ Tail(s)[i] = "deEnergize" =>
                              i + 1 \in DOMAIN Tail(s) /\ Tail(s)[i + 1] = "enterSafeStart"
                        /\ Tail(s)[i] \in {"haltAndHold", "setZeroVelocity"} =>
                              /\ i + 1 \in DOMAIN Tail(s) /\ Tail(s)[i + 1] = "readState"
                              /\ i + 2 \in DOMAIN Tail(s)
                              /\ Tail(s)[i + 2] \in {"poll", "pollOnce"}
      BY DEF EndsLocked
    <2>1. /\ i + 1 \in DOMAIN s /\ Tail(s)[i] = s[i + 1] /\ i \in Nat
          /\ (i + 1) + 1 # 1 /\ ((i + 1) + 1) - 1 = i + 1
          /\ (i + 1) + 2 # 1 /\ ((i + 1) + 2) - 1 = i + 2
      BY <1>1
    <2>2. QED
      BY <1>1, <2>1 DEF EndsLocked
  <1>3. Head(s) = "deEnergize" => Has(Tail(s), "enterSafeStart")
    BY <1>1 DEF EndsLocked, Has
  <1>4. ASSUME Head(s) \in {"haltAndHold", "setZeroVelocity"}
        PROVE  EndsLocked([Tail(s) EXCEPT ![2] = "pollOnce"])
    <2> DEFINE r == [Tail(s) EXCEPT ![2] = "pollOnce"]
    <2>1. /\ 1 \in DOMAIN Tail(s) /\ Tail(s)[1] = "readState"
          /\ 2 \in DOMAIN Tail(s) /\ Tail(s)[2] \in {"poll", "pollOnce"}
      BY <1>1, <1>4 DEF EndsLocked
    <2>2. /\ DOMAIN r = DOMAIN Tail(s) /\ r[2] = "pollOnce"
          /\ \A i \in DOMAIN Tail(s) : i # 2 => r[i] = Tail(s)[i]
      BY <2>1
    <2> HIDE DEF r
    <2> SUFFICES ASSUME NEW i \in DOMAIN r
                 PROVE  /\ r[i] = "deEnergize" =>
                              i + 1 \in DOMAIN r /\ r[i + 1] = "enterSafeStart"
                        /\ r[i] \in {"haltAndHold", "setZeroVelocity"} =>
                              /\ i + 1 \in DOMAIN r /\ r[i + 1] = "readState"
                              /\ i + 2 \in DOMAIN r /\ r[i + 2] \in {"poll", "pollOnce"}
      BY DEF EndsLocked, r
    <2>3. i \in Nat /\ i # 0 /\ (i + 1 = 2 => i = 1) /\ (i + 2 # 2)
      BY <1>1, <2>2
    <2>4. QED
      BY <1>2, <2>1, <2>2, <2>3 DEF EndsLocked
  <1>5. QED
    BY <1>2, <1>3, <1>4

LEMMA RestInPlace ==
    ASSUME NEW S, NEW s \in Seq(S), s # <<>>, InPlace(s)
    PROVE  /\ Head(s) \in StartSteps
           /\ Head(s) # "started" => InPlace(Tail(s))
           /\ \A x : Place(x) <= Place(Head(s)) => ~Has(Tail(s), x)
           /\ Place(Head(s)) < 8 => Has(Tail(s), "rotationSpeed")
  <1>1. /\ Tail(s) \in Seq(S) /\ 1 \in DOMAIN s /\ Head(s) = s[1]
        /\ \A i \in DOMAIN Tail(s) : /\ i \in Nat \ {0} /\ i + 1 \in DOMAIN s
                                     /\ Tail(s)[i] = s[i + 1]
    BY RestOf
  <1>2. /\ Over(Tail(s), StartSteps) /\ Head(s) \in StartSteps
        /\ \A x : Has(s, x) <=> Head(s) = x \/ Has(Tail(s), x)
    BY RestHas DEF InPlace
  <1>3. \A x : Place(x) \in 1 .. 9
    BY DEF Place
  <1>4. ASSUME NEW x, Place(x) <= Place(Head(s)), NEW i \in DOMAIN Tail(s), Tail(s)[i] = x
        PROVE  FALSE
    <2>1. i + 1 \in DOMAIN s /\ s[i + 1] = x /\ 1 < i + 1
      BY <1>1, <1>4
    <2>2. Place(s[1]) < Place(x)
      BY <1>1, <2>1 DEF InPlace
    <2>3. QED
      BY <1>1, <1>3, <1>4, <2>2
  <1>5. \A x : Place(x) <= Place(Head(s)) => ~Has(Tail(s), x)
    BY <1>4 DEF Has
  <1>6. Place(Head(s)) < 8 => Has(Tail(s), "rotationSpeed")
    <2>1. Place("rotationSpeed") = 8
      BY DEF Place
    <2>2. QED
      BY <1>1, <1>2, <2>1 DEF InPlace
  <1>7. ASSUME Head(s) # "started" PROVE InPlace(Tail(s))
    <2>1. \A i, j \in DOMAIN Tail(s) : i < j => Place(Tail(s)[i]) < Place(Tail(s)[j])
      <3> SUFFICES ASSUME NEW i \in DOMAIN Tail(s), NEW j \in DOMAIN Tail(s), i < j
                   PROVE  Place(Tail(s)[i]) < Place(Tail(s)[j])
        OBVIOUS
      <3>1. i + 1 < j + 1 /\ i + 1 \in DOMAIN s /\ j + 1 \in DOMAIN s
        BY <1>1
      <3>2. QED
        BY <1>1, <3>1 DEF InPlace
    <2>2. Has(Tail(s), "started")
      BY <1>2, <1>7 DEF InPlace
    <2>3. \A i \in DOMAIN Tail(s) : Place(Tail(s)[i]) < 8 => Has(Tail(s), "rotationSpeed")
      <3> SUFFICES ASSUME NEW i \in DOMAIN Tail(s), Place(Tail(s)[i]) < 8
                   PROVE  Has(Tail(s), "rotationSpeed")
        OBVIOUS
      <3>1. 1 < i + 1 /\ i + 1 \in DOMAIN s
        BY <1>1
      <3>2. Place(Head(s)) < Place(Tail(s)[i])
        BY <1>1, <3>1 DEF InPlace
      <3>3. Place(Head(s)) < 8
        BY <1>3, <3>2
      <3>4. QED
        BY <1>6, <3>3
    <2>4. QED
      BY <1>2, <2>1, <2>2, <2>3 DEF InPlace
  <1>8. QED
    BY <1>2, <1>5, <1>6, <1>7

\* A start in which the first step is replaced by another one of the same place.
LEMMA ReplacedInPlace ==
    ASSUME NEW S, NEW s \in Seq(S), s # <<>>, InPlace(s), Head(s) # "started",
           NEW x \in S, x \in StartSteps, Place(x) = Place(Head(s))
    PROVE  InPlace(<< x >> \o Tail(s))
  <1> DEFINE r == << x >> \o Tail(s)
  <1>1. /\ Tail(s) \in Seq(S) /\ 1 \in DOMAIN s /\ Head(s) = s[1]
        /\ \A i \in DOMAIN Tail(s) : /\ i \in Nat \ {0} /\ i + 1 \in DOMAIN s
                                     /\ Tail(s)[i] = s[i + 1]
        /\ \A i \in DOMAIN s : i \in Nat \ {0}
    BY RestOf
  <1>2. /\ \A i \in DOMAIN r : i \in DOMAIN s /\ r[i] = IF i = 1 THEN x ELSE s[i]
        /\ 1 \in DOMAIN r
    <2>1. /\ Len(Tail(s)) \in Nat /\ DOMAIN Tail(s) = 1 .. Len(Tail(s))
          /\ Len(s) = Len(Tail(s)) + 1 /\ DOMAIN s = 1 .. Len(s)
      OBVIOUS
    <2>2. /\ << x >> \in Seq(S) /\ Len(<< x >>) = 1 /\ << x >>[1] = x
      OBVIOUS
    <2>3. /\ DOMAIN r = 1 .. 1 + Len(Tail(s))
          /\ \A i \in 1 .. 1 + Len(Tail(s)) : r[i] = IF i <= 1 THEN x ELSE Tail(s)[i - 1]
      BY <1>1, <2>1, <2>2
    <2>4. \A i \in 1 .. 1 + Len(Tail(s)) : i # 1 => i - 1 \in DOMAIN Tail(s) /\ (i - 1) + 1 = i
      BY <2>1
    <2>5. QED
      BY <1>1, <2>1, <2>3, <2>4
  <1>3. /\ Over(Tail(s), StartSteps) /\ InPlace(Tail(s))
        /\ Place(Head(s)) < 8 => Has(Tail(s), "rotationSpeed")
    BY RestInPlace DEF InPlace
  <1>4. /\ Over(r, StartSteps)
        /\ \A y : Has(r, y) <=> x = y \/ Has(Tail(s), y)
    <2>1. << x >> \in Seq(S) /\ Has(<< x >>, x) /\ Over(<< x >>, StartSteps)
          /\ \A y : Has(<< x >>, y) => x = y
      BY DEF Has, Over
    <2>2. QED
      BY <1>1, <1>3, <2>1, Joined
  <1> HIDE DEF r
  <1>5. \A i, j \in DOMAIN r : i < j => Place(r[i]) < Place(r[j])
    <2> SUFFICES ASSUME NEW i \in DOMAIN r, NEW j \in DOMAIN r, i < j
                 PROVE  Place(r[i]) < Place(r[j])
      OBVIOUS
    <2>1. i \in DOMAIN s /\ j \in DOMAIN s /\ j # 1 /\ Place(r[i]) = Place(s[i]) /\ r[j] = s[j]
      BY <1>1, <1>2
    <2>2. QED
      BY <2>1 DEF InPlace
  <1>6. \A i \in DOMAIN r : Place(r[i]) < 8 => Has(r, "rotationSpeed")
    <2> SUFFICES ASSUME NEW i \in DOMAIN r, Place(r[i]) < 8
                 PROVE  Has(r, "rotationSpeed")
      OBVIOUS
    <2>1. \A y : Place(y) \in 1 .. 9
      BY DEF Place
    <2>2. Place(r[i]) = Place(s[i]) /\ i \in DOMAIN s
      BY <1>1, <1>2
    <2>3. i = 1 \/ Place(s[1]) < Place(s[i])
      BY <1>1, <2>2 DEF InPlace
    <2>4. Place(Head(s)) < 8
      BY <1>1, <2>1, <2>2, <2>3
    <2>5. QED
      BY <1>3, <1>4, <2>4
  <1>7. Has(r, "started")
    BY <1>3, <1>4 DEF InPlace
  <1>8. QED
    BY <1>4, <1>5, <1>6, <1>7 DEF InPlace, r

LEMMA OneStep ==
    ASSUME NEW x
    PROVE  /\ x \in Step => << x >> \in Seq(Step)
           /\ \A y : Has(<< x >>, y) <=> x = y
           /\ \A X : Over(<< x >>, X) <=> x \in X
           /\ x \notin {"deEnergize", "haltAndHold", "setZeroVelocity"} => EndsLocked(<< x >>)
           /\ << x >> # <<>> /\ Head(<< x >>) = x /\ Tail(<< x >>) = <<>>
  BY DEF Has, Over, EndsLocked, StopSteps

LEMMA NoStep ==
    /\ <<>> \in Seq(Step) /\ EndsLocked(<<>>)
    /\ \A x : ~Has(<<>>, x)
    /\ \A X : Over(<<>>, X)
  BY DEF Has, Over, EndsLocked

\* A stop shuts the controller down in the end.
LEMMA StopForm ==
    ASSUME NEW immediately \in BOOLEAN
    PROVE  /\ Stop(immediately) \in Seq(Step)
           /\ Over(Stop(immediately), StopSteps)
           /\ Has(Stop(immediately), "deEnergize")
           /\ EndsLocked(Stop(immediately))
  <1> DEFINE first == IF immediately THEN "haltAndHold" ELSE "setZeroVelocity"
             waits == IF immediately THEN "pollOnce" ELSE "poll"
             watch == << "readState", waits >> \o << "deEnergize", "enterSafeStart" >>
             calls == << first >> \o watch
  <1>1. Stop(immediately) = calls
    BY DEF Stop, WaitAndShutdown, Shutdown
  <1>2. /\ first \in {"haltAndHold", "setZeroVelocity"} /\ waits \in {"poll", "pollOnce"}
        /\ first # "deEnergize" /\ waits # "deEnergize"
        /\ waits \notin {"haltAndHold", "setZeroVelocity"}
        /\ first \in Step /\ waits \in Step
    BY DEF Step, Transfers, Commands, StateReads
  <1> HIDE DEF first, waits
  <1>3. /\ Len(watch) = 4 /\ watch[1] = "readState" /\ watch[2] = waits
        /\ watch[3] = "deEnergize" /\ watch[4] = "enterSafeStart"
        /\ watch \in Seq(Step)
    BY <1>2 DEF Step, Transfers, Commands, StateReads
  <1> HIDE DEF watch
  <1>4. /\ calls \in Seq(Step) /\ DOMAIN calls = 1 .. 5
        /\ calls[1] = first /\ calls[2] = "readState"
        /\ calls[3] = waits /\ calls[4] = "deEnergize" /\ calls[5] = "enterSafeStart"
    <2> first \in Step /\ watch \in Seq(Step)
      BY <1>2, <1>3
    <2>1. /\ calls \in Seq(Step) /\ DOMAIN calls = 1 .. 1 + Len(watch) /\ calls[1] = first
          /\ \A i \in 1 .. Len(watch) : calls[i + 1] = watch[i]
      OBVIOUS
    <2> HIDE DEF calls
    <2>2. /\ calls[1 + 1] = watch[1] /\ calls[2 + 1] = watch[2]
          /\ calls[3 + 1] = watch[3] /\ calls[4 + 1] = watch[4]
      BY <1>3, <2>1
    <2>3. QED
      BY <1>3, <2>1, <2>2
  <1> HIDE DEF calls
  <1>5. Over(calls, StopSteps) /\ Has(calls, "deEnergize")
    BY <1>2, <1>4 DEF Over, Has, StopSteps
  <1>6. EndsLocked(calls)
    <2> SUFFICES ASSUME NEW i \in 1 .. 5
                 PROVE  /\ calls[i] = "deEnergize" =>
                              i + 1 \in 1 .. 5 /\ calls[i + 1] = "enterSafeStart"
                        /\ calls[i] \in {"haltAndHold", "setZeroVelocity"} =>
                              /\ i + 1 \in 1 .. 5 /\ calls[i + 1] = "readState"
                              /\ i + 2 \in 1 .. 5 /\ calls[i + 2] \in {"poll", "pollOnce"}
      BY <1>4 DEF EndsLocked
    <2>1. i = 1 \/ i = 2 \/ i = 3 \/ i = 4 \/ i = 5
      OBVIOUS
    <2>2. QED
      BY <1>2, <1>4, <2>1
  <1>7. QED
    BY <1>1, <1>4, <1>5, <1>6

\* What the actions give the worker to do.
LEMMA StartForm ==
    LET calls == MotorAction("startMotor")
    IN  /\ calls \in Seq(Step) /\ calls # <<>>
        /\ InPlace(calls) /\ EndsLocked(calls)
        /\ Has(calls, "sendSpeed") /\ Has(calls, "exitSafeStart") /\ Has(calls, "energize")
        /\ Has(calls, "rotationSpeed") /\ ~Has(calls, "setRotationVelocity")
        /\ ~Has(calls, "setTargetVelocity")
  <1> DEFINE prepares == << "checkStill", "setStepMode", "configure", "clearErrors",
                            "exitSafeStart", "energize" >>
             rotates == prepares \o << "rotationSpeed" >>
             sends == << "sendSpeed" >> \o rotates
             calls == sends \o << "started" >>
  <1>1. MotorAction("startMotor") = calls
    BY DEF MotorAction, Rotate, PrepareForMotion
  <1> DEFINE S == {"sendSpeed", "checkStill", "setStepMode", "configure", "clearErrors",
                   "exitSafeStart", "energize", "rotationSpeed", "started"}
  <1>2. /\ rotates \in Seq(S) /\ Len(rotates) = 7
        /\ rotates[1] = "checkStill" /\ rotates[2] = "setStepMode"
        /\ rotates[3] = "configure" /\ rotates[4] = "clearErrors"
        /\ rotates[5] = "exitSafeStart" /\ rotates[6] = "energize"
        /\ rotates[7] = "rotationSpeed"
    OBVIOUS
  <1> HIDE DEF rotates
  <1>3. /\ sends \in Seq(S) /\ Len(sends) = 8 /\ sends[1] = "sendSpeed"
        /\ \A i \in 1 .. 7 : sends[i + 1] = rotates[i]
    <2> rotates \in Seq(S) /\ "sendSpeed" \in S
      BY <1>2
    <2> HIDE DEF S
    <2>1. /\ sends \in Seq(S) /\ Len(sends) = 1 + Len(rotates) /\ sends[1] = "sendSpeed"
          /\ \A i \in 1 .. Len(rotates) : sends[i + 1] = rotates[i]
      OBVIOUS
    <2> HIDE DEF sends
    <2>2. QED
      BY <1>2, <2>1
  <1> HIDE DEF sends
  <1>4. /\ calls \in Seq(S) /\ Len(calls) = 9 /\ calls[9] = "started"
        /\ \A i \in 1 .. 8 : calls[i] = sends[i]
    <2> sends \in Seq(S) /\ "started" \in S
      BY <1>3
    <2> HIDE DEF S
    <2>1. /\ calls \in Seq(S) /\ Len(calls) = Len(sends) + 1
          /\ calls[Len(sends) + 1] = "started"
          /\ \A i \in 1 .. Len(sends) : calls[i] = sends[i]
      OBVIOUS
    <2> HIDE DEF calls
    <2>2. QED
      BY <1>3, <2>1
  <1> HIDE DEF calls
  <1>5. /\ DOMAIN calls = 1 .. 9 /\ calls # <<>>
        /\ calls[1] = "sendSpeed" /\ calls[2] = "checkStill" /\ calls[3] = "setStepMode"
        /\ calls[4] = "configure" /\ calls[5] = "clearErrors" /\ calls[6] = "exitSafeStart"
        /\ calls[7] = "energize" /\ calls[8] = "rotationSpeed" /\ calls[9] = "started"
    BY <1>2, <1>3, <1>4
  <1>6. calls \in Seq(Step)
    <2>1. S \subseteq Step
      BY DEF Step, Transfers, Commands, StateReads, LocalSteps
    <2>2. QED
      BY <1>4, <2>1
  <1> HIDE DEF S
  <1>7. \A i \in 1 .. 9 : \/ i = 1 \/ i = 2 \/ i = 3 \/ i = 4 \/ i = 5 \/ i = 6 \/ i = 7
                          \/ i = 8 \/ i = 9
    OBVIOUS
  <1>8. \A i \in 1 .. 9 : calls[i] \in StartSteps /\ calls[i] \notin StopSteps
    BY <1>5, <1>7 DEF StartSteps, StopSteps
  <1>9. \A i \in 1 .. 9 : Place(calls[i]) = i
    BY <1>5, <1>7 DEF Place
  <1>10. \A i \in 1 .. 9 : calls[i] # "setRotationVelocity" /\ calls[i] # "setTargetVelocity"
    BY <1>5, <1>7
  <1>11. /\ Has(calls, "sendSpeed") /\ Has(calls, "exitSafeStart") /\ Has(calls, "energize")
         /\ Has(calls, "rotationSpeed") /\ Has(calls, "started")
         /\ ~Has(calls, "setRotationVelocity") /\ ~Has(calls, "setTargetVelocity")
    BY <1>5, <1>10 DEF Has
  <1>12. InPlace(calls)
    BY <1>5, <1>8, <1>9, <1>11 DEF InPlace, Over
  <1>13. EndsLocked(calls)
    BY <1>5, <1>8 DEF EndsLocked, StopSteps
  <1>14. QED
    BY <1>1, <1>5, <1>6, <1>11, <1>12, <1>13

\* A stop whose first transfer failed: it polls once instead of until the motor stands.
LEMMA PolledOnce ==
    ASSUME NEW s \in Seq(Step)
    PROVE  LET r == [s EXCEPT ![2] = "pollOnce"]
           IN  /\ r \in Seq(Step)
               /\ \A X : Over(s, X) /\ "pollOnce" \in X => Over(r, X)
  <1> DEFINE r == [s EXCEPT ![2] = "pollOnce"]
  <1>1. "pollOnce" \in Step
    BY DEF Step, Transfers, StateReads
  <1>2. r \in Seq(Step)
    <2>1. DOMAIN s = 1 .. Len(s) /\ Len(s) \in Nat /\ s \in [1 .. Len(s) -> Step]
      OBVIOUS
    <2>2. r \in [1 .. Len(s) -> Step]
      BY <1>1, <2>1
    <2>3. QED
      BY <2>1, <2>2
  <1>3. DOMAIN r = DOMAIN s /\ \A i \in DOMAIN s : r[i] = s[i] \/ r[i] = "pollOnce"
    OBVIOUS
  <1>4. \A X : Over(s, X) /\ "pollOnce" \in X => Over(r, X)
    BY <1>3 DEF Over
  <1>5. QED
    BY <1>2, <1>4

LEMMA WatchedHas ==
    ASSUME NEW s \in Seq(Step), s # <<>>, EndsLocked(s),
           Head(s) \in {"haltAndHold", "setZeroVelocity"},
           NEW x, x \notin {"poll", "pollOnce"}
    PROVE  Has([Tail(s) EXCEPT ![2] = "pollOnce"], x) <=> Has(Tail(s), x)
  <1>1. /\ 1 \in DOMAIN s /\ Head(s) = s[1] /\ Tail(s) \in Seq(Step)
        /\ \A i \in DOMAIN s : i = 1 \/ (i - 1 \in DOMAIN Tail(s) /\ s[i] = Tail(s)[i - 1])
    BY RestOf
  <1>2. 2 \in DOMAIN Tail(s) /\ Tail(s)[2] \in {"poll", "pollOnce"}
    <2>1. 1 + 2 \in DOMAIN s /\ s[1 + 2] \in {"poll", "pollOnce"}
      BY <1>1 DEF EndsLocked
    <2>2. 1 + 2 # 1 /\ (1 + 2) - 1 = 2
      OBVIOUS
    <2>3. QED
      BY <1>1, <2>1, <2>2
  <1> DEFINE r == [Tail(s) EXCEPT ![2] = "pollOnce"]
  <1>3. /\ DOMAIN r = DOMAIN Tail(s) /\ r[2] = "pollOnce"
        /\ \A i \in DOMAIN Tail(s) : i # 2 => r[i] = Tail(s)[i]
    BY <1>2
  <1> HIDE DEF r
  <1>4. Has(r, x) <=> Has(Tail(s), x)
    BY <1>2, <1>3 DEF Has
  <1>5. QED
    BY <1>4 DEF r

RotateTransfers ==
    {"checkStill", "setStepMode", "configure", "exitSafeStart", "energize",
     "setRotationVelocity"}

Failed == << "startFailed" >>
StoppedAndFailed == Stop(TRUE) \o << "startFailed" >>

PollsAgain(rest) == << "poll" >> \o rest
PollsOnce(rest) == [rest EXCEPT ![2] = "pollOnce"]
StopsFirst(rest) == Stop(TRUE) \o rest

\* What is left of a call after a transfer of it.
LEMMA AfterStop ==
    ASSUME NEW d, NEW step \in StopSteps, NEW ok, NEW rest
    PROVE  \/ After(d, step, ok, rest) = rest
           \/ step = "poll" /\ After(d, step, ok, rest) = PollsAgain(rest)
           \/ /\ step \in {"haltAndHold", "setZeroVelocity"}
              /\ After(d, step, ok, rest) = PollsOnce(rest)
  <1>1. After(d, step, ok, rest) = AfterStopTransfer(d, step, ok, rest)
    BY DEF After, StopSteps
  <1>2. QED
    BY <1>1 DEF AfterStopTransfer, StopSteps, PollsAgain, PollsOnce

LEMMA AfterRotate ==
    ASSUME NEW d, NEW step \in RotateTransfers, NEW ok, NEW rest
    PROVE  \/ After(d, step, ok, rest) = rest
           \/ After(d, step, ok, rest) = Failed
           \/ ~ok /\ After(d, step, ok, rest) = StoppedAndFailed
  <1>1. After(d, step, ok, rest) = AfterRotateTransfer(d, step, ok, rest)
    BY DEF After, RotateTransfers
  <1>2. QED
    BY <1>1 DEF AfterRotateTransfer, Failed, StoppedAndFailed

LEMMA AfterClearing ==
    ASSUME NEW d, NEW step \in {"clearErrors"}, NEW ok, NEW rest
    PROVE  After(d, step, ok, rest) = rest
  BY DEF After, AfterStopTransfer

LEMMA AfterSpeed ==
    ASSUME NEW d, NEW step \in {"setTargetVelocity"}, NEW ok, NEW rest
    PROVE  After(d, step, ok, rest) = rest \/ After(d, step, ok, rest) = StopsFirst(rest)
  BY DEF After, StopsFirst

LEMMA AfterSpeedSent ==
    ASSUME NEW d, NEW step \in {"setTargetVelocity"}, NEW ok, ok, NEW rest
    PROVE  After(d, step, ok, rest) = rest
  BY DEF After

LEMMA AfterReset ==
    ASSUME NEW d, NEW step \in {"getSpeed"}, NEW ok, NEW rest
    PROVE  After(d, step, ok, rest) = rest \/ After(d, step, ok, rest) = StopsFirst(rest)
  BY DEF After, StopsFirst

InitFailures ==
    {<< "initFailed" >>, << "initExitSafeStart", "initFailed" >>,
     << "initEnterSafeStart", "initFailed" >>}

LEMMA AfterInit ==
    ASSUME NEW d, NEW step \in InitSteps, NEW ok, NEW rest
    PROVE  \/ After(d, step, ok, rest) = rest /\ (ok \/ step = "initStepMode")
           \/ After(d, step, ok, rest) \in InitFailures
  <1>1. After(d, step, ok, rest) = AfterInitTransfer(d, step, ok, rest)
    BY DEF After, InitSteps
  <1>2. QED
    BY <1>1 DEF AfterInitTransfer, InitFailures

LEMMA HaltedForm ==
    ASSUME NEW d \in TicStates
    PROVE  /\ Halted(d) \in TicStates
           /\ Halted(d).there = d.there /\ Halted(d).energized = d.energized
           /\ Halted(d).locked = d.locked /\ Halted(d).safeStart = d.safeStart
           /\ Halted(d).velocity = 0 /\ Halted(d).target = 0
  <1>1. Halted(d) \in TicStates
    BY DEF Halted, TicStates
  <1>2. /\ Halted(d).there = d.there /\ Halted(d).energized = d.energized
        /\ Halted(d).locked = d.locked /\ Halted(d).safeStart = d.safeStart
    BY DEF Halted, TicStates
  <1>3. Halted(d).velocity = 0 /\ Halted(d).target = 0
    BY DEF Halted, TicStates
  <1>4. QED
    BY <1>1, <1>2, <1>3

\* What a transfer does to the controller.
LEMMA EffectForm ==
    ASSUME NEW d \in TicStates, NEW step \in Transfers, NEW v \in Nat
    PROVE  LET e == Effect(d, step, v)
           IN  /\ e \in TicStates /\ e.safeStart = d.safeStart
               /\ d.there => e.there
               /\ e.velocity = 0 \/ e.velocity = d.velocity
               /\ \/ e.target = 0 \/ e.target = d.target
                  \/ step \in {"setTargetVelocity", "setRotationVelocity"}
               /\ step \in {"setTargetVelocity", "setRotationVelocity"} => e.target = v
               /\ step \in {"exitSafeStart", "initExitSafeStart"} => ~e.locked
               /\ step \in {"enterSafeStart", "initEnterSafeStart"} /\ d.safeStart =>
                     e.locked /\ e.velocity = 0
               /\ step = "reset" => e.velocity = 0 /\ (d.safeStart => e.locked)
               /\ d.locked => e.locked \/ step \in {"exitSafeStart", "initExitSafeStart", "reset"}
               /\ e.locked => d.locked \/ step \in {"enterSafeStart", "initEnterSafeStart", "reset"}
               /\ step = "energize" => e.energized
               /\ step = "deEnergize" => ~e.energized /\ e.velocity = 0
               /\ d.energized => e.energized \/ step = "deEnergize"
               /\ e.energized => d.energized \/ step \in {"energize", "reset"}
  <1>1. d.there \in BOOLEAN /\ d.energized \in BOOLEAN /\ d.locked \in BOOLEAN
        /\ d.safeStart \in BOOLEAN /\ d.target \in Nat /\ d.velocity \in Nat
    BY DEF TicStates
  <1>2. CASE step \in {"setTargetVelocity", "setRotationVelocity"}
    <2>1. Effect(d, step, v) = [d EXCEPT !.target = v]
      BY <1>2 DEF Effect
    <2>2. QED
      BY <1>1, <1>2, <2>1 DEF TicStates
  <1>3. CASE step = "setZeroVelocity"
    <2>1. Effect(d, step, v) = [d EXCEPT !.target = 0]
      BY <1>3 DEF Effect
    <2>2. QED
      BY <1>1, <1>3, <2>1 DEF TicStates
  <1>4. CASE step \in {"haltAndHold", "haltAndSetPosition"}
    <2>1. Effect(d, step, v) = Halted(d)
      BY <1>4 DEF Effect
    <2>2. QED
      BY <1>1, <1>4, <2>1, HaltedForm
  <1>5. CASE step = "energize"
    <2>1. Effect(d, step, v) = [d EXCEPT !.energized = TRUE]
      BY <1>5 DEF Effect
    <2>2. QED
      BY <1>1, <1>5, <2>1 DEF TicStates
  <1>6. CASE step = "deEnergize"
    <2> DEFINE e == [d EXCEPT !.energized = FALSE, !.velocity = 0]
    <2>1. Effect(d, step, v) = e
      BY <1>6 DEF Effect
    <2>2. e \in TicStates
      BY DEF TicStates
    <2>3. /\ e.there = d.there /\ e.locked = d.locked /\ e.safeStart = d.safeStart
          /\ e.target = d.target
      BY DEF TicStates
    <2>4. ~e.energized /\ e.velocity = 0
      BY DEF TicStates
    <2> HIDE DEF e
    <2>5. QED
      BY <1>1, <1>6, <2>1, <2>2, <2>3, <2>4
  <1>7. CASE step \in {"exitSafeStart", "initExitSafeStart"}
    <2>1. Effect(d, step, v) = [d EXCEPT !.locked = FALSE]
      BY <1>7 DEF Effect
    <2>2. QED
      BY <1>1, <1>7, <2>1 DEF TicStates
  <1>8. CASE step \in {"enterSafeStart", "initEnterSafeStart"}
    <2>1. Effect(d, step, v) = IF d.safeStart THEN [Halted(d) EXCEPT !.locked = TRUE] ELSE d
      BY <1>8 DEF Effect
    <2>2. CASE ~d.safeStart
      BY <1>1, <1>8, <2>1, <2>2
    <2>3. CASE d.safeStart
      <3> DEFINE h == Halted(d)
                 e == [h EXCEPT !.locked = TRUE]
      <3>1. Effect(d, step, v) = e
        BY <2>1, <2>3
      <3>2. /\ h \in TicStates /\ h.there = d.there /\ h.energized = d.energized
            /\ h.safeStart = d.safeStart /\ h.velocity = 0 /\ h.target = 0
        BY HaltedForm
      <3> HIDE DEF h
      <3>3. e \in TicStates
        BY <3>2 DEF TicStates
      <3>4. /\ e.there = h.there /\ e.energized = h.energized /\ e.safeStart = h.safeStart
            /\ e.velocity = h.velocity /\ e.target = h.target /\ e.locked = TRUE
        BY <3>2 DEF TicStates
      <3> HIDE DEF e
      <3>5. QED
        BY <1>1, <1>8, <3>1, <3>2, <3>3, <3>4
    <2>4. QED
      BY <2>2, <2>3
  <1>9. CASE step = "reset"
    <2> DEFINE e == PoweredUp(d.safeStart)
    <2>1. Effect(d, step, v) = e
      BY <1>9 DEF Effect
    <2>2. e \in TicStates
      BY <1>1 DEF TicStates, PoweredUp
    <2>3. /\ e.there /\ e.velocity = 0 /\ e.target = 0 /\ e.energized
          /\ e.locked = d.safeStart /\ e.safeStart = d.safeStart
      BY <1>1 DEF TicStates, PoweredUp
    <2> HIDE DEF e
    <2>4. QED
      BY <1>1, <1>9, <2>1, <2>2, <2>3
  <1>10. CASE step \notin {"setTargetVelocity", "setRotationVelocity", "setZeroVelocity",
                           "haltAndHold", "haltAndSetPosition", "energize", "deEnergize",
                           "exitSafeStart", "initExitSafeStart", "enterSafeStart",
                           "initEnterSafeStart", "reset"}
    <2>1. Effect(d, step, v) = d
      BY <1>10 DEF Effect
    <2>2. QED
      BY <1>1, <1>10, <2>1 DEF TicStates
  <1>11. QED
    BY <1>2, <1>3, <1>4, <1>5, <1>6, <1>7, <1>8, <1>9, <1>10

LEMMA ControllerForm ==
    ASSUME NEW d \in TicStates, NEW step \in Transfers, NEW ok \in BOOLEAN, NEW v \in Nat
    PROVE  LET c == Controller(d, step, ok, v)
           IN  /\ c \in TicStates /\ c.safeStart = d.safeStart
               /\ ok => c = Effect(d, step, v)
               /\ ~ok /\ step # "setStepMode" => c = d
               /\ ~ok /\ step = "setStepMode" => c.velocity = 0 /\ ~c.energized
  <1>1. CASE ok
    BY <1>1, EffectForm DEF Controller
  <1>2. CASE ~ok /\ step # "setStepMode"
    BY <1>2 DEF Controller
  <1>3. CASE ~ok /\ step = "setStepMode"
    <2> DEFINE h == Halted(d)
               c == [h EXCEPT !.there = FALSE, !.energized = FALSE]
    <2>1. Controller(d, step, ok, v) = c
      BY <1>3 DEF Controller, Deleted
    <2>2. h \in TicStates /\ h.safeStart = d.safeStart /\ h.velocity = 0
      BY HaltedForm
    <2> HIDE DEF h
    <2>3. c \in TicStates
      BY <2>2 DEF TicStates
    <2>4. c.safeStart = h.safeStart /\ c.velocity = h.velocity
      BY <2>2 DEF TicStates
    <2>5. ~c.energized
      BY <2>2 DEF TicStates
    <2> HIDE DEF c
    <2>6. QED
      BY <1>3, <2>1, <2>2, <2>3, <2>4, <2>5
  <1>4. QED
    BY <1>1, <1>2, <1>3

LEMMA StopOf ==
    ASSUME NEW r \in Seq(Step)
    PROVE  LET a == Stop(TRUE) \o r
           IN  /\ a \in Seq(Step)
               /\ Has(a, "deEnergize")
               /\ \A X : Over(r, X) /\ StopSteps \subseteq X => Over(a, X)
               /\ EndsLocked(r) => EndsLocked(a)
  <1>1. /\ Stop(TRUE) \in Seq(Step) /\ Over(Stop(TRUE), StopSteps)
        /\ Has(Stop(TRUE), "deEnergize") /\ EndsLocked(Stop(TRUE))
    BY StopForm
  <1>2. \A X : StopSteps \subseteq X => Over(Stop(TRUE), X)
    BY <1>1 DEF Over
  <1>3. QED
    BY <1>1, <1>2, Joined

\* A transfer leaves a call that ends as it did: the controller is locked after it was
\* turned off.
LEMMA AfterLeft ==
    ASSUME NEW s \in Seq(Step), s # <<>>, Head(s) \in Transfers, Head(s) \notin InitSteps,
           NEW d, NEW ok \in BOOLEAN
    PROVE  LET a == After(d, Head(s), ok, Tail(s))
           IN  /\ a \in Seq(Step)
               /\ \A X : /\ Over(s, X) /\ StopSteps \subseteq X
                         /\ Head(s) \in RotateTransfers => "startFailed" \in X
                         => Over(a, X)
               /\ EndsLocked(s) => EndsLocked(a)
               /\ EndsLocked(s) /\ Head(s) \notin RotateTransfers /\ ~Has(a, "deEnergize") =>
                     /\ Has(s, "deEnergize") => /\ Head(s) = "deEnergize"
                                                /\ Has(a, "enterSafeStart")
                     /\ Has(a, "enterSafeStart") => Has(s, "enterSafeStart")
                     /\ Has(s, "enterSafeStart") =>
                           Has(a, "enterSafeStart") \/ Head(s) = "enterSafeStart"
  <1> DEFINE a == After(d, Head(s), ok, Tail(s))
             Claim(b) ==
                /\ b \in Seq(Step)
                /\ \A X : /\ Over(s, X) /\ StopSteps \subseteq X
                          /\ Head(s) \in RotateTransfers => "startFailed" \in X
                          => Over(b, X)
                /\ EndsLocked(s) => EndsLocked(b)
                /\ EndsLocked(s) /\ Head(s) \notin RotateTransfers /\ ~Has(b, "deEnergize") =>
                      /\ Has(s, "deEnergize") => /\ Head(s) = "deEnergize"
                                                 /\ Has(b, "enterSafeStart")
                      /\ Has(b, "enterSafeStart") => Has(s, "enterSafeStart")
                      /\ Has(s, "enterSafeStart") =>
                            Has(b, "enterSafeStart") \/ Head(s) = "enterSafeStart"
  <1>1. /\ Tail(s) \in Seq(Step) /\ Head(s) \in Step
        /\ \A x : Has(s, x) <=> Head(s) = x \/ Has(Tail(s), x)
        /\ \A X : Over(s, X) <=> Head(s) \in X /\ Over(Tail(s), X)
    BY RestHas
  <1>2. EndsLocked(s) => /\ EndsLocked(Tail(s))
                         /\ Head(s) = "deEnergize" => Has(Tail(s), "enterSafeStart")
    BY RestEndsLocked
  <1>3. Claim(Tail(s))
    BY <1>1, <1>2
  <1>4. ASSUME Head(s) \in StopSteps PROVE Claim(a)
    <2>1. ASSUME Head(s) = "poll" PROVE Claim(PollsAgain(Tail(s)))
      <3>1. << "poll" >> \in Seq(Step) /\ EndsLocked(<< "poll" >>)
        BY OneStep DEF Step, Transfers, StateReads
      <3>2. /\ \A y : Has(<< "poll" >>, y) <=> "poll" = y
            /\ \A X : Over(<< "poll" >>, X) <=> "poll" \in X
        BY OneStep
      <3> DEFINE b == PollsAgain(Tail(s))
      <3>3. /\ b \in Seq(Step)
            /\ \A x : Has(b, x) <=> Has(s, x)
            /\ \A X : Over(b, X) <=> Over(s, X)
            /\ EndsLocked(s) => EndsLocked(b)
        BY <1>1, <1>2, <2>1, <3>1, <3>2, Joined DEF PollsAgain
      <3> HIDE DEF b
      <3>4. QED
        BY <2>1, <3>3 DEF b
    <2>2. ASSUME Head(s) \in {"haltAndHold", "setZeroVelocity"}
          PROVE  Claim(PollsOnce(Tail(s)))
      <3> DEFINE b == PollsOnce(Tail(s))
      <3>1. /\ b \in Seq(Step)
            /\ \A X : Over(Tail(s), X) /\ "pollOnce" \in X => Over(b, X)
        BY <1>1, PolledOnce DEF PollsOnce
      <3>2. "pollOnce" \in StopSteps
        BY DEF StopSteps
      <3>3. EndsLocked(s) => EndsLocked(b)
        BY <2>2, RestEndsLocked DEF PollsOnce
      <3>4. EndsLocked(s) => /\ Has(b, "deEnergize") <=> Has(Tail(s), "deEnergize")
                             /\ Has(b, "enterSafeStart") <=> Has(Tail(s), "enterSafeStart")
        BY <2>2, WatchedHas DEF PollsOnce
      <3> HIDE DEF b
      <3>5. QED
        BY <1>1, <2>2, <3>1, <3>2, <3>3, <3>4 DEF b
    <2>3. \/ a = Tail(s)
          \/ Head(s) = "poll" /\ a = PollsAgain(Tail(s))
          \/ /\ Head(s) \in {"haltAndHold", "setZeroVelocity"}
             /\ a = PollsOnce(Tail(s))
      BY <1>4, AfterStop
    <2> HIDE DEF a, Claim
    <2>4. QED
      BY <1>3, <2>1, <2>2, <2>3
  <1>5. ASSUME Head(s) \in RotateTransfers PROVE Claim(a)
    <2>1. /\ Failed \in Seq(Step) /\ EndsLocked(Failed)
          /\ \A X : "startFailed" \in X => Over(Failed, X)
      BY OneStep DEF Failed, Step, LocalSteps
    <2>2. Claim(Failed)
      BY <1>5, <2>1
    <2>3. Claim(StoppedAndFailed)
      BY <1>5, <2>1, StopOf DEF StoppedAndFailed, Failed
    <2>4. a = Tail(s) \/ a = Failed \/ a = StoppedAndFailed
      BY <1>5, AfterRotate
    <2> HIDE DEF a, Claim
    <2>5. QED
      BY <1>3, <2>2, <2>3, <2>4
  <1>6. ASSUME Head(s) \in {"setTargetVelocity", "getSpeed"} PROVE Claim(a)
    <2>1. Claim(StopsFirst(Tail(s)))
      BY <1>1, <1>2, StopOf DEF StopsFirst
    <2>2. a = Tail(s) \/ a = StopsFirst(Tail(s))
      <3>1. CASE Head(s) \in {"setTargetVelocity"}
        BY <3>1, AfterSpeed
      <3>2. CASE Head(s) \in {"getSpeed"}
        BY <3>2, AfterReset
      <3>3. QED
        BY <1>6, <3>1, <3>2
    <2> HIDE DEF a, Claim
    <2>3. QED
      BY <1>3, <2>1, <2>2
  <1>7. ASSUME Head(s) = "clearErrors" PROVE Claim(a)
    <2>1. a = Tail(s)
      BY <1>7, AfterClearing
    <2> HIDE DEF a, Claim
    <2>2. QED
      BY <1>3, <2>1
  <1> HIDE DEF a, Claim
  <1>8. Claim(a)
    BY <1>4, <1>5, <1>6, <1>7
       DEF Transfers, Commands, StateReads, StopSteps, RotateTransfers, InitSteps
  <1>9. QED
    BY <1>8 DEF a, Claim

\* What a transfer leaves of the initialization.
LEMMA InitLeft ==
    ASSUME NEW s \in Seq(Step), s # <<>>, Head(s) \in Transfers,
           Over(s, InitSteps), EndsInitialized(s), NEW d, NEW ok \in BOOLEAN
    PROVE  LET a == After(d, Head(s), ok, Tail(s))
           IN  /\ a \in Seq(Step)
               /\ Over(a, InitSteps) /\ EndsInitialized(a)
               /\ Has(a, "initialized") =>
                     /\ a = Tail(s) /\ Has(s, "initialized")
                     /\ ok \/ Head(s) = "initStepMode"
                     /\ Head(s) = "initExitSafeStart" => Has(a, "initEnterSafeStart")
  <1> DEFINE a == After(d, Head(s), ok, Tail(s))
             one == << "initFailed" >>
             exits == << "initExitSafeStart", "initFailed" >>
             enters == << "initEnterSafeStart", "initFailed" >>
  <1>1. /\ Tail(s) \in Seq(Step) /\ Head(s) \in InitSteps /\ Over(Tail(s), InitSteps)
        /\ \A x : Has(s, x) <=> Head(s) = x \/ Has(Tail(s), x)
    BY RestHas
  <1>2. /\ 1 \in DOMAIN s /\ Head(s) = s[1]
        /\ \A i \in DOMAIN Tail(s) : /\ i \in Nat \ {0} /\ i + 1 \in DOMAIN s
                                     /\ Tail(s)[i] = s[i + 1]
        /\ \A i \in DOMAIN s : i = 1 \/ (i - 1 \in DOMAIN Tail(s) /\ s[i] = Tail(s)[i - 1])
        /\ \A i \in DOMAIN s : i \in Nat \ {0}
    BY RestOf
  <1> DEFINE last == Len(Tail(s))
  <1>3. Len(s) = last + 1 /\ last \in Nat
    OBVIOUS
  <1> HIDE DEF last
  <1>4. EndsInitialized(Tail(s))
    <2> SUFFICES ASSUME NEW i \in DOMAIN Tail(s)
                 PROVE  /\ Tail(s)[i] \in {"initialized", "initFailed"} => i = Len(Tail(s))
                        /\ Tail(s)[i] = "initExitSafeStart" /\ Has(Tail(s), "initialized") =>
                              \E j \in DOMAIN Tail(s) : i < j /\ Tail(s)[j] = "initEnterSafeStart"
      BY DEF EndsInitialized
    <2>1. i + 1 \in DOMAIN s /\ Tail(s)[i] = s[i + 1] /\ i \in Nat
      BY <1>2
    <2>2. Tail(s)[i] \in {"initialized", "initFailed"} => i = Len(Tail(s))
      <3>1. s[i + 1] \in {"initialized", "initFailed"} => i + 1 = Len(s)
        BY <2>1 DEF EndsInitialized
      <3>2. i + 1 = Len(s) => i = last
        BY <1>3, <2>1
      <3>3. QED
        BY <2>1, <3>1, <3>2 DEF last
    <2>3. ASSUME Tail(s)[i] = "initExitSafeStart", Has(Tail(s), "initialized")
          PROVE  \E j \in DOMAIN Tail(s) : i < j /\ Tail(s)[j] = "initEnterSafeStart"
      <3>1. PICK j \in DOMAIN s : i + 1 < j /\ s[j] = "initEnterSafeStart"
        BY <1>1, <2>1, <2>3 DEF EndsInitialized
      <3>2. j # 1 /\ i < j - 1
        BY <1>2, <2>1, <3>1
      <3>3. QED
        BY <1>2, <3>1, <3>2
    <2>4. QED
      BY <2>2, <2>3
  <1>5. Has(Tail(s), "initialized") /\ Head(s) = "initExitSafeStart" =>
           Has(Tail(s), "initEnterSafeStart")
    <2> SUFFICES ASSUME Has(Tail(s), "initialized"), Head(s) = "initExitSafeStart"
                 PROVE  Has(Tail(s), "initEnterSafeStart")
      OBVIOUS
    <2>1. PICK j \in DOMAIN s : 1 < j /\ s[j] = "initEnterSafeStart"
      BY <1>1, <1>2 DEF EndsInitialized
    <2>2. QED
      BY <1>2, <2>1 DEF Has
  <1>6. /\ one \in Seq(Step) /\ Over(one, InitSteps) /\ EndsInitialized(one)
        /\ ~Has(one, "initialized")
    BY DEF Step, LocalSteps, Over, InitSteps, EndsInitialized, Has
  <1>7. /\ exits \in Seq(Step) /\ Over(exits, InitSteps) /\ EndsInitialized(exits)
        /\ ~Has(exits, "initialized")
    BY DEF Step, Transfers, Commands, LocalSteps, Over, InitSteps, EndsInitialized, Has
  <1>8. /\ enters \in Seq(Step) /\ Over(enters, InitSteps) /\ EndsInitialized(enters)
        /\ ~Has(enters, "initialized")
    BY DEF Step, Transfers, Commands, LocalSteps, Over, InitSteps, EndsInitialized, Has
  <1>9. \/ a = Tail(s) /\ (ok \/ Head(s) = "initStepMode")
        \/ a \in InitFailures
    BY <1>1, AfterInit
  <1>10. InitFailures = {one, exits, enters}
    BY DEF InitFailures
  <1> HIDE DEF a, one, exits, enters
  <1>11. QED
    BY <1>1, <1>4, <1>5, <1>6, <1>7, <1>8, <1>9, <1>10 DEF a
-----------------------------------------------------------------------------
(* The motor: each action keeps the invariant. *)

\* A transfer that works takes a start one step further.
LEMMA StartGoesOn ==
    ASSUME MotorTypeInv, StartedInv, Work # <<>>, Head(Work) \in Transfers,
           tic' = Effect(tic, Head(Work), sending["worker"]), Work' = Tail(Work),
           UNCHANGED <<sending, motorSpeed, offset, ownSpeed>>
    PROVE  StartedInv' /\ Work' # <<>>
  <1> DEFINE step == Head(Work)
  <1>1. /\ Work \in Seq(Step) /\ sending["worker"] \in Nat /\ tic \in TicStates
    BY DEF MotorTypeInv, Work, Thread
  <1>2. \A x : Has(Work, x) <=> step = x \/ Has(Work', x)
    BY <1>1, RestHas
  <1>3. /\ step \in StartSteps
        /\ step # "started" => InPlace(Work')
        /\ Place(step) < 8 => Has(Work', "rotationSpeed")
    BY <1>1, RestInPlace DEF StartedInv
  <1>4. step \in {"setTargetVelocity", "checkStill", "setStepMode", "configure",
                  "clearErrors", "exitSafeStart", "energize", "setRotationVelocity"}
    BY <1>3 DEF StartSteps, Transfers, Commands, StateReads
  <1>5. step # "setRotationVelocity" => Has(Work', "rotationSpeed")
    BY <1>3, <1>4 DEF Place
  <1>6. /\ step = "setRotationVelocity" => tic'.target = sending["worker"]
        /\ step = "exitSafeStart" => ~tic'.locked
        /\ tic'.locked => tic.locked
        /\ step = "energize" => tic'.energized
        /\ tic.energized => tic'.energized
    <2>1. step \in Transfers
      OBVIOUS
    <2>2. tic' = Effect(tic, step, sending["worker"])
      OBVIOUS
    <2> HIDE DEF step
    <2>3. QED
      BY <1>1, <1>4, <2>1, <2>2, EffectForm
  <1> HIDE DEF step
  <1>7. InPlace(Work') /\ Has(Work', "started")
    BY <1>3, <1>4 DEF InPlace
  <1>8. ~Has(Work', "sendSpeed") => ~Has(Work, "sendSpeed")
    BY <1>2, <1>4
  <1>9. Sum' = Sum /\ Accepted(Sum)' = Accepted(Sum) /\ ownSpeed' = ownSpeed
        /\ sending' = sending
    BY DEF Sum, Accepted
  <1>10. ~Has(Work', "sendSpeed") => (Accepted(Sum)' => ownSpeed' = Sum')
    BY <1>8, <1>9 DEF StartedInv
  <1>11. Has(Work', "setTargetVelocity") => ~Has(Work', "sendSpeed")
    BY <1>2 DEF StartedInv
  <1>12. ~Has(Work', "exitSafeStart") => ~tic'.locked
    BY <1>2, <1>6 DEF StartedInv
  <1>13. ~Has(Work', "energize") => tic'.energized
    BY <1>2, <1>6 DEF StartedInv
  <1>14. Has(Work', "setRotationVelocity") =>
            sending'["worker"] = rpmToMicrostepsPer10kSeconds(ownSpeed')
    BY <1>2, <1>9 DEF StartedInv
  <1>15. ~Has(Work', "rotationSpeed") /\ ~Has(Work', "setRotationVelocity") =>
            tic'.target = rpmToMicrostepsPer10kSeconds(ownSpeed')
    BY <1>2, <1>5, <1>6, <1>9 DEF StartedInv
  <1>16. Work' # <<>>
    BY <1>7, NoStep
  <1>17. QED
    BY <1>7, <1>10, <1>11, <1>12, <1>13, <1>14, <1>15, <1>16 DEF StartedInv

LEMMA WorkerStepIs ==
    ASSUME MotorIInv, Work # <<>>
    PROVE  /\ Work \in Seq(Step) /\ IoWork \in Seq(Step)
           /\ ~up => Head(Work) \in InitSteps
           /\ up => Head(Work) \in StopSteps \cup Duties(motor)
           /\ motor # "Running"
  <1>1. Work \in Seq(Step) /\ IoWork \in Seq(Step)
    BY DEF MotorIInv, MotorTypeInv, Work, IoWork, Thread
  <1>2. QED
    BY <1>1, RestHas DEF MotorIInv, WorkInv

LEMMA WorkerTransfers ==
    ASSUME MotorIInv, ~Crashed, MotorTransfer("worker")
    PROVE  MotorIInv'
  <1> DEFINE step == Head(Work)
  <1>1. PICK ok \in BOOLEAN :
           /\ ~ok => faults < MaxFaults
           /\ faults' = IF ok THEN faults ELSE faults + 1
           /\ tic' = Controller(tic, NextStep("worker"), ok, sending["worker"])
           /\ steps' = [steps EXCEPT !["worker"] =
                           After(tic, NextStep("worker"), ok, Rest("worker"))]
    BY DEF MotorTransfer
  <1>2. /\ Work # <<>> /\ step \in Transfers /\ tic.there
        /\ tic' = Controller(tic, step, ok, sending["worker"])
    BY <1>1 DEF MotorTransfer, AtRest, NextStep, Crashed, Thread, Work
  <1>3. /\ motor' = motor /\ events' = events /\ sending' = sending
        /\ motorSpeed' = motorSpeed /\ offset' = offset /\ ownSpeed' = ownSpeed
        /\ up' = up /\ crossed' = crossed
        /\ motorOrders' = motorOrders /\ requests' = requests
    BY DEF MotorTransfer
  <1>4. /\ Work' = After(tic, step, ok, Tail(Work)) /\ IoWork' = IoWork
        /\ steps' = [steps EXCEPT !["worker"] = Work']
    BY <1>1 DEF Work, IoWork, Rest, NextStep, MotorIInv, MotorTypeInv, Thread
  <1>5. /\ Work \in Seq(Step) /\ IoWork \in Seq(Step) /\ sending["worker"] \in Nat
        /\ tic \in TicStates /\ faults \in 0 .. MaxFaults /\ MaxFaults \in Nat
        /\ steps \in [Thread -> Seq(Step)] /\ up \in BOOLEAN /\ crossed \in BOOLEAN
    BY MotorRequestsAssumption DEF MotorIInv, MotorTypeInv, Work, IoWork, Thread
  <1>6. /\ ~up => step \in InitSteps
        /\ up => step \in StopSteps \cup Duties(motor)
        /\ motor # "Running"
    BY <1>2, WorkerStepIs
  <1>7. /\ tic' \in TicStates /\ tic'.safeStart = tic.safeStart
        /\ ok => tic' = Effect(tic, step, sending["worker"])
        /\ ~ok /\ step # "setStepMode" => tic' = tic
    BY <1>2, <1>5, ControllerForm
  <1>8. ok => /\ tic'.there
              /\ tic'.velocity = 0 \/ tic'.velocity = tic.velocity
              /\ \/ tic'.target = 0 \/ tic'.target = tic.target
                 \/ step \in {"setTargetVelocity", "setRotationVelocity"}
              /\ step \in {"enterSafeStart", "initEnterSafeStart"} /\ tic.safeStart =>
                    tic'.locked /\ tic'.velocity = 0
              /\ step = "reset" /\ tic.safeStart => tic'.locked
              /\ tic.locked => \/ tic'.locked
                               \/ step \in {"exitSafeStart", "initExitSafeStart", "reset"}
              /\ step = "deEnergize" => ~tic'.energized /\ tic'.velocity = 0
              /\ tic'.energized => tic.energized \/ step \in {"energize", "reset"}
    <2> HIDE DEF step
    <2>1. SUFFICES ASSUME ok
                   PROVE  /\ tic'.there
                          /\ tic'.velocity = 0 \/ tic'.velocity = tic.velocity
                          /\ \/ tic'.target = 0 \/ tic'.target = tic.target
                             \/ step \in {"setTargetVelocity", "setRotationVelocity"}
                          /\ step \in {"enterSafeStart", "initEnterSafeStart"} /\ tic.safeStart =>
                                tic'.locked /\ tic'.velocity = 0
                          /\ step = "reset" /\ tic.safeStart => tic'.locked
                          /\ tic.locked =>
                                \/ tic'.locked
                                \/ step \in {"exitSafeStart", "initExitSafeStart", "reset"}
                          /\ step = "deEnergize" => ~tic'.energized /\ tic'.velocity = 0
                          /\ tic'.energized => tic.energized \/ step \in {"energize", "reset"}
      OBVIOUS
    <2>2. tic' = Effect(tic, step, sending["worker"]) /\ step \in Transfers /\ tic.there
      BY <1>2, <1>7, <2>1
    <2>3. QED
      BY <1>5, <2>2, EffectForm
  <1>9. /\ faults' \in 0 .. MaxFaults
        /\ faults' = 0 => ok /\ faults = 0
        /\ ~ok => faults' = faults + 1
        /\ ok => faults' = faults
    BY <1>1, <1>5
  <1> HIDE DEF step
  <1>10. CASE ~up
    <2>1. step \in InitSteps /\ motor = "Off" /\ IoWork = <<>> /\ events = <<>>
          /\ Over(Work, InitSteps) /\ EndsInitialized(Work)
      BY <1>6, <1>10 DEF MotorIInv, WorkInv
    <2>2. /\ Work' \in Seq(Step) /\ Over(Work', InitSteps) /\ EndsInitialized(Work')
          /\ Has(Work', "initialized") =>
                /\ Work' = Tail(Work) /\ Has(Work, "initialized")
                /\ ok \/ step = "initStepMode"
                /\ step = "initExitSafeStart" => Has(Work', "initEnterSafeStart")
      BY <1>2, <1>4, <1>5, <2>1, InitLeft DEF step
    <2>3. \A x : Has(Work, x) <=> step = x \/ Has(Tail(Work), x)
      BY <1>2, <1>5, RestHas DEF step
    <2>4. MotorTypeInv'
      <3>1. steps' \in [Thread -> Seq(Step)]
        BY <1>4, <1>5, <2>2
      <3>2. QED
        BY <1>3, <1>7, <1>9, <3>1 DEF MotorIInv, MotorTypeInv
    <2>5. WorkInv'
      BY <1>3, <1>4, <1>10, <2>1, <2>2 DEF WorkInv, MotorIInv
    <2>6. InitInv'
      <3>1. tic.velocity = 0 /\ tic.target = 0
        BY <1>10 DEF MotorIInv, InitInv
      <3>2. step \notin {"setStepMode", "exitSafeStart", "setTargetVelocity",
                         "setRotationVelocity"}
        BY <2>1 DEF InitSteps
      <3>3. tic'.velocity = 0 /\ tic'.target = 0 /\ tic'.there
        BY <1>2, <1>7, <1>8, <3>1, <3>2
      <3>4. ASSUME Has(Work', "initialized"), ~Has(Work', "initEnterSafeStart"), tic'.safeStart
            PROVE  tic'.locked
        <4>1. Has(Work, "initialized") /\ step # "initExitSafeStart" /\ tic.safeStart
          BY <1>7, <2>2, <3>4
        <4>2. CASE step = "initEnterSafeStart"
          BY <1>8, <2>2, <3>4, <4>1, <4>2
        <4>3. CASE step # "initEnterSafeStart"
          <5>1. ~Has(Work, "initEnterSafeStart")
            BY <2>2, <2>3, <3>4, <4>3
          <5>2. tic.locked
            BY <1>10, <4>1, <5>1 DEF MotorIInv, InitInv
          <5>3. QED
            BY <1>7, <1>8, <3>2, <4>1, <5>2
        <4>4. QED
          BY <4>2, <4>3
      <3>5. QED
        BY <3>3, <3>4 DEF InitInv
    <2>7. StillInv'
      BY <1>3, <1>10 DEF StillInv
    <2>8. UndisturbedInv'
      BY <1>3, <1>4, <1>10, <2>1 DEF UndisturbedInv, StartInv, TurnInv
    <2>9. QED
      BY <2>4, <2>5, <2>6, <2>7, <2>8 DEF MotorIInv
  <1>11. CASE up
    <2>1. step \notin InitSteps
      BY <1>6, <1>11 DEF Duties, StopSteps, StartSteps, InitSteps
    <2>2. /\ Work' \in Seq(Step)
          /\ \A X : /\ Over(Work, X) /\ StopSteps \subseteq X
                    /\ step \in RotateTransfers => "startFailed" \in X
                    => Over(Work', X)
          /\ EndsLocked(Work) => EndsLocked(Work')
          /\ EndsLocked(Work) /\ step \notin RotateTransfers /\ ~Has(Work', "deEnergize") =>
                /\ Has(Work, "deEnergize") => /\ step = "deEnergize"
                                              /\ Has(Work', "enterSafeStart")
                /\ Has(Work', "enterSafeStart") => Has(Work, "enterSafeStart")
                /\ Has(Work, "enterSafeStart") =>
                      Has(Work', "enterSafeStart") \/ step = "enterSafeStart"
      BY <1>2, <1>4, <1>5, <2>1, AfterLeft DEF step
    <2>3. EndsLocked(Work) /\ Over(Work, StopSteps \cup Duties(motor))
      BY <1>11 DEF MotorIInv, WorkInv
    <2>4. step \in RotateTransfers => motor = "Starting"
      BY <1>6, <1>11 DEF Duties, StopSteps, RotateTransfers
    <2>5. MotorTypeInv'
      <3>1. steps' \in [Thread -> Seq(Step)]
        BY <1>4, <1>5, <2>2
      <3>2. QED
        BY <1>3, <1>7, <1>9, <3>1 DEF MotorIInv, MotorTypeInv
    <2>6. WorkInv'
      <3>1. step \in RotateTransfers => "startFailed" \in StopSteps \cup Duties(motor)
        BY <2>4 DEF Duties
      <3>2. Over(Work', StopSteps \cup Duties(motor))
        BY <2>2, <2>3, <3>1
      <3>3. QED
        BY <1>3, <1>4, <1>6, <1>11, <2>2, <2>3, <3>2 DEF WorkInv, MotorIInv
    <2>7. InitInv'
      BY <1>3, <1>11 DEF InitInv
    <2>8. StillInv'
      <3> SUFFICES ASSUME tic'.safeStart, faults' <= 1, motor \notin {"Starting", "Running"},
                          ~Has(Work', "deEnergize")
                   PROVE  IF Has(Work', "enterSafeStart") THEN faults' = 1 \/ PoweredOff'
                          ELSE Blocked'
        BY <1>3 DEF StillInv
      <3>1. step \in StopSteps \cup {"getSpeed"}
        BY <1>2, <1>6, <1>11 DEF Duties, Transfers, Commands, StateReads
      <3>2. /\ step \notin RotateTransfers /\ step # "setStepMode"
            /\ step \notin {"exitSafeStart", "initExitSafeStart", "reset", "energize"}
        BY <3>1 DEF StopSteps, RotateTransfers
      <3>3. /\ Blocked => Blocked'
            /\ PoweredOff => PoweredOff'
            /\ PoweredOff => Blocked
        BY <1>2, <1>5, <1>7, <1>8, <3>2 DEF Blocked, PoweredOff, Normal, TicStates
      <3>4. faults <= 1 /\ tic.safeStart /\ (~ok => faults' = 1 /\ faults = 0)
        BY <1>5, <1>7, <1>9
      <3>5. CASE Has(Work, "deEnergize")
        <4>1. step = "deEnergize" /\ Has(Work', "enterSafeStart")
          BY <2>2, <2>3, <3>2, <3>5
        <4>2. ok => PoweredOff'
          BY <1>8, <4>1 DEF PoweredOff
        <4>3. QED
          BY <3>4, <4>1, <4>2
      <3>6. CASE ~Has(Work, "deEnergize")
        <4>1. IF Has(Work, "enterSafeStart") THEN faults = 1 \/ PoweredOff ELSE Blocked
          BY <1>11, <3>4, <3>6 DEF MotorIInv, StillInv
        <4>2. CASE Has(Work', "enterSafeStart")
          <5>1. faults = 1 \/ PoweredOff
            BY <2>2, <2>3, <3>2, <4>1, <4>2
          <5>2. QED
            BY <1>9, <3>3, <3>4, <4>2, <5>1
        <4>3. CASE ~Has(Work', "enterSafeStart") /\ Has(Work, "enterSafeStart")
          <5>1. step = "enterSafeStart"
            BY <2>2, <2>3, <3>2, <4>3
          <5>2. ok => Blocked'
            <6>1. ok => tic'.locked /\ tic'.velocity = 0
              BY <1>8, <3>4, <5>1
            <6>2. QED
              BY <6>1 DEF Blocked, Normal
          <5>3. ~ok => Blocked'
            BY <3>3, <3>4, <4>1, <4>3
          <5>4. QED
            BY <4>3, <5>2, <5>3
        <4>4. CASE ~Has(Work', "enterSafeStart") /\ ~Has(Work, "enterSafeStart")
          BY <3>3, <4>1, <4>4
        <4>5. QED
          BY <4>2, <4>3, <4>4
      <3>7. QED
        BY <3>5, <3>6
    <2>9. UndisturbedInv'
      <3> SUFFICES ASSUME faults' = 0 PROVE UndisturbedInv'
        BY DEF UndisturbedInv
      <3>1. ok /\ faults = 0 /\ tic'.there
        BY <1>8, <1>9
      <3>2. /\ IoWork \in {<<>>, << "clamp", "sendSpeed" >>, << "sendSpeed" >>,
                           << "setTargetVelocity" >>}
            /\ ~crossed => /\ IoWork = <<>> /\ StartInv
        BY <1>2, <3>1 DEF MotorIInv, UndisturbedInv
      <3>3. ASSUME ~crossed, motor = "Starting"
            PROVE  Work' # <<>> /\ (Work' = << "startFailed" >> \/ StartedInv')
        <4>1. Work = << "startFailed" >> \/ StartedInv
          BY <1>2, <3>2, <3>3 DEF StartInv
        <4>2. StartedInv
          <5>1. "startFailed" \notin Transfers
            BY DEF Transfers, Commands, StateReads
          <5>2. Work # << "startFailed" >>
            BY <1>2, <5>1, OneStep DEF step
          <5>3. QED
            BY <4>1, <5>2
        <4>3. step \in StartSteps
          BY <1>2, <1>5, <4>2, RestInPlace DEF StartedInv, step
        <4>4. Work' = Tail(Work) \/ Work' = Failed
          <5> DEFINE rest == Tail(Work)
          <5>1. Work' = After(tic, step, ok, rest) /\ ok
            BY <1>4, <3>1
          <5> HIDE DEF rest
          <5>2. ASSUME step \in RotateTransfers PROVE Work' = rest \/ Work' = Failed
            BY <5>1, <5>2, AfterRotate
          <5>3. ASSUME step \in {"clearErrors"} PROVE Work' = rest
            BY <5>1, <5>3, AfterClearing
          <5>4. ASSUME step \in {"setTargetVelocity"} PROVE Work' = rest
            BY <5>1, <5>4, AfterSpeedSent
          <5>5. Work' = rest \/ Work' = Failed
            BY <1>2, <4>3, <5>2, <5>3, <5>4
               DEF StartSteps, RotateTransfers, Transfers, Commands, StateReads
          <5>6. QED
            BY <5>5 DEF rest
        <4>5. CASE Work' = Tail(Work)
          BY <1>2, <1>3, <1>7, <3>1, <4>2, <4>5, StartGoesOn DEF step, MotorIInv
        <4>6. CASE Work' = Failed
          BY <4>6, OneStep DEF Failed
        <4>7. QED
          BY <4>4, <4>5, <4>6
      <3>4. crossed \/ (StartInv' /\ TurnInv')
        BY <1>3, <1>6, <3>3 DEF StartInv, TurnInv
      <3>5. QED
        BY <1>3, <1>4, <3>1, <3>2, <3>4 DEF UndisturbedInv
    <2>10. QED
      BY <2>5, <2>6, <2>7, <2>8, <2>9 DEF MotorIInv
  <1>12. QED
    BY <1>5, <1>10, <1>11

\* What the actions of the table give the worker to do.
LEMMA ActionForm ==
    ASSUME NEW action \in {"switchOn", "startMotor", "stopMotor", "switchOff",
                           "handleError", "none"},
           NEW a, a = MotorAction(action)
    PROVE  /\ a \in Seq(Step) /\ EndsLocked(a)
           /\ action = "none" => a = <<>>
           /\ action = "switchOn" => /\ Over(a, {"getSpeed", "resetSpeeds"})
                                     /\ ~Has(a, "deEnergize") /\ ~Has(a, "enterSafeStart")
           /\ action \in {"stopMotor", "switchOff", "handleError"} =>
                 Has(a, "deEnergize") /\ Over(a, StopSteps \cup {"stopped"})
           /\ action = "startMotor" => Over(a, StartSteps) /\ a # <<>>
  <1>1. CASE action = "none"
    <2>1. a = <<>>
      BY <1>1 DEF MotorAction
    <2>2. QED
      BY <1>1, <2>1, NoStep
  <1>2. CASE action = "switchOn"
    <2> DEFINE gets == << "getSpeed" >>
               resets == << "resetSpeeds" >>
    <2>1. a = gets \o resets
      BY <1>2 DEF MotorAction, Reset
    <2>2. /\ gets \in Seq(Step) /\ EndsLocked(gets)
          /\ \A y : Has(gets, y) <=> "getSpeed" = y
          /\ \A X : Over(gets, X) <=> "getSpeed" \in X
      BY OneStep DEF Step, Transfers, StateReads
    <2>3. /\ resets \in Seq(Step) /\ EndsLocked(resets)
          /\ \A y : Has(resets, y) <=> "resetSpeeds" = y
          /\ \A X : Over(resets, X) <=> "resetSpeeds" \in X
      BY OneStep DEF Step, LocalSteps
    <2> HIDE DEF gets, resets
    <2>4. /\ a \in Seq(Step) /\ EndsLocked(a)
          /\ \A x : Has(a, x) <=> Has(gets, x) \/ Has(resets, x)
          /\ \A X : Over(a, X) <=> Over(gets, X) /\ Over(resets, X)
      BY <2>1, <2>2, <2>3, Joined
    <2>5. Over(a, {"getSpeed", "resetSpeeds"})
      BY <2>2, <2>3, <2>4
    <2>6. ~Has(a, "deEnergize") /\ ~Has(a, "enterSafeStart")
      BY <2>2, <2>3, <2>4
    <2>7. QED
      BY <1>2, <2>4, <2>5, <2>6
  <1>3. CASE action = "stopMotor"
    <2> DEFINE stops == Stop(FALSE)
               tells == << "stopped" >>
    <2>1. a = stops \o tells
      BY <1>3 DEF MotorAction
    <2>2. /\ stops \in Seq(Step) /\ EndsLocked(stops) /\ Has(stops, "deEnergize")
          /\ Over(stops, StopSteps)
      BY StopForm
    <2>3. Over(stops, StopSteps \cup {"stopped"})
      BY <2>2 DEF Over
    <2>4. /\ tells \in Seq(Step) /\ EndsLocked(tells)
          /\ \A X : Over(tells, X) <=> "stopped" \in X
      BY OneStep DEF Step, LocalSteps
    <2> HIDE DEF stops, tells
    <2>5. /\ a \in Seq(Step) /\ EndsLocked(a)
          /\ \A x : Has(a, x) <=> Has(stops, x) \/ Has(tells, x)
          /\ \A X : Over(a, X) <=> Over(stops, X) /\ Over(tells, X)
      BY <2>1, <2>2, <2>4, Joined
    <2>6. Over(a, StopSteps \cup {"stopped"}) /\ Has(a, "deEnergize")
      BY <2>2, <2>3, <2>4, <2>5
    <2>7. QED
      BY <1>3, <2>5, <2>6
  <1>4. CASE action = "switchOff"
    <2> DEFINE stops == Stop(FALSE)
    <2>1. a = stops
      BY <1>4 DEF MotorAction
    <2>2. /\ stops \in Seq(Step) /\ EndsLocked(stops) /\ Has(stops, "deEnergize")
          /\ Over(stops, StopSteps)
      BY StopForm
    <2>3. Over(stops, StopSteps \cup {"stopped"})
      BY <2>2 DEF Over
    <2> HIDE DEF stops
    <2>4. QED
      BY <1>4, <2>1, <2>2, <2>3
  <1>5. CASE action = "handleError"
    <2> DEFINE stops == Stop(TRUE)
    <2>1. a = stops
      BY <1>5 DEF MotorAction
    <2>2. /\ stops \in Seq(Step) /\ EndsLocked(stops) /\ Has(stops, "deEnergize")
          /\ Over(stops, StopSteps)
      BY StopForm
    <2>3. Over(stops, StopSteps \cup {"stopped"})
      BY <2>2 DEF Over
    <2> HIDE DEF stops
    <2>4. QED
      BY <1>5, <2>1, <2>2, <2>3
  <1>6. CASE action = "startMotor"
    <2>1. /\ a \in Seq(Step) /\ a # <<>> /\ InPlace(a) /\ EndsLocked(a)
      BY <1>6, StartForm
    <2>2. Over(a, StartSteps)
      BY <2>1 DEF InPlace
    <2>3. QED
      BY <1>6, <2>1, <2>2
  <1>7. QED
    BY <1>1, <1>2, <1>3, <1>4, <1>5, <1>6

LEMMA TailEvents ==
    ASSUME MotorTypeInv, events # <<>>
    PROVE  /\ Tail(events) \in Seq(MotorEvents) /\ Head(events) \in MotorEvents
           /\ \A x : Has(events, x) <=> Head(events) = x \/ Has(Tail(events), x)
  BY RestHas DEF MotorTypeInv

LEMMA WorkerDispatches ==
    ASSUME MotorIInv, MotorDispatch
    PROVE  MotorIInv'
  <1>1. /\ Work = <<>> /\ events # <<>> /\ events' = Tail(events)
        /\ sending' = sending /\ motorSpeed' = motorSpeed /\ offset' = offset
        /\ ownSpeed' = ownSpeed /\ tic' = tic /\ up' = up /\ crossed' = crossed
        /\ motorOrders' = motorOrders /\ requests' = requests /\ faults' = faults
    BY DEF MotorDispatch, AtRest, Work
  <1>2. \/ /\ {t \in MotorTable : t.state = motor /\ t.event = Head(events)} = {}
           /\ motor' = motor /\ steps' = steps
        \/ \E t \in MotorTable :
              /\ t.state = motor /\ t.event = Head(events) /\ motor' = t.next
              /\ steps' = [steps EXCEPT !["worker"] = MotorAction(t.action)]
    BY DEF MotorDispatch
  <1>3. up
    BY <1>1 DEF MotorIInv, WorkInv
  <1>4. /\ events' \in Seq(MotorEvents)
        /\ \A x : Has(events, x) <=> Head(events) = x \/ Has(events', x)
    BY <1>1, TailEvents DEF MotorIInv
  <1>5. steps \in [Thread -> Seq(Step)] /\ motor \in MotorStates /\ "worker" \in Thread
    BY DEF MotorIInv, MotorTypeInv, Thread
  <1>6. \A x : ~Has(Work, x)
    BY <1>1, NoStep
  <1>7. Sum' = Sum /\ \A sum : Follows(sum)' = Follows(sum)
    BY <1>1 DEF Sum, Follows, Accepted
  <1>8. ASSUME {t \in MotorTable : t.state = motor /\ t.event = Head(events)} = {},
               motor' = motor, steps' = steps
        PROVE  MotorIInv'
    <2>1. Head(events) # "ErrorOccurred"
      BY <1>5, <1>8, MotorHeedsErrors
    <2>2. Work' = Work /\ IoWork' = IoWork
      BY <1>8 DEF Work, IoWork
    <2>3. MotorTypeInv'
      BY <1>1, <1>4, <1>8 DEF MotorIInv, MotorTypeInv
    <2>4. WorkInv'
      BY <1>1, <1>3, <1>8, <2>2 DEF MotorIInv, WorkInv
    <2>5. InitInv' /\ StillInv'
      BY <1>1, <1>3, <1>8, <2>2 DEF MotorIInv, InitInv, StillInv, Blocked, PoweredOff
    <2>6. TurnInv => TurnInv'
      BY <1>1, <1>4, <1>7, <1>8, <2>1, <2>2 DEF TurnInv
    <2>7. UndisturbedInv'
      BY <1>1, <1>8, <2>2, <2>6 DEF MotorIInv, UndisturbedInv, StartInv
    <2>8. QED
      BY <2>3, <2>4, <2>5, <2>7 DEF MotorIInv
  <1>9. ASSUME NEW t \in MotorTable, t.state = motor, t.event = Head(events),
               motor' = t.next,
               steps' = [steps EXCEPT !["worker"] = MotorAction(t.action)]
        PROVE  MotorIInv'
    <2>1. Work' = MotorAction(t.action) /\ IoWork' = IoWork
      BY <1>5, <1>9 DEF Work, IoWork, Thread
    <2>2. t.action \in {"switchOn", "startMotor", "stopMotor", "switchOff", "handleError",
                        "none"}
      BY MotorEntry
    <2>3. /\ Work' \in Seq(Step) /\ EndsLocked(Work')
          /\ t.action = "none" => Work' = <<>>
          /\ t.action = "switchOn" =>
                /\ Over(Work', {"getSpeed", "resetSpeeds"})
                /\ ~Has(Work', "deEnergize") /\ ~Has(Work', "enterSafeStart")
          /\ t.action \in {"stopMotor", "switchOff", "handleError"} =>
                Has(Work', "deEnergize") /\ Over(Work', StopSteps \cup {"stopped"})
          /\ t.action = "startMotor" => Over(Work', StartSteps) /\ Work' # <<>>
      BY <2>1, <2>2, ActionForm
    <2>4. /\ motor' \in MotorStates
          /\ t.action = "switchOn" => motor' = "Initialization" /\ motor \notin AtWork
          /\ t.action = "startMotor" <=> motor' = "Starting"
          /\ t.action = "stopMotor" => motor' = "Stopping"
          /\ t.action = "switchOff" => motor' = "Off"
          /\ t.action = "handleError" => motor' = "Error"
          /\ t.action = "none" => (motor' = "Running" <=> motor \in AtWork)
          /\ Head(events) = "ErrorOccurred" => motor' = "Error"
      BY <1>9, MotorEntry
    <2>5. MotorTypeInv'
      <3>1. steps' \in [Thread -> Seq(Step)]
        BY <1>5, <1>9, <2>1, <2>3
      <3>2. QED
        BY <1>1, <1>4, <2>4, <3>1 DEF MotorIInv, MotorTypeInv
    <2>6. WorkInv'
      <3>1. Over(Work', StopSteps \cup Duties(motor'))
        <4>1. CASE t.action = "none"
          BY <2>3, <4>1, NoStep
        <4>2. CASE t.action = "switchOn"
          BY <2>3, <2>4, <4>2 DEF Over, Duties
        <4>3. CASE t.action = "startMotor"
          BY <2>3, <2>4, <4>3 DEF Over, Duties
        <4>4. CASE t.action \in {"stopMotor", "switchOff", "handleError"}
          BY <2>3, <2>4, <4>4 DEF Over, Duties
        <4>5. QED
          BY <2>2, <4>1, <4>2, <4>3, <4>4
      <3>2. motor' = "Running" => Work' = <<>>
        BY <2>2, <2>3, <2>4
      <3>3. QED
        BY <1>1, <1>3, <2>1, <2>3, <3>1, <3>2 DEF MotorIInv, WorkInv
    <2>7. InitInv'
      BY <1>1, <1>3 DEF InitInv
    <2>8. StillInv'
      <3>1. Blocked' = Blocked
        BY <1>1 DEF Blocked, Normal
      <3>2. SUFFICES ASSUME tic.safeStart, faults <= 1, motor' \notin {"Starting", "Running"},
                            ~Has(Work', "deEnergize")
                     PROVE  ~Has(Work', "enterSafeStart") /\ Blocked
        BY <1>1, <3>1 DEF StillInv
      <3>3. motor \notin AtWork /\ ~Has(Work', "enterSafeStart")
        <4>1. t.action \in {"none", "switchOn"}
          BY <2>2, <2>3, <2>4, <3>2
        <4>2. CASE t.action = "none"
          BY <2>3, <2>4, <3>2, <4>2, NoStep
        <4>3. CASE t.action = "switchOn"
          BY <2>3, <2>4, <4>3
        <4>4. QED
          BY <4>1, <4>2, <4>3
      <3>4. Blocked
        BY <1>3, <1>6, <3>2, <3>3 DEF MotorIInv, StillInv, AtWork
      <3>5. QED
        BY <3>3, <3>4
    <2>9. StartInv'
      <3>1. SUFFICES ASSUME motor' = "Starting" PROVE StartedInv'
        BY DEF StartInv
      <3>2. Work' = MotorAction("startMotor")
        BY <2>1, <2>4, <3>1
      <3>3. /\ InPlace(Work') /\ Has(Work', "sendSpeed") /\ Has(Work', "exitSafeStart")
            /\ Has(Work', "energize") /\ Has(Work', "rotationSpeed")
            /\ ~Has(Work', "setRotationVelocity") /\ ~Has(Work', "setTargetVelocity")
        BY <3>2, StartForm
      <3>4. QED
        BY <3>3 DEF StartedInv
    <2>10. TurnInv => TurnInv'
      <3>1. SUFFICES ASSUME TurnInv, motor' \in {"Starting", "Running"}, Work' = <<>>,
                            ~Has(events', "ErrorOccurred")
                     PROVE  motor \in AtWork /\ ~Has(events, "ErrorOccurred")
        BY <1>1, <1>7, <2>1 DEF TurnInv, AtWork
      <3>2. t.action = "none"
        BY <2>2, <2>3, <2>4, <3>1, NoStep
      <3>3. motor' = "Running"
        BY <2>4, <3>1, <3>2
      <3>4. QED
        BY <1>4, <2>4, <3>1, <3>2, <3>3
    <2>11. UndisturbedInv'
      BY <1>1, <2>1, <2>9, <2>10 DEF MotorIInv, UndisturbedInv
    <2>12. QED
      BY <2>5, <2>6, <2>7, <2>8, <2>11 DEF MotorIInv
  <1>10. QED
    BY <1>2, <1>8, <1>9

\* What does not touch the controller leaves it still.
LEMMA LeavesController ==
    ASSUME MotorIInv, tic' = tic, up' = up, motor' = motor, faults' = faults, Work' = Work
    PROVE  InitInv' /\ StillInv'
  <1>1. Blocked' = Blocked /\ PoweredOff' = PoweredOff
    BY DEF Blocked, PoweredOff
  <1>2. InitInv'
    BY DEF MotorIInv, InitInv
  <1>3. StillInv'
    BY <1>1 DEF MotorIInv, StillInv
  <1>4. QED
    BY <1>2, <1>3

LEMMA VelocityIsNatural ==
    ASSUME NEW n \in Nat
    PROVE  rpmToMicrostepsPer10kSeconds(n) \in Nat
  BY DEF rpmToMicrostepsPer10kSeconds, MicroStepsPerRound, SecondsPerMinute

IoSteps == {"clamp", "sendSpeed", "setTargetVelocity"} \cup StopSteps

LEMMA IoStepIs ==
    ASSUME MotorIInv, IoWork # <<>>
    PROVE  /\ up /\ IoWork \in Seq(Step) /\ Head(IoWork) \in IoSteps
           /\ Over(IoWork, IoSteps)
  <1>1. IoWork \in Seq(Step)
    BY DEF MotorIInv, MotorTypeInv, IoWork, Thread
  <1>2. up /\ Over(IoWork, IoSteps)
    BY DEF MotorIInv, WorkInv, MotorTypeInv, IoSteps
  <1>3. QED
    BY <1>1, <1>2, RestHas

LEMMA IoTransfers ==
    ASSUME MotorIInv, ~Crashed, MotorTransfer("io")
    PROVE  MotorIInv'
  <1> DEFINE step == Head(IoWork)
  <1>1. PICK ok \in BOOLEAN :
           /\ ~ok => faults < MaxFaults
           /\ faults' = IF ok THEN faults ELSE faults + 1
           /\ tic' = Controller(tic, NextStep("io"), ok, sending["io"])
           /\ steps' = [steps EXCEPT !["io"] = After(tic, NextStep("io"), ok, Rest("io"))]
    BY DEF MotorTransfer
  <1>2. /\ IoWork # <<>> /\ step \in Transfers /\ tic.there
        /\ tic' = Controller(tic, step, ok, sending["io"])
    BY <1>1 DEF MotorTransfer, AtRest, NextStep, Crashed, Thread, IoWork
  <1>3. /\ motor' = motor /\ events' = events /\ sending' = sending
        /\ motorSpeed' = motorSpeed /\ offset' = offset /\ ownSpeed' = ownSpeed
        /\ up' = up /\ crossed' = crossed
        /\ motorOrders' = motorOrders /\ requests' = requests
    BY DEF MotorTransfer
  <1>4. /\ IoWork' = After(tic, step, ok, Tail(IoWork)) /\ Work' = Work
        /\ steps' = [steps EXCEPT !["io"] = IoWork']
    BY <1>1 DEF Work, IoWork, Rest, NextStep, MotorIInv, MotorTypeInv, Thread
  <1>5. /\ sending["io"] \in Nat
        /\ tic \in TicStates /\ faults \in 0 .. MaxFaults /\ MaxFaults \in Nat
        /\ steps \in [Thread -> Seq(Step)] /\ up \in BOOLEAN /\ crossed \in BOOLEAN
    BY MotorRequestsAssumption DEF MotorIInv, MotorTypeInv, Thread
  <1>6. up /\ IoWork \in Seq(Step) /\ step \in IoSteps /\ Over(IoWork, IoSteps)
    BY <1>2, IoStepIs
  <1> HIDE DEF step
  <1>7. /\ step \notin InitSteps /\ step \notin RotateTransfers
        /\ step \notin {"setStepMode", "exitSafeStart", "initExitSafeStart", "reset",
                        "energize"}
    BY <1>2, <1>6
       DEF IoSteps, StopSteps, InitSteps, RotateTransfers, Transfers, Commands, StateReads
  <1>8. /\ IoWork' \in Seq(Step) /\ Over(IoWork', IoSteps)
    <2>1. StopSteps \subseteq IoSteps
      BY DEF IoSteps
    <2>2. QED
      BY <1>2, <1>4, <1>6, <1>7, <2>1, AfterLeft DEF step
  <1>9. /\ tic' \in TicStates /\ tic'.safeStart = tic.safeStart
        /\ ok => tic' = Effect(tic, step, sending["io"])
        /\ ~ok => tic' = tic
    BY <1>2, <1>5, <1>7, ControllerForm
  <1>10. ok => /\ tic'.there
               /\ tic'.velocity = 0 \/ tic'.velocity = tic.velocity
               /\ tic.locked => tic'.locked
               /\ tic'.energized => tic.energized
               /\ step = "setTargetVelocity" => /\ tic'.target = sending["io"]
                                                /\ tic'.locked => tic.locked
                                                /\ tic.energized => tic'.energized
    <2> SUFFICES ASSUME ok
                 PROVE  /\ tic'.there
                        /\ tic'.velocity = 0 \/ tic'.velocity = tic.velocity
                        /\ tic.locked => tic'.locked
                        /\ tic'.energized => tic.energized
                        /\ step = "setTargetVelocity" =>
                              /\ tic'.target = sending["io"]
                              /\ tic'.locked => tic.locked
                              /\ tic.energized => tic'.energized
      OBVIOUS
    <2>1. tic' = Effect(tic, step, sending["io"]) /\ step \in Transfers /\ tic.there
      BY <1>2, <1>9
    <2>2. QED
      BY <1>5, <1>7, <2>1, EffectForm
  <1>11. /\ faults' \in 0 .. MaxFaults
         /\ faults' = 0 => ok /\ faults = 0
         /\ ~ok => faults' = faults + 1
         /\ ok => faults' = faults
    BY <1>1, <1>5
  <1>12. MotorTypeInv'
    <2>1. steps' \in [Thread -> Seq(Step)]
      BY <1>4, <1>5, <1>8
    <2>2. QED
      BY <1>3, <1>9, <1>11, <2>1 DEF MotorIInv, MotorTypeInv
  <1>13. WorkInv'
    BY <1>3, <1>4, <1>6, <1>8 DEF MotorIInv, WorkInv, IoSteps
  <1>14. InitInv'
    BY <1>3, <1>6 DEF InitInv
  <1>15. StillInv'
    <2> SUFFICES ASSUME tic'.safeStart, faults' <= 1, motor \notin {"Starting", "Running"},
                        ~Has(Work, "deEnergize")
                 PROVE  IF Has(Work, "enterSafeStart") THEN faults' = 1 \/ PoweredOff'
                        ELSE Blocked'
      BY <1>3, <1>4 DEF StillInv
    <2>1. faults <= 1 /\ tic.safeStart /\ (~ok => faults' = 1 /\ faults = 0)
      BY <1>5, <1>9, <1>11
    <2>2. /\ Blocked => Blocked'
          /\ PoweredOff => PoweredOff'
      BY <1>2, <1>5, <1>9, <1>10 DEF Blocked, PoweredOff, Normal, TicStates
    <2>3. IF Has(Work, "enterSafeStart") THEN faults = 1 \/ PoweredOff ELSE Blocked
      BY <1>6, <2>1 DEF MotorIInv, StillInv
    <2>4. QED
      BY <1>11, <2>1, <2>2, <2>3
  <1>16. UndisturbedInv'
    <2> SUFFICES ASSUME faults' = 0 PROVE UndisturbedInv'
      BY DEF UndisturbedInv
    <2>1. ok /\ faults = 0 /\ tic'.there
      BY <1>10, <1>11
    <2>2. step = "setTargetVelocity" /\ IoWork' = <<>> /\ IoWork = << "setTargetVelocity" >>
      <3>1. IoWork \in {<< "clamp", "sendSpeed" >>, << "sendSpeed" >>,
                        << "setTargetVelocity" >>}
        BY <1>2, <2>1 DEF MotorIInv, UndisturbedInv
      <3>2. "clamp" \notin Transfers /\ "sendSpeed" \notin Transfers
        BY DEF Transfers, Commands, StateReads
      <3>3. IoWork = << "setTargetVelocity" >>
        BY <1>2, <3>1, <3>2 DEF step
      <3>4. step = "setTargetVelocity" /\ Tail(IoWork) = <<>>
        BY <3>3, OneStep DEF step
      <3> DEFINE rest == Tail(IoWork)
      <3>5. IoWork' = After(tic, step, ok, rest) /\ step \in {"setTargetVelocity"} /\ ok
        BY <1>4, <2>1, <3>4
      <3> HIDE DEF rest
      <3>6. IoWork' = rest
        BY <3>5, AfterSpeedSent
      <3>7. QED
        BY <3>3, <3>4, <3>6 DEF rest
    <2>3. ~crossed => Work = <<>> /\ TurnInv
      BY <1>2, <2>1 DEF MotorIInv, UndisturbedInv
    <2>4. ASSUME ~crossed, motor \in {"Starting", "Running"}, ~Has(events, "ErrorOccurred")
          PROVE  Normal(tic') /\ Follows(Sum)'
      <3>1. Normal(tic) /\ sending["io"] = rpmToMicrostepsPer10kSeconds(Sum)
        BY <2>2, <2>3, <2>4 DEF TurnInv
      <3>2. Normal(tic')
        BY <1>10, <2>1, <2>2, <3>1 DEF Normal
      <3>3. Follows(Sum)'
        BY <1>3, <1>10, <2>1, <2>2, <3>1 DEF Follows, Sum, Accepted
      <3>4. QED
        BY <3>2, <3>3
    <2>5. ~crossed => StartInv' /\ TurnInv'
      BY <1>3, <1>4, <2>2, <2>3, <2>4 DEF StartInv, TurnInv
    <2>6. QED
      BY <1>3, <2>1, <2>2, <2>5 DEF UndisturbedInv
  <1>17. QED
    BY <1>12, <1>13, <1>14, <1>15, <1>16 DEF MotorIInv

LEMMA IoSetsSpeed ==
    ASSUME MotorIInv, SetSpeed("io")
    PROVE  MotorIInv'
  <1> DEFINE sends == << "setTargetVelocity" >>
  <1>1. /\ IoWork # <<>>
        /\ motor' = motor /\ events' = events /\ motorSpeed' = motorSpeed
        /\ offset' = offset /\ tic' = tic /\ up' = up /\ crossed' = crossed
        /\ motorOrders' = motorOrders /\ requests' = requests /\ faults' = faults
    BY DEF SetSpeed, AtRest, IoWork
  <1>2. up /\ IoWork \in Seq(Step) /\ Head(IoWork) \in IoSteps /\ Over(IoWork, IoSteps)
    BY <1>1, IoStepIs
  <1>3. /\ Head(IoWork) = "sendSpeed"
        /\ \/ /\ Accepted(Sum) /\ ownSpeed' = Sum
              /\ sending' = [sending EXCEPT !["io"] = rpmToMicrostepsPer10kSeconds(Sum)]
              /\ steps' = [steps EXCEPT !["io"] = sends \o Tail(IoWork)]
           \/ /\ ~Accepted(Sum)
              /\ steps' = [steps EXCEPT !["io"] = Tail(IoWork)]
              /\ ownSpeed' = ownSpeed /\ sending' = sending
    <2>1. "rotationSpeed" \notin IoSteps
      BY DEF IoSteps, StopSteps
    <2>2. QED
      BY <1>2, <2>1 DEF SetSpeed, NextStep, Rest, IoWork
  <1>4. /\ steps \in [Thread -> Seq(Step)] /\ "io" \in Thread /\ "worker" \in Thread
        /\ sending \in [Thread -> Nat] /\ ownSpeed \in 0 .. MaxSpeed
    BY DEF MotorIInv, MotorTypeInv, Thread
  <1>5. Work' = Work
    BY <1>3, <1>4 DEF Work
  <1>6. \/ /\ Accepted(Sum) /\ IoWork' = sends \o Tail(IoWork)
           /\ sending'["io"] = rpmToMicrostepsPer10kSeconds(Sum)
        \/ ~Accepted(Sum) /\ IoWork' = Tail(IoWork)
    BY <1>3, <1>4 DEF IoWork
  <1>7. /\ sends \in Seq(Step) /\ Over(sends, IoSteps)
    BY OneStep DEF Step, Transfers, Commands, IoSteps
  <1> HIDE DEF sends
  <1>8. /\ Tail(IoWork) \in Seq(Step) /\ Over(Tail(IoWork), IoSteps)
    BY <1>1, <1>2, RestHas
  <1>9. /\ sends \o Tail(IoWork) \in Seq(Step) /\ Over(sends \o Tail(IoWork), IoSteps)
    BY <1>7, <1>8, Joined
  <1>10. IoWork' \in Seq(Step) /\ Over(IoWork', IoSteps)
    BY <1>6, <1>8, <1>9
  <1>11. MotorTypeInv'
    <2>1. steps' = [steps EXCEPT !["io"] = IoWork']
      BY <1>3, <1>4 DEF IoWork
    <2>2. steps' \in [Thread -> Seq(Step)]
      BY <1>4, <1>10, <2>1
    <2>3. Accepted(Sum) => Sum \in Nat /\ Sum \in 0 .. MaxSpeed
      BY MotorAssumption DEF Accepted
    <2>4. sending' \in [Thread -> Nat] /\ ownSpeed' \in 0 .. MaxSpeed
      BY <1>3, <1>4, <2>3, VelocityIsNatural
    <2>5. QED
      BY <1>1, <2>2, <2>4 DEF MotorIInv, MotorTypeInv
  <1>12. WorkInv'
    BY <1>1, <1>2, <1>5, <1>10 DEF MotorIInv, WorkInv, IoSteps
  <1>13. InitInv' /\ StillInv'
    BY <1>1, <1>5, LeavesController
  <1>14. UndisturbedInv'
    <2> SUFFICES ASSUME faults = 0 PROVE UndisturbedInv'
      BY <1>1 DEF UndisturbedInv
    <2>1. IoWork = << "sendSpeed" >>
      <3>1. IoWork \in {<< "clamp", "sendSpeed" >>, << "sendSpeed" >>,
                        << "setTargetVelocity" >>}
        BY <1>1 DEF MotorIInv, UndisturbedInv
      <3>2. QED
        BY <1>3, <3>1
    <2>2. Tail(IoWork) = <<>>
      BY <2>1, OneStep
    <2>3. sends \o Tail(IoWork) = sends
      BY <1>7, <2>2
    <2>4. \/ /\ IoWork' = << "setTargetVelocity" >>
             /\ sending'["io"] = rpmToMicrostepsPer10kSeconds(Sum)
          \/ ~Accepted(Sum) /\ IoWork' = <<>>
      BY <1>6, <2>2, <2>3 DEF sends
    <2>5. Sum' = Sum /\ Accepted(Sum)' = Accepted(Sum)
      BY <1>1 DEF Sum, Accepted
    <2>6. << "setTargetVelocity" >> # <<>>
      BY OneStep
    <2>7. ~crossed => Work = <<>> /\ TurnInv
      BY <1>1, <2>1 DEF MotorIInv, UndisturbedInv
    <2>8. ~crossed => StartInv'
      BY <1>5, <2>7 DEF StartInv
    <2>9. ~crossed => TurnInv'
      BY <1>1, <1>5, <2>4, <2>5, <2>6, <2>7 DEF TurnInv, Follows
    <2>10. up' => tic'.there
      BY <1>1 DEF MotorIInv, UndisturbedInv
    <2>11. ~crossed => Work' = <<>> /\ events' = <<>>
      BY <1>1, <1>5, <2>1 DEF MotorIInv, UndisturbedInv
    <2>12. QED
      BY <1>1, <2>4, <2>8, <2>9, <2>10, <2>11 DEF UndisturbedInv
  <1>15. QED
    BY <1>11, <1>12, <1>13, <1>14 DEF MotorIInv

\* What comes over a motor at work, apart from the worker's own steps.
LEMMA IoClamps ==
    ASSUME MotorIInv, Clamp
    PROVE  MotorIInv'
  <1>1. /\ IoWork # <<>> /\ Head(IoWork) = "clamp"
        /\ motorSpeed' = IF motorSpeed > MaxSpeed THEN MaxSpeed ELSE motorSpeed
        /\ steps' = [steps EXCEPT !["io"] = Tail(IoWork)]
        /\ motor' = motor /\ events' = events /\ sending' = sending /\ offset' = offset
        /\ ownSpeed' = ownSpeed /\ tic' = tic /\ up' = up /\ crossed' = crossed
        /\ motorOrders' = motorOrders /\ requests' = requests /\ faults' = faults
    BY DEF Clamp, AtRest, NextStep, Rest, IoWork
  <1>2. /\ up /\ IoWork \in Seq(Step) /\ Over(IoWork, IoSteps)
        /\ steps \in [Thread -> Seq(Step)] /\ motorSpeed \in Nat
    BY <1>1, IoStepIs DEF MotorIInv, MotorTypeInv
  <1>3. IoWork' = Tail(IoWork) /\ Work' = Work
    BY <1>1, <1>2 DEF IoWork, Work, Thread
  <1>4. IoWork' \in Seq(Step) /\ Over(IoWork', IoSteps)
    BY <1>1, <1>2, <1>3, RestHas
  <1>5. MotorTypeInv'
    <2>1. steps' \in [Thread -> Seq(Step)]
      BY <1>1, <1>2, <1>3, <1>4
    <2>2. motorSpeed' \in Nat
      BY <1>1, <1>2, MotorAssumption
    <2>3. QED
      BY <1>1, <2>1, <2>2 DEF MotorIInv, MotorTypeInv
  <1>6. WorkInv'
    BY <1>1, <1>2, <1>3, <1>4 DEF MotorIInv, WorkInv, IoSteps
  <1>7. InitInv' /\ StillInv'
    BY <1>1, <1>3, LeavesController
  <1>8. UndisturbedInv'
    <2> SUFFICES ASSUME faults = 0 PROVE UndisturbedInv'
      BY <1>1 DEF UndisturbedInv
    <2>1. IoWork = << "clamp", "sendSpeed" >>
      <3>1. IoWork \in {<< "clamp", "sendSpeed" >>, << "sendSpeed" >>,
                        << "setTargetVelocity" >>}
        BY <1>1 DEF MotorIInv, UndisturbedInv
      <3>2. QED
        BY <1>1, <3>1
    <2>2. IoWork' = << "sendSpeed" >>
      BY <1>3, <2>1
    <2>3. IoWork' # <<>> /\ IoWork' # << "setTargetVelocity" >>
      BY <2>2, OneStep
    <2>4. ~crossed => Work = <<>> /\ events = <<>> /\ TurnInv
      BY <1>1, <2>1 DEF MotorIInv, UndisturbedInv
    <2>5. ~crossed => StartInv' /\ TurnInv'
      <3>1. ASSUME ~crossed PROVE StartInv'
        <4>1. Work' = <<>>
          BY <1>3, <2>4, <3>1
        <4>2. QED
          BY <4>1 DEF StartInv
      <3>2. TurnInv => TurnInv'
        BY <1>1, <1>3, <2>3 DEF TurnInv
      <3>3. QED
        BY <2>4, <3>1, <3>2
    <2>6. up' => tic'.there
      BY <1>1 DEF MotorIInv, UndisturbedInv
    <2>7. QED
      BY <1>1, <1>3, <2>2, <2>4, <2>5, <2>6 DEF UndisturbedInv
  <1>9. QED
    BY <1>5, <1>6, <1>7, <1>8 DEF MotorIInv

\* A request finds the worker idle, or the two cross.
LEMMA IoStarts ==
    ASSUME MotorIInv, up, IoWork = <<>>,
           IoWork' \in {<< "clamp", "sendSpeed" >>, << "sendSpeed" >>},
           steps' = [steps EXCEPT !["io"] = IoWork'],
           requests < MaxRequests, requests' = requests + 1,
           motorSpeed' \in Nat, offset' \in Int, crossed' = Crosses,
           UNCHANGED <<motor, events, sending, ownSpeed, tic, up, motorOrders, faults>>
    PROVE  MotorIInv'
  <1>1. steps \in [Thread -> Seq(Step)] /\ requests \in 0 .. MaxRequests /\ MaxRequests \in Nat
    BY MotorRequestsAssumption DEF MotorIInv, MotorTypeInv
  <1>2. Work' = Work
    BY <1>1 DEF Work, Thread
  <1>3. IoWork' \in Seq(Step) /\ Over(IoWork', IoSteps)
    <2> DEFINE clamps == << "clamp" >>
               sends == << "sendSpeed" >>
    <2>1. /\ clamps \in Seq(Step) /\ Over(clamps, IoSteps)
          /\ sends \in Seq(Step) /\ Over(sends, IoSteps)
      BY OneStep DEF Step, LocalSteps, IoSteps
    <2>2. clamps \o sends \in Seq(Step) /\ Over(clamps \o sends, IoSteps)
      BY <2>1, Joined
    <2>3. << "clamp", "sendSpeed" >> = clamps \o sends
      OBVIOUS
    <2> HIDE DEF clamps
    <2>4. QED
      BY <2>1, <2>2, <2>3
  <1>4. MotorTypeInv'
    <2>1. steps' \in [Thread -> Seq(Step)]
      BY <1>1, <1>3
    <2>2. crossed' \in BOOLEAN /\ requests' \in 0 .. MaxRequests
      <3>1. crossed \in BOOLEAN
        BY DEF MotorIInv, MotorTypeInv
      <3>2. crossed' \in BOOLEAN
        BY <3>1 DEF Crosses
      <3>3. requests' \in 0 .. MaxRequests
        BY <1>1
      <3>4. QED
        BY <3>2, <3>3
    <2>3. QED
      BY <2>1, <2>2 DEF MotorIInv, MotorTypeInv
  <1>5. WorkInv'
    BY <1>2, <1>3 DEF MotorIInv, WorkInv, IoSteps
  <1>6. InitInv' /\ StillInv'
    BY <1>2, LeavesController
  <1>7. UndisturbedInv'
    <2> SUFFICES ASSUME faults = 0 PROVE UndisturbedInv'
      BY DEF UndisturbedInv
    <2>1. ~crossed' => ~crossed /\ Work = <<>> /\ events = <<>>
      <3>1. crossed' = (crossed \/ Work # <<>> \/ events # <<>>)
        BY DEF Crosses, AtRest, Work
      <3>2. QED
        BY <3>1
    <2>2. IoWork' # <<>> /\ IoWork' # << "setTargetVelocity" >>
      <3>1. ASSUME NEW w \in {<< "clamp", "sendSpeed" >>, << "sendSpeed" >>}
            PROVE  w # <<>> /\ w # << "setTargetVelocity" >>
        <4>1. CASE w = << "clamp", "sendSpeed" >>
          <5>1. Len(w) = 2 /\ Len(<< "setTargetVelocity" >>) = 1
            BY <4>1
          <5>2. QED
            BY <4>1, <5>1
        <4>2. CASE w = << "sendSpeed" >>
          BY <4>2, OneStep
        <4>3. QED
          BY <3>1, <4>1, <4>2
      <3> DEFINE w == IoWork'
      <3>2. w \in {<< "clamp", "sendSpeed" >>, << "sendSpeed" >>}
        OBVIOUS
      <3> HIDE DEF w
      <3>3. w # <<>> /\ w # << "setTargetVelocity" >>
        BY <3>1, <3>2
      <3>4. QED
        BY <3>3 DEF w
    <2>3. ~crossed' => StartInv' /\ TurnInv'
      <3>1. ASSUME ~crossed' PROVE StartInv'
        <4>1. Work' = <<>>
          BY <1>2, <2>1, <3>1
        <4>2. QED
          BY <4>1 DEF StartInv
      <3>2. TurnInv => TurnInv'
        BY <1>2, <2>2 DEF TurnInv
      <3>3. ~crossed => TurnInv
        BY DEF MotorIInv, UndisturbedInv
      <3>4. QED
        BY <2>1, <3>1, <3>2, <3>3
    <2>4. up' => tic'.there
      BY DEF MotorIInv, UndisturbedInv
    <2>5. QED
      BY <1>2, <2>1, <2>3, <2>4 DEF UndisturbedInv
  <1>8. QED
    BY <1>4, <1>5, <1>6, <1>7 DEF MotorIInv

LEMMA IoSetsMotorSpeed ==
    ASSUME MotorIInv, NEW v \in Speeds, SetMotorSpeed(v)
    PROVE  MotorIInv'
  <1>1. steps \in [Thread -> Seq(Step)] /\ "io" \in Thread /\ offset \in Int /\ v \in Nat
    BY MotorRequestsAssumption DEF MotorIInv, MotorTypeInv, Thread
  <1>2. /\ IoWork = <<>> /\ IoWork' = << "clamp", "sendSpeed" >>
        /\ steps' = [steps EXCEPT !["io"] = IoWork']
    BY <1>1 DEF SetMotorSpeed, AtRest, IoWork
  <1>3. /\ up /\ requests < MaxRequests /\ requests' = requests + 1
        /\ motorSpeed' \in Nat /\ offset' \in Int /\ crossed' = Crosses
        /\ UNCHANGED <<motor, events, sending, ownSpeed, tic, up, motorOrders, faults>>
    BY <1>1 DEF SetMotorSpeed
  <1>4. QED
    BY <1>2, <1>3, IoStarts

LEMMA IoChangesOffset ==
    ASSUME MotorIInv, NEW d \in Increments, ChangeOffset(d)
    PROVE  MotorIInv'
  <1>1. /\ steps \in [Thread -> Seq(Step)] /\ "io" \in Thread
        /\ offset \in Int /\ motorSpeed \in Nat /\ d \in Int
    BY MotorRequestsAssumption DEF MotorIInv, MotorTypeInv, Thread
  <1>2. /\ IoWork = <<>> /\ IoWork' = << "sendSpeed" >>
        /\ steps' = [steps EXCEPT !["io"] = IoWork']
    BY <1>1 DEF ChangeOffset, AtRest, IoWork
  <1>3. AddOffset(d) \in Int
    BY <1>1, MotorAssumption DEF AddOffset, Clamped
  <1>4. /\ up /\ requests < MaxRequests /\ requests' = requests + 1
        /\ motorSpeed' \in Nat /\ offset' \in Int /\ crossed' = Crosses
        /\ UNCHANGED <<motor, events, sending, ownSpeed, tic, up, motorOrders, faults>>
    BY <1>1, <1>3 DEF ChangeOffset
  <1>5. QED
    BY <1>2, <1>4, IoStarts

LEMMA OrdersArrive ==
    ASSUME MotorIInv, MotorOrdered
    PROVE  MotorIInv'
  <1>1. PICK e \in Head(motorOrders) : events' = Append(events, e)
    BY DEF MotorOrdered
  <1>2. /\ up /\ motorOrders # <<>> /\ motorOrders' = Tail(motorOrders)
        /\ crossed' = (crossed \/ IoWork # <<>>)
        /\ motor' = motor /\ steps' = steps /\ sending' = sending
        /\ motorSpeed' = motorSpeed /\ offset' = offset /\ ownSpeed' = ownSpeed
        /\ tic' = tic /\ up' = up /\ requests' = requests /\ faults' = faults
    BY DEF MotorOrdered, AtRest, IoWork
  <1>3. Work' = Work /\ IoWork' = IoWork
    BY <1>2 DEF Work, IoWork
  <1>4. motorOrders' \in Seq(SUBSET Orders) /\ e \in MotorEvents
    <2>1. motorOrders \in Seq(SUBSET Orders)
      BY DEF MotorIInv, MotorTypeInv
    <2>2. Head(motorOrders) \in SUBSET Orders /\ Tail(motorOrders) \in Seq(SUBSET Orders)
      BY <1>2, <2>1
    <2>3. QED
      BY <1>2, <2>2 DEF Orders, MotorEvents
  <1>5. events \in Seq(MotorEvents) /\ crossed \in BOOLEAN
    BY DEF MotorIInv, MotorTypeInv
  <1>6. events' \in Seq(MotorEvents)
    BY <1>1, <1>4, <1>5
  <1>7. ~Has(events', "ErrorOccurred") => ~Has(events, "ErrorOccurred")
    <2>1. \A i \in DOMAIN events : i \in DOMAIN events' /\ events'[i] = events[i]
      BY <1>1, <1>4, <1>5
    <2>2. QED
      BY <2>1 DEF Has
  <1>8. MotorTypeInv'
    <2>1. crossed' \in BOOLEAN
      BY <1>2, <1>5
    <2>2. QED
      BY <1>2, <1>4, <1>6, <2>1 DEF MotorIInv, MotorTypeInv
  <1>9. WorkInv'
    BY <1>2, <1>3 DEF MotorIInv, WorkInv
  <1>10. InitInv' /\ StillInv'
    BY <1>2, <1>3, LeavesController
  <1>11. UndisturbedInv'
    <2>1. Sum' = Sum /\ Follows(Sum)' = Follows(Sum) /\ Accepted(Sum)' = Accepted(Sum)
      BY <1>2 DEF Sum, Follows, Accepted
    <2>2. StartedInv' = StartedInv
      BY <1>2, <1>3, <2>1 DEF StartedInv
    <2>3. StartInv => StartInv'
      BY <1>2, <1>3, <2>2 DEF StartInv
    <2>4. TurnInv => TurnInv'
      BY <1>2, <1>3, <1>7, <2>1 DEF TurnInv
    <2>5. ~crossed' => ~crossed /\ IoWork = <<>>
      BY <1>2
    <2>6. QED
      BY <1>2, <1>3, <2>3, <2>4, <2>5 DEF MotorIInv, UndisturbedInv
  <1>12. QED
    BY <1>8, <1>9, <1>10, <1>11 DEF MotorIInv

LEMMA MotorRamps ==
    ASSUME MotorIInv, Ramp
    PROVE  MotorIInv'
  <1>1. /\ Normal(tic) /\ tic' = Ramped(tic) /\ tic.velocity # tic.target
        /\ motor' = motor /\ events' = events /\ steps' = steps /\ sending' = sending
        /\ motorSpeed' = motorSpeed /\ offset' = offset /\ ownSpeed' = ownSpeed
        /\ up' = up /\ crossed' = crossed /\ motorOrders' = motorOrders
        /\ requests' = requests /\ faults' = faults
    BY DEF Ramp
  <1>2. tic \in TicStates
    BY DEF MotorIInv, MotorTypeInv
  <1>3. Work' = Work /\ IoWork' = IoWork
    BY <1>1 DEF Work, IoWork
  <1>4. tic' \in TicStates
    BY <1>1, <1>2 DEF Ramped, TicStates
  <1>5. /\ tic'.there = tic.there /\ tic'.energized = tic.energized
        /\ tic'.locked = tic.locked /\ tic'.safeStart = tic.safeStart
        /\ tic'.target = tic.target
    BY <1>1, <1>2 DEF Ramped, TicStates
  <1>6. MotorTypeInv'
    BY <1>1, <1>4 DEF MotorIInv, MotorTypeInv
  <1>7. WorkInv'
    BY <1>1, <1>3 DEF MotorIInv, WorkInv
  <1>8. up
    BY <1>1 DEF MotorIInv, InitInv
  <1>9. InitInv'
    BY <1>1, <1>8 DEF InitInv
  <1>10. StillInv'
    <2>1. ~Blocked /\ ~PoweredOff
      BY <1>1 DEF Blocked, PoweredOff, Normal
    <2>2. QED
      BY <1>1, <1>3, <1>5, <1>8, <2>1 DEF MotorIInv, StillInv
  <1>11. UndisturbedInv'
    <2>1. Normal(tic') = Normal(tic)
      BY <1>5 DEF Normal
    <2>2. Sum' = Sum /\ Follows(Sum)' = Follows(Sum) /\ Accepted(Sum)' = Accepted(Sum)
      BY <1>1, <1>5 DEF Sum, Follows, Accepted
    <2>3. StartedInv' = StartedInv
      BY <1>1, <1>3, <1>5, <2>2 DEF StartedInv
    <2>4. StartInv => StartInv'
      BY <1>1, <1>3, <2>3 DEF StartInv
    <2>5. TurnInv => TurnInv'
      BY <1>1, <1>3, <2>1, <2>2 DEF TurnInv
    <2>6. QED
      BY <1>1, <1>3, <1>5, <2>4, <2>5 DEF MotorIInv, UndisturbedInv
  <1>12. QED
    BY <1>6, <1>7, <1>9, <1>10, <1>11 DEF MotorIInv

\* The worker sets a speed in a start only, and goes on with it.
LEMMA WorkerSetsSpeed ==
    ASSUME MotorIInv, SetSpeed("worker")
    PROVE  MotorIInv'
  <1> DEFINE step == Head(Work)
             target == << "setTargetVelocity" >> \o Tail(Work)
             rotation == << "setRotationVelocity" >> \o Tail(Work)
             follows == rpmToMicrostepsPer10kSeconds(Sum)
             keeps == rpmToMicrostepsPer10kSeconds(ownSpeed)
  <1>1. /\ Work # <<>>
        /\ motor' = motor /\ events' = events /\ motorSpeed' = motorSpeed
        /\ offset' = offset /\ tic' = tic /\ up' = up /\ crossed' = crossed
        /\ motorOrders' = motorOrders /\ requests' = requests /\ faults' = faults
    BY DEF SetSpeed, AtRest, Work
  <1>2. /\ steps \in [Thread -> Seq(Step)] /\ "io" \in Thread /\ "worker" \in Thread
        /\ sending \in [Thread -> Nat] /\ ownSpeed \in 0 .. MaxSpeed
    BY DEF MotorIInv, MotorTypeInv, Thread
  <1>3. \/ /\ step = "sendSpeed" /\ Accepted(Sum) /\ ownSpeed' = Sum
           /\ sending' = [sending EXCEPT !["worker"] = follows]
           /\ steps' = [steps EXCEPT !["worker"] = target]
        \/ /\ step = "sendSpeed" /\ ~Accepted(Sum)
           /\ steps' = [steps EXCEPT !["worker"] = Tail(Work)]
           /\ ownSpeed' = ownSpeed /\ sending' = sending
        \/ /\ step = "rotationSpeed" /\ ownSpeed' = ownSpeed
           /\ sending' = [sending EXCEPT !["worker"] = keeps]
           /\ steps' = [steps EXCEPT !["worker"] = rotation]
    BY DEF SetSpeed, NextStep, Rest, Work
  <1>4. Work \in Seq(Step) /\ up /\ motor = "Starting"
    <2>1. step \notin InitSteps /\ step \notin StopSteps
          /\ step \notin {"stopped", "getSpeed", "resetSpeeds"}
      BY <1>3 DEF InitSteps, StopSteps
    <2>2. /\ Work \in Seq(Step)
          /\ ~up => step \in InitSteps
          /\ up => step \in StopSteps \cup Duties(motor)
      BY <1>1, WorkerStepIs
    <2>3. up \in BOOLEAN
      BY DEF MotorIInv, MotorTypeInv
    <2>4. QED
      BY <2>1, <2>2, <2>3 DEF Duties
  <1>5. /\ IoWork' = IoWork
        /\ steps' = [steps EXCEPT !["worker"] = Work']
        /\ \/ Work' = target /\ step = "sendSpeed" /\ Accepted(Sum) /\ ownSpeed' = Sum
              /\ sending'["worker"] = follows
           \/ Work' = Tail(Work) /\ step = "sendSpeed" /\ ~Accepted(Sum)
              /\ ownSpeed' = ownSpeed /\ sending' = sending
           \/ Work' = rotation /\ step = "rotationSpeed" /\ ownSpeed' = ownSpeed
              /\ sending'["worker"] = keeps
    BY <1>2, <1>3 DEF Work, IoWork
  <1>6. /\ Tail(Work) \in Seq(Step) /\ EndsLocked(Tail(Work))
        /\ \A x : Has(Work, x) <=> step = x \/ Has(Tail(Work), x)
        /\ Over(Tail(Work), StopSteps \cup Duties(motor))
    <2>1. EndsLocked(Work) /\ Over(Work, StopSteps \cup Duties(motor))
      BY <1>4 DEF MotorIInv, WorkInv
    <2>2. QED
      BY <1>1, <1>4, <2>1, RestHas, RestEndsLocked
  <1>7. /\ target \in Seq(Step) /\ EndsLocked(target)
        /\ Over(target, StopSteps \cup Duties(motor))
        /\ \A x : Has(target, x) <=> x = "setTargetVelocity" \/ Has(Tail(Work), x)
    <2> DEFINE one == << "setTargetVelocity" >>
    <2>1. /\ one \in Seq(Step) /\ EndsLocked(one)
          /\ \A y : Has(one, y) <=> "setTargetVelocity" = y
          /\ \A X : Over(one, X) <=> "setTargetVelocity" \in X
      BY OneStep DEF Step, Transfers, Commands
    <2>2. Over(one, StopSteps \cup Duties(motor))
      BY <1>4, <2>1 DEF Duties, StartSteps
    <2> DEFINE rest == Tail(Work)
    <2>3. target = one \o rest
      OBVIOUS
    <2> HIDE DEF one, rest, target
    <2>4. rest \in Seq(Step) /\ EndsLocked(rest) /\ Over(rest, StopSteps \cup Duties(motor))
      BY <1>6 DEF rest
    <2>5. /\ target \in Seq(Step) /\ EndsLocked(target)
          /\ \A x : Has(target, x) <=> Has(one, x) \/ Has(rest, x)
          /\ \A X : Over(target, X) <=> Over(one, X) /\ Over(rest, X)
      BY <2>1, <2>3, <2>4, Joined
    <2>6. QED
      BY <2>1, <2>2, <2>4, <2>5 DEF rest
  <1>8. /\ rotation \in Seq(Step) /\ EndsLocked(rotation)
        /\ Over(rotation, StopSteps \cup Duties(motor))
        /\ \A x : Has(rotation, x) <=> x = "setRotationVelocity" \/ Has(Tail(Work), x)
    <2> DEFINE one == << "setRotationVelocity" >>
    <2>1. /\ one \in Seq(Step) /\ EndsLocked(one)
          /\ \A y : Has(one, y) <=> "setRotationVelocity" = y
          /\ \A X : Over(one, X) <=> "setRotationVelocity" \in X
      BY OneStep DEF Step, Transfers, Commands
    <2>2. Over(one, StopSteps \cup Duties(motor))
      BY <1>4, <2>1 DEF Duties, StartSteps
    <2> DEFINE rest == Tail(Work)
    <2>3. rotation = one \o rest
      OBVIOUS
    <2> HIDE DEF one, rest, rotation
    <2>4. rest \in Seq(Step) /\ EndsLocked(rest) /\ Over(rest, StopSteps \cup Duties(motor))
      BY <1>6 DEF rest
    <2>5. /\ rotation \in Seq(Step) /\ EndsLocked(rotation)
          /\ \A x : Has(rotation, x) <=> Has(one, x) \/ Has(rest, x)
          /\ \A X : Over(rotation, X) <=> Over(one, X) /\ Over(rest, X)
      BY <2>1, <2>3, <2>4, Joined
    <2>6. QED
      BY <2>1, <2>2, <2>4, <2>5 DEF rest
  <1> HIDE DEF target, rotation, step, follows, keeps
  <1>9. Work' \in Seq(Step) /\ EndsLocked(Work') /\ Over(Work', StopSteps \cup Duties(motor))
    BY <1>5, <1>6, <1>7, <1>8
  <1>10. MotorTypeInv'
    <2>1. steps' \in [Thread -> Seq(Step)]
      BY <1>2, <1>5, <1>9
    <2>2. Accepted(Sum) => Sum \in Nat /\ Sum \in 0 .. MaxSpeed
      BY MotorAssumption DEF Accepted
    <2>3. (Accepted(Sum) => follows \in Nat) /\ keeps \in Nat
      <3>1. ownSpeed \in Nat
        BY <1>2, MotorAssumption
      <3>2. keeps \in Nat
        BY <3>1, VelocityIsNatural DEF keeps
      <3>3. Accepted(Sum) => follows \in Nat
        BY <2>2, VelocityIsNatural DEF follows
      <3>4. QED
        BY <3>2, <3>3
    <2>4. sending' \in [Thread -> Nat] /\ ownSpeed' \in 0 .. MaxSpeed
      BY <1>2, <1>3, <2>2, <2>3
    <2>5. QED
      BY <1>1, <2>1, <2>4 DEF MotorIInv, MotorTypeInv
  <1>11. WorkInv'
    BY <1>1, <1>4, <1>5, <1>9 DEF MotorIInv, WorkInv
  <1>12. InitInv' /\ StillInv'
    BY <1>1, <1>4 DEF InitInv, StillInv
  <1>13. UndisturbedInv'
    <2> SUFFICES ASSUME faults = 0 PROVE UndisturbedInv'
      BY <1>1 DEF UndisturbedInv
    <2>1. /\ up' => tic'.there
          /\ IoWork' \in {<<>>, << "clamp", "sendSpeed" >>, << "sendSpeed" >>,
                          << "setTargetVelocity" >>}
      BY <1>1, <1>5 DEF MotorIInv, UndisturbedInv
    <2>2. ASSUME ~crossed PROVE StartedInv' /\ Work' # <<>> /\ IoWork' = <<>>
      <3>1. IoWork = <<>> /\ StartInv
        BY <1>1, <2>2 DEF MotorIInv, UndisturbedInv
      <3>2. StartedInv
        <4>1. Work # << "startFailed" >>
          <5>1. step # "startFailed"
            BY <1>3
          <5>2. QED
            BY <5>1, OneStep DEF step
        <4>2. QED
          BY <1>1, <1>4, <3>1, <4>1 DEF StartInv
      <3>3. /\ step \in StartSteps
            /\ step # "started" => InPlace(Tail(Work))
            /\ \A x : Place(x) <= Place(step) => ~Has(Tail(Work), x)
            /\ Place(step) < 8 => Has(Tail(Work), "rotationSpeed")
        BY <1>1, <1>4, <3>2, RestInPlace DEF StartedInv, step
      <3>4. Sum' = Sum /\ Accepted(Sum)' = Accepted(Sum)
        BY <1>1 DEF Sum, Accepted
      <3>5. ~Has(Tail(Work), "setTargetVelocity") /\ ~Has(Tail(Work), "sendSpeed")
        <4>1. Place("setTargetVelocity") = 1 /\ Place("sendSpeed") = 1
              /\ (Place(step) = 1 \/ Place(step) = 8)
          BY <1>3 DEF Place
        <4>2. QED
          BY <3>3, <4>1
      <3>6. step = "sendSpeed" => Has(Tail(Work), "rotationSpeed")
        BY <3>3 DEF Place
      <3>7. InPlace(Work')
        <4>1. CASE Work' = target /\ step = "sendSpeed"
          <5>1. /\ "setTargetVelocity" \in Step /\ "setTargetVelocity" \in StartSteps
                /\ Place("setTargetVelocity") = Place(step) /\ step # "started"
            BY <4>1 DEF Step, Transfers, Commands, StartSteps, Place
          <5>2. InPlace(<< "setTargetVelocity" >> \o Tail(Work))
            BY <1>1, <1>4, <3>2, <5>1, ReplacedInPlace DEF step, StartedInv
          <5>3. QED
            BY <4>1, <5>2 DEF target
        <4>2. CASE Work' = Tail(Work) /\ step = "sendSpeed"
          BY <3>3, <4>2
        <4>3. CASE Work' = rotation /\ step = "rotationSpeed"
          <5>1. /\ "setRotationVelocity" \in Step /\ "setRotationVelocity" \in StartSteps
                /\ Place("setRotationVelocity") = Place(step) /\ step # "started"
            BY <4>3 DEF Step, Transfers, Commands, StartSteps, Place
          <5>2. InPlace(<< "setRotationVelocity" >> \o Tail(Work))
            BY <1>1, <1>4, <3>2, <5>1, ReplacedInPlace DEF step, StartedInv
          <5>3. QED
            BY <4>3, <5>2 DEF rotation
        <4>4. QED
          BY <1>5, <4>1, <4>2, <4>3
      <3>8. /\ ~Has(Work', "sendSpeed") => (Accepted(Sum)' => ownSpeed' = Sum')
            /\ Has(Work', "setTargetVelocity") => ~Has(Work', "sendSpeed")
        BY <1>5, <1>6, <1>7, <1>8, <3>2, <3>4, <3>5 DEF StartedInv
      <3>9. /\ ~Has(Work', "exitSafeStart") => ~tic'.locked
            /\ ~Has(Work', "energize") => tic'.energized
        BY <1>1, <1>5, <1>6, <1>7, <1>8, <3>2 DEF StartedInv
      <3>10. Has(Work', "setRotationVelocity") =>
                sending'["worker"] = rpmToMicrostepsPer10kSeconds(ownSpeed')
        BY <1>5, <1>6, <1>7, <1>8, <3>2 DEF StartedInv, follows, keeps
      <3>11. Has(Work', "rotationSpeed") \/ Has(Work', "setRotationVelocity")
        BY <1>5, <1>7, <1>8, <3>6
      <3>12. Work' # <<>>
        BY <3>11, NoStep
      <3>13. StartedInv'
        BY <3>7, <3>8, <3>9, <3>10, <3>11 DEF StartedInv
      <3>14. QED
        BY <1>5, <3>1, <3>12, <3>13
    <2>3. ~crossed => IoWork' = <<>> /\ StartInv' /\ TurnInv'
      BY <2>2 DEF StartInv, TurnInv
    <2>4. QED
      BY <1>1, <2>1, <2>3 DEF UndisturbedInv
  <1>14. QED
    BY <1>10, <1>11, <1>12, <1>13 DEF MotorIInv

\* The worker ends the initialization of the hardware or an action.
LEMMA WorkerInitialized ==
    ASSUME MotorIInv, MotorFinish, ~up
    PROVE  MotorIInv'
  <1> DEFINE step == Head(Work)
  <1>1. /\ Work # <<>>
        /\ step \in {"initialized", "initFailed", "resetSpeeds", "started", "startFailed",
                     "stopped"}
        /\ events' = events \o Result(step)
        /\ up' = (step = "initialized")
        /\ tic' = IF step = "initFailed" THEN Deleted(tic) ELSE tic
        /\ motorSpeed' = IF step = "resetSpeeds" THEN 0 ELSE motorSpeed
        /\ offset' = IF step = "resetSpeeds" THEN 0 ELSE offset
        /\ steps' = [steps EXCEPT !["worker"] = Tail(Work)]
    BY DEF MotorFinish, AtRest, NextStep, Rest, LocalSteps, Work
  <1>2. /\ motor' = motor /\ sending' = sending /\ ownSpeed' = ownSpeed
        /\ crossed' = crossed /\ motorOrders' = motorOrders /\ requests' = requests
        /\ faults' = faults
    BY DEF MotorFinish
  <1>3. /\ steps \in [Thread -> Seq(Step)] /\ tic \in TicStates /\ events = <<>>
        /\ motor = "Off" /\ IoWork = <<>> /\ EndsInitialized(Work)
    BY DEF MotorIInv, MotorTypeInv, WorkInv
  <1>4. Work \in Seq(Step) /\ step \in {"initialized", "initFailed"}
    <2>1. Work \in Seq(Step) /\ step \in InitSteps
      BY <1>1, WorkerStepIs
    <2>2. QED
      BY <1>1, <2>1 DEF InitSteps
  <1>5. Tail(Work) = <<>>
    <2>1. 1 \in DOMAIN Work /\ Work[1] = step
      BY <1>1, <1>4, RestOf
    <2>2. Len(Work) = 1
      BY <1>3, <1>4, <2>1 DEF EndsInitialized
    <2>3. SUFFICES ASSUME Tail(Work) # <<>> PROVE FALSE
      OBVIOUS
    <2>4. Tail(Work) \in Seq(Step) /\ \A i \in DOMAIN Tail(Work) : i + 1 \in DOMAIN Work
      BY <1>1, <1>4, RestOf
    <2>5. 1 \in DOMAIN Tail(Work)
      BY <2>3, <2>4, RestOf
    <2>6. 1 + 1 \in DOMAIN Work /\ DOMAIN Work = 1 .. Len(Work)
      BY <1>4, <2>4, <2>5
    <2>7. QED
      BY <2>2, <2>6
  <1>6. Work' = <<>> /\ IoWork' = <<>>
    BY <1>1, <1>3, <1>5 DEF Work, IoWork, Thread
  <1>7. events' = <<>>
    <2>1. Result(step) = <<>>
      BY <1>4 DEF Result
    <2>2. QED
      BY <1>1, <1>3, <2>1
  <1>8. /\ tic.velocity = 0 /\ tic.target = 0 /\ tic.there
        /\ step = "initialized" /\ tic.safeStart => tic.locked
    <2>1. \A x : Has(Work, x) <=> step = x \/ Has(Tail(Work), x)
      BY <1>1, <1>4, RestHas
    <2>2. ~Has(Tail(Work), "initEnterSafeStart")
      BY <1>5, NoStep
    <2>3. ~Has(Work, "initEnterSafeStart")
      BY <1>4, <2>1, <2>2
    <2>4. step = "initialized" => Has(Work, "initialized")
      BY <2>1
    <2> HIDE DEF step
    <2>5. QED
      BY <1>1, <2>3, <2>4 DEF MotorIInv, InitInv
  <1> HIDE DEF step
  <1>9. /\ tic' \in TicStates /\ tic'.velocity = 0 /\ tic'.target = 0
        /\ step = "initialized" => tic' = tic
    <2>1. CASE step = "initFailed"
      <3> DEFINE h == Halted(tic)
                 c == [h EXCEPT !.there = FALSE, !.energized = FALSE]
      <3>1. tic' = c
        BY <1>1, <2>1 DEF Deleted
      <3>2. h \in TicStates /\ h.velocity = 0 /\ h.target = 0
        BY <1>3, HaltedForm
      <3> HIDE DEF h
      <3>3. c \in TicStates
        BY <3>2 DEF TicStates
      <3>4. c.velocity = h.velocity /\ c.target = h.target
        BY <3>2 DEF TicStates
      <3> HIDE DEF c
      <3>5. QED
        BY <2>1, <3>1, <3>2, <3>3, <3>4
    <2>2. CASE step = "initialized"
      BY <1>1, <1>3, <1>8, <2>2
    <2>3. QED
      BY <1>4, <2>1, <2>2
  <1>10. MotorTypeInv'
    <2>1. steps' \in [Thread -> Seq(Step)]
      BY <1>1, <1>3, <1>5, NoStep
    <2>2. events' \in Seq(MotorEvents) /\ up' \in BOOLEAN
      BY <1>1, <1>7
    <2>3. motorSpeed' = motorSpeed /\ offset' = offset
      BY <1>1, <1>4
    <2>4. QED
      BY <1>2, <1>9, <2>1, <2>2, <2>3 DEF MotorIInv, MotorTypeInv
  <1>11. WorkInv'
    <2>1. EndsInitialized(Work')
      BY <1>6 DEF EndsInitialized
    <2>2. QED
      BY <1>2, <1>3, <1>6, <1>7, <2>1, NoStep DEF WorkInv
  <1>12. InitInv'
    BY <1>6, <1>9, NoStep DEF InitInv
  <1>13. StillInv'
    <2>1. ASSUME step = "initialized", tic.safeStart PROVE Blocked'
      BY <1>8, <1>9, <2>1 DEF Blocked, Normal
    <2>2. ~Has(Work', "enterSafeStart")
      BY <1>6, NoStep
    <2>3. step = "initialized" => tic' = tic
      BY <1>9
    <2>4. QED
      BY <1>1, <2>1, <2>2, <2>3 DEF StillInv
  <1>14. UndisturbedInv'
    <2>1. StartInv' /\ TurnInv'
      BY <1>2, <1>3 DEF StartInv, TurnInv
    <2>2. up' => tic'.there
      BY <1>1, <1>8, <1>9
    <2>3. QED
      BY <1>6, <2>1, <2>2 DEF UndisturbedInv
  <1>15. QED
    BY <1>10, <1>11, <1>12, <1>13, <1>14 DEF MotorIInv

LEMMA ResultIs ==
    ASSUME NEW step
    PROVE  /\ Result(step) \in Seq(MotorEvents)
           /\ step = "startFailed" => Result(step) = << "ErrorOccurred" >>
  <1>1. step = "startFailed" => Result(step) = << "ErrorOccurred" >>
    BY DEF Result
  <1>2. \/ Result(step) = << "SwitchOnSucceeded" >>
        \/ Result(step) = << "StartMotorSucceeded" >>
        \/ Result(step) = << "ErrorOccurred" >>
        \/ Result(step) = << "StopMotorSucceeded" >>
        \/ Result(step) = <<>>
    BY DEF Result
  <1>3. ASSUME NEW e \in MotorEvents PROVE << e >> \in Seq(MotorEvents)
    OBVIOUS
  <1>4. /\ "SwitchOnSucceeded" \in MotorEvents /\ "StartMotorSucceeded" \in MotorEvents
        /\ "ErrorOccurred" \in MotorEvents /\ "StopMotorSucceeded" \in MotorEvents
    BY DEF MotorEvents
  <1>5. <<>> \in Seq(MotorEvents)
    OBVIOUS
  <1>6. Result(step) \in Seq(MotorEvents)
    BY <1>2, <1>3, <1>4, <1>5
  <1>7. QED
    BY <1>1, <1>6

LEMMA WorkerEnds ==
    ASSUME MotorIInv, MotorFinish, up
    PROVE  MotorIInv'
  <1> DEFINE step == Head(Work)
             told == Result(step)
  <1>1. /\ Work # <<>>
        /\ step \in {"initialized", "initFailed", "resetSpeeds", "started", "startFailed",
                     "stopped"}
        /\ events' = events \o told
        /\ up'
        /\ tic' = IF step = "initFailed" THEN Deleted(tic) ELSE tic
        /\ motorSpeed' = IF step = "resetSpeeds" THEN 0 ELSE motorSpeed
        /\ offset' = IF step = "resetSpeeds" THEN 0 ELSE offset
        /\ steps' = [steps EXCEPT !["worker"] = Tail(Work)]
    BY DEF MotorFinish, AtRest, NextStep, Rest, LocalSteps, Work
  <1>2. /\ motor' = motor /\ sending' = sending /\ ownSpeed' = ownSpeed
        /\ crossed' = crossed /\ motorOrders' = motorOrders /\ requests' = requests
        /\ faults' = faults
    BY DEF MotorFinish
  <1>3. /\ steps \in [Thread -> Seq(Step)] /\ events \in Seq(MotorEvents)
        /\ motorSpeed \in Nat /\ offset \in Int
    BY DEF MotorIInv, MotorTypeInv
  <1>4. /\ Work \in Seq(Step) /\ step \in {"resetSpeeds", "started", "startFailed", "stopped"}
        /\ step \in Duties(motor) /\ motor # "Running"
    <2>1. Work \in Seq(Step) /\ step \in StopSteps \cup Duties(motor) /\ motor # "Running"
      BY <1>1, WorkerStepIs
    <2>2. QED
      BY <1>1, <2>1 DEF StopSteps, Duties, StartSteps
  <1>5. tic' = tic
    BY <1>1, <1>4
  <1>6. motor = "Starting" => /\ step \in {"started", "startFailed"}
                              /\ motorSpeed' = motorSpeed /\ offset' = offset
    <2>1. motor = "Starting" => step \in {"started", "startFailed"}
      BY <1>4 DEF Duties, StartSteps
    <2>2. QED
      BY <1>1, <2>1
  <1>7. Work' = Tail(Work) /\ IoWork' = IoWork
    BY <1>1, <1>3 DEF Work, IoWork, Thread
  <1>8. /\ told \in Seq(MotorEvents)
        /\ step = "startFailed" => told = << "ErrorOccurred" >>
    BY ResultIs
  <1>9. /\ Tail(Work) \in Seq(Step) /\ EndsLocked(Tail(Work))
        /\ \A x : Has(Work, x) <=> step = x \/ Has(Tail(Work), x)
        /\ Over(Tail(Work), StopSteps \cup Duties(motor))
    <2>1. EndsLocked(Work) /\ Over(Work, StopSteps \cup Duties(motor))
      BY DEF MotorIInv, WorkInv
    <2>2. QED
      BY <1>1, <1>4, <2>1, RestHas, RestEndsLocked
  <1>10. step = "startFailed" => Has(events', "ErrorOccurred")
    <2> HIDE DEF told
    <2>1. \A x : Has(events \o told, x) <=> Has(events, x) \/ Has(told, x)
      BY <1>3, <1>8, Joined
    <2>2. Has(<< "ErrorOccurred" >>, "ErrorOccurred")
      BY OneStep
    <2>3. QED
      BY <1>1, <1>8, <2>1, <2>2
  <1>11. events' \in Seq(MotorEvents)
    <2> HIDE DEF told
    <2>1. QED
      BY <1>1, <1>3, <1>8
  <1> HIDE DEF step, told
  <1>12. MotorTypeInv'
    <2>1. steps' \in [Thread -> Seq(Step)]
      BY <1>1, <1>3, <1>9
    <2>2. motorSpeed' \in Nat /\ offset' \in Int
      BY <1>1, <1>3
    <2>3. up' \in BOOLEAN
      BY <1>1
    <2>4. QED
      BY <1>2, <1>5, <1>11, <2>1, <2>2, <2>3 DEF MotorIInv, MotorTypeInv
  <1>13. WorkInv'
    BY <1>1, <1>2, <1>4, <1>7, <1>9 DEF MotorIInv, WorkInv
  <1>14. InitInv'
    BY <1>1 DEF InitInv
  <1>15. StillInv'
    <2>1. /\ Has(Work', "deEnergize") <=> Has(Work, "deEnergize")
          /\ Has(Work', "enterSafeStart") <=> Has(Work, "enterSafeStart")
      BY <1>4, <1>7, <1>9
    <2>2. Blocked' = Blocked /\ PoweredOff' = PoweredOff
      BY <1>5 DEF Blocked, PoweredOff
    <2>3. QED
      BY <1>2, <1>5, <2>1, <2>2 DEF MotorIInv, StillInv
  <1>16. UndisturbedInv'
    <2> SUFFICES ASSUME faults = 0 PROVE UndisturbedInv'
      BY <1>2 DEF UndisturbedInv
    <2>1. /\ tic.there
          /\ IoWork' \in {<<>>, << "clamp", "sendSpeed" >>, << "sendSpeed" >>,
                          << "setTargetVelocity" >>}
      BY <1>7 DEF MotorIInv, UndisturbedInv
    <2>2. ~crossed => IoWork = <<>> /\ StartInv
      BY <1>1 DEF MotorIInv, UndisturbedInv
    <2>3. ASSUME ~crossed, motor = "Starting"
          PROVE  /\ Work' = <<>>
                 /\ ~Has(events', "ErrorOccurred") => Normal(tic) /\ Follows(Sum)'
      <3>1. CASE Work = << "startFailed" >>
        <4>1. Head(Work) = "startFailed" /\ Tail(Work) = <<>>
          BY <3>1, OneStep
        <4>2. QED
          BY <1>7, <1>10, <4>1 DEF step
      <3>2. CASE StartedInv
        <4>1. /\ step \in StartSteps
              /\ \A x : Place(x) <= Place(step) => ~Has(Tail(Work), x)
          BY <1>1, <1>4, <3>2, RestInPlace DEF StartedInv, step
        <4>2. step = "started"
          BY <1>6, <2>3, <4>1 DEF StartSteps
        <4>3. \A x : ~Has(Tail(Work), x)
          <5>1. Place(step) = 9
            BY <4>2 DEF Place
          <5>2. \A x : Place(x) <= 9
            BY DEF Place
          <5>3. QED
            BY <4>1, <5>1, <5>2
        <4>4. Tail(Work) = <<>>
          <5>1. SUFFICES ASSUME Tail(Work) # <<>> PROVE FALSE
            OBVIOUS
          <5>2. 1 \in DOMAIN Tail(Work)
            BY <1>9, <5>1, RestOf
          <5>3. QED
            BY <4>3, <5>2 DEF Has
        <4>5. \A x : Has(Work, x) <=> x = "started"
          BY <1>9, <4>2, <4>3
        <4>6. Normal(tic)
          BY <2>1, <3>2, <4>5 DEF StartedInv, Normal
        <4>7. Accepted(Sum) => tic.target = rpmToMicrostepsPer10kSeconds(Sum)
          BY <3>2, <4>5 DEF StartedInv
        <4>8. Sum' = Sum /\ Accepted(Sum)' = Accepted(Sum)
          BY <1>6, <2>3 DEF Sum, Accepted
        <4>9. Follows(Sum)'
          BY <1>5, <4>7, <4>8 DEF Follows
        <4>10. QED
          BY <1>7, <4>4, <4>6, <4>9
      <3>3. QED
        BY <1>1, <2>2, <2>3, <3>1, <3>2 DEF StartInv
    <2>4. ~crossed => StartInv'
      BY <1>2, <2>3 DEF StartInv
    <2>5. ASSUME ~crossed PROVE TurnInv'
      <3>1. SUFFICES ASSUME motor = "Starting", ~Has(events', "ErrorOccurred")
                     PROVE  Normal(tic') /\ IoWork' = <<>> /\ Follows(Sum)'
        <4>1. << "setTargetVelocity" >> # <<>>
          BY OneStep
        <4>2. QED
          BY <1>2, <1>4, <4>1 DEF TurnInv
      <3>2. QED
        BY <1>5, <1>7, <2>2, <2>3, <2>5, <3>1
    <2>6. QED
      BY <1>2, <1>5, <1>7, <2>1, <2>2, <2>4, <2>5 DEF UndisturbedInv
  <1>17. QED
    BY <1>12, <1>13, <1>14, <1>15, <1>16 DEF MotorIInv
-----------------------------------------------------------------------------
LEMMA MotorStartsRight == MotorInit => MotorIInv
  <1> SUFFICES ASSUME MotorInit PROVE MotorIInv
    OBVIOUS
  <1> DEFINE ends == << "initialized" >>
             calls == InitController \o ends
  <1>1. Work = calls /\ IoWork = <<>> /\ DOMAIN steps = Thread
    BY DEF MotorInit, Work, IoWork, Thread
  <1>2. /\ InitController \in Seq(Step) /\ Len(InitController) = 7
        /\ InitController[1] = "reset" /\ InitController[2] = "resetCommandTimeout"
        /\ InitController[3] = "initExitSafeStart"
        /\ InitController[4] = "haltAndSetPosition"
        /\ InitController[5] = "initStepMode" /\ InitController[6] = "getInitState"
        /\ InitController[7] = "initEnterSafeStart"
    <2>1. {"reset", "resetCommandTimeout", "initExitSafeStart", "haltAndSetPosition",
           "initStepMode", "getInitState", "initEnterSafeStart"} \subseteq Step
      BY DEF Step, Transfers, Commands, StateReads
    <2>2. QED
      BY <2>1 DEF InitController
  <1>3. ends \in Seq(Step) /\ Len(ends) = 1 /\ ends[1] = "initialized"
    BY DEF Step, LocalSteps
  <1> HIDE DEF ends
  <1>4. /\ calls \in Seq(Step) /\ Len(calls) = 8 /\ DOMAIN calls = 1 .. 8
        /\ \A i \in 1 .. 8 : calls[i] = IF i <= 7 THEN InitController[i] ELSE ends[i - 7]
    <2> DEFINE begins == InitController
    <2>1. /\ begins \in Seq(Step) /\ Len(begins) = 7
          /\ ends \in Seq(Step) /\ Len(ends) = 1
      BY <1>2, <1>3
    <2> HIDE DEF begins
    <2>2. /\ begins \o ends \in Seq(Step)
          /\ Len(begins \o ends) = Len(begins) + Len(ends)
          /\ DOMAIN (begins \o ends) = 1 .. Len(begins) + Len(ends)
          /\ \A i \in 1 .. Len(begins) + Len(ends) :
                (begins \o ends)[i] =
                   IF i <= Len(begins) THEN begins[i] ELSE ends[i - Len(begins)]
      BY <2>1, JoinAt
    <2>3. Len(begins) + Len(ends) = 8
      BY <2>1
    <2>4. QED
      BY <2>1, <2>2, <2>3 DEF begins
  <1> HIDE DEF calls
  <1>5. /\ calls[1] = "reset" /\ calls[2] = "resetCommandTimeout"
        /\ calls[3] = "initExitSafeStart" /\ calls[4] = "haltAndSetPosition"
        /\ calls[5] = "initStepMode" /\ calls[6] = "getInitState"
        /\ calls[7] = "initEnterSafeStart" /\ calls[8] = "initialized"
    BY <1>2, <1>3, <1>4
  <1>6. \A i \in 1 .. 8 : i = 1 \/ i = 2 \/ i = 3 \/ i = 4 \/ i = 5 \/ i = 6 \/ i = 7 \/ i = 8
    OBVIOUS
  <1>7. Over(calls, InitSteps)
    BY <1>4, <1>5, <1>6 DEF Over, InitSteps
  <1>8. EndsInitialized(calls)
    <2> SUFFICES ASSUME NEW i \in 1 .. 8
                 PROVE  /\ calls[i] \in {"initialized", "initFailed"} => i = 8
                        /\ calls[i] = "initExitSafeStart" =>
                              i < 7 /\ calls[7] = "initEnterSafeStart"
      BY <1>4 DEF EndsInitialized
    <2>1. QED
      BY <1>5, <1>6
  <1>9. Has(calls, "initEnterSafeStart")
    <2>1. 7 \in DOMAIN calls
      BY <1>4
    <2>2. QED
      BY <1>5, <2>1 DEF Has
  <1>10. /\ tic \in TicStates /\ tic.velocity = 0 /\ tic.target = 0 /\ tic.there
    <2>1. PICK safeStart \in BOOLEAN : tic = PoweredUp(safeStart)
      BY DEF MotorInit
    <2>2. PoweredUp(safeStart) \in TicStates
      BY DEF PoweredUp, TicStates
    <2>3. /\ PoweredUp(safeStart).velocity = 0 /\ PoweredUp(safeStart).target = 0
          /\ PoweredUp(safeStart).there
      BY DEF PoweredUp
    <2>4. QED
      BY <2>1, <2>2, <2>3
  <1>11. MotorTypeInv
    <2>1. steps \in [Thread -> Seq(Step)]
      <3>1. InitController \o << "initialized" >> \in Seq(Step)
        BY <1>4 DEF calls, ends
      <3>2. QED
        BY <3>1, NoStep DEF MotorInit
    <2>2. motorOrders \in Seq(SUBSET Orders)
      BY MotorOrdersAssumption DEF MotorInit, Orders
    <2>3. /\ requests \in 0 .. MaxRequests /\ faults \in 0 .. MaxFaults
          /\ ownSpeed \in 0 .. MaxSpeed
      BY MotorRequestsAssumption, MotorAssumption DEF MotorInit
    <2>4. events \in Seq(MotorEvents) /\ motor \in MotorStates
      BY DEF MotorInit, MotorStates
    <2>5. sending \in [Thread -> Nat] /\ motorSpeed \in Nat /\ offset \in Int
      BY DEF MotorInit
    <2>6. up \in BOOLEAN /\ crossed \in BOOLEAN
      BY DEF MotorInit
    <2>7. QED
      BY <1>10, <2>1, <2>2, <2>3, <2>4, <2>5, <2>6 DEF MotorTypeInv
  <1>12. ~up /\ motor = "Off" /\ events = <<>>
    BY DEF MotorInit
  <1>13. WorkInv
    BY <1>1, <1>7, <1>8, <1>12, NoStep DEF WorkInv
  <1>14. InitInv
    BY <1>1, <1>9, <1>10 DEF InitInv
  <1>15. StillInv /\ UndisturbedInv
    BY <1>1, <1>12 DEF StillInv, UndisturbedInv, StartInv, TurnInv
  <1>16. QED
    BY <1>11, <1>13, <1>14, <1>15 DEF MotorIInv

LEMMA MotorStays == MotorIInv /\ UNCHANGED motorVars => MotorIInv'
  <1> SUFFICES ASSUME MotorIInv, UNCHANGED motorVars PROVE MotorIInv'
    OBVIOUS
  <1>1. /\ motor' = motor /\ events' = events /\ steps' = steps /\ sending' = sending
        /\ motorSpeed' = motorSpeed /\ offset' = offset /\ ownSpeed' = ownSpeed
        /\ tic' = tic /\ up' = up /\ crossed' = crossed /\ motorOrders' = motorOrders
        /\ requests' = requests /\ faults' = faults
    BY DEF motorVars
  <1>2. Work' = Work /\ IoWork' = IoWork
    BY <1>1 DEF Work, IoWork
  <1>3. MotorTypeInv' /\ WorkInv'
    BY <1>1, <1>2 DEF MotorIInv, MotorTypeInv, WorkInv
  <1>4. InitInv' /\ StillInv'
    BY <1>1, <1>2, LeavesController
  <1>5. UndisturbedInv'
    <2>1. Sum' = Sum /\ Follows(Sum)' = Follows(Sum) /\ Accepted(Sum)' = Accepted(Sum)
      BY <1>1 DEF Sum, Follows, Accepted
    <2>2. StartedInv' = StartedInv
      BY <1>1, <1>2, <2>1 DEF StartedInv
    <2>3. StartInv => StartInv'
      BY <1>1, <1>2, <2>2 DEF StartInv
    <2>4. TurnInv => TurnInv'
      BY <1>1, <1>2, <2>1 DEF TurnInv
    <2>5. QED
      BY <1>1, <1>2, <2>3, <2>4 DEF MotorIInv, UndisturbedInv
  <1>6. QED
    BY <1>3, <1>4, <1>5 DEF MotorIInv

LEMMA MotorGoesOn == MotorIInv /\ MotorNext => MotorIInv'
  <1> SUFFICES ASSUME MotorIInv, MotorNext PROVE MotorIInv'
    OBVIOUS
  <1>1. ~Crashed
    BY DEF MotorNext
  <1>2. CASE MotorDispatch
    BY <1>2, WorkerDispatches
  <1>3. CASE MotorTransfer("worker")
    BY <1>1, <1>3, WorkerTransfers
  <1>4. CASE SetSpeed("worker")
    BY <1>4, WorkerSetsSpeed
  <1>5. CASE MotorFinish
    <2>1. up \in BOOLEAN
      BY DEF MotorIInv, MotorTypeInv
    <2>2. QED
      BY <1>5, <2>1, WorkerInitialized, WorkerEnds
  <1>6. CASE MotorTransfer("io")
    BY <1>1, <1>6, IoTransfers
  <1>7. CASE SetSpeed("io")
    BY <1>7, IoSetsSpeed
  <1>8. CASE Clamp
    BY <1>8, IoClamps
  <1>9. CASE Ramp
    BY <1>9, MotorRamps
  <1>10. CASE MotorOrdered
    BY <1>10, OrdersArrive
  <1>11. ASSUME NEW v \in Speeds, SetMotorSpeed(v) PROVE MotorIInv'
    BY <1>11, IoSetsMotorSpeed
  <1>12. ASSUME NEW d \in Increments, ChangeOffset(d) PROVE MotorIInv'
    BY <1>12, IoChangesOffset
  <1>13. QED
    BY <1>2, <1>3, <1>4, <1>5, <1>6, <1>7, <1>8, <1>9, <1>10, <1>11, <1>12
       DEF MotorNext, MotorWorkerStep, MotorIoStep

\* What the invariant says of a motor whose threads rest.
LEMMA MotorInvariantHolds == MotorIInv => MotorInvariant
  <1> SUFFICES ASSUME MotorIInv PROVE MotorInvariant
    OBVIOUS
  <1>1. MotorTypeOK
    BY MotorEventsAre DEF MotorIInv, MotorTypeInv, MotorTypeOK, TicStates, Step
  <1>2. up \in BOOLEAN /\ tic \in TicStates
    BY DEF MotorIInv, MotorTypeInv
  <1>3. (\A t \in Thread : AtRest(t)) => Work = <<>> /\ IoWork = <<>>
    BY DEF AtRest, Thread, Work, IoWork
  <1>4. StillWhenNotRunning
    <2> SUFFICES ASSUME motor \in {"Off", "Initialization", "Stopped", "Error"},
                        \A t \in Thread : AtRest(t), tic.safeStart, faults <= 1
                 PROVE  tic.velocity = 0
      BY DEF StillWhenNotRunning
    <2>1. CASE ~up
      BY <2>1 DEF MotorIInv, InitInv
    <2>2. CASE up
      <3>1. ~Has(Work, "deEnergize") /\ ~Has(Work, "enterSafeStart")
        BY <1>3, NoStep
      <3>2. Blocked
        BY <2>2, <3>1 DEF MotorIInv, StillInv
      <3>3. QED
        BY <3>2 DEF Blocked
    <2>3. QED
      BY <1>2, <2>1, <2>2
  <1>5. TurnsAsTold
    <2> SUFFICES ASSUME motor = "Running", events = <<>>, \A t \in Thread : AtRest(t),
                        faults = 0, ~crossed, Accepted(Sum)
                 PROVE  Normal(tic) /\ tic.target = rpmToMicrostepsPer10kSeconds(Sum)
      BY DEF TurnsAsTold
    <2>1. TurnInv
      BY DEF MotorIInv, UndisturbedInv
    <2>2. Work = <<>> /\ IoWork = <<>>
      BY <1>3
    <2>3. ~Has(events, "ErrorOccurred")
      BY NoStep
    <2>4. Normal(tic) /\ Follows(Sum)
      BY <2>1, <2>2, <2>3 DEF TurnInv
    <2>5. QED
      BY <2>4 DEF Follows
  <1>6. QED
    BY <1>1, <1>4, <1>5 DEF MotorInvariant

\* A motor does as it was told last: it turns at the sum of speed and offset once it
\* runs, and it stands when its component is not at work, even if one transfer has
\* failed (MotorService.cpp:40-119 over StepperMotor.cpp:159-268).
THEOREM MotorDoesAsTold == MotorSpec => []MotorInvariant
  <1>1. MotorInit => MotorIInv
    BY MotorStartsRight
  <1>2. MotorIInv /\ [MotorNext]_motorVars => MotorIInv'
    BY MotorStays, MotorGoesOn
  <1>3. MotorIInv => MotorInvariant
    BY MotorInvariantHolds
  <1>4. QED
    BY <1>1, <1>2, <1>3, PTL DEF MotorSpec
===============================================================================
