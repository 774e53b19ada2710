---------------------------- MODULE MachineProofs ----------------------------
(***************************************************************************)
(* What holds of the components of the machine together, for every         *)
(* scenario.                                                               *)
(*                                                                         *)
(* First what the transition tables say, then what the actions send and    *)
(* tell, then that every step keeps the invariant of the components.  The  *)
(* second part is about switching off: an order to switch off reaches      *)
(* every component below, through errors and lost states.  The third is    *)
(* about what MachineControl tells: which orders, events and answers can   *)
(* be on their way in each of its places.  The fourth follows what failed  *)
(* on its way up.                                                          *)
(***************************************************************************)
EXTENDS Machine, FiniteSetTheorems, TLAPS

(* The transition tables. *)

LEMMA EntryForm ==
    ASSUME NEW S, NEW e, NEW n, NEW a, NEW t \in On(S, e, n, a)
    PROVE  t.state \in S /\ t.event = e /\ t.next = n /\ t.action = a
  BY DEF On

\* Every table has an entry for each of its states, and leads only to them.
LEMMA ErrorForm ==
    ASSUME NEW S, "Off" \in S, "Error" \in S
    PROVE  /\ \A t \in ErrorEntries(S) : t.state \in S /\ t.next \in S
           /\ \A s \in S : \E t \in ErrorEntries(S) : t.state = s
  <1>1. ASSUME NEW t \in ErrorEntries(S) PROVE t.state \in S /\ t.next \in S
    <2>1. CASE t \in On({"Off"}, "SwitchOff", "Off", "none")
      BY <2>1, EntryForm
    <2>2. CASE t \in On(S \ {"Error"}, "ErrorOccurred", "Error", "handleError")
      BY <2>2, EntryForm
    <2>3. CASE t \in On({"Error"}, "ErrorOccurred", "Error", "none")
      BY <2>3, EntryForm
    <2>4. QED
      BY <2>1, <2>2, <2>3 DEF ErrorEntries
  <1>2. ASSUME NEW s \in S PROVE \E t \in ErrorEntries(S) : t.state = s
    <2> DEFINE t == [state |-> s, event |-> "ErrorOccurred", next |-> "Error",
                     action |-> IF s = "Error" THEN "none" ELSE "handleError"]
    <2>1. t \in ErrorEntries(S)
      BY DEF ErrorEntries, On
    <2>2. QED
      BY <2>1
  <1>3. QED
    BY <1>1, <1>2

LEMMA CommonForm ==
    ASSUME NEW S, "Off" \in S, "Error" \in S, "Initialization" \in S
    PROVE  /\ \A t \in CommonEntries(S) : t.state \in S /\ t.next \in S
           /\ \A s \in S : \E t \in CommonEntries(S) : t.state = s
  <1>1. ASSUME NEW t \in CommonEntries(S) PROVE t.state \in S /\ t.next \in S
    <2>1. CASE t \in ErrorEntries(S)
      BY <2>1, ErrorForm
    <2>2. CASE t \in On({"Off"}, "SwitchOn", "Initialization", "switchOn")
      BY <2>2, EntryForm
    <2>3. CASE t \in On(S \ {"Off"}, "SwitchOff", "Off", "switchOff")
      BY <2>3, EntryForm
    <2>4. QED
      BY <2>1, <2>2, <2>3 DEF CommonEntries
  <1>2. \A s \in S : \E t \in CommonEntries(S) : t.state = s
    BY ErrorForm DEF CommonEntries
  <1>3. QED
    BY <1>1, <1>2

LEMMA MachineStatesOf ==
    /\ \A t \in MachineTable : t.state \in MachineStates /\ t.next \in MachineStates
    /\ {t.state : t \in MachineTable} = MachineStates
  <1> PICK S : S = MachineStates
    OBVIOUS
  <1>1. \A t \in CommonEntries(S) : t.state \in S /\ t.next \in S
    BY CommonForm DEF MachineStates
  <1>2. \A t \in MachineTable : t.state \in S /\ t.next \in S
    BY <1>1, EntryForm DEF MachineTable, MachineStates
  <1>3. \A s \in S : \E t \in MachineTable : t.state = s
    <2>1. \A s \in S : \E t \in CommonEntries(S) : t.state = s
      BY CommonForm, SMTT(30) DEF MachineStates
    <2>2. CommonEntries(S) \subseteq MachineTable
      BY DEF MachineTable
    <2>3. QED
      BY <2>1, <2>2
  <1>4. QED
    BY <1>2, <1>3

LEMMA MergerStatesOf ==
    /\ \A t \in MergerTable : t.state \in MergerStates /\ t.next \in MergerStates
    /\ {t.state : t \in MergerTable} = MergerStates
  <1> PICK S : S = MergerStates
    OBVIOUS
  <1>1. \A t \in CommonEntries(S) : t.state \in S /\ t.next \in S
    BY CommonForm DEF MergerStates
  <1>2. \A t \in MergerTable : t.state \in S /\ t.next \in S
    BY <1>1, EntryForm DEF MergerTable, MergerStates
  <1>3. \A s \in S : \E t \in MergerTable : t.state = s
    <2>1. \A s \in S : \E t \in CommonEntries(S) : t.state = s
      BY CommonForm DEF MergerStates
    <2>2. CommonEntries(S) \subseteq MergerTable
      BY DEF MergerTable
    <2>3. QED
      BY <2>1, <2>2
  <1>4. QED
    BY <1>2, <1>3

LEMMA CoilStatesOf ==
    /\ \A t \in CoilTable : t.state \in CoilStates /\ t.next \in CoilStates
    /\ {t.state : t \in CoilTable} = CoilStates
  <1> PICK S : S = CoilStates
    OBVIOUS
  <1>1. \A t \in CommonEntries(S) : t.state \in S /\ t.next \in S
    BY CommonForm DEF CoilStates
  <1>2. \A t \in CoilTable : t.state \in S /\ t.next \in S
    BY <1>1, EntryForm DEF CoilTable, CoilStates, CoilResume
  <1>3. \A s \in S : \E t \in CoilTable : t.state = s
    <2>1. \A s \in S : \E t \in CommonEntries(S) : t.state = s
      BY CommonForm, SMTT(30) DEF CoilStates
    <2>2. CommonEntries(S) \subseteq CoilTable
      BY DEF CoilTable
    <2>3. QED
      BY <2>1, <2>2
  <1>4. QED
    BY <1>2, <1>3

LEMMA MotorStatesOf ==
    /\ \A t \in MotorTable : t.state \in MotorStates /\ t.next \in MotorStates
    /\ {t.state : t \in MotorTable} = MotorStates
  <1> PICK S : S = MotorStates
    OBVIOUS
  <1>1. \A t \in ErrorEntries(S) : t.state \in S /\ t.next \in S
    BY ErrorForm DEF MotorStates
  <1>2. \A t \in MotorTable : t.state \in S /\ t.next \in S
    BY <1>1, EntryForm DEF MotorTable, MotorStates
  <1>3. \A s \in S : \E t \in MotorTable : t.state = s
    <2>1. \A s \in S : \E t \in ErrorEntries(S) : t.state = s
      BY ErrorForm DEF MotorStates
    <2>2. ErrorEntries(S) \subseteq MotorTable
      BY DEF MotorTable
    <2>3. QED
      BY <2>1, <2>2
  <1>4. QED
    BY <1>2, <1>3

LEMMA HeaterStatesOf ==
    /\ \A t \in HeaterTable : t.state \in HeaterStates /\ t.next \in HeaterStates
    /\ {t.state : t \in HeaterTable} = HeaterStates
  <1> PICK S : S = HeaterStates
    OBVIOUS
  <1>1. \A t \in CommonEntries(S) : t.state \in S /\ t.next \in S
    BY CommonForm DEF HeaterStates
  <1>2. \A t \in HeaterTable : t.state \in S /\ t.next \in S
    BY <1>1, EntryForm DEF HeaterTable, HeaterStates
  <1>3. \A s \in S : \E t \in HeaterTable : t.state = s
    <2>1. \A s \in S : \E t \in CommonEntries(S) : t.state = s
      BY CommonForm DEF HeaterStates
    <2>2. CommonEntries(S) \subseteq HeaterTable
      BY DEF HeaterTable
    <2>3. QED
      BY <2>1, <2>2
  <1>4. QED
    BY <1>2, <1>3

LEMMA SensorStatesOf ==
    /\ \A t \in SensorTable : t.state \in SensorStates /\ t.next \in SensorStates
    /\ {t.state : t \in SensorTable} = SensorStates
  <1> PICK S : S = SensorStates
    OBVIOUS
  <1>1. \A t \in CommonEntries(S) : t.state \in S /\ t.next \in S
    BY CommonForm DEF SensorStates
  <1>2. \A t \in SensorTable : t.state \in S /\ t.next \in S
    BY <1>1, EntryForm DEF SensorTable, SensorStates
  <1>3. \A s \in S : \E t \in SensorTable : t.state = s
    <2>1. \A s \in S : \E t \in CommonEntries(S) : t.state = s
      BY CommonForm DEF SensorStates
    <2>2. CommonEntries(S) \subseteq SensorTable
      BY DEF SensorTable
    <2>3. QED
      BY <2>1, <2>2
  <1>4. QED
    BY <1>2, <1>3

\* Which table a component has.
LEMMA TableIs ==
    /\ Table("MachineControl") = MachineTable
    /\ Table("FilamentMergerControl") = MergerTable
    /\ Table("FilamentCoilControl") = CoilTable
    /\ \A m \in Motor : Table(m) = MotorTable
    /\ \A h \in Heater : Table(h) = HeaterTable
    /\ Table("FilamentTensionSensor") = SensorTable
  <1>1. /\ "MachineControl" \notin Motor \cup Heater
        /\ "FilamentMergerControl" \notin Motor \cup Heater
        /\ "FilamentCoilControl" \notin Motor \cup Heater
        /\ "FilamentTensionSensor" \notin Motor \cup Heater
        /\ Motor \cap Heater = {}
    BY DEF Motor, Heater
  <1>2. QED
    BY <1>1 DEF Table

LEMMA Components ==
    ASSUME NEW c \in Component
    PROVE  \/ c \in {"MachineControl", "FilamentMergerControl", "FilamentCoilControl",
                     "FilamentTensionSensor"}
           \/ c \in Motor
           \/ c \in Heater
  BY DEF Component, Control

LEMMA TablesClosed ==
    ASSUME NEW c \in Component
    PROVE  /\ \A t \in Table(c) : t.state \in StatesOf[c] /\ t.next \in StatesOf[c]
           /\ "Off" \in StatesOf[c]
  <1>1. CASE c = "MachineControl"
    BY <1>1, TableIs, MachineStatesOf DEF StatesOf, MachineStates
  <1>2. CASE c = "FilamentMergerControl"
    BY <1>2, TableIs, MergerStatesOf DEF StatesOf, MergerStates
  <1>3. CASE c = "FilamentCoilControl"
    BY <1>3, TableIs, CoilStatesOf DEF StatesOf, CoilStates
  <1>4. CASE c \in Motor
    BY <1>4, TableIs, MotorStatesOf DEF StatesOf, MotorStates
  <1>5. CASE c \in Heater
    BY <1>5, TableIs, HeaterStatesOf DEF StatesOf, HeaterStates
  <1>6. CASE c = "FilamentTensionSensor"
    BY <1>6, TableIs, SensorStatesOf DEF StatesOf, SensorStates
  <1>7. QED
    BY <1>1, <1>2, <1>3, <1>4, <1>5, <1>6, Components

\* The events of the entries, and those that are pushed.
LEMMA EntryEvent ==
    ASSUME NEW c \in Component, NEW S, S # {}, NEW e, NEW n, NEW a, On(S, e, n, a) \subseteq Table(c)
    PROVE  e \in Event
  <1>1. PICK s : s \in S
    OBVIOUS
  <1> DEFINE t == [state |-> s, event |-> e, next |-> n, action |-> a]
  <1>2. t \in Table(c) /\ t.event = e
    BY <1>1 DEF On
  <1>3. e \in EventsOf[c]
    BY <1>2 DEF EventsOf
  <1>4. QED
    BY <1>3 DEF Event

LEMMA CommonEvents ==
    {"SwitchOn", "SwitchOff", "ErrorOccurred", "SwitchOnSucceeded"} \subseteq Event
  <1>1. /\ On({"Off"}, "SwitchOn", "Initialization", "switchOn") \subseteq SensorTable
        /\ On({"Off"}, "SwitchOff", "Off", "none") \subseteq SensorTable
        /\ On({"Error"}, "ErrorOccurred", "Error", "none") \subseteq SensorTable
        /\ On({"Initialization"}, "SwitchOnSucceeded", "Running", "none") \subseteq SensorTable
    BY DEF SensorTable, CommonEntries, ErrorEntries, SensorStates
  <1>2. "FilamentTensionSensor" \in Component /\ Table("FilamentTensionSensor") = SensorTable
    BY TableIs DEF Component, Control, Motor, Heater
  <1>3. QED
    BY <1>1, <1>2, EntryEvent

LEMMA MachineEvents ==
    {"Start", "StartHeatless", "MergerHeatedUp", "CheckStartingState", "StartingSucceeded",
     "CheckStoppingState", "StoppingSucceeded"} \subseteq Event
  <1>1. /\ On({"Stopped"}, "Start", "HeatingUp", "startHeating") \subseteq MachineTable
        /\ On({"Stopped"}, "StartHeatless", "Starting", "startMachine") \subseteq MachineTable
        /\ On({"HeatingUp"}, "MergerHeatedUp", "Starting", "startMachine") \subseteq MachineTable
        /\ On({"Starting"}, "CheckStartingState", "Starting", "checkStartingState") \subseteq MachineTable
        /\ On({"Starting", "Running"}, "StartingSucceeded", "Running", "none") \subseteq MachineTable
        /\ On({"Stopping"}, "CheckStoppingState", "Stopping", "checkStoppingState") \subseteq MachineTable
        /\ On({"Stopping"}, "StoppingSucceeded", "Stopped", "none") \subseteq MachineTable
    BY DEF MachineTable
  <1>2. "MachineControl" \in Component /\ Table("MachineControl") = MachineTable
    BY TableIs DEF Component, Control, Motor, Heater
  <1>3. QED
    BY <1>1, <1>2, EntryEvent

LEMMA MergerEvents ==
    {"StartHeating", "HeatingUpSucceeded", "Stop", "StartMotor", "StartMotorSucceeded"} \subseteq Event
  <1>1. /\ On({"MergerStopped"}, "StartHeating", "HeatingUp", "heatingUp") \subseteq MergerTable
        /\ On({"HeatingUp"}, "HeatingUpSucceeded", "HeatedUp", "notifyHeatedUp") \subseteq MergerTable
        /\ On({"MergerStopped"}, "Stop", "MergerStopped", "none") \subseteq MergerTable
        /\ On({"HeatedUp", "MergerStopped"}, "StartMotor", "StartingMotor", "startMotor") \subseteq MergerTable
        /\ On({"StartingMotor"}, "StartMotorSucceeded", "Running", "notifyRunning") \subseteq MergerTable
    BY DEF MergerTable
  <1>2. "FilamentMergerControl" \in Component /\ Table("FilamentMergerControl") = MergerTable
    BY TableIs DEF Component, Control, Motor, Heater
  <1>3. QED
    BY <1>1, <1>2, EntryEvent

LEMMA CoilEvents ==
    {"StopMotor", "StopMotorSucceeded", "TensionTooHigh", "TensionTooLow", "TensionOverloaded"} \subseteq Event
  <1>1. /\ On({"MotorStopped"}, "StopMotor", "MotorStopped", "none") \subseteq CoilTable
        /\ On({"StoppingMotor"}, "StopMotorSucceeded", "MotorStopped", "none") \subseteq CoilTable
        /\ On({"Running"}, "TensionTooHigh", "Running", "controlFilamentTension") \subseteq CoilTable
        /\ On({"Running"}, "TensionTooLow", "Running", "controlFilamentTension") \subseteq CoilTable
        /\ On({"Running"}, "TensionOverloaded", "Pausing", "stopMotor") \subseteq CoilTable
    BY DEF CoilTable
  <1>2. "FilamentCoilControl" \in Component /\ Table("FilamentCoilControl") = CoilTable
    BY TableIs DEF Component, Control, Motor, Heater
  <1>3. QED
    BY <1>1, <1>2, EntryEvent

LEMMA HeaterEvents ==
    {"MaxTemperatureReached", "MinTemperatureReached"} \subseteq Event
  <1>1. /\ On({"HeatingOn"}, "MaxTemperatureReached", "HeatingOff", "stopHeating") \subseteq HeaterTable
        /\ On({"HeatingOn"}, "MinTemperatureReached", "HeatingOn", "none") \subseteq HeaterTable
    BY DEF HeaterTable
  <1>2. "FilamentPreHeater" \in Component /\ Table("FilamentPreHeater") = HeaterTable
    BY TableIs DEF Component, Control, Motor, Heater
  <1>3. QED
    BY <1>1, <1>2, EntryEvent

-----------------------------------------------------------------------------
(* What the actions do. *)

Working == {"Starting", "Running", "HeatingOn"}

\* An entry takes a component to a state that says what its action does to the device.
FitsDevice(t) ==
    /\ t.action \in {"startMotor", "startHeating"} => t.next \in Working
    /\ t.action \in {"stopMotor", "stopHeating", "switchOff", "handleError"} => t.next \notin Working
    /\ t.action \in {"none", "switchOn"} => (t.next \in Working <=> t.state \in Working)
    /\ t.action \in {"startMotor", "startHeating", "stopMotor", "stopHeating", "switchOff",
                    "handleError", "none", "switchOn"}

LEMMA EntriesFitDevice ==
    ASSUME NEW c \in Motor \cup Heater, NEW t \in Table(c)
    PROVE  FitsDevice(t)
  <1>1. ASSUME t \in MotorTable PROVE FitsDevice(t)
    BY <1>1, EntryForm DEF MotorTable, ErrorEntries, MotorStates, FitsDevice, Working
  <1>2. ASSUME t \in HeaterTable PROVE FitsDevice(t)
    BY <1>2, EntryForm DEF HeaterTable, CommonEntries, ErrorEntries, HeaterStates, FitsDevice, Working
  <1>3. QED
    BY <1>1, <1>2, TableIs

\* An entry that ends in Off ends the observation of a heater or a sensor, and one that
\* ends in Error that of a sensor.
FitsObserver(t) ==
    /\ t.next = "Off" => t.action = "switchOff" \/ (t.state = "Off" /\ t.action = "none")
    /\ t.next = "Error" => t.action = "handleError" \/ (t.state = "Error" /\ t.action = "none")
    /\ t.action = "switchOn" => t.next = "Initialization"

LEMMA EntriesFitObserver ==
    ASSUME NEW c \in Heater \cup {"FilamentTensionSensor"}, NEW t \in Table(c)
    PROVE  FitsObserver(t)
  <1>1. ASSUME t \in HeaterTable PROVE FitsObserver(t)
    BY <1>1, EntryForm DEF HeaterTable, CommonEntries, ErrorEntries, HeaterStates, FitsObserver
  <1>2. ASSUME t \in SensorTable PROVE FitsObserver(t)
    BY <1>2, EntryForm DEF SensorTable, CommonEntries, ErrorEntries, SensorStates, FitsObserver
  <1>3. QED
    BY <1>1, <1>2, TableIs

\* What a component may tell, and the steps of its actions.
Notices(c) == {"none"} \cup IF c = "MachineControl" THEN Told ELSE Subscribed(c)

StepOf(c) == {s \in Step : s.do = "tell" => s.notification \in Notices(c)}

\* What the subscribers of a component hear from it.
LEMMA SubscribedIs ==
    /\ Subscribed("FilamentMergerControl") =
            {"ErrorOccurred", "FeedingRunning", "FeedingStopped", "HeatedUp"}
    /\ Subscribed("FilamentCoilControl") = {"ErrorOccurred", "CoilRunning", "CoilStopped"}
    /\ \A m \in Motor :
          Subscribed(m) = {"ErrorOccurred", "StartMotorSucceeded", "StopMotorSucceeded"}
    /\ \A h \in Heater : Subscribed(h) = {"ErrorOccurred", "TargetTemperatureRangeReached"}
    /\ Subscribed("FilamentTensionSensor") =
            {"ErrorOccurred", "TensionTooLow", "TensionTooHigh", "TensionOverloaded"}
  <1>1. Subscribed("FilamentMergerControl") =
            {"ErrorOccurred", "FeedingRunning", "FeedingStopped", "HeatedUp"}
    BY DEF Subscribed, Motor, Heater
  <1>2. Subscribed("FilamentCoilControl") = {"ErrorOccurred", "CoilRunning", "CoilStopped"}
    BY DEF Subscribed, Motor, Heater
  <1>3. /\ Subscribed("FilamentFeederMotor") =
              {"ErrorOccurred", "StartMotorSucceeded", "StopMotorSucceeded"}
        /\ Subscribed("FilamentCoilMotor") =
              {"ErrorOccurred", "StartMotorSucceeded", "StopMotorSucceeded"}
    BY DEF Subscribed, Motor, Heater
  <1>4. /\ Subscribed("FilamentMergerHeater") = {"ErrorOccurred", "TargetTemperatureRangeReached"}
        /\ Subscribed("FilamentPreHeater") = {"ErrorOccurred", "TargetTemperatureRangeReached"}
    BY DEF Subscribed, Motor, Heater
  <1>5. Subscribed("FilamentTensionSensor") =
            {"ErrorOccurred", "TensionTooLow", "TensionTooHigh", "TensionOverloaded"}
    BY DEF Subscribed, Motor, Heater
  <1>6. QED
    BY <1>1, <1>2, <1>3, <1>4, <1>5 DEF Motor, Heater

LEMMA NoticesOf ==
    /\ Notices("MachineControl") = Told
    /\ \A c \in Publisher : Notices(c) = {"none"} \cup Subscribed(c)
  BY DEF Notices, Publisher, Told

LEMMA SendIsStep ==
    ASSUME NEW c, NEW to \in Component, NEW what \in Request, NEW f \in Failure
    PROVE  Send(to, what, f) \in StepOf(c)
  BY DEF Send, StepOf, Step

LEMMA TellIsStep ==
    ASSUME NEW c \in Component, NEW e \in Event \cup {"none"}, NEW n \in Notices(c)
    PROVE  Tell(e, n) \in StepOf(c)
  <1>1. n \in Notification \cup Told
    BY DEF Notices, Notification, Publisher, Told
  <1>2. QED
    BY <1>1 DEF Tell, StepOf, Step

LEMMA PushIsStep ==
    ASSUME NEW c \in Component, NEW e \in Event
    PROVE  Push(e) \in StepOf(c)
  BY TellIsStep DEF Push, Notices

LEMMA NotifyIsStep ==
    ASSUME NEW c \in Component, NEW n \in Notices(c)
    PROVE  Notify(n) \in StepOf(c)
  BY TellIsStep DEF Notify

LEMMA MachineSteps ==
    ASSUME NEW action, NEW event
    PROVE  MachineAction(action, event) \in Seq(StepOf("MachineControl"))
  <1> DEFINE S == StepOf("MachineControl")
  <1>1. ASSUME NEW to \in {"FilamentMergerControl", "FilamentCoilControl"}, NEW what \in Request,
               NEW f \in Failure
        PROVE  Send(to, what, f) \in S
    BY SendIsStep DEF Component, Control
  <1>2. ASSUME NEW n \in Told PROVE Notify(n) \in S
    BY NotifyIsStep DEF Component, Control, Notices
  <1>3. /\ Push("SwitchOnSucceeded") \in S
        /\ Tell("StartingSucceeded", "Running") \in S
        /\ Tell("StoppingSucceeded", "Stopped") \in S
    BY PushIsStep, TellIsStep, CommonEvents, MachineEvents DEF Component, Control, Notices, Told
  <1> HIDE DEF S
  <1>4. /\ \A to \in {"FilamentMergerControl", "FilamentCoilControl"} :
              /\ Send(to, "SetMotorSpeed", "return") \in S
              /\ Send(to, "SwitchOff", "ignore") \in S
              /\ Send(to, "SwitchOn", "return") \in S
        /\ Send("FilamentMergerControl", "StartHeating", "continue") \in S
        /\ Send("FilamentMergerControl", "StartFeeding", "return") \in S
        /\ Send("FilamentMergerControl", "StopFeeding", "return") \in S
        /\ Send("FilamentCoilControl", "StopCoil", "return") \in S
        /\ Send("FilamentCoilControl", IF event = "StartHeatless" THEN "StartCoilHeatless"
                                      ELSE "StartCoil", "return") \in S
    BY <1>1 DEF Request, Failure
  <1>5. /\ Notify("Starting") \in S /\ Notify("HeatingUp") \in S /\ Notify("Stopped") \in S
        /\ Notify("SwitchedOff") \in S /\ Notify("ErrorOccurred") \in S
    BY <1>2 DEF Told
  <1>6. MachineSwitchOff \in Seq(S)
    BY <1>4 DEF MachineSwitchOff, SwitchOffComponent
  <1>7. StartMachine(event = "StartHeatless") \in Seq(S)
    BY <1>4, <1>5 DEF StartMachine
  <1>8. CheckStartingState \in Seq(S) /\ CheckStoppingState \in Seq(S)
    BY <1>3 DEF CheckStartingState, CheckStoppingState
  <1>9. MachineAction(action, event) \in Seq(S)
    BY <1>3, <1>4, <1>5, <1>6, <1>7, <1>8 DEF MachineAction
  <1>10. QED
    BY <1>9 DEF S

LEMMA MergerSteps ==
    ASSUME NEW action
    PROVE  MergerAction(action) \in Seq(StepOf("FilamentMergerControl"))
  <1> DEFINE S == StepOf("FilamentMergerControl")
  <1>1. ASSUME NEW to \in Motor \cup Heater, NEW what \in Request, NEW f \in Failure
        PROVE  Send(to, what, f) \in S
    BY SendIsStep DEF Component
  <1>a. "FilamentMergerControl" \in Component
    BY DEF Component, Control
  <1>b. /\ Push("SwitchOnSucceeded") \in S
        /\ \A n \in Notices("FilamentMergerControl") : Notify(n) \in S
    BY <1>a, PushIsStep, NotifyIsStep, CommonEvents
  <1>c. {"HeatedUp", "FeedingRunning", "FeedingStopped", "ErrorOccurred"}
            \subseteq Notices("FilamentMergerControl")
    BY NoticesOf, SubscribedIs DEF Publisher, Component, Control
  <1>2. /\ Push("SwitchOnSucceeded") \in S
        /\ Notify("HeatedUp") \in S /\ Notify("FeedingRunning") \in S
        /\ Notify("FeedingStopped") \in S /\ Notify("ErrorOccurred") \in S
    BY <1>b, <1>c
  <1> HIDE DEF S
  <1>3. /\ Send("FilamentFeederMotor", "SwitchOn", "return") \in S
        /\ Send("FilamentFeederMotor", "SwitchOff", "ignore") \in S
        /\ Send("FilamentFeederMotor", "StartMotor", "return") \in S
        /\ Send("FilamentFeederMotor", "StopMotor", "continue") \in S
        /\ Send("FilamentPreHeater", "SwitchOn", "continue") \in S
        /\ Send("FilamentMergerHeater", "SwitchOn", "continue") \in S
        /\ Send("FilamentPreHeater", "SwitchOff", "ignore") \in S
        /\ Send("FilamentMergerHeater", "SwitchOff", "ignore") \in S
    BY <1>1 DEF Motor, Heater, Request, Failure
  <1>4. HeatersOff \in Seq(S) /\ MergerSwitchOff \in Seq(S)
    BY <1>3 DEF HeatersOff, MergerSwitchOff, SwitchOffComponent
  <1>5. MergerAction(action) \in Seq(S)
    BY <1>2, <1>3, <1>4 DEF MergerAction
  <1>6. QED
    BY <1>5 DEF S

LEMMA CoilSteps ==
    ASSUME NEW action
    PROVE  CoilAction(action) \in Seq(StepOf("FilamentCoilControl"))
  <1> DEFINE S == StepOf("FilamentCoilControl")
  <1>1. ASSUME NEW to \in {"FilamentCoilMotor", "FilamentTensionSensor"}, NEW what \in Request,
               NEW f \in Failure
        PROVE  Send(to, what, f) \in S
    BY SendIsStep DEF Component, Motor
  <1>a. "FilamentCoilControl" \in Component
    BY DEF Component, Control
  <1>b. /\ Push("SwitchOnSucceeded") \in S
        /\ \A n \in Notices("FilamentCoilControl") : Notify(n) \in S
    BY <1>a, PushIsStep, NotifyIsStep, CommonEvents
  <1>c. {"CoilRunning", "CoilStopped", "ErrorOccurred"} \subseteq Notices("FilamentCoilControl")
    BY NoticesOf, SubscribedIs DEF Publisher, Component, Control
  <1>2. /\ Push("SwitchOnSucceeded") \in S
        /\ Notify("CoilRunning") \in S /\ Notify("CoilStopped") \in S
        /\ Notify("ErrorOccurred") \in S
    BY <1>b, <1>c
  <1> HIDE DEF S
  <1>3. /\ \A to \in {"FilamentCoilMotor", "FilamentTensionSensor"} :
              Send(to, "SwitchOn", "return") \in S /\ Send(to, "SwitchOff", "ignore") \in S
        /\ Send("FilamentCoilMotor", "StartMotor", "return") \in S
        /\ Send("FilamentCoilMotor", "StopMotor", "continue") \in S
        /\ Send("FilamentCoilMotor", "ChangeOffsetSpeed", "return") \in S
    BY <1>1 DEF Request, Failure
  <1>4. CoilSwitchOff \in Seq(S)
    BY <1>3 DEF CoilSwitchOff, SwitchOffComponent
  <1>5. CoilAction(action) \in Seq(S)
    BY <1>2, <1>3, <1>4 DEF CoilAction
  <1>6. QED
    BY <1>5 DEF S

LEMMA DeviceSteps ==
    ASSUME NEW c \in Motor \cup Heater \cup {"FilamentTensionSensor"}, NEW action,
           NEW ok \in BOOLEAN
    PROVE  /\ c \in Motor => MotorAction(action, ok) \in Seq(StepOf(c))
           /\ c \in Heater => HeaterAction(action, ok) \in Seq(StepOf(c))
           /\ c = "FilamentTensionSensor" => SensorAction(action, ok) \in Seq(StepOf(c))
  <1> DEFINE S == StepOf(c)
  <1>1. c \in Component /\ c # "MachineControl" /\ "SwitchOnFailed" \in Event
    BY DEF Component, Control, Motor, Heater, Event
  <1>2. /\ Push("SwitchOnSucceeded") \in S /\ Push("ErrorOccurred") \in S
        /\ Push("SwitchOnFailed") \in S
    BY <1>1, PushIsStep, CommonEvents
  <1>3. "ErrorOccurred" \in Notices(c)
    BY <1>1 DEF Notices, Subscribed
  <1>4. Notify("ErrorOccurred") \in S /\ Tell("ErrorOccurred", "ErrorOccurred") \in S
    BY <1>1, <1>3, NotifyIsStep, TellIsStep, CommonEvents
  <1>5. CASE c \in Motor
    <2>1. "StartMotorSucceeded" \in Notices(c) /\ "StopMotorSucceeded" \in Notices(c)
      BY <1>1, <1>5, SubscribedIs DEF Notices
    <2>2. /\ Tell("StartMotorSucceeded", "StartMotorSucceeded") \in S
          /\ Tell("StopMotorSucceeded", "StopMotorSucceeded") \in S
      BY <1>1, <2>1, TellIsStep, MergerEvents, CoilEvents
    <2> HIDE DEF S
    <2>3. MotorAction(action, ok) \in Seq(S)
      BY <1>2, <1>4, <2>2 DEF MotorAction
    <2>4. QED
      BY <1>5, <2>3 DEF S, Motor, Heater
  <1>6. CASE c \in Heater
    <2>1. "TargetTemperatureRangeReached" \in Notices(c)
      BY <1>1, <1>6, SubscribedIs DEF Notices
    <2>2. Notify("TargetTemperatureRangeReached") \in S
      BY <1>1, <2>1, NotifyIsStep
    <2> HIDE DEF S
    <2>3. HeaterAction(action, ok) \in Seq(S)
      BY <1>2, <1>4, <2>2 DEF HeaterAction
    <2>4. QED
      BY <1>6, <2>3 DEF S, Motor, Heater
  <1>7. CASE c = "FilamentTensionSensor"
    <2> HIDE DEF S
    <2>1. SensorAction(action, ok) \in Seq(S)
      BY <1>2, <1>4 DEF SensorAction
    <2>2. QED
      BY <1>7, <2>1 DEF S, Motor, Heater
  <1>8. QED
    BY <1>5, <1>6, <1>7

LEMMA ActionSteps ==
    ASSUME NEW c \in Component, NEW action, NEW event, NEW ok \in BOOLEAN
    PROVE  Action(c, action, event, ok) \in Seq(StepOf(c))
  <1>a. /\ Action("MachineControl", action, event, ok) = MachineAction(action, event)
        /\ Action("FilamentMergerControl", action, event, ok) = MergerAction(action)
        /\ Action("FilamentCoilControl", action, event, ok) = CoilAction(action)
    BY DEF Action, Motor, Heater
  <1>1. CASE c \in Control
    BY <1>1, <1>a, MachineSteps, MergerSteps, CoilSteps DEF Control
  <1>2. CASE c \in Motor
    <2>a. c \notin Control \cup Heater
      BY <1>2 DEF Motor, Heater, Control
    <2>1. Action(c, action, event, ok) = MotorAction(action, ok)
      BY <1>2, <2>a DEF Action, Control
    <2>2. QED
      BY <1>2, <2>1, DeviceSteps
  <1>3. CASE c \in Heater
    <2>a. c \notin Control \cup Motor
      BY <1>3 DEF Motor, Heater, Control
    <2>1. Action(c, action, event, ok) = HeaterAction(action, ok)
      BY <1>3, <2>a DEF Action, Control
    <2>2. QED
      BY <1>3, <2>1, DeviceSteps
  <1>4. CASE c = "FilamentTensionSensor"
    <2>1. Action(c, action, event, ok) = SensorAction(action, ok)
      BY <1>4 DEF Action, Motor, Heater
    <2>2. QED
      BY <1>4, <2>1, DeviceSteps
  <1>5. QED
    BY <1>1, <1>2, <1>3, <1>4 DEF Component
-----------------------------------------------------------------------------
(* The inductive invariant. *)

\* Besides what is to be shown, it says which components the functions are about, and
\* that what is left of an action tells only what the component may tell: whether a
\* notification has a subscriber is decided when the action begins, long before it is told.
IInv ==
    /\ MachineInvariant
    /\ scenario \in Scenario
    /\ DOMAIN state = Component
    /\ DOMAIN queue = Component
    /\ DOMAIN todo = Component
    /\ DOMAIN io = Component
    /\ DOMAIN mail = Publisher
    /\ \A c \in Component : todo[c] \in Seq(StepOf(c))

\* The devices that are otherwise than their states say.
Astray == (driven \ AtWork) \cup (AtWork \ driven)

\* What an action keeps when it leaves the hardware and the states alone.
LEMMA HardwareUnchanged ==
    ASSUME HardwareFollowsStates, UNCHANGED <<state, driven, observing, broken>>
    PROVE  HardwareFollowsStates'
  BY DEF HardwareFollowsStates, AtWork

LEMMA PushedType ==
    ASSUME IInv, NEW c \in Component, NEW e \in Event, queue' = Pushed(c, e)
    PROVE  DOMAIN queue' = Component /\ \A d \in Component : queue'[d] \in Seq(Event)
  BY DEF IInv, MachineInvariant, TypeOK, Pushed

LEMMA RequestEvent ==
    ASSUME NEW r \in Request, PushesEvent(r)
    PROVE  EventOf(r) \in Event
  BY CommonEvents, MergerEvents, CoilEvents DEF Request, PushesEvent, EventOf

LEMMA StepForm ==
    ASSUME IInv, NEW c \in Component, ~Idle(c)
    PROVE  /\ Head(todo[c]) \in StepOf(c)
           /\ Tail(todo[c]) \in Seq(StepOf(c))
           /\ Head(todo[c]).do = "send" =>
                 Head(todo[c]).to \in Component /\ Head(todo[c]).what \in Request
           /\ Head(todo[c]).do = "tell" =>
                 /\ Head(todo[c]).event \in Event \cup {"none"}
                 /\ Head(todo[c]).notification \in Notices(c)
  <1>1. todo[c] \in Seq(StepOf(c)) /\ todo[c] # <<>>
    BY DEF IInv, Idle
  <1>2. Head(todo[c]) \in StepOf(c) /\ Tail(todo[c]) \in Seq(StepOf(c))
    BY <1>1
  <1>3. ASSUME NEW s \in StepOf(c)
        PROVE  /\ s.do = "send" => s.to \in Component /\ s.what \in Request
               /\ s.do = "tell" => s.event \in Event \cup {"none"} /\ s.notification \in Notices(c)
    BY DEF StepOf, Step
  <1>4. QED
    BY <1>2, <1>3

LEMMA StepsAreTyped ==
    ASSUME NEW c
    PROVE  Seq(StepOf(c)) \subseteq Seq(Step)
  BY DEF StepOf

\* The rest of an action, whether its step succeeds or fails.
LEMMA GoesType ==
    ASSUME IInv, NEW c \in Component, ~Idle(c), Goes(c) \/ Fails(c)
    PROVE  DOMAIN todo' = Component /\ \A d \in Component : todo'[d] \in Seq(StepOf(d))
  <1>1. Tail(todo[c]) \in Seq(StepOf(c))
    BY StepForm
  <1>2. Push("ErrorOccurred") \in StepOf(c)
    BY PushIsStep, CommonEvents
  <1> DEFINE x == todo'[c]
  <1>3. /\ DOMAIN todo' = Component
        /\ \A d \in Component : d # c => todo'[d] = todo[d]
        /\ x \in {<< Push("ErrorOccurred") >>, << Push("ErrorOccurred") >> \o Tail(todo[c]),
                 Tail(todo[c])}
    BY DEF IInv, Goes, Fails
  <1>4. ASSUME NEW S, NEW q \in Seq(S), NEW e \in S
        PROVE  << e >> \in Seq(S) /\ << e >> \o q \in Seq(S)
    OBVIOUS
  <1>5. x \in Seq(StepOf(c))
    BY <1>1, <1>2, <1>3, <1>4
  <1>6. QED
    BY <1>3, <1>5 DEF IInv

(* Every action keeps the invariant. *)

LEMMA DispatchFailsKeeps ==
    ASSUME IInv, NEW c \in Component, DispatchFails(c)
    PROVE  IInv'
  <1>1. DOMAIN queue' = Component /\ \A d \in Component : queue'[d] \in Seq(Event)
    BY DEF IInv, MachineInvariant, TypeOK, DispatchFails
  <1>2. HardwareFollowsStates'
    BY HardwareUnchanged DEF IInv, MachineInvariant, DispatchFails, hardware, calls, budget
  <1>3. TypeOK'
    BY <1>1 DEF IInv, MachineInvariant, TypeOK, DispatchFails, hardware, calls, budget
  <1>4. QED
    BY <1>1, <1>2, <1>3 DEF IInv, MachineInvariant, DispatchFails, hardware, calls, budget

LEMMA TellsKeeps ==
    ASSUME IInv, NEW c \in Component, Tells(c)
    PROVE  IInv'
  <1> DEFINE e == Head(todo[c]).event
             n == Head(todo[c]).notification
  <1>1. ~Idle(c) /\ e \in Event \cup {"none"} /\ n \in Notices(c) /\ Goes(c)
    BY StepForm DEF Tells, AtStep
  <1>2. DOMAIN todo' = Component /\ \A d \in Component : todo'[d] \in Seq(StepOf(d))
    BY <1>1, GoesType
  <1>3. DOMAIN queue' = Component /\ \A d \in Component : queue'[d] \in Seq(Event)
    <2>1. CASE e = "none"
      BY <2>1 DEF Tells, Own, IInv, MachineInvariant, TypeOK
    <2>2. CASE e # "none"
      BY <1>1, <2>2, PushedType DEF Tells, Own
    <2>3. QED
      BY <2>1, <2>2
  <1>4. /\ DOMAIN mail' = Publisher /\ \A p \in Publisher : mail'[p] \in Seq(Subscribed(p))
        /\ told' \in Told
    <2>1. CASE n = "none"
      BY <2>1 DEF Tells, IInv, MachineInvariant, TypeOK
    <2>2. CASE n # "none" /\ c = "MachineControl"
      <3>1. n \in Told
        BY <1>1, <2>2, NoticesOf
      <3>2. QED
        BY <2>2, <3>1 DEF Tells, IInv, MachineInvariant, TypeOK
    <2>3. CASE n # "none" /\ c # "MachineControl"
      <3>1. c \in Publisher /\ n \in Subscribed(c)
        BY <1>1, <2>3, NoticesOf DEF Publisher
      <3>2. mail' = [mail EXCEPT ![c] = Append(@, n)] /\ UNCHANGED told
        BY <2>3 DEF Tells
      <3>3. QED
        BY <3>1, <3>2 DEF IInv, MachineInvariant, TypeOK
    <2>4. QED
      BY <2>1, <2>2, <2>3
  <1>5. UNCHANGED <<state, io, reported, controlTension, hardware, calls, budget>>
    BY DEF Tells
  <1>6. HardwareFollowsStates'
    BY <1>5, HardwareUnchanged DEF IInv, MachineInvariant, hardware, calls, budget
  <1>7. \A d \in Component : todo'[d] \in Seq(Step)
    BY <1>2, StepsAreTyped
  <1>8. TypeOK'
    BY <1>3, <1>4, <1>5, <1>7 DEF IInv, MachineInvariant, TypeOK, hardware, calls, budget
  <1>9. QED
    BY <1>2, <1>3, <1>4, <1>5, <1>6, <1>8 DEF IInv, MachineInvariant, hardware, calls, budget

\* What handling a request may change: the queue of the receiver, and what became of the
\* request for speed that it forwards.
LEMMA HandlesForm ==
    ASSUME IInv, NEW t \in Component, NEW r \in Request, NEW others \in SUBSET late,
           Handles(t, r, others)
    PROVE  /\ queue' = queue \/ (PushesEvent(r) /\ queue' = Pushed(t, EventOf(r)))
           /\ PushesEvent(r) => queue' = Pushed(t, EventOf(r))
           /\ DOMAIN queue' = Component /\ \A d \in Component : queue'[d] \in Seq(Event)
           /\ controlTension' \in BOOLEAN
           /\ jammed \subseteq jammed' /\ jammed' \subseteq Component
           /\ unset' \subseteq Motor
           /\ others \subseteq late'
           /\ late' \subseteq others \cup {TimedOut(t, MotorOf(t), "SetMotorSpeed")}
           /\ late' # others => t \in Control /\ t \in jammed'
           /\ late' \subseteq [from : Component, to : Component, what : Request]
  <1> DEFINE m == MotorOf(t)
  <1>1. m \in Motor /\ m \in Component /\ "SetMotorSpeed" \in Request
    BY DEF MotorOf, Motor, Component, Request
  <1>2. /\ jammed \subseteq Component /\ unset \subseteq Motor /\ controlTension \in BOOLEAN
        /\ late \subseteq [from : Component, to : Component, what : Request]
        /\ DOMAIN queue = Component /\ \A d \in Component : queue[d] \in Seq(Event)
        /\ scenario.slips \subseteq Motor
    BY DEF IInv, MachineInvariant, TypeOK, Scenario
  <1>3. TimedOut(t, m, "SetMotorSpeed") \in [from : Component, to : Component, what : Request]
    BY <1>1 DEF TimedOut
  <1>4. DOMAIN queue' = Component /\ \A d \in Component : queue'[d] \in Seq(Event)
    <2>1. CASE PushesEvent(r)
      BY <2>1, RequestEvent, PushedType DEF Handles
    <2>2. CASE ~PushesEvent(r)
      BY <1>2, <2>2 DEF Handles
    <2>3. QED
      BY <2>1, <2>2
  <1>5. controlTension' \in BOOLEAN
    BY <1>2 DEF Handles
  <1>6. CASE ~PushesEvent(r) /\ t \in Control
    <2>1. Forwards(t, others) /\ queue' = queue
      BY <1>6 DEF Handles
    <2>2. /\ jammed' = jammed \/ jammed' = jammed \cup {t}
          /\ unset' = unset \/ unset' = unset \cup {m}
          /\ \/ late' = others
             \/ t \in jammed' /\ late' = others \cup {TimedOut(t, m, "SetMotorSpeed")}
      BY <2>1 DEF Forwards, SetsSpeed
    <2>3. QED
      BY <1>1, <1>2, <1>3, <1>4, <1>5, <1>6, <2>1, <2>2
  <1>7. CASE PushesEvent(r) \/ t \notin Control
    <2>1. late' = others /\ jammed' = jammed
      BY <1>7 DEF Handles
    <2>2. unset' = unset \/ (~PushesEvent(r) /\ SetsSpeed(t))
      BY <1>7 DEF Handles
    <2>3. unset' \subseteq Motor
      BY <1>2, <2>2 DEF SetsSpeed
    <2>4. /\ queue' = queue \/ (PushesEvent(r) /\ queue' = Pushed(t, EventOf(r)))
          /\ PushesEvent(r) => queue' = Pushed(t, EventOf(r))
      BY DEF Handles
    <2>5. QED
      BY <1>2, <1>4, <1>5, <2>1, <2>3, <2>4
  <1>8. QED
    BY <1>6, <1>7

\* What a request may change, however it ends.
LEMMA SendsForm ==
    ASSUME IInv, NEW c \in Component, Sends(c),
           NEW t, NEW r, t = Head(todo[c]).to, r = Head(todo[c]).what
    PROVE  /\ ~Idle(c) /\ Head(todo[c]).do = "send"
           /\ t \in Component /\ r \in Request
           /\ Goes(c) \/ Fails(c)
           /\ queue' = queue \/ (PushesEvent(r) /\ queue' = Pushed(t, EventOf(r)))
           /\ DOMAIN queue' = Component /\ \A d \in Component : queue'[d] \in Seq(Event)
           /\ controlTension' \in BOOLEAN
           /\ jammed \subseteq jammed' /\ jammed' \subseteq Component
           /\ unset' \subseteq Motor
           /\ missed' \in {missed, missed \ {t}, missed \cup {t}}
           /\ failed' = failed \/ (Fails(c) /\ r # "SwitchOff" /\ failed' = failed \cup {c})
           /\ late \subseteq late'
           /\ \A o \in late' \ late :
                 /\ o.from \in jammed'
                 /\ \/ o = TimedOut(c, t, r)
                    \/ t \in Control /\ o = TimedOut(t, MotorOf(t), "SetMotorSpeed")
           /\ late' \subseteq [from : Component, to : Component, what : Request]
           /\ lost' = lost \/ (lost < scenario.maxLost /\ lost' = lost + 1 /\ Fails(c))
  <1>1. ~Idle(c) /\ Head(todo[c]).do = "send" /\ t \in Component /\ r \in Request
    BY StepForm DEF Sends, AtStep
  <1>2. /\ jammed \subseteq Component /\ unset \subseteq Motor /\ controlTension \in BOOLEAN
        /\ late \subseteq [from : Component, to : Component, what : Request]
        /\ DOMAIN queue = Component /\ \A d \in Component : queue[d] \in Seq(Event)
    BY DEF IInv, MachineInvariant, TypeOK
  <1>3. CASE SendRefused(c, t, r)
    BY <1>1, <1>2, <1>3 DEF SendRefused, Misses, Noted
  <1>4. CASE SendUnsent(c, t, r)
    BY <1>1, <1>2, <1>4 DEF SendUnsent, Misses, Noted, GetsLost
  <1>5. CASE SendTimesOut(c, t, r)
    <2>1. /\ TimedOut(c, t, r) \in [from : Component, to : Component, what : Request]
          /\ TimedOut(c, t, r).from = c
      BY <1>1 DEF TimedOut
    <2>2. QED
      BY <1>1, <1>2, <1>5, <2>1 DEF SendTimesOut, Reaches, Noted, GetsLost
  <1>6. CASE SendAnswered(c, t, r)
    <2>1. Handles(t, r, late) /\ UNCHANGED lost
      BY <1>6 DEF SendAnswered
    <2>2. /\ Goes(c) \/ Fails(c)
          /\ missed' \in {missed, missed \ {t}, missed \cup {t}}
          /\ failed' = failed \/ (Fails(c) /\ r # "SwitchOff" /\ failed' = failed \cup {c})
      BY <1>6 DEF SendAnswered, Reaches, Misses, Noted
    <2>3. TimedOut(t, MotorOf(t), "SetMotorSpeed").from = t
      BY DEF TimedOut
    <2>4. QED
      BY <1>1, <2>1, <2>2, <2>3, HandlesForm
  <1>7. QED
    BY <1>3, <1>4, <1>5, <1>6 DEF Sends

LEMMA SendsKeeps ==
    ASSUME IInv, NEW c \in Component, Sends(c)
    PROVE  IInv'
  <1> DEFINE t == Head(todo[c]).to
             r == Head(todo[c]).what
  <1>1. /\ ~Idle(c) /\ t \in Component
        /\ Goes(c) \/ Fails(c)
        /\ DOMAIN queue' = Component /\ \A d \in Component : queue'[d] \in Seq(Event)
        /\ controlTension' \in BOOLEAN
        /\ jammed' \subseteq Component /\ unset' \subseteq Motor
        /\ missed' \in {missed, missed \ {t}, missed \cup {t}}
        /\ failed' \in {failed, failed \cup {c}}
        /\ late' \subseteq [from : Component, to : Component, what : Request]
        /\ lost' = lost \/ (lost < scenario.maxLost /\ lost' = lost + 1)
    BY SendsForm
  <1>2. missed' \subseteq Component /\ failed' \subseteq Component
    BY <1>1 DEF IInv, MachineInvariant, TypeOK
  <1>3. DOMAIN todo' = Component /\ \A d \in Component : todo'[d] \in Seq(StepOf(d))
    BY <1>1, GoesType
  <1>4. lost' \in 0..scenario.maxLost
    <2>1. scenario.maxLost \in Nat /\ lost \in 0..scenario.maxLost
      BY DEF IInv, Scenario, MachineInvariant, TypeOK
    <2>2. QED
      BY <1>1, <2>1
  <1>5. UNCHANGED <<state, io, mail, reported, told, hardware, scenario, orders, reports, broken>>
    BY DEF Sends
  <1>6. HardwareFollowsStates'
    BY <1>5, HardwareUnchanged DEF IInv, MachineInvariant, hardware
  <1>7. \A d \in Component : todo'[d] \in Seq(Step)
    BY <1>3, StepsAreTyped
  <1> HIDE DEF t, r
  <1>8. TypeOK'
    BY <1>1, <1>2, <1>4, <1>5, <1>7 DEF IInv, MachineInvariant, TypeOK, hardware
  <1>9. QED
    BY <1>1, <1>3, <1>5, <1>6, <1>8 DEF IInv, MachineInvariant, hardware

\* What a request that timed out changes when it is handled.
LEMMA HandlesLateForm ==
    ASSUME IInv, NEW o \in late, HandlesLate(o)
    PROVE  /\ o.to \in Component /\ o.from \in Component /\ o.what \in Request
           /\ queue' = queue \/ (PushesEvent(o.what) /\ queue' = Pushed(o.to, EventOf(o.what)))
           /\ PushesEvent(o.what) => queue' = Pushed(o.to, EventOf(o.what))
           /\ DOMAIN queue' = Component /\ \A d \in Component : queue'[d] \in Seq(Event)
           /\ controlTension' \in BOOLEAN
           /\ jammed \subseteq jammed' /\ jammed' \subseteq Component
           /\ unset' \subseteq Motor
           /\ missed' \in {missed, missed \cup {o.to}}
           /\ late \ {o} \subseteq late'
           /\ \A x \in late' \ (late \ {o}) :
                 /\ x.from \in jammed'
                 /\ o.to \in Control /\ x = TimedOut(o.to, MotorOf(o.to), "SetMotorSpeed")
           /\ late' \subseteq [from : Component, to : Component, what : Request]
           /\ UNCHANGED <<state, todo, io, mail, reported, failed, told, hardware, budget>>
  <1>1. o.to \in Component /\ o.from \in Component /\ o.what \in Request
    BY DEF IInv, MachineInvariant, TypeOK
  <1>2. Handles(o.to, o.what, late \ {o}) /\ late \ {o} \in SUBSET late
    BY DEF HandlesLate
  <1>3. missed' \in {missed, missed \cup {o.to}}
    BY DEF HandlesLate, Misses
  <1>4. TimedOut(o.to, MotorOf(o.to), "SetMotorSpeed").from = o.to
    BY DEF TimedOut
  <1>5. UNCHANGED <<state, todo, io, mail, reported, failed, told, hardware, budget>>
    BY DEF HandlesLate
  <1>6. QED
    BY <1>1, <1>2, <1>3, <1>4, <1>5, HandlesForm

LEMMA HandlesLateKeeps ==
    ASSUME IInv, NEW o \in late, HandlesLate(o)
    PROVE  IInv'
  <1>1. /\ o.to \in Component
        /\ DOMAIN queue' = Component /\ \A d \in Component : queue'[d] \in Seq(Event)
        /\ controlTension' \in BOOLEAN
        /\ jammed' \subseteq Component /\ unset' \subseteq Motor
        /\ missed' \in {missed, missed \cup {o.to}}
        /\ late' \subseteq [from : Component, to : Component, what : Request]
        /\ UNCHANGED <<state, todo, io, mail, reported, failed, told, hardware, budget>>
    BY HandlesLateForm
  <1>2. HardwareFollowsStates'
    BY <1>1, HardwareUnchanged DEF IInv, MachineInvariant, hardware, budget
  <1>3. TypeOK'
    BY <1>1 DEF IInv, MachineInvariant, TypeOK, hardware, budget
  <1>4. QED
    BY <1>1, <1>2, <1>3 DEF IInv, MachineInvariant, hardware, budget

\* What a subscriber makes of a notification is an event of its own.
LEMMA HeardEvent ==
    ASSUME NEW p \in Publisher, NEW n \in Subscribed(p), n \notin Reports
    PROVE  (IF n = "HeatedUp" THEN "MergerHeatedUp" ELSE n) \in Event
  <1>1. n \in {"HeatedUp", "ErrorOccurred", "StartMotorSucceeded", "StopMotorSucceeded",
               "TensionTooLow", "TensionTooHigh", "TensionOverloaded"}
    BY SubscribedIs DEF Publisher, Component, Control, Reports
  <1>2. QED
    BY <1>1, CommonEvents, MachineEvents, MergerEvents, CoilEvents

LEMMA DeliversKeeps ==
    ASSUME IInv, NEW p \in Publisher, Delivers(p)
    PROVE  IInv'
  <1> DEFINE n == Head(mail[p])
             c == Subscriber(p)
  <1>1. c \in Control /\ c \in Component /\ p \in Component
    BY DEF Subscriber, Control, Component, Publisher
  <1>2. n \in Subscribed(p) /\ Tail(mail[p]) \in Seq(Subscribed(p))
    BY DEF Delivers, IInv, MachineInvariant, TypeOK
  <1>3. DOMAIN mail' = Publisher /\ \A q \in Publisher : mail'[q] \in Seq(Subscribed(q))
    BY <1>2 DEF Delivers, IInv, MachineInvariant, TypeOK
  <1>4. Concludes(p, n) \in Event \cup {"none"}
    BY MachineEvents, MergerEvents DEF Concludes
  <1>5. Heard(p, n) \in [Control -> SUBSET Component]
    BY <1>1 DEF Heard, IInv, MachineInvariant, TypeOK
  <1>6. /\ reported' \in [Control -> SUBSET Component]
        /\ DOMAIN io' = Component /\ \A d \in Component : io'[d] \in Event \cup {"none"}
        /\ DOMAIN queue' = Component /\ \A d \in Component : queue'[d] \in Seq(Event)
    <2>1. CASE n \in Reports
      <3>1. reported' = Heard(p, n) /\ io' = [io EXCEPT ![c] = Concludes(p, n)] /\ UNCHANGED queue
        BY <2>1 DEF Delivers
      <3>2. QED
        BY <1>1, <1>4, <1>5, <3>1 DEF IInv, MachineInvariant, TypeOK
    <2>2. CASE n \notin Reports
      <3>1. /\ queue' = Pushed(c, IF n = "HeatedUp" THEN "MergerHeatedUp" ELSE n)
            /\ UNCHANGED <<reported, io>>
        BY <2>2 DEF Delivers
      <3>2. DOMAIN queue' = Component /\ \A d \in Component : queue'[d] \in Seq(Event)
        BY <1>1, <1>2, <2>2, <3>1, HeardEvent, PushedType
      <3>3. QED
        BY <3>1, <3>2 DEF IInv, MachineInvariant, TypeOK
    <2>3. QED
      BY <2>1, <2>2
  <1>7. UNCHANGED <<state, todo, controlTension, told, hardware, calls, budget>>
    BY DEF Delivers
  <1>8. HardwareFollowsStates'
    BY <1>7, HardwareUnchanged DEF IInv, MachineInvariant, hardware, calls, budget
  <1>9. TypeOK'
    BY <1>3, <1>6, <1>7 DEF IInv, MachineInvariant, TypeOK, hardware, calls, budget
  <1>10. QED
    BY <1>3, <1>6, <1>7, <1>8, <1>9 DEF IInv, MachineInvariant, hardware, calls, budget

LEMMA IoPushesKeeps ==
    ASSUME IInv, NEW c \in Component, IoPushes(c)
    PROVE  IInv'
  <1>1. io[c] \in Event
    BY DEF IoPushes, IInv, MachineInvariant, TypeOK
  <1>2. DOMAIN queue' = Component /\ \A d \in Component : queue'[d] \in Seq(Event)
    BY <1>1, PushedType DEF IoPushes
  <1>3. DOMAIN io' = Component /\ \A d \in Component : io'[d] \in Event \cup {"none"}
    BY DEF IoPushes, IInv, MachineInvariant, TypeOK
  <1>4. UNCHANGED <<state, todo, mail, reported, controlTension, told, hardware, calls, budget>>
    BY DEF IoPushes
  <1>5. HardwareFollowsStates'
    BY <1>4, HardwareUnchanged DEF IInv, MachineInvariant, hardware, calls, budget
  <1>6. TypeOK'
    BY <1>2, <1>3, <1>4 DEF IInv, MachineInvariant, TypeOK, hardware, calls, budget
  <1>7. QED
    BY <1>2, <1>3, <1>4, <1>5, <1>6 DEF IInv, MachineInvariant, hardware, calls, budget

LEMMA UserOrdersKeeps ==
    ASSUME IInv, UserOrders
    PROVE  IInv'
  <1>1. orders \in Seq(Order) /\ orders # <<>>
    BY DEF UserOrders, IInv, MachineInvariant, TypeOK
  <1>2. Head(orders) \in Order /\ orders' \in Seq(Order)
    BY <1>1 DEF UserOrders
  <1>3. Head(orders) \in Event /\ "MachineControl" \in Component
    BY <1>2, CommonEvents, MachineEvents, MergerEvents DEF Order, Component, Control
  <1>4. DOMAIN queue' = Component /\ \A d \in Component : queue'[d] \in Seq(Event)
    BY <1>3, PushedType DEF UserOrders
  <1>5. UNCHANGED <<state, todo, io, mail, reported, controlTension, told, hardware, calls, scenario,
                    reports, lost, broken>>
    BY DEF UserOrders
  <1>6. HardwareFollowsStates'
    BY <1>5, HardwareUnchanged DEF IInv, MachineInvariant, hardware, calls
  <1>7. TypeOK'
    BY <1>2, <1>4, <1>5 DEF IInv, MachineInvariant, TypeOK, hardware, calls
  <1>8. QED
    BY <1>4, <1>5, <1>6, <1>7 DEF IInv, MachineInvariant, hardware, calls

\* A report is one of those that the scenario has.
LEMMA OccursCounts ==
    ASSUME IInv, NEW e, Occurs(e)
    PROVE  reports + 1 \in 0..Len(scenario.sensed)
  <1>1. Len(scenario.sensed) \in Nat
    BY DEF IInv, Scenario
  <1>2. QED
    BY <1>1 DEF Occurs, IInv, MachineInvariant, TypeOK

LEMMA TemperatureReportedKeeps ==
    ASSUME IInv, NEW h \in Heater, NEW e \in Temperature, TemperatureReported(h, e)
    PROVE  IInv'
  <1>1. h \in Component /\ e \in Event
    BY HeaterEvents DEF Component, Temperature
  <1>2. DOMAIN queue' = Component /\ \A d \in Component : queue'[d] \in Seq(Event)
    BY <1>1, PushedType DEF TemperatureReported
  <1>3. reports' \in 0..Len(scenario.sensed)
    BY OccursCounts DEF TemperatureReported
  <1>4. UNCHANGED <<state, todo, io, mail, reported, controlTension, told, hardware, calls, scenario,
                    orders, lost, broken>>
    BY DEF TemperatureReported
  <1>5. HardwareFollowsStates'
    BY <1>4, HardwareUnchanged DEF IInv, MachineInvariant, hardware, calls
  <1>6. TypeOK'
    BY <1>2, <1>3, <1>4 DEF IInv, MachineInvariant, TypeOK, hardware, calls
  <1>7. QED
    BY <1>2, <1>4, <1>5, <1>6 DEF IInv, MachineInvariant, hardware, calls

LEMMA TensionReportedKeeps ==
    ASSUME IInv, NEW n \in Tension, TensionReported(n)
    PROVE  IInv'
  <1>1. n \in Subscribed("FilamentTensionSensor") /\ "FilamentTensionSensor" \in Publisher
    BY SubscribedIs DEF Tension, Publisher, Component, Control
  <1>2. DOMAIN mail' = Publisher /\ \A p \in Publisher : mail'[p] \in Seq(Subscribed(p))
    BY <1>1 DEF TensionReported, IInv, MachineInvariant, TypeOK
  <1>3. reports' \in 0..Len(scenario.sensed)
    BY OccursCounts DEF TensionReported
  <1>4. UNCHANGED <<state, queue, todo, io, reported, controlTension, told, hardware, calls, scenario,
                    orders, lost, broken>>
    BY DEF TensionReported
  <1>5. HardwareFollowsStates'
    BY <1>4, HardwareUnchanged DEF IInv, MachineInvariant, hardware, calls
  <1>6. TypeOK'
    BY <1>2, <1>3, <1>4 DEF IInv, MachineInvariant, TypeOK, hardware, calls
  <1>7. QED
    BY <1>2, <1>4, <1>5, <1>6 DEF IInv, MachineInvariant, hardware, calls

-----------------------------------------------------------------------------
(* The step that changes states and hardware. *)

\* Only the device of c goes astray, and only by a call that failed; a call that succeeds
\* brings the device to where the new state says, or leaves both as they are.
LEMMA DispatchedDevice ==
    ASSUME IInv, NEW c \in Component, NEW t \in Table(c), NEW ok \in BOOLEAN,
           t.state = state[c],
           state' = [state EXCEPT ![c] = t.next],
           driven' = IF ok /\ c \in Motor \cup Heater THEN DrivenAfter(c, t.action) ELSE driven,
           ~ok => CanFail(c, t.action)
    PROVE  /\ ok => Astray' \subseteq Astray
           /\ Astray' \subseteq Astray \cup {c}
  <1>1. \A d \in Motor \cup Heater : d # c => (d \in AtWork' <=> d \in AtWork)
    BY DEF AtWork, IInv, Motor, Heater, Component
  <1>2. \A d \in Motor \cup Heater : d # c => (d \in driven' <=> d \in driven)
    BY DEF DrivenAfter
  <1>3. AtWork \subseteq Motor \cup Heater /\ AtWork' \subseteq Motor \cup Heater
    BY DEF AtWork
  <1>4. driven \subseteq Motor \cup Heater /\ driven' \subseteq Motor \cup Heater
    BY DEF IInv, MachineInvariant, TypeOK, DrivenAfter
  <1>5. Astray' \subseteq Astray \cup {c}
    BY <1>1, <1>2, <1>3, <1>4 DEF Astray
  <1>6. ASSUME ok, c \in Astray' PROVE c \in Astray
    <2>1. c \in Motor \cup Heater
      BY <1>3, <1>4, <1>6 DEF Astray
    <2>2. FitsDevice(t)
      BY <2>1, EntriesFitDevice
    <2>3. /\ c \in AtWork <=> t.state \in Working
          /\ c \in AtWork' <=> t.next \in Working
      BY <2>1 DEF AtWork, Working, IInv
    <2>4. driven' = DrivenAfter(c, t.action)
      BY <1>6, <2>1
    <2>5. CASE t.action \in {"startMotor", "startHeating"}
      BY <1>6, <2>2, <2>3, <2>4, <2>5 DEF FitsDevice, DrivenAfter, Astray
    <2>6. CASE t.action \in {"stopMotor", "stopHeating", "switchOff", "handleError"}
      BY <1>6, <2>2, <2>3, <2>4, <2>6 DEF FitsDevice, DrivenAfter, Astray
    <2>7. CASE t.action \in {"none", "switchOn"}
      BY <1>6, <2>2, <2>3, <2>4, <2>7 DEF FitsDevice, DrivenAfter, Astray
    <2>8. QED
      BY <2>2, <2>5, <2>6, <2>7 DEF FitsDevice
  <1>7. QED
    BY <1>5, <1>6

\* So the calls that failed bound the devices that are astray.
LEMMA AstrayBound ==
    ASSUME IInv, NEW c, NEW ok \in BOOLEAN,
           driven' \subseteq Motor \cup Heater,
           ok => Astray' \subseteq Astray,
           Astray' \subseteq Astray \cup {c},
           broken' = IF ok THEN broken ELSE broken + 1
    PROVE  Cardinality(Astray') <= broken'
  <1>1. /\ IsFiniteSet(Motor \cup Heater)
        /\ Astray \subseteq Motor \cup Heater
        /\ Astray' \subseteq Motor \cup Heater
    <2>1. IsFiniteSet(Motor) /\ IsFiniteSet(Heater)
      <3>1. ASSUME NEW a, NEW b PROVE IsFiniteSet({a, b})
        <4>1. IsFiniteSet({a}) /\ {a, b} = {a} \cup {b}
          BY FS_Singleton
        <4>2. QED
          BY <4>1, FS_AddElement
      <3>2. QED
        BY <3>1 DEF Motor, Heater
    <2>2. QED
      BY <2>1, FS_Union DEF Astray, AtWork, IInv, MachineInvariant, TypeOK
  <1>2. IsFiniteSet(Astray) /\ IsFiniteSet(Astray \cup {c})
    BY <1>1, FS_Subset, FS_AddElement
  <1>3. /\ Cardinality(Astray) \in Nat
        /\ Cardinality(Astray \cup {c}) \in Nat
        /\ Cardinality(Astray \cup {c}) <= Cardinality(Astray) + 1
    BY <1>2, FS_CardinalityType, FS_AddElement
  <1>4. /\ Cardinality(Astray') \in Nat
        /\ Cardinality(Astray') <= Cardinality(Astray \cup {c})
        /\ ok => Cardinality(Astray') <= Cardinality(Astray)
    BY <1>1, <1>2, FS_Subset, FS_CardinalityType
  <1>5. Cardinality(Astray) <= broken /\ broken \in Nat
    BY DEF IInv, MachineInvariant, HardwareFollowsStates, Astray, TypeOK, Scenario
  <1>6. QED
    BY <1>3, <1>4, <1>5

LEMMA DispatchedObserver ==
    ASSUME IInv, NEW c \in Component, NEW t \in Table(c), NEW ok \in BOOLEAN,
           t.state = state[c],
           state' = [state EXCEPT ![c] = t.next],
           observing' = IF c \in Heater \cup {"FilamentTensionSensor"}
                        THEN ObservingAfter(c, t.action, ok) ELSE observing
    PROVE  /\ observing' \subseteq Heater \cup {"FilamentTensionSensor"}
           /\ \A d \in observing' : state'[d] # "Off"
           /\ "FilamentTensionSensor" \in observing' => state'["FilamentTensionSensor"] # "Error"
  <1> DEFINE Observer == Heater \cup {"FilamentTensionSensor"}
  <1>1. /\ observing \subseteq Observer
        /\ \A d \in observing : state[d] # "Off"
        /\ "FilamentTensionSensor" \in observing => state["FilamentTensionSensor"] # "Error"
        /\ DOMAIN state = Component
        /\ Observer \subseteq Component
    BY DEF IInv, MachineInvariant, TypeOK, HardwareFollowsStates, Component
  <1>2. \A d \in Component : d # c => state'[d] = state[d]
    BY <1>1
  <1>3. state'[c] = t.next
    BY <1>1
  <1>4. observing' \subseteq Observer /\ observing' \ {c} = observing \ {c}
    BY <1>1 DEF ObservingAfter
  <1>5. ASSUME c \in observing'
        PROVE  t.next # "Off" /\ (c = "FilamentTensionSensor" => t.next # "Error")
    <2>1. c \in Observer
      BY <1>4, <1>5
    <2>2. FitsObserver(t)
      BY <2>1, EntriesFitObserver
    <2>3. observing' = ObservingAfter(c, t.action, ok)
      BY <2>1
    <2>4. CASE t.action = "switchOn"
      BY <2>2, <2>4 DEF FitsObserver
    <2>5. CASE t.action # "switchOn"
      <3>1. c \in observing /\ t.action # "switchOff"
        BY <1>5, <2>3, <2>5 DEF ObservingAfter
      <3>2. c = "FilamentTensionSensor" => t.action # "handleError"
        BY <1>5, <2>3, <2>5 DEF ObservingAfter
      <3>3. QED
        BY <1>1, <2>2, <3>1, <3>2 DEF FitsObserver
    <2>6. QED
      BY <2>4, <2>5
  <1>6. QED
    BY <1>1, <1>2, <1>3, <1>4, <1>5

LEMMA DispatchKeeps ==
    ASSUME IInv, NEW c \in Component, Dispatch(c)
    PROVE  IInv'
  <1>1. PICK t \in Entries(c), ok \in BOOLEAN :
            /\ ~ok => CanFail(c, t.action) /\ broken < scenario.maxBroken
            /\ state' = [state EXCEPT ![c] = t.next]
            /\ todo' = [todo EXCEPT ![c] = Action(c, t.action, t.event, ok)]
            /\ driven' = IF ok /\ c \in Motor \cup Heater THEN DrivenAfter(c, t.action) ELSE driven
            /\ observing' = IF c \in Heater \cup {"FilamentTensionSensor"}
                            THEN ObservingAfter(c, t.action, ok) ELSE observing
            /\ broken' = IF ok THEN broken ELSE broken + 1
            /\ reported' = IF Forgets(c, t.action) THEN [reported EXCEPT ![c] = {}] ELSE reported
            /\ unset' = unset \/ (c \in Motor /\ unset' = unset \cup {c})
    BY DEF Dispatch, SetsSpeed
  <1>2. t \in Table(c) /\ t.state = state[c]
    BY DEF Entries
  <1>3. UNCHANGED <<io, mail, controlTension, jammed, late, missed, failed, told, scenario, orders,
                    reports, lost>>
    BY DEF Dispatch
  <1>4. DOMAIN state' = Component /\ \A d \in Component : state'[d] \in StatesOf[d]
    BY <1>1, <1>2, TablesClosed DEF IInv, MachineInvariant, TypeOK
  <1>5. DOMAIN queue' = Component /\ \A d \in Component : queue'[d] \in Seq(Event)
    BY DEF Dispatch, IInv, MachineInvariant, TypeOK
  <1>6. DOMAIN todo' = Component /\ \A d \in Component : todo'[d] \in Seq(StepOf(d))
    BY <1>1, ActionSteps DEF IInv
  <1>7. driven' \subseteq Motor \cup Heater
    BY <1>1 DEF DrivenAfter, IInv, MachineInvariant, TypeOK
  <1>8. reported' \in [Control -> SUBSET Component]
    BY <1>1 DEF IInv, MachineInvariant, TypeOK
  <1>9. broken' \in 0..scenario.maxBroken
    <2>1. scenario.maxBroken \in Nat /\ broken \in 0..scenario.maxBroken
      BY DEF IInv, Scenario, MachineInvariant, TypeOK
    <2>2. QED
      BY <1>1, <2>1
  <1>10. /\ observing' \subseteq Heater \cup {"FilamentTensionSensor"}
         /\ \A d \in observing' : state'[d] # "Off"
         /\ "FilamentTensionSensor" \in observing' => state'["FilamentTensionSensor"] # "Error"
    BY <1>1, <1>2, DispatchedObserver
  <1>11. Cardinality(Astray') <= broken'
    <2>1. /\ ok => Astray' \subseteq Astray
          /\ Astray' \subseteq Astray \cup {c}
      BY <1>1, <1>2, DispatchedDevice
    <2>2. QED
      BY <1>1, <1>7, <2>1, AstrayBound
  <1>12. HardwareFollowsStates'
    BY <1>10, <1>11 DEF HardwareFollowsStates, Astray
  <1>13. \A d \in Component : todo'[d] \in Seq(Step)
    BY <1>6, StepsAreTyped
  <1>14. TypeOK'
    BY <1>1, <1>3, <1>4, <1>5, <1>7, <1>8, <1>9, <1>10, <1>13 DEF IInv, MachineInvariant, TypeOK
  <1>15. QED
    BY <1>3, <1>4, <1>5, <1>6, <1>12, <1>14 DEF IInv, MachineInvariant

LEMMA InitHolds == Init => IInv
  <1> SUFFICES ASSUME Init PROVE IInv
    OBVIOUS
  <1>1. scenario \in Scenario
    BY MachineAssumption DEF Init
  <1>2. Len(scenario.sensed) \in Nat /\ scenario.maxLost \in Nat /\ scenario.maxBroken \in Nat
    BY <1>1 DEF Scenario
  <1>3. \A c \in Component : "Off" \in StatesOf[c]
    BY TablesClosed
  <1>4. TypeOK
    <2>1. \A c \in Component :
              /\ state[c] \in StatesOf[c]
              /\ queue[c] \in Seq(Event)
              /\ todo[c] \in Seq(Step)
              /\ io[c] \in Event \cup {"none"}
      BY <1>3 DEF Init
    <2>2. \A p \in Publisher : mail[p] \in Seq(Subscribed(p))
      BY DEF Init
    <2>3. reported \in [Control -> SUBSET Component]
      BY DEF Init
    <2>4. orders \in Seq(Order)
      BY <1>1 DEF Init, Scenario
    <2>5. /\ reports \in 0..Len(scenario.sensed)
          /\ lost \in 0..scenario.maxLost
          /\ broken \in 0..scenario.maxBroken
      <3> DEFINE len == Len(scenario.sensed)
                 maxLost == scenario.maxLost
                 maxBroken == scenario.maxBroken
      <3>1. reports = 0 /\ lost = 0 /\ broken = 0
        BY DEF Init
      <3> HIDE DEF len, maxLost, maxBroken
      <3>2. len \in Nat /\ maxLost \in Nat /\ maxBroken \in Nat
        BY <1>2 DEF len, maxLost, maxBroken
      <3>3. reports \in 0..len /\ lost \in 0..maxLost /\ broken \in 0..maxBroken
        BY <3>1, <3>2
      <3>4. QED
        BY <3>3 DEF len, maxLost, maxBroken
    <2>6. QED
      BY <2>1, <2>2, <2>3, <2>4, <2>5 DEF Init, TypeOK, Told
  <1>5. HardwareFollowsStates
    <2>1. AtWork = {}
      BY DEF Init, AtWork, Motor, Heater, Component
    <2>2. (driven \ AtWork) \cup (AtWork \ driven) = {}
      BY <2>1 DEF Init
    <2>3. Cardinality((driven \ AtWork) \cup (AtWork \ driven)) <= broken
      <3>1. Cardinality({}) = 0 /\ broken = 0
        BY FS_EmptySet DEF Init
      <3>2. Cardinality((driven \ AtWork) \cup (AtWork \ driven)) = 0
        BY <2>2, <3>1, Zenon
      <3>3. QED
        BY <3>1, <3>2
    <2>4. QED
      BY <2>3 DEF Init, HardwareFollowsStates
  <1>6. \A c \in Component : todo[c] \in Seq(StepOf(c))
    BY DEF Init
  <1>7. QED
    BY <1>1, <1>4, <1>5, <1>6 DEF IInv, MachineInvariant, Init

LEMMA StepKeeps == IInv /\ [Next]_vars => IInv'
  <1> SUFFICES ASSUME IInv, [Next]_vars PROVE IInv'
    OBVIOUS
  <1>1. ASSUME NEW c \in Component, WorkerStep(c) PROVE IInv'
    BY <1>1, DispatchKeeps, DispatchFailsKeeps, TellsKeeps, SendsKeeps DEF WorkerStep
  <1>2. ASSUME NEW c \in Component, IoPushes(c) PROVE IInv'
    BY <1>2, IoPushesKeeps
  <1>3. ASSUME NEW p \in Publisher, Delivers(p) PROVE IInv'
    BY <1>3, DeliversKeeps
  <1>4. CASE UserOrders
    BY <1>4, UserOrdersKeeps
  <1>5. ASSUME NEW h \in Heater, NEW e \in Temperature, TemperatureReported(h, e) PROVE IInv'
    BY <1>5, TemperatureReportedKeeps
  <1>6. ASSUME NEW n \in Tension, TensionReported(n) PROVE IInv'
    BY <1>6, TensionReportedKeeps
  <1>7. CASE UNCHANGED vars
    <2>1. UNCHANGED <<state, queue, todo, io, mail, reported, controlTension, told>>
      BY <1>7 DEF vars, control
    <2>2. /\ UNCHANGED <<driven, observing, scenario, orders, reports, lost, broken>>
          /\ UNCHANGED <<jammed, late, missed, failed, unset>>
      BY <1>7 DEF vars, hardware, calls, budget
    <2>3. HardwareFollowsStates'
      BY <2>1, <2>2, HardwareUnchanged DEF IInv, MachineInvariant
    <2>4. TypeOK'
      BY <2>1, <2>2 DEF IInv, MachineInvariant, TypeOK
    <2>5. QED
      BY <2>1, <2>2, <2>3, <2>4 DEF IInv, MachineInvariant
  <1>8. ASSUME NEW o \in late, HandlesLate(o) PROVE IInv'
    BY <1>8, HandlesLateKeeps
  <1>9. QED
    BY <1>1, <1>2, <1>3, <1>4, <1>5, <1>6, <1>7, <1>8 DEF Next, ThreadStep

\* Whoever orders whatever, whatever the sensors report and whichever requests and calls
\* of the hardware fail: each call that failed leaves at most one motor or heater
\* otherwise than the state of its component says, although requests, notifications,
\* reports and errors reach the components in any order and wait in their queues; a
\* heater or sensor that is off observes nothing, nor does a sensor in its error state;
\* and every component stays in the states of its table and hears only what it
\* subscribes to (MachineControl.cpp, FilamentFeederMotor.cpp, FilamentMergerHeater.cpp,
\* FilamentTensionSensor.cpp).
THEOREM ComponentsHold == Spec => []MachineInvariant
  <1>1. IInv => MachineInvariant
    BY DEF IInv
  <1>2. QED
    BY <1>1, InitHolds, StepKeeps, PTL DEF Spec
-----------------------------------------------------------------------------
(***************************************************************************)
(* Switching off.  A component that is off or in error has told its        *)
(* subordinates to switch off, or is about to.                             *)
(***************************************************************************)
Down == {"Off", "Error"}

Elements(q) == {q[i] : i \in DOMAIN q}

\* No request of the queue switches on after the last one that switches off.
EndsOff(q) == \E i \in DOMAIN q : /\ q[i] = "SwitchOff"
                                  /\ \A j \in DOMAIN q : j > i => q[j] # "SwitchOn"

OffCall(c) == Send(c, "SwitchOff", "ignore")

\* An error of c has not reached its subscriber yet.
Reporting(c) ==
    \/ \E s \in Elements(todo[c]) : s.do = "tell" /\ s.notification = "ErrorOccurred"
    \/ "ErrorOccurred" \in Elements(mail[c])
    \/ "ErrorOccurred" \in Elements(queue[Subscriber(c)])

\* What a component may still have to do: it asks its own subordinates only, switches
\* nobody on by an event of its own; when it is down it only switches off; and nothing
\* keeps it from reporting an error.
StepFits(c, s) ==
    /\ s.do = "send" => s.to \in Publisher /\ Subscriber(s.to) = c
    /\ s.do = "tell" => s.event # "SwitchOn"
    /\ s.do = "tell" /\ s.event = "ErrorOccurred" /\ c \in Heater => broken > 0
    /\ s.do = "send" /\ state[c] \in Down => s.what = "SwitchOff" /\ s.fails = "ignore"
    /\ s.do = "tell" /\ s.notification = "ErrorOccurred" =>
          \A r \in Elements(todo[c]) : r.do = "send" => r.fails = "ignore"

StepsInv == \A c \in Component : \A s \in Elements(todo[c]) : StepFits(c, s)

IoInv == \A c \in Component : io[c] \notin {"SwitchOn", "ErrorOccurred"}

\* Only a socket that awaits an answer has given up a request, one to a subordinate.
LateFits ==
    \A o \in late : o.from \in jammed /\ o.to \in Publisher /\ Subscriber(o.to) = o.from

\* Switching c off is still to be asked for, or was refused.
OffAhead(c) == OffCall(c) \in Elements(todo[Subscriber(c)]) \/ c \in missed

\* A SwitchOff that timed out is still on its way to c.
OffIsLate(c) == \E o \in late : o.to = c /\ o.what = "SwitchOff"

\* Who gave up a SwitchOn and is down now cannot switch off any more either.
LateOnInv ==
    \A o \in late : o.what = "SwitchOn" /\ state[o.from] \in Down => OffAhead(o.to)

\* The subordinates of a component that is down, and those of one that is off.
DownInv ==
    \A c \in Publisher : state[Subscriber(c)] \in Down =>
        \/ OffAhead(c)
        \/ OffIsLate(c)
        \/ EndsOff(queue[c])
        \/ state[c] \in Down /\ "SwitchOn" \notin Elements(queue[c])

OffInv ==
    \A c \in Publisher : state[Subscriber(c)] = "Off" =>
        \/ OffAhead(c)
        \/ OffIsLate(c)
        \/ "SwitchOff" \in Elements(queue[c])
        \/ state[c] = "Off"
        \/ Reporting(c)

\* A heater that is off although its relay is closed has an error to handle; one whose
\* error handling did not help has failed twice.
HeatersInv ==
    \A h \in Heater :
        /\ state[h] = "Error" \/ "ErrorOccurred" \in Elements(queue[h]) => broken > 0
        /\ state[h] = "Error" /\ h \in driven => broken > 1
        /\ state[h] = "Off" /\ h \in driven =>
              \/ \E s \in Elements(todo[h]) : s.do = "tell" /\ s.event = "ErrorOccurred"
              \/ "ErrorOccurred" \in Elements(queue[h])

SwitchOffInv ==
    StepsInv /\ LateFits /\ IoInv /\ LateOnInv /\ DownInv /\ OffInv /\ HeatersInv

\* No queue is about to refuse an event.
AllHaveRoom == \A c \in Component : HasRoom(c)

(* What a queue holds. *)

LEMMA AppendedElements ==
    ASSUME NEW S, NEW q \in Seq(S), NEW e \in S
    PROVE  Elements(Append(q, e)) = Elements(q) \cup {e}
  <1>1. /\ DOMAIN Append(q, e) = DOMAIN q \cup {Len(q) + 1}
        /\ \A i \in DOMAIN q : Append(q, e)[i] = q[i]
        /\ Append(q, e)[Len(q) + 1] = e
    OBVIOUS
  <1>2. ASSUME NEW x PROVE x \in Elements(Append(q, e)) <=> x \in Elements(q) \cup {e}
    BY <1>1 DEF Elements
  <1>3. QED
    BY <1>2

LEMMA PrefixedElements ==
    ASSUME NEW S, NEW q \in Seq(S), NEW e \in S
    PROVE  Elements(<< e >> \o q) = {e} \cup Elements(q)
  <1> DEFINE r == << e >> \o q
             n == Len(q)
  <1>1. /\ DOMAIN r = 1..(n + 1) /\ DOMAIN q = 1..n /\ n \in Nat
        /\ r[1] = e
        /\ \A i \in 2..(n + 1) : r[i] = q[i - 1]
    OBVIOUS
  <1> HIDE DEF r, n
  <1>2. /\ \A i \in 1..n : i + 1 \in 2..(n + 1) /\ r[i + 1] = q[i]
        /\ \A i \in 2..(n + 1) : i - 1 \in 1..n
        /\ \A i \in 1..(n + 1) : i = 1 \/ i \in 2..(n + 1)
    BY <1>1
  <1>3. Elements(r) = {r[i] : i \in 1..(n + 1)} /\ Elements(q) = {q[i] : i \in 1..n}
    BY <1>1 DEF Elements
  <1>4. \A x \in Elements(r) : x \in {e} \cup Elements(q)
    BY <1>1, <1>2, <1>3
  <1>5. \A x \in Elements(q) : x \in Elements(r)
    BY <1>2, <1>3
  <1>6. e \in Elements(r)
    BY <1>1, <1>3
  <1>7. Elements(r) = {e} \cup Elements(q)
    BY <1>4, <1>5, <1>6
  <1>8. QED
    BY <1>7 DEF r

LEMMA HeadAndTail ==
    ASSUME NEW S, NEW q \in Seq(S), q # <<>>
    PROVE  Elements(q) = {Head(q)} \cup Elements(Tail(q))
  <1> DEFINE r == Tail(q)
             h == Head(q)
             n == Len(q)
  <1>1. /\ DOMAIN q = 1..n /\ n \in Nat \ {0} /\ q[1] = h /\ DOMAIN r = 1..(n - 1)
        /\ \A i \in 1..(n - 1) : r[i] = q[i + 1]
    OBVIOUS
  <1> HIDE DEF r, h, n
  <1>2. /\ \A i \in 1..(n - 1) : i + 1 \in 1..n
        /\ \A i \in 1..n : i # 1 => i - 1 \in 1..(n - 1) /\ r[i - 1] = q[i]
        /\ 1 \in 1..n
    BY <1>1
  <1>3. Elements(q) = {q[i] : i \in 1..n} /\ Elements(r) = {r[i] : i \in 1..(n - 1)}
    BY <1>1 DEF Elements
  <1>4. \A x \in Elements(q) : x \in {h} \cup Elements(r)
    BY <1>1, <1>2, <1>3
  <1>5. \A x \in Elements(r) : x \in Elements(q)
    BY <1>1, <1>2, <1>3
  <1>6. h \in Elements(q)
    BY <1>1, <1>2, <1>3
  <1>7. Elements(q) = {h} \cup Elements(r)
    BY <1>4, <1>5, <1>6
  <1>8. QED
    BY <1>7 DEF r, h

LEMMA JoinedElements ==
    ASSUME NEW S, NEW q \in Seq(S), NEW r \in Seq(S)
    PROVE  Elements(q \o r) = Elements(q) \cup Elements(r)
  <1> DEFINE j == q \o r
             m == Len(q)
             n == Len(r)
  <1>1. /\ DOMAIN j = 1..(m + n) /\ DOMAIN q = 1..m /\ DOMAIN r = 1..n
        /\ m \in Nat /\ n \in Nat
        /\ \A i \in 1..(m + n) : j[i] = IF i <= m THEN q[i] ELSE r[i - m]
    OBVIOUS
  <1> HIDE DEF j, m, n
  <1>2. /\ Elements(j) = {j[i] : i \in 1..(m + n)}
        /\ Elements(q) = {q[i] : i \in 1..m}
        /\ Elements(r) = {r[i] : i \in 1..n}
    BY <1>1 DEF Elements
  <1>3. ASSUME NEW i \in 1..(m + n) PROVE j[i] \in Elements(q) \cup Elements(r)
    <2>1. CASE i <= m
      <3>1. i \in 1..m /\ j[i] = q[i]
        BY <1>1, <2>1
      <3>2. QED
        BY <1>2, <3>1
    <2>2. CASE ~(i <= m)
      <3>1. i - m \in 1..n /\ j[i] = r[i - m]
        BY <1>1, <2>2
      <3>2. QED
        BY <1>2, <3>1
    <2>3. QED
      BY <2>1, <2>2
  <1>4. ASSUME NEW i \in 1..m PROVE q[i] \in Elements(j)
    <2>1. i \in 1..(m + n) /\ j[i] = q[i]
      BY <1>1
    <2>2. QED
      BY <1>2, <2>1
  <1>5. ASSUME NEW i \in 1..n PROVE r[i] \in Elements(j)
    <2>1. i + m \in 1..(m + n) /\ ~(i + m <= m) /\ (i + m) - m = i
      BY <1>1
    <2>2. j[i + m] = r[i]
      BY <1>1, <2>1
    <2>3. QED
      BY <1>2, <2>1, <2>2
  <1>6. Elements(j) = Elements(q) \cup Elements(r)
    BY <1>2, <1>3, <1>4, <1>5
  <1>7. QED
    BY <1>6 DEF j

LEMMA TupleElements ==
    /\ Elements(<<>>) = {}
    /\ \A a : Elements(<<a>>) = {a}
    /\ \A a, b : Elements(<<a, b>>) = {a, b}
    /\ \A a, b, c : Elements(<<a, b, c>>) = {a, b, c}
    /\ \A a, b, c, d : Elements(<<a, b, c, d>>) = {a, b, c, d}
    /\ \A a, b, c, d, e : Elements(<<a, b, c, d, e>>) = {a, b, c, d, e}
  <1>1. Elements(<<>>) = {}
    BY DEF Elements
  <1>2. ASSUME NEW a PROVE Elements(<<a>>) = {a}
    BY DEF Elements
  <1>3. ASSUME NEW a, NEW b PROVE Elements(<<a, b>>) = {a, b}
    <2>1. DOMAIN <<a, b>> = {1, 2}
      OBVIOUS
    <2>2. QED
      BY <2>1 DEF Elements
  <1>4. ASSUME NEW a, NEW b, NEW c PROVE Elements(<<a, b, c>>) = {a, b, c}
    <2>1. DOMAIN <<a, b, c>> = {1, 2, 3}
      OBVIOUS
    <2>2. QED
      BY <2>1 DEF Elements
  <1>5. ASSUME NEW a, NEW b, NEW c, NEW d PROVE Elements(<<a, b, c, d>>) = {a, b, c, d}
    <2>1. DOMAIN <<a, b, c, d>> = {1, 2, 3, 4}
      OBVIOUS
    <2>2. QED
      BY <2>1 DEF Elements
  <1>6. ASSUME NEW a, NEW b, NEW c, NEW d, NEW e
        PROVE  Elements(<<a, b, c, d, e>>) = {a, b, c, d, e}
    <2>1. DOMAIN <<a, b, c, d, e>> = {1, 2, 3, 4, 5}
      OBVIOUS
    <2>2. QED
      BY <2>1 DEF Elements
  <1>7. QED
    BY <1>1, <1>2, <1>3, <1>4, <1>5, <1>6

\* Tuples that are put together.
LEMMA JoinedTuples ==
    /\ \A a, b, x : Elements(Append(<<a, b>>, x)) = {a, b, x}
    /\ \A a, b, c, x : Elements(Append(<<a>> \o <<b, c>>, x)) = {a, b, c, x}
    /\ \A a, b, c : Elements(<<a>> \o <<b, c>>) = {a, b, c}
    /\ \A a, b, x, y : Elements(<<a, b>> \o <<x, y>>) = {a, b, x, y}
  <1>1. ASSUME NEW a, NEW b, NEW x PROVE Elements(Append(<<a, b>>, x)) = {a, b, x}
    <2>1. PICK q : q = <<a, b>>
      OBVIOUS
    <2> DEFINE S == {a, b, x}
    <2>3. q \in Seq(S) /\ x \in S
      BY <2>1
    <2> HIDE DEF S
    <2>4. Elements(Append(q, x)) = Elements(q) \cup {x}
      BY <2>3, AppendedElements
    <2>5. Elements(q) = {a, b}
      BY <2>1, TupleElements
    <2>6. QED
      BY <2>1, <2>4, <2>5
  <1>2. ASSUME NEW a, NEW b, NEW c PROVE Elements(<<a>> \o <<b, c>>) = {a, b, c}
    <2>1. PICK q, r : q = <<a>> /\ r = <<b, c>>
      OBVIOUS
    <2> DEFINE S == {a, b, c}
    <2>3. q \in Seq(S) /\ r \in Seq(S)
      BY <2>1
    <2> HIDE DEF S
    <2>4. Elements(q \o r) = Elements(q) \cup Elements(r)
      BY <2>3, JoinedElements
    <2>5. Elements(q) = {a} /\ Elements(r) = {b, c}
      BY <2>1, TupleElements
    <2>6. QED
      BY <2>1, <2>4, <2>5
  <1>3. ASSUME NEW a, NEW b, NEW x, NEW y
        PROVE  Elements(<<a, b>> \o <<x, y>>) = {a, b, x, y}
    <2>1. PICK q, r : q = <<a, b>> /\ r = <<x, y>>
      OBVIOUS
    <2> DEFINE S == {a, b, x, y}
    <2>3. q \in Seq(S) /\ r \in Seq(S)
      BY <2>1
    <2> HIDE DEF S
    <2>4. Elements(q \o r) = Elements(q) \cup Elements(r)
      BY <2>3, JoinedElements
    <2>5. Elements(q) = {a, b} /\ Elements(r) = {x, y}
      BY <2>1, TupleElements
    <2>6. QED
      BY <2>1, <2>4, <2>5
  <1>4. ASSUME NEW a, NEW b, NEW c, NEW x
        PROVE  Elements(Append(<<a>> \o <<b, c>>, x)) = {a, b, c, x}
    <2>1. PICK q, r : q = <<a>> /\ r = <<b, c>>
      OBVIOUS
    <2> DEFINE S == {a, b, c, x}
    <2>3. q \in Seq(S) /\ r \in Seq(S) /\ x \in S
      BY <2>1
    <2> HIDE DEF S
    <2>4. PICK j : j = q \o r
      OBVIOUS
    <2>5. j \in Seq(S)
      BY <2>3, <2>4
    <2>6. Elements(Append(j, x)) = Elements(j) \cup {x}
      BY <2>3, <2>5, AppendedElements
    <2>7. Elements(j) = {a, b, c}
      BY <1>2, <2>1, <2>4
    <2>8. QED
      BY <2>1, <2>4, <2>6, <2>7
  <1>5. QED
    BY <1>1, <1>2, <1>3, <1>4

LEMMA EndsOffAppended ==
    ASSUME NEW S, NEW q \in Seq(S), NEW e \in S
    PROVE  /\ e = "SwitchOff" => EndsOff(Append(q, e))
           /\ EndsOff(q) /\ e # "SwitchOn" => EndsOff(Append(q, e))
  <1>1. /\ DOMAIN Append(q, e) = 1..(Len(q) + 1) /\ DOMAIN q = 1..Len(q) /\ Len(q) \in Nat
        /\ \A i \in DOMAIN q : Append(q, e)[i] = q[i]
        /\ Append(q, e)[Len(q) + 1] = e
    OBVIOUS
  <1> DEFINE r == Append(q, e)
             n == Len(q)
  <1> HIDE DEF r, n
  <1>2. /\ DOMAIN r = 1..(n + 1) /\ DOMAIN q = 1..n /\ n \in Nat
        /\ \A i \in 1..n : r[i] = q[i]
        /\ r[n + 1] = e
    BY <1>1 DEF r, n
  <1>3. ASSUME e = "SwitchOff" PROVE EndsOff(r)
    <2>1. n + 1 \in DOMAIN r /\ \A j \in DOMAIN r : ~(j > n + 1)
      BY <1>2
    <2>2. QED
      BY <1>2, <1>3, <2>1 DEF EndsOff
  <1>4. ASSUME EndsOff(q), e # "SwitchOn" PROVE EndsOff(r)
    <2>1. PICK i \in 1..n : q[i] = "SwitchOff" /\ \A j \in 1..n : j > i => q[j] # "SwitchOn"
      BY <1>2, <1>4 DEF EndsOff
    <2>2. i \in DOMAIN r /\ r[i] = "SwitchOff"
      BY <1>2, <2>1
    <2>3. ASSUME NEW j \in DOMAIN r, j > i PROVE r[j] # "SwitchOn"
      <3>1. j \in 1..n \/ j = n + 1
        BY <1>2
      <3>2. QED
        BY <1>2, <1>4, <2>1, <2>3, <3>1
    <2>4. QED
      BY <2>2, <2>3 DEF EndsOff
  <1>5. QED
    BY <1>3, <1>4 DEF r

LEMMA EndsOffTail ==
    ASSUME NEW S, NEW q \in Seq(S), q # <<>>, EndsOff(q)
    PROVE  \/ EndsOff(Tail(q))
           \/ Head(q) = "SwitchOff" /\ "SwitchOn" \notin Elements(Tail(q))
  <1> DEFINE r == Tail(q)
             n == Len(q)
  <1>1. /\ DOMAIN q = 1..n /\ n \in Nat \ {0} /\ q[1] = Head(q) /\ DOMAIN r = 1..(n - 1)
        /\ \A i \in 1..(n - 1) : r[i] = q[i + 1]
    OBVIOUS
  <1> HIDE DEF r, n
  <1>2. PICK i \in 1..n : q[i] = "SwitchOff" /\ \A j \in 1..n : j > i => q[j] # "SwitchOn"
    BY <1>1 DEF EndsOff
  <1>3. CASE i = 1
    <2>1. \A j \in DOMAIN r : j + 1 \in 1..n /\ j + 1 > i
      BY <1>1, <1>3
    <2>2. \A j \in DOMAIN r : r[j] # "SwitchOn"
      BY <1>1, <1>2, <2>1
    <2>3. QED
      BY <1>1, <1>2, <1>3, <2>2 DEF Elements, r
  <1>4. CASE i > 1
    <2>1. i - 1 \in 1..(n - 1) /\ r[i - 1] = q[i]
      BY <1>1, <1>4
    <2>2. ASSUME NEW j \in DOMAIN r, j > i - 1 PROVE r[j] # "SwitchOn"
      <3>1. j + 1 \in 1..n /\ j + 1 > i
        BY <1>1, <2>2
      <3>2. QED
        BY <1>1, <1>2, <3>1
    <2>3. EndsOff(r)
      BY <1>1, <1>2, <2>1, <2>2 DEF EndsOff
    <2>4. QED
      BY <2>3 DEF r
  <1>5. QED
    BY <1>1, <1>3, <1>4

LEMMA EndsOffHas ==
    ASSUME NEW q, EndsOff(q)
    PROVE  "SwitchOff" \in Elements(q)
  BY DEF EndsOff, Elements

-----------------------------------------------------------------------------
(* What the tables and actions do about switching off. *)

LEMMA TablesSwitchOff ==
    ASSUME NEW c \in Component, NEW t \in Table(c)
    PROVE  /\ t.event = "SwitchOff" => t.next = "Off"
           /\ t.event = "ErrorOccurred" =>
                 t.next = "Error" /\ (t.state # "Error" => t.action = "handleError")
           /\ t.next = "Error" => t.event = "ErrorOccurred"
           /\ t.state \in Down /\ t.event # "SwitchOn" => t.next \in Down
           /\ t.state = "Off" /\ t.event \notin {"SwitchOn", "ErrorOccurred"} => t.next = "Off"
           /\ t.next = "Off" => t.event = "SwitchOff"
           /\ t.next = "Off" => t.action = "switchOff" \/ (t.action = "none" /\ (t.state = "Off" \/ c \in Motor))
           /\ t.next = "Error" => t.action = "handleError" \/ (t.action = "none" /\ t.state = "Error")
           /\ t.action = "switchOff" => t.next = "Off"
           /\ t.action = "handleError" => t.next = "Error"
  <1> DEFINE Fits(u, moving) ==
           /\ u.event = "SwitchOff" => u.next = "Off"
           /\ u.event = "ErrorOccurred" =>
                 u.next = "Error" /\ (u.state # "Error" => u.action = "handleError")
           /\ u.next = "Error" => u.event = "ErrorOccurred"
           /\ u.state \in Down /\ u.event # "SwitchOn" => u.next \in Down
           /\ u.state = "Off" /\ u.event \notin {"SwitchOn", "ErrorOccurred"} => u.next = "Off"
           /\ u.next = "Off" => u.event = "SwitchOff"
           /\ u.next = "Off" => u.action = "switchOff" \/ (u.action = "none" /\ (u.state = "Off" \/ moving))
           /\ u.next = "Error" => u.action = "handleError" \/ (u.action = "none" /\ u.state = "Error")
           /\ u.action = "switchOff" => u.next = "Off"
           /\ u.action = "handleError" => u.next = "Error"
  <1>1. ASSUME NEW S, "Off" \in S, NEW u \in ErrorEntries(S) PROVE Fits(u, FALSE)
    <2>1. CASE u \in On({"Off"}, "SwitchOff", "Off", "none")
      BY <2>1, EntryForm DEF Down
    <2>2. CASE u \in On(S \ {"Error"}, "ErrorOccurred", "Error", "handleError")
      BY <2>2, EntryForm DEF Down
    <2>3. CASE u \in On({"Error"}, "ErrorOccurred", "Error", "none")
      BY <2>3, EntryForm DEF Down
    <2>4. QED
      BY <1>1, <2>1, <2>2, <2>3 DEF ErrorEntries
  <1>2. ASSUME NEW S, "Off" \in S, NEW u \in CommonEntries(S) PROVE Fits(u, FALSE)
    <2>1. CASE u \in ErrorEntries(S)
      BY <1>1, <1>2, <2>1
    <2>2. CASE u \in On({"Off"}, "SwitchOn", "Initialization", "switchOn")
      BY <2>2, EntryForm DEF Down
    <2>3. CASE u \in On(S \ {"Off"}, "SwitchOff", "Off", "switchOff")
      BY <2>3, EntryForm DEF Down
    <2>4. QED
      BY <1>2, <2>1, <2>2, <2>3 DEF CommonEntries
  <1>3. ASSUME NEW S, NEW e, NEW n, NEW a, NEW u \in On(S, e, n, a),
               S \cap Down = {}, e \notin {"SwitchOff", "ErrorOccurred"}, n \notin Down,
               a \notin {"switchOff", "handleError"}
        PROVE  Fits(u, FALSE)
    BY <1>3, EntryForm DEF Down
  <1> HIDE DEF Fits
  <1>4. ASSUME NEW u \in MachineTable PROVE Fits(u, FALSE)
    <2>1. CASE u \in CommonEntries(MachineStates)
      BY <1>2, <2>1 DEF MachineStates
    <2>2. CASE u \notin CommonEntries(MachineStates)
      BY <1>4, <2>2, EntryForm DEF MachineTable, Down, Fits
    <2>3. QED
      BY <2>1, <2>2
  <1>5. ASSUME NEW u \in MergerTable PROVE Fits(u, FALSE)
    <2>1. CASE u \in CommonEntries(MergerStates)
      BY <1>2, <2>1 DEF MergerStates
    <2>2. CASE u \notin CommonEntries(MergerStates)
      BY <1>5, <2>2, EntryForm DEF MergerTable, Down, Fits
    <2>3. QED
      BY <2>1, <2>2
  <1>6. ASSUME NEW u \in CoilTable PROVE Fits(u, FALSE)
    <2>1. CASE u \in CommonEntries(CoilStates)
      BY <1>2, <2>1 DEF CoilStates
    <2>2. CASE u \notin CommonEntries(CoilStates)
      BY <1>6, <2>2, EntryForm DEF CoilTable, CoilResume, Down, Fits
    <2>3. QED
      BY <2>1, <2>2
  <1>7. ASSUME NEW u \in HeaterTable PROVE Fits(u, FALSE)
    <2>1. CASE u \in CommonEntries(HeaterStates)
      BY <1>2, <2>1 DEF HeaterStates
    <2>2. CASE u \notin CommonEntries(HeaterStates)
      BY <1>7, <2>2, EntryForm DEF HeaterTable, Down, Fits
    <2>3. QED
      BY <2>1, <2>2
  <1>8. ASSUME NEW u \in SensorTable PROVE Fits(u, FALSE)
    <2>1. CASE u \in CommonEntries(SensorStates)
      BY <1>2, <2>1 DEF SensorStates
    <2>2. CASE u \notin CommonEntries(SensorStates)
      BY <1>8, <2>2, EntryForm DEF SensorTable, Down, Fits
    <2>3. QED
      BY <2>1, <2>2
  <1>9. ASSUME NEW u \in MotorTable PROVE Fits(u, TRUE)
    <2>1. CASE u \in ErrorEntries(MotorStates)
      BY <1>1, <2>1 DEF MotorStates, Fits
    <2>2. CASE u \in On({"Off"}, "SwitchOn", "Initialization", "switchOn")
      BY <2>2, EntryForm DEF Down, Fits
    <2>3. CASE u \in On(MotorStates \ {"Off", "Running", "Starting"}, "SwitchOff", "Off", "none")
      BY <2>3, EntryForm DEF Down, Fits
    <2>4. CASE u \in On({"Starting", "Running"}, "SwitchOff", "Off", "switchOff")
      BY <2>4, EntryForm DEF Down, Fits
    <2>5. CASE \/ u \in On({"Initialization"}, "SwitchOnSucceeded", "Stopped", "none")
               \/ u \in On({"Stopped"}, "StopMotor", "Stopped", "none")
               \/ u \in On({"Stopped"}, "StartMotor", "Starting", "startMotor")
               \/ u \in On({"Starting"}, "StartMotorSucceeded", "Running", "none")
               \/ u \in On({"Running", "Starting"}, "StopMotor", "Stopping", "stopMotor")
               \/ u \in On({"Stopping"}, "StopMotor", "Stopping", "none")
               \/ u \in On({"Stopping"}, "StopMotorSucceeded", "Stopped", "none")
      BY <1>3, <2>5 DEF Down, Fits
    <2>6. QED
      BY <1>9, <2>1, <2>2, <2>3, <2>4, <2>5 DEF MotorTable
  <1>10. Fits(t, c \in Motor)
    <2>1. CASE c \in Motor
      BY <1>9, <2>1, TableIs DEF Fits
    <2>2. CASE c \notin Motor
      BY <1>4, <1>5, <1>6, <1>7, <1>8, <2>2, Components, TableIs DEF Fits
    <2>3. QED
      BY <2>1, <2>2
  <1>11. QED
    BY <1>10 DEF Fits

\* Every state has an entry for switching off and one for errors, in every table.
LEMMA AlwaysHandled ==
    ASSUME NEW c \in Component, NEW s \in StatesOf[c], NEW e \in {"SwitchOff", "ErrorOccurred"}
    PROVE  \E t \in Table(c) : t.state = s /\ t.event = e
  <1> DEFINE Handled(table, r) == \E t \in table : t.state = r /\ t.event = e
  <1>1. ASSUME NEW S, NEW n, NEW a, NEW f, NEW r \in S, f = e
        PROVE  Handled(On(S, f, n, a), r)
    <2>1. [state |-> r, event |-> f, next |-> n, action |-> a] \in On(S, f, n, a)
      BY DEF On
    <2>2. QED
      BY <1>1, <2>1
  <1>2. ASSUME NEW T, NEW U, NEW r, Handled(T, r), T \subseteq U PROVE Handled(U, r)
    BY <1>2
  <1> HIDE DEF Handled
  <1>3. ASSUME NEW S, NEW r \in S, e = "ErrorOccurred" PROVE Handled(ErrorEntries(S), r)
    <2>1. CASE r = "Error"
      <3>1. Handled(On({"Error"}, "ErrorOccurred", "Error", "none"), r)
        BY <1>1, <1>3, <2>1
      <3>2. QED
        BY <1>2, <3>1 DEF ErrorEntries
    <2>2. CASE r # "Error"
      <3>1. Handled(On(S \ {"Error"}, "ErrorOccurred", "Error", "handleError"), r)
        BY <1>1, <1>3, <2>2
      <3>2. QED
        BY <1>2, <3>1 DEF ErrorEntries
    <2>3. QED
      BY <2>1, <2>2
  <1>4. ASSUME NEW S, NEW r \in S, e = "SwitchOff", r = "Off" PROVE Handled(ErrorEntries(S), r)
    <2>1. Handled(On({"Off"}, "SwitchOff", "Off", "none"), r)
      BY <1>1, <1>4
    <2>2. QED
      BY <1>2, <2>1 DEF ErrorEntries
  <1>5. ASSUME NEW S, NEW r \in S PROVE Handled(CommonEntries(S), r)
    <2>1. ErrorEntries(S) \subseteq CommonEntries(S)
      BY DEF CommonEntries
    <2>2. CASE e = "SwitchOff" /\ r # "Off"
      <3>1. Handled(On(S \ {"Off"}, "SwitchOff", "Off", "switchOff"), r)
        BY <1>1, <1>5, <2>2
      <3>2. QED
        BY <1>2, <3>1 DEF CommonEntries
    <2>3. CASE e = "SwitchOff" /\ r = "Off"
      BY <1>2, <1>4, <1>5, <2>1, <2>3
    <2>4. CASE e = "ErrorOccurred"
      BY <1>2, <1>3, <1>5, <2>1, <2>4
    <2>5. QED
      BY <2>2, <2>3, <2>4
  <1>6. ASSUME NEW r \in MotorStates PROVE Handled(MotorTable, r)
    <2>1. ErrorEntries(MotorStates) \subseteq MotorTable
      BY DEF MotorTable
    <2>2. CASE e = "SwitchOff" /\ r \in {"Starting", "Running"}
      <3>1. Handled(On({"Starting", "Running"}, "SwitchOff", "Off", "switchOff"), r)
        BY <1>1, <2>2
      <3>2. QED
        BY <1>2, <3>1 DEF MotorTable
    <2>3. CASE e = "SwitchOff" /\ r \notin {"Off", "Starting", "Running"}
      <3>1. Handled(On(MotorStates \ {"Off", "Running", "Starting"}, "SwitchOff", "Off", "none"), r)
        BY <1>1, <1>6, <2>3
      <3>2. On(MotorStates \ {"Off", "Running", "Starting"}, "SwitchOff", "Off", "none")
               \subseteq MotorTable
        BY DEF MotorTable
      <3>3. QED
        BY <1>2, <3>1, <3>2
    <2>4. CASE e = "SwitchOff" /\ r = "Off"
      BY <1>2, <1>4, <1>6, <2>1, <2>4
    <2>5. CASE e = "ErrorOccurred"
      BY <1>2, <1>3, <1>6, <2>1, <2>5
    <2>6. QED
      BY <2>2, <2>3, <2>4, <2>5
  <1>7. Handled(Table(c), s)
    <2>1. CASE c = "MachineControl"
      <3>1. s \in MachineStates /\ CommonEntries(MachineStates) \subseteq Table(c)
        BY <2>1, TableIs, MachineStatesOf DEF StatesOf, MachineTable
      <3>2. QED
        BY <1>2, <1>5, <3>1
    <2>2. CASE c = "FilamentMergerControl"
      <3>1. s \in MergerStates /\ CommonEntries(MergerStates) \subseteq Table(c)
        BY <2>2, TableIs, MergerStatesOf DEF StatesOf, MergerTable
      <3>2. QED
        BY <1>2, <1>5, <3>1
    <2>3. CASE c = "FilamentCoilControl"
      <3>1. s \in CoilStates /\ CommonEntries(CoilStates) \subseteq Table(c)
        BY <2>3, TableIs, CoilStatesOf DEF StatesOf, CoilTable
      <3>2. QED
        BY <1>2, <1>5, <3>1
    <2>4. CASE c = "FilamentTensionSensor"
      <3>1. s \in SensorStates /\ CommonEntries(SensorStates) \subseteq Table(c)
        BY <2>4, TableIs, SensorStatesOf DEF StatesOf, SensorTable
      <3>2. QED
        BY <1>2, <1>5, <3>1
    <2>5. CASE c \in Heater
      <3>1. s \in HeaterStates /\ CommonEntries(HeaterStates) \subseteq Table(c)
        BY <2>5, TableIs, HeaterStatesOf DEF StatesOf, HeaterTable
      <3>2. QED
        BY <1>2, <1>5, <3>1
    <2>6. CASE c \in Motor
      BY <1>6, <2>6, TableIs, MotorStatesOf DEF StatesOf
    <2>7. QED
      BY <2>1, <2>2, <2>3, <2>4, <2>5, <2>6, Components
  <1>8. QED
    BY <1>7 DEF Handled

\* Who asks whom.
LEMMA Subordinates ==
    ASSUME NEW c \in Component
    PROVE  /\ c \in Publisher => Subscriber(c) \in Control /\ Subscriber(c) # c
           /\ Subscriber("FilamentMergerControl") = "MachineControl"
           /\ Subscriber("FilamentCoilControl") = "MachineControl"
           /\ c \in Heater => Subscriber(c) = "FilamentMergerControl"
           /\ Subscriber("FilamentFeederMotor") = "FilamentMergerControl"
           /\ Subscriber("FilamentCoilMotor") = "FilamentCoilControl"
           /\ Subscriber("FilamentTensionSensor") = "FilamentCoilControl"
           /\ Publisher = {"FilamentMergerControl", "FilamentCoilControl", "FilamentTensionSensor"}
                             \cup Motor \cup Heater
  BY DEF Subscriber, Publisher, Component, Control, Motor, Heater

\* What the steps of an action that leads to a state are about.
ActionFits(c, next, action, A) ==
    /\ \A s \in Elements(A) :
          /\ s.do = "send" => s.to \in Publisher /\ Subscriber(s.to) = c
          /\ s.do = "tell" => s.event # "SwitchOn"
          /\ s.do = "send" /\ next \in Down => s.what = "SwitchOff" /\ s.fails = "ignore"
          /\ s.do = "tell" /\ s.notification = "ErrorOccurred" =>
                \A r \in Elements(A) : r.do = "send" => r.fails = "ignore"
    /\ next \in Down /\ action # "none" =>
          \A d \in Publisher : Subscriber(d) = c => OffCall(d) \in Elements(A)
    /\ action = "handleError" /\ c \in Publisher => Notify("ErrorOccurred") \in Elements(A)

Under(c) == {d \in Publisher : Subscriber(d) = c}

\* An action that switches off all subordinates and then may tell that.
LEMMA SwitchingOffFits ==
    ASSUME NEW c, NEW next, NEW action, NEW A, NEW N,
           Elements(A) = {OffCall(d) : d \in Under(c)} \cup N,
           N \subseteq {Notify("ErrorOccurred"), Notify("SwitchedOff")},
           action = "handleError" => Notify("ErrorOccurred") \in N \/ c \notin Publisher
    PROVE  ActionFits(c, next, action, A)
  <1>1. \A n : Notify(n).do = "tell" /\ Notify(n).event = "none"
    BY DEF Notify, Tell
  <1>2. \A d : /\ OffCall(d).do = "send" /\ OffCall(d).to = d
               /\ OffCall(d).what = "SwitchOff" /\ OffCall(d).fails = "ignore"
    BY DEF OffCall, Send
  <1>3. ASSUME NEW s \in Elements(A)
        PROVE  \/ \E d \in Publisher : Subscriber(d) = c /\ s = OffCall(d)
               \/ s.do = "tell" /\ s.event = "none"
    BY <1>1 DEF Under
  <1>4. \A s \in Elements(A) : s.do = "send" => s.fails = "ignore" /\ s.what = "SwitchOff"
    BY <1>2, <1>3
  <1>5. \A d \in Publisher : Subscriber(d) = c => OffCall(d) \in Elements(A)
    BY DEF Under
  <1>6. QED
    BY <1>2, <1>3, <1>4, <1>5 DEF ActionFits

LEMMA SwitchingOffOnly ==
    ASSUME NEW c, NEW next, NEW action, NEW A, action # "handleError",
           Elements(A) = {OffCall(d) : d \in Under(c)}
    PROVE  ActionFits(c, next, action, A)
  <1> PICK N : N = {}
    OBVIOUS
  <1>1. /\ Elements(A) = {OffCall(d) : d \in Under(c)} \cup N
        /\ N \subseteq {Notify("ErrorOccurred"), Notify("SwitchedOff")}
    OBVIOUS
  <1>2. QED
    BY <1>1, SwitchingOffFits

LEMMA MachineActionFits ==
    ASSUME NEW t \in MachineTable
    PROVE  ActionFits("MachineControl", t.next, t.action, MachineAction(t.action, t.event))
  <1> DEFINE A == MachineAction(t.action, t.event)
             F(s) == /\ s.do = "send" => s.to \in Publisher /\ Subscriber(s.to) = "MachineControl"
                     /\ s.do = "tell" => s.event # "SwitchOn"
             Both == {"FilamentMergerControl", "FilamentCoilControl"}
  <1>1. /\ Both \subseteq Publisher
        /\ \A d \in Publisher : Subscriber(d) = "MachineControl" <=> d \in Both
        /\ "MachineControl" \notin Publisher
    BY DEF Subscriber, Publisher, Component, Control, Motor, Heater
  <1>2. t.next \in Down => t.action \in {"switchOff", "handleError", "none"}
    BY TablesSwitchOff, TableIs DEF Down, Component, Control, Motor
  <1>3. CASE t.action \in {"switchOff", "handleError"}
    <2>1. {OffCall(d) : d \in Under("MachineControl")} =
              {OffCall("FilamentMergerControl"), OffCall("FilamentCoilControl")}
      BY <1>1 DEF Under
    <2>2. CASE t.action = "switchOff"
      <3>1. A = Append(MachineSwitchOff, Notify("SwitchedOff"))
        BY <2>2 DEF MachineAction
      <3>2. Elements(A) = {OffCall("FilamentMergerControl"), OffCall("FilamentCoilControl"),
                           Notify("SwitchedOff")}
        BY <3>1, JoinedTuples DEF MachineSwitchOff, SwitchOffComponent, OffCall
      <3>3. Elements(A) = {OffCall(d) : d \in Under("MachineControl")} \cup {Notify("SwitchedOff")}
        BY <2>1, <3>2
      <3>4. QED
        BY <2>2, <3>3, SwitchingOffFits
    <2>3. CASE t.action = "handleError"
      <3>1. A = Append(MachineSwitchOff, Notify("ErrorOccurred"))
        BY <2>3 DEF MachineAction
      <3>2. Elements(A) = {OffCall("FilamentMergerControl"), OffCall("FilamentCoilControl"),
                           Notify("ErrorOccurred")}
        BY <3>1, JoinedTuples DEF MachineSwitchOff, SwitchOffComponent, OffCall
      <3>3. Elements(A) = {OffCall(d) : d \in Under("MachineControl")} \cup {Notify("ErrorOccurred")}
        BY <2>1, <3>2
      <3>4. QED
        BY <3>3, SwitchingOffFits
    <2>4. QED
      BY <1>3, <2>2, <2>3
  <1>4. CASE t.action \notin {"switchOff", "handleError"}
    <2>1. t.next \in Down => t.action = "none"
      BY <1>2, <1>4
    <2>2. t.action = "none" => Elements(A) = {}
      BY TupleElements DEF MachineAction
    <2>3. \A s \in Elements(A) : F(s) /\ (s.do = "tell" => s.notification # "ErrorOccurred")
      <3>1. ASSUME NEW d \in Both, NEW r, NEW f PROVE F(Send(d, r, f)) /\ Send(d, r, f).do = "send"
        BY <1>1 DEF Send
      <3>2. ASSUME NEW e, NEW n, e # "SwitchOn", n # "ErrorOccurred"
            PROVE  F(Tell(e, n)) /\ Tell(e, n).notification # "ErrorOccurred"
        BY <3>2 DEF Tell
      <3> DEFINE G(s) == F(s) /\ (s.do = "tell" => s.notification # "ErrorOccurred")
      <3>3. /\ \A d \in Both : \A r, f : G(Send(d, r, f))
            /\ \A e : e # "SwitchOn" => G(Push(e))
            /\ \A n : n # "ErrorOccurred" => G(Notify(n))
            /\ G(Tell("StartingSucceeded", "Running")) /\ G(Tell("StoppingSucceeded", "Stopped"))
        BY <3>1, <3>2 DEF Push, Notify, Send
      <3> HIDE DEF F, G
      <3>4. CASE t.action = "switchOn"
        <4>1. A = << Send("FilamentMergerControl", "SwitchOn", "return"),
                     Send("FilamentCoilControl", "SwitchOn", "return"),
                     Push("SwitchOnSucceeded") >>
          BY <3>4 DEF MachineAction
        <4>2. QED
          BY <3>3, <4>1, TupleElements DEF G
      <3>5. CASE t.action = "startHeating"
        <4>1. A = << Send("FilamentMergerControl", "StartHeating", "continue"), Notify("HeatingUp") >>
          BY <3>5 DEF MachineAction
        <4>2. QED
          BY <3>3, <4>1, TupleElements DEF G
      <3>6. CASE t.action = "startMachine"
        <4>1. PICK r : A = << Send("FilamentMergerControl", "SetMotorSpeed", "return"),
                              Send("FilamentMergerControl", "StartFeeding", "return"),
                              Send("FilamentCoilControl", "SetMotorSpeed", "return"),
                              Send("FilamentCoilControl", r, "return"),
                              Notify("Starting") >>
          BY <3>6 DEF MachineAction, StartMachine
        <4>2. QED
          BY <3>3, <4>1, TupleElements DEF G
      <3>7. CASE t.action = "stopMachine"
        <4>1. A = << Send("FilamentMergerControl", "StopFeeding", "return"),
                     Send("FilamentCoilControl", "StopCoil", "return") >>
          BY <3>7 DEF MachineAction
        <4>2. QED
          BY <3>3, <4>1, TupleElements DEF G
      <3>8. CASE t.action \in {"checkStartingState", "checkStoppingState", "notifyStopped"}
        <4>1. \/ A = << Tell("StartingSucceeded", "Running") >>
              \/ A = << Tell("StoppingSucceeded", "Stopped") >>
              \/ A = << Notify("Stopped") >>
              \/ A = <<>>
          BY <3>8 DEF MachineAction, CheckStartingState, CheckStoppingState
        <4>2. QED
          BY <3>3, <4>1, TupleElements DEF G
      <3>9. CASE t.action \notin {"switchOn", "startHeating", "startMachine", "stopMachine",
                                  "checkStartingState", "checkStoppingState", "notifyStopped"}
        <4>1. A = <<>>
          BY <1>4, <3>9 DEF MachineAction
        <4>2. QED
          BY <4>1, TupleElements
      <3>10. QED
        BY <3>4, <3>5, <3>6, <3>7, <3>8, <3>9
    <2>4. QED
      BY <1>1, <1>4, <2>1, <2>2, <2>3 DEF ActionFits
  <1>5. QED
    BY <1>3, <1>4

\* The steps of the controls' other actions: they ask their subordinates, switch nobody
\* on by an event of their own, and tell of no error.
Ordinary(c, A) ==
    \A s \in Elements(A) :
        /\ s.do = "send" => s.to \in Publisher /\ Subscriber(s.to) = c
        /\ s.do = "tell" => s.event # "SwitchOn" /\ s.notification # "ErrorOccurred"

LEMMA OrdinaryFits ==
    ASSUME NEW c, NEW next, NEW action, NEW A, Ordinary(c, A),
           action # "handleError",
           next \in Down => action = "none" /\ A = <<>>
    PROVE  ActionFits(c, next, action, A)
  <1>1. next \in Down => Elements(A) = {}
    BY TupleElements
  <1>2. QED
    BY <1>1 DEF Ordinary, ActionFits

LEMMA OrdinarySteps ==
    ASSUME NEW c
    PROVE  /\ \A d \in Under(c) : \A r, f :
                 /\ Send(d, r, f).do = "send" /\ Send(d, r, f).to = d
                 /\ d \in Publisher /\ Subscriber(d) = c
           /\ \A e, n : Tell(e, n).do = "tell" /\ Tell(e, n).event = e
                           /\ Tell(e, n).notification = n
           /\ \A e : Push(e).do = "tell" /\ Push(e).event = e /\ Push(e).notification = "none"
           /\ \A n : Notify(n).do = "tell" /\ Notify(n).event = "none"
                           /\ Notify(n).notification = n
  BY DEF Send, Tell, Push, Notify, Under

LEMMA MergerActionFits ==
    ASSUME NEW t \in MergerTable
    PROVE  ActionFits("FilamentMergerControl", t.next, t.action, MergerAction(t.action))
  <1> DEFINE c == "FilamentMergerControl"
             A == MergerAction(t.action)
             F(s) == /\ s.do = "send" => s.to \in Publisher /\ Subscriber(s.to) = c
                     /\ s.do = "tell" => s.event # "SwitchOn" /\ s.notification # "ErrorOccurred"
  <1>1. Under(c) = {"FilamentFeederMotor", "FilamentMergerHeater", "FilamentPreHeater"}
    BY DEF Under, Subscriber, Publisher, Component, Control, Motor, Heater
  <1>2. /\ t.next \in Down => t.action \in {"switchOff", "handleError", "none"}
    BY TablesSwitchOff, TableIs DEF Down, Component, Control, Motor
  <1>3. Elements(MergerSwitchOff) = {OffCall(d) : d \in Under(c)}
    <2>1. MergerSwitchOff = << OffCall("FilamentFeederMotor") >>
                            \o << OffCall("FilamentMergerHeater"), OffCall("FilamentPreHeater") >>
      BY DEF MergerSwitchOff, HeatersOff, SwitchOffComponent, OffCall
    <2>2. Elements(MergerSwitchOff) = {OffCall("FilamentFeederMotor"),
                               OffCall("FilamentMergerHeater"), OffCall("FilamentPreHeater")}
      BY <2>1, JoinedTuples
    <2>3. QED
      BY <1>1, <2>2
  <1>4. CASE t.action = "switchOff"
    <2>1. Elements(A) = {OffCall(d) : d \in Under(c)}
      BY <1>3, <1>4 DEF MergerAction
    <2>2. QED
      BY <1>4, <2>1, SwitchingOffOnly
  <1>5. CASE t.action = "handleError"
    <2>1. A = Append(<< OffCall("FilamentFeederMotor") >>
                        \o << OffCall("FilamentMergerHeater"), OffCall("FilamentPreHeater") >>,
                     Notify("ErrorOccurred"))
      BY <1>5 DEF MergerAction, MergerSwitchOff, HeatersOff, SwitchOffComponent, OffCall
    <2>2. Elements(A) = {OffCall("FilamentFeederMotor"), OffCall("FilamentMergerHeater"),
                         OffCall("FilamentPreHeater"), Notify("ErrorOccurred")}
      BY <2>1, JoinedTuples
    <2>3. Elements(A) = {OffCall(d) : d \in Under(c)} \cup {Notify("ErrorOccurred")}
      BY <1>1, <2>2
    <2>4. QED
      BY <2>3, SwitchingOffFits
  <1>6. CASE t.action \notin {"switchOff", "handleError"}
    <2>1. /\ \A d \in Under(c) : \A r, f : F(Send(d, r, f))
          /\ F(Push("SwitchOnSucceeded"))
          /\ \A n : n # "ErrorOccurred" => F(Notify(n))
      BY OrdinarySteps
    <2>2. Ordinary(c, A) <=> \A s \in Elements(A) : F(s)
      BY DEF Ordinary
    <2> HIDE DEF F
    <2>3. CASE t.action = "switchOn"
      <3>1. A = << Send("FilamentFeederMotor", "SwitchOn", "return"), Push("SwitchOnSucceeded") >>
        BY <2>3 DEF MergerAction
      <3>2. Ordinary(c, A)
        BY <1>1, <2>1, <2>2, <3>1, TupleElements
      <3>3. QED
        BY <1>2, <2>3, <3>2, OrdinaryFits
    <2>4. CASE t.action = "heatingUp"
      <3>1. A = << Send("FilamentPreHeater", "SwitchOn", "continue"),
                   Send("FilamentMergerHeater", "SwitchOn", "continue") >>
        BY <2>4 DEF MergerAction
      <3>2. Ordinary(c, A)
        BY <1>1, <2>1, <2>2, <3>1, TupleElements
      <3>3. QED
        BY <1>2, <2>4, <3>2, OrdinaryFits
    <2>5. CASE t.action \in {"notifyHeatedUp", "notifyRunning"}
      <3>1. PICK n \in {"HeatedUp", "FeedingRunning"} : A = << Notify(n) >>
        BY <2>5 DEF MergerAction
      <3>2. Ordinary(c, A)
        BY <2>1, <2>2, <3>1, TupleElements
      <3>3. QED
        BY <1>2, <2>5, <3>2, OrdinaryFits
    <2>6. CASE t.action = "startMotor"
      <3>1. A = << Send("FilamentFeederMotor", "StartMotor", "return") >>
        BY <2>6 DEF MergerAction
      <3>2. Ordinary(c, A)
        BY <1>1, <2>1, <2>2, <3>1, TupleElements
      <3>3. QED
        BY <1>2, <2>6, <3>2, OrdinaryFits
    <2>7. CASE t.action = "stopMerger"
      <3>1. A = << Send("FilamentMergerHeater", "SwitchOff", "ignore"),
                   Send("FilamentPreHeater", "SwitchOff", "ignore") >>
                \o << Send("FilamentFeederMotor", "StopMotor", "continue"),
                      Notify("FeedingStopped") >>
        BY <2>7 DEF MergerAction, HeatersOff, SwitchOffComponent
      <3>2. Ordinary(c, A)
        BY <1>1, <2>1, <2>2, <3>1, JoinedTuples
      <3>3. QED
        BY <1>2, <2>7, <3>2, OrdinaryFits
    <2>8. CASE t.action \notin {"switchOn", "heatingUp", "notifyHeatedUp", "notifyRunning",
                                "startMotor", "stopMerger"}
      <3>1. A = <<>>
        BY <1>6, <2>8 DEF MergerAction
      <3>2. Ordinary(c, A)
        BY <3>1, TupleElements DEF Ordinary
      <3>3. QED
        BY <1>2, <1>6, <3>1, <3>2, OrdinaryFits
    <2>9. QED
      BY <2>3, <2>4, <2>5, <2>6, <2>7, <2>8
  <1>7. QED
    BY <1>4, <1>5, <1>6

LEMMA CoilActionFits ==
    ASSUME NEW t \in CoilTable
    PROVE  ActionFits("FilamentCoilControl", t.next, t.action, CoilAction(t.action))
  <1> DEFINE c == "FilamentCoilControl"
             A == CoilAction(t.action)
             F(s) == /\ s.do = "send" => s.to \in Publisher /\ Subscriber(s.to) = c
                     /\ s.do = "tell" => s.event # "SwitchOn" /\ s.notification # "ErrorOccurred"
  <1>1. Under(c) = {"FilamentCoilMotor", "FilamentTensionSensor"}
    BY DEF Under, Subscriber, Publisher, Component, Control, Motor, Heater
  <1>2. /\ t.next \in Down => t.action \in {"switchOff", "handleError", "none"}
    BY TablesSwitchOff, TableIs DEF Down, Component, Control, Motor
  <1>3. CoilSwitchOff = << OffCall("FilamentCoilMotor"), OffCall("FilamentTensionSensor") >>
    BY DEF CoilSwitchOff, SwitchOffComponent, OffCall
  <1>4. CASE t.action = "switchOff"
    <2>1. Elements(A) = {OffCall("FilamentCoilMotor"), OffCall("FilamentTensionSensor")}
      BY <1>3, <1>4, TupleElements DEF CoilAction
    <2>2. Elements(A) = {OffCall(d) : d \in Under(c)}
      BY <1>1, <2>1
    <2>3. QED
      BY <1>4, <2>2, SwitchingOffOnly
  <1>5. CASE t.action = "handleError"
    <2>1. A = Append(CoilSwitchOff, Notify("ErrorOccurred"))
      BY <1>5 DEF CoilAction
    <2>2. Elements(A) = {OffCall("FilamentCoilMotor"), OffCall("FilamentTensionSensor"),
                         Notify("ErrorOccurred")}
      BY <1>3, <2>1, JoinedTuples
    <2>3. Elements(A) = {OffCall(d) : d \in Under(c)} \cup {Notify("ErrorOccurred")}
      BY <1>1, <2>2
    <2>4. QED
      BY <2>3, SwitchingOffFits
  <1>6. CASE t.action \notin {"switchOff", "handleError"}
    <2>1. /\ \A d \in Under(c) : \A r, f : F(Send(d, r, f))
          /\ F(Push("SwitchOnSucceeded"))
          /\ \A n : n # "ErrorOccurred" => F(Notify(n))
      BY OrdinarySteps
    <2>2. Ordinary(c, A) <=> \A s \in Elements(A) : F(s)
      BY DEF Ordinary
    <2> HIDE DEF F
    <2>3. CASE t.action = "switchOn"
      <3>1. A = << Send("FilamentCoilMotor", "SwitchOn", "return"),
                   Send("FilamentTensionSensor", "SwitchOn", "return"),
                   Push("SwitchOnSucceeded") >>
        BY <2>3 DEF CoilAction
      <3>2. Ordinary(c, A)
        BY <1>1, <2>1, <2>2, <3>1, TupleElements
      <3>3. QED
        BY <1>2, <2>3, <3>2, OrdinaryFits
    <2>4. CASE t.action = "startMotor"
      <3>1. A = << Send("FilamentCoilMotor", "StartMotor", "return") >>
        BY <2>4 DEF CoilAction
      <3>2. Elements(A) = {Send("FilamentCoilMotor", "StartMotor", "return")}
        BY <3>1, TupleElements
      <3>3. Ordinary(c, A)
        BY <1>1, <2>1, <2>2, <3>2
      <3>4. QED
        BY <1>2, <2>4, <3>3, OrdinaryFits
    <2>5. CASE t.action = "notifyRunning"
      <3>1. A = << Notify("CoilRunning") >>
        BY <2>5 DEF CoilAction
      <3>2. Ordinary(c, A)
        BY <2>1, <2>2, <3>1, TupleElements
      <3>3. QED
        BY <1>2, <2>5, <3>2, OrdinaryFits
    <2>6. CASE t.action = "stopMotor"
      <3>1. A = << Send("FilamentCoilMotor", "StopMotor", "continue"), Notify("CoilStopped") >>
        BY <2>6 DEF CoilAction
      <3>2. Ordinary(c, A)
        BY <1>1, <2>1, <2>2, <3>1, TupleElements
      <3>3. QED
        BY <1>2, <2>6, <3>2, OrdinaryFits
    <2>7. CASE t.action = "controlFilamentTension"
      <3>1. \/ A = << Send("FilamentCoilMotor", "ChangeOffsetSpeed", "return") >>
            \/ A = <<>>
        BY <2>7 DEF CoilAction
      <3>2. Ordinary(c, A)
        BY <1>1, <2>1, <2>2, <3>1, TupleElements
      <3>3. QED
        BY <1>2, <2>7, <3>2, OrdinaryFits
    <2>8. CASE t.action \notin {"switchOn", "startMotor", "notifyRunning", "stopMotor",
                                "controlFilamentTension"}
      <3>1. A = <<>>
        BY <1>6, <2>8 DEF CoilAction
      <3>2. Ordinary(c, A)
        BY <3>1, TupleElements DEF Ordinary
      <3>3. QED
        BY <1>2, <1>6, <3>1, <3>2, OrdinaryFits
    <2>9. QED
      BY <2>3, <2>4, <2>5, <2>6, <2>7, <2>8
  <1>7. QED
    BY <1>4, <1>5, <1>6

\* A device asks nobody, and an error of a heater follows a call that failed.
LEMMA DeviceActionFits ==
    ASSUME NEW c \in Motor \cup Heater \cup {"FilamentTensionSensor"}, NEW t \in Table(c),
           NEW ok \in BOOLEAN
    PROVE  /\ ActionFits(c, t.next, t.action, Action(c, t.action, t.event, ok))
           /\ c \in Heater =>
                 /\ \A s \in Elements(Action(c, t.action, t.event, ok)) : s.event = "ErrorOccurred" => ~ok
                 /\ t.action = "switchOff" /\ ~ok =>
                       Push("ErrorOccurred") \in Elements(Action(c, t.action, t.event, ok))
  <1> DEFINE A == Action(c, t.action, t.event, ok)
  <1>1. Under(c) = {}
    BY DEF Under, Subscriber, Publisher, Component, Control, Motor, Heater
  <1>2. /\ c \in Motor => A = MotorAction(t.action, ok)
        /\ c \in Heater => A = HeaterAction(t.action, ok)
        /\ c = "FilamentTensionSensor" => A = SensorAction(t.action, ok)
        /\ c \in Component
    BY DEF Action, Motor, Heater, Component
  <1>3. \/ A = <<>>
        \/ \E e \in {"SwitchOnSucceeded", "SwitchOnFailed", "ErrorOccurred"} : A = << Push(e) >>
        \/ \E e \in {"StartMotorSucceeded", "StopMotorSucceeded", "ErrorOccurred"} : A = << Tell(e, e) >>
        \/ \E n \in {"ErrorOccurred", "TargetTemperatureRangeReached"} : A = << Notify(n) >>
    BY <1>2 DEF MotorAction, HeaterAction, SensorAction
  <1>4. t.action = "handleError" => A = << Notify("ErrorOccurred") >>
    BY <1>2 DEF MotorAction, HeaterAction, SensorAction
  <1>5. \A s \in Elements(A) : s.do = "tell" /\ s.event # "SwitchOn"
    BY <1>3, TupleElements, OrdinarySteps
  <1>6. t.action = "handleError" => Notify("ErrorOccurred") \in Elements(A)
    BY <1>4, TupleElements
  <1>7. ActionFits(c, t.next, t.action, A)
    BY <1>1, <1>5, <1>6 DEF ActionFits, Under
  <1>8. ASSUME c \in Heater
        PROVE  /\ \A s \in Elements(A) : s.event = "ErrorOccurred" => ~ok
               /\ t.action = "switchOff" /\ ~ok => Push("ErrorOccurred") \in Elements(A)
    <2>1. A = HeaterAction(t.action, ok)
      BY <1>2, <1>8
    <2>2. CASE ok
      <3>1. \/ A = <<>>
            \/ A = << Push("SwitchOnSucceeded") >>
            \/ A = << Notify("TargetTemperatureRangeReached") >>
            \/ A = << Notify("ErrorOccurred") >>
        BY <2>1, <2>2 DEF HeaterAction
      <3>2. \/ Elements(A) = {}
            \/ Elements(A) = {Push("SwitchOnSucceeded")}
            \/ Elements(A) = {Notify("TargetTemperatureRangeReached")}
            \/ Elements(A) = {Notify("ErrorOccurred")}
        BY <3>1, TupleElements
      <3>3. \A s \in Elements(A) : s.event # "ErrorOccurred"
        BY <3>2 DEF Push, Notify, Tell
      <3>4. QED
        BY <2>2, <3>3
    <2>3. CASE ~ok
      <3>1. t.action = "switchOff" => A = << Push("ErrorOccurred") >>
        BY <2>1, <2>3 DEF HeaterAction
      <3>2. QED
        BY <2>3, <3>1, TupleElements
    <2>4. QED
      BY <2>2, <2>3
  <1>9. QED
    BY <1>7, <1>8

LEMMA ControlActions ==
    ASSUME NEW action, NEW event, NEW ok
    PROVE  /\ Action("MachineControl", action, event, ok) = MachineAction(action, event)
           /\ Action("FilamentMergerControl", action, event, ok) = MergerAction(action)
           /\ Action("FilamentCoilControl", action, event, ok) = CoilAction(action)
  BY DEF Action, Motor, Heater

LEMMA EveryActionFits ==
    ASSUME NEW c \in Component, NEW t \in Table(c), NEW ok \in BOOLEAN
    PROVE  ActionFits(c, t.next, t.action, Action(c, t.action, t.event, ok))
  <1> DEFINE A == Action(c, t.action, t.event, ok)
  <1>1. CASE c = "MachineControl"
    <2>1. t \in MachineTable /\ A = MachineAction(t.action, t.event)
      BY <1>1, TableIs, ControlActions
    <2>2. ActionFits("MachineControl", t.next, t.action, MachineAction(t.action, t.event))
      BY <2>1, MachineActionFits
    <2>3. QED
      BY <1>1, <2>1, <2>2
  <1>2. CASE c = "FilamentMergerControl"
    <2>1. t \in MergerTable /\ A = MergerAction(t.action)
      BY <1>2, TableIs, ControlActions
    <2>2. ActionFits("FilamentMergerControl", t.next, t.action, MergerAction(t.action))
      BY <2>1, MergerActionFits
    <2>3. QED
      BY <1>2, <2>1, <2>2
  <1>3. CASE c = "FilamentCoilControl"
    <2>1. t \in CoilTable /\ A = CoilAction(t.action)
      BY <1>3, TableIs, ControlActions
    <2>2. ActionFits("FilamentCoilControl", t.next, t.action, CoilAction(t.action))
      BY <2>1, CoilActionFits
    <2>3. QED
      BY <1>3, <2>1, <2>2
  <1>4. CASE c \in Motor \cup Heater \cup {"FilamentTensionSensor"}
    BY <1>4, DeviceActionFits, Zenon
  <1>5. QED
    BY <1>1, <1>2, <1>3, <1>4, Components

-----------------------------------------------------------------------------
(* Every action but those of a transition keeps the invariant of switching off. *)

\* What must not get lost in the queues: a switch-off, an error, and that nothing is
\* switched on below a component that is down, unless that is about to be switched off.
QueuesKeep ==
    \A c \in Component :
        /\ \A e \in {"SwitchOff", "ErrorOccurred"} :
              e \in Elements(queue[c]) => e \in Elements(queue'[c])
        /\ c \in Publisher /\ state[Subscriber(c)] \in Down /\ ~OffAhead(c) =>
              /\ EndsOff(queue[c]) => EndsOff(queue'[c])
              /\ "SwitchOn" \in Elements(queue'[c]) => "SwitchOn" \in Elements(queue[c])

LEMMA PushedKeeps ==
    ASSUME IInv, NEW c \in Component, NEW e \in Event, HasRoom(c), queue' = Pushed(c, e),
           e = "SwitchOn" /\ c \in Publisher => state[Subscriber(c)] \notin Down \/ OffAhead(c)
    PROVE  /\ QueuesKeep
           /\ Elements(queue'[c]) = Elements(queue[c]) \cup {e}
           /\ \A d \in Component : d # c => queue'[d] = queue[d]
           /\ e = "SwitchOff" => EndsOff(queue'[c])
  <1>1. queue[c] \in Seq(Event) /\ DOMAIN queue = Component
    BY DEF IInv, MachineInvariant, TypeOK
  <1>2. queue'[c] = Append(queue[c], e) /\ \A d \in Component : d # c => queue'[d] = queue[d]
    BY <1>1 DEF Pushed
  <1>3. Elements(queue'[c]) = Elements(queue[c]) \cup {e}
    BY <1>1, <1>2, AppendedElements
  <1>4. /\ e = "SwitchOff" => EndsOff(queue'[c])
        /\ EndsOff(queue[c]) /\ e # "SwitchOn" => EndsOff(queue'[c])
    BY <1>1, <1>2, EndsOffAppended
  <1>5. QueuesKeep
    BY <1>2, <1>3, <1>4 DEF QueuesKeep
  <1>6. QED
    BY <1>2, <1>3, <1>4, <1>5

LEMMA UnchangedKeeps ==
    ASSUME UNCHANGED queue
    PROVE  QueuesKeep
  BY DEF QueuesKeep

\* The subordinates of a component that is down, when states stay as they are.
LEMMA SubordinatesKeep ==
    ASSUME IInv, DownInv, OffInv, QueuesKeep, UNCHANGED state,
           \A c \in Publisher : state[Subscriber(c)] \in Down /\ (OffAhead(c) \/ OffIsLate(c)) =>
              OffAhead(c)' \/ OffIsLate(c)' \/ EndsOff(queue'[c]),
           \A c \in Publisher : Reporting(c) => Reporting(c)'
    PROVE  DownInv' /\ OffInv'
  <1>1. Publisher \subseteq Component
    BY DEF Publisher
  <1>2. ASSUME NEW c \in Publisher, state'[Subscriber(c)] \in Down
        PROVE  \/ OffAhead(c)'
               \/ OffIsLate(c)'
               \/ EndsOff(queue'[c])
               \/ state'[c] \in Down /\ "SwitchOn" \notin Elements(queue'[c])
    <2>1. state[Subscriber(c)] \in Down
      BY <1>2
    <2>2. \/ OffAhead(c)
          \/ OffIsLate(c)
          \/ EndsOff(queue[c])
          \/ state[c] \in Down /\ "SwitchOn" \notin Elements(queue[c])
      BY <2>1 DEF DownInv
    <2>3. CASE OffAhead(c) \/ OffIsLate(c)
      BY <2>1, <2>3
    <2>4. CASE ~OffAhead(c)
      <3>1. /\ EndsOff(queue[c]) => EndsOff(queue'[c])
            /\ "SwitchOn" \in Elements(queue'[c]) => "SwitchOn" \in Elements(queue[c])
        BY <1>1, <2>1, <2>4 DEF QueuesKeep
      <3>2. QED
        BY <2>2, <2>3, <3>1
    <2>5. QED
      BY <2>3, <2>4
  <1>3. ASSUME NEW c \in Publisher, state'[Subscriber(c)] = "Off"
        PROVE  \/ OffAhead(c)'
               \/ OffIsLate(c)'
               \/ "SwitchOff" \in Elements(queue'[c])
               \/ state'[c] = "Off"
               \/ Reporting(c)'
    <2>1. state[Subscriber(c)] = "Off" /\ state[Subscriber(c)] \in Down
      BY <1>3 DEF Down
    <2>2. \/ OffAhead(c) \/ OffIsLate(c)
          \/ "SwitchOff" \in Elements(queue[c])
          \/ state[c] = "Off"
          \/ Reporting(c)
      BY <2>1 DEF OffInv
    <2>3. "SwitchOff" \in Elements(queue[c]) => "SwitchOff" \in Elements(queue'[c])
      BY <1>1 DEF QueuesKeep
    <2>4. EndsOff(queue'[c]) => "SwitchOff" \in Elements(queue'[c])
      BY EndsOffHas
    <2>5. QED
      BY <1>3, <2>1, <2>2, <2>3, <2>4
  <1>4. DownInv'
    BY <1>2 DEF DownInv, OffAhead, OffIsLate, OffCall, Send
  <1>5. OffInv'
    BY <1>3 DEF OffInv, OffAhead, OffIsLate, OffCall, Send
  <1>6. QED
    BY <1>4, <1>5

\* What was given up before, when states stay as they are.
LEMMA LateOnKeeps ==
    ASSUME LateFits, LateOnInv, UNCHANGED state, late' \subseteq late,
           \A c \in Publisher : state[Subscriber(c)] \in Down /\ OffAhead(c) => OffAhead(c)'
    PROVE  LateOnInv'
  <1> SUFFICES ASSUME NEW o \in late', o.what = "SwitchOn", state'[o.from] \in Down
               PROVE  OffAhead(o.to)'
    BY DEF LateOnInv, OffAhead, OffCall, Send
  <1>1. o \in late /\ o.to \in Publisher /\ Subscriber(o.to) = o.from
    BY DEF LateFits
  <1>2. OffAhead(o.to)
    BY <1>1 DEF LateOnInv
  <1>3. QED
    BY <1>1, <1>2

\* An error is still reported as long as the rest of the action, the notifications and the
\* queue of the subscriber keep it.
LEMMA ReportingKeeps ==
    ASSUME QueuesKeep, NEW c \in Publisher, Reporting(c),
           \A s \in Elements(todo[c]) : s.do = "tell" /\ s.notification = "ErrorOccurred" =>
              \/ s \in Elements(todo'[c])
              \/ "ErrorOccurred" \in Elements(mail'[c]),
           "ErrorOccurred" \in Elements(mail[c]) =>
              \/ "ErrorOccurred" \in Elements(mail'[c])
              \/ "ErrorOccurred" \in Elements(queue'[Subscriber(c)])
    PROVE  Reporting(c)'
  <1>1. Subscriber(c) \in Component
    BY DEF Subscriber, Component, Control
  <1>2. CASE \E s \in Elements(todo[c]) : s.do = "tell" /\ s.notification = "ErrorOccurred"
    BY <1>2 DEF Reporting
  <1>3. CASE "ErrorOccurred" \in Elements(mail[c])
    BY <1>3 DEF Reporting
  <1>4. CASE "ErrorOccurred" \in Elements(queue[Subscriber(c)])
    <2>1. "ErrorOccurred" \in Elements(queue'[Subscriber(c)])
      BY <1>1, <1>4 DEF QueuesKeep
    <2>2. QED
      BY <2>1 DEF Reporting
  <1>5. QED
    BY <1>2, <1>3, <1>4 DEF Reporting

\* What a control still has to do may get shorter, with an error to report in front.
LEMMA StepsKeep ==
    ASSUME StepsInv, UNCHANGED <<state, broken>>,
           \A c \in Component :
              \/ Elements(todo'[c]) \subseteq Elements(todo[c])
              \/ /\ c \in Control
                 /\ Elements(todo'[c]) \subseteq Elements(todo[c]) \cup {Push("ErrorOccurred")}
    PROVE  StepsInv'
  <1> SUFFICES ASSUME NEW c \in Component, NEW s \in Elements(todo'[c]) PROVE StepFits(c, s)'
    BY DEF StepsInv
  <1>1. /\ Push("ErrorOccurred").do = "tell" /\ Push("ErrorOccurred").event = "ErrorOccurred"
        /\ Push("ErrorOccurred").notification = "none"
    BY DEF Push, Tell
  <1>2. Control \cap Heater = {}
    BY DEF Control, Heater
  <1>3. \A r \in Elements(todo'[c]) : r \in Elements(todo[c]) \/ r.do = "tell"
    BY <1>1
  <1>4. CASE s \in Elements(todo[c])
    <2>1. StepFits(c, s)
      BY <1>4 DEF StepsInv
    <2>2. s.do = "tell" /\ s.notification = "ErrorOccurred" =>
              \A r \in Elements(todo'[c]) : r.do = "send" => r.fails = "ignore"
      BY <1>3, <2>1 DEF StepFits
    <2>3. QED
      BY <2>1, <2>2 DEF StepFits
  <1>5. CASE s \notin Elements(todo[c])
    <2>1. s = Push("ErrorOccurred") /\ c \in Control
      BY <1>5
    <2>2. QED
      BY <1>1, <1>2, <2>1 DEF StepFits
  <1>6. QED
    BY <1>4, <1>5

\* A heater has still to handle its errors, and no other component gives it one.
LEMMA HeatersKeep ==
    ASSUME HeatersInv, QueuesKeep, UNCHANGED <<state, driven, broken>>,
           \A h \in Heater :
              /\ "ErrorOccurred" \in Elements(queue'[h]) =>
                    "ErrorOccurred" \in Elements(queue[h]) \/ broken > 0
              /\ \A s \in Elements(todo[h]) : s.do = "tell" /\ s.event = "ErrorOccurred" =>
                    s \in Elements(todo'[h]) \/ "ErrorOccurred" \in Elements(queue'[h])
    PROVE  HeatersInv'
  <1> SUFFICES ASSUME NEW h \in Heater
               PROVE  /\ state'[h] = "Error" \/ "ErrorOccurred" \in Elements(queue'[h]) => broken' > 0
                      /\ state'[h] = "Error" /\ h \in driven' => broken' > 1
                      /\ state'[h] = "Off" /\ h \in driven' =>
                            \/ \E s \in Elements(todo'[h]) : s.do = "tell" /\ s.event = "ErrorOccurred"
                            \/ "ErrorOccurred" \in Elements(queue'[h])
    BY DEF HeatersInv
  <1>1. /\ state[h] = "Error" \/ "ErrorOccurred" \in Elements(queue[h]) => broken > 0
        /\ state[h] = "Error" /\ h \in driven => broken > 1
        /\ state[h] = "Off" /\ h \in driven =>
              \/ \E s \in Elements(todo[h]) : s.do = "tell" /\ s.event = "ErrorOccurred"
              \/ "ErrorOccurred" \in Elements(queue[h])
    BY DEF HeatersInv
  <1>2. "ErrorOccurred" \in Elements(queue[h]) => "ErrorOccurred" \in Elements(queue'[h])
    BY DEF QueuesKeep, Component
  <1>3. QED
    BY <1>1, <1>2

\* What is left of an action after a step of it.
LEMMA RestOf ==
    ASSUME IInv, NEW c \in Component, ~Idle(c), Goes(c) \/ Fails(c)
    PROVE  /\ Head(todo[c]) \in Elements(todo[c])
           /\ \A d \in Component : d # c => todo'[d] = todo[d]
           /\ Goes(c) \/ Head(todo[c]).fails \notin {"return", "continue"} =>
                 Elements(todo[c]) = {Head(todo[c])} \cup Elements(todo'[c])
           /\ Elements(todo'[c]) \subseteq Elements(todo[c]) \cup {Push("ErrorOccurred")}
  <1>1. /\ todo[c] \in Seq(StepOf(c)) /\ todo[c] # <<>> /\ DOMAIN todo = Component
        /\ Tail(todo[c]) \in Seq(StepOf(c))
    BY StepForm DEF IInv, Idle
  <1>2. Elements(todo[c]) = {Head(todo[c])} \cup Elements(Tail(todo[c]))
    BY <1>1, HeadAndTail
  <1>3. /\ \A d \in Component : d # c => todo'[d] = todo[d]
        /\ Goes(c) \/ Head(todo[c]).fails \notin {"return", "continue"} => todo'[c] = Tail(todo[c])
        /\ todo'[c] \in {Tail(todo[c]), << Push("ErrorOccurred") >>,
                         << Push("ErrorOccurred") >> \o Tail(todo[c])}
    BY <1>1 DEF Goes, Fails
  <1>4. Push("ErrorOccurred") \in StepOf(c)
    BY PushIsStep, CommonEvents
  <1>5. Elements(<< Push("ErrorOccurred") >>) = {Push("ErrorOccurred")}
    BY TupleElements
  <1>6. Elements(<< Push("ErrorOccurred") >> \o Tail(todo[c])) =
            {Push("ErrorOccurred")} \cup Elements(Tail(todo[c]))
    BY <1>1, <1>4, PrefixedElements
  <1>7. Elements(todo'[c]) \subseteq Elements(todo[c]) \cup {Push("ErrorOccurred")}
    <2>1. CASE todo'[c] = Tail(todo[c])
      BY <1>2, <2>1
    <2>2. CASE todo'[c] = << Push("ErrorOccurred") >>
      BY <1>5, <2>2
    <2>3. CASE todo'[c] = << Push("ErrorOccurred") >> \o Tail(todo[c])
      BY <1>2, <1>6, <2>3
    <2>4. QED
      BY <1>3, <2>1, <2>2, <2>3
  <1>8. QED
    BY <1>2, <1>3, <1>7

LEMMA TellsKeepsOff ==
    ASSUME IInv, SwitchOffInv, AllHaveRoom, NEW c \in Component, Tells(c)
    PROVE  SwitchOffInv'
  <1> DEFINE s == Head(todo[c])
             e == s.event
             n == s.notification
  <1>1. /\ ~Idle(c) /\ Goes(c) /\ s.do = "tell"
        /\ e \in Event \cup {"none"} /\ n \in Notices(c)
    BY StepForm DEF Tells, AtStep
  <1>2. /\ s \in Elements(todo[c])
        /\ Elements(todo[c]) = {s} \cup Elements(todo'[c])
        /\ \A d \in Component : d # c => todo'[d] = todo[d]
    BY <1>1, RestOf
  <1>3. /\ e # "SwitchOn"
        /\ e = "ErrorOccurred" /\ c \in Heater => broken > 0
    BY <1>1, <1>2 DEF SwitchOffInv, StepsInv, StepFits
  <1>4. /\ QueuesKeep
        /\ \A d \in Component : d # c => queue'[d] = queue[d]
        /\ "ErrorOccurred" \in Elements(queue'[c]) =>
              "ErrorOccurred" \in Elements(queue[c]) \/ e = "ErrorOccurred"
        /\ e = "ErrorOccurred" => "ErrorOccurred" \in Elements(queue'[c])
    <2>1. CASE e = "none"
      BY <2>1, UnchangedKeeps DEF Tells, Own
    <2>2. CASE e # "none"
      <3>1. queue' = Pushed(c, e) /\ HasRoom(c) /\ e \in Event
        BY <1>1, <2>2 DEF Tells, Own, AllHaveRoom
      <3>2. QED
        BY <1>3, <3>1, PushedKeeps
    <2>3. QED
      BY <2>1, <2>2
  <1>5. /\ \A p \in Publisher : "ErrorOccurred" \in Elements(mail[p]) =>
              "ErrorOccurred" \in Elements(mail'[p])
        /\ c \in Publisher /\ n = "ErrorOccurred" => "ErrorOccurred" \in Elements(mail'[c])
    <2>1. CASE n = "none" \/ c = "MachineControl"
      <3>1. mail' = mail /\ (n = "ErrorOccurred" => c \notin Publisher)
        BY <2>1 DEF Tells, Publisher
      <3>2. QED
        BY <3>1
    <2>2. CASE n # "none" /\ c # "MachineControl"
      <3>1. c \in Publisher /\ n \in Subscribed(c)
        BY <1>1, <2>2, NoticesOf DEF Publisher
      <3>2. mail' = [mail EXCEPT ![c] = Append(@, n)]
        BY <2>2 DEF Tells
      <3>3. mail[c] \in Seq(Subscribed(c)) /\ DOMAIN mail = Publisher
        BY <3>1 DEF IInv, MachineInvariant, TypeOK
      <3>4. Elements(Append(mail[c], n)) = Elements(mail[c]) \cup {n}
        BY <3>1, <3>3, AppendedElements
      <3>5. mail'[c] = Append(mail[c], n) /\ \A p \in Publisher : p # c => mail'[p] = mail[p]
        BY <3>1, <3>2, <3>3
      <3>6. QED
        BY <3>1, <3>4, <3>5
    <2>3. QED
      BY <2>1, <2>2
  <1>6. UNCHANGED <<state, io, driven, jammed, late, missed, broken>>
    BY DEF Tells, hardware, calls, budget
  <1>7. StepsInv'
    <2>1. \A d \in Component : Elements(todo'[d]) \subseteq Elements(todo[d])
      BY <1>2
    <2>2. QED
      BY <1>6, <2>1, StepsKeep DEF SwitchOffInv
  <1>8. IoInv'
    BY <1>6 DEF SwitchOffInv, IoInv
  <1>9. ASSUME NEW d \in Publisher
        PROVE  (OffAhead(d) => OffAhead(d)') /\ (OffIsLate(d) => OffIsLate(d)')
    <2>1. OffCall(d).do = "send" /\ OffCall(d)' = OffCall(d) /\ Subscriber(d) \in Component
      BY DEF OffCall, Send, Subscriber, Component, Control
    <2>2. OffCall(d) \in Elements(todo[Subscriber(d)]) =>
              OffCall(d) \in Elements(todo'[Subscriber(d)])
      BY <1>1, <1>2, <2>1
    <2>3. QED
      BY <1>6, <2>1, <2>2 DEF OffAhead, OffIsLate
  <1>10. LateFits' /\ LateOnInv'
    BY <1>6, <1>9, LateOnKeeps DEF SwitchOffInv, LateFits
  <1>11. DownInv' /\ OffInv'
    <2>1. ASSUME NEW d \in Publisher, Reporting(d) PROVE Reporting(d)'
      <3>1. d \in Component
        BY DEF Publisher
      <3>2. \A r \in Elements(todo[d]) : r.do = "tell" /\ r.notification = "ErrorOccurred" =>
                \/ r \in Elements(todo'[d])
                \/ "ErrorOccurred" \in Elements(mail'[d])
        BY <1>2, <1>5, <3>1
      <3>3. QED
        BY <1>4, <1>5, <2>1, <3>2, ReportingKeeps
    <2>2. QED
      BY <1>4, <1>6, <1>9, <2>1, SubordinatesKeep DEF SwitchOffInv
  <1>12. HeatersInv'
    <2>1. ASSUME NEW h \in Heater
          PROVE  /\ "ErrorOccurred" \in Elements(queue'[h]) =>
                       "ErrorOccurred" \in Elements(queue[h]) \/ broken > 0
                 /\ \A r \in Elements(todo[h]) : r.do = "tell" /\ r.event = "ErrorOccurred" =>
                       r \in Elements(todo'[h]) \/ "ErrorOccurred" \in Elements(queue'[h])
      <3>1. h \in Component
        BY DEF Component
      <3>2. CASE h = c
        BY <1>2, <1>3, <1>4, <3>2
      <3>3. CASE h # c
        BY <1>2, <1>4, <3>1, <3>3
      <3>4. QED
        BY <3>2, <3>3
    <2>2. QED
      BY <1>4, <1>6, <2>1, HeatersKeep DEF SwitchOffInv
  <1>13. QED
    BY <1>7, <1>8, <1>10, <1>11, <1>12 DEF SwitchOffInv

\* Whom a control forwards to is its subordinate.
LEMMA ForwardsDown ==
    ASSUME NEW t \in Control \cap Publisher
    PROVE  MotorOf(t) \in Publisher /\ Subscriber(MotorOf(t)) = t
  BY DEF Control, Publisher, MotorOf, Subscriber, Component, Motor, Heater

LEMMA SendsLateFits ==
    ASSUME IInv, StepsInv, LateFits, NEW c \in Component, Sends(c)
    PROVE  LateFits'
  <1> DEFINE s == Head(todo[c])
             t == s.to
             r == s.what
  <1>1. /\ ~Idle(c) /\ s.do = "send" /\ (Goes(c) \/ Fails(c))
        /\ jammed \subseteq jammed'
        /\ \A o \in late' \ late :
              /\ o.from \in jammed'
              /\ \/ o = TimedOut(c, t, r)
                 \/ t \in Control /\ o = TimedOut(t, MotorOf(t), "SetMotorSpeed")
    BY SendsForm
  <1>2. s \in Elements(todo[c])
    BY <1>1, RestOf
  <1>3. t \in Publisher /\ Subscriber(t) = c
    BY <1>1, <1>2 DEF StepsInv, StepFits
  <1>4. t \in Control => MotorOf(t) \in Publisher /\ Subscriber(MotorOf(t)) = t
    BY <1>3, ForwardsDown
  <1>5. /\ TimedOut(c, t, r).from = c /\ TimedOut(c, t, r).to = t
        /\ TimedOut(t, MotorOf(t), "SetMotorSpeed").from = t
        /\ TimedOut(t, MotorOf(t), "SetMotorSpeed").to = MotorOf(t)
    BY DEF TimedOut
  <1> HIDE DEF t, r
  <1>6. QED
    BY <1>1, <1>3, <1>4, <1>5 DEF LateFits

LEMMA HandlesLateFits ==
    ASSUME IInv, LateFits, NEW o \in late, HandlesLate(o)
    PROVE  LateFits'
  <1>1. /\ jammed \subseteq jammed'
        /\ \A x \in late' \ (late \ {o}) :
              /\ x.from \in jammed'
              /\ o.to \in Control /\ x = TimedOut(o.to, MotorOf(o.to), "SetMotorSpeed")
    BY HandlesLateForm
  <1>2. o.to \in Publisher
    BY DEF LateFits
  <1>3. o.to \in Control => MotorOf(o.to) \in Publisher /\ Subscriber(MotorOf(o.to)) = o.to
    BY <1>2, ForwardsDown
  <1>4. /\ TimedOut(o.to, MotorOf(o.to), "SetMotorSpeed").from = o.to
        /\ TimedOut(o.to, MotorOf(o.to), "SetMotorSpeed").to = MotorOf(o.to)
    BY DEF TimedOut
  <1>5. QED
    BY <1>1, <1>3, <1>4 DEF LateFits

\* What a request does to the queues, handled at once or late.
LEMMA RequestKeepsQueues ==
    ASSUME IInv, AllHaveRoom, NEW t \in Publisher, NEW r \in Request,
           queue' = queue \/ (PushesEvent(r) /\ queue' = Pushed(t, EventOf(r))),
           r = "SwitchOn" => state[Subscriber(t)] \notin Down \/ OffAhead(t)
    PROVE  /\ QueuesKeep
           /\ \A d \in Component : "ErrorOccurred" \in Elements(queue'[d]) =>
                 "ErrorOccurred" \in Elements(queue[d])
           /\ r = "SwitchOff" /\ queue' = Pushed(t, EventOf(r)) => EndsOff(queue'[t])
  <1>1. EventOf(r) # "ErrorOccurred" /\ (EventOf(r) = "SwitchOn" => r = "SwitchOn")
    BY DEF EventOf, Request
  <1>2. EventOf("SwitchOff") = "SwitchOff" /\ PushesEvent("SwitchOff") /\ t \in Component
    BY DEF EventOf, PushesEvent, Publisher
  <1>3. CASE queue' = Pushed(t, EventOf(r)) /\ PushesEvent(r)
    <2>1. EventOf(r) \in Event
      BY <1>3, RequestEvent
    <2>2. /\ QueuesKeep
          /\ Elements(queue'[t]) = Elements(queue[t]) \cup {EventOf(r)}
          /\ \A d \in Component : d # t => queue'[d] = queue[d]
          /\ EventOf(r) = "SwitchOff" => EndsOff(queue'[t])
      BY <1>1, <1>2, <1>3, <2>1, PushedKeeps DEF AllHaveRoom
    <2>3. QED
      BY <1>1, <1>2, <2>2
  <1>4. CASE queue' = queue /\ ~(queue' = Pushed(t, EventOf(r)) /\ PushesEvent(r))
    BY <1>2, <1>4, UnchangedKeeps
  <1>5. QED
    BY <1>3, <1>4

\* A SwitchOff that is sent reaches its receiver, or is known to be missed; nothing that
\* was ahead or late is forgotten otherwise.
LEMMA SendsAhead ==
    ASSUME IInv, SwitchOffInv, AllHaveRoom, NEW c \in Component, Sends(c), NEW d \in Publisher
    PROVE  state[Subscriber(d)] \in Down =>
              /\ OffAhead(d) \/ OffIsLate(d) =>
                    OffAhead(d)' \/ OffIsLate(d)' \/ EndsOff(queue'[d])
              /\ Subscriber(d) \in jammed /\ OffAhead(d) => OffAhead(d)'
  <1> SUFFICES ASSUME state[Subscriber(d)] \in Down
               PROVE  /\ OffAhead(d) \/ OffIsLate(d) =>
                            OffAhead(d)' \/ OffIsLate(d)' \/ EndsOff(queue'[d])
                      /\ Subscriber(d) \in jammed /\ OffAhead(d) => OffAhead(d)'
    OBVIOUS
  <1> DEFINE s == Head(todo[c])
             t == s.to
             r == s.what
  <1>1. /\ ~Idle(c) /\ s.do = "send" /\ t \in Component /\ r \in Request
        /\ Goes(c) \/ Fails(c)
        /\ late \subseteq late'
    BY SendsForm
  <1>2. /\ s \in Elements(todo[c])
        /\ \A x \in Component : x # c => todo'[x] = todo[x]
        /\ Goes(c) \/ s.fails \notin {"return", "continue"} =>
              Elements(todo[c]) = {s} \cup Elements(todo'[c])
    BY <1>1, RestOf
  <1>3. /\ t \in Publisher /\ Subscriber(t) = c
        /\ state[c] \in Down => r = "SwitchOff" /\ s.fails = "ignore"
    BY <1>1, <1>2 DEF SwitchOffInv, StepsInv, StepFits
  <1>4. /\ OffCall(d)' = OffCall(d) /\ Subscriber(d) \in Component
        /\ OffCall(d).to = d /\ OffCall(d).what = "SwitchOff" /\ OffCall(d).fails = "ignore"
    BY DEF OffCall, Send, Subscriber, Component, Control
  <1>5. OffIsLate(d) => OffIsLate(d)'
    BY <1>1 DEF OffIsLate
  <1>6. CASE d = t /\ r = "SwitchOff"
    <2>1. Accepts(t, r) /\ PushesEvent(r)
      BY <1>1, <1>6 DEF Accepts, PushesEvent, AllHaveRoom
    <2>2. CASE SendRefused(c, t, r)
      BY <1>5, <1>6, <2>2 DEF SendRefused, Misses, OffAhead
    <2>3. CASE SendUnsent(c, t, r)
      BY <1>3, <1>5, <1>6, <2>3 DEF SendUnsent, Misses, OffAhead
    <2>4. CASE SendTimesOut(c, t, r)
      <3>1. TimedOut(c, t, r).to = t /\ TimedOut(c, t, r).what = r
        BY DEF TimedOut
      <3>2. OffIsLate(d)'
        BY <1>6, <2>4, <3>1 DEF SendTimesOut, OffIsLate
      <3>3. QED
        BY <1>3, <1>6, <2>4, <3>2 DEF SendTimesOut
    <2>5. CASE SendAnswered(c, t, r)
      <3>1. queue' = Pushed(t, EventOf(r))
        BY <1>1, <2>1, <2>5, HandlesForm DEF SendAnswered
      <3>2. EndsOff(queue'[t])
        BY <1>1, <1>3, <1>6, <2>1, <3>1, RequestKeepsQueues
      <3>3. QED
        BY <1>3, <1>6, <2>5, <3>2 DEF SendAnswered
    <2>6. QED
      BY <2>2, <2>3, <2>4, <2>5 DEF Sends
  <1>7. CASE d # t \/ r # "SwitchOff"
    <2>1. d \in missed => d \in missed'
      BY <1>7 DEF Sends, SendRefused, SendUnsent, SendTimesOut, SendAnswered, Misses, Reaches
    <2>2. s # OffCall(d)
      BY <1>4, <1>7
    <2>3. OffCall(d) \in Elements(todo[Subscriber(d)]) =>
              OffCall(d) \in Elements(todo'[Subscriber(d)])
      BY <1>2, <1>3, <1>4, <2>2
    <2>4. OffAhead(d) => OffAhead(d)'
      BY <1>4, <2>1, <2>3 DEF OffAhead
    <2>5. QED
      BY <1>5, <2>4
  <1>8. QED
    BY <1>6, <1>7

LEMMA SendsKeepsOff ==
    ASSUME IInv, SwitchOffInv, AllHaveRoom, NEW c \in Component, Sends(c)
    PROVE  SwitchOffInv'
  <1> DEFINE s == Head(todo[c])
             t == s.to
             r == s.what
  <1>1. /\ ~Idle(c) /\ s.do = "send" /\ t \in Component /\ r \in Request
        /\ Goes(c) \/ Fails(c)
        /\ queue' = queue \/ (PushesEvent(r) /\ queue' = Pushed(t, EventOf(r)))
        /\ \A o \in late' \ late :
              \/ o = TimedOut(c, t, r)
              \/ t \in Control /\ o = TimedOut(t, MotorOf(t), "SetMotorSpeed")
    BY SendsForm
  <1>2. /\ s \in Elements(todo[c])
        /\ \A d \in Component : d # c => todo'[d] = todo[d]
        /\ Goes(c) \/ s.fails \notin {"return", "continue"} =>
              Elements(todo[c]) = {s} \cup Elements(todo'[c])
        /\ Elements(todo'[c]) \subseteq Elements(todo[c]) \cup {Push("ErrorOccurred")}
    BY <1>1, RestOf
  <1>3. /\ t \in Publisher /\ Subscriber(t) = c
        /\ state[c] \in Down => r = "SwitchOff" /\ s.fails = "ignore"
    BY <1>1, <1>2 DEF SwitchOffInv, StepsInv, StepFits
  <1>4. c \in Control
    BY <1>3 DEF Subscriber, Control
  <1>5. UNCHANGED <<state, io, mail, driven, broken>>
    BY DEF Sends, hardware
  <1>6. /\ QueuesKeep
        /\ \A d \in Component : "ErrorOccurred" \in Elements(queue'[d]) =>
              "ErrorOccurred" \in Elements(queue[d])
    <2>1. r = "SwitchOn" => state[Subscriber(t)] \notin Down
      BY <1>3
    <2>2. QED
      BY <1>1, <1>3, <2>1, RequestKeepsQueues
  <1>7. StepsInv'
    <2>1. ASSUME NEW d \in Component
          PROVE  \/ Elements(todo'[d]) \subseteq Elements(todo[d])
                 \/ /\ d \in Control
                    /\ Elements(todo'[d]) \subseteq Elements(todo[d]) \cup {Push("ErrorOccurred")}
      BY <1>2, <1>4
    <2>2. QED
      BY <1>5, <2>1, StepsKeep DEF SwitchOffInv
  <1>8. IoInv' /\ LateFits'
    BY <1>5, SendsLateFits DEF SwitchOffInv, IoInv
  <1>9. LateOnInv'
    <2> SUFFICES ASSUME NEW o \in late', o.what = "SwitchOn", state'[o.from] \in Down
                 PROVE  OffAhead(o.to)'
      BY DEF LateOnInv, OffAhead, OffCall, Send
    <2>1. CASE o \in late
      <3>1. o.from \in jammed /\ o.to \in Publisher /\ Subscriber(o.to) = o.from
        BY <2>1 DEF SwitchOffInv, LateFits
      <3>2. state[o.from] \in Down /\ OffAhead(o.to)
        BY <1>5, <2>1 DEF SwitchOffInv, LateOnInv
      <3>3. QED
        BY <3>1, <3>2, SendsAhead
    <2>2. CASE o \notin late
      <3>1. /\ TimedOut(c, t, r).from = c /\ TimedOut(c, t, r).what = r
            /\ TimedOut(t, MotorOf(t), "SetMotorSpeed").what = "SetMotorSpeed"
        BY DEF TimedOut
      <3>2. o.from = c /\ r = "SwitchOn"
        BY <1>1, <2>2, <3>1
      <3>3. QED
        BY <1>3, <1>5, <3>2
    <2>3. QED
      BY <2>1, <2>2
  <1>10. DownInv' /\ OffInv'
    <2>1. ASSUME NEW d \in Publisher, state[Subscriber(d)] \in Down, OffAhead(d) \/ OffIsLate(d)
          PROVE  OffAhead(d)' \/ OffIsLate(d)' \/ EndsOff(queue'[d])
      BY <2>1, SendsAhead
    <2>2. ASSUME NEW d \in Publisher, Reporting(d) PROVE Reporting(d)'
      <3>1. d \in Component
        BY DEF Publisher
      <3>2. ASSUME NEW q \in Elements(todo[d]), q.do = "tell" /\ q.notification = "ErrorOccurred"
            PROVE  q \in Elements(todo'[d])
        <4>1. CASE d # c
          BY <1>2, <3>1, <3>2, <4>1
        <4>2. CASE d = c
          <5>1. s.fails = "ignore"
            BY <1>1, <1>2, <3>2, <4>2 DEF SwitchOffInv, StepsInv, StepFits
          <5>2. QED
            BY <1>1, <1>2, <3>2, <4>2, <5>1
        <4>3. QED
          BY <4>1, <4>2
      <3>3. QED
        BY <1>5, <1>6, <2>2, <3>2, ReportingKeeps
    <2>3. QED
      BY <1>5, <1>6, <2>1, <2>2, SubordinatesKeep DEF SwitchOffInv
  <1>11. HeatersInv'
    <2>1. \A h \in Heater : h # c /\ h \in Component
      BY <1>4 DEF Heater, Control, Component
    <2>2. QED
      BY <1>2, <1>5, <1>6, <2>1, HeatersKeep DEF SwitchOffInv
  <1>12. QED
    BY <1>7, <1>8, <1>9, <1>10, <1>11 DEF SwitchOffInv

LEMMA HandlesLateKeepsOff ==
    ASSUME IInv, SwitchOffInv, AllHaveRoom, NEW o \in late, HandlesLate(o)
    PROVE  SwitchOffInv'
  <1> DEFINE t == o.to
             r == o.what
  <1>1. /\ t \in Component /\ r \in Request
        /\ queue' = queue \/ (PushesEvent(r) /\ queue' = Pushed(t, EventOf(r)))
        /\ PushesEvent(r) => queue' = Pushed(t, EventOf(r))
        /\ missed \subseteq missed' /\ jammed \subseteq jammed'
        /\ late \ {o} \subseteq late'
        /\ \A x \in late' \ (late \ {o}) : x = TimedOut(t, MotorOf(t), "SetMotorSpeed")
        /\ UNCHANGED <<state, todo, io, mail, driven, broken>>
    BY HandlesLateForm DEF hardware, budget
  <1>2. t \in Publisher /\ Subscriber(t) = o.from
    BY DEF SwitchOffInv, LateFits
  <1>3. /\ QueuesKeep
        /\ \A d \in Component : "ErrorOccurred" \in Elements(queue'[d]) =>
              "ErrorOccurred" \in Elements(queue[d])
        /\ r = "SwitchOff" /\ queue' = Pushed(t, EventOf(r)) => EndsOff(queue'[t])
    <2>1. r = "SwitchOn" => state[Subscriber(t)] \notin Down \/ OffAhead(t)
      BY <1>2 DEF SwitchOffInv, LateOnInv
    <2>2. QED
      BY <1>1, <1>2, <2>1, RequestKeepsQueues
  <1>4. ASSUME NEW d \in Publisher
        PROVE  /\ OffAhead(d) => OffAhead(d)'
               /\ OffIsLate(d) => OffIsLate(d)' \/ EndsOff(queue'[d])
    <2>1. OffCall(d)' = OffCall(d)
      BY DEF OffCall, Send
    <2>2. OffAhead(d) => OffAhead(d)'
      BY <1>1, <2>1 DEF OffAhead
    <2>3. ASSUME NEW x \in late, x.to = d, x.what = "SwitchOff"
          PROVE  OffIsLate(d)' \/ EndsOff(queue'[d])
      <3>1. CASE x = o
        <4>1. PushesEvent(r)
          BY <2>3, <3>1 DEF PushesEvent
        <4>2. QED
          BY <1>1, <1>3, <2>3, <3>1, <4>1
      <3>2. CASE x # o
        BY <1>1, <2>3, <3>2 DEF OffIsLate
      <3>3. QED
        BY <3>1, <3>2
    <2>4. QED
      BY <2>2, <2>3 DEF OffIsLate
  <1>5. StepsInv'
    <2>1. \A d \in Component : Elements(todo'[d]) \subseteq Elements(todo[d])
      BY <1>1
    <2>2. QED
      BY <1>1, <2>1, StepsKeep DEF SwitchOffInv
  <1>6. IoInv' /\ LateFits'
    BY <1>1, HandlesLateFits DEF SwitchOffInv, IoInv
  <1>7. LateOnInv'
    <2> SUFFICES ASSUME NEW x \in late', x.what = "SwitchOn", state'[x.from] \in Down
                 PROVE  OffAhead(x.to)'
      BY DEF LateOnInv, OffAhead, OffCall, Send
    <2>1. TimedOut(t, MotorOf(t), "SetMotorSpeed").what = "SetMotorSpeed"
      BY DEF TimedOut
    <2>2. x \in late
      BY <1>1, <2>1
    <2>3. x.to \in Publisher /\ OffAhead(x.to)
      BY <1>1, <2>2 DEF SwitchOffInv, LateFits, LateOnInv
    <2>4. QED
      BY <1>4, <2>3
  <1>8. DownInv' /\ OffInv'
    <2>1. ASSUME NEW d \in Publisher, OffAhead(d) \/ OffIsLate(d)
          PROVE  OffAhead(d)' \/ OffIsLate(d)' \/ EndsOff(queue'[d])
      BY <1>4, <2>1
    <2>2. ASSUME NEW d \in Publisher, Reporting(d) PROVE Reporting(d)'
      <3>1. d \in Component
        BY DEF Publisher
      <3>2. QED
        BY <1>1, <1>3, <2>2, <3>1, ReportingKeeps
    <2>3. QED
      BY <1>1, <1>3, <2>1, <2>2, SubordinatesKeep DEF SwitchOffInv
  <1>9. HeatersInv'
    <2>1. \A h \in Heater : h \in Component
      BY DEF Component
    <2>2. QED
      BY <1>1, <1>3, <2>1, HeatersKeep DEF SwitchOffInv
  <1>10. QED
    BY <1>5, <1>6, <1>7, <1>8, <1>9 DEF SwitchOffInv

\* Steps that leave the work of the workers and the hardware alone.
LEMMA OthersKeepOff ==
    ASSUME IInv, SwitchOffInv, QueuesKeep,
           UNCHANGED <<state, todo, driven, jammed, late, missed, broken>>,
           \A c \in Component : io'[c] \notin {"SwitchOn", "ErrorOccurred"},
           \A h \in Heater : "ErrorOccurred" \in Elements(queue'[h]) =>
              "ErrorOccurred" \in Elements(queue[h]),
           \A c \in Publisher : "ErrorOccurred" \in Elements(mail[c]) =>
              \/ "ErrorOccurred" \in Elements(mail'[c])
              \/ "ErrorOccurred" \in Elements(queue'[Subscriber(c)])
    PROVE  SwitchOffInv'
  <1>1. StepsInv'
    BY StepsKeep DEF SwitchOffInv
  <1>2. IoInv'
    BY DEF IoInv
  <1>3. \A c \in Publisher : Reporting(c) => Reporting(c)'
    BY ReportingKeeps
  <1>4. \A c \in Publisher : (OffAhead(c) => OffAhead(c)') /\ (OffIsLate(c) => OffIsLate(c)')
    BY DEF OffAhead, OffIsLate, OffCall, Send
  <1>5. UNCHANGED state /\ late' \subseteq late
    OBVIOUS
  <1>6. LateFits' /\ LateOnInv'
    <2>1. LateFits'
      BY DEF SwitchOffInv, LateFits
    <2>2. LateOnInv'
      BY <1>4, <1>5, LateOnKeeps DEF SwitchOffInv
    <2>3. QED
      BY <2>1, <2>2
  <1>7. DownInv' /\ OffInv'
    BY <1>3, <1>4, <1>5, SubordinatesKeep DEF SwitchOffInv
  <1>8. HeatersInv'
    BY HeatersKeep DEF SwitchOffInv
  <1>9. QED
    BY <1>1, <1>2, <1>6, <1>7, <1>8 DEF SwitchOffInv

LEMMA DeliversKeepsOff ==
    ASSUME IInv, SwitchOffInv, AllHaveRoom, NEW p \in Publisher, Delivers(p)
    PROVE  SwitchOffInv'
  <1> DEFINE n == Head(mail[p])
             c == Subscriber(p)
             e == IF n = "HeatedUp" THEN "MergerHeatedUp" ELSE n
  <1>1. /\ mail[p] \in Seq(Subscribed(p)) /\ mail[p] # <<>> /\ n \in Subscribed(p)
        /\ DOMAIN mail = Publisher /\ mail' = [mail EXCEPT ![p] = Tail(@)]
    BY DEF Delivers, IInv, MachineInvariant, TypeOK
  <1>2. /\ c \in Component /\ c \notin Heater
        /\ n # "SwitchOn" /\ DOMAIN io = Component
    <2>1. c \in Component /\ c \notin Heater /\ DOMAIN io = Component
      BY DEF IInv, Subscriber, Component, Control, Heater
    <2>2. p \in Component /\ p # "MachineControl"
      BY DEF Publisher
    <2>3. "SwitchOn" \notin Subscribed(p)
      BY <2>2, SubscribedIs, Components
    <2>4. QED
      BY <1>1, <2>1, <2>3
  <1>3. UNCHANGED <<state, todo, driven, jammed, late, missed, broken>>
    BY DEF Delivers, hardware, calls, budget
  <1>4. /\ Elements(mail[p]) = {n} \cup Elements(mail'[p])
        /\ \A q \in Publisher : q # p => mail'[q] = mail[q]
    <2>1. Elements(mail[p]) = {n} \cup Elements(Tail(mail[p]))
      BY <1>1, HeadAndTail
    <2>2. mail'[p] = Tail(mail[p]) /\ \A q \in Publisher : q # p => mail'[q] = mail[q]
      BY <1>1
    <2>3. QED
      BY <2>1, <2>2
  <1>5. CASE n \in Reports /\ io' = [io EXCEPT ![c] = Concludes(p, n)] /\ UNCHANGED queue
    <2>1. QueuesKeep
      BY <1>5, UnchangedKeeps
    <2>2. \A d \in Component : io'[d] \notin {"SwitchOn", "ErrorOccurred"}
      BY <1>2, <1>5 DEF Concludes, SwitchOffInv, IoInv
    <2>3. n # "ErrorOccurred"
      BY <1>5 DEF Reports
    <2>4. QED
      BY <1>3, <1>4, <1>5, <2>1, <2>2, <2>3, OthersKeepOff
  <1>6. CASE n \notin Reports /\ queue' = Pushed(c, e) /\ UNCHANGED io
    <2>1. e \in Event /\ e # "SwitchOn" /\ (n = "ErrorOccurred" => e = "ErrorOccurred")
      BY <1>1, <1>2, <1>6, HeardEvent
    <2>2. /\ QueuesKeep
          /\ Elements(queue'[c]) = Elements(queue[c]) \cup {e}
          /\ \A d \in Component : d # c => queue'[d] = queue[d]
      BY <1>2, <1>6, <2>1, PushedKeeps DEF AllHaveRoom
    <2>3. \A d \in Component : io'[d] \notin {"SwitchOn", "ErrorOccurred"}
      BY <1>6 DEF SwitchOffInv, IoInv
    <2>4. \A h \in Heater : queue'[h] = queue[h]
      BY <1>2, <2>2 DEF Component
    <2>5. \A q \in Publisher : "ErrorOccurred" \in Elements(mail[q]) =>
              \/ "ErrorOccurred" \in Elements(mail'[q])
              \/ "ErrorOccurred" \in Elements(queue'[Subscriber(q)])
      BY <1>4, <2>1, <2>2
    <2>6. QED
      BY <1>3, <2>2, <2>3, <2>4, <2>5, OthersKeepOff
  <1>7. QED
    BY <1>5, <1>6 DEF Delivers

LEMMA IoPushesKeepsOff ==
    ASSUME IInv, SwitchOffInv, AllHaveRoom, NEW c \in Component, IoPushes(c)
    PROVE  SwitchOffInv'
  <1> DEFINE e == io[c]
  <1>1. e \in Event /\ e \notin {"SwitchOn", "ErrorOccurred"} /\ DOMAIN io = Component
    BY DEF IoPushes, IInv, MachineInvariant, TypeOK, SwitchOffInv, IoInv
  <1>2. /\ QueuesKeep
        /\ Elements(queue'[c]) = Elements(queue[c]) \cup {e}
        /\ \A d \in Component : d # c => queue'[d] = queue[d]
    BY <1>1, PushedKeeps DEF IoPushes, AllHaveRoom
  <1>3. UNCHANGED <<state, todo, mail, driven, jammed, late, missed, broken>>
    BY DEF IoPushes, hardware, calls, budget
  <1>4. \A d \in Component : io'[d] \notin {"SwitchOn", "ErrorOccurred"}
    BY <1>1 DEF IoPushes, SwitchOffInv, IoInv
  <1>5. \A h \in Heater : "ErrorOccurred" \in Elements(queue'[h]) =>
              "ErrorOccurred" \in Elements(queue[h])
    BY <1>1, <1>2 DEF Component
  <1>6. QED
    BY <1>2, <1>3, <1>4, <1>5, OthersKeepOff

LEMMA UserOrdersKeepsOff ==
    ASSUME IInv, SwitchOffInv, AllHaveRoom, UserOrders
    PROVE  SwitchOffInv'
  <1>1. "MachineControl" \in Component /\ "MachineControl" \notin Publisher \cup Heater
    BY DEF Component, Control, Publisher, Heater
  <1>2. Head(orders) \in Order
    BY DEF UserOrders, IInv, MachineInvariant, TypeOK
  <1>3. Head(orders) \in Event
    BY <1>2, CommonEvents, MachineEvents, MergerEvents DEF Order
  <1>4. /\ QueuesKeep
        /\ \A d \in Component : d # "MachineControl" => queue'[d] = queue[d]
    BY <1>1, <1>3, PushedKeeps DEF UserOrders, AllHaveRoom
  <1>5. UNCHANGED <<state, todo, io, mail, driven, jammed, late, missed, broken>>
    BY DEF UserOrders, hardware, calls
  <1>6. \A h \in Heater : queue'[h] = queue[h]
    BY <1>1, <1>4 DEF Component
  <1>7. \A d \in Component : io'[d] \notin {"SwitchOn", "ErrorOccurred"}
    BY <1>5 DEF SwitchOffInv, IoInv
  <1>8. QED
    BY <1>4, <1>5, <1>6, <1>7, OthersKeepOff

LEMMA TemperatureReportedKeepsOff ==
    ASSUME IInv, SwitchOffInv, AllHaveRoom, NEW h \in Heater, NEW e \in Temperature,
           TemperatureReported(h, e)
    PROVE  SwitchOffInv'
  <1>1. h \in Component /\ e \in Event /\ e \notin {"SwitchOn", "ErrorOccurred"}
    BY HeaterEvents DEF Component, Temperature
  <1>2. /\ QueuesKeep
        /\ Elements(queue'[h]) = Elements(queue[h]) \cup {e}
        /\ \A d \in Component : d # h => queue'[d] = queue[d]
    BY <1>1, PushedKeeps DEF TemperatureReported, AllHaveRoom
  <1>3. UNCHANGED <<state, todo, io, mail, driven, jammed, late, missed, broken>>
    BY DEF TemperatureReported, hardware, calls
  <1>4. \A g \in Heater : "ErrorOccurred" \in Elements(queue'[g]) =>
              "ErrorOccurred" \in Elements(queue[g])
    BY <1>1, <1>2 DEF Component
  <1>5. \A d \in Component : io'[d] \notin {"SwitchOn", "ErrorOccurred"}
    BY <1>3 DEF SwitchOffInv, IoInv
  <1>6. QED
    BY <1>2, <1>3, <1>4, <1>5, OthersKeepOff

LEMMA TensionReportedKeepsOff ==
    ASSUME IInv, SwitchOffInv, NEW n \in Tension, TensionReported(n)
    PROVE  SwitchOffInv'
  <1> DEFINE p == "FilamentTensionSensor"
  <1>1. n \in Subscribed(p) /\ p \in Publisher
    BY SubscribedIs DEF Tension, Publisher, Component, Control
  <1>2. mail[p] \in Seq(Subscribed(p)) /\ DOMAIN mail = Publisher
    BY <1>1 DEF IInv, MachineInvariant, TypeOK
  <1>3. Elements(Append(mail[p], n)) = Elements(mail[p]) \cup {n}
    BY <1>1, <1>2, AppendedElements
  <1>4. mail'[p] = Append(mail[p], n) /\ \A q \in Publisher : q # p => mail'[q] = mail[q]
    BY <1>1, <1>2 DEF TensionReported
  <1>5. \A q \in Publisher : "ErrorOccurred" \in Elements(mail[q]) =>
            "ErrorOccurred" \in Elements(mail'[q])
    BY <1>3, <1>4
  <1>6. UNCHANGED <<state, queue, todo, io, driven, jammed, late, missed, broken>>
    BY DEF TensionReported, hardware, calls
  <1>7. \A d \in Component : io'[d] \notin {"SwitchOn", "ErrorOccurred"}
    BY <1>6 DEF SwitchOffInv, IoInv
  <1>8. QED
    BY <1>5, <1>6, <1>7, UnchangedKeeps, OthersKeepOff

\* An event that finds no transition is neither a switch-off nor an error.
LEMMA DispatchFailsKeepsOff ==
    ASSUME IInv, SwitchOffInv, NEW c \in Component, DispatchFails(c)
    PROVE  SwitchOffInv'
  <1>1. /\ queue[c] \in Seq(Event) /\ queue[c] # <<>> /\ DOMAIN queue = Component
        /\ state[c] \in StatesOf[c] /\ Entries(c) = {}
    BY DEF DispatchFails, IInv, MachineInvariant, TypeOK
  <1>2. Head(queue[c]) \notin {"SwitchOff", "ErrorOccurred"}
    BY <1>1, AlwaysHandled DEF Entries
  <1>3. queue'[c] = Tail(queue[c]) /\ \A d \in Component : d # c => queue'[d] = queue[d]
    BY <1>1 DEF DispatchFails
  <1>4. Elements(queue[c]) = {Head(queue[c])} \cup Elements(queue'[c])
    BY <1>1, <1>3, HeadAndTail
  <1>5. EndsOff(queue[c]) => EndsOff(queue'[c])
    BY <1>1, <1>2, <1>3, EndsOffTail
  <1>6. QueuesKeep
    BY <1>2, <1>3, <1>4, <1>5 DEF QueuesKeep
  <1>7. UNCHANGED <<state, todo, io, mail, driven, jammed, late, missed, broken>>
    BY DEF DispatchFails, hardware, calls, budget
  <1>8. \A h \in Heater : "ErrorOccurred" \in Elements(queue'[h]) =>
              "ErrorOccurred" \in Elements(queue[h])
    BY <1>3, <1>4 DEF Component
  <1>9. \A d \in Component : io'[d] \notin {"SwitchOn", "ErrorOccurred"}
    BY <1>7 DEF SwitchOffInv, IoInv
  <1>10. QED
    BY <1>6, <1>7, <1>8, <1>9, OthersKeepOff

-----------------------------------------------------------------------------
(* The transitions. *)

\* What a transition of c changes, as far as switching off is concerned.
Dispatched(c, t, ok) ==
    /\ todo[c] = <<>>
    /\ queue[c] \in Seq(Event) /\ queue[c] # <<>>
    /\ t \in Table(c) /\ t.state = state[c] /\ t.event = Head(queue[c])
    /\ ok \in BOOLEAN /\ (~ok => CanFail(c, t.action))
    /\ state'[c] = t.next
    /\ todo'[c] = Action(c, t.action, t.event, ok)
    /\ queue'[c] = Tail(queue[c])
    /\ \A d \in Component : d # c =>
          state'[d] = state[d] /\ todo'[d] = todo[d] /\ queue'[d] = queue[d]
    /\ driven' = IF ok /\ c \in Motor \cup Heater THEN DrivenAfter(c, t.action) ELSE driven
    /\ broken \in Nat /\ broken' = IF ok THEN broken ELSE broken + 1
    /\ UNCHANGED <<io, mail, jammed, late, missed, failed>>

LEMMA DispatchIs ==
    ASSUME IInv, NEW c \in Component, Dispatch(c)
    PROVE  \E t, ok : Dispatched(c, t, ok)
  <1>1. PICK t \in Entries(c), ok \in BOOLEAN :
            /\ ~ok => CanFail(c, t.action)
            /\ state' = [state EXCEPT ![c] = t.next]
            /\ todo' = [todo EXCEPT ![c] = Action(c, t.action, t.event, ok)]
            /\ driven' = IF ok /\ c \in Motor \cup Heater THEN DrivenAfter(c, t.action) ELSE driven
            /\ broken' = IF ok THEN broken ELSE broken + 1
    BY DEF Dispatch
  <1>2. t \in Table(c) /\ t.state = state[c] /\ t.event = Head(queue[c])
    BY DEF Entries
  <1>3. /\ DOMAIN state = Component /\ DOMAIN todo = Component /\ DOMAIN queue = Component
        /\ queue[c] \in Seq(Event)
    BY DEF IInv, MachineInvariant, TypeOK
  <1>4. broken \in Nat
    BY DEF IInv, MachineInvariant, TypeOK, Scenario
  <1>5. /\ todo[c] = <<>> /\ queue[c] # <<>>
        /\ queue' = [queue EXCEPT ![c] = Tail(@)]
        /\ UNCHANGED <<io, mail, jammed, late, missed, failed>>
    BY DEF Dispatch, Idle
  <1>6. Dispatched(c, t, ok)
    BY <1>1, <1>2, <1>3, <1>4, <1>5 DEF Dispatched
  <1>7. QED
    BY <1>6

LEMMA DispatchedSteps ==
    ASSUME StepsInv, NEW c \in Component, NEW t, NEW ok, Dispatched(c, t, ok)
    PROVE  StepsInv'
  <1> SUFFICES ASSUME NEW d \in Component, NEW s \in Elements(todo'[d]) PROVE StepFits(d, s)'
    BY DEF StepsInv
  <1>1. CASE d # c
    <2>1. state'[d] = state[d] /\ todo'[d] = todo[d] /\ (broken > 0 => broken' > 0)
      BY <1>1 DEF Dispatched
    <2>2. StepFits(d, s)
      BY <2>1 DEF StepsInv
    <2>3. QED
      BY <2>1, <2>2 DEF StepFits
  <1>2. CASE d = c
    <2> DEFINE A == Action(c, t.action, t.event, ok)
    <2>1. t \in Table(c) /\ ok \in BOOLEAN /\ todo'[c] = A /\ state'[c] = t.next
      BY DEF Dispatched
    <2>2. ActionFits(c, t.next, t.action, A)
      BY <2>1, EveryActionFits
    <2>3. c \in Heater /\ s.event = "ErrorOccurred" => broken' > 0
      <3>1. c \in Heater => (s.event = "ErrorOccurred" => ~ok)
        BY <1>2, <2>1, DeviceActionFits
      <3>2. ~ok => broken' > 0
        BY DEF Dispatched
      <3>3. QED
        BY <3>1, <3>2
    <2> HIDE DEF A
    <2>4. QED
      BY <1>2, <2>1, <2>2, <2>3 DEF ActionFits, StepFits
  <1>3. QED
    BY <1>1, <1>2

\* A transition leaves switching off ahead of the others, and what is late.
LEMMA AheadStays ==
    ASSUME NEW c \in Component, NEW t, NEW ok, Dispatched(c, t, ok), NEW x \in Publisher
    PROVE  (OffAhead(x) => OffAhead(x)') /\ (OffIsLate(x) => OffIsLate(x)')
  <1>1. OffCall(x)' = OffCall(x) /\ Subscriber(x) \in Component
    BY DEF OffCall, Send, Subscriber, Component, Control
  <1>2. /\ missed' = missed /\ late' = late /\ todo[c] = <<>>
        /\ \A d \in Component : d # c => todo'[d] = todo[d]
    BY DEF Dispatched
  <1>3. Elements(<<>>) = {}
    BY TupleElements
  <1>4. OffIsLate(x) => OffIsLate(x)'
    BY <1>2 DEF OffIsLate
  <1>5. OffAhead(x) => OffAhead(x)'
    BY <1>1, <1>2, <1>3 DEF OffAhead
  <1>6. QED
    BY <1>4, <1>5

LEMMA DispatchedLateOn ==
    ASSUME LateFits, LateOnInv, NEW c \in Component, NEW t, NEW ok, Dispatched(c, t, ok)
    PROVE  LateOnInv'
  <1> SUFFICES ASSUME NEW o \in late', o.what = "SwitchOn", state'[o.from] \in Down
               PROVE  OffAhead(o.to)'
    BY DEF LateOnInv, OffAhead, OffCall, Send
  <1>1. o \in late /\ o.to \in Publisher /\ Subscriber(o.to) = o.from
    BY DEF LateFits, Dispatched
  <1>2. o.from \in Component /\ o.from \notin Motor
    BY <1>1, Subordinates DEF Component, Control, Motor
  <1>3. state[o.from] \in Down => OffAhead(o.to)'
    BY <1>1, AheadStays DEF LateOnInv
  <1>4. CASE o.from = c
    <2>1. t \in Table(c) /\ ok \in BOOLEAN /\ t.next \in Down /\ t.state = state[c]
      BY <1>4 DEF Dispatched
    <2>2. CASE t.action = "none"
      <3>1. t.state \in Down
        BY <1>2, <1>4, <2>1, <2>2, TablesSwitchOff DEF Down
      <3>2. QED
        BY <1>3, <1>4, <2>1, <3>1
    <2>3. CASE t.action # "none"
      <3>1. ActionFits(c, t.next, t.action, todo'[c])
        BY <2>1, EveryActionFits DEF Dispatched
      <3>2. OffCall(o.to) \in Elements(todo'[c])
        BY <1>1, <1>4, <2>1, <2>3, <3>1 DEF ActionFits
      <3>3. QED
        BY <1>1, <1>4, <3>2 DEF OffAhead, OffCall, Send
    <2>4. QED
      BY <2>2, <2>3
  <1>5. CASE o.from # c
    BY <1>2, <1>3, <1>5 DEF Dispatched
  <1>6. QED
    BY <1>4, <1>5

LEMMA DispatchedDown ==
    ASSUME DownInv, NEW c \in Component, NEW t, NEW ok, Dispatched(c, t, ok)
    PROVE  DownInv'
  <1> SUFFICES ASSUME NEW x \in Publisher, state'[Subscriber(x)] \in Down
               PROVE  \/ OffAhead(x)'
                      \/ OffIsLate(x)'
                      \/ EndsOff(queue'[x])
                      \/ state'[x] \in Down /\ "SwitchOn" \notin Elements(queue'[x])
    BY DEF DownInv, OffAhead, OffIsLate, OffCall, Send
  <1> DEFINE u == Subscriber(x)
             Before == \/ OffAhead(x)
                       \/ OffIsLate(x)
                       \/ EndsOff(queue[x])
                       \/ state[x] \in Down /\ "SwitchOn" \notin Elements(queue[x])
  <1>1. x \in Component /\ u \in Component /\ u # x /\ u \notin Motor
    BY Subordinates DEF Publisher, Component, Control, Motor
  <1>2. state[u] \in Down => Before
    BY DEF DownInv, Dispatched
  <1>3. t \in Table(c) /\ ok \in BOOLEAN
    BY DEF Dispatched
  <1>4. CASE u = c
    <2>1. t.next \in Down /\ todo'[c] = Action(c, t.action, t.event, ok) /\ todo[c] = <<>>
      BY <1>4 DEF Dispatched
    <2>2. CASE t.action # "none"
      <3>1. ActionFits(c, t.next, t.action, todo'[c])
        BY <1>3, <2>1, EveryActionFits
      <3>2. QED
        BY <1>4, <2>1, <2>2, <3>1 DEF ActionFits, OffAhead, OffCall, Send
    <2>3. CASE t.action = "none"
      <3>1. t.state \in Down
        BY <1>1, <1>3, <1>4, <2>1, <2>3, TablesSwitchOff DEF Down
      <3>2. Before
        BY <1>2, <1>4, <3>1 DEF Dispatched
      <3>3. (OffAhead(x) => OffAhead(x)') /\ (OffIsLate(x) => OffIsLate(x)')
        BY AheadStays
      <3>4. QED
        BY <1>1, <1>4, <3>2, <3>3 DEF Dispatched
    <2>4. QED
      BY <2>2, <2>3
  <1>5. CASE x = c
    <2>1. Before /\ (OffAhead(x) => OffAhead(x)') /\ (OffIsLate(x) => OffIsLate(x)')
      BY <1>1, <1>2, <1>5, AheadStays DEF Dispatched
    <2>2. /\ queue[c] \in Seq(Event) /\ queue[c] # <<>> /\ queue'[c] = Tail(queue[c])
          /\ t.event = Head(queue[c]) /\ t.state = state[c] /\ state'[c] = t.next
      BY DEF Dispatched
    <2>3. Elements(queue[c]) = {Head(queue[c])} \cup Elements(queue'[c])
      BY <2>2, HeadAndTail
    <2>4. CASE EndsOff(queue[c])
      <3>1. \/ EndsOff(queue'[c])
            \/ t.event = "SwitchOff" /\ "SwitchOn" \notin Elements(queue'[c])
        BY <2>2, <2>4, EndsOffTail
      <3>2. t.event = "SwitchOff" => t.next \in Down
        BY <1>3, TablesSwitchOff DEF Down
      <3>3. QED
        BY <1>5, <2>2, <3>1, <3>2
    <2>5. CASE state[c] \in Down /\ "SwitchOn" \notin Elements(queue[c])
      <3>1. t.event # "SwitchOn" /\ "SwitchOn" \notin Elements(queue'[c])
        BY <2>2, <2>3, <2>5
      <3>2. t.next \in Down
        BY <1>3, <2>2, <2>5, <3>1, TablesSwitchOff
      <3>3. QED
        BY <1>5, <2>2, <3>1, <3>2
    <2>6. QED
      BY <1>5, <2>1, <2>4, <2>5
  <1>6. CASE u # c /\ x # c
    BY <1>1, <1>2, <1>6, AheadStays DEF Dispatched
  <1>7. QED
    BY <1>4, <1>5, <1>6

LEMMA DispatchedOff ==
    ASSUME DownInv, OffInv, NEW c \in Component, NEW t, NEW ok, Dispatched(c, t, ok)
    PROVE  OffInv'
  <1> SUFFICES ASSUME NEW x \in Publisher, state'[Subscriber(x)] = "Off"
               PROVE  \/ OffAhead(x)'
                      \/ OffIsLate(x)'
                      \/ "SwitchOff" \in Elements(queue'[x])
                      \/ state'[x] = "Off"
                      \/ Reporting(x)'
    BY DEF OffInv, OffAhead, OffIsLate, OffCall, Send
  <1> DEFINE u == Subscriber(x)
             Before == \/ OffAhead(x)
                       \/ OffIsLate(x)
                       \/ "SwitchOff" \in Elements(queue[x])
                       \/ state[x] = "Off"
                       \/ Reporting(x)
  <1>1. x \in Component /\ u \in Component /\ u # x /\ u \notin Motor
    BY Subordinates DEF Publisher, Component, Control, Motor
  <1>2. state[u] = "Off" => Before
    BY DEF OffInv, Dispatched
  <1>3. /\ t \in Table(c) /\ ok \in BOOLEAN
        /\ queue[c] \in Seq(Event) /\ queue[c] # <<>> /\ queue'[c] = Tail(queue[c])
        /\ t.event = Head(queue[c]) /\ t.state = state[c] /\ state'[c] = t.next
        /\ todo'[c] = Action(c, t.action, t.event, ok)
        /\ todo[c] = <<>> /\ mail' = mail
    BY DEF Dispatched
  <1>4. Elements(queue[c]) = {t.event} \cup Elements(queue'[c]) /\ Elements(todo[c]) = {}
    BY <1>3, HeadAndTail, TupleElements
  <1>5. ActionFits(c, t.next, t.action, todo'[c])
    BY <1>3, EveryActionFits
  <1>6. CASE u = c
    <2>1. t.next = "Off" /\ state'[x] = state[x] /\ todo'[x] = todo[x] /\ queue'[x] = queue[x]
      BY <1>1, <1>6 DEF Dispatched
    <2>2. CASE t.action # "none"
      BY <1>5, <1>6, <2>1, <2>2 DEF ActionFits, Down, OffAhead, OffCall, Send
    <2>3. CASE t.action = "none"
      <3>1. t.state = "Off" /\ t.event # "ErrorOccurred"
        BY <1>1, <1>3, <1>6, <2>1, <2>3, TablesSwitchOff
      <3>2. Before
        BY <1>2, <1>3, <1>6, <3>1
      <3>3. Reporting(x) => Reporting(x)'
        BY <1>3, <1>4, <1>6, <2>1, <3>1 DEF Reporting
      <3>4. QED
        BY <1>4, <1>6, <2>1, <3>2, <3>3, AheadStays
    <2>4. QED
      BY <2>2, <2>3
  <1>7. CASE x = c
    <2>1. Before /\ state[u] = "Off" /\ todo'[u] = todo[u] /\ queue'[u] = queue[u]
      BY <1>1, <1>2, <1>7 DEF Dispatched
    <2>2. CASE OffAhead(x) \/ OffIsLate(x)
      BY <2>2, AheadStays
    <2>3. CASE "SwitchOff" \in Elements(queue[x])
      <3>1. t.event = "SwitchOff" => t.next = "Off"
        BY <1>3, TablesSwitchOff
      <3>2. QED
        BY <1>3, <1>4, <1>7, <2>3, <3>1
    <2>4. CASE state[x] = "Off" /\ t.event = "SwitchOn"
      <3>1. \/ OffAhead(x)
            \/ OffIsLate(x)
            \/ EndsOff(queue[x])
            \/ "SwitchOn" \notin Elements(queue[x])
        BY <2>1 DEF DownInv, Down, Dispatched
      <3>2. EndsOff(queue[x]) => EndsOff(queue'[x])
        BY <1>3, <1>7, <2>4, EndsOffTail
      <3>3. QED
        BY <1>4, <1>7, <2>1, <2>2, <2>4, <3>1, <3>2, EndsOffHas
    <2>5. CASE state[x] = "Off" /\ t.event = "ErrorOccurred"
      <3>1. t.action = "handleError"
        BY <1>3, <1>7, <2>5, TablesSwitchOff
      <3>2. Notify("ErrorOccurred") \in Elements(todo'[x])
        BY <1>5, <1>7, <3>1 DEF ActionFits
      <3>3. Notify("ErrorOccurred").do = "tell" /\ Notify("ErrorOccurred").notification = "ErrorOccurred"
        BY DEF Notify, Tell
      <3>4. QED
        BY <3>2, <3>3 DEF Reporting
    <2>6. CASE state[x] = "Off" /\ t.event \notin {"SwitchOn", "ErrorOccurred"}
      <3>1. t.next = "Off"
        BY <1>3, <1>7, <2>6, TablesSwitchOff
      <3>2. QED
        BY <1>3, <1>7, <3>1
    <2>7. CASE Reporting(x)
      BY <1>3, <1>4, <1>7, <2>1, <2>7 DEF Reporting
    <2>8. QED
      BY <2>1, <2>2, <2>3, <2>4, <2>5, <2>6, <2>7
  <1>8. CASE u # c /\ x # c
    <2>1. /\ state'[x] = state[x] /\ todo'[x] = todo[x] /\ queue'[x] = queue[x]
          /\ state'[u] = state[u] /\ todo'[u] = todo[u] /\ queue'[u] = queue[u]
      BY <1>1, <1>8 DEF Dispatched
    <2>2. Reporting(x) => Reporting(x)'
      BY <1>3, <2>1 DEF Reporting
    <2>3. QED
      BY <1>2, <2>1, <2>2, AheadStays
  <1>9. QED
    BY <1>6, <1>7, <1>8

LEMMA DispatchedHeaters ==
    ASSUME HeatersInv, NEW c \in Component, NEW t, NEW ok, Dispatched(c, t, ok)
    PROVE  HeatersInv'
  <1> SUFFICES ASSUME NEW h \in Heater
               PROVE  /\ state'[h] = "Error" \/ "ErrorOccurred" \in Elements(queue'[h]) => broken' > 0
                      /\ state'[h] = "Error" /\ h \in driven' => broken' > 1
                      /\ state'[h] = "Off" /\ h \in driven' =>
                            \/ \E s \in Elements(todo'[h]) : s.do = "tell" /\ s.event = "ErrorOccurred"
                            \/ "ErrorOccurred" \in Elements(queue'[h])
    BY DEF HeatersInv
  <1>1. /\ state[h] = "Error" \/ "ErrorOccurred" \in Elements(queue[h]) => broken > 0
        /\ state[h] = "Error" /\ h \in driven => broken > 1
        /\ state[h] = "Off" /\ h \in driven =>
              \/ \E s \in Elements(todo[h]) : s.do = "tell" /\ s.event = "ErrorOccurred"
              \/ "ErrorOccurred" \in Elements(queue[h])
    BY DEF HeatersInv
  <1>2. h \in Component /\ h \notin Motor
    BY DEF Component, Motor, Heater
  <1>3. /\ broken \in Nat /\ broken' = (IF ok THEN broken ELSE broken + 1) /\ ok \in BOOLEAN
        /\ driven' = IF ok /\ c \in Motor \cup Heater THEN DrivenAfter(c, t.action) ELSE driven
    BY DEF Dispatched
  <1>4. (broken > 0 => broken' > 0) /\ (broken > 1 => broken' > 1)
    BY <1>3
  <1>5. CASE h # c
    <2>1. state'[h] = state[h] /\ todo'[h] = todo[h] /\ queue'[h] = queue[h]
      BY <1>2, <1>5 DEF Dispatched
    <2>2. h \in driven' <=> h \in driven
      BY <1>3, <1>5 DEF DrivenAfter
    <2>3. QED
      BY <1>1, <1>4, <2>1, <2>2
  <1>6. CASE h = c
    <2>1. /\ t \in Table(h)
          /\ queue[h] \in Seq(Event) /\ queue[h] # <<>> /\ queue'[h] = Tail(queue[h])
          /\ t.event = Head(queue[h]) /\ t.state = state[h] /\ state'[h] = t.next
          /\ todo'[h] = Action(h, t.action, t.event, ok)
          /\ todo[h] = <<>>
          /\ ~ok => t.action # "none"
      BY <1>2, <1>6 DEF Dispatched, CanFail, Heater
    <2>2. Elements(queue[h]) = {t.event} \cup Elements(queue'[h]) /\ Elements(todo[h]) = {}
      BY <2>1, HeadAndTail, TupleElements
    <2>3. /\ t.next = "Error" => t.event = "ErrorOccurred"
          /\ t.event = "ErrorOccurred" => t.next = "Error"
          /\ t.next = "Error" => t.action = "handleError" \/ (t.action = "none" /\ t.state = "Error")
          /\ t.next = "Off" => t.action = "switchOff" \/ (t.action = "none" /\ t.state = "Off")
      BY <1>2, <2>1, TablesSwitchOff
    <2>4. state'[h] = "Error" \/ "ErrorOccurred" \in Elements(queue'[h]) => broken > 0
      BY <1>1, <2>1, <2>2, <2>3
    <2>5. /\ ok /\ t.action \in {"handleError", "switchOff"} => h \notin driven'
          /\ ok /\ t.action = "none" => driven' = driven
      BY <1>3, <1>6 DEF DrivenAfter
    <2>6. ASSUME state'[h] = "Error", h \in driven' PROVE broken' > 1
      <3>1. CASE ok
        BY <1>1, <1>4, <2>1, <2>3, <2>5, <2>6, <3>1
      <3>2. CASE ~ok
        BY <1>3, <2>4, <2>6, <3>2
      <3>3. QED
        BY <3>1, <3>2
    <2>7. ASSUME state'[h] = "Off", h \in driven'
          PROVE  \/ \E s \in Elements(todo'[h]) : s.do = "tell" /\ s.event = "ErrorOccurred"
                 \/ "ErrorOccurred" \in Elements(queue'[h])
      <3>1. CASE t.action = "switchOff"
        <4>1. ~ok
          BY <1>3, <2>5, <2>7, <3>1
        <4>2. Push("ErrorOccurred") \in Elements(todo'[h])
          BY <1>3, <2>1, <3>1, <4>1, DeviceActionFits
        <4>3. Push("ErrorOccurred").do = "tell" /\ Push("ErrorOccurred").event = "ErrorOccurred"
          BY DEF Push, Tell
        <4>4. QED
          BY <4>2, <4>3
      <3>2. CASE t.action = "none" /\ t.state = "Off"
        <4>1. ok /\ h \in driven
          BY <1>3, <2>1, <2>5, <2>7, <3>2
        <4>2. "ErrorOccurred" \in Elements(queue[h])
          BY <1>1, <2>1, <2>2, <3>2, <4>1
        <4>3. QED
          BY <2>1, <2>2, <2>3, <2>7, <4>2
      <3>3. QED
        BY <2>1, <2>3, <2>7, <3>1, <3>2
    <2>8. QED
      BY <1>4, <2>4, <2>6, <2>7
  <1>7. QED
    BY <1>5, <1>6

LEMMA DispatchKeepsOff ==
    ASSUME IInv, SwitchOffInv, NEW c \in Component, Dispatch(c)
    PROVE  SwitchOffInv'
  <1>1. PICK t, ok : Dispatched(c, t, ok)
    BY DispatchIs
  <1>2. StepsInv' /\ LateOnInv' /\ DownInv' /\ OffInv' /\ HeatersInv'
    BY <1>1, DispatchedSteps, DispatchedLateOn, DispatchedDown, DispatchedOff, DispatchedHeaters
    DEF SwitchOffInv
  <1>3. IoInv' /\ LateFits'
    BY <1>1 DEF Dispatched, SwitchOffInv, IoInv, LateFits
  <1>4. QED
    BY <1>2, <1>3 DEF SwitchOffInv

LEMMA InitOff == Init => SwitchOffInv
  <1> SUFFICES ASSUME Init PROVE SwitchOffInv
    OBVIOUS
  <1>1. \A c \in Component : Elements(todo[c]) = {} /\ Elements(queue[c]) = {} /\ state[c] = "Off"
    BY TupleElements DEF Init
  <1>2. Publisher \subseteq Component /\ Heater \subseteq Component
    BY DEF Publisher, Component
  <1>3. StepsInv /\ IoInv /\ LateFits /\ LateOnInv
    BY <1>1 DEF StepsInv, IoInv, LateFits, LateOnInv, Init
  <1>4. DownInv /\ OffInv
    BY <1>1, <1>2 DEF DownInv, OffInv, Down
  <1>5. HeatersInv
    BY <1>1, <1>2 DEF HeatersInv, Init
  <1>6. QED
    BY <1>3, <1>4, <1>5 DEF SwitchOffInv

LEMMA StepKeepsOff == IInv /\ SwitchOffInv /\ AllHaveRoom /\ [Next]_vars => SwitchOffInv'
  <1> SUFFICES ASSUME IInv, SwitchOffInv, AllHaveRoom, [Next]_vars PROVE SwitchOffInv'
    OBVIOUS
  <1>1. ASSUME NEW c \in Component, WorkerStep(c) PROVE SwitchOffInv'
    BY <1>1, DispatchKeepsOff, DispatchFailsKeepsOff, TellsKeepsOff, SendsKeepsOff DEF WorkerStep
  <1>2. ASSUME NEW c \in Component, IoPushes(c) PROVE SwitchOffInv'
    BY <1>2, IoPushesKeepsOff
  <1>3. ASSUME NEW p \in Publisher, Delivers(p) PROVE SwitchOffInv'
    BY <1>3, DeliversKeepsOff
  <1>4. ASSUME NEW o \in late, HandlesLate(o) PROVE SwitchOffInv'
    BY <1>4, HandlesLateKeepsOff
  <1>5. CASE UserOrders
    BY <1>5, UserOrdersKeepsOff
  <1>6. ASSUME NEW h \in Heater, NEW e \in Temperature, TemperatureReported(h, e)
        PROVE  SwitchOffInv'
    BY <1>6, TemperatureReportedKeepsOff
  <1>7. ASSUME NEW n \in Tension, TensionReported(n) PROVE SwitchOffInv'
    BY <1>7, TensionReportedKeepsOff
  <1>8. CASE UNCHANGED vars
    <2>1. UNCHANGED <<state, queue, todo, io, mail, driven, jammed, late, missed, broken>>
      BY <1>8 DEF vars, control, hardware, calls, budget
    <2>2. \A c \in Component : io'[c] \notin {"SwitchOn", "ErrorOccurred"}
      BY <2>1 DEF SwitchOffInv, IoInv
    <2>3. QED
      BY <2>1, <2>2, UnchangedKeeps, OthersKeepOff
  <1>9. QED
    BY <1>1, <1>2, <1>3, <1>4, <1>5, <1>6, <1>7, <1>8 DEF Next, ThreadStep

\* When nothing is under way, switching off has reached everybody whom it could reach.
LEMMA QuietOff ==
    ASSUME IInv, SwitchOffInv, Quiet
    PROVE  /\ state["MachineControl"] \in Down =>
                 \A c \in Component : state[c] \in Down \/ NotToldOff(c)
           /\ state["MachineControl"] = "Off" =>
                 \A c \in Component : state[c] = "Off" \/ NotToldOff(c)
           /\ broken <= 1 /\ state["MachineControl"] \in Down =>
                 \A h \in driven \cap Heater : NotToldOff(h)
  <1>1. /\ \A c \in Component : Elements(todo[c]) = {} /\ Elements(queue[c]) = {}
        /\ \A p \in Publisher : Elements(mail[p]) = {}
        /\ late = {}
    BY TupleElements DEF Quiet, Idle
  <1>2. \A c \in Component : ~EndsOff(queue[c])
    BY <1>1, EndsOffHas
  <1>3. \A c \in Publisher : c \in Component /\ Subscriber(c) \in Component
    BY DEF Publisher, Subscriber, Component, Control
  <1>4. ASSUME NEW c \in Publisher
        PROVE  /\ state[Subscriber(c)] \in Down => state[c] \in Down \/ c \in missed
               /\ state[Subscriber(c)] = "Off" => state[c] = "Off" \/ c \in missed
    BY <1>1, <1>2, <1>3 DEF SwitchOffInv, DownInv, OffInv, OffAhead, OffIsLate, Reporting
  <1>5. ASSUME NEW S, state["MachineControl"] \in S,
               \A c \in Publisher : state[Subscriber(c)] \in S => state[c] \in S \/ c \in missed
        PROVE  \A c \in Component : state[c] \in S \/ NotToldOff(c)
    <2>1. \A c \in {"FilamentMergerControl", "FilamentCoilControl"} :
              c \in Publisher /\ (state[c] \in S \/ c \in missed)
      BY <1>5, Subordinates DEF Component, Control
    <2>2. \A c \in Publisher : \/ Subscriber(c) = "MachineControl"
                               \/ Subscriber(c) \in {"FilamentMergerControl", "FilamentCoilControl"}
      BY <1>3, Subordinates DEF Control
    <2>3. ASSUME NEW c \in Publisher PROVE state[c] \in S \/ NotToldOff(c)
      BY <1>5, <2>1, <2>2 DEF NotToldOff
    <2>4. QED
      BY <1>5, <2>3 DEF Publisher
  <1>6. state["MachineControl"] \in Down => \A c \in Component : state[c] \in Down \/ NotToldOff(c)
    BY <1>4, <1>5
  <1>7. state["MachineControl"] = "Off" => \A c \in Component : state[c] = "Off" \/ NotToldOff(c)
    <2>1. ASSUME state["MachineControl"] \in {"Off"}
          PROVE  \A c \in Component : state[c] \in {"Off"} \/ NotToldOff(c)
      BY <1>4, <1>5, <2>1
    <2>2. QED
      BY <2>1
  <1>8. ASSUME broken <= 1, state["MachineControl"] \in Down, NEW h \in Heater, h \in driven,
               ~NotToldOff(h)
        PROVE  FALSE
    <2>1. broken \in Nat
      BY DEF IInv, MachineInvariant, TypeOK, Scenario
    <2>2. h \in Component /\ state[h] \in {"Off", "Error"} /\ ~(broken > 1)
      BY <1>6, <1>8, <2>1 DEF Down, Component
    <2>3. /\ state[h] = "Error" /\ h \in driven => broken > 1
          /\ state[h] = "Off" /\ h \in driven =>
                \/ \E s \in Elements(todo[h]) : s.do = "tell" /\ s.event = "ErrorOccurred"
                \/ "ErrorOccurred" \in Elements(queue[h])
      BY DEF SwitchOffInv, HeatersInv
    <2>4. Elements(todo[h]) = {} /\ Elements(queue[h]) = {}
      BY <1>1, <2>2
    <2>5. QED
      BY <1>8, <2>2, <2>3, <2>4
  <1>9. QED
    BY <1>6, <1>7, <1>8

LEMMA MotorsFinite == IsFiniteSet(Motor)
  <1>1. IsFiniteSet({"FilamentFeederMotor"})
    BY FS_Singleton
  <1>2. Motor = {"FilamentFeederMotor"} \cup {"FilamentCoilMotor"}
    BY DEF Motor
  <1>3. QED
    BY <1>1, <1>2, FS_AddElement

LEMMA HeatersFinite == IsFiniteSet(Heater)
  <1>1. IsFiniteSet({"FilamentMergerHeater"})
    BY FS_Singleton
  <1>2. Heater = {"FilamentMergerHeater"} \cup {"FilamentPreHeater"}
    BY DEF Heater
  <1>3. QED
    BY <1>1, <1>2, FS_AddElement

\* Without a failure of the hardware every device does what its state says.
LEMMA NoneAstray ==
    ASSUME IInv, broken = 0
    PROVE  driven = AtWork
  <1>1. driven \subseteq Motor \cup Heater /\ AtWork \subseteq Motor \cup Heater
    BY DEF IInv, MachineInvariant, TypeOK, AtWork
  <1>2. IsFiniteSet(Astray)
    BY <1>1, MotorsFinite, HeatersFinite, FS_Union, FS_Subset DEF Astray
  <1>3. Cardinality(Astray) <= 0
    BY DEF IInv, MachineInvariant, HardwareFollowsStates, Astray
  <1>4. Astray = {}
    BY <1>2, <1>3, FS_CardinalityType, FS_EmptySet
  <1>5. QED
    BY <1>4 DEF Astray

\* Whatever the user orders, without waiting as well, whatever the sensors report, however
\* many requests get lost, time out or are refused, and at most one call of the hardware
\* fails: when the machine has settled in Off or Error, what was started is switched off
\* again, but for what a failed SwitchOff did not get to, and a motor that did not obey.
\* Notifications and answered requests are assumed to reach the queues: no queue is about
\* to be full, since a full one drops an error on its way up (MachineControl.cpp:186-214,
\* 259-269, FilamentMergerHeater.cpp:112-127, ControlService.hpp:85-98).
THEOREM OffIsSafeHolds == Spec /\ []AllHaveRoom => [](broken <= 1 => OffIsSafe)
  <1>1. IInv /\ SwitchOffInv => (broken <= 1 => OffIsSafe)
    <2> SUFFICES ASSUME IInv, SwitchOffInv, broken <= 1, Quiet
                 PROVE  /\ state["MachineControl"] \in Down =>
                              \A d \in driven : NotToldOff(d) \/ (d \in Motor /\ broken > 0)
                        /\ state["MachineControl"] = "Off" =>
                              \A c \in Component : state[c] = "Off" \/ NotToldOff(c)
      BY DEF OffIsSafe, At, Down
    <2>1. ASSUME state["MachineControl"] \in Down, NEW d \in driven, ~NotToldOff(d)
          PROVE  d \in Motor /\ broken > 0
      <3>1. d \in Motor \cup Heater /\ d \notin Heater
        BY <2>1, QuietOff DEF IInv, MachineInvariant, TypeOK
      <3>2. d \in Component /\ state[d] \in Down
        BY <2>1, <3>1, QuietOff DEF Component
      <3>3. d \notin AtWork
        BY <3>2 DEF AtWork, Down
      <3>4. broken # 0
        BY <2>1, <3>3, NoneAstray
      <3>5. broken \in Nat
        BY DEF IInv, MachineInvariant, TypeOK, Scenario
      <3>6. QED
        BY <3>1, <3>4, <3>5
    <2>2. QED
      BY <2>1, QuietOff
  <1>2. QED
    BY <1>1, InitHolds, StepKeeps, InitOff, StepKeepsOff, PTL DEF Spec

\* However many requests and calls of the hardware fail: when the machine has settled in
\* Off, every component is off, so that it can be switched on again, but for those that a
\* failed SwitchOff did not get to (MachineControl.cpp:259-269).
THEOREM OffReachesAll ==
    Spec /\ []AllHaveRoom =>
        [](Quiet /\ At("MachineControl", "Off") =>
              \A c \in Component : At(c, "Off") \/ NotToldOff(c))
  <1>1. IInv /\ SwitchOffInv =>
            (Quiet /\ At("MachineControl", "Off") =>
                \A c \in Component : At(c, "Off") \/ NotToldOff(c))
    BY QuietOff DEF At
  <1>2. QED
    BY <1>1, InitHolds, StepKeeps, InitOff, StepKeepsOff, PTL DEF Spec
-----------------------------------------------------------------------------
(***************************************************************************)
(* Telling the truth.  MachineControl tells where it goes before it is     *)
(* there, in the step that pushes the event that takes it there.           *)
(***************************************************************************)
\* The orders that a user gives when the machine has settled: all but those to stop and
\* to switch off.
Waited == Order \ {"SwitchOff", "Stop"}

\* MachineControl's queue, the rest of its action and its state, and the events by which
\* it learns that it has arrived.
Orders == queue["MachineControl"]
Rest == todo["MachineControl"]
Place == state["MachineControl"]
Arrivals == {"StartingSucceeded", "StoppingSucceeded"}

\* An order that waits finds MachineControl at rest.
OrdersInv ==
    /\ Orders # <<>> =>
          /\ Elements(Tail(Orders)) \cap Waited = {}
          /\ Head(Orders) \in Waited => Rest = <<>> /\ Elements(Orders) \cap Arrivals = {}
    /\ io["MachineControl"] \notin Waited \cup Arrivals

\* The event that ends a start or a stop is handled in the course of it, or when the
\* machine has failed or is off, and meanwhile nothing else is told.
ArrivalsInv ==
    /\ "StartingSucceeded" \in Elements(Orders) =>
          \/ Place \in {"Starting", "Running"} /\ told = "Running"
          \/ Place \in {"Stopping", "Stopped"} \cup Down
    /\ "StoppingSucceeded" \in Elements(Orders) =>
          \/ Place \in {"Stopping", "Stopped"} /\ told = "Stopped"
          \/ Place \in Down
    /\ Notify("Starting") \in Elements(Rest) =>
          /\ "StartingSucceeded" \notin Elements(Orders)
          /\ Tell("StartingSucceeded", "Running") \notin Elements(Rest)

\* What an action of MachineControl that leads to a place may tell, and how its requests
\* may fail.
Tellable(place, s) ==
    CASE place = "Off" -> s = Notify("SwitchedOff")
      [] place = "Error" -> s = Notify("ErrorOccurred")
      [] place = "Stopped" -> s = Notify("Stopped")
      [] place = "HeatingUp" -> s \in {Notify("HeatingUp"), Push("ErrorOccurred")}
      [] place = "Starting" -> s \in {Notify("Starting"), Push("ErrorOccurred"),
                                      Tell("StartingSucceeded", "Running")}
      [] place = "Stopping" -> s \in {Push("ErrorOccurred"), Tell("StoppingSucceeded", "Stopped")}
      [] place = "Initialization" -> s \in {Push("ErrorOccurred"), Push("SwitchOnSucceeded")}
      [] OTHER -> FALSE

SaysFit(place, s) ==
    /\ s.do = "tell" => Tellable(place, s)
    /\ s.do = "send" =>
          /\ place \notin {"Stopped", "Running"}
          /\ place \in Down => s.fails = "ignore"
          /\ place = "HeatingUp" => s.fails # "return"

RestInv == \A s \in Elements(Rest) : SaysFit(Place, s)

\* Where it is has been told, or is about to be, unless an error is about to be handled.
ToldInv ==
    /\ Place = "Off" => Notify("SwitchedOff") \in Elements(Rest) \/ told \in {"none", "SwitchedOff"}
    /\ Place = "Error" => Notify("ErrorOccurred") \in Elements(Rest) \/ told = "ErrorOccurred"
    /\ Place = "Stopped" => Notify("Stopped") \in Elements(Rest) \/ told = "Stopped"
    /\ Place = "HeatingUp" => Notify("HeatingUp") \in Elements(Rest) \/ told = "HeatingUp"
    /\ Place = "Starting" =>
          \/ Notify("Starting") \in Elements(Rest)
          \/ told = "Starting"
          \/ "StartingSucceeded" \in Elements(Orders)
          \/ Push("ErrorOccurred") \in Elements(Rest)
          \/ "ErrorOccurred" \in Elements(Orders)
    /\ Place = "Running" => told = "Running"

TruthInv == OrdersInv /\ ArrivalsInv /\ RestInv /\ ToldInv

\* The entries of MachineControl's table.
LEMMA MachineEntries ==
    ASSUME NEW t \in MachineTable
    PROVE  \/ (t.event = "SwitchOff" /\ t.next = "Off" /\ t.state = "Off" /\ t.action = "none")
           \/ (t.event = "SwitchOff" /\ t.next = "Off" /\ t.action = "switchOff")
           \/ (t.event = "ErrorOccurred" /\ t.next = "Error" /\ t.state = "Error" /\ t.action = "none")
           \/ (t.event = "ErrorOccurred" /\ t.next = "Error" /\ t.action = "handleError")
           \/ (t.event = "SwitchOn" /\ t.next = "Initialization" /\ t.action = "switchOn")
           \/ (t.event = "Start" /\ t.next = "HeatingUp" /\ t.action = "startHeating")
           \/ (t.event = "StartHeatless" /\ t.next = "Starting" /\ t.state = "Stopped"
                 /\ t.action = "startMachine")
           \/ (t.event = "MergerHeatedUp" /\ t.next = "Starting" /\ t.state = "HeatingUp"
                 /\ t.action = "startMachine")
           \/ (t.event = "Stop" /\ t.next = "Stopping" /\ t.state \in {"HeatingUp", "Starting", "Running"}
                 /\ t.action = "stopMachine")
           \/ (t.event = "CheckStartingState" /\ t.next = "Starting" /\ t.state = "Starting"
                 /\ t.action = "checkStartingState")
           \/ (t.event = "CheckStoppingState" /\ t.next = "Stopping" /\ t.state = "Stopping"
                 /\ t.action = "checkStoppingState")
           \/ (t.event = "SwitchOnSucceeded" /\ t.next = "Stopped" /\ t.state = "Initialization"
                 /\ t.action = "notifyStopped")
           \/ (t.event = "StartingSucceeded" /\ t.next = "Running" /\ t.action = "none"
                 /\ t.state \in {"Starting", "Running"})
           \/ (t.event = "StoppingSucceeded" /\ t.next = "Stopped" /\ t.state = "Stopping"
                 /\ t.action = "none")
           \/ (t.event = "CheckStoppingState" /\ t.next = "Stopped" /\ t.state = "Stopped"
                 /\ t.action = "none")
  <1>1. CASE t \in ErrorEntries(MachineStates)
    <2>1. CASE t \in On({"Off"}, "SwitchOff", "Off", "none")
      BY <2>1, EntryForm
    <2>2. CASE t \in On(MachineStates \ {"Error"}, "ErrorOccurred", "Error", "handleError")
      BY <2>2, EntryForm
    <2>3. CASE t \in On({"Error"}, "ErrorOccurred", "Error", "none")
      BY <2>3, EntryForm
    <2>4. QED
      BY <1>1, <2>1, <2>2, <2>3 DEF ErrorEntries
  <1>2. CASE t \in On({"Off"}, "SwitchOn", "Initialization", "switchOn")
    BY <1>2, EntryForm
  <1>3. CASE t \in On(MachineStates \ {"Off"}, "SwitchOff", "Off", "switchOff")
    BY <1>3, EntryForm
  <1>4. CASE t \notin CommonEntries(MachineStates)
    BY <1>4, EntryForm DEF MachineTable
  <1>5. QED
    BY <1>1, <1>2, <1>3, <1>4 DEF CommonEntries

\* What an action of MachineControl tells, and how it fits the transition.
TellsFit(t, A) ==
    /\ \A s \in Elements(A) : SaysFit(t.next, s)
    /\ t.next = "Off" => t.state = "Off" \/ Notify("SwitchedOff") \in Elements(A)
    /\ t.next = "Error" => t.state = "Error" \/ Notify("ErrorOccurred") \in Elements(A)
    /\ t.next = "Stopped" => \/ t.state = "Stopped" \/ Notify("Stopped") \in Elements(A)
                             \/ (t.state = "Stopping" /\ t.event = "StoppingSucceeded")
    /\ t.next = "HeatingUp" => Notify("HeatingUp") \in Elements(A)
    /\ t.next = "Starting" => \/ Notify("Starting") \in Elements(A)
                              \/ (t.state = "Starting" /\ t.event = "CheckStartingState")
    /\ Notify("Starting") \in Elements(A) =>
          /\ t.state = "HeatingUp" \/ t.event = "StartHeatless"
          /\ Tell("StartingSucceeded", "Running") \notin Elements(A)

LEMMA MachineTellsFit ==
    ASSUME NEW t \in MachineTable
    PROVE  TellsFit(t, MachineAction(t.action, t.event))
  <1> DEFINE A == MachineAction(t.action, t.event)
  <1>1. /\ \A e, n : Tell(e, n).do = "tell" /\ Tell(e, n).event = e /\ Tell(e, n).notification = n
        /\ \A e : Push(e).do = "tell" /\ Push(e).event = e /\ Push(e).notification = "none"
        /\ \A n : Notify(n).do = "tell" /\ Notify(n).event = "none" /\ Notify(n).notification = n
        /\ \A d, r, f : Send(d, r, f).do = "send" /\ Send(d, r, f).fails = f
        /\ \A d : OffCall(d).do = "send" /\ OffCall(d).fails = "ignore"
    BY DEF Tell, Push, Notify, Send, OffCall
  <1>2. CASE t.action = "none"
    <2>1. Elements(A) = {}
      BY <1>2, TupleElements DEF MachineAction
    <2>2. QED
      BY <1>2, <2>1, MachineEntries DEF TellsFit
  <1>3. CASE t.action = "switchOff"
    <2>1. A = Append(MachineSwitchOff, Notify("SwitchedOff"))
      BY <1>3 DEF MachineAction
    <2>2. Elements(A) = {OffCall("FilamentMergerControl"), OffCall("FilamentCoilControl"),
                         Notify("SwitchedOff")}
      BY <2>1, JoinedTuples DEF MachineSwitchOff, SwitchOffComponent, OffCall
    <2>3. t.next = "Off"
      BY <1>3, MachineEntries
    <2>4. \A s \in Elements(A) : SaysFit("Off", s) /\ s # Notify("Starting")
      BY <1>1, <2>2 DEF SaysFit, Tellable, Down
    <2>5. QED
      BY <2>2, <2>3, <2>4 DEF TellsFit
  <1>4. CASE t.action = "handleError"
    <2>1. A = Append(MachineSwitchOff, Notify("ErrorOccurred"))
      BY <1>4 DEF MachineAction
    <2>2. Elements(A) = {OffCall("FilamentMergerControl"), OffCall("FilamentCoilControl"),
                         Notify("ErrorOccurred")}
      BY <2>1, JoinedTuples DEF MachineSwitchOff, SwitchOffComponent, OffCall
    <2>3. t.next = "Error"
      BY <1>4, MachineEntries
    <2>4. \A s \in Elements(A) : SaysFit("Error", s) /\ s # Notify("Starting")
      BY <1>1, <2>2 DEF SaysFit, Tellable, Down
    <2>5. QED
      BY <2>2, <2>3, <2>4 DEF TellsFit
  <1>5. CASE t.action = "switchOn"
    <2>1. A = << Send("FilamentMergerControl", "SwitchOn", "return"),
                 Send("FilamentCoilControl", "SwitchOn", "return"),
                 Push("SwitchOnSucceeded") >>
      BY <1>5 DEF MachineAction
    <2>2. Elements(A) = {Send("FilamentMergerControl", "SwitchOn", "return"),
                         Send("FilamentCoilControl", "SwitchOn", "return"),
                         Push("SwitchOnSucceeded")}
      BY <2>1, TupleElements
    <2>3. t.next = "Initialization"
      BY <1>5, MachineEntries
    <2>4. \A s \in Elements(A) : SaysFit("Initialization", s) /\ s # Notify("Starting")
      BY <1>1, <2>2 DEF SaysFit, Tellable, Down
    <2>5. QED
      BY <2>3, <2>4 DEF TellsFit
  <1>6. CASE t.action = "startHeating"
    <2>1. A = << Send("FilamentMergerControl", "StartHeating", "continue"), Notify("HeatingUp") >>
      BY <1>6 DEF MachineAction
    <2>2. Elements(A) = {Send("FilamentMergerControl", "StartHeating", "continue"),
                         Notify("HeatingUp")}
      BY <2>1, TupleElements
    <2>3. t.next = "HeatingUp"
      BY <1>6, MachineEntries
    <2>4. \A s \in Elements(A) : SaysFit("HeatingUp", s) /\ s # Notify("Starting")
      BY <1>1, <2>2 DEF SaysFit, Tellable, Down
    <2>5. QED
      BY <2>2, <2>3, <2>4 DEF TellsFit
  <1>7. CASE t.action = "startMachine"
    <2>1. PICK r : A = << Send("FilamentMergerControl", "SetMotorSpeed", "return"),
                          Send("FilamentMergerControl", "StartFeeding", "return"),
                          Send("FilamentCoilControl", "SetMotorSpeed", "return"),
                          Send("FilamentCoilControl", r, "return"),
                          Notify("Starting") >>
      BY <1>7 DEF MachineAction, StartMachine
    <2>2. Elements(A) = {Send("FilamentMergerControl", "SetMotorSpeed", "return"),
                         Send("FilamentMergerControl", "StartFeeding", "return"),
                         Send("FilamentCoilControl", "SetMotorSpeed", "return"),
                         Send("FilamentCoilControl", r, "return"),
                         Notify("Starting")}
      BY <2>1, TupleElements
    <2>3. t.next = "Starting" /\ (t.state = "HeatingUp" \/ t.event = "StartHeatless")
      BY <1>7, MachineEntries
    <2>4. \A s \in Elements(A) : s.do = "send" \/ s = Notify("Starting")
      BY <1>1, <2>2
    <2>5. \A s \in Elements(A) : SaysFit("Starting", s)
      BY <1>1, <2>4 DEF SaysFit, Tellable, Down
    <2>6. Tell("StartingSucceeded", "Running") \notin Elements(A)
      BY <1>1, <2>4
    <2>7. QED
      BY <2>2, <2>3, <2>5, <2>6 DEF TellsFit
  <1>8. CASE t.action = "stopMachine"
    <2>1. A = << Send("FilamentMergerControl", "StopFeeding", "return"),
                 Send("FilamentCoilControl", "StopCoil", "return") >>
      BY <1>8 DEF MachineAction
    <2>2. Elements(A) = {Send("FilamentMergerControl", "StopFeeding", "return"),
                         Send("FilamentCoilControl", "StopCoil", "return")}
      BY <2>1, TupleElements
    <2>3. t.next = "Stopping"
      BY <1>8, MachineEntries
    <2>4. \A s \in Elements(A) : SaysFit("Stopping", s) /\ s # Notify("Starting")
      BY <1>1, <2>2 DEF SaysFit, Tellable, Down
    <2>5. QED
      BY <2>3, <2>4 DEF TellsFit
  <1>9. CASE t.action = "checkStartingState"
    <2>1. A = <<>> \/ A = << Tell("StartingSucceeded", "Running") >>
      BY <1>9 DEF MachineAction, CheckStartingState
    <2>2. Elements(A) = {} \/ Elements(A) = {Tell("StartingSucceeded", "Running")}
      BY <2>1, TupleElements
    <2>3. t.next = "Starting" /\ t.state = "Starting" /\ t.event = "CheckStartingState"
      BY <1>9, MachineEntries
    <2>4. \A s \in Elements(A) : SaysFit("Starting", s) /\ s # Notify("Starting")
      BY <1>1, <2>2 DEF SaysFit, Tellable, Down
    <2>5. QED
      BY <2>3, <2>4 DEF TellsFit
  <1>10. CASE t.action = "checkStoppingState"
    <2>1. A = <<>> \/ A = << Tell("StoppingSucceeded", "Stopped") >>
      BY <1>10 DEF MachineAction, CheckStoppingState
    <2>2. Elements(A) = {} \/ Elements(A) = {Tell("StoppingSucceeded", "Stopped")}
      BY <2>1, TupleElements
    <2>3. t.next = "Stopping"
      BY <1>10, MachineEntries
    <2>4. \A s \in Elements(A) : SaysFit("Stopping", s) /\ s # Notify("Starting")
      BY <1>1, <2>2 DEF SaysFit, Tellable, Down
    <2>5. QED
      BY <2>3, <2>4 DEF TellsFit
  <1>11. CASE t.action = "notifyStopped"
    <2>1. A = << Notify("Stopped") >>
      BY <1>11 DEF MachineAction
    <2>2. Elements(A) = {Notify("Stopped")}
      BY <2>1, TupleElements
    <2>3. t.next = "Stopped"
      BY <1>11, MachineEntries
    <2>4. \A s \in Elements(A) : SaysFit("Stopped", s) /\ s # Notify("Starting")
      BY <1>1, <2>2 DEF SaysFit, Tellable, Down
    <2>5. QED
      BY <2>2, <2>3, <2>4 DEF TellsFit
  <1>12. QED
    BY <1>2, <1>3, <1>4, <1>5, <1>6, <1>7, <1>8, <1>9, <1>10, <1>11, MachineEntries

-----------------------------------------------------------------------------
(* Every step keeps what MachineControl tells in line with where it is. *)

\* What may be left of an action, whether or not queues refuse events.
LEMMA StepsStay == IInv /\ StepsInv /\ [Next]_vars => StepsInv'
  <1> SUFFICES ASSUME IInv, StepsInv, [Next]_vars PROVE StepsInv'
    OBVIOUS
  <1>1. ASSUME UNCHANGED <<state, todo, broken>> PROVE StepsInv'
    BY <1>1, StepsKeep
  <1>2. ASSUME NEW c \in Component, Dispatch(c) PROVE StepsInv'
    BY <1>2, DispatchIs, DispatchedSteps
  <1>3. ASSUME NEW c \in Component, Tells(c) PROVE StepsInv'
    <2>1. /\ Goes(c) /\ ~Idle(c)
          /\ UNCHANGED <<state, broken>>
      BY <1>3 DEF Tells, AtStep, budget
    <2>2. \A d \in Component : Elements(todo'[d]) \subseteq Elements(todo[d])
      BY <2>1, RestOf
    <2>3. QED
      BY <2>1, <2>2, StepsKeep
  <1>4. ASSUME NEW c \in Component, Sends(c) PROVE StepsInv'
    <2>1. /\ Goes(c) \/ Fails(c)
          /\ ~Idle(c) /\ Head(todo[c]).do = "send"
          /\ UNCHANGED <<state, broken>>
      BY <1>4, SendsForm DEF Sends
    <2>2. /\ Head(todo[c]) \in Elements(todo[c])
          /\ \A d \in Component : d # c => todo'[d] = todo[d]
          /\ Elements(todo'[c]) \subseteq Elements(todo[c]) \cup {Push("ErrorOccurred")}
      BY <2>1, RestOf
    <2>3. c \in Control
      BY <2>1, <2>2 DEF StepsInv, StepFits, Subscriber, Control
    <2>4. QED
      BY <2>1, <2>2, <2>3, StepsKeep
  <1>5. CASE UNCHANGED vars
    BY <1>1, <1>5 DEF vars, control, budget
  <1>6. ASSUME NEW c \in Component, DispatchFails(c) \/ IoPushes(c) PROVE StepsInv'
    BY <1>1, <1>6 DEF DispatchFails, IoPushes, budget
  <1>7. ASSUME NEW p \in Publisher, Delivers(p) PROVE StepsInv'
    BY <1>1, <1>7 DEF Delivers, budget
  <1>8. CASE UserOrders
    BY <1>1, <1>8 DEF UserOrders
  <1>9. ASSUME NEW h, NEW e, TemperatureReported(h, e) PROVE StepsInv'
    BY <1>1, <1>9 DEF TemperatureReported
  <1>10. ASSUME NEW n, TensionReported(n) PROVE StepsInv'
    BY <1>1, <1>10 DEF TensionReported
  <1>11. ASSUME NEW o \in late, HandlesLate(o) PROVE StepsInv'
    BY <1>1, <1>11 DEF HandlesLate, budget
  <1>12. QED
    BY <1>2, <1>3, <1>4, <1>5, <1>6, <1>7, <1>8, <1>9, <1>10, <1>11
    DEF Next, ThreadStep, WorkerStep

\* What was given up, whether or not queues refuse events.
LEMMA LateStays == IInv /\ StepsInv /\ LateFits /\ [Next]_vars => LateFits'
  <1> SUFFICES ASSUME IInv, StepsInv, LateFits, [Next]_vars PROVE LateFits'
    OBVIOUS
  <1>1. ASSUME UNCHANGED <<jammed, late>> PROVE LateFits'
    BY <1>1 DEF LateFits
  <1>2. ASSUME NEW c \in Component, WorkerStep(c) \/ IoPushes(c) PROVE LateFits'
    <2>1. CASE Sends(c)
      BY <2>1, SendsLateFits
    <2>2. CASE Dispatch(c)
      BY <1>1, <2>2 DEF Dispatch
    <2>3. CASE DispatchFails(c) \/ Tells(c) \/ IoPushes(c)
      BY <1>1, <2>3 DEF DispatchFails, Tells, IoPushes, calls
    <2>4. QED
      BY <1>2, <2>1, <2>2, <2>3 DEF WorkerStep
  <1>3. ASSUME NEW o \in late, HandlesLate(o) PROVE LateFits'
    BY <1>3, HandlesLateFits
  <1>4. ASSUME NEW p \in Publisher, Delivers(p) PROVE LateFits'
    BY <1>1, <1>4 DEF Delivers, calls
  <1>5. CASE UserOrders
    BY <1>1, <1>5 DEF UserOrders, calls
  <1>6. ASSUME NEW h, NEW e, TemperatureReported(h, e) PROVE LateFits'
    BY <1>1, <1>6 DEF TemperatureReported, calls
  <1>7. ASSUME NEW n, TensionReported(n) PROVE LateFits'
    BY <1>1, <1>7 DEF TensionReported, calls
  <1>8. CASE UNCHANGED vars
    BY <1>1, <1>8 DEF vars, calls
  <1>9. QED
    BY <1>2, <1>3, <1>4, <1>5, <1>6, <1>7, <1>8 DEF Next, ThreadStep

\* A component only asks components other than MachineControl.
LEMMA NobodyAsks ==
    ASSUME IInv, NEW t \in Publisher, NEW r \in Request,
           queue' = queue \/ (PushesEvent(r) /\ queue' = Pushed(t, EventOf(r)))
    PROVE  queue'["MachineControl"] = queue["MachineControl"]
  <1>1. t # "MachineControl"
    BY DEF Publisher
  <1>2. DOMAIN queue = Component /\ "MachineControl" \in Component
    BY DEF IInv, MachineInvariant, TypeOK, Component, Control
  <1>3. QED
    BY <1>1, <1>2 DEF Pushed

LEMMA SendsElsewhere ==
    ASSUME IInv, StepsInv, NEW c \in Component, Sends(c)
    PROVE  queue'["MachineControl"] = queue["MachineControl"]
  <1> DEFINE t == Head(todo[c]).to
             r == Head(todo[c]).what
  <1>1. /\ ~Idle(c) /\ (Goes(c) \/ Fails(c)) /\ Head(todo[c]).do = "send" /\ r \in Request
        /\ queue' = queue \/ (PushesEvent(r) /\ queue' = Pushed(t, EventOf(r)))
    BY SendsForm
  <1>2. Head(todo[c]) \in Elements(todo[c])
    BY <1>1, RestOf
  <1>3. t \in Publisher
    BY <1>1, <1>2 DEF StepsInv, StepFits
  <1>4. QED
    BY <1>1, <1>3, NobodyAsks

\* What the others do leaves MachineControl alone.
LEMMA OthersTell ==
    ASSUME TruthInv, UNCHANGED told,
           state'["MachineControl"] = state["MachineControl"],
           queue'["MachineControl"] = queue["MachineControl"],
           todo'["MachineControl"] = todo["MachineControl"],
           io'["MachineControl"] \notin Waited \cup Arrivals
    PROVE  TruthInv'
  <1>1. OrdersInv'
    BY DEF TruthInv, OrdersInv, Orders, Rest, Waited, Arrivals
  <1>2. ArrivalsInv'
    BY DEF TruthInv, ArrivalsInv, Orders, Rest, Place, Down
  <1>3. RestInv'
    BY DEF TruthInv, RestInv, Rest, Place
  <1>4. ToldInv'
    BY DEF TruthInv, ToldInv, Orders, Rest, Place
  <1>5. QED
    BY <1>1, <1>2, <1>3, <1>4 DEF TruthInv

\* The first and the others of a queue that gets longer.
LEMMA AppendedOrders ==
    ASSUME NEW S, NEW q \in Seq(S), NEW e \in S
    PROVE  /\ Elements(Append(q, e)) = Elements(q) \cup {e}
           /\ q = <<>> => Head(Append(q, e)) = e /\ Elements(Tail(Append(q, e))) = {}
           /\ q # <<>> => /\ Head(Append(q, e)) = Head(q)
                          /\ Elements(Tail(Append(q, e))) = Elements(Tail(q)) \cup {e}
  <1>1. Elements(Append(q, e)) = Elements(q) \cup {e}
    BY AppendedElements
  <1>2. CASE q = <<>>
    <2>1. Append(q, e) = <<e>> /\ Tail(<<e>>) = <<>> /\ Head(<<e>>) = e
      BY <1>2
    <2>2. QED
      BY <1>1, <1>2, <2>1, TupleElements
  <1>3. CASE q # <<>>
    <2>1. Head(Append(q, e)) = Head(q) /\ Tail(Append(q, e)) = Append(Tail(q), e) /\ Tail(q) \in Seq(S)
      BY <1>3
    <2>2. \A r \in Seq(S) : Elements(Append(r, e)) = Elements(r) \cup {e}
      BY AppendedElements
    <2>3. QED
      BY <1>1, <1>3, <2>1, <2>2
  <1>4. QED
    BY <1>2, <1>3

\* An event that is neither an order that waits nor an arrival may come at any time, and
\* an order that waits when there is nothing else to do.
LEMMA EventComes ==
    ASSUME IInv, TruthInv, NEW e \in Event, queue' = Pushed("MachineControl", e),
           \/ e \notin Waited \cup Arrivals
           \/ e \in Waited /\ Orders = <<>> /\ Rest = <<>>,
           UNCHANGED <<state, todo, told>>,
           io'["MachineControl"] \notin Waited \cup Arrivals
    PROVE  TruthInv'
  <1>1. /\ "MachineControl" \in Component
        /\ Orders \in Seq(Event) /\ DOMAIN queue = Component
    BY DEF Component, Control, Orders, IInv, MachineInvariant, TypeOK
  <1>2. CASE queue'["MachineControl"] = queue["MachineControl"]
    BY <1>2, OthersTell
  <1>3. CASE queue'["MachineControl"] # queue["MachineControl"]
    <2>1. Orders' = Append(Orders, e)
      BY <1>1, <1>3 DEF Pushed, Orders
    <2>2. /\ Elements(Orders') = Elements(Orders) \cup {e}
          /\ Orders = <<>> => Head(Orders') = e /\ Elements(Tail(Orders')) = {}
          /\ Orders # <<>> => /\ Head(Orders') = Head(Orders)
                              /\ Elements(Tail(Orders')) = Elements(Tail(Orders)) \cup {e}
      BY <1>1, <2>1, AppendedOrders
    <2>3. Rest' = Rest /\ Place' = Place /\ told' = told /\ Waited \cap Arrivals = {}
      BY DEF Rest, Place, Waited, Arrivals, Order
    <2>4. Elements(<<>>) = {}
      BY TupleElements
    <2>5. OrdersInv'
      <3>1. Waited' = Waited /\ Arrivals' = Arrivals
        BY DEF Waited, Arrivals
      <3>2. Elements(Tail(Orders')) \cap Waited = {}
        BY <2>2 DEF TruthInv, OrdersInv
      <3>3. Head(Orders') \in Waited => Rest = <<>> /\ Elements(Orders') \cap Arrivals = {}
        BY <2>2, <2>3, <2>4 DEF TruthInv, OrdersInv
      <3>4. QED
        BY <2>3, <3>1, <3>2, <3>3 DEF OrdersInv
    <2>6. ArrivalsInv'
      <3>1. e \notin Arrivals
        BY <2>3
      <3>2. QED
        BY <2>2, <2>3, <3>1 DEF TruthInv, ArrivalsInv, Arrivals
    <2>7. RestInv'
      BY <2>3 DEF TruthInv, RestInv
    <2>8. ToldInv'
      BY <2>2, <2>3 DEF TruthInv, ToldInv
    <2>9. QED
      BY <2>5, <2>6, <2>7, <2>8 DEF TruthInv
  <1>4. QED
    BY <1>2, <1>3

LEMMA DeliversKeepsTold ==
    ASSUME IInv, TruthInv, NEW p \in Publisher, Delivers(p)
    PROVE  TruthInv'
  <1> DEFINE m == "MachineControl"
             n == Head(mail[p])
             c == Subscriber(p)
             e == IF n = "HeatedUp" THEN "MergerHeatedUp" ELSE n
  <1>1. n \in Subscribed(p) /\ c \in Component /\ m \in Component /\ DOMAIN io = Component
        /\ DOMAIN queue = Component
    BY DEF Delivers, IInv, MachineInvariant, TypeOK, Subscriber, Component, Control
  <1>2. UNCHANGED <<state, todo, told>>
    BY DEF Delivers
  <1>3. io[m] \notin Waited \cup Arrivals
    BY DEF TruthInv, OrdersInv
  <1>4. CASE n \in Reports /\ io' = [io EXCEPT ![c] = Concludes(p, n)] /\ UNCHANGED queue
    <2>1. Concludes(p, n) \notin Waited \cup Arrivals
      BY DEF Concludes, Waited, Arrivals, Order
    <2>2. io'[m] \notin Waited \cup Arrivals
      BY <1>1, <1>3, <1>4, <2>1
    <2>3. QED
      BY <1>2, <1>4, <2>2, OthersTell
  <1>5. CASE n \notin Reports /\ queue' = Pushed(c, e) /\ UNCHANGED io
    <2>1. CASE c = m
      <3>1. p \in Component /\ p # m
        BY DEF Publisher
      <3>2. n \notin Waited \cup Arrivals
        BY <1>1, <3>1, SubscribedIs, Components DEF Waited, Arrivals, Order
      <3>3. e \in Event /\ e \notin Waited \cup Arrivals
        BY <1>1, <1>5, <3>2, HeardEvent DEF Waited, Arrivals, Order
      <3>4. QED
        BY <1>2, <1>3, <1>5, <2>1, <3>3, EventComes
    <2>2. CASE c # m
      <3>1. queue'[m] = queue[m]
        BY <1>1, <1>5, <2>2 DEF Pushed
      <3>2. QED
        BY <1>2, <1>3, <1>5, <3>1, OthersTell
    <2>3. QED
      BY <2>1, <2>2
  <1>6. QED
    BY <1>4, <1>5 DEF Delivers

LEMMA IoPushesKeepsTold ==
    ASSUME IInv, TruthInv, NEW c \in Component, IoPushes(c)
    PROVE  TruthInv'
  <1> DEFINE m == "MachineControl"
  <1>1. io[c] \in Event /\ m \in Component /\ DOMAIN io = Component /\ DOMAIN queue = Component
    BY DEF IoPushes, IInv, MachineInvariant, TypeOK, Component, Control
  <1>2. io[m] \notin Waited \cup Arrivals
    BY DEF TruthInv, OrdersInv
  <1>3. io'[m] \notin Waited \cup Arrivals
    BY <1>1, <1>2 DEF IoPushes, Waited, Arrivals, Order
  <1>4. UNCHANGED <<state, todo, told>>
    BY DEF IoPushes
  <1>5. CASE c = m
    BY <1>1, <1>2, <1>3, <1>4, <1>5, EventComes DEF IoPushes
  <1>6. CASE c # m
    <2>1. queue'[m] = queue[m]
      BY <1>1, <1>6 DEF IoPushes, Pushed
    <2>2. QED
      BY <1>3, <1>4, <2>1, OthersTell
  <1>7. QED
    BY <1>5, <1>6

LEMMA UserOrdersKeepsTold ==
    ASSUME IInv, TruthInv, scenario.hasty \subseteq {"SwitchOff", "Stop"}, UserOrders
    PROVE  TruthInv'
  <1> DEFINE e == Head(orders)
  <1>1. e \in Order
    BY DEF UserOrders, IInv, MachineInvariant, TypeOK
  <1>2. e \in Event
    BY <1>1, CommonEvents, MachineEvents, MergerEvents DEF Order
  <1>3. \/ e \notin Waited \cup Arrivals
        \/ e \in Waited /\ Orders = <<>> /\ Rest = <<>>
    <2>1. CASE e \in {"SwitchOff", "Stop"}
      BY <2>1 DEF Waited, Arrivals
    <2>2. CASE e \notin {"SwitchOff", "Stop"}
      <3>1. Quiet
        BY <2>2 DEF UserOrders
      <3>2. Orders = <<>> /\ Rest = <<>>
        BY <3>1 DEF Quiet, Orders, Rest, Idle, Component, Control
      <3>3. QED
        BY <1>1, <2>2, <3>2 DEF Waited
    <2>3. QED
      BY <2>1, <2>2
  <1>4. UNCHANGED <<state, todo, io, told>> /\ queue' = Pushed("MachineControl", e)
    BY DEF UserOrders
  <1>5. io'["MachineControl"] \notin Waited \cup Arrivals
    BY <1>4 DEF TruthInv, OrdersInv
  <1>6. QED
    BY <1>2, <1>3, <1>4, <1>5, EventComes

\* What is left of MachineControl's action after a step of it.
LEMMA RestAfter ==
    ASSUME IInv, ~Idle("MachineControl"), Goes("MachineControl") \/ Fails("MachineControl")
    PROVE  /\ Head(Rest) \in Elements(Rest)
           /\ Elements(Rest') \subseteq Elements(Rest) \cup {Push("ErrorOccurred")}
           /\ \/ Elements(Rest) = {Head(Rest)} \cup Elements(Rest')
              \/ /\ Push("ErrorOccurred") \in Elements(Rest')
                 /\ Head(Rest).fails \in {"return", "continue"}
                 /\ Head(Rest).fails = "continue" =>
                       Elements(Rest) \subseteq {Head(Rest)} \cup Elements(Rest')
           /\ Goes("MachineControl") => Elements(Rest) = {Head(Rest)} \cup Elements(Rest')
  <1> DEFINE c == "MachineControl"
             S == StepOf(c)
  <1>1. c \in Component
    BY DEF Component, Control
  <1>2. /\ Head(todo[c]) \in Elements(todo[c])
        /\ Goes(c) \/ Head(todo[c]).fails \notin {"return", "continue"} =>
              Elements(todo[c]) = {Head(todo[c])} \cup Elements(todo'[c])
        /\ Elements(todo'[c]) \subseteq Elements(todo[c]) \cup {Push("ErrorOccurred")}
    BY <1>1, RestOf
  <1>3. CASE Fails(c) /\ Head(todo[c]).fails \in {"return", "continue"}
    <2>1. /\ todo[c] \in Seq(S) /\ todo[c] # <<>> /\ DOMAIN todo = Component
          /\ Tail(todo[c]) \in Seq(S)
      BY <1>1, StepForm DEF IInv, Idle
    <2>2. Elements(todo[c]) = {Head(todo[c])} \cup Elements(Tail(todo[c]))
      BY <2>1, HeadAndTail
    <2>3. Elements(<< Push("ErrorOccurred") >>) = {Push("ErrorOccurred")}
      BY TupleElements
    <2>4. Push("ErrorOccurred") \in S
      BY <1>1, PushIsStep, CommonEvents
    <2>5. Elements(<< Push("ErrorOccurred") >> \o Tail(todo[c])) =
              {Push("ErrorOccurred")} \cup Elements(Tail(todo[c]))
      BY <2>1, <2>4, PrefixedElements
    <2>6. CASE Head(todo[c]).fails = "return"
      <3>1. todo'[c] = << Push("ErrorOccurred") >>
        BY <1>1, <1>3, <2>1, <2>6 DEF Fails
      <3>2. QED
        BY <1>2, <2>3, <2>6, <3>1 DEF Rest
    <2>7. CASE Head(todo[c]).fails = "continue"
      <3>1. todo'[c] = << Push("ErrorOccurred") >> \o Tail(todo[c])
        BY <1>1, <1>3, <2>1, <2>7 DEF Fails
      <3>2. QED
        BY <1>2, <1>3, <2>2, <2>5, <2>7, <3>1 DEF Rest
    <2>8. QED
      BY <1>3, <2>6, <2>7
  <1>4. CASE ~(Fails(c) /\ Head(todo[c]).fails \in {"return", "continue"})
    BY <1>2, <1>4 DEF Rest
  <1>5. QED
    BY <1>3, <1>4

LEMMA MachineSendsKeepsTold ==
    ASSUME IInv, StepsInv, TruthInv, Sends("MachineControl")
    PROVE  TruthInv'
  <1> DEFINE s == Head(Rest)
             E == Push("ErrorOccurred")
  <1>1. /\ Orders' = Orders /\ Place' = Place /\ told' = told
        /\ io'["MachineControl"] = io["MachineControl"]
        /\ Rest # <<>> /\ s.do = "send"
    <2>1. Orders' = Orders
      BY SendsElsewhere DEF Orders, Component, Control
    <2>2. QED
      BY <2>1 DEF Sends, AtStep, Idle, Rest, Place
  <1>2. /\ s \in Elements(Rest)
        /\ Elements(Rest') \subseteq Elements(Rest) \cup {E}
        /\ \/ Elements(Rest) = {s} \cup Elements(Rest')
           \/ /\ E \in Elements(Rest')
              /\ s.fails \in {"return", "continue"}
              /\ s.fails = "continue" => Elements(Rest) \subseteq {s} \cup Elements(Rest')
    <2>1. ~Idle("MachineControl") /\ (Goes("MachineControl") \/ Fails("MachineControl"))
      BY SendsForm DEF Component, Control
    <2>2. QED
      BY <2>1, RestAfter
  <1>3. /\ \A n : Notify(n).do = "tell" /\ Notify(n) # E
        /\ E.do = "tell" /\ E # Tell("StartingSucceeded", "Running")
        /\ \A n, f : Tell(n, f).do = "tell"
    <2>1. /\ E.do = "tell" /\ E.event = "ErrorOccurred"
          /\ \A n : Notify(n).do = "tell" /\ Notify(n).event = "none"
          /\ \A n, f : Tell(n, f).do = "tell" /\ Tell(n, f).event = n
      BY DEF Push, Notify, Tell
    <2>2. QED
      BY <2>1
  <1>4. /\ Place \notin {"Stopped", "Running"}
        /\ Place \in Down => s.fails = "ignore"
        /\ Place = "HeatingUp" => s.fails # "return"
    BY <1>1, <1>2 DEF TruthInv, RestInv, SaysFit
  <1>5. OrdersInv'
    <2>1. Waited' = Waited /\ Arrivals' = Arrivals
      BY DEF Waited, Arrivals
    <2>2. Orders # <<>> => Head(Orders) \notin Waited
      BY <1>1 DEF TruthInv, OrdersInv
    <2>3. QED
      BY <1>1, <2>1, <2>2 DEF TruthInv, OrdersInv
  <1>6. ArrivalsInv'
    <2>1. Notify("Starting") \in Elements(Rest') => Notify("Starting") \in Elements(Rest)
      BY <1>2, <1>3
    <2>2. Tell("StartingSucceeded", "Running") \in Elements(Rest') =>
             Tell("StartingSucceeded", "Running") \in Elements(Rest)
      BY <1>2, <1>3
    <2>3. Notify("Starting") = Notify("Starting")'
          /\ Tell("StartingSucceeded", "Running") = Tell("StartingSucceeded", "Running")'
      BY DEF Notify, Tell
    <2>4. QED
      BY <1>1, <2>1, <2>2, <2>3 DEF TruthInv, ArrivalsInv
  <1>7. RestInv'
    <2>1. ASSUME NEW r \in Elements(Rest') PROVE SaysFit(Place, r)
      <3>1. CASE r \in Elements(Rest)
        BY <3>1 DEF TruthInv, RestInv
      <3>2. CASE r = E /\ r \notin Elements(Rest)
        <4>1. s.fails \in {"return", "continue"}
          BY <1>2, <2>1, <3>2
        <4>2. Place \in {"HeatingUp", "Starting", "Stopping", "Initialization"}
          <5>1. Place \in MachineStates
            BY MachineStatesOf, TableIs DEF Place, IInv, MachineInvariant, TypeOK, StatesOf,
                                            Component, Control
          <5>2. QED
            BY <1>4, <4>1, <5>1 DEF MachineStates, Down
        <4>3. Tellable(Place, E)
          BY <4>2 DEF Tellable
        <4>4. QED
          BY <1>3, <3>2, <4>3 DEF SaysFit
      <3>3. QED
        BY <1>2, <2>1, <3>1, <3>2
    <2>2. QED
      BY <1>1, <2>1 DEF RestInv, SaysFit, Tellable, Notify, Push, Tell
  <1>8. ToldInv'
    <2>1. \A n : Notify(n) # s
      BY <1>1, <1>3
    <2>2. ASSUME NEW n, Notify(n) \in Elements(Rest), Place \in Down \cup {"HeatingUp"}
          PROVE  Notify(n) \in Elements(Rest')
      BY <1>2, <1>4, <2>1, <2>2 DEF Down
    <2>3. Notify("Starting") \in Elements(Rest) =>
             Notify("Starting") \in Elements(Rest') \/ E \in Elements(Rest')
      BY <1>2, <2>1
    <2>4. E \in Elements(Rest) => E \in Elements(Rest')
      BY <1>1, <1>2, <1>3
    <2>5. \A n : Notify(n)' = Notify(n)
      BY DEF Notify, Tell
    <2>6. E' = E
      BY DEF Push, Tell
    <2>7. /\ Place = "Off" => Notify("SwitchedOff") \in Elements(Rest') \/ told \in {"none", "SwitchedOff"}
          /\ Place = "Error" => Notify("ErrorOccurred") \in Elements(Rest') \/ told = "ErrorOccurred"
          /\ Place = "HeatingUp" => Notify("HeatingUp") \in Elements(Rest') \/ told = "HeatingUp"
      BY <2>2 DEF TruthInv, ToldInv, Down
    <2>8. Place = "Starting" =>
            \/ Notify("Starting") \in Elements(Rest')
            \/ told = "Starting"
            \/ "StartingSucceeded" \in Elements(Orders)
            \/ E \in Elements(Rest')
            \/ "ErrorOccurred" \in Elements(Orders)
      BY <2>3, <2>4 DEF TruthInv, ToldInv
    <2>9. QED
      BY <1>1, <1>4, <2>5, <2>6, <2>7, <2>8 DEF ToldInv
  <1>9. QED
    BY <1>5, <1>6, <1>7, <1>8 DEF TruthInv

LEMMA MachineTellsKeepsTold ==
    ASSUME IInv, TruthInv, HasRoom("MachineControl"), Tells("MachineControl")
    PROVE  TruthInv'
  <1> DEFINE s == Head(Rest)
             SS == Tell("StartingSucceeded", "Running")
             TS == Tell("StoppingSucceeded", "Stopped")
             E == Push("ErrorOccurred")
  <1>1. /\ Place' = Place
        /\ io'["MachineControl"] = io["MachineControl"]
        /\ Rest # <<>> /\ s.do = "tell"
        /\ told' = IF s.notification = "none" THEN told ELSE s.notification
        /\ s.event \in Event \cup {"none"}
        /\ queue' = Own("MachineControl", s.event)
    <2>1. ~Idle("MachineControl") /\ "MachineControl" \in Component
      BY DEF Tells, AtStep, Component, Control
    <2>2. QED
      BY <2>1, StepForm DEF Tells, AtStep, Idle, Rest, Place
  <1>2. /\ s \in Elements(Rest)
        /\ Elements(Rest) = {s} \cup Elements(Rest')
    BY RestAfter DEF Tells, AtStep
  <1>3. Orders \in Seq(Event) /\ "MachineControl" \in Component /\ DOMAIN queue = Component
    BY DEF Component, Control, Orders, IInv, MachineInvariant, TypeOK
  <1>4. /\ Elements(Orders') = Elements(Orders) \cup ({s.event} \ {"none"})
        /\ Orders # <<>> => /\ Head(Orders') = Head(Orders)
                            /\ Elements(Tail(Orders')) = Elements(Tail(Orders)) \cup ({s.event} \ {"none"})
        /\ Orders = <<>> /\ Orders' # <<>> =>
              Head(Orders') = s.event /\ Elements(Tail(Orders')) = {}
    <2>1. CASE s.event = "none"
      BY <1>1, <2>1 DEF Own, Orders
    <2>2. CASE s.event # "none"
      <3>1. Orders' = Append(Orders, s.event)
        BY <1>1, <1>3, <2>2 DEF Own, Pushed, Orders
      <3>2. QED
        BY <1>1, <1>3, <2>2, <3>1, AppendedOrders
    <2>3. QED
      BY <2>1, <2>2
  <1>5. Tellable(Place, s)
    BY <1>1, <1>2 DEF TruthInv, RestInv, SaysFit
  <1>6. /\ \A n : Notify(n).event = "none" /\ Notify(n).notification = n
        /\ E.event = "ErrorOccurred" /\ E.notification = "none"
        /\ Push("SwitchOnSucceeded").event = "SwitchOnSucceeded"
        /\ Push("SwitchOnSucceeded").notification = "none"
        /\ SS.event = "StartingSucceeded" /\ SS.notification = "Running"
        /\ TS.event = "StoppingSucceeded" /\ TS.notification = "Stopped"
    BY DEF Push, Notify, Tell
  <1>7. /\ s.event \notin Waited
        /\ s.event = "StartingSucceeded" => Place = "Starting" /\ s = SS
        /\ s.event = "StoppingSucceeded" => Place = "Stopping" /\ s = TS
        /\ s.notification # "none" =>
              \/ Place = "Off" /\ s = Notify("SwitchedOff")
              \/ Place = "Error" /\ s = Notify("ErrorOccurred")
              \/ Place = "Stopped" /\ s = Notify("Stopped")
              \/ Place = "HeatingUp" /\ s = Notify("HeatingUp")
              \/ Place = "Starting" /\ (s = Notify("Starting") \/ s = SS)
              \/ Place = "Stopping" /\ s = TS
    BY <1>5, <1>6 DEF Tellable, Waited, Order
  <1>8. OrdersInv'
    <2>1. Waited' = Waited /\ Arrivals' = Arrivals
      BY DEF Waited, Arrivals
    <2>2. Orders # <<>> => Head(Orders) \notin Waited
      BY <1>1 DEF TruthInv, OrdersInv
    <2>3. Orders' # <<>> => Head(Orders') \notin Waited
      BY <1>4, <1>7, <2>2
    <2>4. Orders' # <<>> => Elements(Tail(Orders')) \cap Waited = {}
      BY <1>4, <1>7 DEF TruthInv, OrdersInv
    <2>5. QED
      BY <1>1, <2>1, <2>3, <2>4 DEF TruthInv, OrdersInv
  <1>9. ArrivalsInv'
    <2>1. Notify("Starting")' = Notify("Starting") /\ SS' = SS
      BY DEF Notify, Tell
    <2>2. ASSUME "StartingSucceeded" \in Elements(Orders')
          PROVE  \/ Place \in {"Starting", "Running"} /\ told' = "Running"
                 \/ Place \in {"Stopping", "Stopped"} \cup Down
      <3>1. CASE s.event = "StartingSucceeded"
        BY <1>1, <1>6, <1>7, <3>1
      <3>2. CASE s.event # "StartingSucceeded"
        <4>1. "StartingSucceeded" \in Elements(Orders)
          BY <1>4, <2>2, <3>2
        <4>2. /\ \/ Place \in {"Starting", "Running"} /\ told = "Running"
                 \/ Place \in {"Stopping", "Stopped"} \cup Down
              /\ s # Notify("Starting")
          BY <1>2, <4>1 DEF TruthInv, ArrivalsInv
        <4>3. s # SS
          BY <1>6, <3>2
        <4>4. QED
          BY <1>1, <1>7, <4>2, <4>3 DEF Down
      <3>3. QED
        BY <3>1, <3>2
    <2>3. ASSUME "StoppingSucceeded" \in Elements(Orders')
          PROVE  \/ Place \in {"Stopping", "Stopped"} /\ told' = "Stopped"
                 \/ Place \in Down
      <3>1. CASE s.event = "StoppingSucceeded"
        BY <1>1, <1>6, <1>7, <3>1
      <3>2. CASE s.event # "StoppingSucceeded"
        <4>1. "StoppingSucceeded" \in Elements(Orders)
          BY <1>4, <2>3, <3>2
        <4>2. \/ Place \in {"Stopping", "Stopped"} /\ told = "Stopped"
              \/ Place \in Down
          BY <4>1 DEF TruthInv, ArrivalsInv
        <4>3. QED
          BY <1>1, <1>6, <1>7, <4>2 DEF Down
      <3>3. QED
        BY <3>1, <3>2
    <2>4. ASSUME Notify("Starting") \in Elements(Rest')
          PROVE  /\ "StartingSucceeded" \notin Elements(Orders')
                 /\ SS \notin Elements(Rest')
      <3>1. "StartingSucceeded" \notin Elements(Orders) /\ SS \notin Elements(Rest)
        BY <1>2, <2>4 DEF TruthInv, ArrivalsInv
      <3>2. QED
        BY <1>2, <1>4, <1>7, <3>1
    <2>5. QED
      BY <1>1, <2>1, <2>2, <2>3, <2>4 DEF ArrivalsInv
  <1>10. RestInv'
    <2>1. \A r \in Elements(Rest') : SaysFit(Place, r)
      BY <1>2 DEF TruthInv, RestInv
    <2>2. QED
      BY <1>1, <2>1 DEF RestInv, SaysFit, Tellable, Notify, Push, Tell
  <1>11. ToldInv'
    <2>1. \A n : Notify(n)' = Notify(n)
      BY DEF Notify, Tell
    <2>2. E' = E
      BY DEF Push, Tell
    <2>3. \A r \in Elements(Rest) : r \in Elements(Rest') \/ r = s
      BY <1>2
    <2>4. Place = "Off" => Notify("SwitchedOff") \in Elements(Rest') \/ told' \in {"none", "SwitchedOff"}
      BY <1>1, <1>6, <1>7, <2>3 DEF TruthInv, ToldInv
    <2>5. Place = "Error" => Notify("ErrorOccurred") \in Elements(Rest') \/ told' = "ErrorOccurred"
      BY <1>1, <1>6, <1>7, <2>3 DEF TruthInv, ToldInv
    <2>6. Place = "Stopped" => Notify("Stopped") \in Elements(Rest') \/ told' = "Stopped"
      BY <1>1, <1>6, <1>7, <2>3 DEF TruthInv, ToldInv
    <2>7. Place = "HeatingUp" => Notify("HeatingUp") \in Elements(Rest') \/ told' = "HeatingUp"
      BY <1>1, <1>6, <1>7, <2>3 DEF TruthInv, ToldInv
    <2>8. ASSUME Place = "Starting"
          PROVE  \/ Notify("Starting") \in Elements(Rest')
                 \/ told' = "Starting"
                 \/ "StartingSucceeded" \in Elements(Orders')
                 \/ E \in Elements(Rest')
                 \/ "ErrorOccurred" \in Elements(Orders')
      <3>1. CASE s = Notify("Starting")
        BY <1>1, <1>6, <3>1
      <3>2. CASE s = SS
        BY <1>4, <1>6, <3>2
      <3>3. CASE s = E
        BY <1>4, <1>6, <3>3
      <3>4. CASE s \notin {Notify("Starting"), SS, E}
        BY <1>1, <1>4, <1>7, <2>3, <2>8, <3>4 DEF TruthInv, ToldInv
      <3>5. QED
        BY <3>1, <3>2, <3>3, <3>4
    <2>9. Place = "Running" => told' = "Running"
      BY <1>1, <1>7 DEF TruthInv, ToldInv
    <2>10. QED
      BY <1>1, <2>1, <2>2, <2>4, <2>5, <2>6, <2>7, <2>8, <2>9 DEF ToldInv
  <1>12. QED
    BY <1>8, <1>9, <1>10, <1>11 DEF TruthInv

\* The orders after one is taken.
LEMMA OrderTaken ==
    ASSUME IInv, OrdersInv, Orders # <<>>, Orders' = Tail(Orders),
           io'["MachineControl"] = io["MachineControl"]
    PROVE  /\ OrdersInv'
           /\ Elements(Orders) = {Head(Orders)} \cup Elements(Orders')
  <1>1. Orders \in Seq(Event)
    BY DEF Orders, IInv, MachineInvariant, TypeOK, Component, Control
  <1>2. \A q \in Seq(Event) : q # <<>> =>
            Tail(q) \in Seq(Event) /\ Elements(q) = {Head(q)} \cup Elements(Tail(q))
    <2>1. ASSUME NEW q \in Seq(Event), q # <<>>
          PROVE  Tail(q) \in Seq(Event) /\ Elements(q) = {Head(q)} \cup Elements(Tail(q))
      BY <2>1, HeadAndTail
    <2>2. QED
      BY <2>1
  <1>3. Elements(Orders') \cap Waited = {}
    BY DEF OrdersInv
  <1>4. Orders' # <<>> => Head(Orders') \notin Waited /\ Elements(Tail(Orders')) \cap Waited = {}
    BY <1>1, <1>2, <1>3
  <1>5. Waited' = Waited /\ Arrivals' = Arrivals
    BY DEF Waited, Arrivals
  <1>6. QED
    BY <1>1, <1>2, <1>4, <1>5 DEF OrdersInv

LEMMA MachineDispatchKeepsTold ==
    ASSUME IInv, TruthInv, Dispatch("MachineControl")
    PROVE  TruthInv'
  <1> DEFINE SS == Tell("StartingSucceeded", "Running")
  <1>1. PICK t, ok : Dispatched("MachineControl", t, ok)
    BY DispatchIs DEF Component, Control
  <1>2. /\ t \in MachineTable /\ t.state = Place /\ t.event = Head(Orders)
        /\ Place' = t.next /\ Orders # <<>> /\ Orders' = Tail(Orders)
        /\ Rest = <<>> /\ Rest' = MachineAction(t.action, t.event)
        /\ io'["MachineControl"] = io["MachineControl"]
        /\ told' = told
    BY <1>1, TableIs, ControlActions DEF Dispatched, Place, Orders, Rest, Dispatch
  <1>3. TellsFit(t, Rest')
    BY <1>2, MachineTellsFit
  <1>4. OrdersInv' /\ Elements(Orders) = {t.event} \cup Elements(Orders')
    BY <1>2, OrderTaken DEF TruthInv
  <1>5. Elements(Rest) = {}
    BY <1>2, TupleElements
  <1>6. Elements(Orders) \cap Arrivals # {} => t.event \notin Waited
    BY <1>2 DEF TruthInv, OrdersInv
  <1>7. t.event \in {"SwitchOff", "ErrorOccurred", "SwitchOn", "Start", "StartHeatless", "Stop",
                     "MergerHeatedUp", "CheckStartingState", "CheckStoppingState",
                     "SwitchOnSucceeded", "StartingSucceeded", "StoppingSucceeded"}
    BY <1>2, MachineEntries
  <1>8. ArrivalsInv'
    <2>1. Notify("Starting")' = Notify("Starting") /\ SS' = SS
      BY DEF Notify, Tell
    <2>2. ASSUME "StartingSucceeded" \in Elements(Orders')
          PROVE  \/ t.next \in {"Starting", "Running"} /\ told = "Running"
                 \/ t.next \in {"Stopping", "Stopped"} \cup Down
      <3>1. \/ Place \in {"Starting", "Running"} /\ told = "Running"
            \/ Place \in {"Stopping", "Stopped"} \cup Down
        BY <1>4, <2>2 DEF TruthInv, ArrivalsInv
      <3>2. t.event \notin Waited
        BY <1>4, <1>6, <2>2 DEF Arrivals
      <3>3. t.event \notin {"SwitchOn", "Start", "StartHeatless"}
        BY <3>2 DEF Waited, Order
      <3>4. \/ t.next \in {"Stopping", "Stopped"} \cup Down
            \/ t.next \in {"Starting", "Running"} /\ Place \in {"Starting", "Running"}
        BY <1>2, <3>1, <3>3, MachineEntries DEF Down
      <3>5. QED
        BY <3>1, <3>4 DEF Down
    <2>3. ASSUME "StoppingSucceeded" \in Elements(Orders')
          PROVE  \/ t.next \in {"Stopping", "Stopped"} /\ told = "Stopped"
                 \/ t.next \in Down
      <3>1. \/ Place \in {"Stopping", "Stopped"} /\ told = "Stopped"
            \/ Place \in Down
        BY <1>4, <2>3 DEF TruthInv, ArrivalsInv
      <3>2. t.event \notin Waited
        BY <1>4, <1>6, <2>3 DEF Arrivals
      <3>3. t.event \notin {"SwitchOn", "Start", "StartHeatless"}
        BY <3>2 DEF Waited, Order
      <3>4. \/ t.next \in Down
            \/ t.next \in {"Stopping", "Stopped"} /\ Place \in {"Stopping", "Stopped"}
        BY <1>2, <3>1, <3>3, MachineEntries DEF Down
      <3>5. QED
        BY <3>1, <3>4 DEF Down
    <2>4. ASSUME Notify("Starting") \in Elements(Rest')
          PROVE  "StartingSucceeded" \notin Elements(Orders') /\ SS \notin Elements(Rest')
      <3>1. /\ Place = "HeatingUp" \/ t.event = "StartHeatless"
            /\ SS \notin Elements(Rest')
        BY <1>2, <1>3, <2>4 DEF TellsFit
      <3>2. "StartingSucceeded" \notin Elements(Orders)
        BY <1>6, <3>1 DEF TruthInv, ArrivalsInv, Down, Arrivals, Waited, Order
      <3>3. QED
        BY <1>4, <3>1, <3>2
    <2>5. QED
      BY <1>2, <2>1, <2>2, <2>3, <2>4 DEF ArrivalsInv
  <1>9. RestInv'
    <2>1. \A s \in Elements(Rest') : SaysFit(t.next, s)
      BY <1>3 DEF TellsFit
    <2>2. QED
      BY <1>2, <2>1 DEF RestInv, SaysFit, Tellable, Notify, Push, Tell
  <1>10. ToldInv'
    <2>1. \A n : Notify(n)' = Notify(n)
      BY DEF Notify, Tell
    <2>2. t.next = "Off" => Notify("SwitchedOff") \in Elements(Rest') \/ told \in {"none", "SwitchedOff"}
      BY <1>2, <1>3, <1>5 DEF TellsFit, TruthInv, ToldInv
    <2>3. t.next = "Error" => Notify("ErrorOccurred") \in Elements(Rest') \/ told = "ErrorOccurred"
      BY <1>2, <1>3, <1>5 DEF TellsFit, TruthInv, ToldInv
    <2>4. ASSUME t.next = "Stopped" PROVE Notify("Stopped") \in Elements(Rest') \/ told = "Stopped"
      <3>1. CASE Place = "Stopping" /\ t.event = "StoppingSucceeded"
        BY <1>4, <3>1 DEF TruthInv, ArrivalsInv, Down
      <3>2. CASE Place = "Stopped"
        BY <1>5, <3>2 DEF TruthInv, ToldInv
      <3>3. QED
        BY <1>2, <1>3, <2>4, <3>1, <3>2 DEF TellsFit
    <2>5. t.next = "HeatingUp" => Notify("HeatingUp") \in Elements(Rest')
      BY <1>3 DEF TellsFit
    <2>6. ASSUME t.next = "Starting"
          PROVE  \/ Notify("Starting") \in Elements(Rest')
                 \/ told = "Starting"
                 \/ "StartingSucceeded" \in Elements(Orders')
                 \/ "ErrorOccurred" \in Elements(Orders')
      <3>1. CASE Place = "Starting" /\ t.event = "CheckStartingState"
        BY <1>4, <1>5, <3>1 DEF TruthInv, ToldInv
      <3>2. QED
        BY <1>2, <1>3, <2>6, <3>1 DEF TellsFit
    <2>7. ASSUME t.next = "Running" PROVE told = "Running"
      <3>1. t.event = "StartingSucceeded" /\ Place \in {"Starting", "Running"}
        BY <1>2, <2>7, MachineEntries
      <3>2. QED
        BY <1>4, <3>1 DEF TruthInv, ArrivalsInv, Down
    <2>8. QED
      BY <1>2, <2>1, <2>2, <2>3, <2>4, <2>5, <2>6, <2>7 DEF ToldInv
  <1>11. QED
    BY <1>4, <1>8, <1>9, <1>10 DEF TruthInv

LEMMA MachineDispatchFailsKeepsTold ==
    ASSUME IInv, TruthInv, DispatchFails("MachineControl")
    PROVE  TruthInv'
  <1> DEFINE c == "MachineControl"
  <1>1. c \in Component /\ DOMAIN queue = Component /\ state[c] \in StatesOf[c]
    BY DEF Component, Control, IInv, MachineInvariant, TypeOK
  <1>2. /\ Orders # <<>> /\ Orders' = Tail(Orders) /\ Rest = <<>> /\ Rest' = Rest
        /\ Place' = Place /\ told' = told /\ io'[c] = io[c]
    BY <1>1 DEF DispatchFails, Idle, Orders, Rest, Place
  <1>3. OrdersInv' /\ Elements(Orders) = {Head(Orders)} \cup Elements(Orders')
    BY <1>2, OrderTaken DEF TruthInv
  <1>4. Elements(Rest) = {}
    BY <1>2, TupleElements
  <1>5. Head(Orders) # "ErrorOccurred"
    BY <1>1, AlwaysHandled DEF DispatchFails, Entries, Orders
  <1>6. Place = "Starting" => Head(Orders) # "StartingSucceeded"
    <2> DEFINE t == [state |-> "Starting", event |-> "StartingSucceeded", next |-> "Running",
                     action |-> "none"]
    <2>1. t \in On({"Starting", "Running"}, "StartingSucceeded", "Running", "none")
      BY DEF On
    <2>2. t \in Table(c)
      BY <2>1, TableIs DEF MachineTable
    <2>3. QED
      BY <2>2 DEF DispatchFails, Entries, Orders, Place
  <1>7. ArrivalsInv'
    BY <1>2, <1>3, <1>4 DEF TruthInv, ArrivalsInv
  <1>8. RestInv'
    BY <1>2, <1>4 DEF RestInv
  <1>9. ToldInv'
    BY <1>2, <1>3, <1>4, <1>5, <1>6 DEF TruthInv, ToldInv
  <1>10. QED
    BY <1>3, <1>7, <1>8, <1>9 DEF TruthInv

LEMMA InitTold == Init => StepsInv /\ LateFits /\ TruthInv
  <1> SUFFICES ASSUME Init PROVE StepsInv /\ LateFits /\ TruthInv
    OBVIOUS
  <1>1. StepsInv /\ LateFits
    BY InitOff DEF SwitchOffInv
  <1>2. Orders = <<>> /\ Rest = <<>> /\ Place = "Off" /\ told = "none"
        /\ io["MachineControl"] = "none"
    BY DEF Init, Orders, Rest, Place, Component, Control
  <1>3. Elements(<<>>) = {}
    BY TupleElements
  <1>4. OrdersInv
    BY <1>2 DEF OrdersInv, Waited, Arrivals, Order
  <1>5. ArrivalsInv /\ RestInv /\ ToldInv
    BY <1>2, <1>3 DEF ArrivalsInv, RestInv, ToldInv
  <1>6. QED
    BY <1>1, <1>4, <1>5 DEF TruthInv

\* The user gives no order but Stop and SwitchOff before the machine has settled, and
\* MachineControl's queue is not about to refuse an event.
Patient == scenario.hasty \subseteq {"SwitchOff", "Stop"} /\ HasRoom("MachineControl")

LEMMA StepKeepsTold ==
    IInv /\ StepsInv /\ LateFits /\ TruthInv /\ Patient /\ [Next]_vars => TruthInv'
  <1> SUFFICES ASSUME IInv, StepsInv, LateFits, TruthInv, Patient, [Next]_vars PROVE TruthInv'
    OBVIOUS
  <1> DEFINE m == "MachineControl"
  <1>1. io[m] \notin Waited \cup Arrivals
    BY DEF TruthInv, OrdersInv
  <1>2. ASSUME UNCHANGED <<state, queue, todo, io, told>> PROVE TruthInv'
    BY <1>1, <1>2, OthersTell
  <1>3. CASE UNCHANGED vars
    BY <1>2, <1>3 DEF vars, control
  <1>4. ASSUME NEW c \in Component, WorkerStep(c) \/ IoPushes(c) PROVE TruthInv'
    <2>1. CASE c = m /\ WorkerStep(c)
      BY <2>1, MachineDispatchKeepsTold, MachineDispatchFailsKeepsTold, MachineTellsKeepsTold,
         MachineSendsKeepsTold DEF WorkerStep, Patient
    <2>2. ASSUME c # m, Dispatch(c) \/ DispatchFails(c) PROVE TruthInv'
      <3>1. /\ state'[m] = state[m] /\ queue'[m] = queue[m] /\ todo'[m] = todo[m]
            /\ UNCHANGED <<io, told>>
        BY <2>2 DEF Dispatch, DispatchFails, IInv, Component, Control
      <3>2. QED
        BY <1>1, <3>1, OthersTell
    <2>3. ASSUME c # m, Tells(c) PROVE TruthInv'
      <3>1. /\ queue'[m] = queue[m] /\ todo'[m] = todo[m]
            /\ UNCHANGED <<state, io, told>>
        BY <2>3 DEF Tells, Goes, Own, Pushed, IInv, Component, Control
      <3>2. QED
        BY <1>1, <3>1, OthersTell
    <2>4. ASSUME c # m, Sends(c) PROVE TruthInv'
      <3>1. todo'[m] = todo[m]
        <4>1. Goes(c) \/ Fails(c)
          BY <2>4, SendsForm
        <4>2. QED
          BY <2>4, <4>1 DEF Goes, Fails, IInv, Component, Control
      <3>2. queue'[m] = queue[m] /\ UNCHANGED <<state, io, told>>
        BY <2>4, SendsElsewhere DEF Sends
      <3>3. QED
        BY <1>1, <3>1, <3>2, OthersTell
    <2>5. CASE IoPushes(c)
      BY <2>5, IoPushesKeepsTold
    <2>6. QED
      BY <1>4, <2>1, <2>2, <2>3, <2>4, <2>5 DEF WorkerStep
  <1>5. ASSUME NEW p \in Publisher, Delivers(p) PROVE TruthInv'
    BY <1>5, DeliversKeepsTold
  <1>6. CASE UserOrders
    BY <1>6, UserOrdersKeepsTold DEF Patient
  <1>7. ASSUME NEW h \in Heater, NEW e \in Temperature, TemperatureReported(h, e) PROVE TruthInv'
    <2>1. h # m /\ m \in Component
      BY DEF Heater, Component, Control
    <2>2. queue'[m] = queue[m] /\ UNCHANGED <<state, todo, io, told>>
      BY <1>7, <2>1 DEF TemperatureReported, Pushed, IInv
    <2>3. QED
      BY <1>1, <2>2, OthersTell
  <1>8. ASSUME NEW n \in Tension, TensionReported(n) PROVE TruthInv'
    BY <1>2, <1>8 DEF TensionReported
  <1>9. ASSUME NEW o \in late, HandlesLate(o) PROVE TruthInv'
    <2>1. /\ o.what \in Request
          /\ queue' = queue \/ (PushesEvent(o.what) /\ queue' = Pushed(o.to, EventOf(o.what)))
          /\ UNCHANGED <<state, todo, io, told>>
      BY <1>9, HandlesLateForm
    <2>2. queue'[m] = queue[m]
      BY <2>1, NobodyAsks DEF LateFits
    <2>3. QED
      BY <1>1, <2>1, <2>2, OthersTell
  <1>10. QED
    BY <1>3, <1>4, <1>5, <1>6, <1>7, <1>8, <1>9 DEF Next, ThreadStep

LEMMA QuietTells == TruthInv => TellsTruth
  <1> SUFFICES ASSUME TruthInv, Quiet PROVE TellsTruth
    BY DEF TellsTruth
  <1>1. Orders = <<>> /\ Rest = <<>>
    BY DEF Quiet, Orders, Rest, Idle, Component, Control
  <1>2. Elements(<<>>) = {}
    BY TupleElements
  <1>3. /\ Place = "Off" => told \in {"none", "SwitchedOff"}
        /\ Place = "Error" => told = "ErrorOccurred"
        /\ Place \in {"Stopped", "HeatingUp", "Starting", "Running"} => told = Place
    BY <1>1, <1>2 DEF TruthInv, ToldInv
  <1>4. QED
    BY <1>3 DEF TellsTruth, At, Place

\* When the machine has settled, the last thing it told is where it is, although it tells
\* before the event that takes it there is handled, whatever fails or gets lost and
\* whenever it is told to stop or switched off (MachineControl.cpp:220-221, 249-250).  The
\* user may stop or switch off without waiting but waits for the machine to settle before
\* the other orders, and MachineControl's queue is not about to be full (Patient).
THEOREM MachineTellsTruth == Spec /\ []Patient => []TellsTruth
  <1> DEFINE I == IInv /\ StepsInv /\ LateFits /\ TruthInv
  <1>1. Init => I
    BY InitHolds, InitTold
  <1>2. I /\ Patient /\ [Next]_vars => I'
    BY StepKeeps, StepsStay, LateStays, StepKeepsTold
  <1>3. I => TellsTruth
    BY QuietTells
  <1> HIDE DEF I
  <1>4. QED
    BY <1>1, <1>2, <1>3, PTL DEF Spec
-----------------------------------------------------------------------------
(***************************************************************************)
(* Failures.  Until the machine has ended, what failed is on its way up to *)
(* MachineControl, and nobody is told to stop or to switch off who is not  *)
(* below a component in error.                                             *)
(***************************************************************************)
\* The user does not tell the machine to stop, and switches it off at the end, if at all;
\* nothing pauses the coil.
Unstopped ==
    /\ "Stop" \notin Elements(scenario.orders)
    /\ \A i \in DOMAIN scenario.orders :
          scenario.orders[i] = "SwitchOff" => i = Len(scenario.orders)
    /\ \A i \in DOMAIN scenario.sensed : "TensionOverloaded" \notin scenario.sensed[i]

\* MachineControl is in error, or off and will not be switched on again.
Ended ==
    \/ At("MachineControl", "Error")
    \/ /\ At("MachineControl", "Off")
       /\ "SwitchOn" \notin Elements(queue["MachineControl"]) \cup Elements(orders)

\* What makes a component stop, as requests and as events.
StopRequest == {"SwitchOff", "StopFeeding", "StopCoil", "StopMotor"}
StopEvent == {"SwitchOff", "Stop", "StopMotor", "TensionOverloaded"}

\* A component tells neither itself nor its subscriber to stop, and passes over nothing
\* but a switch-off that fails.
StepSays(s) ==
    /\ s.do = "tell" => s.event \notin StopEvent /\ s.notification # "TensionOverloaded"
    /\ s.do = "send" /\ s.fails = "ignore" => s.what = "SwitchOff"

SayInv == \A c \in Component : \A s \in Elements(todo[c]) : StepSays(s)

\* No switch-on comes after a switch-off.
OffLast(q) == \A i, j \in DOMAIN q : q[i] = "SwitchOff" /\ i < j => q[j] # "SwitchOn"

\* The order to switch off is the last one, and there is none to stop.
LastInv ==
    /\ "Stop" \notin Elements(orders) \cup Elements(queue["MachineControl"])
    /\ \A i \in DOMAIN orders : orders[i] = "SwitchOff" => i = Len(orders)
    /\ "SwitchOff" \in Elements(queue["MachineControl"]) => orders = <<>>
    /\ OffLast(queue["MachineControl"])
    /\ \A c \in Component : io[c] \notin StopEvent \cup {"SwitchOn", "SwitchOnSucceeded"}

\* Nobody is told to stop but below a component in error, and nobody was in time.
CallsInv ==
    ~Ended =>
        /\ \A c \in Control : ~At(c, "Error") =>
              /\ \A s \in Elements(todo[c]) : s.do = "send" => s.what \notin StopRequest
              /\ \A o \in late : o.from = c => o.what \notin StopRequest
        /\ \A c \in Publisher : ~At(Subscriber(c), "Error") =>
              Elements(queue[c]) \cap StopEvent = {}
        /\ "TensionOverloaded" \notin Elements(mail["FilamentTensionSensor"])

\* A component in error has told its subscriber.
ErrorsInv ==
    ~Ended => \A c \in Publisher : At(c, "Error") => Reporting(c) \/ At(Subscriber(c), "Error")

\* Some component is in error or is about to be.
Raises(c, e) == \E s \in Elements(todo[c]) : s.do = "tell" /\ s.event = e
Alarm ==
    \E c \in Component :
        \/ At(c, "Error")
        \/ "ErrorOccurred" \in Elements(queue[c])
        \/ Raises(c, "ErrorOccurred")

\* The tension sensor is not to leave a state by itself.
SensorStays(s) ==
    /\ At("FilamentTensionSensor", s)
    /\ "SwitchOnSucceeded" \notin Elements(queue["FilamentTensionSensor"])
    /\ ~Raises("FilamentTensionSensor", "SwitchOnSucceeded")

\* What failed leads to an error, unless it is the tension sensor that did not start.
AlarmInv ==
    ~Ended =>
        /\ failed # {} \/ broken > 0 => Alarm \/ SensorStays("Initialization")
        /\ At("FilamentTensionSensor", "Off") => Alarm \/ SensorStays("Off")

SurfaceInv == SayInv /\ LastInv /\ CallsInv /\ ErrorsInv /\ AlarmInv

(* What the actions say. *)

\* What an action says that is about to lead to a state on an event.
ActionSays(next, event, A) ==
    /\ \A s \in Elements(A) : StepSays(s)
    /\ \/ next = "Error"
       \/ event \in StopEvent
       \/ \A s \in Elements(A) : s.do = "send" => s.what \notin StopRequest

\* A step that says nothing of stopping.
Mild(s) == StepSays(s) /\ (s.do = "send" => s.what \notin StopRequest)

LEMMA StepsSay ==
    /\ \A d, r, f : (f = "ignore" => r = "SwitchOff") => StepSays(Send(d, r, f))
    /\ \A d, r, f : f # "ignore" /\ r \notin StopRequest => Mild(Send(d, r, f))
    /\ \A e, n : e \notin StopEvent /\ n # "TensionOverloaded" => Mild(Tell(e, n))
    /\ \A e : e \notin StopEvent => Mild(Push(e))
    /\ \A n : n # "TensionOverloaded" => Mild(Notify(n))
    /\ \A d : StepSays(OffCall(d))
  BY DEF StepSays, Mild, Send, Tell, Push, Notify, OffCall, StopEvent

LEMMA MildSays ==
    ASSUME NEW next, NEW event, NEW A, \A s \in Elements(A) : Mild(s)
    PROVE  ActionSays(next, event, A)
  BY DEF Mild, ActionSays

LEMMA StopSays ==
    ASSUME NEW next, NEW event, NEW A, \A s \in Elements(A) : StepSays(s),
           next = "Error" \/ event \in StopEvent
    PROVE  ActionSays(next, event, A)
  BY DEF ActionSays

\* The actions that stop something, and the events that they follow.
LEMMA StopEntries ==
    /\ \A t \in MachineTable :
          /\ t.action \in {"switchOff", "stopMachine"} => t.event \in StopEvent
          /\ t.action = "handleError" => t.next = "Error"
          /\ t.event \in StopEvent => t.event \in {"SwitchOff", "Stop"}
    /\ \A t \in MergerTable :
          /\ t.action \in {"switchOff", "stopMerger"} => t.event \in StopEvent
          /\ t.action = "handleError" => t.next = "Error"
    /\ \A t \in CoilTable :
          /\ t.action \in {"switchOff", "stopMotor"} => t.event \in StopEvent
          /\ t.action = "handleError" => t.next = "Error"
    /\ \A t \in MotorTable :
          /\ t.action \in {"switchOff", "stopMotor"} => t.event \in StopEvent
          /\ t.action = "handleError" => t.next = "Error"
          /\ t.action \in {"none", "switchOn", "startMotor", "stopMotor", "switchOff",
                           "handleError"}
    /\ \A t \in HeaterTable :
          /\ t.action = "switchOff" => t.event \in StopEvent
          /\ t.action = "handleError" => t.next = "Error"
          /\ t.action \in {"none", "switchOn", "startHeating", "stopHeating", "switchOff",
                           "handleError"}
    /\ \A t \in SensorTable :
          /\ t.action = "switchOn" => t.state = "Off" /\ t.next = "Initialization"
          /\ t.state = "Initialization" =>
                t.event \in {"SwitchOff", "ErrorOccurred", "SwitchOnSucceeded"}
          /\ t.state = "Off" /\ t.next = "Initialization" => t.action = "switchOn"
  <1>1. ASSUME NEW t \in MachineTable
        PROVE  /\ t.action \in {"switchOff", "stopMachine"} => t.event \in StopEvent
               /\ t.action = "handleError" => t.next = "Error"
               /\ t.event \in StopEvent => t.event \in {"SwitchOff", "Stop"}
    BY MachineEntries DEF StopEvent
  <1>2. ASSUME NEW t \in MergerTable
        PROVE  /\ t.action \in {"switchOff", "stopMerger"} => t.event \in StopEvent
               /\ t.action = "handleError" => t.next = "Error"
    BY EntryForm DEF MergerTable, CommonEntries, ErrorEntries, StopEvent
  <1>3. ASSUME NEW t \in CoilTable
        PROVE  /\ t.action \in {"switchOff", "stopMotor"} => t.event \in StopEvent
               /\ t.action = "handleError" => t.next = "Error"
    BY EntryForm DEF CoilTable, CoilResume, CommonEntries, ErrorEntries, StopEvent
  <1>4. ASSUME NEW t \in MotorTable
        PROVE  /\ t.action \in {"switchOff", "stopMotor"} => t.event \in StopEvent
               /\ t.action = "handleError" => t.next = "Error"
               /\ t.action \in {"none", "switchOn", "startMotor", "stopMotor", "switchOff",
                                "handleError"}
    BY EntryForm DEF MotorTable, ErrorEntries, StopEvent
  <1>5. ASSUME NEW t \in HeaterTable
        PROVE  /\ t.action = "switchOff" => t.event \in StopEvent
               /\ t.action = "handleError" => t.next = "Error"
               /\ t.action \in {"none", "switchOn", "startHeating", "stopHeating", "switchOff",
                                "handleError"}
    BY EntryForm DEF HeaterTable, CommonEntries, ErrorEntries, StopEvent
  <1>6. ASSUME NEW t \in SensorTable
        PROVE  /\ t.action = "switchOn" => t.state = "Off" /\ t.next = "Initialization"
               /\ t.state = "Initialization" =>
                     t.event \in {"SwitchOff", "ErrorOccurred", "SwitchOnSucceeded"}
               /\ t.state = "Off" /\ t.next = "Initialization" => t.action = "switchOn"
    BY EntryForm DEF SensorTable, CommonEntries, ErrorEntries, SensorStates
  <1>7. QED
    BY <1>1, <1>2, <1>3, <1>4, <1>5, <1>6

LEMMA MachineActionSays ==
    ASSUME NEW t \in MachineTable
    PROVE  ActionSays(t.next, t.event, MachineAction(t.action, t.event))
  <1> DEFINE A == MachineAction(t.action, t.event)
  <1>1. CASE t.action \in {"switchOff", "handleError"}
    <2>1. /\ t.action = "switchOff" => A = Append(MachineSwitchOff, Notify("SwitchedOff"))
          /\ t.action = "handleError" => A = Append(MachineSwitchOff, Notify("ErrorOccurred"))
      BY DEF MachineAction
    <2>2. \A n : Elements(Append(MachineSwitchOff, Notify(n))) =
              {OffCall("FilamentMergerControl"), OffCall("FilamentCoilControl"), Notify(n)}
      BY JoinedTuples DEF MachineSwitchOff, SwitchOffComponent, OffCall
    <2>3. ASSUME NEW n \in {"SwitchedOff", "ErrorOccurred"},
                 A = Append(MachineSwitchOff, Notify(n))
          PROVE  \A s \in Elements(A) : StepSays(s)
      BY <2>2, <2>3, StepsSay DEF Mild
    <2>4. \A s \in Elements(A) : StepSays(s)
      BY <1>1, <2>1, <2>3
    <2>5. QED
      BY <1>1, <2>4, StopEntries, StopSays
  <1>2. CASE t.action = "stopMachine"
    <2>1. A = << Send("FilamentMergerControl", "StopFeeding", "return"),
                 Send("FilamentCoilControl", "StopCoil", "return") >>
      BY <1>2 DEF MachineAction
    <2>2. \A s \in Elements(A) : StepSays(s)
      BY <2>1, TupleElements, StepsSay
    <2>3. QED
      BY <1>2, <2>2, StopEntries, StopSays
  <1>3. CASE t.action = "switchOn"
    <2>1. A = << Send("FilamentMergerControl", "SwitchOn", "return"),
                 Send("FilamentCoilControl", "SwitchOn", "return"),
                 Push("SwitchOnSucceeded") >>
      BY <1>3 DEF MachineAction
    <2>2. \A s \in Elements(A) : Mild(s)
      BY <2>1, TupleElements, StepsSay DEF StopRequest, StopEvent
    <2>3. QED
      BY <2>2, MildSays
  <1>4. CASE t.action = "startHeating"
    <2>1. A = << Send("FilamentMergerControl", "StartHeating", "continue"), Notify("HeatingUp") >>
      BY <1>4 DEF MachineAction
    <2>2. \A s \in Elements(A) : Mild(s)
      BY <2>1, TupleElements, StepsSay DEF StopRequest, StopEvent
    <2>3. QED
      BY <2>2, MildSays
  <1>5. CASE t.action = "startMachine"
    <2>1. PICK r \in {"StartCoil", "StartCoilHeatless"} :
              A = << Send("FilamentMergerControl", "SetMotorSpeed", "return"),
                     Send("FilamentMergerControl", "StartFeeding", "return"),
                     Send("FilamentCoilControl", "SetMotorSpeed", "return"),
                     Send("FilamentCoilControl", r, "return"),
                     Notify("Starting") >>
      BY <1>5 DEF MachineAction, StartMachine
    <2>2. \A s \in Elements(A) : Mild(s)
      BY <2>1, TupleElements, StepsSay DEF StopRequest, StopEvent
    <2>3. QED
      BY <2>2, MildSays
  <1>6. CASE t.action \in {"checkStartingState", "checkStoppingState", "notifyStopped"}
    <2>1. \/ A = << Tell("StartingSucceeded", "Running") >>
          \/ A = << Tell("StoppingSucceeded", "Stopped") >>
          \/ A = << Notify("Stopped") >>
          \/ A = <<>>
      BY <1>6 DEF MachineAction, CheckStartingState, CheckStoppingState
    <2>2. \A s \in Elements(A) : Mild(s)
      BY <2>1, TupleElements, StepsSay DEF StopEvent
    <2>3. QED
      BY <2>2, MildSays
  <1>7. CASE t.action \notin {"switchOn", "startHeating", "startMachine", "stopMachine",
                              "checkStartingState", "checkStoppingState", "notifyStopped",
                              "switchOff", "handleError"}
    <2>1. A = <<>>
      BY <1>7 DEF MachineAction
    <2>2. QED
      BY <2>1, TupleElements, MildSays
  <1>8. QED
    BY <1>1, <1>2, <1>3, <1>4, <1>5, <1>6, <1>7

LEMMA MergerActionSays ==
    ASSUME NEW t \in MergerTable
    PROVE  ActionSays(t.next, t.event, MergerAction(t.action))
  <1> DEFINE A == MergerAction(t.action)
  <1>1. CASE t.action = "switchOff"
    <2>1. A = << OffCall("FilamentFeederMotor") >>
              \o << OffCall("FilamentMergerHeater"), OffCall("FilamentPreHeater") >>
      BY <1>1 DEF MergerAction, MergerSwitchOff, HeatersOff, SwitchOffComponent, OffCall
    <2>2. \A s \in Elements(A) : StepSays(s)
      BY <2>1, JoinedTuples, StepsSay
    <2>3. QED
      BY <1>1, <2>2, StopEntries, StopSays
  <1>2. CASE t.action = "handleError"
    <2>1. A = Append(<< OffCall("FilamentFeederMotor") >>
                        \o << OffCall("FilamentMergerHeater"), OffCall("FilamentPreHeater") >>,
                     Notify("ErrorOccurred"))
      BY <1>2 DEF MergerAction, MergerSwitchOff, HeatersOff, SwitchOffComponent, OffCall
    <2>2. \A s \in Elements(A) : StepSays(s)
      BY <2>1, JoinedTuples, StepsSay DEF Mild
    <2>3. QED
      BY <1>2, <2>2, StopEntries, StopSays
  <1>3. CASE t.action = "stopMerger"
    <2>1. A = << Send("FilamentMergerHeater", "SwitchOff", "ignore"),
                 Send("FilamentPreHeater", "SwitchOff", "ignore") >>
              \o << Send("FilamentFeederMotor", "StopMotor", "continue"),
                    Notify("FeedingStopped") >>
      BY <1>3 DEF MergerAction, HeatersOff, SwitchOffComponent
    <2>2. \A s \in Elements(A) : StepSays(s)
      BY <2>1, JoinedTuples, StepsSay DEF Mild
    <2>3. QED
      BY <1>3, <2>2, StopEntries, StopSays
  <1>4. CASE t.action = "switchOn"
    <2>1. A = << Send("FilamentFeederMotor", "SwitchOn", "return"), Push("SwitchOnSucceeded") >>
      BY <1>4 DEF MergerAction
    <2>2. \A s \in Elements(A) : Mild(s)
      BY <2>1, TupleElements, StepsSay DEF StopRequest, StopEvent
    <2>3. QED
      BY <2>2, MildSays
  <1>5. CASE t.action = "heatingUp"
    <2>1. A = << Send("FilamentPreHeater", "SwitchOn", "continue"),
                 Send("FilamentMergerHeater", "SwitchOn", "continue") >>
      BY <1>5 DEF MergerAction
    <2>2. \A s \in Elements(A) : Mild(s)
      BY <2>1, TupleElements, StepsSay DEF StopRequest, StopEvent
    <2>3. QED
      BY <2>2, MildSays
  <1>6. CASE t.action \in {"notifyHeatedUp", "startMotor", "notifyRunning"}
    <2>1. \/ A = << Notify("HeatedUp") >>
          \/ A = << Send("FilamentFeederMotor", "StartMotor", "return") >>
          \/ A = << Notify("FeedingRunning") >>
      BY <1>6 DEF MergerAction
    <2>2. \A s \in Elements(A) : Mild(s)
      BY <2>1, TupleElements, StepsSay DEF StopRequest, StopEvent
    <2>3. QED
      BY <2>2, MildSays
  <1>7. CASE t.action \notin {"switchOn", "heatingUp", "notifyHeatedUp", "startMotor",
                              "notifyRunning", "stopMerger", "switchOff", "handleError"}
    <2>1. A = <<>>
      BY <1>7 DEF MergerAction
    <2>2. QED
      BY <2>1, TupleElements, MildSays
  <1>8. QED
    BY <1>1, <1>2, <1>3, <1>4, <1>5, <1>6, <1>7

LEMMA CoilActionSays ==
    ASSUME NEW t \in CoilTable
    PROVE  ActionSays(t.next, t.event, CoilAction(t.action))
  <1> DEFINE A == CoilAction(t.action)
  <1>1. CoilSwitchOff = << OffCall("FilamentCoilMotor"), OffCall("FilamentTensionSensor") >>
    BY DEF CoilSwitchOff, SwitchOffComponent, OffCall
  <1>2. CASE t.action \in {"switchOff", "handleError"}
    <2>1. A = CoilSwitchOff \/ A = Append(CoilSwitchOff, Notify("ErrorOccurred"))
      BY <1>2 DEF CoilAction
    <2>2. Elements(A) \subseteq {OffCall("FilamentCoilMotor"), OffCall("FilamentTensionSensor"),
                                 Notify("ErrorOccurred")}
      BY <1>1, <2>1, JoinedTuples, TupleElements
    <2>3. \A s \in Elements(A) : StepSays(s)
      BY <2>2, StepsSay DEF Mild
    <2>4. QED
      BY <1>2, <2>3, StopEntries, StopSays
  <1>3. CASE t.action = "stopMotor"
    <2>1. A = << Send("FilamentCoilMotor", "StopMotor", "continue"), Notify("CoilStopped") >>
      BY <1>3 DEF CoilAction
    <2>2. \A s \in Elements(A) : StepSays(s)
      BY <2>1, TupleElements, StepsSay DEF Mild
    <2>3. QED
      BY <1>3, <2>2, StopEntries, StopSays
  <1>4. CASE t.action = "switchOn"
    <2>1. A = << Send("FilamentCoilMotor", "SwitchOn", "return"),
                 Send("FilamentTensionSensor", "SwitchOn", "return"),
                 Push("SwitchOnSucceeded") >>
      BY <1>4 DEF CoilAction
    <2>2. \A s \in Elements(A) : Mild(s)
      BY <2>1, TupleElements, StepsSay DEF StopRequest, StopEvent
    <2>3. QED
      BY <2>2, MildSays
  <1>5. CASE t.action \in {"startMotor", "notifyRunning", "controlFilamentTension"}
    <2>1. \/ A = << Send("FilamentCoilMotor", "StartMotor", "return") >>
          \/ A = << Notify("CoilRunning") >>
          \/ A = << Send("FilamentCoilMotor", "ChangeOffsetSpeed", "return") >>
          \/ A = <<>>
      BY <1>5 DEF CoilAction
    <2>2. \A s \in Elements(A) : Mild(s)
      BY <2>1, TupleElements, StepsSay DEF StopRequest, StopEvent
    <2>3. QED
      BY <2>2, MildSays
  <1>6. CASE t.action \notin {"switchOn", "startMotor", "notifyRunning", "stopMotor",
                              "controlFilamentTension", "switchOff", "handleError"}
    <2>1. A = <<>>
      BY <1>6 DEF CoilAction
    <2>2. QED
      BY <2>1, TupleElements, MildSays
  <1>7. QED
    BY <1>2, <1>3, <1>4, <1>5, <1>6

\* A device tells of its own affairs, and of a call that failed, unless it is told to stop,
\* is in error, or is the tension sensor that did not start.
LEMMA DeviceActionSays ==
    ASSUME NEW c \in Motor \cup Heater \cup {"FilamentTensionSensor"}, NEW t \in Table(c),
           NEW ok \in BOOLEAN, NEW A, A = Action(c, t.action, t.event, ok)
    PROVE  /\ ActionSays(t.next, t.event, A)
           /\ ~ok /\ CanFail(c, t.action) =>
                 \/ t.next = "Error"
                 \/ t.event \in StopEvent
                 \/ \E s \in Elements(A) : s.do = "tell" /\ s.event = "ErrorOccurred"
                 \/ /\ c = "FilamentTensionSensor" /\ t.state = "Off" /\ t.next = "Initialization"
                    /\ A = << Push("SwitchOnFailed") >>
  <1>1. /\ c \in Motor => A = MotorAction(t.action, ok)
        /\ c \in Heater => A = HeaterAction(t.action, ok)
        /\ c = "FilamentTensionSensor" => A = SensorAction(t.action, ok)
        /\ c \in Component
    BY DEF Action, Motor, Heater, Component
  <1>2. \/ A = <<>>
        \/ \E e \in {"SwitchOnSucceeded", "SwitchOnFailed", "ErrorOccurred"} : A = << Push(e) >>
        \/ \E e \in {"StartMotorSucceeded", "StopMotorSucceeded", "ErrorOccurred"} :
              A = << Tell(e, e) >>
        \/ \E n \in {"ErrorOccurred", "TargetTemperatureRangeReached"} : A = << Notify(n) >>
    BY <1>1 DEF MotorAction, HeaterAction, SensorAction
  <1>3. \A s \in Elements(A) : Mild(s)
    BY <1>2, TupleElements, StepsSay DEF StopEvent
  <1>4. ActionSays(t.next, t.event, A)
    BY <1>3, MildSays
  <1>5. ASSUME ~ok, CanFail(c, t.action), t.next # "Error", t.event \notin StopEvent
        PROVE  \/ \E s \in Elements(A) : s.do = "tell" /\ s.event = "ErrorOccurred"
               \/ /\ c = "FilamentTensionSensor" /\ t.state = "Off" /\ t.next = "Initialization"
                  /\ A = << Push("SwitchOnFailed") >>
    <2>1. /\ Push("ErrorOccurred").do = "tell" /\ Push("ErrorOccurred").event = "ErrorOccurred"
          /\ Tell("ErrorOccurred", "ErrorOccurred").do = "tell"
          /\ Tell("ErrorOccurred", "ErrorOccurred").event = "ErrorOccurred"
      BY DEF Push, Tell
    <2>2. CASE c \in Motor
      <3>1. t \in MotorTable /\ t.action # "none" /\ c \notin Heater
        BY <1>1, <1>5, <2>2, TableIs DEF CanFail, Motor, Heater
      <3>2. t.action \in {"switchOn", "startMotor"}
        BY <1>5, <3>1, StopEntries
      <3>3. A = << Push("ErrorOccurred") >> \/ A = << Tell("ErrorOccurred", "ErrorOccurred") >>
        BY <1>1, <1>5, <2>2, <3>2 DEF MotorAction
      <3>4. QED
        BY <2>1, <3>3, TupleElements
    <2>3. CASE c \in Heater
      <3>1. t \in HeaterTable /\ t.action # "none"
        BY <1>1, <1>5, <2>3, TableIs DEF CanFail, Motor, Heater
      <3>2. t.action \in {"switchOn", "startHeating", "stopHeating"}
        BY <1>5, <3>1, StopEntries
      <3>3. A = << Push("ErrorOccurred") >>
        BY <1>1, <1>5, <2>3, <3>2 DEF HeaterAction
      <3>4. QED
        BY <2>1, <3>3, TupleElements
    <2>4. CASE c = "FilamentTensionSensor"
      <3>1. t \in SensorTable /\ t.action = "switchOn"
        BY <1>1, <1>5, <2>4, TableIs DEF CanFail, Motor, Heater
      <3>2. A = << Push("SwitchOnFailed") >>
        BY <1>1, <1>5, <2>4, <3>1 DEF SensorAction
      <3>3. QED
        BY <2>4, <3>1, <3>2, StopEntries
    <2>5. QED
      BY <2>2, <2>3, <2>4
  <1>6. QED
    BY <1>4, <1>5

LEMMA EveryActionSays ==
    ASSUME NEW c \in Component, NEW t \in Table(c), NEW ok \in BOOLEAN
    PROVE  ActionSays(t.next, t.event, Action(c, t.action, t.event, ok))
  <1>1. CASE c = "MachineControl"
    <2>1. t \in MachineTable
      BY <1>1, TableIs
    <2>2. QED
      BY <1>1, <2>1, ControlActions, MachineActionSays
  <1>2. CASE c = "FilamentMergerControl"
    <2>1. t \in MergerTable
      BY <1>2, TableIs
    <2>2. QED
      BY <1>2, <2>1, ControlActions, MergerActionSays
  <1>3. CASE c = "FilamentCoilControl"
    <2>1. t \in CoilTable
      BY <1>3, TableIs
    <2>2. QED
      BY <1>3, <2>1, ControlActions, CoilActionSays
  <1>4. CASE c \in Motor \cup Heater \cup {"FilamentTensionSensor"}
    BY <1>4, DeviceActionSays
  <1>5. QED
    BY <1>1, <1>2, <1>3, <1>4, Components

\* Only what is off is switched on.
LEMMA SwitchOnEntries ==
    ASSUME NEW c \in Component, NEW t \in Table(c), t.event = "SwitchOn"
    PROVE  t.state = "Off"
  <1>1. ASSUME NEW S, t \in CommonEntries(S) PROVE t.state = "Off"
    BY <1>1, EntryForm DEF CommonEntries, ErrorEntries
  <1>2. ASSUME t \in MachineTable PROVE t.state = "Off"
    BY <1>1, <1>2, EntryForm DEF MachineTable
  <1>3. ASSUME t \in MergerTable PROVE t.state = "Off"
    BY <1>1, <1>3, EntryForm DEF MergerTable
  <1>4. ASSUME t \in CoilTable PROVE t.state = "Off"
    BY <1>1, <1>4, EntryForm DEF CoilTable, CoilResume
  <1>5. ASSUME t \in MotorTable PROVE t.state = "Off"
    BY <1>5, EntryForm DEF MotorTable, ErrorEntries
  <1>6. ASSUME t \in HeaterTable PROVE t.state = "Off"
    BY <1>1, <1>6, EntryForm DEF HeaterTable
  <1>7. ASSUME t \in SensorTable PROVE t.state = "Off"
    BY <1>1, <1>7, EntryForm DEF SensorTable
  <1>8. QED
    BY <1>2, <1>3, <1>4, <1>5, <1>6, <1>7, TableIs, Components

\* A queue in which no switch-on comes after a switch-off.
LEMMA OffLastAppended ==
    ASSUME NEW S, NEW q \in Seq(S), NEW e \in S, OffLast(q),
           e = "SwitchOn" => "SwitchOff" \notin Elements(q)
    PROVE  OffLast(Append(q, e))
  <1> DEFINE r == Append(q, e)
             n == Len(q)
  <1>1. /\ n \in Nat /\ DOMAIN q = 1..n /\ DOMAIN r = 1..(n + 1)
        /\ \A i \in 1..n : r[i] = q[i]
        /\ r[n + 1] = e
    OBVIOUS
  <1> HIDE DEF r, n
  <1>2. ASSUME NEW i \in DOMAIN r, NEW j \in DOMAIN r, r[i] = "SwitchOff", i < j
        PROVE  r[j] # "SwitchOn"
    <2>1. i \in DOMAIN q /\ q[i] = "SwitchOff"
      BY <1>1, <1>2
    <2>2. CASE j = n + 1
      <3>1. "SwitchOff" \in Elements(q)
        BY <2>1 DEF Elements
      <3>2. QED
        BY <1>1, <2>2, <3>1
    <2>3. CASE j # n + 1
      <3>1. j \in DOMAIN q /\ r[j] = q[j]
        BY <1>1, <2>3
      <3>2. QED
        BY <1>2, <2>1, <3>1 DEF OffLast
    <2>4. QED
      BY <2>2, <2>3
  <1>3. QED
    BY <1>2 DEF r, OffLast

LEMMA OffLastTail ==
    ASSUME NEW S, NEW q \in Seq(S), q # <<>>, OffLast(q)
    PROVE  /\ OffLast(Tail(q))
           /\ Head(q) = "SwitchOff" => "SwitchOn" \notin Elements(Tail(q))
  <1> DEFINE r == Tail(q)
             n == Len(q)
  <1>1. /\ n \in Nat \ {0} /\ DOMAIN q = 1..n /\ DOMAIN r = 1..(n - 1)
        /\ \A i \in 1..(n - 1) : r[i] = q[i + 1]
        /\ Head(q) = q[1]
    OBVIOUS
  <1> HIDE DEF r, n
  <1>2. ASSUME NEW i \in DOMAIN r, NEW j \in DOMAIN r, r[i] = "SwitchOff", i < j
        PROVE  r[j] # "SwitchOn"
    <2>1. /\ i + 1 \in DOMAIN q /\ j + 1 \in DOMAIN q /\ i + 1 < j + 1
          /\ q[i + 1] = "SwitchOff" /\ r[j] = q[j + 1]
      BY <1>1, <1>2
    <2>2. QED
      BY <2>1 DEF OffLast
  <1>3. ASSUME Head(q) = "SwitchOff", NEW j \in DOMAIN r PROVE r[j] # "SwitchOn"
    <2>1. 1 \in DOMAIN q /\ j + 1 \in DOMAIN q /\ 1 < j + 1 /\ r[j] = q[j + 1]
      BY <1>1
    <2>2. QED
      BY <1>1, <1>3, <2>1 DEF OffLast
  <1>4. QED
    BY <1>2, <1>3 DEF r, OffLast, Elements

\* The orders stay as they are, and MachineControl's queue may get an event that neither
\* switches on nor stops.
LEMMA LastKeeps ==
    ASSUME IInv, LastInv, UNCHANGED orders,
           \A c \in Component : io'[c] \notin StopEvent \cup {"SwitchOn", "SwitchOnSucceeded"},
           \/ queue'["MachineControl"] = queue["MachineControl"]
           \/ \E e \in Event \ (StopEvent \cup {"SwitchOn"}) :
                 queue'["MachineControl"] = Append(queue["MachineControl"], e)
    PROVE  /\ LastInv'
           /\ "SwitchOn" \in Elements(queue'["MachineControl"]) =>
                 "SwitchOn" \in Elements(queue["MachineControl"])
  <1> DEFINE q == queue["MachineControl"]
             r == queue'["MachineControl"]
  <1>1. q \in Seq(Event)
    BY DEF IInv, MachineInvariant, TypeOK, Component, Control
  <1>2. CASE r = q
    BY <1>2 DEF LastInv, OffLast, StopEvent
  <1>3. CASE r # q
    <2>1. PICK e \in Event \ (StopEvent \cup {"SwitchOn"}) : r = Append(q, e)
      BY <1>3
    <2>2. Elements(r) = Elements(q) \cup {e} /\ e \notin {"SwitchOff", "Stop", "SwitchOn"}
      BY <1>1, <2>1, AppendedElements DEF StopEvent
    <2>3. OffLast(r)
      BY <1>1, <2>1, <2>2, OffLastAppended DEF LastInv
    <2> HIDE DEF q, r
    <2>4. /\ "Stop" \notin Elements(orders) \cup Elements(r)
          /\ \A i \in DOMAIN orders : orders[i] = "SwitchOff" => i = Len(orders)
          /\ "SwitchOff" \in Elements(r) => orders = <<>>
      BY <2>2 DEF LastInv, q
    <2>5. OffLast(queue["MachineControl"])'
      BY <2>3 DEF r, OffLast
    <2>6. QED
      BY <2>2, <2>4, <2>5 DEF LastInv, q, r, StopEvent
  <1>4. QED
    BY <1>2, <1>3

\* An error is reported as long as the rest of the action, the notifications and the queue
\* of the subscriber keep it.
LEMMA ReportingStays ==
    ASSUME NEW c \in Publisher, Reporting(c),
           "ErrorOccurred" \in Elements(queue[Subscriber(c)]) =>
              "ErrorOccurred" \in Elements(queue'[Subscriber(c)]),
           \A s \in Elements(todo[c]) : s.do = "tell" /\ s.notification = "ErrorOccurred" =>
              \/ s \in Elements(todo'[c])
              \/ "ErrorOccurred" \in Elements(mail'[c]),
           "ErrorOccurred" \in Elements(mail[c]) =>
              \/ "ErrorOccurred" \in Elements(mail'[c])
              \/ "ErrorOccurred" \in Elements(queue'[Subscriber(c)])
    PROVE  Reporting(c)'
  <1>1. CASE \E s \in Elements(todo[c]) : s.do = "tell" /\ s.notification = "ErrorOccurred"
    BY <1>1 DEF Reporting
  <1>2. CASE "ErrorOccurred" \in Elements(mail[c])
    BY <1>2 DEF Reporting
  <1>3. CASE "ErrorOccurred" \in Elements(queue[Subscriber(c)])
    BY <1>3 DEF Reporting
  <1>4. QED
    BY <1>1, <1>2, <1>3 DEF Reporting

-----------------------------------------------------------------------------
(* Every step but a transition keeps the invariant of failures. *)

\* What a step leaves of the queues: errors stay, nobody is told to stop but below a
\* component in error, and the tension sensor does not leave its state by itself.
QueuesStay ==
    /\ \A c \in Component :
          "ErrorOccurred" \in Elements(queue[c]) => "ErrorOccurred" \in Elements(queue'[c])
    /\ \A c \in Publisher : \A e \in StopEvent :
          e \in Elements(queue'[c]) =>
             e \in Elements(queue[c]) \/ At(Subscriber(c), "Error") \/ Ended
    /\ "SwitchOnSucceeded" \in Elements(queue'["FilamentTensionSensor"]) =>
          \/ "SwitchOnSucceeded" \in Elements(queue["FilamentTensionSensor"])
          \/ Raises("FilamentTensionSensor", "SwitchOnSucceeded")
    /\ "SwitchOn" \in Elements(queue'["MachineControl"]) \cup Elements(orders') =>
          "SwitchOn" \in Elements(queue["MachineControl"]) \cup Elements(orders)

\* What it leaves of the actions: only an error is added, and none is passed over.
ActionsStay ==
    \A c \in Component :
       /\ Elements(todo'[c]) \subseteq Elements(todo[c]) \cup {Push("ErrorOccurred")}
       /\ Raises(c, "ErrorOccurred") =>
             Raises(c, "ErrorOccurred")' \/ "ErrorOccurred" \in Elements(queue'[c])

LEMMA PushSays ==
    /\ Push("ErrorOccurred").do = "tell"
    /\ Push("ErrorOccurred").event = "ErrorOccurred"
    /\ Push("ErrorOccurred").notification = "none"
    /\ StepSays(Push("ErrorOccurred"))
  BY DEF Push, Tell, StepSays, StopEvent

LEMMA AlarmStays ==
    ASSUME Alarm, QueuesStay, ActionsStay, UNCHANGED state
    PROVE  Alarm'
  <1>1. PICK c \in Component : \/ At(c, "Error")
                               \/ "ErrorOccurred" \in Elements(queue[c])
                               \/ Raises(c, "ErrorOccurred")
    BY DEF Alarm
  <1>2. \/ At(c, "Error")'
        \/ "ErrorOccurred" \in Elements(queue'[c])
        \/ Raises(c, "ErrorOccurred")'
    BY <1>1 DEF QueuesStay, ActionsStay, At
  <1>3. QED
    BY <1>2 DEF Alarm

LEMMA SensorStaysOn ==
    ASSUME NEW s, SensorStays(s), QueuesStay, ActionsStay, UNCHANGED state
    PROVE  SensorStays(s)'
  <1>1. "FilamentTensionSensor" \in Component
    BY DEF Component
  <1>2. At("FilamentTensionSensor", s)'
    BY DEF SensorStays, At
  <1>3. "SwitchOnSucceeded" \notin Elements(queue'["FilamentTensionSensor"])
    BY DEF SensorStays, QueuesStay
  <1>4. ~Raises("FilamentTensionSensor", "SwitchOnSucceeded")'
    <2>1. ASSUME NEW r \in Elements(todo'["FilamentTensionSensor"]),
                 r.do = "tell", r.event = "SwitchOnSucceeded"
          PROVE  FALSE
      <3>1. r \in Elements(todo["FilamentTensionSensor"])
        BY <1>1, <2>1, PushSays DEF ActionsStay
      <3>2. QED
        BY <2>1, <3>1 DEF SensorStays, Raises
    <2>2. QED
      BY <2>1 DEF Raises
  <1>5. QED
    BY <1>2, <1>3, <1>4 DEF SensorStays

LEMMA SurfaceKeeps ==
    ASSUME SurfaceInv, LastInv', QueuesStay, ActionsStay, UNCHANGED <<state, broken>>,
           \A c \in Publisher : Reporting(c) => Reporting(c)',
           "TensionOverloaded" \in Elements(mail'["FilamentTensionSensor"]) =>
              "TensionOverloaded" \in Elements(mail["FilamentTensionSensor"]),
           \A o \in late' : o \in late \/ o.what \notin StopRequest \/ At(o.from, "Error") \/ Ended,
           failed' = failed \/ Alarm' \/ Ended
    PROVE  SurfaceInv'
  <1>1. Ended => Ended'
    BY DEF Ended, At, QueuesStay
  <1>2. SayInv'
    <2> SUFFICES ASSUME NEW c \in Component, NEW s \in Elements(todo'[c]) PROVE StepSays(s)
      BY DEF SayInv, StepSays
    <2>1. s \in Elements(todo[c]) \/ s = Push("ErrorOccurred")
      BY DEF ActionsStay
    <2>2. QED
      BY <2>1, PushSays DEF SurfaceInv, SayInv
  <1>3. CallsInv'
    <2> SUFFICES ASSUME ~Ended, ~Ended'
                 PROVE  /\ \A c \in Control : ~At(c, "Error")' =>
                              /\ \A s \in Elements(todo'[c]) :
                                    s.do = "send" => s.what \notin StopRequest
                              /\ \A o \in late' : o.from = c => o.what \notin StopRequest
                        /\ \A c \in Publisher : ~At(Subscriber(c), "Error")' =>
                              Elements(queue'[c]) \cap StopEvent = {}
                        /\ "TensionOverloaded" \notin Elements(mail'["FilamentTensionSensor"])
      BY <1>1 DEF CallsInv, At, Subscriber, StopRequest, StopEvent, Heater
    <2>1. ASSUME NEW c \in Control, ~At(c, "Error")', NEW s \in Elements(todo'[c]), s.do = "send"
          PROVE  s.what \notin StopRequest
      <3>1. c \in Component /\ ~At(c, "Error")
        BY <2>1 DEF Component, At
      <3>2. s \in Elements(todo[c])
        BY <2>1, <3>1, PushSays DEF ActionsStay
      <3>3. QED
        BY <2>1, <3>1, <3>2 DEF SurfaceInv, CallsInv
    <2>2. ASSUME NEW c \in Control, ~At(c, "Error")', NEW o \in late', o.from = c
          PROVE  o.what \notin StopRequest
      <3>1. ~At(c, "Error")
        BY <2>2 DEF At
      <3>2. QED
        BY <2>2, <3>1 DEF SurfaceInv, CallsInv
    <2>3. ASSUME NEW c \in Publisher, ~At(Subscriber(c), "Error")'
          PROVE  Elements(queue'[c]) \cap StopEvent = {}
      <3>1. ~At(Subscriber(c), "Error")
        BY <2>3 DEF At, Subscriber, Heater
      <3>2. Elements(queue[c]) \cap StopEvent = {}
        BY <3>1 DEF SurfaceInv, CallsInv
      <3>3. QED
        BY <3>1, <3>2 DEF QueuesStay
    <2>4. "TensionOverloaded" \notin Elements(mail'["FilamentTensionSensor"])
      BY DEF SurfaceInv, CallsInv
    <2>5. QED
      BY <2>1, <2>2, <2>3, <2>4
  <1>4. ErrorsInv'
    <2> SUFFICES ASSUME ~Ended, NEW c \in Publisher, At(c, "Error")'
                 PROVE  Reporting(c)' \/ At(Subscriber(c), "Error")'
      BY <1>1 DEF ErrorsInv
    <2>1. Reporting(c) \/ At(Subscriber(c), "Error")
      BY DEF SurfaceInv, ErrorsInv, At
    <2>2. QED
      BY <2>1 DEF At, Subscriber
  <1>5. AlarmInv'
    <2> SUFFICES ASSUME ~Ended
                 PROVE  /\ failed' # {} \/ broken' > 0 => Alarm' \/ SensorStays("Initialization")'
                        /\ At("FilamentTensionSensor", "Off")' => Alarm' \/ SensorStays("Off")'
      BY <1>1 DEF AlarmInv
    <2>1. /\ failed # {} \/ broken > 0 => Alarm \/ SensorStays("Initialization")
          /\ At("FilamentTensionSensor", "Off") => Alarm \/ SensorStays("Off")
      BY DEF SurfaceInv, AlarmInv
    <2>2. At("FilamentTensionSensor", "Off")' => At("FilamentTensionSensor", "Off")
      BY DEF At
    <2>3. failed' # {} \/ broken' > 0 => failed # {} \/ broken > 0 \/ Alarm'
      OBVIOUS
    <2>4. QED
      BY <2>1, <2>2, <2>3, AlarmStays, SensorStaysOn
  <1>6. QED
    BY <1>2, <1>3, <1>4, <1>5 DEF SurfaceInv

\* An event comes that neither switches on nor makes anybody stop.
LEMMA PushedStays ==
    ASSUME IInv, LastInv, NEW c \in Component, NEW e \in Event, HasRoom(c), queue' = Pushed(c, e),
           e \notin StopEvent \/ (c \in Publisher /\ (At(Subscriber(c), "Error") \/ Ended)),
           e = "SwitchOn" => c \in Publisher,
           e = "SwitchOnSucceeded" =>
              c # "FilamentTensionSensor" \/ Raises("FilamentTensionSensor", "SwitchOnSucceeded"),
           UNCHANGED orders,
           \A d \in Component : io'[d] \notin StopEvent \cup {"SwitchOn", "SwitchOnSucceeded"}
    PROVE  /\ QueuesStay
           /\ LastInv'
           /\ Elements(queue'[c]) = Elements(queue[c]) \cup {e}
           /\ \A d \in Component : d # c => queue'[d] = queue[d]
  <1>1. queue[c] \in Seq(Event) /\ DOMAIN queue = Component
    BY DEF IInv, MachineInvariant, TypeOK
  <1>2. queue'[c] = Append(queue[c], e) /\ \A d \in Component : d # c => queue'[d] = queue[d]
    BY <1>1 DEF Pushed
  <1>3. Elements(queue'[c]) = Elements(queue[c]) \cup {e}
    BY <1>1, <1>2, AppendedElements
  <1>4. "MachineControl" \in Component /\ "MachineControl" \notin Publisher
    BY DEF Component, Control, Publisher
  <1>5. /\ LastInv'
        /\ "SwitchOn" \in Elements(queue'["MachineControl"]) =>
              "SwitchOn" \in Elements(queue["MachineControl"])
    <2>1. CASE c = "MachineControl"
      BY <1>2, <1>4, <2>1, LastKeeps
    <2>2. CASE c # "MachineControl"
      BY <1>2, <1>4, <2>2, LastKeeps
    <2>3. QED
      BY <2>1, <2>2
  <1>6. \A d \in Component :
            "ErrorOccurred" \in Elements(queue[d]) => "ErrorOccurred" \in Elements(queue'[d])
    BY <1>2, <1>3
  <1>7. ASSUME NEW d \in Publisher, NEW f \in StopEvent, f \in Elements(queue'[d])
        PROVE  f \in Elements(queue[d]) \/ At(Subscriber(d), "Error") \/ Ended
    <2>1. d \in Component
      BY DEF Publisher
    <2>2. QED
      BY <1>2, <1>3, <1>7, <2>1
  <1>8. "SwitchOnSucceeded" \in Elements(queue'["FilamentTensionSensor"]) =>
            \/ "SwitchOnSucceeded" \in Elements(queue["FilamentTensionSensor"])
            \/ Raises("FilamentTensionSensor", "SwitchOnSucceeded")
    <2>1. "FilamentTensionSensor" \in Component
      BY DEF Component
    <2>2. QED
      BY <1>2, <1>3, <2>1
  <1>9. QueuesStay
    BY <1>5, <1>6, <1>7, <1>8 DEF QueuesStay
  <1>10. QED
    BY <1>2, <1>3, <1>5, <1>9

LEMMA SameQueuesStay ==
    ASSUME IInv, LastInv, UNCHANGED <<queue, orders>>,
           \A d \in Component : io'[d] \notin StopEvent \cup {"SwitchOn", "SwitchOnSucceeded"}
    PROVE  QueuesStay /\ LastInv'
  <1>1. LastInv'
    BY LastKeeps
  <1>2. QueuesStay
    BY DEF QueuesStay
  <1>3. QED
    BY <1>1, <1>2


\* Steps that leave the actions alone.
LEMMA OthersKeepSurface ==
    ASSUME SurfaceInv, LastInv', QueuesStay, UNCHANGED <<state, todo, failed, broken>>,
           \A o \in late' : o \in late \/ o.what \notin StopRequest,
           \A c \in Publisher : "ErrorOccurred" \in Elements(mail[c]) =>
              \/ "ErrorOccurred" \in Elements(mail'[c])
              \/ "ErrorOccurred" \in Elements(queue'[Subscriber(c)]),
           "TensionOverloaded" \in Elements(mail'["FilamentTensionSensor"]) =>
              "TensionOverloaded" \in Elements(mail["FilamentTensionSensor"])
    PROVE  SurfaceInv'
  <1>1. ActionsStay
    BY DEF ActionsStay, Raises
  <1>2. ASSUME NEW c \in Publisher, Reporting(c) PROVE Reporting(c)'
    <2>1. Subscriber(c) \in Component
      BY DEF Subscriber, Component, Control
    <2>2. "ErrorOccurred" \in Elements(queue[Subscriber(c)]) =>
              "ErrorOccurred" \in Elements(queue'[Subscriber(c)])
      BY <2>1 DEF QueuesStay
    <2>3. QED
      BY <1>2, <2>2, ReportingStays
  <1>3. QED
    BY <1>1, <1>2, SurfaceKeeps

LEMMA TellsKeepsSurface ==
    ASSUME IInv, StepsInv, SurfaceInv, AllHaveRoom, NEW c \in Component, Tells(c)
    PROVE  SurfaceInv'
  <1> DEFINE s == Head(todo[c])
             e == s.event
             n == s.notification
  <1>1. /\ ~Idle(c) /\ Goes(c) /\ s.do = "tell"
        /\ e \in Event \cup {"none"} /\ n \in Notices(c)
    BY StepForm DEF Tells, AtStep
  <1>2. /\ s \in Elements(todo[c])
        /\ Elements(todo[c]) = {s} \cup Elements(todo'[c])
        /\ \A d \in Component : d # c => todo'[d] = todo[d]
    BY <1>1, RestOf
  <1>3. e # "SwitchOn" /\ e \notin StopEvent /\ n # "TensionOverloaded"
    BY <1>1, <1>2 DEF StepsInv, StepFits, SurfaceInv, SayInv, StepSays
  <1>4. UNCHANGED <<state, io, orders, late, failed, broken>>
    BY DEF Tells, calls, budget
  <1>5. \A d \in Component : io'[d] \notin StopEvent \cup {"SwitchOn", "SwitchOnSucceeded"}
    BY <1>4 DEF SurfaceInv, LastInv
  <1>6. /\ QueuesStay
        /\ LastInv'
        /\ e = "ErrorOccurred" => "ErrorOccurred" \in Elements(queue'[c])
    <2>1. CASE e = "none"
      BY <1>4, <1>5, <2>1, SameQueuesStay DEF Tells, Own, SurfaceInv
    <2>2. CASE e # "none"
      <3>1. queue' = Pushed(c, e) /\ HasRoom(c) /\ e \in Event
        BY <1>1, <2>2 DEF Tells, Own, AllHaveRoom
      <3>2. e = "SwitchOnSucceeded" =>
                c # "FilamentTensionSensor" \/ Raises("FilamentTensionSensor", "SwitchOnSucceeded")
        BY <1>1, <1>2 DEF Raises
      <3>3. QED
        BY <1>3, <1>4, <1>5, <3>1, <3>2, PushedStays DEF SurfaceInv
    <2>3. QED
      BY <2>1, <2>2
  <1>7. /\ \A p \in Publisher : "ErrorOccurred" \in Elements(mail[p]) =>
              "ErrorOccurred" \in Elements(mail'[p])
        /\ c \in Publisher /\ n = "ErrorOccurred" => "ErrorOccurred" \in Elements(mail'[c])
        /\ "TensionOverloaded" \in Elements(mail'["FilamentTensionSensor"]) =>
              "TensionOverloaded" \in Elements(mail["FilamentTensionSensor"])
    <2>1. CASE n = "none" \/ c = "MachineControl"
      <3>1. mail' = mail /\ (n = "ErrorOccurred" => c \notin Publisher)
        BY <2>1 DEF Tells, Publisher
      <3>2. QED
        BY <3>1
    <2>2. CASE n # "none" /\ c # "MachineControl"
      <3>1. c \in Publisher /\ n \in Subscribed(c)
        BY <1>1, <2>2, NoticesOf DEF Publisher
      <3>2. mail' = [mail EXCEPT ![c] = Append(@, n)]
        BY <2>2 DEF Tells
      <3>3. mail[c] \in Seq(Subscribed(c)) /\ DOMAIN mail = Publisher
        BY <3>1 DEF IInv, MachineInvariant, TypeOK
      <3>4. Elements(Append(mail[c], n)) = Elements(mail[c]) \cup {n}
        BY <3>1, <3>3, AppendedElements
      <3>5. mail'[c] = Append(mail[c], n) /\ \A p \in Publisher : p # c => mail'[p] = mail[p]
        BY <3>1, <3>2, <3>3
      <3>6. "FilamentTensionSensor" \in Publisher
        BY DEF Publisher, Component, Control
      <3>7. QED
        BY <1>3, <3>1, <3>4, <3>5, <3>6
    <2>3. QED
      BY <2>1, <2>2
  <1>8. ActionsStay
    <2>1. ASSUME NEW d \in Component, NEW r \in Elements(todo[d]),
                 r.do = "tell", r.event = "ErrorOccurred"
          PROVE  r \in Elements(todo'[d]) \/ "ErrorOccurred" \in Elements(queue'[d])
      BY <1>2, <1>6, <2>1
    <2>2. QED
      BY <1>2, <2>1 DEF ActionsStay, Raises
  <1>9. ASSUME NEW d \in Publisher, Reporting(d) PROVE Reporting(d)'
    <2>1. d \in Component /\ Subscriber(d) \in Component
      BY DEF Publisher, Subscriber, Component, Control
    <2>2. \A r \in Elements(todo[d]) : r.do = "tell" /\ r.notification = "ErrorOccurred" =>
              \/ r \in Elements(todo'[d])
              \/ "ErrorOccurred" \in Elements(mail'[d])
      BY <1>2, <1>7, <2>1
    <2>3. "ErrorOccurred" \in Elements(queue[Subscriber(d)]) =>
              "ErrorOccurred" \in Elements(queue'[Subscriber(d)])
      BY <1>6, <2>1 DEF QueuesStay
    <2>4. QED
      BY <1>7, <1>9, <2>2, <2>3, ReportingStays
  <1>10. QED
    BY <1>4, <1>6, <1>7, <1>8, <1>9, SurfaceKeeps

\* A request that fails and is not passed over leaves an error to report.
LEMMA FailsAlarms ==
    ASSUME IInv, NEW c \in Component, ~Idle(c), Fails(c),
           Head(todo[c]).fails \in {"return", "continue"}
    PROVE  Raises(c, "ErrorOccurred")'
  <1>1. todo[c] \in Seq(StepOf(c)) /\ DOMAIN todo = Component /\ Tail(todo[c]) \in Seq(StepOf(c))
    BY StepForm DEF IInv
  <1>2. Push("ErrorOccurred") \in StepOf(c)
    BY PushIsStep, CommonEvents
  <1>3. \/ todo'[c] = << Push("ErrorOccurred") >>
        \/ todo'[c] = << Push("ErrorOccurred") >> \o Tail(todo[c])
    BY <1>1 DEF Fails
  <1>4. Elements(<< Push("ErrorOccurred") >>) = {Push("ErrorOccurred")}
    BY TupleElements
  <1>5. Elements(<< Push("ErrorOccurred") >> \o Tail(todo[c])) =
            {Push("ErrorOccurred")} \cup Elements(Tail(todo[c]))
    BY <1>1, <1>2, PrefixedElements
  <1>6. Push("ErrorOccurred") \in Elements(todo'[c])
    BY <1>3, <1>4, <1>5
  <1>7. QED
    BY <1>6, PushSays DEF Raises

LEMMA SendsKeepsSurface ==
    ASSUME IInv, StepsInv, SurfaceInv, AllHaveRoom, NEW c \in Component, Sends(c)
    PROVE  SurfaceInv'
  <1> DEFINE s == Head(todo[c])
             t == s.to
             r == s.what
  <1>1. /\ ~Idle(c) /\ s.do = "send" /\ t \in Component /\ r \in Request
        /\ Goes(c) \/ Fails(c)
        /\ queue' = queue \/ (PushesEvent(r) /\ queue' = Pushed(t, EventOf(r)))
        /\ failed' = failed \/ (Fails(c) /\ r # "SwitchOff")
        /\ \A o \in late' \ late :
              \/ o = TimedOut(c, t, r)
              \/ t \in Control /\ o = TimedOut(t, MotorOf(t), "SetMotorSpeed")
    BY SendsForm
  <1>2. /\ s \in Elements(todo[c])
        /\ \A d \in Component : d # c => todo'[d] = todo[d]
        /\ Goes(c) \/ s.fails \notin {"return", "continue"} =>
              Elements(todo[c]) = {s} \cup Elements(todo'[c])
        /\ Elements(todo'[c]) \subseteq Elements(todo[c]) \cup {Push("ErrorOccurred")}
    BY <1>1, RestOf
  <1>3. t \in Publisher /\ Subscriber(t) = c
    BY <1>1, <1>2 DEF StepsInv, StepFits
  <1>4. c \in Control
    BY <1>3 DEF Subscriber, Control
  <1>5. r \in StopRequest => At(c, "Error") \/ Ended
    BY <1>1, <1>2, <1>4 DEF SurfaceInv, CallsInv
  <1>6. UNCHANGED <<state, io, mail, orders, broken>>
    BY DEF Sends
  <1>7. \A d \in Component : io'[d] \notin StopEvent \cup {"SwitchOn", "SwitchOnSucceeded"}
    BY <1>6 DEF SurfaceInv, LastInv
  <1>8. QueuesStay /\ LastInv'
    <2>1. queue' = queue \/ (PushesEvent(r) /\ queue' = Pushed(t, EventOf(r)))
      BY <1>1
    <2>2. CASE queue' = queue
      BY <1>6, <1>7, <2>2, SameQueuesStay DEF SurfaceInv
    <2>3. CASE PushesEvent(r) /\ queue' = Pushed(t, EventOf(r))
      <3>1. EventOf(r) \in Event /\ HasRoom(t)
        BY <1>1, <2>3, RequestEvent DEF AllHaveRoom
      <3>2. /\ EventOf(r) \in StopEvent => r \in StopRequest
            /\ EventOf(r) # "SwitchOnSucceeded"
        BY <1>1 DEF EventOf, Request, StopEvent, StopRequest
      <3>3. EventOf(r) \notin StopEvent
            \/ (t \in Publisher /\ (At(Subscriber(t), "Error") \/ Ended))
        BY <1>3, <1>5, <3>2
      <3> HIDE DEF t, r
      <3>4. QED
        BY <1>1, <1>3, <1>6, <1>7, <2>3, <3>1, <3>2, <3>3, PushedStays DEF SurfaceInv
    <2>4. QED
      BY <2>1, <2>2, <2>3
  <1>9. Fails(c) /\ s.fails \in {"return", "continue"} => Raises(c, "ErrorOccurred")'
    BY <1>1, FailsAlarms
  <1>10. failed' = failed \/ Alarm'
    <2>1. ASSUME Fails(c), r # "SwitchOff" PROVE Alarm'
      <3>1. s.fails # "ignore"
        BY <1>1, <1>2, <2>1 DEF SurfaceInv, SayInv, StepSays
      <3>2. s.fails \in {"return", "continue"}
        BY <1>1, <3>1, StepForm DEF StepOf, Step, Failure
      <3>3. QED
        BY <1>9, <2>1, <3>2 DEF Alarm
    <2>2. QED
      BY <1>1, <2>1
  <1>11. ActionsStay
    <2>1. ASSUME NEW d \in Component
          PROVE  Elements(todo'[d]) \subseteq Elements(todo[d]) \cup {Push("ErrorOccurred")}
      BY <1>2
    <2>2. ASSUME NEW d \in Component, Raises(d, "ErrorOccurred")
          PROVE  Raises(d, "ErrorOccurred")'
      <3>1. CASE d # c
        BY <1>2, <2>2, <3>1 DEF Raises
      <3>2. CASE d = c /\ (Goes(c) \/ s.fails \notin {"return", "continue"})
        BY <1>1, <1>2, <2>2, <3>2 DEF Raises
      <3>3. CASE d = c /\ Fails(c) /\ s.fails \in {"return", "continue"}
        BY <1>9, <3>3
      <3>4. QED
        BY <1>1, <3>1, <3>2, <3>3
    <2>3. QED
      BY <2>1, <2>2 DEF ActionsStay
  <1>12. ASSUME NEW d \in Publisher, Reporting(d) PROVE Reporting(d)'
    <2>1. d \in Component /\ Subscriber(d) \in Component
      BY DEF Publisher, Subscriber, Component, Control
    <2>2. ASSUME NEW q \in Elements(todo[d]), q.do = "tell" /\ q.notification = "ErrorOccurred"
          PROVE  q \in Elements(todo'[d])
      <3>1. CASE d # c
        BY <1>2, <2>1, <2>2, <3>1
      <3>2. CASE d = c
        <4>1. s.fails = "ignore"
          BY <1>1, <1>2, <2>2, <3>2 DEF StepsInv, StepFits
        <4>2. QED
          BY <1>1, <1>2, <2>2, <3>2, <4>1
      <3>3. QED
        BY <3>1, <3>2
    <2>3. "ErrorOccurred" \in Elements(queue[Subscriber(d)]) =>
              "ErrorOccurred" \in Elements(queue'[Subscriber(d)])
      BY <1>8, <2>1 DEF QueuesStay
    <2>4. QED
      BY <1>6, <1>12, <2>2, <2>3, ReportingStays
  <1>13. ASSUME NEW o \in late'
         PROVE  o \in late \/ o.what \notin StopRequest \/ At(o.from, "Error") \/ Ended
    <2>1. /\ TimedOut(c, t, r).from = c /\ TimedOut(c, t, r).what = r
          /\ TimedOut(t, MotorOf(t), "SetMotorSpeed").what \notin StopRequest
      BY DEF TimedOut, StopRequest
    <2>2. QED
      BY <1>1, <1>5, <2>1
  <1>14. QED
    BY <1>6, <1>8, <1>10, <1>11, <1>12, <1>13, SurfaceKeeps

\* A request to stop that timed out has come from a component in error.
LEMMA HandlesLateKeepsSurface ==
    ASSUME IInv, LateFits, SurfaceInv, AllHaveRoom, NEW o \in late, HandlesLate(o)
    PROVE  SurfaceInv'
  <1> DEFINE t == o.to
             r == o.what
  <1>1. /\ t \in Component /\ r \in Request
        /\ queue' = queue \/ (PushesEvent(r) /\ queue' = Pushed(t, EventOf(r)))
        /\ \A x \in late' \ (late \ {o}) : x = TimedOut(t, MotorOf(t), "SetMotorSpeed")
        /\ UNCHANGED <<state, todo, io, mail, orders, failed, broken>>
    BY HandlesLateForm DEF budget
  <1>2. t \in Publisher /\ Subscriber(t) = o.from /\ o.from \in Control
    BY <1>1, Subordinates DEF LateFits
  <1>3. r \in StopRequest => At(Subscriber(t), "Error") \/ Ended
    BY <1>2 DEF SurfaceInv, CallsInv
  <1>4. \A d \in Component : io'[d] \notin StopEvent \cup {"SwitchOn", "SwitchOnSucceeded"}
    BY <1>1 DEF SurfaceInv, LastInv
  <1>5. QueuesStay /\ LastInv'
    <2>1. CASE queue' = queue
      BY <1>1, <1>4, <2>1, SameQueuesStay DEF SurfaceInv
    <2>2. CASE PushesEvent(r) /\ queue' = Pushed(t, EventOf(r))
      <3>1. EventOf(r) \in Event /\ HasRoom(t)
        BY <1>1, <2>2, RequestEvent DEF AllHaveRoom
      <3>2. /\ EventOf(r) \in StopEvent => r \in StopRequest
            /\ EventOf(r) # "SwitchOnSucceeded"
        BY <1>1 DEF EventOf, Request, StopEvent, StopRequest
      <3>3. \/ EventOf(r) \notin StopEvent
            \/ t \in Publisher /\ (At(Subscriber(t), "Error") \/ Ended)
        BY <1>2, <1>3, <3>2
      <3> HIDE DEF t, r
      <3>4. QED
        BY <1>1, <1>2, <1>4, <2>2, <3>1, <3>2, <3>3, PushedStays DEF SurfaceInv
    <2>3. QED
      BY <1>1, <2>1, <2>2
  <1>6. ASSUME NEW x \in late' PROVE x \in late \/ x.what \notin StopRequest
    <2>1. TimedOut(t, MotorOf(t), "SetMotorSpeed").what \notin StopRequest
      BY DEF TimedOut, StopRequest
    <2>2. QED
      BY <1>1, <2>1
  <1>7. QED
    BY <1>1, <1>5, <1>6, OthersKeepSurface

LEMMA DeliversKeepsSurface ==
    ASSUME IInv, SurfaceInv, AllHaveRoom, NEW p \in Publisher, Delivers(p)
    PROVE  SurfaceInv'
  <1> DEFINE n == Head(mail[p])
             c == Subscriber(p)
             e == IF n = "HeatedUp" THEN "MergerHeatedUp" ELSE n
  <1>1. /\ mail[p] \in Seq(Subscribed(p)) /\ mail[p] # <<>> /\ n \in Subscribed(p)
        /\ DOMAIN mail = Publisher /\ mail' = [mail EXCEPT ![p] = Tail(@)]
    BY DEF Delivers, IInv, MachineInvariant, TypeOK
  <1>2. c \in Component /\ DOMAIN io = Component
    BY DEF IInv, Subscriber, Component, Control
  <1>3. UNCHANGED <<state, todo, orders, late, failed, broken>>
    BY DEF Delivers, calls, budget
  <1>4. /\ Elements(mail[p]) = {n} \cup Elements(mail'[p])
        /\ \A q \in Publisher : q # p => mail'[q] = mail[q]
    <2>1. Elements(mail[p]) = {n} \cup Elements(Tail(mail[p]))
      BY <1>1, HeadAndTail
    <2>2. mail'[p] = Tail(mail[p]) /\ \A q \in Publisher : q # p => mail'[q] = mail[q]
      BY <1>1
    <2>3. QED
      BY <2>1, <2>2
  <1>5. "TensionOverloaded" \in Elements(mail'["FilamentTensionSensor"]) =>
            "TensionOverloaded" \in Elements(mail["FilamentTensionSensor"])
    <2>1. "FilamentTensionSensor" \in Publisher
      BY DEF Publisher, Component, Control
    <2>2. QED
      BY <1>4, <2>1
  <1>6. CASE n \in Reports /\ io' = [io EXCEPT ![c] = Concludes(p, n)] /\ UNCHANGED queue
    <2>1. Concludes(p, n) \notin StopEvent \cup {"SwitchOn", "SwitchOnSucceeded"}
      BY DEF Concludes, StopEvent
    <2>2. \A d \in Component : io'[d] \notin StopEvent \cup {"SwitchOn", "SwitchOnSucceeded"}
      BY <1>2, <1>6, <2>1 DEF SurfaceInv, LastInv
    <2>3. QueuesStay /\ LastInv'
      BY <1>3, <1>6, <2>2, SameQueuesStay DEF SurfaceInv
    <2>4. n # "ErrorOccurred"
      BY <1>6 DEF Reports
    <2>5. QED
      BY <1>3, <1>4, <1>5, <2>3, <2>4, OthersKeepSurface
  <1>7. CASE n \notin Reports /\ queue' = Pushed(c, e) /\ UNCHANGED io
    <2>1. /\ e \in Event /\ (n = "ErrorOccurred" => e = "ErrorOccurred")
          /\ e \notin {"SwitchOn", "SwitchOnSucceeded"}
          /\ e \in StopEvent => n = "TensionOverloaded" /\ p = "FilamentTensionSensor"
      <3>1. n \in {"HeatedUp", "ErrorOccurred", "StartMotorSucceeded", "StopMotorSucceeded",
                   "TensionTooLow", "TensionTooHigh", "TensionOverloaded"}
        BY <1>1, <1>7, SubscribedIs DEF Publisher, Component, Control, Reports
      <3>2. n = "TensionOverloaded" => p = "FilamentTensionSensor"
        BY <1>1, SubscribedIs DEF Publisher, Component, Control
      <3>3. e \in Event
        BY <1>1, <1>7, HeardEvent
      <3>4. QED
        BY <3>1, <3>2, <3>3 DEF StopEvent
    <2>2. e \in StopEvent => c \in Publisher /\ Ended
      <3>1. n \in Elements(mail[p])
        BY <1>4
      <3>2. \/ c = "FilamentCoilControl" /\ c \in Publisher
            \/ p # "FilamentTensionSensor"
        BY Subordinates DEF Publisher, Component, Control
      <3>3. QED
        BY <2>1, <3>1, <3>2 DEF SurfaceInv, CallsInv
    <2>3. \A d \in Component : io'[d] \notin StopEvent \cup {"SwitchOn", "SwitchOnSucceeded"}
      BY <1>7 DEF SurfaceInv, LastInv
    <2> HIDE DEF e, c
    <2>4. /\ QueuesStay
          /\ LastInv'
          /\ Elements(queue'[c]) = Elements(queue[c]) \cup {e}
      BY <1>2, <1>3, <1>7, <2>1, <2>2, <2>3, PushedStays DEF AllHaveRoom, SurfaceInv
    <2>5. \A q \in Publisher : "ErrorOccurred" \in Elements(mail[q]) =>
              \/ "ErrorOccurred" \in Elements(mail'[q])
              \/ "ErrorOccurred" \in Elements(queue'[Subscriber(q)])
      BY <1>4, <2>1, <2>4 DEF c
    <2>6. QED
      BY <1>3, <1>5, <2>4, <2>5, OthersKeepSurface
  <1>8. QED
    BY <1>6, <1>7 DEF Delivers

LEMMA IoPushesKeepsSurface ==
    ASSUME IInv, SurfaceInv, AllHaveRoom, NEW c \in Component, IoPushes(c)
    PROVE  SurfaceInv'
  <1> DEFINE e == io[c]
  <1>1. e \in Event /\ e \notin StopEvent \cup {"SwitchOn", "SwitchOnSucceeded"}
    BY DEF IoPushes, IInv, MachineInvariant, TypeOK, SurfaceInv, LastInv
  <1>2. UNCHANGED <<state, todo, mail, orders, late, failed, broken>> /\ queue' = Pushed(c, e)
    BY DEF IoPushes, calls, budget
  <1>3. \A d \in Component : io'[d] \notin StopEvent \cup {"SwitchOn", "SwitchOnSucceeded"}
    <2>1. DOMAIN io = Component /\ io' = [io EXCEPT ![c] = "none"]
      BY DEF IoPushes, IInv
    <2>2. "none" \notin StopEvent
      BY DEF StopEvent
    <2>3. QED
      BY <2>1, <2>2 DEF SurfaceInv, LastInv
  <1>4. QueuesStay /\ LastInv'
    BY <1>1, <1>2, <1>3, PushedStays DEF AllHaveRoom, SurfaceInv
  <1>5. QED
    BY <1>2, <1>4, OthersKeepSurface

LEMMA UserOrdersKeepsSurface ==
    ASSUME IInv, SurfaceInv, AllHaveRoom, UserOrders
    PROVE  SurfaceInv'
  <1> DEFINE q == queue["MachineControl"]
             r == queue'["MachineControl"]
             e == Head(orders)
             n == Len(orders)
  <1>1. /\ "MachineControl" \in Component /\ "MachineControl" \notin Publisher
        /\ "FilamentTensionSensor" \in Component /\ Publisher \subseteq Component
    BY DEF Component, Control, Publisher
  <1>2. /\ orders \in Seq(Order) /\ orders # <<>> /\ orders' = Tail(orders)
        /\ q \in Seq(Event) /\ DOMAIN queue = Component
    BY <1>1 DEF UserOrders, IInv, MachineInvariant, TypeOK
  <1>3. e \in Event
    BY <1>2, CommonEvents, MachineEvents, MergerEvents DEF Order
  <1>4. r = Append(q, e) /\ \A d \in Component : d # "MachineControl" => queue'[d] = queue[d]
    BY <1>1, <1>2 DEF UserOrders, Pushed, AllHaveRoom
  <1>5. Elements(r) = Elements(q) \cup {e}
    BY <1>2, <1>3, <1>4, AppendedElements
  <1>6. Elements(orders) = {e} \cup Elements(orders')
    BY <1>2, HeadAndTail
  <1>7. /\ n \in Nat \ {0} /\ DOMAIN orders = 1..n /\ e = orders[1]
        /\ DOMAIN orders' = 1..(n - 1) /\ Len(orders') = n - 1
        /\ \A i \in 1..(n - 1) : orders'[i] = orders[i + 1]
    BY <1>2
  <1>8. UNCHANGED <<state, todo, io, mail, late, failed, broken>>
    BY DEF UserOrders, calls
  <1>9. QueuesStay
    BY <1>1, <1>4, <1>5, <1>6 DEF QueuesStay
  <1>10. LastInv'
    <2>1. "Stop" \notin Elements(orders') \cup Elements(r)
      BY <1>5, <1>6 DEF SurfaceInv, LastInv
    <2>2. ASSUME NEW i \in DOMAIN orders', orders'[i] = "SwitchOff" PROVE i = Len(orders')
      <3>1. i + 1 \in DOMAIN orders /\ orders[i + 1] = "SwitchOff" /\ i \in 1..(n - 1)
        BY <1>7, <2>2
      <3>2. i + 1 = n
        BY <3>1 DEF SurfaceInv, LastInv
      <3>3. QED
        BY <1>7, <3>1, <3>2
    <2>3. "SwitchOff" \notin Elements(q)
      BY <1>2 DEF SurfaceInv, LastInv
    <2>4. "SwitchOff" \in Elements(r) => orders' = <<>>
      <3>1. e = "SwitchOff" => n = 1
        BY <1>7 DEF SurfaceInv, LastInv
      <3>2. n = 1 => Tail(orders) = <<>>
        BY <1>2
      <3>3. QED
        BY <1>2, <1>5, <2>3, <3>1, <3>2
    <2>5. OffLast(r)
      <3>1. OffLast(q)
        BY DEF SurfaceInv, LastInv
      <3>2. QED
        BY <1>2, <1>3, <1>4, <2>3, <3>1, OffLastAppended
    <2>6. OffLast(queue["MachineControl"])'
      BY <2>5 DEF OffLast
    <2>7. \A c \in Component : io'[c] \notin StopEvent \cup {"SwitchOn", "SwitchOnSucceeded"}
      BY <1>8 DEF SurfaceInv, LastInv
    <2> HIDE DEF q, r, e, n
    <2>8. QED
      BY <2>1, <2>2, <2>4, <2>6, <2>7 DEF LastInv, r, StopEvent
  <1>11. QED
    BY <1>8, <1>9, <1>10, OthersKeepSurface

LEMMA TemperatureReportedKeepsSurface ==
    ASSUME IInv, SurfaceInv, AllHaveRoom, NEW h \in Heater, NEW e \in Temperature,
           TemperatureReported(h, e)
    PROVE  SurfaceInv'
  <1>1. /\ h \in Component /\ e \in Event
        /\ e \notin StopEvent \cup {"SwitchOn", "SwitchOnSucceeded"}
    BY HeaterEvents DEF Component, Temperature, StopEvent
  <1>2. UNCHANGED <<state, todo, io, mail, orders, late, failed, broken>> /\ queue' = Pushed(h, e)
    BY DEF TemperatureReported, calls
  <1>3. \A d \in Component : io'[d] \notin StopEvent \cup {"SwitchOn", "SwitchOnSucceeded"}
    BY <1>2 DEF SurfaceInv, LastInv
  <1>4. QueuesStay /\ LastInv'
    BY <1>1, <1>2, <1>3, PushedStays DEF AllHaveRoom, SurfaceInv
  <1>5. QED
    BY <1>2, <1>4, OthersKeepSurface

\* No overload is reported.
LEMMA TensionReportedKeepsSurface ==
    ASSUME IInv, SurfaceInv, Unstopped, NEW n \in Tension, TensionReported(n)
    PROVE  SurfaceInv'
  <1> DEFINE p == "FilamentTensionSensor"
  <1>1. n \in Subscribed(p) /\ p \in Publisher
    BY SubscribedIs DEF Tension, Publisher, Component, Control
  <1>2. mail[p] \in Seq(Subscribed(p)) /\ DOMAIN mail = Publisher
    BY <1>1 DEF IInv, MachineInvariant, TypeOK
  <1>3. Elements(Append(mail[p], n)) = Elements(mail[p]) \cup {n}
    BY <1>1, <1>2, AppendedElements
  <1>4. mail'[p] = Append(mail[p], n) /\ \A q \in Publisher : q # p => mail'[q] = mail[q]
    BY <1>1, <1>2 DEF TensionReported
  <1>5. UNCHANGED <<state, queue, todo, io, orders, late, failed, broken>>
    BY DEF TensionReported, calls
  <1>6. n # "TensionOverloaded"
    <2>1. reports + 1 \in DOMAIN scenario.sensed /\ n \in scenario.sensed[reports + 1]
      BY DEF TensionReported, Occurs, IInv, MachineInvariant, TypeOK, Scenario
    <2>2. QED
      BY <2>1 DEF Unstopped
  <1>7. \A d \in Component : io'[d] \notin StopEvent \cup {"SwitchOn", "SwitchOnSucceeded"}
    BY <1>5 DEF SurfaceInv, LastInv
  <1>8. QueuesStay /\ LastInv'
    BY <1>5, <1>7, SameQueuesStay DEF SurfaceInv
  <1>9. \A q \in Publisher : "ErrorOccurred" \in Elements(mail[q]) =>
            "ErrorOccurred" \in Elements(mail'[q])
    BY <1>3, <1>4
  <1>10. QED
    BY <1>3, <1>4, <1>5, <1>6, <1>8, <1>9, OthersKeepSurface

\* What a queue that gets shorter keeps.
LEMMA TakenKeepsLast ==
    ASSUME IInv, LastInv, NEW c \in Component, queue[c] # <<>>, queue'[c] = Tail(queue[c]),
           \A d \in Component : d # c => queue'[d] = queue[d],
           UNCHANGED <<io, orders>>
    PROVE  /\ LastInv'
           /\ \A d \in Component : Elements(queue'[d]) \subseteq Elements(queue[d])
           /\ Elements(queue[c]) = {Head(queue[c])} \cup Elements(queue'[c])
  <1> DEFINE q == queue["MachineControl"]
             r == queue'["MachineControl"]
  <1>1. "MachineControl" \in Component
    BY DEF Component, Control
  <1>2. \A d \in Component : queue[d] \in Seq(Event)
    BY DEF IInv, MachineInvariant, TypeOK
  <1>3. Elements(queue[c]) = {Head(queue[c])} \cup Elements(queue'[c])
    BY <1>2, HeadAndTail
  <1>4. \A d \in Component : Elements(queue'[d]) \subseteq Elements(queue[d])
    BY <1>3
  <1>5. OffLast(r)
    <2>1. OffLast(q)
      BY DEF LastInv
    <2>2. CASE c = "MachineControl"
      <3>1. q \in Seq(Event) /\ q # <<>> /\ r = Tail(q)
        BY <1>1, <1>2, <2>2
      <3>2. QED
        BY <2>1, <3>1, OffLastTail
    <2>3. CASE c # "MachineControl"
      BY <1>1, <2>1, <2>3
    <2>4. QED
      BY <2>2, <2>3
  <1>6. OffLast(queue["MachineControl"])'
    BY <1>5 DEF OffLast
  <1>7. Elements(r) \subseteq Elements(q)
    BY <1>1, <1>4
  <1> HIDE DEF q, r
  <1>8. LastInv'
    BY <1>6, <1>7 DEF LastInv, q, r, StopEvent
  <1>9. QED
    BY <1>3, <1>4, <1>8

LEMMA DispatchFailsKeepsSurface ==
    ASSUME IInv, SurfaceInv, NEW c \in Component, DispatchFails(c)
    PROVE  SurfaceInv'
  <1>1. /\ queue[c] # <<>> /\ DOMAIN queue = Component
        /\ state[c] \in StatesOf[c] /\ Entries(c) = {}
    BY DEF DispatchFails, IInv, MachineInvariant, TypeOK
  <1>2. Head(queue[c]) # "ErrorOccurred"
    BY <1>1, AlwaysHandled DEF Entries
  <1>3. queue'[c] = Tail(queue[c]) /\ \A d \in Component : d # c => queue'[d] = queue[d]
    BY <1>1 DEF DispatchFails
  <1>4. UNCHANGED <<state, todo, io, mail, orders, late, failed, broken>>
    BY DEF DispatchFails, calls, budget
  <1>5. /\ LastInv'
        /\ \A d \in Component : Elements(queue'[d]) \subseteq Elements(queue[d])
        /\ Elements(queue[c]) = {Head(queue[c])} \cup Elements(queue'[c])
    BY <1>1, <1>3, <1>4, TakenKeepsLast DEF SurfaceInv
  <1>6. QueuesStay
    <2>1. \A d \in Component :
              "ErrorOccurred" \in Elements(queue[d]) => "ErrorOccurred" \in Elements(queue'[d])
      BY <1>2, <1>3, <1>5
    <2>2. /\ Publisher \subseteq Component
          /\ {"FilamentTensionSensor", "MachineControl"} \subseteq Component
      BY DEF Publisher, Component, Control
    <2>3. QED
      BY <1>4, <1>5, <2>1, <2>2 DEF QueuesStay
  <1>7. QED
    BY <1>4, <1>5, <1>6, OthersKeepSurface

-----------------------------------------------------------------------------
(* A transition keeps the invariant of failures. *)

\* What else a transition leaves alone.
Taken(c, t, ok) == Dispatched(c, t, ok) /\ UNCHANGED orders

LEMMA TakenKeeps ==
    ASSUME IInv, SurfaceInv, NEW c \in Component, NEW t, NEW ok, Taken(c, t, ok)
    PROVE  /\ LastInv'
           /\ \A d \in Component : Elements(queue'[d]) \subseteq Elements(queue[d])
           /\ Elements(queue[c]) = {t.event} \cup Elements(queue'[c])
  <1>1. /\ queue[c] # <<>> /\ queue'[c] = Tail(queue[c]) /\ t.event = Head(queue[c])
        /\ \A d \in Component : d # c => queue'[d] = queue[d]
        /\ UNCHANGED <<io, orders>>
    BY DEF Taken, Dispatched
  <1>2. QED
    BY <1>1, TakenKeepsLast DEF SurfaceInv

\* What has ended, stays so; and a switch-off of MachineControl ends it.
LEMMA TakenEnds ==
    ASSUME IInv, SurfaceInv, NEW c \in Component, NEW t, NEW ok, Taken(c, t, ok),
           Ended \/ (c = "MachineControl" /\ t.event = "SwitchOff")
    PROVE  Ended'
  <1> DEFINE m == "MachineControl"
  <1>1. m \in Component
    BY DEF Component, Control
  <1>2. CASE c # m
    <2>1. state'[m] = state[m] /\ queue'[m] = queue[m] /\ orders' = orders
      BY <1>1, <1>2 DEF Taken, Dispatched
    <2>2. QED
      BY <1>2, <2>1 DEF Ended, At
  <1>3. CASE c = m
    <2>1. /\ t \in Table(m) /\ t.state = state[m] /\ t.event = Head(queue[m]) /\ state'[m] = t.next
          /\ queue[m] \in Seq(Event) /\ queue[m] # <<>> /\ queue'[m] = Tail(queue[m])
          /\ orders' = orders
      BY <1>3 DEF Taken, Dispatched
    <2>2. Elements(queue[m]) = {t.event} \cup Elements(queue'[m])
      BY <1>3, TakenKeeps
    <2>3. CASE t.event = "SwitchOff"
      <3>1. t.next = "Off" /\ "SwitchOff" \in Elements(queue[m])
        BY <1>1, <2>1, <2>2, <2>3, TablesSwitchOff
      <3>2. Elements(orders) = {}
        BY <3>1, TupleElements DEF SurfaceInv, LastInv
      <3>3. "SwitchOn" \notin Elements(queue'[m])
        BY <2>1, <2>3, OffLastTail DEF SurfaceInv, LastInv
      <3>4. QED
        BY <2>1, <3>1, <3>2, <3>3 DEF Ended, At
    <2>4. CASE Ended /\ t.event # "SwitchOff"
      <3>1. t.event # "SwitchOn"
        <4>1. t.event = "SwitchOn" => t.state = "Off"
          BY <1>1, <2>1, SwitchOnEntries
        <4>2. QED
          BY <2>1, <2>2, <2>4, <4>1 DEF Ended, At
      <3>2. t.state \in Down
        BY <2>1, <2>4 DEF Ended, At, Down
      <3>3. t.next \in Down /\ (t.next = "Off" => t.event = "SwitchOff")
        BY <1>1, <2>1, <3>1, <3>2, TablesSwitchOff
      <3>4. t.next = "Error"
        BY <2>4, <3>3 DEF Down
      <3>5. QED
        BY <2>1, <3>4 DEF Ended, At
    <2>5. QED
      BY <1>3, <2>3, <2>4
  <1>4. QED
    BY <1>2, <1>3

\* Only what is next to the hardware and below a component in error takes an event that
\* makes it stop.
LEMMA TakenStops ==
    ASSUME IInv, SurfaceInv, NEW c \in Component, NEW t, NEW ok, Taken(c, t, ok),
           ~Ended', t.event \in StopEvent
    PROVE  /\ c \in Publisher \ Control
           /\ At(Subscriber(c), "Error")
           /\ At(Subscriber(c), "Error")'
  <1>1. ~Ended
    BY TakenEnds
  <1>2. t.event \in Elements(queue[c])
    BY TakenKeeps
  <1>3. c # "MachineControl"
    <2>1. ASSUME c = "MachineControl" PROVE FALSE
      <3>1. t \in MachineTable
        BY <2>1, TableIs DEF Taken, Dispatched
      <3>2. t.event # "SwitchOff"
        BY <2>1, TakenEnds
      <3>3. t.event # "Stop"
        BY <1>2, <2>1 DEF SurfaceInv, LastInv
      <3>4. QED
        BY <3>1, <3>2, <3>3, StopEntries
    <2>2. QED
      BY <2>1
  <1>4. c \in Publisher
    BY <1>3 DEF Publisher
  <1>5. At(Subscriber(c), "Error")
    BY <1>1, <1>2, <1>4 DEF SurfaceInv, CallsInv
  <1>6. Subscriber(c) # "MachineControl"
    BY <1>1, <1>5 DEF Ended
  <1>7. c \notin Control
    BY <1>3, <1>6, Subordinates DEF Control
  <1>8. Subscriber(c) # c /\ Subscriber(c) \in Component
    BY <1>4, Subordinates DEF Component, Control
  <1>9. At(Subscriber(c), "Error")'
    BY <1>5, <1>8 DEF Taken, Dispatched, At
  <1>10. QED
    BY <1>4, <1>5, <1>7, <1>9

\* A component leaves its error state when it is switched off.
LEMMA TakenLeaves ==
    ASSUME IInv, SurfaceInv, NEW c \in Component, NEW t, NEW ok, Taken(c, t, ok),
           ~Ended', NEW d \in Component, At(d, "Error"), ~At(d, "Error")'
    PROVE  d = c /\ t.event \in StopEvent
  <1>1. d = c
    BY DEF Taken, Dispatched, At
  <1>2. t \in Table(c) /\ t.state = "Error" /\ t.next # "Error"
    BY <1>1 DEF Taken, Dispatched, At
  <1>3. t.event # "SwitchOn"
    BY <1>2, SwitchOnEntries
  <1>4. t.next \in Down /\ (t.next = "Off" => t.event = "SwitchOff")
    BY <1>2, <1>3, TablesSwitchOff DEF Down
  <1>5. QED
    BY <1>1, <1>2, <1>4 DEF Down, StopEvent

\* So no component that has others below it does.
LEMMA TakenControls ==
    ASSUME IInv, SurfaceInv, NEW c \in Component, NEW t, NEW ok, Taken(c, t, ok),
           ~Ended', NEW d \in Control, At(d, "Error")
    PROVE  At(d, "Error")'
  <1>1. d \in Component
    BY DEF Component
  <1>2. QED
    BY <1>1, TakenLeaves, TakenStops

LEMMA TakenSays ==
    ASSUME IInv, SurfaceInv, NEW c \in Component, NEW t, NEW ok, Taken(c, t, ok)
    PROVE  SayInv'
  <1> SUFFICES ASSUME NEW d \in Component, NEW s \in Elements(todo'[d]) PROVE StepSays(s)
    BY DEF SayInv, StepSays
  <1>1. /\ t \in Table(c) /\ ok \in BOOLEAN /\ todo'[c] = Action(c, t.action, t.event, ok)
        /\ d # c => todo'[d] = todo[d]
    BY DEF Taken, Dispatched
  <1>2. CASE d = c
    BY <1>1, <1>2, EveryActionSays DEF ActionSays
  <1>3. CASE d # c
    BY <1>1, <1>3 DEF SurfaceInv, SayInv
  <1>4. QED
    BY <1>2, <1>3

LEMMA TakenCalls ==
    ASSUME IInv, SurfaceInv, NEW c \in Component, NEW t, NEW ok, Taken(c, t, ok)
    PROVE  CallsInv'
  <1> SUFFICES ASSUME ~Ended'
               PROVE  /\ \A d \in Control : ~At(d, "Error")' =>
                            /\ \A s \in Elements(todo'[d]) :
                                  s.do = "send" => s.what \notin StopRequest
                            /\ \A o \in late' : o.from = d => o.what \notin StopRequest
                      /\ \A d \in Publisher : ~At(Subscriber(d), "Error")' =>
                            Elements(queue'[d]) \cap StopEvent = {}
                      /\ "TensionOverloaded" \notin Elements(mail'["FilamentTensionSensor"])
    BY DEF CallsInv, At, Subscriber, StopRequest, StopEvent, Heater
  <1>1. ~Ended
    BY TakenEnds
  <1>2. /\ t \in Table(c) /\ ok \in BOOLEAN /\ todo'[c] = Action(c, t.action, t.event, ok)
        /\ state'[c] = t.next /\ mail' = mail /\ late' = late
        /\ \A d \in Component : d # c => state'[d] = state[d] /\ todo'[d] = todo[d]
    BY DEF Taken, Dispatched
  <1>3. ASSUME NEW d \in Control, ~At(d, "Error")', NEW s \in Elements(todo'[d]), s.do = "send"
        PROVE  s.what \notin StopRequest
    <2>1. d \in Component
      BY DEF Component
    <2>2. CASE d = c
      <3>1. t.next # "Error" /\ t.event \notin StopEvent
        BY <1>2, <1>3, <2>2, TakenStops DEF At
      <3>2. QED
        BY <1>2, <1>3, <2>2, <3>1, EveryActionSays DEF ActionSays
    <2>3. CASE d # c
      BY <1>1, <1>2, <1>3, <2>1, <2>3 DEF SurfaceInv, CallsInv, At
    <2>4. QED
      BY <2>2, <2>3
  <1>4. ASSUME NEW d \in Publisher, ~At(Subscriber(d), "Error")'
        PROVE  Elements(queue'[d]) \cap StopEvent = {}
    <2>1. d \in Component /\ Subscriber(d) \in Control
      BY Subordinates DEF Publisher
    <2>2. ~At(Subscriber(d), "Error")
      <3>1. ASSUME NEW u \in Control, ~At(u, "Error")' PROVE ~At(u, "Error")
        BY <3>1, TakenControls
      <3>2. ~(state'[Subscriber(d)] = "Error")
        BY <1>4 DEF At, Subscriber, Heater
      <3>3. QED
        BY <2>1, <3>1, <3>2 DEF At
    <2>3. Elements(queue[d]) \cap StopEvent = {}
      BY <1>1, <2>2 DEF SurfaceInv, CallsInv
    <2>4. Elements(queue'[d]) \subseteq Elements(queue[d])
      BY <2>1, TakenKeeps
    <2>5. QED
      BY <2>3, <2>4
  <1>5. "TensionOverloaded" \notin Elements(mail'["FilamentTensionSensor"])
    BY <1>1, <1>2 DEF SurfaceInv, CallsInv
  <1>6. ASSUME NEW d \in Control, ~At(d, "Error")', NEW o \in late', o.from = d
        PROVE  o.what \notin StopRequest
    <2>1. ~At(d, "Error")
      BY <1>6, TakenControls
    <2>2. QED
      BY <1>1, <1>2, <1>6, <2>1 DEF SurfaceInv, CallsInv
  <1>7. QED
    BY <1>3, <1>4, <1>5, <1>6

LEMMA TakenErrors ==
    ASSUME IInv, SurfaceInv, NEW c \in Component, NEW t, NEW ok, Taken(c, t, ok)
    PROVE  ErrorsInv'
  <1> SUFFICES ASSUME ~Ended', NEW x \in Publisher, state'[x] = "Error"
               PROVE  Reporting(x)' \/ state'[Subscriber(x)] = "Error"
    BY DEF ErrorsInv, At, Subscriber, Heater
  <1> DEFINE u == Subscriber(x)
  <1>1. x \in Component /\ u \in Control /\ u \in Component /\ u # x
    BY Subordinates DEF Publisher, Component
  <1>2. /\ t \in Table(c) /\ ok \in BOOLEAN /\ todo'[c] = Action(c, t.action, t.event, ok)
        /\ t.state = state[c] /\ state'[c] = t.next /\ mail' = mail /\ todo[c] = <<>>
        /\ \A d \in Component : d # c =>
              state'[d] = state[d] /\ todo'[d] = todo[d] /\ queue'[d] = queue[d]
    BY DEF Taken, Dispatched
  <1>3. Elements(todo[c]) = {} /\ Elements(queue[c]) = {t.event} \cup Elements(queue'[c])
    BY <1>2, TakenKeeps, TupleElements
  <1>4. t.event = "ErrorOccurred" => t.next = "Error"
    BY <1>2, TablesSwitchOff
  <1>5. state[x] = "Error" => Reporting(x) \/ state[u] = "Error"
    <2>1. ~Ended
      BY TakenEnds
    <2>2. QED
      BY <2>1 DEF SurfaceInv, ErrorsInv, At
  <1>6. state[u] = "Error" => state'[u] = "Error"
    <2>1. ASSUME NEW d \in Control, At(d, "Error") PROVE At(d, "Error")'
      BY <2>1, TakenControls
    <2>2. \A d \in Control : state[d] = "Error" => state'[d] = "Error"
      BY <2>1 DEF At
    <2>3. QED
      BY <1>1, <2>2
  <1>7. CASE x = c /\ t.state # "Error"
    <2>1. t.action = "handleError"
      BY <1>2, <1>7, TablesSwitchOff
    <2>2. ActionFits(c, t.next, t.action, todo'[c])
      BY <1>2, EveryActionFits
    <2>3. Notify("ErrorOccurred") \in Elements(todo'[x])
      BY <1>7, <2>1, <2>2 DEF ActionFits
    <2>4. Notify("ErrorOccurred").do = "tell" /\ Notify("ErrorOccurred").notification = "ErrorOccurred"
      BY DEF Notify, Tell
    <2>5. QED
      BY <2>3, <2>4 DEF Reporting
  <1>8. CASE x = c /\ t.state = "Error"
    <2>1. Reporting(x) => Reporting(x)'
      BY <1>1, <1>2, <1>3, <1>8 DEF Reporting
    <2>2. QED
      BY <1>2, <1>5, <1>6, <1>8, <2>1
  <1>9. CASE x # c
    <2>1. state[x] = "Error" /\ todo'[x] = todo[x]
      BY <1>1, <1>2, <1>9
    <2>2. CASE u = c
      BY <1>2, <1>3, <1>4, <1>5, <1>6, <2>1, <2>2 DEF Reporting
    <2>3. CASE u # c
      <3>1. Reporting(x) => Reporting(x)'
        BY <1>1, <1>2, <2>1, <2>3 DEF Reporting
      <3>2. QED
        BY <1>5, <1>6, <2>1, <3>1
    <2>4. QED
      BY <2>2, <2>3
  <1>10. QED
    BY <1>7, <1>8, <1>9

\* An alarm goes on.
LEMMA TakenAlarm ==
    ASSUME IInv, SurfaceInv, NEW c \in Component, NEW t, NEW ok, Taken(c, t, ok),
           ~Ended', Alarm \/ t.event \in StopEvent \/ t.next = "Error"
    PROVE  Alarm'
  <1>1. /\ t \in Table(c) /\ state'[c] = t.next /\ todo[c] = <<>>
        /\ \A d \in Component : d # c =>
              state'[d] = state[d] /\ todo'[d] = todo[d] /\ queue'[d] = queue[d]
    BY DEF Taken, Dispatched
  <1>2. Elements(todo[c]) = {} /\ Elements(queue[c]) = {t.event} \cup Elements(queue'[c])
    BY <1>1, TakenKeeps, TupleElements
  <1>3. CASE t.next = "Error"
    BY <1>1, <1>3 DEF Alarm, At
  <1>4. CASE t.event \in StopEvent
    <2>1. Subscriber(c) \in Component
      BY DEF Subscriber, Component, Control
    <2>2. state'[Subscriber(c)] = "Error"
      <3>1. At(Subscriber(c), "Error")'
        BY <1>4, TakenStops
      <3>2. QED
        BY <3>1 DEF At, Subscriber, Heater
    <2>3. QED
      BY <2>1, <2>2 DEF Alarm, At
  <1>5. CASE Alarm /\ t.event \notin StopEvent /\ t.next # "Error"
    <2>1. PICK d \in Component : \/ At(d, "Error")
                                 \/ "ErrorOccurred" \in Elements(queue[d])
                                 \/ Raises(d, "ErrorOccurred")
      BY <1>5 DEF Alarm
    <2>2. CASE At(d, "Error")
      <3>1. At(d, "Error")'
        BY <1>5, <2>2, TakenLeaves
      <3>2. QED
        BY <3>1 DEF Alarm
    <2>3. CASE "ErrorOccurred" \in Elements(queue[d])
      <3>1. t.event # "ErrorOccurred"
        BY <1>1, <1>5, TablesSwitchOff
      <3>2. "ErrorOccurred" \in Elements(queue'[d])
        BY <1>1, <1>2, <2>3, <3>1
      <3>3. QED
        BY <3>2 DEF Alarm
    <2>4. CASE Raises(d, "ErrorOccurred")
      <3>1. todo'[d] = todo[d]
        BY <1>1, <1>2, <2>4 DEF Raises
      <3>2. QED
        BY <2>4, <3>1 DEF Alarm, Raises
    <2>5. QED
      BY <2>1, <2>2, <2>3, <2>4
  <1>6. QED
    BY <1>3, <1>4, <1>5

\* The tension sensor stays where it is while others take events.
LEMMA TakenSensor ==
    ASSUME IInv, SurfaceInv, NEW c \in Component, NEW t, NEW ok, Taken(c, t, ok),
           NEW s, SensorStays(s), c # "FilamentTensionSensor"
    PROVE  SensorStays(s)'
  <1>1. "FilamentTensionSensor" \in Component
    BY DEF Component
  <1>2. /\ state'["FilamentTensionSensor"] = state["FilamentTensionSensor"]
        /\ queue'["FilamentTensionSensor"] = queue["FilamentTensionSensor"]
        /\ todo'["FilamentTensionSensor"] = todo["FilamentTensionSensor"]
    BY <1>1 DEF Taken, Dispatched
  <1>3. QED
    BY <1>2 DEF SensorStays, At, Raises

\* What a device does that fails at its hardware.
LEMMA TakenFails ==
    ASSUME IInv, SurfaceInv, NEW c \in Component, NEW t, NEW ok, Taken(c, t, ok),
           ~Ended', ~ok
    PROVE  Alarm' \/ SensorStays("Initialization")'
  <1> DEFINE A == Action(c, t.action, t.event, ok)
  <1>1. /\ t \in Table(c) /\ ok \in BOOLEAN /\ todo'[c] = A /\ CanFail(c, t.action)
        /\ t.state = state[c] /\ state'[c] = t.next
    BY DEF Taken, Dispatched
  <1>2. c \in Motor \cup Heater \cup {"FilamentTensionSensor"}
    BY <1>1 DEF CanFail
  <1>3. \/ t.next = "Error"
        \/ t.event \in StopEvent
        \/ \E s \in Elements(A) : s.do = "tell" /\ s.event = "ErrorOccurred"
        \/ /\ c = "FilamentTensionSensor" /\ t.state = "Off" /\ t.next = "Initialization"
           /\ A = << Push("SwitchOnFailed") >>
    BY <1>1, <1>2, DeviceActionSays
  <1> HIDE DEF A
  <1>4. CASE t.next = "Error" \/ t.event \in StopEvent
    BY <1>4, TakenAlarm
  <1>5. CASE \E s \in Elements(A) : s.do = "tell" /\ s.event = "ErrorOccurred"
    BY <1>1, <1>5 DEF Alarm, Raises
  <1>6. CASE /\ c = "FilamentTensionSensor" /\ t.state = "Off" /\ t.next = "Initialization"
             /\ A = << Push("SwitchOnFailed") >>
    <2>1. Alarm \/ SensorStays("Off")
      <3>1. ~Ended
        BY TakenEnds
      <3>2. At("FilamentTensionSensor", "Off")
        BY <1>1, <1>6 DEF At
      <3>3. QED
        BY <3>1, <3>2 DEF SurfaceInv, AlarmInv
    <2>2. ASSUME SensorStays("Off") PROVE SensorStays("Initialization")'
      <3>1. At("FilamentTensionSensor", "Initialization")'
        BY <1>1, <1>6 DEF At
      <3>2. "SwitchOnSucceeded" \notin Elements(queue'["FilamentTensionSensor"])
        BY <1>6, <2>2, TakenKeeps DEF SensorStays
      <3>3. Elements(todo'["FilamentTensionSensor"]) = {Push("SwitchOnFailed")}
        BY <1>1, <1>6, TupleElements
      <3>4. Push("SwitchOnFailed").event # "SwitchOnSucceeded"
        BY DEF Push, Tell
      <3>5. QED
        BY <3>1, <3>2, <3>3, <3>4 DEF SensorStays, Raises
    <2>3. QED
      BY <2>1, <2>2, TakenAlarm
  <1>7. QED
    BY <1>3, <1>4, <1>5, <1>6

LEMMA TakenAlarms ==
    ASSUME IInv, SurfaceInv, NEW c \in Component, NEW t, NEW ok, Taken(c, t, ok)
    PROVE  AlarmInv'
  <1> DEFINE p == "FilamentTensionSensor"
  <1> SUFFICES ASSUME ~Ended'
               PROVE  /\ failed' # {} \/ broken' > 0 => Alarm' \/ SensorStays("Initialization")'
                      /\ At("FilamentTensionSensor", "Off")' => Alarm' \/ SensorStays("Off")'
    BY DEF AlarmInv
  <1>1. ~Ended
    BY TakenEnds
  <1>2. /\ t \in Table(c) /\ ok \in BOOLEAN /\ t.state = state[c] /\ state'[c] = t.next
        /\ \A d \in Component : d # c => state'[d] = state[d]
        /\ broken' = (IF ok THEN broken ELSE broken + 1) /\ failed' = failed
        /\ p \in Component
    BY DEF Taken, Dispatched, Component
  <1>3. ASSUME SensorStays("Initialization") PROVE Alarm' \/ SensorStays("Initialization")'
    <2>1. CASE c # p
      BY <1>3, <2>1, TakenSensor
    <2>2. CASE c = p
      <3>1. t \in SensorTable /\ t.state = "Initialization"
        BY <1>2, <1>3, <2>2, TableIs DEF SensorStays, At
      <3>2. t.event \in {"SwitchOff", "ErrorOccurred", "SwitchOnSucceeded"}
        BY <3>1, StopEntries
      <3>3. t.event # "SwitchOnSucceeded"
        <4>1. t.event \in Elements(queue[c])
          BY TakenKeeps
        <4>2. QED
          BY <1>3, <2>2, <4>1 DEF SensorStays
      <3>4. t.event \in StopEvent \/ t.next = "Error"
        BY <1>2, <3>2, <3>3, TablesSwitchOff DEF StopEvent
      <3>5. QED
        BY <3>4, TakenAlarm
    <2>3. QED
      BY <2>1, <2>2
  <1>4. failed' # {} \/ broken' > 0 => Alarm' \/ SensorStays("Initialization")'
    <2>1. CASE ~ok
      BY <2>1, TakenFails
    <2>2. CASE ok
      <3>1. failed' # {} \/ broken' > 0 => Alarm \/ SensorStays("Initialization")
        BY <1>1, <1>2, <2>2 DEF SurfaceInv, AlarmInv
      <3>2. QED
        BY <1>3, <3>1, TakenAlarm
    <2>3. QED
      BY <1>2, <2>1, <2>2
  <1>5. ASSUME At(p, "Off")' PROVE Alarm' \/ SensorStays("Off")'
    <2>1. CASE c # p
      <3>1. At(p, "Off")
        BY <1>2, <1>5, <2>1 DEF At
      <3>2. Alarm \/ SensorStays("Off")
        BY <1>1, <3>1 DEF SurfaceInv, AlarmInv
      <3>3. QED
        BY <2>1, <3>2, TakenAlarm, TakenSensor
    <2>2. CASE c = p
      <3>1. t.next = "Off"
        BY <1>2, <1>5, <2>2 DEF At
      <3>2. t.event \in StopEvent
        BY <1>2, <3>1, TablesSwitchOff DEF StopEvent
      <3>3. QED
        BY <3>2, TakenAlarm
    <2>3. QED
      BY <2>1, <2>2
  <1>6. QED
    BY <1>4, <1>5

LEMMA DispatchKeepsSurface ==
    ASSUME IInv, SurfaceInv, NEW c \in Component, Dispatch(c)
    PROVE  SurfaceInv'
  <1>1. PICK t, ok : Dispatched(c, t, ok)
    BY DispatchIs
  <1>2. Taken(c, t, ok)
    BY <1>1 DEF Taken, Dispatch
  <1>3. SayInv' /\ LastInv' /\ CallsInv' /\ ErrorsInv' /\ AlarmInv'
    BY <1>2, TakenSays, TakenKeeps, TakenCalls, TakenErrors, TakenAlarms
  <1>4. QED
    BY <1>3 DEF SurfaceInv

-----------------------------------------------------------------------------
LEMMA InitSurface == Init /\ Unstopped => SurfaceInv
  <1> SUFFICES ASSUME Init, Unstopped PROVE SurfaceInv
    OBVIOUS
  <1>1. /\ \A c \in Component : /\ Elements(todo[c]) = {} /\ Elements(queue[c]) = {}
                                /\ queue[c] = <<>> /\ io[c] = "none" /\ state[c] = "Off"
        /\ \A p \in Publisher : Elements(mail[p]) = {}
    BY TupleElements DEF Init
  <1>2. /\ Publisher \subseteq Component /\ Control \subseteq Component
        /\ {"MachineControl", "FilamentTensionSensor"} \subseteq Component
        /\ "FilamentTensionSensor" \in Publisher
    BY DEF Publisher, Component, Control
  <1>3. SayInv
    BY <1>1 DEF SayInv
  <1>4. LastInv
    <2>1. orders = scenario.orders
      BY DEF Init
    <2>2. "none" \notin StopEvent
      BY DEF StopEvent
    <2>3. OffLast(queue["MachineControl"])
      <3>1. DOMAIN queue["MachineControl"] = {}
        BY <1>1, <1>2
      <3>2. QED
        BY <3>1 DEF OffLast
    <2>4. QED
      BY <1>1, <1>2, <2>1, <2>2, <2>3 DEF LastInv, Unstopped
  <1>5. CallsInv /\ ErrorsInv
    BY <1>1, <1>2 DEF CallsInv, ErrorsInv, At, Init
  <1>6. AlarmInv
    <2>1. SensorStays("Off")
      BY <1>1, <1>2 DEF SensorStays, At, Raises
    <2>2. failed = {} /\ ~(broken > 0) /\ late = {}
      BY DEF Init
    <2>3. QED
      BY <2>1, <2>2 DEF AlarmInv
  <1>7. QED
    BY <1>3, <1>4, <1>5, <1>6 DEF SurfaceInv

LEMMA StepKeepsSurface ==
    IInv /\ StepsInv /\ LateFits /\ SurfaceInv /\ AllHaveRoom /\ Unstopped /\ [Next]_vars =>
        SurfaceInv'
  <1> SUFFICES ASSUME IInv, StepsInv, LateFits, SurfaceInv, AllHaveRoom, Unstopped, [Next]_vars
               PROVE  SurfaceInv'
    OBVIOUS
  <1>1. ASSUME NEW c \in Component, WorkerStep(c) PROVE SurfaceInv'
    BY <1>1, DispatchKeepsSurface, DispatchFailsKeepsSurface, TellsKeepsSurface,
       SendsKeepsSurface DEF WorkerStep
  <1>2. ASSUME NEW c \in Component, IoPushes(c) PROVE SurfaceInv'
    BY <1>2, IoPushesKeepsSurface
  <1>3. ASSUME NEW p \in Publisher, Delivers(p) PROVE SurfaceInv'
    BY <1>3, DeliversKeepsSurface
  <1>4. CASE UserOrders
    BY <1>4, UserOrdersKeepsSurface
  <1>5. ASSUME NEW h \in Heater, NEW e \in Temperature, TemperatureReported(h, e)
        PROVE  SurfaceInv'
    BY <1>5, TemperatureReportedKeepsSurface
  <1>6. ASSUME NEW n \in Tension, TensionReported(n) PROVE SurfaceInv'
    BY <1>6, TensionReportedKeepsSurface
  <1>7. CASE UNCHANGED vars
    <2>1. UNCHANGED <<state, queue, todo, io, mail, orders, late, failed, broken>>
      BY <1>7 DEF vars, control, calls, budget
    <2>2. \A c \in Component : io'[c] \notin StopEvent \cup {"SwitchOn", "SwitchOnSucceeded"}
      BY <2>1 DEF SurfaceInv, LastInv
    <2>3. QueuesStay /\ LastInv'
      BY <2>1, <2>2, SameQueuesStay DEF SurfaceInv
    <2>4. QED
      BY <2>1, <2>3, OthersKeepSurface
  <1>8. ASSUME NEW o \in late, HandlesLate(o) PROVE SurfaceInv'
    BY <1>8, HandlesLateKeepsSurface
  <1>9. QED
    BY <1>1, <1>2, <1>3, <1>4, <1>5, <1>6, <1>7, <1>8 DEF Next, ThreadStep

\* When nothing is under way, every error has reached MachineControl.
LEMMA QuietSurface == SurfaceInv => FailuresSurface
  <1> SUFFICES ASSUME SurfaceInv, Quiet, failed # {} \/ broken > 0, ~At("MachineControl", "Off")
               PROVE  \/ At("MachineControl", "Error")
                      \/ At("FilamentTensionSensor", "Initialization")
    BY DEF FailuresSurface
  <1>1. /\ \A c \in Component : Elements(todo[c]) = {} /\ Elements(queue[c]) = {}
        /\ \A p \in Publisher : Elements(mail[p]) = {}
    BY TupleElements DEF Quiet, Idle
  <1>2. CASE Ended
    BY <1>2 DEF Ended
  <1>3. CASE ~Ended
    <2>1. ASSUME NEW c \in Publisher, At(c, "Error") PROVE At(Subscriber(c), "Error")
      <3>1. ~Reporting(c)
        <4>1. c \in Component /\ Subscriber(c) \in Component
          BY DEF Publisher, Subscriber, Component, Control
        <4>2. QED
          BY <1>1, <4>1 DEF Reporting
      <3>2. QED
        BY <1>3, <2>1, <3>1 DEF SurfaceInv, ErrorsInv
    <2>2. Alarm \/ SensorStays("Initialization")
      BY <1>3 DEF SurfaceInv, AlarmInv
    <2>3. CASE SensorStays("Initialization")
      BY <2>3 DEF SensorStays
    <2>4. CASE Alarm
      <3>1. PICK c \in Component : At(c, "Error")
        BY <1>1, <2>4 DEF Alarm, Raises
      <3>2. \E d \in Control : At(d, "Error")
        <4>1. CASE c \in Publisher
          BY <2>1, <3>1, <4>1, Subordinates
        <4>2. CASE c \notin Publisher
          BY <3>1, <4>2 DEF Publisher, Control
        <4>3. QED
          BY <4>1, <4>2
      <3>3. /\ At("FilamentMergerControl", "Error") => At("MachineControl", "Error")
            /\ At("FilamentCoilControl", "Error") => At("MachineControl", "Error")
        <4>1. /\ {"FilamentMergerControl", "FilamentCoilControl"} \subseteq Publisher
              /\ Subscriber("FilamentMergerControl") = "MachineControl"
              /\ Subscriber("FilamentCoilControl") = "MachineControl"
          BY Subordinates DEF Component, Control
        <4>2. QED
          BY <2>1, <4>1
      <3>4. QED
        BY <3>2, <3>3 DEF Control
    <2>5. QED
      BY <2>2, <2>3, <2>4
  <1>4. QED
    BY <1>2, <1>3

\* Whatever requests get lost, time out or are refused and whatever calls of the hardware
\* fail, however often: when the machine has settled and is not off, it is in error, so that
\* the user sees that something failed, unless the tension sensor did not start, whose
\* SwitchOnFailed no transition takes (FilamentTensionSensor.cpp:74-77).  Speeds that were
\* not set, and a forwarded request that failed, are not among the failures, since nobody
\* looks at them (ServiceComponent.hpp:134, MotorService.cpp:84), but may come with them at
\* any time.  The user may give any orders but Stop, without waiting as well, with SwitchOff
\* only at the end, and no overload pauses the coil: what fails when something stops, the
\* code passes over (FilamentFeederMotor.cpp:98-110, FilamentMergerControl.cpp:97-99).  No
\* queue is about to be full, since a full queue refuses an ErrorOccurred as well
\* (EventQueue.hpp:74-84).
THEOREM FailuresSurfaceHolds ==
    Spec /\ [](AllHaveRoom /\ Unstopped) => []FailuresSurface
  <1> DEFINE I == IInv /\ StepsInv /\ LateFits
  <1>1. Init => I
    BY InitHolds, InitTold
  <1>2. I /\ [Next]_vars => I'
    BY StepKeeps, StepsStay, LateStays
  <1>3. I /\ SurfaceInv /\ AllHaveRoom /\ Unstopped /\ [Next]_vars => SurfaceInv'
    BY StepKeepsSurface
  <1> HIDE DEF I
  <1>4. QED
    BY <1>1, <1>2, <1>3, InitSurface, QuietSurface, PTL DEF Spec
=============================================================================
