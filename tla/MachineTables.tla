---------------------------- MODULE MachineTables ----------------------------
(***************************************************************************)
(* What MachineServiceComponent.yaml says of the machine's components, as  *)
(* the generator turns it into code: who subscribes to whom, which events  *)
(* requests and notifications push, and the transition tables.  A state    *)
(* given as a regular expression stands for the states that match it.      *)
(***************************************************************************)
EXTENDS Sequences

Heater == {"FilamentMergerHeater", "FilamentPreHeater"}
Motor == {"FilamentFeederMotor", "FilamentCoilMotor"}
Control == {"MachineControl", "FilamentMergerControl", "FilamentCoilControl"}
Component == Control \cup Motor \cup Heater \cup {"FilamentTensionSensor"}

\* The one component that subscribes to the notifications of c.
Subscriber(c) ==
    IF c \in {"FilamentMergerControl", "FilamentCoilControl"} THEN "MachineControl"
    ELSE IF c \in Heater \cup {"FilamentFeederMotor"} THEN "FilamentMergerControl"
    ELSE "FilamentCoilControl"

Publisher == Component \ {"MachineControl"}

\* The notifications of c that it subscribes to.  The others, such as
\* TargetTemperatureRangeLeft, reach nobody.
Subscribed(c) ==
    {"ErrorOccurred"} \cup
    CASE c = "FilamentMergerControl" -> {"FeedingRunning", "FeedingStopped", "HeatedUp"}
      [] c = "FilamentCoilControl" -> {"CoilRunning", "CoilStopped"}
      [] c \in Motor -> {"StartMotorSucceeded", "StopMotorSucceeded"}
      [] c \in Heater -> {"TargetTemperatureRangeReached"}
      [] c = "FilamentTensionSensor" -> {"TensionTooLow", "TensionTooHigh", "TensionOverloaded"}
      [] OTHER -> {}

\* The event that a request pushes, when it is not the request's own name.
EventOf(request) ==
    CASE request = "StartFeeding" -> "StartMotor"
      [] request = "StopFeeding" -> "Stop"
      [] request \in {"StartCoil", "StartCoilHeatless"} -> "StartMotor"
      [] request = "StopCoil" -> "StopMotor"
      [] OTHER -> request
-----------------------------------------------------------------------------
\* The entries of a table for one event in several states.
On(states, event, next, action) ==
    {[state |-> s, event |-> event, next |-> next, action |-> action] : s \in states}

\* The entries that the tables of all components have.
ErrorEntries(states) ==
    On({"Off"}, "SwitchOff", "Off", "none")
    \cup On(states \ {"Error"}, "ErrorOccurred", "Error", "handleError")
    \cup On({"Error"}, "ErrorOccurred", "Error", "none")

\* Faulty variant: a running or starting component is not switched off.
EntriesWhenStill(states) ==
    ErrorEntries(states)
    \cup On({"Off"}, "SwitchOn", "Initialization", "switchOn")
    \cup On(states \ {"Off", "Running", "Starting"}, "SwitchOff", "Off", "switchOff")

CommonEntries(states) ==
    ErrorEntries(states)
    \cup On({"Off"}, "SwitchOn", "Initialization", "switchOn")
    \cup On(states \ {"Off"}, "SwitchOff", "Off", "switchOff")

MachineStates == {"Off", "Initialization", "Stopped", "HeatingUp", "Starting",
                  "Running", "Stopping", "Error"}

MachineTable ==
    CommonEntries(MachineStates)
    \cup On({"Initialization"}, "SwitchOnSucceeded", "Stopped", "notifyStopped")
    \cup On({"Stopped"}, "Start", "HeatingUp", "startHeating")
    \cup On({"Stopped"}, "StartHeatless", "Starting", "startMachine")
    \cup On({"HeatingUp"}, "MergerHeatedUp", "Starting", "startMachine")
    \cup On({"HeatingUp", "Starting", "Running"}, "Stop", "Stopping", "stopMachine")
    \cup On({"Starting"}, "CheckStartingState", "Starting", "checkStartingState")
    \cup On({"Starting", "Running"}, "StartingSucceeded", "Running", "none")
    \cup On({"Stopping"}, "CheckStoppingState", "Stopping", "checkStoppingState")
    \cup On({"Stopping"}, "StoppingSucceeded", "Stopped", "none")
    \cup On({"Stopped"}, "CheckStoppingState", "Stopped", "none")

MergerStates == {"Off", "Initialization", "HeatingUp", "HeatedUp",
                 "MergerStopped", "StartingMotor", "Running", "Error"}

MergerTable ==
    CommonEntries(MergerStates)
    \cup On({"Initialization"}, "SwitchOnSucceeded", "MergerStopped", "none")
    \cup On({"MergerStopped"}, "StartHeating", "HeatingUp", "heatingUp")
    \cup On({"HeatingUp"}, "HeatingUpSucceeded", "HeatedUp", "notifyHeatedUp")
    \cup On({"HeatingUp", "StartingMotor", "Running"}, "Stop", "MergerStopped", "stopMerger")
    \cup On({"HeatedUp", "MergerStopped"}, "StartMotor", "StartingMotor", "startMotor")
    \cup On({"MergerStopped"}, "Stop", "MergerStopped", "none")
    \cup On({"StartingMotor"}, "StartMotorSucceeded", "Running", "notifyRunning")

\* Faulty variant: the coil resumes without starting its motor.
CoilResumesSilently == On({"Paused"}, "TensionTooHigh", "StartingMotor", "none")

CoilResume == On({"Paused"}, "TensionTooHigh", "StartingMotor", "startMotor")

CoilStates == {"Off", "Initialization", "MotorStopped", "StartingMotor",
               "StoppingMotor", "Running", "Pausing", "Paused", "Error"}

CoilTable ==
    CommonEntries(CoilStates)
    \cup On({"Initialization"}, "SwitchOnSucceeded", "MotorStopped", "none")
    \cup On({"MotorStopped"}, "StartMotor", "StartingMotor", "startMotor")
    \cup On({"MotorStopped"}, "StopMotor", "MotorStopped", "none")
    \cup On({"StartingMotor", "Paused"}, "StopMotor", "MotorStopped", "stopMotor")
    \cup On({"StartingMotor"}, "StartMotorSucceeded", "Running", "notifyRunning")
    \cup On({"Running"}, "StopMotor", "StoppingMotor", "stopMotor")
    \cup On({"StoppingMotor"}, "StopMotor", "StoppingMotor", "none")
    \cup On({"StoppingMotor"}, "StopMotorSucceeded", "MotorStopped", "none")
    \cup On({"Running"}, "TensionTooHigh", "Running", "controlFilamentTension")
    \cup On({"Running"}, "TensionTooLow", "Running", "controlFilamentTension")
    \cup On({"Running"}, "TensionOverloaded", "Pausing", "stopMotor")
    \cup On({"Pausing"}, "TensionOverloaded", "Pausing", "none")
    \cup On({"Pausing"}, "StopMotorSucceeded", "Paused", "none")
    \cup On({"Paused"}, "TensionOverloaded", "Paused", "none")
    \cup CoilResume

MotorStates == {"Off", "Initialization", "Stopped", "Starting", "Running",
                "Stopping", "Error"}

\* Faulty variant: no action runs when the motor is switched off.
MotorTableWithoutSwitchOff ==
    ErrorEntries(MotorStates)
    \cup On({"Off"}, "SwitchOn", "Initialization", "switchOn")
    \cup On(MotorStates \ {"Off"}, "SwitchOff", "Off", "none")
    \cup On({"Initialization"}, "SwitchOnSucceeded", "Stopped", "none")
    \cup On({"Stopped"}, "StopMotor", "Stopped", "none")
    \cup On({"Stopped"}, "StartMotor", "Starting", "startMotor")
    \cup On({"Starting"}, "StartMotorSucceeded", "Running", "none")
    \cup On({"Running", "Starting"}, "StopMotor", "Stopping", "stopMotor")
    \cup On({"Stopping"}, "StopMotor", "Stopping", "none")
    \cup On({"Stopping"}, "StopMotorSucceeded", "Stopped", "none")

MotorTable ==
    ErrorEntries(MotorStates)
    \cup On({"Off"}, "SwitchOn", "Initialization", "switchOn")
    \cup On(MotorStates \ {"Off", "Running", "Starting"}, "SwitchOff", "Off", "none")
    \cup On({"Starting", "Running"}, "SwitchOff", "Off", "switchOff")
    \cup On({"Initialization"}, "SwitchOnSucceeded", "Stopped", "none")
    \cup On({"Stopped"}, "StopMotor", "Stopped", "none")
    \cup On({"Stopped"}, "StartMotor", "Starting", "startMotor")
    \cup On({"Starting"}, "StartMotorSucceeded", "Running", "none")
    \cup On({"Running", "Starting"}, "StopMotor", "Stopping", "stopMotor")
    \cup On({"Stopping"}, "StopMotor", "Stopping", "none")
    \cup On({"Stopping"}, "StopMotorSucceeded", "Stopped", "none")

HeaterStates == {"Off", "Initialization", "HeatingOn", "HeatingOff", "Error"}

HeaterTable ==
    CommonEntries(HeaterStates)
    \cup On({"Initialization"}, "SwitchOnSucceeded", "HeatingOn", "startHeating")
    \cup On({"HeatingOn"}, "MaxTemperatureReached", "HeatingOff", "stopHeating")
    \cup On({"HeatingOn"}, "MinTemperatureReached", "HeatingOn", "none")
    \cup On({"HeatingOff"}, "MaxTemperatureReached", "HeatingOff", "none")
    \cup On({"HeatingOff"}, "MinTemperatureReached", "HeatingOn", "startHeating")

SensorStates == {"Off", "Initialization", "Running", "Error"}

SensorTable ==
    CommonEntries(SensorStates)
    \cup On({"Initialization"}, "SwitchOnSucceeded", "Running", "none")

Table(c) ==
    CASE c = "MachineControl" -> MachineTable
      [] c = "FilamentMergerControl" -> MergerTable
      [] c = "FilamentCoilControl" -> CoilTable
      [] c \in Motor -> MotorTable
      [] c \in Heater -> HeaterTable
      [] OTHER -> SensorTable

\* At most one entry fits: the generated tables are sequences that are searched
\* from the front, and their order makes no difference.
ASSUME TablesAreFunctions ==
    \A c \in Component : \A t, u \in Table(c) :
        t.state = u.state /\ t.event = u.event => t = u

StatesOf == [c \in Component |-> {t.state : t \in Table(c)}]
EventsOf == [c \in Component |-> {t.event : t \in Table(c)}]
=============================================================================
