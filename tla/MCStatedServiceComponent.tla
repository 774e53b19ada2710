---------------------- MODULE MCStatedServiceComponent ----------------------
\* The state machine of the heaters (MachineServiceComponent.yaml:344-388)
\* without its Error state: it raises an event of its own, and a timer pushes
\* two.  Two events fit in the queue: one more than a full queue needs.
EXTENDS StatedServiceComponent

MCState == {"Off", "Initialization", "HeatingOn", "HeatingOff"}

Transition(s, e, t, r) == [state |-> s, event |-> e, next |-> t, raises |-> r]

MCTransitions ==
    << Transition("Off", "SwitchOn", "Initialization", {"SwitchOnSucceeded"}),
       Transition("Initialization", "SwitchOff", "Off", {}),
       Transition("HeatingOn", "SwitchOff", "Off", {}),
       Transition("HeatingOff", "SwitchOff", "Off", {}),
       Transition("Off", "SwitchOff", "Off", {}),
       Transition("Initialization", "SwitchOnSucceeded", "HeatingOn", {}),
       Transition("HeatingOn", "MaxTemperatureReached", "HeatingOff", {}),
       Transition("HeatingOff", "MaxTemperatureReached", "HeatingOff", {}) >>

MCRequested == {"SwitchOn", "SwitchOff"}
MCSensed == {"MaxTemperatureReached"}
MCName == MCRequested \cup MCSensed \cup {"SwitchOnSucceeded"}
=============================================================================
