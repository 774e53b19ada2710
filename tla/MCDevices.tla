------------------------------ MODULE MCDevices ------------------------------
(***************************************************************************)
(* The devices: a motor or a heater, each with its component, and the bus  *)
(* that the sensors of the heaters share.  They share nothing else, so a   *)
(* run is about one of them; the others rest.                              *)
(***************************************************************************)
EXTENDS Motor, Heater, SpiBus

VARIABLE device

MotorRun == <<{"SwitchOn"}, {"StartMotor"}, {"StopMotor", "SwitchOff"}>>
HeaterRuns == {<<"SwitchOn", "SwitchOff", "SwitchOn">>}
Offsets == {-2, 2}
\* A heater is cold at first; it is hot or broken at the switch-on after one change.
ColdReading == 16428
TwoSensors == << "feeder", "merger" >>

devices == <<device, motorVars, heaterVars, spiVars>>

DevicesInit ==
    /\ device \in {"motor", "heater", "bus"}
    /\ MotorInit
    /\ HeaterInit
    /\ SpiInit
    /\ device # "heater" => heaterOrders = CHOOSE o \in HeaterRuns : TRUE
    /\ register = ColdReading
    /\ device # "motor" => tic = PoweredUp(TRUE)

DevicesNext ==
    /\ UNCHANGED device
    /\ \/ device = "motor" /\ MotorNext /\ UNCHANGED <<heaterVars, spiVars>>
       \/ device = "heater" /\ HeaterNext /\ UNCHANGED <<motorVars, spiVars>>
       \/ device = "bus" /\ SpiNext /\ UNCHANGED <<motorVars, heaterVars>>

Motors(step) == device = "motor" /\ ~Crashed /\ step /\ UNCHANGED <<device, heaterVars, spiVars>>
Heaters(step) == device = "heater" /\ step /\ UNCHANGED <<device, motorVars, spiVars>>

\* MotorFairness and HeaterFairness: the device never changes, so that each disjunction is
\* the fairness of the one that is looked at.
DevicesSpec ==
    /\ DevicesInit /\ [][DevicesNext]_devices
    /\ WF_devices(Motors(MotorWorkerStep) \/ Heaters(HeaterWorkerStep))
    /\ WF_devices(Motors(MotorIoStep) \/ Heaters(TimerStep))
    /\ WF_devices(Motors(Ramp))

\* What has to happen with the devices: a worker that waits for its motor goes on, and a
\* heater that is too hot is switched off (StepperMotor.cpp:229-284, HeaterService.cpp:67-92).
\* It is StopEnds for the motor and HotStops for the heater; since the device never
\* changes they can be one formula, which TLC checks in half the time.
DevicesProgress ==
    \A r \in HotReadings :
        (\/ device = "motor" /\ Polls
         \/ device = "heater" /\ TooHot(r))
            ~> (\/ device = "motor" /\ GoesOn
                \/ device = "heater" /\ NoLongerHot(r))
=============================================================================
