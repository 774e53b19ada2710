------------------------------ MODULE MCMachine ------------------------------
(***************************************************************************)
(* The users, sensors and faults that the runs of Machine put around it.   *)
(***************************************************************************)
EXTENDS Machine

\* A user who waits for the machine to settle, while nothing is reported and nothing
\* fails.
Plain(list) ==
    [orders |-> list, hasty |-> {}, sensed |-> <<>>, lossy |-> {},
     slips |-> {}, maxLost |-> 0, maxBroken |-> 0, maxSize |-> 10]

FeedAndStop == << "SwitchOn", "StartHeatless", "Stop" >>

\* Heating up, feeding and stopping, with temperature and tension reports.
Heats ==
    [Plain(<< "SwitchOn", "Start", "Stop" >>) EXCEPT
        !.sensed = [i \in 1..3 |-> {"MaxTemperatureReached", "TensionTooLow"}]]

\* Feeding under an overload and its end at any time, then stopping.
Pauses ==
    [Plain(FeedAndStop) EXCEPT !.sensed = << {"TensionOverloaded"}, {"TensionTooHigh"} >>]

\* Feeding and switching off while one call of the hardware fails.
Breaks == [Plain(<< "SwitchOn", "StartHeatless", "SwitchOff" >>) EXCEPT !.maxBroken = 1]

\* Heating up while one call of the hardware fails.
Overheats ==
    [Plain(<< "SwitchOn", "Start" >>) EXCEPT
        !.sensed = << {"MaxTemperatureReached"} >>, !.maxBroken = 1]

\* Feeding and switching off while one request is not answered: one of the start, one
\* that the coil sends, or one that tells the coil to switch off; and the speed of the
\* feeder may not be set.
Loses ==
    [Plain(<< "SwitchOn", "StartHeatless", "SwitchOff" >>) EXCEPT
        !.lossy = {"MachineControl"} \X
                      {"SwitchOn", "SetMotorSpeed", "StartFeeding", "StartCoilHeatless",
                       "SwitchOff"}
                  \cup {<<"FilamentCoilControl", "StartMotor">>},
        !.slips = {"FilamentFeederMotor"}, !.maxLost = 1]

\* Switching off at any time, through queues that hold one event.
Hurries ==
    [Plain(<< "SwitchOn", "StartHeatless", "SwitchOff" >>) EXCEPT
        !.hasty = {"SwitchOff"}, !.maxSize = 2]

AllScenarios == {Heats, Pauses, Breaks, Overheats, Loses}
JustHurries == {Hurries}
JustFeeds == {Plain(FeedAndStop)}
JustLoses == {Loses}
=============================================================================
