\* Switching off at any time, through queues that hold one event.
SPECIFICATION FairSpec
CONSTANT Scenarios <- JustHurries
PROPERTIES SwitchesOff Settles
CHECK_DEADLOCK FALSE
