CONSTANTS
    Worker = Worker
    None = None
    Name <- MCName
    State <- MCState
    InitState = "Off"
    Transitions <- MCTransitions
    Requested <- MCRequested
    Sensed <- MCSensed
    MaxSize = 3
CHECK_DEADLOCK FALSE
SPECIFICATION FairSpec
PROPERTY StopReturns
