SPECIFICATION OperationSpec
CONSTANTS
    Group <- SomeGroup
    Gateway = "gateway"
    Subscriber = {"control", "ui"}
    MaxThrown = 4
    MotorList <- SomeMotors
    SensorList <- SomeSensors
    MaxTurns = 3
    Context = {"worker", "io"}
    RealTime = {"worker"}
    Stoppable = {"io"}
    MaxRuns = 2
    Client = {"c1", "c2"}
    Listener = "listener"
    MachineEvent = {"MachineStopped", "MachineStarting"}
    MaxNotices = 2
    MaxInbox = 2
    MaxAsked = 2
    MaxGarbled = 1
    Option <- SomeOptions
    List <- SomeLists
    File <- SomeFiles
    Base <- Pins
    Sub <- SomeSubs
    Descriptions <- SomeDescriptions
    Matching <- SomeMatching
INVARIANTS
    ApplicationInvariant
    HalInvariant
    ThreadInvariant
    RemoteInvariant
    ConfigurationInvariant
    ParserInvariant
PROPERTY OperationProgress
CHECK_DEADLOCK FALSE
