SPECIFICATION DevicesSpec
CONSTANTS
    MaxSpeed = 4
    MotorOrders <- MotorRun
    Speeds = {6}
    Increments <- Offsets
    MaxRequests = 2
    MaxFaults = 1
    HeaterOrders <- HeaterRuns
    TemperatureMin = 50
    TemperatureMax = 60
    Readings = {16428, 18490, 18762, 18843}
    MaxChanges = 2
    MaxHeaterFaults = 1
    Sensors <- TwoSensors
    MaxReadings = 3
    MaxSpiFaults = 1
INVARIANTS
    MotorInvariant
    HeaterInvariant
    SpiInvariant
PROPERTY DevicesProgress
CHECK_DEADLOCK FALSE
