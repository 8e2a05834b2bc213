\* Two workers, two units of which one has a state dict of its own.
SPECIFICATION SupervisorSpec
CONSTANTS
    w1 = w1
    w2 = w2
    camera = camera
    drone = drone
    Nan = Nan
    NotNumber = NotNumber
    Worker <- TwoWorkers
    Unit <- TwoUnits
    ExactTopic <- OnlyDrone
    Actions <- SixActions
    SensorReport <- SensorReports
    KinematicsReport <- KinematicsReports
    MaxVelocity = 5
    MaxAccel = 2
    MinX = 0
    MaxX = 2
    MaxZ = 20
    MinClearance = 2
    MaxMotorTemp = 85
    MinBattery = 15
    RtbAltitude = 15
    MaxProposals = 2
    MaxUpdates = 3
INVARIANTS
    InterlockHolds
    FallbackWithinEnvelope
    ReasonIsRecent
    OneCommandEach
    StatsNeverOvercount
CHECK_DEADLOCK FALSE
