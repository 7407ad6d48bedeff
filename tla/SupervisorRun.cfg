SPECIFICATION ImportSpec
CONSTANTS
    Proxy = proxy
    Backends = {shell, files}
    FileBackend = files
    Group <- AllOfThem
    StartupTimeout = 3
    ProbeInterval = 1
    ProbeTimeout = 2
    FailureThreshold = 2
    StopGrace = 2
    Horizon = 9
INVARIANTS
    ImportTypeOK
    DetectedInTime
    FailsOnlyAfterOutages
    StartupEndsInTime
    StopsInTime
    StopReachesProxy
    ShortImportsTolerated
CHECK_DEADLOCK FALSE
