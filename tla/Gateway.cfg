SPECIFICATION Spec
CONSTANTS
    Calls = {c1, c2}
    CallTimeout = 3
    TransferTimeout = 4
    ProbeTimeout = 1
    MaxWait = 2
    Losses = 1
SYMMETRY CallSymmetry
INVARIANTS
    TypeOK
    AnsweredInTime
PROPERTIES
    ImplementsRemoteCall
    WaitFitsBudget
    ErrorsMaskedByOutageOnly
    HealthIsAccurate
CHECK_DEADLOCK FALSE
