SPECIFICATION Spec
CONSTANTS
    Jobs = {j1, j2}
    Tasks = {t1, t2}
    Kids = {}
    MaxJobs = 1
    IdleLease = 1
    BusyWindow = 1
    CompletedTtl = 1
    MaxClock = 2
    MaxActivity = 1
    Env = {}
SYMMETRY JobTaskSymmetry
VIEW View
INVARIANT RegistryKeepsRunning
PROPERTY ReapOnlyIdle
