SPECIFICATION FairSpec
CONSTANTS
    Jobs = {j1}
    Tasks = {t1, t2}
    Kids = {k1}
    MaxJobs = 1
    IdleLease = 1
    BusyWindow = 0
    CompletedTtl = 1
    MaxClock = 0
    MaxActivity = 0
    Env = {}
PROPERTIES
    SettlesUnlessAbandoned
    HardTimeoutKills
    StopReachesGroup
