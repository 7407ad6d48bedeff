SPECIFICATION FairServiceSpec
CONSTANTS
    Proxy = proxy
    Backends = {b1, b2}
    Group <- ProxyAlone
    StartupTimeout = 2
    ProbeInterval = 1
    ProbeTimeout = 1
    FailureThreshold = 2
    StopGrace = 1
    Horizon = 0
    RestartSec = 1
    TimeoutStopSec = 2
    StartLimitInterval = 3
    StartLimitBurst = 2
PROPERTY
    RestartStormPrevented
CHECK_DEADLOCK FALSE
