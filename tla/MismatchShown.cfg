\* A panel that registers with a plugin of another major version.
SPECIFICATION Spec
CONSTANTS
    Panel = Panel  PanelAddr = PanelAddr
    ProtocolMajor = 1
    StalenessMs = 4
    StaleDecayMs = 6
    FirstFrameGraceMs = 5
    Majors = {1, 2}
    ForgetAfter = 12
    RegisterInterval = 4
    Jitter = 1
    MaxLost = 1
    MaxDelay = 4
    MaxUptime = 17
    MaxRuns = 2
INVARIANTS MismatchIsShown
CHECK_DEADLOCK FALSE
