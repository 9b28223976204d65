\* Six seconds of expiry against registrations every two, in half seconds.
SPECIFICATION Spec
CONSTANTS
    Panel = Panel  PanelAddr = PanelAddr
    ProtocolMajor = 1
    StalenessMs = 4
    StaleDecayMs = 6
    FirstFrameGraceMs = 5
    Majors = {1, 2}
    ForgetAfter = 12
    RegisterInterval = 4
    Jitter = 1
    MaxLost = 2
    MaxDelay = 4
    MaxUptime = 17
    MaxRuns = 3
INVARIANTS TypeOK ServedWithoutGaps NewRunIsPickedUp
PROPERTIES NoStepBack
CHECK_DEADLOCK FALSE
