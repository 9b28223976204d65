\* A title that faults, builds a frame and faults again.
SPECIFICATION LogSpec
CONSTANTS
    sim1 = sim1  sim2 = sim2  other = other
    Supported <- MCSupported
    Readings <- Faults
    Peers = {v2}
    PluginMajor = 1
    RampPercent = 88
    FlashPercent = 97
    WireUnit = 2
    ProtocolMajor = 1
    StalenessMs = 1
    StaleDecayMs = 2
    FirstFrameGraceMs = 1
    FlashPeriod = 2
    MaxLog = 2
INVARIANTS FaultIsLoggedOnce
