\* Two titles without an adapter, and what the panel's line says.
SPECIFICATION Spec
CONSTANTS
    sim1 = sim1  sim2 = sim2  other = other
    Supported = {sim1}
    Readings <- TwoTitles
    Peers = {v2}
    PluginMajor = 1
    RampPercent = 88
    FlashPercent = 97
    WireUnit = 2
    ProtocolMajor = 1
    StalenessMs = 1
    StaleDecayMs = 2
    FirstFrameGraceMs = 1
    FlashPeriod = 2
INVARIANTS LineIsCurrent
