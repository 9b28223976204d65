\* From the simulator to the glass, over twelve readings of two titles.
SPECIFICATION Spec
CONSTANTS
    sim1 = sim1  sim2 = sim2  other = other
    Supported <- MCSupported
    Readings <- MCReadings
    Peers = {v2}
    PluginMajor = 1
    RampPercent = 88
    FlashPercent = 97
    WireUnit = 2
    ProtocolMajor = 1
    StalenessMs = 1
    StaleDecayMs = 2
    FirstFrameGraceMs = 1
    FlashPeriod = 2
INVARIANTS TypeOK FrameIsBelieved GlassIsExact GlassNamesTheCondition GlassTellsTheSim
PROPERTIES LooksRepainted
