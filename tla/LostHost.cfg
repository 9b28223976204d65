CONSTANTS
    Rig = Rig
    Stranger = Stranger
    ProtocolMajor = 1
    StalenessMs = 1
    StaleDecayMs = 3
    FirstFrameGraceMs = 1
    OfferWindow = 2
    ReresolveGap = 2
    BlankAfter = 4
    PollBudget = 2
    UploadsHappen = FALSE
    RestartsHappen = FALSE
    FlashFails = FALSE
    Addr <- MCAddr
    Datagrams <- LiveTraffic
    DnsAnswers <- MayFail
    WifiStates = {TRUE, FALSE}
SPECIFICATION FairSpec
PROPERTY HostIsFoundAgain
CHECK_DEADLOCK TRUE
