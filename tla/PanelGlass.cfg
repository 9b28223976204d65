CONSTANTS
    Rig = Rig
    Stranger = Stranger
    ProtocolMajor = 1
    StalenessMs = 1
    StaleDecayMs = 3
    FirstFrameGraceMs = 1
    OfferWindow = 2
    ReresolveGap = 1
    BlankAfter = 4
    PollBudget = 2
    UploadsHappen = TRUE
    RestartsHappen = TRUE
    FlashFails = TRUE
    Addr <- MCAddr
    Datagrams <- MixedTraffic
    DnsAnswers <- MayFail
    WifiStates = {TRUE, FALSE}
SPECIFICATION FairSpec
INVARIANTS
    TypeOK
    DarkIsEarned
    GlassFollowsLadder
    OfferFlagFollowsSequence
    MismatchIsNotHidden
    IInv
PROPERTIES
    FreshRender
    WakesOnlyTheDead
    TwoTouches
    StaleDecays
    OfferIsWithdrawn
    IdlePanelGoesDark
    TelemetryReturns
CHECK_DEADLOCK TRUE
