\* The publisher's threads, with the wall clock set, captures and an end.
SPECIFICATION Spec
CONSTANTS
    d1 = d1  d2 = d2  a1 = a1  a2 = a2
    Devices <- MCDevices
    Addrs <- MCAddrs
    Datagrams <- MCDatagrams
    ForgetAfter = 1
    MaxSkew = 1
    PluginMajor = 1
    CapturesHappen = TRUE
    PluginEnds = TRUE
INVARIANTS TypeOK SendsGoWhereHeard ListenerOutlivesErrors
PROPERTIES ExpiryIsExact ShutdownCompletes StreamSurvives
CHECK_DEADLOCK FALSE
