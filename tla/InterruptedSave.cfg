\* A save that one power cut interrupts; flash never fails to open.
SPECIFICATION Spec
CONSTANTS
    h1 = h1  h2 = h2  c1 = c1  c2 = c2  n1 = n1  n2 = n2
    Hosts <- MCHosts
    Creds <- MCCreds
    Networks <- MCNetworks
    Forms <- MCForms
    FirstRecords <- MCFirstRecords
    SchemaVersion = 2
    BlankDefault = 1
    BlankMax = 2
    StrayBlanks = {}
    FlashFails = FALSE
    MaxCuts = 1
INVARIANTS InterruptedSaveIsWhole
