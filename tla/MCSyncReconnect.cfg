CONSTANTS
    t1 = t1
    t2 = t2
    t3 = t3
    t4 = t4
    TaskIds <- MCTaskIds
    NoTask = NoTask
    NoSM = NoSM
    NoChain = NoChain
    Chain = main
    MaxQ = 1
    DLConcurrency = 1
    MaxHeight = 1
    MaxFaults = 0
    InitHeaders = {1, 2}
    InitTips = {1}
    InitIBD = {FALSE, TRUE}
    MayShutdown = FALSE
    MaxDrops = 1
SPECIFICATION Spec
PROPERTIES
    KeepsPolling
    EventuallySynced
