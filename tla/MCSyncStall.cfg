CONSTANTS
    t1 = t1
    t2 = t2
    t3 = t3
    t4 = t4
    TaskIds <- MCTaskIds
    NoTask = NoTask
    NoSM = NoSM
    NoChain = NoChain
    Chain = main
    MaxQ = 1
    DLConcurrency = 2
    MaxHeight = 3
    MaxFaults = 1
    InitHeaders = {1}
    InitTips = {3}
    InitIBD = {FALSE}
    MayShutdown = FALSE
    MaxDrops = 0
SPECIFICATION Spec
\* Cut behaviours whose event queue grows past MaxQueue events; the
\* counterexample ends with an empty queue, no task and no timer armed.
CONSTRAINT QueueBound
PROPERTY
    DownloadRoundEnds
\* The stall is what this run is about: nothing is left to do in it.
CHECK_DEADLOCK FALSE
