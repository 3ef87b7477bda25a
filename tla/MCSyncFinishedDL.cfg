CONSTANTS
    t1 = t1
    t2 = t2
    t3 = t3
    t4 = t4
    TaskIds <- MCTaskIds
    NoTask = NoTask
    NoSM = NoSM
    NoChain = NoChain
    Chain = main
    MaxQ = 2
    DLConcurrency = 2
    MaxHeight = 3
    MaxFaults = 0
    InitHeaders = {1}
    InitTips = {3}
    InitIBD = {FALSE}
    MayShutdown = FALSE
    MaxDrops = 0
SPECIFICATION Spec
SYMMETRY Symmetry
INVARIANT
    FinishedDLHasLastHeader
\* A round needs DLConcurrency free task ids; when stale tasks hold the
\* others the model (not the code) has no id to give and stops.
CHECK_DEADLOCK FALSE
