CONSTANTS
    t1 = t1
    t2 = t2
    t3 = t3
    t4 = t4
    TaskIds <- MCTaskIds
    NoTask = NoTask
    NoSM = NoSM
    NoChain = NoChain
    Chain = main
    MaxQ = 2
    DLConcurrency = 2
    MaxHeight = 4
    MaxFaults = 0
    InitHeaders = {1}
    InitTips = {3}
    InitIBD = {FALSE}
    MayShutdown = FALSE
    MaxDrops = 0
SPECIFICATION Spec
SYMMETRY Symmetry
INVARIANT
    NeverAborts
\* The counterexample ends in Fatal(), after which nothing runs.
CHECK_DEADLOCK FALSE
