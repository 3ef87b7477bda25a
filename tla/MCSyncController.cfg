CONSTANTS
    t1 = t1
    t2 = t2
    t3 = t3
    t4 = t4
    TaskIds <- MCTaskIds
    NoTask = NoTask
    NoSM = NoSM
    NoChain = NoChain
    Chain = main
    MaxQ = 2
    DLConcurrency = 2
    MaxHeight = 4
    MaxFaults = 1
    InitHeaders = {1}
    InitTips = {3}
    InitIBD = {FALSE}
    MayShutdown = TRUE
    MaxDrops = 0
SPECIFICATION Spec
SYMMETRY Symmetry
INVARIANTS
    TypeOK
    VerifierNeverRejects
    NoLostHeight
\* No deadlock check: the controller can stall with nothing left to do
\* (run download_round_stalls), and a round waits for free task addresses
\* while stale tasks hold the model's four.
CHECK_DEADLOCK FALSE
