CONSTANTS
    MaxQ = 4
    From = 3
    To = 21
    Stride = 2
    MaxFaults = 2
SPECIFICATION Spec
INVARIANTS
    TypeOK
    OutstandingWithinMaxQ
PROPERTIES
    DeliversOnce
    EventuallySucceeds
\* The task ends: after stop() nothing of it runs any more.
CHECK_DEADLOCK FALSE
