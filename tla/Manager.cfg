SPECIFICATION Spec
CONSTANTS
    t1 = t1
    t2 = t2
    Threads <- TwoThreads
    Ops <- MCOps
    MaxRequests = 3
    MaxPlugs = 2
    MaxCrashes = 1
    None = None
INVARIANTS
    ConnectionOwned
    SendRecovers
PROPERTIES
    ConfigSafe
\* The service waits for requests when the instance has made all of its own.
CHECK_DEADLOCK FALSE
