SPECIFICATION FairSpec
CONSTANTS
    Callbacks <- Both
    RETRANSMIT_COUNT = 1
    MaxReports = 3
    AckMod = 8
    Earlier = 7
    MaxChanges = 3
    MaxDrops = 1
    MaxInFlight = 1
    Printing = TRUE
    Job = Job
    Timer = Timer
    None = None
INVARIANTS
    ReportedOnce
    Tracked
PROPERTIES
    ReportsArrive
    RunoutPauses
