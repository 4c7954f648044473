SPECIFICATION FairSpec
CONSTANTS
    c1 = c1
    c2 = c2
    None = None
    Clients <- TwoClients
    Requests <- Printing
    Lines <- Job
    Faults <- AllFaults
    SavedMesh = TRUE
PROPERTIES
    PauseHolds
    ResumeDisarms
    MotorsKept
    RequestsAnswered
