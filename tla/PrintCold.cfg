SPECIFICATION Spec
CONSTANTS
    c1 = c1
    c2 = c2
    None = None
    Clients <- TwoClients
    Requests <- Loading
    Lines <- Job
    Faults <- NoFaults
    SavedMesh = TRUE
INVARIANTS
    HotMoves
