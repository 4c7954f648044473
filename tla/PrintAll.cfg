SPECIFICATION Spec
CONSTANTS
    c1 = c1
    c2 = c2
    None = None
    Clients <- TwoClients
    Requests <- All
    Lines <- Job
    Faults <- NoFaults
    SavedMesh = FALSE
INVARIANTS
    TypeOK
    PoweredMoves
PROPERTIES
    CancelCools
