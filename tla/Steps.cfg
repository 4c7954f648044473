SPECIFICATION Spec
CONSTANTS
    Num = 2
    Slots = 2
    Far = 3
    Half = 4
    Lead = 2
    Late = 1
    Travel = 1
    MaxTime = 6
    MaxMoves = 4
    MaxTurns = 1
    MaxTicks = 1
INVARIANTS
    SlotsSuffice
    NoStarvation
CHECK_DEADLOCK FALSE
