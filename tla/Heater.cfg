SPECIFICATION Spec
CONSTANTS
    MaxDuration = 16
    Renew = 12
    Report = 2
    Cycle = 2
    Significant = 2
    RangeCheck = 2
    MaxTime = 44
INVARIANTS
    HeatBounded
    NoFalseAlarm
