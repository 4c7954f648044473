SPECIFICATION FairSpec
CONSTANTS
    m1 = m1
    m2 = m2
    Mcus <- TwoMcus
    EndstopMcu = m1
    Steppers <- Toolhead
    ExpireTicks = 3
    ReportTicks = 2
    MinExtend = 1
    Retries = 1
    Lead = 0
    MaxTime = 8
    LastStart = 0
    MaxSlow = 1
    MaxDrops = 2
    MaxSteps = 1
    MaxSessions = 2
\* The printer rests after its homing moves.
CHECK_DEADLOCK FALSE
INVARIANTS TypeOK OverrunBounded HomedTogether SessionFresh
PROPERTY NoStaleStep
PROPERTY HomeWaitReturns
