CONSTANTS
    e1 = e1  e2 = e2  r1 = r1  r2 = r2  m1 = m1
    OneTimers = {e1, e2}
    Repeaters = {r1, r2}
    MainEvents = {m1}
    interval <- Intervals
    MaxNow = 2
    MaxPromises = 2
    ForeignCalls = {"cancel", "promise", "run", "runPromised"}
SPECIFICATION Spec
INVARIANTS NoLostWakeup DoneMeansIdleOffMain
PROPERTIES CancelledDoNotRun EveryOneTimerRuns
CHECK_DEADLOCK FALSE
