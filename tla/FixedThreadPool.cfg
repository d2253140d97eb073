CONSTANTS
    t1 = t1  t2 = t2  t3 = t3  c1 = c1  c2 = c2
    threadsCount = 2
    Tasks = {t1, t2, t3}
    Throwing = {t1}
    Closers = {c1, c2}
    Pill = Pill
SPECIFICATION Spec
INVARIANT FixedTypeOK
PROPERTIES SubmittedBeforeShutdownRuns WorkersEnd
CHECK_DEADLOCK FALSE
