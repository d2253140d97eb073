CONSTANTS
    t1 = t1  t2 = t2  t3 = t3  c1 = c1  c2 = c2  None = None
    Tasks = {t1, t2}
    Closers = {c1}
    Throwing = {}
    maxThreadsCount = 1
SPECIFICATION Spec
PROPERTY QueuedTasksRun
CHECK_DEADLOCK FALSE
