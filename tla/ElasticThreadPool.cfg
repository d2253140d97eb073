CONSTANTS
    t1 = t1  t2 = t2  t3 = t3  c1 = c1  c2 = c2  None = None
    Tasks = {t1, t2, t3}
    Closers = {c1, c2}
    Throwing = {t1}
    maxThreadsCount = 2
SPECIFICATION Spec
INVARIANTS TypeOK NoTaskTwice
PROPERTY HandedTasksRun
CHECK_DEADLOCK FALSE
