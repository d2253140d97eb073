CONSTANTS
    t1 = t1  t2 = t2  broken = broken  None = None
    Contents = {t1, t2, broken}
    Unparsable = {broken}
    MaxTime = 4
    Racing = TRUE
    SameSecond = FALSE
    ContentPolicy = TRUE
    Explores = TRUE
SPECIFICATION Spec
INVARIANTS TypeOK ParseCacheFresh
PROPERTY ServesFreshText
