CONSTANTS
    m1 = m1  m2 = m2  m3 = m3
    Modules = {m1, m2, m3}
    MacroModules = {m2}
    ContentModules = {m1}
    Graphs <- SharedCycle
SPECIFICATION Spec
INVARIANT ConfirmedClosed
PROPERTY CheckReturns
