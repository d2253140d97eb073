CONSTANTS
    m1 = m1  m2 = m2  m3 = m3
    Modules = {m1, m2, m3}
    MacroModules = {}
    ContentModules = {}
    Graphs <- AllGraphs
SYMMETRY Symmetric
SPECIFICATION Spec
INVARIANTS TypeOK ConfirmedClosed NoMixedVersions BadHasCause NothingAssumedAtRest
PROPERTY StickyBad
