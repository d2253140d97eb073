SPECIFICATION PcreSpec
CONSTANTS
    Rex = {r1, r2}
    Groups = 2
    Length = 1
    MaxDepth = 2
    None = None
SYMMETRY Symmetry
INVARIANTS NothingLeaks RunningCodeIsAlive GroupsReported
