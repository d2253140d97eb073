CONSTANTS
    n1 = n1  n2 = n2  n3 = n3  n4 = n4
    Val_unit = Val_unit  None = None
    Node = {n1, n2, n3, n4}
    Heaps <- SmallHeaps
    Lists <- SmallLists
    LiveColors = {0, 3}
    COLORS_INIT_COUNT = 4
    BITS_FOR_COUNT = 2
    BITS_FOR_ORDER = 1
SPECIFICATION ObjSpec
INVARIANTS NoAssertFails MarksTheReachable
PROPERTIES Measures CallReturns
