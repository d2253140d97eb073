CONSTANTS
    Handle = {h1, h2}
    Fd <- SmallFd
    Pid = {1, 2}
    Capacity = 1
    KidStreams = {"out"}
    None = None  Freed = Freed  Null = Null
    Character <- SmallCharacter
    Commands <- SmallCommands
    Arguments <- SmallArguments
    Comspec <- SmallComspec
    InitialBlen = 2
SPECIFICATION Spec
INVARIANTS HandlesKeepTheirEnds NothingElseIsOpen OwnChildOnly BufferHoldsText ArgumentsArrive
PROPERTIES CallsReturn
CHECK_DEADLOCK FALSE
