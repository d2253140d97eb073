CONSTANTS
    src = src  lib = lib
    Dirs = {src, lib}
    Paths <- TwoPaths
    MaxTime = 4
    MaxDelays = 2
SPECIFICATION Spec
PROPERTY ShadowingIsSeen
