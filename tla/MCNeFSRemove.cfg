\* One directory and one file are enough to remove something.
CONSTANTS
    dir = dir
    file = file
    short = short
    Comps <- MCComps
    Paths <- MCPaths
    DirComp = {dir}
    ShortComp = {short}
    OtherKinds = {}
    Slots = 4
    FreeCatalog0 = 2
    FreeSectors0 = 2
    Word = 3
    MaxLeaks = 0
SPECIFICATION Spec
INVARIANT RemovedIsGone
