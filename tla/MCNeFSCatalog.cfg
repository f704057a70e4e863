\* FreeCatalog runs out after three creations, a crash may leak one more.
CONSTANTS
    dir = dir
    file = file
    short = short
    Comps <- MCComps
    Paths <- MCPaths
    DirComp = {dir}
    ShortComp = {short}
    OtherKinds = {}
    Slots = 6
    FreeCatalog0 = 3
    FreeSectors0 = 2
    Word = 3
    MaxLeaks = 1
SPECIFICATION FairSpec
INVARIANTS TypeOK CatalogsDense NamesUnique GetExact CreateVerdict FreeCatalogExact
PROPERTIES CatalogsDurable CallsEnd ImplementsNamespace
