\* Without crashes every search ends; one catalog, since catalogs are apart.
CONSTANTS
    CatalogCount = 1
    ForkNames = {f1, f2}
    NoFork = NoFork
    DiskSectors = 512
    DataSizes <- MCDataSizes
SPECIFICATION FairSpec
INVARIANT SiblingsBelow
PROPERTY CallsEnd
