\* Two catalogs with two forks of any size, and crashes, on the smallest disk.
CONSTANTS
    CatalogCount = 2
    ForkNames = {f1, f2}
    NoFork = NoFork
    DiskSectors = 1024
    DataSizes <- MCDataSizes
SPECIFICATION Spec
SYMMETRY NameSymmetry
INVARIANTS TypeOK ForksApart LastForkFound
