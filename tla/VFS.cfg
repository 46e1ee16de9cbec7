SPECIFICATION Spec
CONSTANTS
    NBLOCKS = 7
    BITS_PER_WORD = 4
    SFS_NDIRECT = 1
    SFS_DBPERIDB = 2
    DirPerBlock = 2
    NoName = NoName
    MaxFaults = 1
    FileBlock = {0, 1}
    MaxLoad = 5
    Thread = {t1, t2}
    Name = {a, b}
CONSTRAINT BoundedLoad
VIEW View
SYMMETRY Symmetry
INVARIANTS
    VnodeRefs
    VolumeConsistent
    CleanVolume
