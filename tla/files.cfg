SPECIFICATION Spec
CONSTANTS
    LastCluster = 4
    DirSpan = 1
    SlotsPerCluster = 2
    LastOnDevice = 20
    Short <- MCShort
    Text <- MCText
    FileNames = {"a", "b"}
    Removable = {"a"}
    Lengths <- MCLengths
    Paths <- NoPaths
    MayCrash = {"write", "remove"}
INVARIANTS
    TypeOK
    WriteThrough
    VolumeWhole
    ReadsOwnContents
PROPERTIES
    CopiesHeal
    RefinesFileStore
