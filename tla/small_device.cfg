SPECIFICATION Spec
CONSTANTS
    LastCluster = 5
    DirSpan = 1
    SlotsPerCluster = 2
    LastOnDevice = 4
    Short <- MCShort
    Text <- MCText
    FileNames = {"a", "b"}
    Removable = {"a"}
    Lengths <- MCLengths
    Paths <- NoPaths
    MayCrash = {}
INVARIANTS
    AccessOnDevice
