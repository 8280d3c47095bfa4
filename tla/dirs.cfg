SPECIFICATION Spec
CONSTANTS
    LastCluster = 7
    DirSpan = 2
    SlotsPerCluster = 2
    LastOnDevice = 7
    Short <- MCShort
    Text <- MCText
    FileNames = {"a"}
    Removable = {}
    Lengths <- MCOneLength
    Paths <- MCPaths
    MayCrash = {"mkdir"}
INVARIANTS
    VolumeWhole
    DirectoriesBegun
    
    InsideTree
    MkdirMakesPath
PROPERTIES
    BystandersKept
    NavigationIsAtomic
