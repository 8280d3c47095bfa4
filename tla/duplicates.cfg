SPECIFICATION Spec
CONSTANTS
    LastCluster = 5
    DirSpan = 1
    SlotsPerCluster = 2
    LastOnDevice = 20
    Short <- MCShort
    Text <- MCText
    FileNames = {"a", "b"}
    Removable = {"a"}
    Lengths <- MCLengths
    Paths <- NoPaths
    MayCrash = {}
INVARIANTS
    CreatesOnlyMissing
