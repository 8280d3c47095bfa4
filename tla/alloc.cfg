SPECIFICATION Spec
CONSTANTS
    LastCluster = 5
    MaxClusters = 3
    Files = {f1, f2, f3}
INVARIANTS
    TypeOK
    VolumeSound
    CallSound
    ChainsPartition
    LoopMatchesClosedForm
    FitsContents
PROPERTIES
    OthersUntouched
    ExitsOnlyWhenFull
    CallEnds
    RefinesExtentStore
