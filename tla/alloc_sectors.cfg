SPECIFICATION Spec
CONSTANTS
    LastCluster = 5
    MaxClusters = 3
    Files = {f1, f2}
INVARIANT
    SectorBlockFits
