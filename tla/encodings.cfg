SPECIFICATION EncodingsSpec
CONSTANTS
    LastCluster = 5
    TableBytes = 19
    Places = 3
    Beyond <- MCBeyond
    Typed <- MCTyped
    DirNames <- MCDirNames
    Found <- MCFound
    Now <- MCNow
    MaxSlips = 2
INVARIANTS
    ReadsBack
    NamesSettle
    TypedNamesFound
    DatesSlip
PROPERTIES
    AttributesKept
