SPECIFICATION Spec
CONSTANTS
    Letters <- MCLetters
    Runs <- MCRuns
    Null = Null
    Environments <- MCEnvironments
    Scripts <- MCScripts
    Typed <- MCTyped
    VolumeCommands <- MCVolumeCommands
    MaxStatements = 4
CHECK_DEADLOCK FALSE
INVARIANTS
    TypeOK
    ArgumentsAsWritten
    ScriptInOrder
    ReadAsMeant
PROPERTIES
    ScriptEnds
