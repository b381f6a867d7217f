SPECIFICATION Spec
CONSTANTS
    Inputs <- MCInputs
    Terrains <- MCTerrains
    Spots <- MCSpots
    MaxDimension = 12
    MinRandom = 4
    MaxRandom = 7
    MinBase = 2
    MaxBase = 2
    ClusterSize = 2
    AttemptsPerCluster = 2
    ByteSize = 8
    WordSize = 32
    MinSize = 3
    UnitsAtStart = 3
INVARIANTS
    TypeOK
    BasesAgree
    SettingsAreObeyed
    LegalMapsLoad
    
CHECK_DEADLOCK FALSE
