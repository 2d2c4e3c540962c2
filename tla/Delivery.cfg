SPECIFICATION MCSpec
CONSTANTS
    x = x
    y = y
    c1 = c1
    None = None
    Artifact <- MCArtifact
    Client <- MCClient
    Contents <- MCContents
    Environment <- MCEnvironment
    RawConfigs <- MCConfigs
    MaxPublishes = 5
    MaxDrops = 1
    MaxEdits = 1
    MaxDisturbances = 1
PROPERTIES ClientNeverGoesBack NoRedundantAnswer EventuallyCurrent EventuallyDelivered NewerStays
CHECK_DEADLOCK FALSE
