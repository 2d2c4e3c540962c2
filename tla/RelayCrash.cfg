SPECIFICATION Spec
CONSTANTS
    x = x
    y = y
    None = None
    Artifact <- MCArtifact
    MaxVersion = 3
    MaxPowerLosses = 1
    MaxExits = 1
    MaxIoErrors = 1
    MaxDrops = 1
SYMMETRY Symmetric
CHECK_DEADLOCK FALSE
INVARIANTS AckedIsDurable AckedHistoryKept VersionsNeverGoBack RepairPossible EndpointsCoverAcked
