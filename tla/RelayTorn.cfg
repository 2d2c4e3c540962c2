SPECIFICATION Spec
CONSTANTS
    x = x
    y = y
    None = None
    Artifact <- MCArtifact
    MaxVersion = 3
    MaxPowerLosses = 0
    MaxExits = 1
    MaxIoErrors = 0
    MaxDrops = 0
SYMMETRY Symmetric
CHECK_DEADLOCK FALSE
INVARIANTS LkgPairIntact
