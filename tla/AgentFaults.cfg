SPECIFICATION Spec
CONSTANTS
    good = good  other = other  rebind = rebind  corrupt = corrupt
    None = None
    Artifact <- MCArtifact
    WellFormed <- MCWellFormed
    Fingerprint <- MCFingerprint
    Version = {1}
    MaxAttempt = 2
    MaxPublishes = 2
    MaxFaults = 2
    LkgReadbackFails = TRUE
INVARIANTS DriverInSync LkgServed
PROPERTY ImplementsAtomicReload
