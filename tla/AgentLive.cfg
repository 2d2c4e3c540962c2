SPECIFICATION FairSpec
CONSTANTS
    good = good  other = other  rebind = rebind  corrupt = corrupt
    None = None
    Artifact <- MCSmallArtifact
    WellFormed <- MCSmallWellFormed
    Fingerprint <- MCFingerprint
    Version = {1}
    MaxAttempt = 2
    MaxPublishes = 2
    MaxFaults = 2
    LkgReadbackFails = FALSE
INVARIANT AppliedIsServed
PROPERTIES Convergence
