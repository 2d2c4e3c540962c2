SPECIFICATION FairSpec
CONSTANTS
    ip1 = ip1
    ip2 = ip2
    svc = svc
    Null = Null
    None = None
    Address <- MCAddress
    Host <- MCHost
    Config <- LiveConfig
    ZoneAnswer <- LiveZoneAnswer
    Place = {p1, p2}
    Request = {r1}
    Job = {j1, j2}
    Threshold = 1
    MaxErrors = 1
    MaxAttempts = 1
    MaxGen = 2
    MaxEvents = 1
PROPERTIES Readmitted HealthFollowsProbes ListFollowsDns
