SPECIFICATION Spec
CONSTANTS
    ip1 = ip1
    ip2 = ip2
    svc = svc
    Null = Null
    None = None
    Address <- MCAddress
    Host <- MCHost
    Config <- MCConfig
    ZoneAnswer <- MCZoneAnswer
    Place = {p1, p2}
    Request = {r1}
    Job = {j1, j2}
    Threshold = 2
    MaxErrors = 2
    MaxAttempts = 2
    MaxGen = 1
    MaxEvents = 1
INVARIANTS PublishedMatchesHealth
PROPERTIES EjectionHolds
