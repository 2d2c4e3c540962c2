SPECIFICATION Spec
CONSTANTS
    None = None
    Err = Err
    U16Max = 65535
    U32Max = 99999
    U64Max = 4095
    TicksPerMs = 2
    HeaderPatternMax = 3
    PathPatternMax = 5
    CodecFormat = "yaml"
    REQUEST_ID_MAX_LEN = 9
    PayloadLen = 4
    MAX_PAYLOAD_SIZE = 8
    CounterMax = 4
    TakenPorts = {9091}
    DnsSettings <- MCDnsSettings
    Dns <- MCDns
    Pem <- MCPem
    Artifact <- MCArtifact
    NextArtifact <- MCNextArtifact
    Request <- MCRequest
    Answer <- MCAnswer
INVARIANTS TypeOK RoundTrip FirstRouteWins TlsAsWritten HeadersAsRuled
           IdentityProven SharesByWeight BackoffGrows BootStays
           OneConfiguration PredicatesAgree
CHECK_DEADLOCK FALSE
