---------------------------- MODULE RuntimeConfig ----------------------------
(***************************************************************************)
(* The configuration Pavis executes (pavis-core, runtime/): one set per     *)
(* Rust type.  The compiler produces a member of Runtime, artifacts carry   *)
(* one, and the proxy routes by one.                                        *)
(*                                                                         *)
(* A disabled variant of a policy, and an absent Option, is None.  Integers *)
(* keep their width: u16 is 0..U16Max and u32 is 0..U32Max, where U32Max is *)
(* scaled down to what TLC can count.  A path is the sequence of its        *)
(* characters, a host the sequence of its labels; other strings are atoms.  *)
(*                                                                         *)
(* A computation the code ends with an error yields Err, and `?` is Try: a  *)
(* structure or list with an Err in it is Err.                              *)
(***************************************************************************)
EXTENDS Lists

CONSTANTS None,      \* an absent Option, a Disabled policy
          Err,       \* Result::Err
          U16Max,    \* u16::MAX
          U32Max     \* u32::MAX, scaled

ASSUME WidthAssumption == /\ U16Max \in Nat /\ U32Max \in Nat
                          /\ 0 < U16Max /\ U16Max < U32Max

Option(S) == S \cup {None}
Try(r) == IF \E f \in DOMAIN r : r[f] = Err THEN Err ELSE r
OrElse(option, default) == IF option = None THEN default ELSE option
MapSome(option, Op(_)) == IF option = None THEN None ELSE Op(option)
MapSeq(s, Op(_)) == [i \in DOMAIN s |-> Op(s[i])]

(* The regex crate.  A pattern is a sequence of characters; the language is *)
(* cut down to "^" as an anchor and "(" as the one way to be malformed.     *)
RegexNew(pattern) == ~Contains(pattern, "(")
RegexIsMatch(pattern, text) ==
    IF pattern # <<>> /\ Head(pattern) = "^" THEN IsPrefix(Tail(pattern), text)
    ELSE \E i \in 1 .. Len(text) + 1 :
             IsPrefix(pattern, SubSeq(text, i, Len(text)))

(* str::to_uppercase and to_lowercase, on the names that occur.             *)
ToUppercase(s) == IF s = "get" THEN "GET" ELSE IF s = "post" THEN "POST" ELSE s
ToLowercase(s) == CASE s = "X-Env" -> "x-env" [] s = "Set-Cookie" -> "set-cookie"
                    [] s = "SPIFFE" -> "spiffe" [] s = "Zipkin" -> "zipkin"
                    [] s = "DEBUG" -> "debug"
                    [] OTHER -> s

U16 == 0 .. U16Max
U32 == 0 .. U32Max
NonZeroU16 == 1 .. U16Max
NonZeroU32 == 1 .. U32Max

(* types.rs: the newtypes.  Duration is in milliseconds and never zero, and *)
(* the timeout enums add a Disabled (TryTimeout: an Inherit) variant.       *)
Duration == NonZeroU32
Timeout == Option(Duration)
ConnectTimeout == Option(Duration)
IdleTimeout == Option(Duration)
TryTimeout == Option(Duration)
Weight == NonZeroU16
Port == NonZeroU16
SampleRate == U32

Path == Seq(STRING)
Host == Seq(STRING)
SocketAddr == [ip : STRING, port : U16]

--------------------------------------------------------------------------
(* upstream.rs *)
Discovery == [kind : {"static", "logical"}] \cup [kind : {"strict"}, ttl : U32]
LoadBalancer == {"round-robin", "random", "least-request"}
HttpVersion == {"h1", "h2", "h2h1"}

EndpointAddr == [kind : {"ip"}, address : STRING, port : Port]
           \cup [kind : {"dns"}, host : STRING, port : Port]
Endpoint == [address : EndpointAddr, weight : Weight]

DEFAULT_POOL_MAX == 128
ASSUME PoolAssumption == DEFAULT_POOL_MAX \in NonZeroU32

Pool == [idle : IdleTimeout, connect : ConnectTimeout, max : NonZeroU32,
         queue_capacity : U32, queue_timeout_ms : U32,
         tcp_keepalive : Option(Duration), tcp_nodelay : Option(BOOLEAN),
         recv_buffer_size : Option(U32)]

OutlierDetectionPolicy ==
    Option([consecutive_errors : NonZeroU32, eject_duration : Duration])
CircuitBreakerPolicy ==
    Option([max_connections : NonZeroU32, max_pending_requests : NonZeroU32])
ActiveHealthCheck ==
    Option([path : Path, interval : Duration, timeout : Duration])

TlsVerify == {"disabled", "ca-only", "full"}
SniName == [kind : {"auto", "disabled"}] \cup [kind : {"name"}, name : STRING]
CanonicalSni == Option(STRING)
UpstreamCa == Option(STRING)                       \* None: the system roots
ClientCertChain == [kind : {"none", "embedded"}]
              \cup [kind : {"file"}, path : STRING]
ClientCert ==
    Option([cert_path : STRING, key_path : STRING, chain : ClientCertChain])
TlsPolicy ==
    Option([verify : TlsVerify, sni : SniName, canonical_sni : CanonicalSni,
            reuse_across_sni : BOOLEAN, cert : ClientCert, ca : UpstreamCa])

Upstream == [id : NonZeroU16, name : STRING, discovery : Discovery,
             balancer : LoadBalancer, protocol : HttpVersion, pool : Pool,
             outlier_detection : OutlierDetectionPolicy,
             circuit_breaker : CircuitBreakerPolicy,
             health_check : ActiveHealthCheck, tls : TlsPolicy,
             endpoints : Seq(Endpoint)]

--------------------------------------------------------------------------
(* routing.rs, retry.rs and the header policies of policy.rs *)
HttpMethod == {"GET", "POST", "PUT", "DELETE", "PATCH", "HEAD", "OPTIONS",
               "CONNECT", "TRACE"}
MethodPredicate == [kind : {"any"}]
              \cup [kind : {"specific"}, method : HttpMethod]
              \cup [kind : {"list"}, methods : Seq(HttpMethod)]
HeaderMatch == [kind : {"present", "absent"}]
          \cup [kind : {"exact", "prefix", "regex"}, value : Seq(STRING)]
HeaderPredicate == [name : STRING, matcher : HeaderMatch]
HeaderPredicates == Seq(HeaderPredicate)           \* <<>>: None
PathMatch == [kind : {"prefix", "exact", "regex"}, path : Path]
RouteMatcher ==
    [path : PathMatch, method : MethodPredicate, headers : HeaderPredicates]

Destination == [upstream : STRING, weight : Weight]
RouteAction == [kind : {"forward"}, destinations : Seq(Destination)]
          \cup [kind : {"redirect"}, status : U16, location : STRING]
          \cup [kind : {"direct"}, status : U16, body : STRING]
Rewrite == [path : Option([from : Path, to : Path]), host : Option(Host)]
Principal == [kind : {"any"}]
        \cup [kind : {"authenticated"}, spiffe : Path]
        \cup [kind : {"prefix"}, prefix : Path]

BackoffStrategy == [kind : {"fixed", "linear"}, base_ms : Nat]
              \cup [kind : {"exponential"}, base_ms : Nat, max_ms : Nat]
RetryReason == {"status_code", "connect_timeout", "read_timeout",
                "per_try_timeout", "pool_full", "connect_error"}
RetryPolicy ==
    Option([max_attempts : NonZeroU16, per_try : TryTimeout,
            retryable_reasons : Seq(RetryReason),
            retryable_status_codes : Option(Seq(U16)),
            backoff : BackoffStrategy, retry_non_idempotent : BOOLEAN,
            fail_on_non_replayable_retry : BOOLEAN,
            max_request_body_buffer_bytes : Nat])

HeaderPair == STRING \X Seq(STRING)
HeadersPolicy ==
    Option([set_headers : Seq(HeaderPair), append_headers : Seq(HeaderPair),
            add_headers : Seq(HeaderPair), remove_headers : Seq(STRING)])

Route == [matcher : RouteMatcher, timeout : Timeout, retry : RetryPolicy,
          request_headers : HeadersPolicy, response_headers : HeadersPolicy,
          rewrite : Rewrite, action : RouteAction, principal : Principal]
VirtualHost == [host : Host, paths : Seq(Route)]

--------------------------------------------------------------------------
(* listener.rs, telemetry.rs, the rest of policy.rs *)
ClientAuth == Option([mode : {"optional", "required"}, ca_path : STRING])
TlsConfig ==
    Option([cert_path : STRING, key_path : STRING, client_auth : ClientAuth])
WorkerCount == Option(NonZeroU16)                  \* None: Auto
Listener == [name : STRING, address : SocketAddr, workers : WorkerCount,
             tls : TlsConfig]

LogLevel == {"error", "warn", "info", "debug", "trace"}
AccessLogPolicy == [kind : {"disabled", "stdout"}]
              \cup [kind : {"file"}, path : STRING]
TracingPolicy ==
    Option([provider : {"otlp", "jaeger", "zipkin"}, sampling : SampleRate,
            endpoint : STRING])
Metrics == Option(SocketAddr)
Telemetry == [level : LogLevel, pingora : LogLevel, service_name : STRING,
              metrics : Metrics, access_log : AccessLogPolicy,
              tracing : TracingPolicy]

ShutdownPolicy == Option([drain_timeout : Duration])
AdminConfig == Option(SocketAddr)
RegexLimits == [pattern_max_bytes : U32, size_limit_bytes : Nat,
                input_max_bytes : U32, max_regex_per_route : U32,
                max_regex_per_config : U32]
DefaultRegexLimits ==
    [pattern_max_bytes |-> 256, size_limit_bytes |-> 10 * 1024 * 1024,
     input_max_bytes |-> 4096, max_regex_per_route |-> 10,
     max_regex_per_config |-> 100]
RoutingFeatures == [advanced_matchers : BOOLEAN, regex_limits : RegexLimits]

Runtime ==
    [listeners : Seq(Listener), telemetry : Telemetry,
     upstreams : Seq(Upstream), routes : Seq(VirtualHost),
     shutdown : ShutdownPolicy, admin : AdminConfig,
     features : RoutingFeatures, required_capabilities : Seq(STRING)]
==============================================================================
