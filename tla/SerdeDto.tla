-------------------------------- MODULE SerdeDto --------------------------------
(***************************************************************************)
(* The document an operator writes, as serde reads it: one set per DTO of   *)
(* the codec (config/types), and the values serde fills in for fields left  *)
(* out.  An optional field that is left out is None.  A duration counts     *)
(* ticks finer than a millisecond; i64, u64 and usize are not bounded here  *)
(* because nothing computes with them before they are checked.              *)
(***************************************************************************)
EXTENDS RuntimeConfig

Ticks == Nat                                       \* std::time::Duration

(* types/upstreams.rs *)
ConnectionPoolConfig ==
    [idle : Option(Ticks), connect : Option(Ticks), max : Option(Int),
     queue_capacity : Option(Int), queue_timeout_ms : Option(Int),
     tcp_keepalive : Option(Ticks), tcp_nodelay : Option(BOOLEAN),
     recv_buffer_size : Option(U32)]
ClientCertConfig ==
    [cert_path : STRING, key_path : STRING, chain_path : Option(STRING),
     chain_mode : Option({"none", "embedded", "file"})]
UpstreamTlsConfig ==
    [enabled : Option(BOOLEAN), verify_hostname : Option(BOOLEAN),
     verify_cert : Option(BOOLEAN), sni : Option(STRING),
     sni_mode : Option({"auto", "name", "disabled"}),
     canonical_sni : Option(STRING), reuse_across_sni : Option(BOOLEAN),
     ca_bundle_path : Option(STRING), cert : Option(ClientCertConfig)]
CircuitBreakerDto ==
    [max_connections : Nat, max_pending_requests : Nat, max_retries : Option(Nat)]
OutlierDetectionDto == [consecutive_errors : Nat, eject_duration : Ticks]
default_health_threshold == 1
HealthCheckDto ==
    [path : Path, interval : Ticks, timeout : Option(Ticks),
     healthy_threshold : Nat, unhealthy_threshold : Nat]
EndpointDto == [address : STRING, port : U16, weight : Option(U32)]
UpstreamDto ==
    [id : Option(U16), name : STRING, discovery : Option(Discovery),
     balancer : Option(LoadBalancer), protocol : Option(HttpVersion),
     pool : Option(ConnectionPoolConfig), tls : Option(UpstreamTlsConfig),
     circuit_breaker : Option(CircuitBreakerDto),
     outlier_detection : Option(OutlierDetectionDto),
     health_check : Option(HealthCheckDto), endpoints : Seq(EndpointDto)]

(* types/routes.rs.  A header predicate is written with an operator (V2) or *)
(* with the flags of the first format (V1).                                 *)
HeaderMatcherDTO ==
    [name : STRING, value : Seq(STRING),
     operator : {"exact", "prefix", "regex", "present", "absent"}]
HeaderPredicateLegacy ==
    [name : STRING, value : Option(Seq(STRING)), regex : BOOLEAN,
     prefix : BOOLEAN, absent : BOOLEAN]
HeaderPredicateDto == HeaderMatcherDTO \cup HeaderPredicateLegacy
PathMatcher == [kind : {"prefix", "exact", "regex"}, path : Path]
Matcher == [path : PathMatcher, method : Option(STRING),
            methods : Option(Seq(STRING)),
            headers : Option(Seq(HeaderPredicateDto))]

default_max_attempts == 1
default_retryable_reasons == <<"status_code", "connect_timeout", "read_timeout">>
default_max_body_buffer == 1048576
default_backoff_base_ms == 100
default_backoff_max_ms == 5000
BackoffStrategyDefault == [kind |-> "exponential", base_ms |-> default_backoff_base_ms,
                           max_ms |-> default_backoff_max_ms]
BackoffStrategyDTO == [kind : {"fixed", "linear"}, base_ms : Nat]
                 \cup [kind : {"exponential"}, base_ms : Nat, max_ms : Nat]
RetryPolicyDto ==
    [max_attempts : U16, retryable_reasons : Seq(STRING),
     retryable_status_codes : Option(Seq(U16)), backoff : BackoffStrategyDTO,
     retry_non_idempotent : BOOLEAN, fail_on_non_replayable_retry : BOOLEAN,
     max_request_body_buffer_bytes : Nat, per_try : Option(Ticks)]
(* A retry section with nothing in it.                                      *)
RetryPolicyDefault ==
    [max_attempts |-> default_max_attempts,
     retryable_reasons |-> default_retryable_reasons,
     retryable_status_codes |-> None, backoff |-> BackoffStrategyDefault,
     retry_non_idempotent |-> FALSE, fail_on_non_replayable_retry |-> FALSE,
     max_request_body_buffer_bytes |-> default_max_body_buffer, per_try |-> None]

WeightedDestination == [upstream : STRING, weight : U32]
RouteActionDto == [kind : {"forward"}, destinations : Seq(WeightedDestination)]
             \cup [kind : {"redirect"}, status : U16, location : STRING]
             \cup [kind : {"direct"}, status : U16, body : STRING]
HeaderOperations ==
    [set_headers : Seq(HeaderPair), append_headers : Seq(HeaderPair),
     add_headers : Seq(HeaderPair), remove_headers : Seq(STRING)]
RewritePolicy == [path : Option(Path), host : Option(Host)]
PrincipalConfig == [kind : {"any"}]
              \cup [kind : {"authenticated"}, spiffe : Path]
              \cup [kind : {"prefix"}, prefix : Path]
RouteDto ==
    [matcher : Option(Matcher), timeout : Option(Ticks),
     retry : Option(RetryPolicyDto), request_headers : Option(HeaderOperations),
     response_headers : Option(HeaderOperations),
     rewrite : Option(RewritePolicy), action : RouteActionDto,
     principal : Option(PrincipalConfig)]
VirtualHostDto == [host : Host, paths : Seq(RouteDto)]

(* types/server.rs, telemetry.rs, admin.rs, features.rs                     *)
Address == [ip : STRING, port : Nat]               \* a string such as "::1:80"
ClientAuthConfig ==
    [mode : {"disabled", "optional", "required"}, ca_path : STRING]
TlsConfigDto == [cert_path : Option(STRING), key_path : Option(STRING),
                 client_auth : Option(ClientAuthConfig)]
ListenerDto == [name : STRING, address : Address, workers : Option(U16),
                tls : Option(TlsConfigDto)]
TracingConfig == [provider : Option(STRING), sampling : Option(U32),
                  endpoint : Option(STRING)]
TelemetryConfig ==
    [level : Option(STRING), pingora : Option(STRING),
     service_name : Option(STRING), metrics : Option(Address),
     access_log : Option(AccessLogPolicy), tracing : Option(TracingConfig)]
ShutdownConfig ==
    [enabled : Option(BOOLEAN), drain_timeout_ms : Option(U32)]
AdminConfigDto == [enabled : Option(BOOLEAN), address : Option(Address)]
RegexLimitsDto == [pattern_max_bytes : Option(U32), size_limit_bytes : Option(Nat),
                   input_max_bytes : Option(U32), max_regex_per_route : Option(U32),
                   max_regex_per_config : Option(U32)]
RoutingFeatureConfig ==
    [advanced_matchers : BOOLEAN, regex_limits : RegexLimitsDto]

(* types.rs *)
SerdeConfig ==
    [listeners : Option(Seq(ListenerDto)), telemetry : Option(TelemetryConfig),
     upstreams : Option(Seq(UpstreamDto)), routes : Option(Seq(VirtualHostDto)),
     shutdown : Option(ShutdownConfig), admin : Option(AdminConfigDto),
     features : Option(RoutingFeatureConfig)]
==============================================================================
