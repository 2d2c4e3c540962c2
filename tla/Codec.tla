--------------------------------- MODULE Codec ---------------------------------
(***************************************************************************)
(* The serde codec as a whole: a document is checked, validated, completed  *)
(* and built into a RuntimeConfig (compile), and a RuntimeConfig rendered   *)
(* back into a document (emit).  An artifact is a format tag and the        *)
(* document its bytes parse to; None stands for an empty payload.           *)
(***************************************************************************)
EXTENDS CodecRoutes

CONSTANT CodecFormat      \* the format this SerdeCodec was made for

(* convert/server.rs *)
ParseSocketAddr(a) == Try([ip |-> ParseIp(a.ip), port |-> ToU16(a.port)])

ToClientAuth(c) == IF c.mode = "disabled" THEN None ELSE c

ToListenerTls(t) ==
    IF t.cert_path = None \/ t.key_path = None THEN Err
    ELSE [cert_path |-> t.cert_path, key_path |-> t.key_path,
          client_auth |-> MapSome(t.client_auth, ToClientAuth)]

ToListener(l) ==
    Try([name |-> l.name, address |-> ParseSocketAddr(l.address),
         workers |-> MapSome(l.workers, NonZero),
         tls |-> MapSome(l.tls, ToListenerTls)])

FromListener(l) == l          \* every field has its own spelling

--------------------------------------------------------------------------
(* convert/telemetry.rs *)
parse_log_level(option) ==
    LET level == MapSome(option, ToLowercase)
    IN  IF level # None /\ level \in LogLevel THEN level ELSE "info"

ToTracing(t) ==
    LET provider == ToLowercase(OrElse(t.provider, "otlp"))
    IN  [provider |-> IF provider \in {"jaeger", "zipkin"} THEN provider
                      ELSE "otlp",
         sampling |-> OrElse(t.sampling, 100),
         endpoint |-> OrElse(t.endpoint, "http://localhost:4317")]

telemetry_to_runtime(t) ==
    Try([level |-> parse_log_level(t.level),
         pingora |-> parse_log_level(t.pingora),
         service_name |-> OrElse(t.service_name, "pavis"),
         metrics |-> MapSome(t.metrics, ParseSocketAddr),
         access_log |-> OrElse(t.access_log, [kind |-> "stdout"]),
         tracing |-> MapSome(t.tracing, ToTracing)])

(* A level and a provider are written by their names.                       *)
telemetry_from_runtime(t) ==
    [level |-> t.level, pingora |-> t.pingora,
     service_name |-> t.service_name, metrics |-> t.metrics,
     access_log |-> t.access_log,
     tracing |-> MapSome(t.tracing,
                     LAMBDA p : [provider |-> p.provider,
                                 sampling |-> p.sampling,
                                 endpoint |-> p.endpoint])]

--------------------------------------------------------------------------
(* convert/admin.rs *)
shutdown_to_runtime(s) ==
    IF ~OrElse(s.enabled, TRUE) THEN None
    ELSE Try([drain_timeout |-> NonZero(OrElse(s.drain_timeout_ms, 30000))])

DEFAULT_ADMIN_ADDRESS == [ip |-> "127.0.0.1", port |-> 9901]
admin_to_runtime(a) ==
    IF ~OrElse(a.enabled, FALSE) THEN None
    ELSE ParseSocketAddr(OrElse(a.address, DEFAULT_ADMIN_ADDRESS))

shutdown_from_runtime(s) ==
    [enabled |-> s # None,
     drain_timeout_ms |-> MapSome(s, LAMBDA p : p.drain_timeout)]
admin_from_runtime(a) == [enabled |-> a # None, address |-> a]

--------------------------------------------------------------------------
(* validation.rs: what is refused before any conversion *)
validate_retry(doc) ==
    \A v \in Range(OrElse(doc.routes, <<>>)) : \A p \in Range(v.paths) :
        p.retry # None => ~Contains(p.retry.retryable_reasons, "")

validate_phase6_policies(doc) ==
    \A u \in Range(OrElse(doc.upstreams, <<>>)) :
        /\ LET cb == u.circuit_breaker
           IN  cb # None => /\ cb.max_retries = None
                            /\ cb.max_connections # 0
                            /\ cb.max_pending_requests # 0
        /\ LET o == u.outlier_detection
           IN  o # None => /\ o.consecutive_errors # 0
                           /\ AsMillis(o.eject_duration) # 0
        /\ LET hc == u.health_check
           IN  hc # None =>
                 /\ hc.healthy_threshold = 1 /\ hc.unhealthy_threshold = 1
                 /\ hc.path # <<>> /\ Head(hc.path) = "/"
                 /\ ~Contains(hc.path, " ")
                 /\ AsMillis(hc.interval) # 0
                 /\ hc.timeout # None => /\ AsMillis(hc.timeout) # 0
                                         /\ hc.timeout <= hc.interval

validate(doc) == validate_retry(doc) /\ validate_phase6_policies(doc)

--------------------------------------------------------------------------
(* convert.rs *)
EmptyTelemetry == [level |-> None, pingora |-> None, service_name |-> None,
                   metrics |-> None, access_log |-> None, tracing |-> None]
EmptyRegexLimits == [f \in DOMAIN DefaultRegexLimits |-> None]

structural(doc) ==
    [listeners |-> OrElse(doc.listeners, <<>>),
     telemetry |-> OrElse(doc.telemetry, EmptyTelemetry),
     upstreams |-> OrElse(doc.upstreams, <<>>),
     routes |-> OrElse(doc.routes, <<>>),
     shutdown |-> OrElse(doc.shutdown, [enabled |-> None,
                                        drain_timeout_ms |-> None]),
     admin |-> OrElse(doc.admin, [enabled |-> None, address |-> None]),
     features |-> OrElse(doc.features, [advanced_matchers |-> FALSE,
                                        regex_limits |-> EmptyRegexLimits])]

features_to_runtime(f) ==
    [f EXCEPT !.regex_limits = [x \in DOMAIN DefaultRegexLimits |->
                                  OrElse(@[x], DefaultRegexLimits[x])]]

has_advanced_matchers(routes) ==
    \E v \in Range(routes) : \E r \in Range(v.paths) :
        \/ r.matcher.method.kind = "list"
        \/ \E p \in Range(r.matcher.headers) : p.matcher.kind # "exact"

(* try_from(StructurallyConfig) and RuntimeConfigBuilder::build: at least   *)
(* one listener.                                                            *)
build(src) ==
    LET routes == routes_to_runtime(src.routes)
    IN  IF routes = Err \/ src.listeners = <<>> THEN Err
        ELSE Try([listeners |-> Try(MapSeq(src.listeners, ToListener)),
                  telemetry |-> telemetry_to_runtime(src.telemetry),
                  upstreams |-> upstreams_to_runtime(src.upstreams),
                  routes |-> routes,
                  shutdown |-> shutdown_to_runtime(src.shutdown),
                  admin |-> admin_to_runtime(src.admin),
                  features |-> features_to_runtime(src.features),
                  required_capabilities |->
                      IF has_advanced_matchers(routes)
                      THEN <<"advanced_matchers">> ELSE <<>>])

emit(config) ==
    [listeners |-> MapSeq(config.listeners, FromListener),
     telemetry |-> telemetry_from_runtime(config.telemetry),
     upstreams |-> upstreams_from_runtime(config.upstreams),
     routes |-> routes_from_runtime(config.routes),
     shutdown |-> shutdown_from_runtime(config.shutdown),
     admin |-> admin_from_runtime(config.admin),
     features |-> config.features]

--------------------------------------------------------------------------
(* lib.rs: the two stages of SerdeCodec *)
check(artifact) == artifact.doc # None /\ artifact.format = CodecFormat
compile(doc) == IF validate(doc) THEN build(structural(doc)) ELSE Err
==============================================================================
