---------------------------- MODULE CodecUpstreams ----------------------------
(***************************************************************************)
(* The upstream section of the serde codec: the document's DTOs become the  *)
(* runtime's upstreams (to_runtime) and are rendered back (from_runtime).   *)
(* A DTO field that may be left out is None when it is.                     *)
(***************************************************************************)
EXTENDS SerdeDto

CONSTANTS TicksPerMs    \* how much finer the document's durations are than ms

ASSUME TicksAssumption == TicksPerMs \in Nat \ {0}

ToU16(n) == IF n \in U16 THEN n ELSE Err           \* u16::try_from
ToU32(n) == IF n \in U32 THEN n ELSE Err           \* u32::try_from
NonZero(n) == IF n = 0 THEN Err ELSE n             \* NonZero::new + ok_or
AsMillis(d) == d \div TicksPerMs                   \* Duration::as_millis
FromMillis(ms) == ms * TicksPerMs                  \* Duration::from_millis
Blank(s) == s \in {"", " "}                        \* s.trim().is_empty()

(* str::parse::<IpAddr> and its Display: several spellings, one address.    *)
ParseIp(s) == IF s \in {"10.0.0.1", "10.0.0.2", "127.0.0.1", "::"} THEN s
              ELSE IF s = "::0" THEN "::"
              ELSE Err

--------------------------------------------------------------------------
(* materialize.rs: the pool's values *)
default_idle_timeout == FromMillis(60000)
default_connection_timeout == FromMillis(5000)
default_pool_config ==
    [idle |-> default_idle_timeout, connect |-> default_connection_timeout,
     max |-> None, queue_capacity |-> None, queue_timeout_ms |-> None,
     tcp_keepalive |-> None, tcp_nodelay |-> None, recv_buffer_size |-> None]

duration_to_policy(d) ==
    LET ms == ToU32(AsMillis(d)) IN IF ms = 0 THEN None ELSE ms
duration_to_connect(d) ==
    LET ms == ToU32(AsMillis(d)) IN IF ms = 0 THEN None ELSE ms
duration_to_required(d) == NonZero(ToU32(AsMillis(d)))
duration_to_tcp_keepalive(d) == NonZero(ToU32(AsMillis(d)))
(* A maximum of 0, or beyond u32, is taken as it is.                        *)
materialize_pool_max_unchecked(v) == IF v = None THEN DEFAULT_POOL_MAX ELSE v
materialize_pool_max(v) ==
    IF v = None THEN DEFAULT_POOL_MAX ELSE NonZero(ToU32(v))
materialize_queue_value(v) == IF v = None THEN 0 ELSE ToU32(v)
validate_recv_buffer_size(size) == size            \* only advises a range

ToPool(p) ==
    Try([idle |-> duration_to_policy(OrElse(p.idle, default_idle_timeout)),
         connect |-> duration_to_connect(
                         OrElse(p.connect, default_connection_timeout)),
         max |-> materialize_pool_max(p.max),
         queue_capacity |-> materialize_queue_value(p.queue_capacity),
         queue_timeout_ms |-> materialize_queue_value(p.queue_timeout_ms),
         tcp_keepalive |-> MapSome(p.tcp_keepalive, duration_to_tcp_keepalive),
         tcp_nodelay |-> p.tcp_nodelay,
         recv_buffer_size |->
             MapSome(p.recv_buffer_size, validate_recv_buffer_size)])

--------------------------------------------------------------------------
(* The TLS section of emit.rs *)
(* verify_hostname is asked first.                                          *)
VerifyOfHostname(t) ==
    IF OrElse(t.verify_hostname, TRUE) THEN "full"
    ELSE IF OrElse(t.verify_cert, TRUE) THEN "ca-only" ELSE "disabled"

VerifyOf(t) ==
    IF ~OrElse(t.verify_cert, TRUE) THEN "disabled"
    ELSE IF OrElse(t.verify_hostname, TRUE) THEN "full" ELSE "ca-only"

(* sni_mode decides what sni may be: only "name" (or no mode) takes one.    *)
SniOf(t) ==
    LET mode == OrElse(t.sni_mode, IF t.sni = None THEN "auto" ELSE "name")
    IN  IF (mode = "name") # (t.sni # None) THEN Err
        ELSE IF mode = "name" THEN [kind |-> "name", name |-> t.sni]
        ELSE [kind |-> mode]

NotBlank(option) ==
    IF option # None /\ Blank(option) THEN Err ELSE option

ChainOf(cc) ==
    LET mode == OrElse(cc.chain_mode,
                       IF cc.chain_path = None THEN "none" ELSE "file")
    IN  IF (mode = "file") # (cc.chain_path # None) THEN Err
        ELSE IF mode # "file" THEN [kind |-> mode]
        ELSE Try([kind |-> mode, path |-> NotBlank(cc.chain_path)])

ClientCertOf(cc) ==
    Try([cert_path |-> NotBlank(cc.cert_path),
         key_path |-> NotBlank(cc.key_path), chain |-> ChainOf(cc)])

EnabledTls(t) ==
    LET verify == VerifyOf(t)
        sni    == SniOf(t)
        reuse  == OrElse(t.reuse_across_sni, FALSE)
    IN  IF \/ sni = Err
           \/ verify = "full" /\ sni.kind = "disabled"
           \/ verify = "disabled" /\ reuse
        THEN Err
        ELSE Try([verify |-> verify, sni |-> sni,
                  canonical_sni |-> NotBlank(t.canonical_sni),
                  reuse_across_sni |-> reuse,
                  cert |-> MapSome(t.cert, ClientCertOf),
                  ca |-> NotBlank(t.ca_bundle_path)])

ToTls(t) == IF OrElse(t.enabled, TRUE) THEN EnabledTls(t) ELSE None

--------------------------------------------------------------------------
(* The policies and the endpoints of emit.rs *)
ToOutlier(o) ==
    Try([consecutive_errors |-> NonZero(ToU32(o.consecutive_errors)),
         eject_duration |-> duration_to_required(o.eject_duration)])

ToBreaker(cb) ==
    IF cb.max_retries # None THEN Err
    ELSE Try([max_connections |-> NonZero(ToU32(cb.max_connections)),
              max_pending_requests |->
                  NonZero(ToU32(cb.max_pending_requests))])

ToHealthCheck(hc) ==
    LET interval == duration_to_required(hc.interval)
        timeout == IF hc.timeout = None THEN interval
                   ELSE duration_to_required(hc.timeout)
    IN  IF \/ hc.healthy_threshold # 1 \/ hc.unhealthy_threshold # 1
           \/ hc.path \in {<<>>, <<" ">>}
           \/ interval # Err /\ timeout # Err /\ timeout > interval
        THEN Err
        ELSE Try([path |-> hc.path, interval |-> interval,
                  timeout |-> timeout])

ToEndpoint(e, discovery) ==
    LET port == NonZero(e.port)
    IN  Try([address |->
                 Try(IF discovery.kind = "static"
                     THEN [kind |-> "ip", address |-> ParseIp(e.address),
                           port |-> port]
                     ELSE [kind |-> "dns", host |-> e.address,
                           port |-> port]),
             weight |-> NonZero(ToU16(OrElse(e.weight, 1)))])

(* The id of an upstream that sets none is its position, counted from 1.    *)
ToUpstream(u, position) ==
    LET discovery == OrElse(u.discovery, [kind |-> "static"])
    IN  Try([id |-> NonZero(OrElse(u.id, position % (U16Max + 1))),
             name |-> u.name, discovery |-> discovery,
             balancer |-> OrElse(u.balancer, "random"),
             protocol |-> OrElse(u.protocol, "h1"),
             pool |-> ToPool(OrElse(u.pool, default_pool_config)),
             outlier_detection |-> MapSome(u.outlier_detection, ToOutlier),
             circuit_breaker |-> MapSome(u.circuit_breaker, ToBreaker),
             health_check |-> MapSome(u.health_check, ToHealthCheck),
             tls |-> MapSome(u.tls, ToTls),
             endpoints |->
                 Try(MapSeq(u.endpoints,
                            LAMBDA e : ToEndpoint(e, discovery)))])

upstreams_to_runtime(us) == Try([i \in DOMAIN us |-> ToUpstream(us[i], i)])

--------------------------------------------------------------------------
(* dto_adapter.rs: the document an upstream is rendered as *)
idle_timeout_ms(t) == OrElse(t, 0)
connect_timeout_ms(t) == OrElse(t, 0)

FromPool(p) ==
    [idle |-> FromMillis(idle_timeout_ms(p.idle)),
     connect |-> FromMillis(connect_timeout_ms(p.connect)),
     max |-> p.max, queue_capacity |-> p.queue_capacity,
     queue_timeout_ms |-> p.queue_timeout_ms,
     tcp_keepalive |-> MapSome(p.tcp_keepalive, FromMillis),
     tcp_nodelay |-> p.tcp_nodelay, recv_buffer_size |-> p.recv_buffer_size]

FromClientCert(c) ==
    [cert_path |-> c.cert_path, key_path |-> c.key_path,
     chain_mode |-> c.chain.kind,
     chain_path |-> IF c.chain.kind = "file" THEN c.chain.path ELSE None]

(* reuse_across_sni is not rendered.                                        *)
FromTlsForgetful(t) ==
    [enabled |-> TRUE, verify_cert |-> t.verify # "disabled",
     verify_hostname |-> t.verify = "full",
     sni |-> IF t.sni.kind = "name" THEN t.sni.name ELSE None,
     sni_mode |-> t.sni.kind, canonical_sni |-> t.canonical_sni,
     reuse_across_sni |-> None,
     ca_bundle_path |-> t.ca, cert |-> MapSome(t.cert, FromClientCert)]

FromTls(t) ==
    [enabled |-> TRUE, verify_cert |-> t.verify # "disabled",
     verify_hostname |-> t.verify = "full",
     sni |-> IF t.sni.kind = "name" THEN t.sni.name ELSE None,
     sni_mode |-> t.sni.kind, canonical_sni |-> t.canonical_sni,
     reuse_across_sni |-> IF t.reuse_across_sni THEN TRUE ELSE None,
     ca_bundle_path |-> t.ca, cert |-> MapSome(t.cert, FromClientCert)]

FromEndpoint(e) ==
    [address |-> IF e.address.kind = "ip" THEN e.address.address
                 ELSE e.address.host,
     port |-> e.address.port, weight |-> e.weight]

FromUpstream(u) ==
    [id |-> u.id, name |-> u.name, discovery |-> u.discovery,
     balancer |-> u.balancer, protocol |-> u.protocol,
     pool |-> FromPool(u.pool), tls |-> MapSome(u.tls, FromTls),
     circuit_breaker |->
         MapSome(u.circuit_breaker,
                 LAMBDA b : [max_connections |-> b.max_connections,
                             max_pending_requests |-> b.max_pending_requests,
                             max_retries |-> None]),
     outlier_detection |->
         MapSome(u.outlier_detection,
                 LAMBDA o : [consecutive_errors |-> o.consecutive_errors,
                             eject_duration |-> FromMillis(o.eject_duration)]),
     health_check |->
         MapSome(u.health_check,
                 LAMBDA h : [path |-> h.path,
                             interval |-> FromMillis(h.interval),
                             timeout |-> FromMillis(h.timeout),
                             healthy_threshold |-> 1,
                             unhealthy_threshold |-> 1]),
     endpoints |-> MapSeq(u.endpoints, FromEndpoint)]

upstreams_from_runtime(us) == MapSeq(us, FromUpstream)
==============================================================================
