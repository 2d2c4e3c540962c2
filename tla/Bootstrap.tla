------------------------------- MODULE Bootstrap -------------------------------
(***************************************************************************)
(* What a proxy process takes from its surroundings and fixes when it       *)
(* starts: the preflight of files and ports (validate_env.rs), the server's *)
(* threads and grace period (bootstrap.rs), the TLS settings of its         *)
(* listeners (listener/tls.rs) and the exporter of its traces               *)
(* (telemetry/tracing.rs).                                                  *)
(***************************************************************************)
EXTENDS Forwarding

CONSTANTS TakenPorts,      \* ports that other processes hold
          DnsSettings      \* PAVIS_DNS_SERVER as an address, and the system's DNS
                           \* settings: None where unset, Err where unusable

(* validate_env.rs.  A file is readable when it can be opened.              *)
ensure_readable(paths) == paths \subseteq DOMAIN Pem

validate_tls_files(c) ==
    \A l \in Range(c.listeners) :
        l.tls # None =>
            /\ ensure_readable({l.tls.cert_path, l.tls.key_path})
            /\ l.tls.client_auth # None =>
                   ensure_readable({l.tls.client_auth.ca_path})

validate_upstream_tls_files(c) ==
    \A u \in {x \in Range(c.upstreams) : x.tls # None} :
        /\ u.tls.ca # None => ensure_readable({u.tls.ca})
        /\ u.tls.cert # None =>
               /\ ensure_readable({u.tls.cert.cert_path, u.tls.cert.key_path})
               /\ u.tls.cert.chain.kind = "file" =>
                      ensure_readable({u.tls.cert.chain.path})

collect_ports(c) ==
    {l.address.port : l \in Range(c.listeners)}
  \cup {a.port : a \in {c.admin, c.telemetry.metrics} \ {None}}

preflight_bind(port) == port \notin TakenPorts

(* Ports this process holds already are not tried.                          *)
validate_ports(c, current) ==
    \A p \in collect_ports(c) :
        (current # None /\ p \in collect_ports(current)) \/ preflight_bind(p)

validate_runtime_env(c, current) ==
    /\ validate_tls_files(c)
    /\ validate_upstream_tls_files(c)
    /\ validate_ports(c, current)

--------------------------------------------------------------------------
(* bootstrap.rs *)
max_listener_threads(c) ==
    LET counts == {l.workers : l \in Range(c.listeners)} \ {None}
    IN  IF counts = {} THEN None ELSE Max(counts)

build_server_conf(c) ==
    [threads |-> max_listener_threads(c),
     grace_period_seconds |->
         IF c.shutdown = None THEN 0
         ELSE Max({c.shutdown.drain_timeout \div 1000, 1})]

(* listener/tls.rs.  The certificates are parsed, not just opened.          *)
configure_client_auth(auth) ==
    IF PemOf(auth.ca_path) = Err THEN Err
    ELSE [ask |-> TRUE, fail_if_none |-> auth.mode = "required"]

TlsSettings(l) ==
    IF l.tls = None THEN [ask |-> FALSE, fail_if_none |-> FALSE]
    ELSE IF PemOf(l.tls.cert_path) = Err \/ PemOf(l.tls.key_path) = Err THEN Err
    ELSE IF l.tls.client_auth = None THEN [ask |-> FALSE, fail_if_none |-> FALSE]
    ELSE configure_client_auth(l.tls.client_auth)

(* upstream/resolver.rs: a server named in the environment is asked over    *)
(* UDP, and the system's settings are then not even read.                   *)
build_resolver(env_dns, system_conf) ==
    IF env_dns = None THEN system_conf
    ELSE IF env_dns = Err THEN Err
    ELSE [servers |-> {env_dns}, protocol |-> "udp"]

NewUpstreamResolver(dns) ==
    build_resolver(dns.env, IF dns.env = None THEN dns.system
                            ELSE [servers |-> {}, protocol |-> "udp"])

(* BootstrapPlan::build: what the process keeps until it ends.              *)
BootstrapPlan(c, dns) ==
    IF c.listeners = <<>> THEN Err
    ELSE Try([conf |-> build_server_conf(c),
              resolver |-> NewUpstreamResolver(dns),
              tls |-> Try(MapSeq(c.listeners, TlsSettings)),
              ports |-> collect_ports(c)])

(* telemetry/tracing.rs: the first policy that enables tracing builds the   *)
(* exporter; later ones only install its layer again.                       *)
maybe_init_tracing(slot, policy) ==
    IF policy = None THEN slot
    ELSE OrElse(slot, [endpoint |-> policy.endpoint, sampling |-> policy.sampling])
==============================================================================
