------------------------------- MODULE Forwarding -------------------------------
(***************************************************************************)
(* What becomes of a request once the proxy has a configuration: the        *)
(* endpoints and TLS materials made ready at load (state.rs,                *)
(* upstream/client_identity.rs), the plan for a request                     *)
(* (proxy/service/request_planning, identity.rs), its headers               *)
(* (header_ops.rs), the choice of an endpoint (load_balance.rs), the peer   *)
(* it is sent to (io.rs), the pause before a retry (retry.rs), and what the *)
(* active probes send to the same endpoints (upstream/health.rs).           *)
(***************************************************************************)
EXTENDS Router

CONSTANTS Dns,       \* what the resolver answers: host |-> addresses
          Pem,       \* the files that can be read: path |-> its certificates
          U64Max     \* u64::MAX, scaled

ASSUME MillisAssumption == U64Max \in Nat

(* state.rs: every endpoint gets an address when a configuration is loaded. *)
resolve_dns_once(host) ==
    IF host \in DOMAIN Dns /\ Dns[host] # <<>> THEN Dns[host] ELSE Err

materialize_endpoint(e) ==
    IF e.address.kind = "ip" THEN <<e>>
    ELSE LET found == resolve_dns_once(e.address.host)
         IN  IF found = Err THEN Err
             ELSE MapSeq(found, LAMBDA a :
                      [e EXCEPT !.address = [kind |-> "ip", address |-> a,
                                             port |-> e.address.port]])

materialize_logical_upstream(u) ==
    LET Of(kind) == SelectSeq(u.endpoints, LAMBDA e : e.address.kind = kind)
    IN  IF Of("ip") # <<>> THEN <<Head(Of("ip"))>>
        ELSE IF Of("dns") = <<>> THEN Err
        ELSE LET found == materialize_endpoint(Head(Of("dns")))
             IN  IF found = Err THEN Err ELSE <<Head(found)>>

materialize_all_endpoints(u) ==
    LET found == MapSeq(u.endpoints, materialize_endpoint)
    IN  IF found = <<>> \/ Contains(found, Err) THEN Err ELSE FlattenSeq(found)

materialize_upstream(u) ==
    IF u.discovery.kind = "logical" THEN materialize_logical_upstream(u)
    ELSE materialize_all_endpoints(u)

(* client_identity.rs: the certificates a TLS upstream presents and trusts. *)
PemOf(path) == IF path \in DOMAIN Pem /\ Pem[path] # <<>> THEN Pem[path] ELSE Err

load_client_cert(cert) ==
    IF cert = None THEN None
    ELSE LET parsed == PemOf(cert.cert_path)
             more == IF cert.chain.kind = "file" THEN PemOf(cert.chain.path)
                     ELSE <<>>
         IN  IF \/ parsed = Err \/ more = Err \/ PemOf(cert.key_path) = Err
                \/ cert.chain.kind # "embedded" /\ Len(parsed) # 1
             THEN Err ELSE parsed \o more

load_ca_materials(ca) == IF ca = None THEN None ELSE PemOf(ca)

(* The probes' client gets the leaf and its chain, but of the trusted       *)
(* certificates only the first one of the file.                             *)
build_reqwest_identity(leaf, chain) == <<leaf>> \o chain
ReqwestCertificates(bundle) == IF bundle = None THEN <<>> ELSE <<Head(bundle)>>

ClientIdentityMaterials(u) ==
    LET cert == IF u.tls = None THEN None ELSE load_client_cert(u.tls.cert)
        ca == IF u.tls = None THEN None ELSE load_ca_materials(u.tls.ca)
    IN  IF Err \in {cert, ca} THEN Err
        ELSE [client_cert_key |-> cert, ca_bundle |-> ca,
              health_identity |-> MapSome(cert, LAMBDA c :
                                     build_reqwest_identity(Head(c), Tail(c))),
              health_root_certificates |-> ReqwestCertificates(ca)]

(* MaterializedRuntimeConfig::build, with Manager::new.  A cluster keeps    *)
(* the upstream as configured beside the endpoints found for it.            *)
Cluster(u) ==
    Try([config |-> u, endpoints |-> materialize_upstream(u),
         materials |-> ClientIdentityMaterials(u), rr_counter |-> 0])

Manager(upstreams) ==
    LET Named(n) == CHOOSE u \in Range(upstreams) : u.name = n
    IN  Try([n \in {u.name : u \in Range(upstreams)} |-> Cluster(Named(n))])

RuntimeState(config) ==
    LET limits == config.features.regex_limits
        cache == validate_and_compile_regexes(config, limits)
    IN  Try([config |-> config, router |-> with_regex(config.routes, cache, limits),
             clusters |-> Manager(config.upstreams)])

--------------------------------------------------------------------------
(* identity.rs.  A SAN URI is a scheme (None without "://") and the rest.   *)
parse_spiffe_uri(uri) ==
    IF uri.scheme = None \/ ToLowercase(uri.scheme) # "spiffe" THEN None
    ELSE LET slash == SelectInSeq(uri.rest, LAMBDA c : c = "/")
         IN  IF \/ slash < 2
                \/ \A i \in slash + 1 .. Len(uri.rest) : uri.rest[i] = "/"
             THEN Err ELSE <<"spiffe://">> \o uri.rest

(* The first identity counts, whatever follows.                             *)
extract_first_spiffe_id(uris) ==
    LET ids == SelectSeq(MapSeq(uris, parse_spiffe_uri), LAMBDA id : id \notin {None, Err})
    IN  IF ids = <<>> THEN None ELSE ids[1]

extract_spiffe_id(uris) ==
    LET hits == {i \in DOMAIN uris : parse_spiffe_uri(uris[i]) # None}
    IN  IF \E i \in hits : hits = {i} /\ parse_spiffe_uri(uris[i]) # Err
        THEN parse_spiffe_uri(uris[CHOOSE i \in hits : TRUE])
        ELSE None

(* request_planning/auth.rs *)
is_authorized(principal, identity) ==
    \/ principal.kind = "any"
    \/ /\ principal.kind = "authenticated"
       /\ identity # None /\ identity = principal.spiffe
    \/ /\ principal.kind = "prefix"
       /\ identity # None /\ IsPrefix(principal.prefix, identity)

(* request_planning/route.rs.  Uri::builder refuses a blank.                *)
UriBuild(path, query) ==
    IF Contains(path, " ") THEN None ELSE [path |-> path, query |-> query]

calculate_path_rewrite(route, uri_path, uri_query) ==
    LET pm == route.matcher.path
        to == route.rewrite.path.to
        suffix == SubSeq(uri_path, Len(pm.path) + 1, Len(uri_path))
    IN  IF route.rewrite.path = None THEN None
        ELSE CASE pm.kind = "prefix" ->
                      IF IsPrefix(pm.path, uri_path)
                      THEN UriBuild(to \o suffix, uri_query) ELSE None
               [] pm.kind = "exact" ->
                      IF uri_path = pm.path THEN UriBuild(to, uri_query) ELSE None
               [] pm.kind = "regex" -> None

(* request_planning/timeouts.rs *)
resolve_per_try_timeout(timeout, retry) ==
    IF retry # None /\ retry.per_try # None THEN retry.per_try ELSE timeout

--------------------------------------------------------------------------
(* header_ops.rs.  Names are compared without case (HeaderMap).             *)
Get(headers, name) ==
    IF name \in DOMAIN headers THEN headers[name] ELSE <<>>
Insert(headers, name, value) == (name :> <<value>>) @@ headers
RemoveHeader(headers, name) == [n \in DOMAIN headers \ {name} |-> headers[n]]

is_non_joinable(name) == name = "set-cookie"

build_joined_value(values, appended) ==
    FoldRight(LAMBDA v, acc : v \o <<", ">> \o acc, values, appended)

apply_set(headers, pair) == Insert(headers, ToLowercase(pair[1]), pair[2])

apply_append(headers, pair) ==
    LET name == ToLowercase(pair[1])
        old == Get(headers, name)
    IN  IF is_non_joinable(name)
        THEN (name :> Append(old, pair[2])) @@ headers
        ELSE Insert(headers, name, build_joined_value(old, pair[2]))

apply_add(headers, pair) ==
    IF Get(headers, ToLowercase(pair[1])) = <<>> THEN apply_set(headers, pair)
    ELSE headers

(* The rules are applied removals first.                                    *)
apply_headers_removing_first(headers, policy) ==
    LET start == Insert(headers, "x-proxy-by", <<"Pavis">>)
    IN  IF policy = None THEN start
        ELSE FoldLeft(apply_add,
             FoldLeft(apply_append,
             FoldLeft(apply_set,
             FoldLeft(LAMBDA h, n : RemoveHeader(h, ToLowercase(n)), start,
                      policy.remove_headers),
                      policy.set_headers), policy.append_headers),
                      policy.add_headers)

apply_request_headers(headers, policy) ==
    LET start == Insert(headers, "x-proxy-by", <<"Pavis">>)
    IN  IF policy = None THEN start
        ELSE FoldLeft(LAMBDA h, n : RemoveHeader(h, ToLowercase(n)),
             FoldLeft(apply_add,
             FoldLeft(apply_append,
             FoldLeft(apply_set, start, policy.set_headers),
                      policy.append_headers),
                      policy.add_headers), policy.remove_headers)

(* The same rules, in the same order.                                       *)
apply_response_headers(headers, policy) == apply_request_headers(headers, policy)

--------------------------------------------------------------------------
(* load_balance.rs, and the destinations of a route, chosen by weight       *)
cumulative_weights(endpoints) ==
    [i \in DOMAIN endpoints |->
        FoldLeft(LAMBDA n, e : n + e.weight, 0, SubSeq(endpoints, 1, i))]
(* A pick that meets a sum stays with the endpoint before it.               *)
find_index_late(cumulative, pick) ==
    LET below == Cardinality({i \in DOMAIN cumulative : cumulative[i] < pick})
    IN  1 + (IF below > Len(cumulative) - 1 THEN Len(cumulative) - 1 ELSE below)
find_index(cumulative, pick) ==
    LET below == Cardinality({i \in DOMAIN cumulative : cumulative[i] <= pick})
    IN  1 + (IF below > Len(cumulative) - 1 THEN Len(cumulative) - 1 ELSE below)

TotalWeight(s) == FoldLeft(LAMBDA n, d : n + d.weight, 0, s)

(* The endpoints a cluster may select: round robin has no choice.           *)
select_index(balancer, endpoints, counter) ==
    LET total == TotalWeight(endpoints)
        picks == IF balancer = "round-robin" THEN {counter % total}
                 ELSE 0 .. total - 1
    IN  {find_index(cumulative_weights(endpoints), pick) : pick \in picks}

select_endpoint(cluster) ==
    {cluster.endpoints[i] : i \in select_index(cluster.config.balancer,
                                    cluster.endpoints, cluster.rr_counter)}

(* request_filter walks the destinations and subtracts their weights.       *)
PickDestination(destinations, pick) ==
    LET Upto(i) == TotalWeight(SubSeq(destinations, 1, i))
    IN  destinations[CHOOSE i \in DOMAIN destinations :
                         /\ pick < Upto(i)
                         /\ \A j \in 1 .. i - 1 : ~(pick < Upto(j))].upstream

--------------------------------------------------------------------------
(* request_planning/endpoint.rs *)
endpoint_host_for_sni(u, endpoint) ==
    LET hosts == {e.address.host : e \in
                     {x \in Range(u.endpoints) : x.address.kind = "dns"}}
    IN  IF endpoint.address.kind = "dns" THEN endpoint.address.host
        ELSE IF u.discovery.kind # "static" /\ Cardinality(hosts) = 1
        THEN CHOOSE h \in hosts : TRUE
        ELSE None

resolve_sni(sni, authority_override, endpoint_host) ==
    CASE sni.kind = "name" -> sni.name
      [] sni.kind = "auto" -> OrElse(authority_override, endpoint_host)
      [] sni.kind = "disabled" -> None

resolve_endpoint_addr(endpoint) ==
    IF endpoint.address.kind = "ip" THEN endpoint.address ELSE Err

(* UpstreamPeerBuilder::build: the name to present to the upstream.  Nobody *)
(* sets the context's sni_override.                                         *)
SniValue(tls, sni_override, endpoint_host) ==
    IF tls.canonical_sni # None THEN tls.canonical_sni
    ELSE IF tls.reuse_across_sni THEN resolve_sni(tls.sni, None, endpoint_host)
    ELSE resolve_sni(tls.sni, sni_override, endpoint_host)

SetHttpVersion(protocol) ==        \* PeerOptions::set_http_version(max, min)
    CASE protocol = "h1" -> <<1, 1>>
      [] protocol = "h2" -> <<2, 2>>
      [] protocol = "h2h1" -> <<2, 1>>

PeerOptions(u, route_timeout, retry_policy) ==
    [http |-> SetHttpVersion(u.protocol), idle |-> u.pool.idle,
     connect |-> u.pool.connect,
     read |-> resolve_per_try_timeout(route_timeout, retry_policy),
     write |-> resolve_per_try_timeout(route_timeout, retry_policy),
     keepalive |-> MapSome(u.pool.tcp_keepalive,
                           LAMBDA ms : [idle |-> ms, interval |-> ms \div 3]),
     recv_buf |-> u.pool.recv_buffer_size]

(* endpoint.rs: what Pavis takes for the identity of a pooled connection;   *)
(* the hash is taken to keep what differs apart.                            *)
reuse_key_hash(addr, sni, verify_mode, cert) ==
    <<addr, sni, verify_mode,
      MapSome(cert, LAMBDA c : <<c.cert_path, c.key_path, c.chain>>)>>

build_peer(cluster, endpoint, ctx) ==
    LET u == cluster.config
        tls == u.tls
        host == endpoint_host_for_sni(u, endpoint)
        sni == IF tls = None THEN None
               ELSE SniValue(tls, ctx.sni_override, host)
        cert == cluster.materials.client_cert_key
    IN  IF \/ resolve_endpoint_addr(endpoint) = Err
           \/ tls # None /\ tls.verify = "full" /\ sni = None
           \/ tls # None /\ tls.cert # None /\ cert = None
        THEN Err
        ELSE [addr |-> resolve_endpoint_addr(endpoint), tls |-> tls # None, sni |-> sni,
              verify_cert |-> tls = None \/ tls.verify # "disabled",
              verify_hostname |-> tls = None \/ tls.verify = "full",
              client_cert |-> cert, ca |-> cluster.materials.ca_bundle,
              key |-> reuse_key_hash(endpoint.address, OrElse(sni, ""),
                                     MapSome(tls, LAMBDA t : t.verify),
                                     MapSome(tls, LAMBDA t : t.cert)),
              options |-> PeerOptions(u, ctx.route_timeout, ctx.retry_policy)]

--------------------------------------------------------------------------
(* health.rs: what a probe of an endpoint sends, and whom it trusts.  It    *)
(* verifies everything, whatever the upstream says.                         *)
health_check_host(u, endpoint) ==
    LET host == IF endpoint.address.kind = "dns" THEN endpoint.address.host ELSE None
    IN  IF u.tls = None THEN host
        ELSE OrElse(u.tls.canonical_sni, resolve_sni(u.tls.sni, None, host))

build_health_client(u, materials, timeout) ==
    [timeout |-> timeout, connect_timeout |-> timeout, verify |-> "full",
     identity |-> IF u.tls = None THEN None ELSE materials.health_identity,
     roots |-> IF u.tls = None THEN <<>> ELSE materials.health_root_certificates]

HealthProbePlan(cluster) ==
    LET u == cluster.config
    IN  MapSome(u.health_check, LAMBDA check :
            [path |-> check.path, interval |-> check.interval,
             scheme |-> IF u.tls = None THEN "http" ELSE "https",
             client |-> build_health_client(u, cluster.materials, check.timeout)])

probe(plan, cluster, endpoint) ==
    [scheme |-> plan.scheme, addr |-> endpoint.address, path |-> plan.path,
     client |-> plan.client, host |-> health_check_host(cluster.config, endpoint)]

--------------------------------------------------------------------------
(* retry.rs: RetryContext::calculate_backoff *)
SaturatingMul(a, b) == IF a = 0 \/ b <= U64Max \div a THEN a * b ELSE U64Max
Min2(a, b) == IF a < b THEN a ELSE b

(* The exponential delay wraps around instead of saturating.                *)
calculate_backoff_wrapping(backoff, attempt) ==
    IF backoff.kind # "exponential" THEN backoff.base_ms * (attempt - 1)
    ELSE (backoff.base_ms * 2^(attempt - 1)) % (U64Max + 1)

calculate_backoff(backoff, attempt) ==
    CASE backoff.kind = "fixed" -> backoff.base_ms
      [] backoff.kind = "linear" -> SaturatingMul(backoff.base_ms, attempt - 1)
      [] backoff.kind = "exponential" ->
             IF attempt < 2 THEN 0
             ELSE Min2(SaturatingMul(backoff.base_ms, 2^(attempt - 2)),
                       backoff.max_ms)

(* RetryContext::new, with the time request_filter gives it: the route's    *)
(* timeout or a minute.                                                     *)
request_timeout_ms(route_timeout) == OrElse(route_timeout, 60000)
RetryContext(policy, timeout_ms) ==
    [attempt |-> 1, max_attempts |-> IF policy = None THEN 1 ELSE policy.max_attempts,
     policy |-> policy, global_deadline |-> timeout_ms]

(* How long a request sleeps before an attempt, with so much time left.     *)
apply_backoff(backoff, attempt, remaining_budget) ==
    IF attempt <= 1 THEN 0
    ELSE Min2(calculate_backoff(backoff, attempt), remaining_budget)
==============================================================================
