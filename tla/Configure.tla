------------------------------- MODULE Configure -------------------------------
(***************************************************************************)
(* A configuration on its way from a document to the requests it decides:   *)
(* the codec checks and compiles it, the core validates it, it is written   *)
(* as a .pvs file, loaded by a proxy that starts or that reloads, and every *)
(* request is routed, forwarded, answered and logged by it.  A reload may   *)
(* come between any two steps of a request; requests do not overlap each    *)
(* other (RequestPath has those interleavings).                             *)
(***************************************************************************)
EXTENDS Validate, Pvs, Bootstrap, RequestContext

CONSTANTS
    Artifact,       \* the artifacts a proxy may be started with
    NextArtifact(_),  \* those that may follow one while the proxy runs
    Request,
    Answer,         \* the response headers an upstream may send
    CounterMax      \* the round-robin counter's largest value, scaled

(* What is ever compiled is a document serde can produce.                   *)
Artifacts == Artifact \cup UNION {NextArtifact(a) : a \in Artifact}
ASSUME ArtifactAssumption ==
    \A a \in Artifacts : /\ a.doc = None \/ a.doc \in SerdeConfig
                         /\ NextArtifact(a) \subseteq Artifacts

(* The certificate of a request: None marks an absent value and is neither  *)
(* an error, nor a scheme, nor an identity.                                 *)
Identities(uris) == {<<"spiffe://">> \o uris[i].rest : i \in DOMAIN uris}
ASSUME ConfigureAssumption ==
    /\ None \notin {Err, "spiffe", "SPIFFE"}
    /\ \A q \in Request : "uris" \in DOMAIN q /\ None \notin Identities(q.uris)

VARIABLES
    artifact, stage,
    config,         \* the compiled configuration
    file,           \* the .pvs file
    loaded,         \* the configuration read from it
    boot,           \* the configuration the process was started with
    server,         \* what the process fixed then
    tracer,         \* Telemetry::tracing, the exporter of its traces
    running,        \* RuntimeState, None until the proxy serves
    req, ctx,       \* the request and its RouterContext
    route,          \* history: the route request_filter chose
    peer,           \* what upstream_peer returned
    sent,           \* the request as it goes to the upstream
    answer,         \* what the client gets
    entry           \* its line in the access log

pipeline == <<artifact, stage, config, file, loaded>>
exchange == <<req, ctx, route, peer, sent, answer, entry>>
process == <<boot, server, tracer, running>>
vars == <<pipeline, process, exchange>>

Init ==
    /\ artifact \in Artifact /\ stage = "authored"
    /\ config = None /\ file = None /\ loaded = None
    /\ boot = None /\ server = None /\ tracer = None /\ running = None
    /\ req = None /\ ctx = None /\ route = None /\ peer = None /\ sent = None
    /\ answer = None /\ entry = None

(* Where a refused configuration leaves the system: a running proxy keeps   *)
(* serving with the one it has.                                             *)
Refused == IF running = None THEN "refused" ELSE "serving"

--------------------------------------------------------------------------
Check ==
    /\ stage = "authored"
    /\ stage' = IF check(artifact) THEN "checked" ELSE Refused
    /\ UNCHANGED <<artifact, config, file, loaded, process, exchange>>

Compile ==
    /\ stage = "checked"
    /\ LET c == compile(artifact.doc)
       IN  IF c = Err THEN stage' = Refused /\ UNCHANGED config
           ELSE stage' = "compiled" /\ config' = c
    /\ UNCHANGED <<artifact, file, loaded, process, exchange>>

Validated ==
    /\ stage = "compiled"
    /\ stage' = IF validate_runtime(config) THEN "validated" ELSE Refused
    /\ UNCHANGED <<artifact, config, file, loaded, process, exchange>>

Write ==
    /\ stage = "validated"
    /\ file' = encode(config) /\ stage' = "written"
    /\ UNCHANGED <<artifact, config, loaded, process, exchange>>

(* The file is damaged on its way to the proxy.                             *)
Damage ==
    /\ stage = "written" /\ file = encode(config)
    /\ file' \in Damaged(file)
    /\ UNCHANGED <<artifact, stage, config, loaded, process, exchange>>

Load ==
    /\ stage = "written"
    /\ LET c == load(file)
       IN  IF c = Err THEN stage' = Refused /\ UNCHANGED loaded
           ELSE stage' = "loaded" /\ loaded' = c
    /\ UNCHANGED <<artifact, config, file, process, exchange>>

(* core/runtime/reload.rs: what is bound at boot may not change.            *)
listener_fingerprint(c) ==
    MapSeq(c.listeners, LAMBDA l : <<l.name, l.address, l.workers, l.tls>>)

reload_safe_unless_tls(current, next) ==
    /\ MapSeq(current.listeners, LAMBDA l : <<l.name, l.address, l.workers>>)
          = MapSeq(next.listeners, LAMBDA l : <<l.name, l.address, l.workers>>)
    /\ current.admin = next.admin
    /\ current.shutdown = next.shutdown
    /\ current.telemetry.metrics = next.telemetry.metrics
    /\ current.telemetry.access_log = next.telemetry.access_log

ensure_runtime_reload_safe(current, next) ==
    /\ listener_fingerprint(current) = listener_fingerprint(next)
    /\ current.admin = next.admin
    /\ current.shutdown = next.shutdown
    /\ current.telemetry.metrics = next.telemetry.metrics
    /\ current.telemetry.access_log = next.telemetry.access_log

Install(state) ==
    /\ stage' = "serving" /\ running' = state
    /\ tracer' = maybe_init_tracing(tracer, state.config.telemetry.tracing)

(* A process starts, or ends with an error.                                 *)
Boot ==
    /\ stage = "loaded" /\ running = None
    /\ \E dns \in DnsSettings :
       LET state == RuntimeState(loaded)
           plan == BootstrapPlan(loaded, dns)
       IN  IF ~validate_runtime_env(loaded, None) \/ Err \in {state, plan}
           THEN stage' = "refused" /\ UNCHANGED process
           ELSE Install(state) /\ boot' = loaded /\ server' = plan
    /\ UNCHANGED <<artifact, config, file, loaded, exchange>>

(* The new state replaces the old one, or the old one stays.                *)
Reload ==
    /\ stage = "loaded" /\ running # None
    /\ LET state == RuntimeState(loaded)
       IN  IF \/ ~ensure_runtime_reload_safe(running.config, loaded)
              \/ ~validate_runtime_env(loaded, running.config)
              \/ state = Err
           THEN stage' = "serving" /\ UNCHANGED process
           ELSE Install(state) /\ UNCHANGED <<boot, server>>
    /\ UNCHANGED <<artifact, config, file, loaded, exchange>>

(* An operator writes another document, at most one while a request is on   *)
(* its way.                                                                 *)
Author ==
    /\ stage = "serving"
    /\ req # None => ctx.runtime_state \in {None, running}
    /\ artifact' \in NextArtifact(artifact)
    /\ stage' = "authored"
    /\ UNCHANGED <<config, file, loaded, process, exchange>>

--------------------------------------------------------------------------
(* new_ctx and early_request_filter.  A client shows its certificate only   *)
(* to a listener that asks for it.                                          *)
Arrive(q) ==
    /\ stage = "serving" /\ req = None
    /\ \E tls \in Range(server.tls) :
          LET uris == IF tls.ask THEN q.uris ELSE <<>>
          IN  /\ req' = [q EXCEPT !.uris = uris]
              /\ ctx' = [RouterContext(generate_request_id(q.now, q.random)) EXCEPT
                            !.client_identity = extract_spiffe_id(uris)]
    /\ UNCHANGED <<pipeline, process, route, peer, sent, answer, entry>>

Respond(status, headers) ==
    answer' = [status |-> status, headers |-> headers]

(* request_filter: the configuration is pinned to the request; what a       *)
(* matched route writes into the context, and what follows once the request *)
(* is authorized.                                                           *)
Traced(c) == c.telemetry.tracing # None /\ c.telemetry.tracing.sampling > 0

Pinned == attach_runtime(ctx, running, tracer # None /\ Traced(running.config))

apply_route_headers(c, r) ==
    [c EXCEPT !.request_headers = r.request_headers,
              !.response_headers = r.response_headers,
              !.route_timeout = r.timeout, !.retry_policy = r.retry]
Matched(r) == apply_route_headers(record_route(Pinned, r), r)
Planned(r) == set_rewritten(Matched(r), calculate_path_rewrite(r, req.path, req.query),
                            r.rewrite.host)

(* Pingora calls request_filter once, before it asks for a peer.            *)
Fresh == /\ ctx.runtime_state = None /\ ctx.upstream_name = None
         /\ ctx.rbac_denied = FALSE /\ answer = None

RequestFilter ==
    /\ req # None /\ Fresh
    /\ LET r == match_request(running.router, req)
           action == r.action
       IN  /\ route' = r
           /\ \/ /\ r = None
                 /\ Respond(404, <<>>) /\ ctx' = Pinned
              \/ /\ r # None /\ ~is_authorized(r.principal, ctx.client_identity)
                 /\ Respond(403, <<>>) /\ ctx' = mark_rbac_denied(Matched(r))
              \/ /\ r # None /\ is_authorized(r.principal, ctx.client_identity)
                 /\ \/ /\ action.kind = "forward"
                       /\ \E pick \in 0 .. TotalWeight(action.destinations) - 1 :
                             ctx' = set_upstream(Planned(r),
                                        PickDestination(action.destinations, pick))
                       /\ UNCHANGED answer
                    \/ /\ action.kind = "redirect"
                       /\ ctx' = Planned(r)
                       /\ Respond(action.status,
                              apply_response_headers(
                                  [n \in {"location", "content-length"} |->
                                      IF n = "location" THEN <<<<action.location>>>>
                                      ELSE <<<<"0">>>>],
                                  r.response_headers))
                    \/ /\ action.kind = "direct"
                       /\ ctx' = Planned(r)
                       /\ Respond(action.status,
                              apply_response_headers(
                                  [n \in {"content-type", "content-length"} |->
                                      IF n = "content-type" THEN <<<<"text/plain">>>>
                                      ELSE <<<<"n">>>>],
                                  r.response_headers))
    /\ UNCHANGED <<pipeline, process, req, peer, sent, entry>>

(* upstream_peer.  Round robin counts, the other balancers draw.  The       *)
(* counter is the pinned state's, which the running one may no longer be.   *)
Advanced(state, n) ==
    IF state.clusters[n].config.balancer = "round-robin"
    THEN [state EXCEPT !.clusters[n].rr_counter = (@ + 1) % (CounterMax + 1)]
    ELSE state

ForwardBy(state) ==
    /\ req # None /\ ctx.upstream_name # None /\ peer = None /\ answer = None
    /\ LET n == ctx.upstream_name
           cluster == state.clusters[n]
       IN  IF n \notin DOMAIN state.clusters
           THEN Respond(500, <<>>) /\ UNCHANGED <<ctx, peer, running>>
           ELSE /\ \E endpoint \in select_endpoint(cluster) :
                      LET p == build_peer(cluster, endpoint, ctx)
                          chosen == [set_endpoint(ctx, endpoint.address) EXCEPT
                                        !.runtime_state = Advanced(state, n)]
                      IN  IF p = Err
                          THEN /\ Respond(500, <<>>) /\ ctx' = chosen
                               /\ UNCHANGED peer
                          ELSE /\ peer' = p /\ ctx' = start_upstream(chosen)
                               /\ UNCHANGED answer
                /\ running' = IF running = state THEN Advanced(state, n) ELSE running
    /\ UNCHANGED <<pipeline, boot, server, tracer, req, route, sent, entry>>

(* The upstream is looked up in the newest configuration.                   *)
UpstreamPeerUnpinned == ForwardBy(running)

UpstreamPeer == ForwardBy(ctx.runtime_state)

UpstreamRequestFilter ==
    /\ peer # None /\ sent = None
    /\ LET host == IF ctx.rewritten_host # None
                   THEN Insert(req.headers, "host", ctx.rewritten_host)
                   ELSE req.headers
           traced == IF ctx.span = "active"
                     THEN Insert(host, "traceparent", <<"span">>) ELSE host
       IN  sent' = [uri |-> OrElse(ctx.rewritten_uri,
                                   [path |-> req.path, query |-> req.query]),
                    headers |-> apply_request_headers(traced, ctx.request_headers)]
    /\ UNCHANGED <<pipeline, process, req, ctx, route, peer, answer, entry>>

UpstreamResponseFilter ==
    /\ sent # None /\ answer = None
    /\ \E headers \in Answer :
          Respond(200, apply_response_headers(headers, ctx.response_headers))
    /\ UNCHANGED <<pipeline, process, req, ctx, route, peer, sent, entry>>

(* logging, and the end of the request.                                     *)
Logging ==
    /\ answer # None /\ entry = None /\ LogEnabled(ctx)
    /\ entry' = LogEntry(req, answer.status, ctx)
    /\ UNCHANGED <<pipeline, process, req, ctx, route, peer, sent, answer>>

Done ==
    /\ answer # None /\ (LogEnabled(ctx) => entry # None)
    /\ req' = None /\ ctx' = None /\ route' = None /\ peer' = None /\ sent' = None
    /\ answer' = None /\ entry' = None
    /\ UNCHANGED <<pipeline, process>>

Next == \/ Check \/ Compile \/ Validated \/ Write \/ Damage \/ Load \/ Boot \/ Reload
        \/ Author
        \/ \E q \in Request : Arrive(q)
        \/ RequestFilter \/ UpstreamPeer \/ UpstreamRequestFilter
        \/ UpstreamResponseFilter \/ Logging \/ Done

Spec == Init /\ [][Next]_vars

--------------------------------------------------------------------------
(* What is compiled, and what a proxy loads, is a configuration of the      *)
(* runtime's type: no width, range or variant is left.                      *)
TypeOK ==
    /\ stage \in {"authored", "checked", "compiled", "validated", "written",
                  "loaded", "serving", "refused"}
    /\ config \in Option(Runtime) /\ loaded \in Option(Runtime)
    /\ running # None => \A n \in DOMAIN running.clusters :
                             running.clusters[n].rr_counter \in 0 .. CounterMax

(* codec emit and compile: a configuration can be rendered as a document,   *)
(* and that document compiles to the same configuration, whatever spelling  *)
(* it was first written in.  pvs encode and read_verified_file: a file that *)
(* was damaged on the way is not loaded, so a proxy only runs what was      *)
(* compiled.                                                                *)
RoundTrip ==
    /\ stage = "validated" =>
          emit(config) \in SerdeConfig /\ compile(emit(config)) = config
    /\ stage = "loaded" => loaded = config

(* The routes of configuration c that fit request q, by position.           *)
Fitting(c, q) ==
    LET known == [regex_cache |-> collect_patterns(c.routes),
                  regex_limits |-> c.features.regex_limits]
        host == MapSome(q.host, normalize_host)
    IN  {p \in UNION {{i} \X DOMAIN c.routes[i].paths : i \in DOMAIN c.routes} :
            LET v == c.routes[p[1]] IN
            /\ IF IsWildcard(v.host) THEN HostFits(v.host, host) ELSE v.host = host
            /\ LET m == v.paths[p[2]].matcher
               IN  /\ matches_path(m.path, q.path)
                   /\ matches_method(m.method, q.method)
                   /\ matches_headers(m.headers, q.headers, known)}

Ahead(c, p, q) ==
    LET Rank(x) == IF IsWildcard(c.routes[x[1]].host) THEN 1 ELSE 0
    IN  \/ Rank(p) < Rank(q)
        \/ Rank(p) = Rank(q) /\ (p[1] < q[1] \/ (p[1] = q[1] /\ p[2] <= q[2]))

(* router.rs and matcher.rs: compiled into zones and maps, the router still *)
(* chooses the first fitting route in the order of the document, those of   *)
(* the request's own host before those of wildcards.                        *)
FirstRouteWins ==
    req # None /\ ctx.runtime_state # None =>
        LET c == ctx.runtime_state.config
            fitting == Fitting(c, req)
        IN  route = IF fitting = {} THEN None
                    ELSE LET p == CHOOSE p \in fitting :
                                     \A q \in fitting : Ahead(c, p, q)
                         IN  c.routes[p[1]].paths[p[2]]

(* From the flags of the document to the peer of the request: TLS is used   *)
(* as written, nothing that is to be verified goes unverified, and the name *)
(* and certificates are the configured ones.  The active probes of the      *)
(* endpoint go the same way: they name the server as the requests do when   *)
(* the document names it, show the same certificate, and add only roots to  *)
(* the system's that the requests trust too.  Peers the pool key takes for  *)
(* one agree in address, name, verification and client certificate.        *)
TlsAsWritten ==
    peer # None /\ compile(artifact.doc) = ctx.runtime_state.config =>
        LET u == CHOOSE u \in Range(artifact.doc.upstreams) : u.name = ctx.upstream_name
            t == u.tls
            on == t # None /\ t.enabled # FALSE
            cluster == ctx.runtime_state.clusters[ctx.upstream_name]
            checked == MapSome(HealthProbePlan(cluster), LAMBDA plan :
                        probe(plan, cluster, [address |-> peer.addr]))
        IN  /\ peer.tls = on
            /\ on => /\ peer.verify_cert = (t.verify_cert # FALSE)
                     /\ peer.verify_hostname = (/\ t.verify_cert # FALSE
                                                /\ t.verify_hostname # FALSE)
                     /\ peer.verify_hostname => peer.sni # None
                     /\ t.canonical_sni # None => peer.sni = t.canonical_sni
                     /\ t.canonical_sni = None /\ t.sni # None => peer.sni = t.sni
                     /\ (t.cert # None) = (peer.client_cert # None)
                     /\ (t.ca_bundle_path # None) = (peer.ca # None)
            /\ checked # None =>
                  /\ (checked.scheme = "https") = on
                  /\ checked.client.identity = peer.client_cert
                  /\ on /\ (t.canonical_sni # None \/ t.sni # None) => checked.host = peer.sni
                  /\ (checked.client.roots # <<>>) = (peer.ca # None)
                  /\ peer.ca # None => Range(checked.client.roots) \subseteq Range(peer.ca)
            /\ \A n \in DOMAIN ctx.runtime_state.clusters :
                  LET other == ctx.runtime_state.clusters[n]
                  IN  \A e \in Range(other.endpoints) :
                        LET p == build_peer(other, e, ctx)
                        IN  p # Err /\ p.key = peer.key =>
                              /\ p.addr = peer.addr /\ p.tls = peer.tls
                              /\ OrElse(p.sni, "") = OrElse(peer.sni, "")
                              /\ p.verify_cert = peer.verify_cert
                              /\ p.verify_hostname = peer.verify_hostname
                              /\ p.client_cert = peer.client_cert

(* validate_sni_auto_requires_dns_or_rewrite and build: a validated         *)
(* configuration always has a name for the upstream it must verify.         *)
NameForEveryPeer == answer # None => answer.status # 500

(* What header rules make of one header.                                    *)
Ruled(old, name, rules) ==
    LET For(pairs) == MapSeq(SelectSeq(pairs, LAMBDA p : ToLowercase(p[1]) = name),
                             LAMBDA p : p[2])
        set == For(rules.set_headers)
        all == (IF set = <<>> THEN old ELSE <<Last(set)>>)
                   \o For(rules.append_headers)
        one == IF is_non_joinable(name) \/ Len(all) < 2
                  \/ For(rules.append_headers) = <<>>
               THEN all ELSE <<build_joined_value(Front(all), Last(all))>>
    IN  IF \E n \in Range(rules.remove_headers) : ToLowercase(n) = name THEN <<>>
        ELSE IF one = <<>> /\ For(rules.add_headers) # <<>>
        THEN <<Head(For(rules.add_headers))>>
        ELSE one

(* header_ops.rs and upstream_request_filter: header by header, the         *)
(* upstream sees what the route's rules say of the client's headers, the    *)
(* rewritten host and the trace context.                                    *)
HeadersAsRuled ==
    sent # None =>
        \A n \in DOMAIN sent.headers \cup DOMAIN req.headers \cup {"x-env", "set-cookie"} :
            LET old == CASE n = "x-proxy-by" -> <<<<"Pavis">>>>
                         [] n = "host" /\ route.rewrite.host # None ->
                                <<route.rewrite.host>>
                         [] n = "traceparent" /\ Traced(ctx.runtime_state.config) -> <<<<"span">>>>
                         [] OTHER -> Get(req.headers, n)
                rules == route.request_headers
            IN  Get(sent.headers, n) = IF rules = None THEN old ELSE Ruled(old, n, rules)

(* auth.rs and identity.rs: a route with a principal forwards only requests *)
(* whose certificate names exactly one SPIFFE identity, and that one fits.  *)
IdentityProven ==
    req # None /\ ctx.upstream_name # None /\ route.principal.kind # "any" =>
        LET spiffe == {i \in DOMAIN req.uris :
                         req.uris[i].scheme \in {"spiffe", "SPIFFE"}}
        IN  /\ Cardinality(spiffe) = 1
            /\ \A i \in spiffe : is_authorized(route.principal,
                                               <<"spiffe://">> \o req.uris[i].rest)

(* load_balance.rs and request_filter: of total_weight picks, each endpoint *)
(* and each destination gets as many as its weight.                         *)
SharesByWeight ==
    running # None /\ req = None =>
        /\ \A n \in DOMAIN running.clusters :
              LET es == running.clusters[n].endpoints
                  cum == cumulative_weights(es)
              IN  \A i \in DOMAIN es :
                      Cardinality({p \in 0 .. TotalWeight(es) - 1 :
                                      find_index(cum, p) = i}) = es[i].weight
        /\ \A v \in Range(running.config.routes) : \A r \in Range(v.paths) :
              r.action.kind = "forward" =>
                  LET ds == r.action.destinations
                  IN  \A n \in {d.upstream : d \in Range(ds)} :
                          Cardinality({p \in 0 .. TotalWeight(ds) - 1 :
                                          PickDestination(ds, p) = n})
                            = TotalWeight(SelectSeq(ds, LAMBDA d : d.upstream = n))

(* retry.rs: from one attempt to the next the pause never shrinks, an       *)
(* exponential one stays within its maximum, and all the pauses of a        *)
(* request together stay within its timeout: one is cut short only where it *)
(* meets the deadline.                                                      *)
BackoffGrows ==
    running # None /\ req = None =>
        \A v \in Range(running.config.routes) : \A r \in Range(v.paths) :
            r.retry # None =>
                LET retry == RetryContext(r.retry, request_timeout_ms(r.timeout))
                    Pause(n) == calculate_backoff(r.retry.backoff, n)
                    left[n \in 1 .. retry.max_attempts] ==
                        IF n = 1 THEN retry.global_deadline
                        ELSE left[n - 1] - apply_backoff(r.retry.backoff, n, left[n - 1])
                IN  \A n \in 2 .. retry.max_attempts :
                       /\ Pause(n - 1) <= Pause(n)
                       /\ r.retry.backoff.kind = "exponential" =>
                             Pause(n) <= r.retry.backoff.max_ms
                       /\ left[n] = left[n - 1] - Pause(n) \/ left[n] = 0
                       /\ left[n] >= 0

(* request_filter, upstream_peer and logging: whatever is reloaded while a  *)
(* request is on its way, it ends with the configuration it was routed by,  *)
(* and its line in the access log says what happened to it: denied or not,  *)
(* the route, an upstream this route forwards to, a duration if and only if *)
(* a peer of that upstream was found, and 500 only if it could not be       *)
(* verified.                                                                *)
OneConfiguration ==
    entry # None =>
        LET c == ctx.runtime_state.config
            allowed == route # None /\ is_authorized(route.principal,
                                                     extract_spiffe_id(req.uris))
            ours == {u \in Range(c.upstreams) : u.name = entry.upstream}
        IN  /\ entry.status = answer.status
            /\ entry.rbac_denied = (route # None /\ ~allowed)
            /\ route # None => /\ \E v \in Range(c.routes) : route \in Range(v.paths)
                              /\ entry.route_pattern = route.matcher.path.path
            /\ (entry.upstream # "-") = (allowed /\ route.action.kind = "forward")
            /\ entry.upstream # "-" =>
                  \E d \in Range(route.action.destinations) : d.upstream = entry.upstream
            /\ entry.upstream_duration = (peer # None)
            /\ peer # None => \E u \in ours : \E e \in Range(materialize_upstream(u)) :
                                  peer.addr = e.address
            /\ entry.status = 500 => \E u \in ours : u.tls # None /\ u.tls.verify = "full"
            /\ IsPrefix(entry.request_id,
                        <<"r", "e", "q", "-">>
                            \o Digits[IF req.now < 0 THEN 0 ELSE req.now]
                            \o <<"-">> \o Digits[req.random])

(* ensure_runtime_reload_safe: what was bound when the process started is   *)
(* what the running configuration says, after any reload.                   *)
BootStays ==
    running # None =>
        /\ \E dns \in DnsSettings : server = BootstrapPlan(running.config, dns)
        /\ running.config.listeners = boot.listeners
        /\ running.config.admin = boot.admin
        /\ running.config.shutdown = boot.shutdown
        /\ running.config.telemetry.metrics = boot.telemetry.metrics
        /\ running.config.telemetry.access_log = boot.telemetry.access_log
==============================================================================
