------------------------------ MODULE MCConfigure ------------------------------
(* Instances of Configure: one plain document, and what a document may say  *)
(* differently in each of its sections.                                     *)
EXTENDS ConfigurePredicates

Endpoint1 == [address |-> "10.0.0.1", port |-> 80, weight |-> None]
Endpoint2 == [address |-> "10.0.0.2", port |-> 80, weight |-> 2]
Dns1 == [address |-> "one.test", port |-> 443, weight |-> None]
Dns2 == [address |-> "two.test", port |-> 443, weight |-> 2]
(* The environment's server counts where the system has none; a text that   *)
(* is no address, or no settings at all, ends the process.                  *)
MCDnsSettings == {[env |-> [ip |-> "9.9.9.9", port |-> 53], system |-> Err],
                  [env |-> Err, system |-> [servers |-> {}, protocol |-> "udp"]],
                  [env |-> None, system |-> Err]}

MCDns == [h \in {"one.test", "two.test", "gone.test"} |->
            CASE h = "one.test" -> <<"10.0.0.1", "10.0.0.2">>
              [] h = "two.test" -> <<"10.0.0.2">>
              [] OTHER -> <<>>]
MCPem == [f \in {"leaf", "pair", "key", "roots", "void"} |->
            CASE f = "pair" -> <<"leaf", "issuer">> [] f = "void" -> <<>>
              [] OTHER -> <<f>>]

Upstream1 ==
    [id |-> None, name |-> "u1", discovery |-> None, balancer |-> None,
     protocol |-> None, pool |-> None, tls |-> None, circuit_breaker |-> None,
     outlier_detection |-> None, health_check |-> None,
     endpoints |-> <<Endpoint1>>]
U(f, v) == [Upstream1 EXCEPT ![f] = v]
Upstream2 == [Upstream1 EXCEPT !.name = "u2"]

Matcher1 == [default_matcher EXCEPT !.path = [kind |-> "prefix", path |-> <<"/">>]]
Forward(n) == [kind |-> "forward", destinations |-> <<[upstream |-> n, weight |-> 1]>>]
Path1 == [matcher |-> None, timeout |-> None, retry |-> None,
          request_headers |-> None, response_headers |-> None, rewrite |-> None,
          action |-> Forward("u1"), principal |-> None]
P(f, v) == [Path1 EXCEPT ![f] = v]
VHost(h, paths) == [host |-> h, paths |-> paths]

ServerTls(c, mode, ca) == [cert_path |-> c, key_path |-> "key",
                           client_auth |-> [mode |-> mode, ca_path |-> ca]]
Listener1 == [name |-> "main", address |-> [ip |-> "127.0.0.1", port |-> 8080],
              workers |-> None, tls |-> None]
Document ==
    [listeners |-> <<Listener1>>, telemetry |-> None, upstreams |-> <<Upstream1>>,
     routes |-> <<VHost(<<"*">>, <<Path1>>)>>, shutdown |-> None, admin |-> None,
     features |-> None]
D(f, v) == [Document EXCEPT ![f] = v]
Routed(paths) == D("routes", <<VHost(<<"*">>, paths)>>)

--------------------------------------------------------------------------
(* Upstreams *)
Pool1 == [default_pool_config EXCEPT !.idle = None, !.connect = None]
Pools ==
    {Pool1, [Pool1 EXCEPT !.idle = 1], [Pool1 EXCEPT !.connect = 3],
     [Pool1 EXCEPT !.connect = 2 * (U32Max + 1)]}
  \cup {[Pool1 EXCEPT !.max = n] : n \in {0, 1, U32Max + 1}}
  \cup {[Pool1 EXCEPT !.queue_capacity = n, !.queue_timeout_ms = 5] :
            n \in {0, 2, U32Max + 1}}
  \cup {[Pool1 EXCEPT !.tcp_keepalive = d, !.tcp_nodelay = FALSE] : d \in {1, 2, 20}}
  \cup {[Pool1 EXCEPT !.recv_buffer_size = 1]}

Cert(c, mode, path) == [cert_path |-> c, key_path |-> "key", chain_mode |-> mode,
                        chain_path |-> path]
Tls1 == [enabled |-> None, verify_cert |-> None, verify_hostname |-> None,
         sni |-> None, sni_mode |-> None, canonical_sni |-> None,
         reuse_across_sni |-> None, ca_bundle_path |-> None, cert |-> None]
TlsModes ==
    {[Tls1 EXCEPT !.verify_cert = vc, !.verify_hostname = vh, !.sni = s,
                  !.sni_mode = mode, !.canonical_sni = c, !.reuse_across_sni = r] :
        vc \in {None, FALSE}, vh \in {None, FALSE}, s \in {None, "api"},
        mode \in {None, "auto", "name", "disabled"}, c \in {None, "front"},
        r \in {None, TRUE}}
TlsFiles ==
    {[Tls1 EXCEPT !.sni = "api", !.cert = c] :
        c \in {Cert("leaf", None, None), Cert("pair", "embedded", None),
               Cert("pair", "none", None), Cert("leaf", None, "roots"),
               Cert("leaf", "file", None), Cert("leaf", "embedded", "roots"),
               Cert("lost", None, None), Cert(" ", None, None),
               Cert("leaf", "file", "void")}}
  \cup {[Tls1 EXCEPT !.sni = "api", !.ca_bundle_path = f] : f \in {"roots", "void", ""}}
  \cup {[Tls1 EXCEPT !.enabled = FALSE], [Tls1 EXCEPT !.enabled = TRUE,
                                                      !.canonical_sni = " "]}

(* Addresses, one DNS name, two of them, and addresses behind a rewrite.    *)
Hosted == {[Upstream1 EXCEPT !.discovery = d, !.endpoints = es] :
             d \in {[kind |-> "strict", ttl |-> 5]}, es \in {<<Dns1>>, <<Dns1, Dns2>>}}
Places == {<<Upstream1, Path1>>,
           <<Upstream1, P("rewrite", [path |-> None, host |-> <<"in", "test">>])>>}
     \cup {<<u, Path1>> : u \in Hosted}

Breakers == {[max_connections |-> n, max_pending_requests |-> m, max_retries |-> r] :
               n \in {0, 1, U32Max + 1}, m \in {1}, r \in {None, 1}}
Outliers == {[consecutive_errors |-> n, eject_duration |-> d] :
               n \in {0, 3}, d \in {1, 10}}
Check1 == [path |-> <<"/", "h">>, interval |-> 20, timeout |-> None,
           healthy_threshold |-> default_health_threshold,
           unhealthy_threshold |-> default_health_threshold]
Checks == {Check1, [Check1 EXCEPT !.timeout = 21], [Check1 EXCEPT !.timeout = 10],
           [Check1 EXCEPT !.healthy_threshold = 2], [Check1 EXCEPT !.path = <<"h">>],
           [Check1 EXCEPT !.interval = 1]}

Upstreams ==
    {U("pool", p) : p \in Pools} \cup {[U("tls", t) EXCEPT !.health_check = Check1] : t \in TlsFiles}
  \cup {U("circuit_breaker", b) : b \in Breakers}
  \cup {U("outlier_detection", o) : o \in Outliers}
  \cup {U("health_check", h) : h \in Checks}
  \cup {U("id", i) : i \in {0, 7}} \cup {U("protocol", v) : v \in {"h2", "h2h1"}}
  \cup {[Upstream1 EXCEPT !.balancer = b, !.endpoints = <<Endpoint1, Endpoint2, Endpoint1>>] :
            b \in {"round-robin", "least-request"}}
  \cup {U("endpoints", <<[Endpoint1 EXCEPT ![f] = v]>>) :
            f \in {"weight"}, v \in {0, U16Max + 1}}
  \cup {U("endpoints", es) : es \in {<<>>, <<Dns1>>, <<[Endpoint1 EXCEPT !.port = 0]>>}}
  \cup {[Upstream1 EXCEPT !.discovery = [kind |-> "logical"], !.endpoints = es] :
            es \in {<<Dns1, Dns2>>, <<[Dns1 EXCEPT !.address = "gone.test"]>>, <<>>}}

UpstreamDocs ==
    {D("upstreams", <<u>>) : u \in Upstreams}
  \cup {D("upstreams", <<Upstream1, Upstream1>>), D("upstreams", <<Upstream2>>)}
  \cup {[Document EXCEPT !.upstreams = <<[p[1] EXCEPT !.tls = t, !.health_check = Check1]>>,
                         !.routes = <<VHost(<<"*">>, <<p[2]>>)>>] :
            p \in Places, t \in TlsModes}

--------------------------------------------------------------------------
(* Routes *)
At(kind, path) == P("matcher", [Matcher1 EXCEPT !.path = [kind |-> kind, path |-> path]])
To(n, p) == [p EXCEPT !.action = Forward(n)]
A == <<"/", "a">>
AB == <<"/", "a", "/", "b">>
V1(name, v, re, pre, abs) ==
    [name |-> name, value |-> v, regex |-> re, prefix |-> pre, absent |-> abs]
V2(name, op, v) == [name |-> name, operator |-> op, value |-> v]
Written ==
    {V1(n, v, FALSE, FALSE, FALSE) : n \in {"X-Env", "x env"}, v \in {None, <<"p">>}}
  \cup {V1("x-env", <<"p">>, re, pre, abs) : re, pre, abs \in BOOLEAN}
  \cup {V1("x-env", None, re, FALSE, abs) : re, abs \in BOOLEAN}
  \cup {V2("x-env", op, <<"p">>) : op \in {"present", "absent", "exact", "prefix", "regex"}}
  \cup {V2("x-env", "regex", v) : v \in {<<"^", "q">>, <<"(">>, <<"p", "q", "r", "s">>}}
With(preds) == P("matcher", [Matcher1 EXCEPT !.headers = preds])
Methods == {P("matcher", [Matcher1 EXCEPT !.method = m, !.methods = ms]) :
              m \in {None, "get", "PING"}, ms \in {None, <<"post", "GET">>, <<>>}}

Retry1 == [RetryPolicyDefault EXCEPT
              !.max_attempts = 3, !.retryable_reasons = <<"connect_error">>,
              !.backoff = [kind |-> "fixed", base_ms |-> 5],
              !.fail_on_non_replayable_retry = TRUE,
              !.max_request_body_buffer_bytes = 64]
Retries ==
    {[Retry1 EXCEPT !.max_attempts = n, !.backoff = b] :
        n \in {0, 1, 10, 11},
        b \in {[kind |-> "linear", base_ms |-> 7],
               [kind |-> "exponential", base_ms |-> 3, max_ms |-> 40],
               [kind |-> "exponential", base_ms |-> U64Max \div 3, max_ms |-> U64Max]}}
  \cup {[Retry1 EXCEPT !.per_try = d] : d \in {0, 1, 10, 12, 2 * (U32Max + 1)}}
  \cup {[Retry1 EXCEPT !.retryable_reasons = rs, !.retryable_status_codes = cs] :
          rs \in {<<"status_code">>, <<"">>, <<"often">>}, cs \in {None, <<>>, <<503>>}}
  \cup {RetryPolicyDefault, [RetryPolicyDefault EXCEPT !.retryable_status_codes = <<502>>]}

Rules(s, a, d, r) == [set_headers |-> s, append_headers |-> a, add_headers |-> d,
                      remove_headers |-> r]
HeaderRules ==
    {Rules(s, a, d, r) :
        s \in {<<>>, <<<<"X-Env", <<"s">>>>, <<"x-env", <<"t">>>>>>},
        a \in {<<>>, <<<<"x-env", <<"1">>>>, <<"X-Env", <<"2">>>>>>,
               <<<<"Set-Cookie", <<"c">>>>, <<"set-cookie", <<"d">>>>>>},
        d \in {<<>>, <<<<"x-env", <<"a">>>>, <<"x-env", <<"b">>>>>>},
        r \in {<<>>, <<"X-Env">>}}
  \cup {Rules(<<<<"x env", <<>>>>>>, <<>>, <<>>, <<>>),
        Rules(<<>>, <<>>, <<<<"x-env", <<"\n">>>>>>, <<>>)}

Td == <<"spiffe://", "td", "/">>
Principals == {[kind |-> "authenticated", spiffe |-> Append(Td, "a")],
               [kind |-> "prefix", prefix |-> Td], [kind |-> "prefix", prefix |-> <<>>]}
Actions ==
    {[kind |-> "redirect", status |-> 301, location |-> "there"],
     [kind |-> "direct", status |-> 204, body |-> "text"],
     [kind |-> "forward", destinations |-> <<>>]}
  \cup {[kind |-> "forward", destinations |-> <<[upstream |-> "u1", weight |-> w],
                                                [upstream |-> n, weight |-> 2]>>] :
            w \in {0, 1}, n \in {"u1", "u2"}}

Paths ==
    {<<With(<<p>>), To("u2", At("prefix", A))>> : p \in Written}
  \cup {<<m, To("u2", [m EXCEPT !.matcher = [Matcher1 EXCEPT !.path.path = A]])>> :
            m \in Methods}
  \cup {<<P("retry", r)>> : r \in Retries}
  \cup {<<[Path1 EXCEPT !.retry = [Retry1 EXCEPT !.per_try = d], !.timeout = t]>> :
            d \in {10, 14}, t \in {1, 12}}
  \cup {<<P("request_headers", h)>> : h \in HeaderRules}
  \cup {<<P("response_headers", h)>> : h \in {x \in HeaderRules : x.set_headers = <<>>}}
  \cup {<<P("action", a)>> : a \in Actions}
  \cup {<<[At(k, A) EXCEPT !.rewrite = [path |-> to, host |-> h]]>> :
            k \in {"prefix", "exact", "regex"}, to \in {None, <<"/", "z">>, <<" ">>},
            h \in {None, <<"in", "test">>}}
  \cup {<<At("exact", A), At("exact", A)>>, <<At("prefix", Append(A, "/"))>>,
        <<At("regex", <<"(">>)>>, <<At("regex", <<"^", "/", "a", "/", "b">>)>>}
  (* Exact paths on both sides of the prefix that covers them. *)
  \cup {<<At("exact", A), To("u2", At("prefix", A)), To("u2", At("exact", AB))>>,
        <<To("u2", At("prefix", A)), At("exact", A), At("exact", AB)>>,
        <<At("regex", <<"b">>), To("u2", At("exact", AB)), At("prefix", <<"/">>)>>}

Hosts == {<<VHost(h, <<p>>), VHost(g, <<To("u2", Path1)>>)>> :
            h \in {<<"*">>, <<"*", "test">>, <<"in", "*">>, <<"in", "test">>},
            g \in {<<"*">>, <<"*", "test">>, <<"in", "*">>, <<"in", "test">>, <<"a*">>},
            p \in {Path1, At("exact", A)}}
Limits(f, n) == [advanced_matchers |-> TRUE,
                 regex_limits |-> [EmptyRegexLimits EXCEPT ![f] = n]]
TwoRegexes == <<With(<<V2("x-env", "regex", <<"^", "p">>),
                       V2("x-env", "regex", <<"q">>)>>), To("u2", At("prefix", A))>>
RouteDocs ==
    {[Routed(<<P("principal", p)>>) EXCEPT
         !.listeners = <<[Listener1 EXCEPT !.tls = ServerTls("leaf", m, "roots")]>>] :
        p \in Principals, m \in {"optional", "disabled"}}
  \cup {[Routed(ps) EXCEPT !.upstreams = <<Upstream1, Upstream2>>] : ps \in Paths}
  \cup {[D("routes", vs) EXCEPT !.upstreams = <<Upstream1, Upstream2>>] : vs \in Hosts}
  \cup {[Routed(TwoRegexes) EXCEPT !.upstreams = <<Upstream1, Upstream2>>,
                                   !.features = Limits(f, n)] :
          f \in {"size_limit_bytes", "input_max_bytes", "max_regex_per_route",
                 "max_regex_per_config"}, n \in {1, 2}}

--------------------------------------------------------------------------
(* The other sections *)
Listeners ==
    {<<[Listener1 EXCEPT ![f] = v]>> : f \in {"workers"}, v \in {0, 2}}
  \cup {<<[Listener1 EXCEPT !.tls = t]>> :
          t \in {ServerTls("leaf", "required", "roots"), ServerTls("leaf", "disabled", ""),
                 ServerTls("leaf", "optional", ""), ServerTls("leaf", "optional", "void"),
                 ServerTls("lost", "disabled", ""), ServerTls(None, "disabled", ""),
                 ServerTls("", "disabled", "")}}
  \cup {<<[Listener1 EXCEPT !.address.ip = ip]>> : ip \in {"::0", "nowhere"}}
  \cup {<<Listener1, [Listener1 EXCEPT !.name = n, !.address.port = p]>> :
          n \in {"main", "more"}, p \in {8080, 8081}}
Telemetries ==
    {[EmptyTelemetry EXCEPT !.level = l, !.tracing = t] :
        l \in {"DEBUG", "loud"},
        t \in {[provider |-> "Zipkin", sampling |-> 0, endpoint |-> None],
               [provider |-> "other", sampling |-> None, endpoint |-> "there"]}}
  \cup {[EmptyTelemetry EXCEPT !.metrics = [ip |-> "127.0.0.1", port |-> p]] :
          p \in {8080, 9090, 9091}}
  \cup {[EmptyTelemetry EXCEPT !.access_log = l] :
          l \in {[kind |-> "file", path |-> "log"], [kind |-> "disabled"]}}

OtherDocs ==
    {Document, D("listeners", None), D("upstreams", None), D("routes", None)}
  \cup {D("listeners", ls) : ls \in Listeners}
  \cup {D("telemetry", t) : t \in Telemetries}
  \cup {D("shutdown", [enabled |-> e, drain_timeout_ms |-> d]) :
          e \in {None, FALSE}, d \in {None, 0, 10}}
  \cup {D("admin", [enabled |-> e, address |-> a]) :
          e \in {None, TRUE}, a \in {None, [ip |-> "127.0.0.1", port |-> 8080]}}

Of(docs) == {[format |-> "yaml", doc |-> d] : d \in docs}
(* A verified upstream of addresses, behind a route that rewrites the host. *)
RewrittenArtifact ==
    Of({[Document EXCEPT
            !.upstreams = <<U("tls", Tls1)>>,
            !.routes = <<VHost(<<"*">>, <<P("rewrite", [path |-> None,
                                            host |-> <<"in", "test">>])>>)>>]})
MCArtifact == Of(UpstreamDocs \cup RouteDocs \cup OtherDocs)
         \cup {[format |-> "json", doc |-> Document], [format |-> "yaml", doc |-> None]}

(* Other routes, and a change to what is bound at boot.                     *)
Reloads == Of({[Document EXCEPT !.routes = <<>>, !.upstreams = None],
               D("telemetry", [EmptyTelemetry EXCEPT !.tracing =
                   [provider |-> None, sampling |-> None, endpoint |-> None]]),
               [Document EXCEPT !.listeners =
                   <<[Listener1 EXCEPT !.tls = [cert_path |-> "leaf",
                        key_path |-> "key", client_auth |-> None]]>>]})
MCNextArtifact(a) == IF a \in Of(OtherDocs) THEN Reloads \ {a} ELSE {}

Req(h, p, m, hd, us) == [host |-> h, path |-> p, query |-> None, method |-> m,
                         headers |-> hd, uris |-> us,
                         now |-> IF h = None THEN -1 ELSE 70, random |-> Len(p)]
Uri(s, r) == [scheme |-> s, rest |-> r]
NoHeaders == <<>>
MCRequest ==
    {Req(<<"in", "test">>, A, "GET", [n \in {"x-env"} |-> <<<<"p", "q">>>>], <<>>),
     Req(<<"b", "in", "test", ":", "80">>, AB, "POST", NoHeaders,
         <<Uri(None, <<"mail">>), Uri("SPIFFE", <<"td", "/", "a">>)>>),
     Req(None, Append(A, "b"), "get",
         [n \in {"x-env", "set-cookie"} |-> <<<<"p">>, <<"q">>>>],
         <<Uri("spiffe", <<"td", "/", "a">>), Uri("spiffe", <<"td", "/", "b">>)>>),
     Req(<<"[", "in", "test", "]", ":", "80">>, A, "PUT", NoHeaders,
         <<Uri("spiffe", <<"td", "/", "b">>), Uri("https", <<"x">>)>>),
     Req(<<"a*">>, AB, "GET", NoHeaders, <<Uri("spiffe", <<"td", "/", "/">>)>>)}
MCAnswer == {[n \in {"server"} |-> <<<<"s">>>>]}
==============================================================================
