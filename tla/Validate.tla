-------------------------------- MODULE Validate --------------------------------
(***************************************************************************)
(* pavis_core::validate_runtime: the canonical validation every compiled    *)
(* configuration passes before it is published.                             *)
(***************************************************************************)
EXTENDS Codec

CONSTANT PathPatternMax      \* bytes of a path's regex (2048), scaled

(* HashSet::insert of one key per element: nothing is seen twice.           *)
NoDuplicate(s, Key(_)) ==
    \A i, j \in DOMAIN s : Key(s[i]) = Key(s[j]) => i = j

validate_listeners(ls) ==
    /\ NoDuplicate(ls, LAMBDA l : l.name)
    /\ \A l \in Range(ls) :
          l.tls # None => /\ l.tls.cert_path # "" /\ l.tls.key_path # ""
                          /\ l.tls.client_auth # None =>
                                l.tls.client_auth.ca_path # ""

validate_upstreams(us) ==
    /\ NoDuplicate(us, LAMBDA u : u.name)
    /\ \A u \in Range(us) :
          /\ u.name # ""
          /\ u.tls # None =>
                /\ ~(u.tls.verify = "full" /\ u.tls.sni.kind = "disabled")
                /\ ~(u.tls.verify = "disabled" /\ u.tls.reuse_across_sni)
          /\ u.health_check # None =>
                /\ u.health_check.path # <<>>
                /\ Head(u.health_check.path) = "/"
                /\ ~Contains(u.health_check.path, " ")
                /\ u.health_check.timeout <= u.health_check.interval

(* http::HeaderName and HeaderValue: a space or a line break is malformed.  *)
ValidName(n) == n \notin {"", "x env"}
ValidValue(v) == ~Contains(v, "\n")
validate_headers(h) ==
    h # None =>
        /\ \A f \in {"set_headers", "append_headers", "add_headers"} :
              \A pair \in Range(h[f]) : ValidName(pair[1]) /\ ValidValue(pair[2])
        /\ \A n \in Range(h.remove_headers) : ValidName(n)

NormalizedPath(p) == /\ p # <<>> /\ Head(p) = "/"
                     /\ Len(p) > 1 => Last(p) # "/"

(* The upstreams a route names exist.                                       *)
validate_action(a, names) ==
    a.kind = "forward" =>
        /\ a.destinations # <<>>
        /\ \A d \in Range(a.destinations) : d.upstream \in names

(* The answer is kept by pattern, which changes nothing about it.           *)
validate_regex(pattern) == Len(pattern) <= PathPatternMax /\ RegexNew(pattern)

validate_route(r, names) ==
    /\ IF r.matcher.path.kind = "regex"
       THEN /\ validate_regex(r.matcher.path.path)
            /\ r.rewrite.path = None
       ELSE NormalizedPath(r.matcher.path.path)
    /\ validate_headers(r.request_headers)
    /\ validate_headers(r.response_headers)
    /\ validate_action(r.action, names)

validate_routes(vs, us) ==
    LET names == {u.name : u \in Range(us)}
    IN  \A v \in Range(vs) :
            /\ NoDuplicate(v.paths, LAMBDA r : r.matcher.path)
            /\ \A r \in Range(v.paths) : validate_route(r, names)

(* verify=full with sni=auto needs a name: a canonical one, a DNS endpoint, *)
(* or (unless connections are shared across names) a host rewrite on every  *)
(* route that forwards to the upstream.                                     *)
HasDns(u) == \E e \in Range(u.endpoints) : e.address.kind = "dns"
NeedsDnsName(u) == /\ u.tls # None
                   /\ u.tls.verify = "full" /\ u.tls.sni.kind = "auto"
                   /\ u.tls.canonical_sni = None
                   /\ ~HasDns(u)
ForwardsTo(r, u) == /\ r.action.kind = "forward"
                    /\ \E d \in Range(r.action.destinations) :
                          d.upstream = u.name
validate_sni_auto_requires_dns_or_rewrite(vs, us) ==
    \A u \in Range(us) : NeedsDnsName(u) =>
        /\ ~u.tls.reuse_across_sni
        /\ \A v \in Range(vs) : \A r \in Range(v.paths) :
               ForwardsTo(r, u) => r.rewrite.host # None

validate_port_conflicts(c) ==
    NoDuplicate([i \in DOMAIN c.listeners |-> c.listeners[i].address.port]
                \o (IF c.admin = None THEN <<>> ELSE <<c.admin.port>>)
                \o (IF c.telemetry.metrics = None THEN <<>>
                    ELSE <<c.telemetry.metrics.port>>),
                LAMBDA p : p)

validate_required_capabilities(caps) ==
    Range(caps) \subseteq {"advanced_matchers"}

validate_runtime(c) ==
    /\ validate_listeners(c.listeners)
    /\ NoDuplicate(c.routes, LAMBDA v : v.host)
    /\ validate_upstreams(c.upstreams)
    /\ validate_routes(c.routes, c.upstreams)
    /\ validate_sni_auto_requires_dns_or_rewrite(c.routes, c.upstreams)
    /\ validate_port_conflicts(c)
    /\ validate_required_capabilities(c.required_capabilities)
==============================================================================
