--------------------------------- MODULE Router ---------------------------------
(***************************************************************************)
(* The router: a configuration's virtual hosts compiled into zones          *)
(* (router.rs), the header regexes compiled under the configured limits     *)
(* (regex_validator.rs), and the choice of a route for a request            *)
(* (router/matcher.rs).                                                     *)
(*                                                                         *)
(* A request's headers map lower-case names to the sequence of their values.*)
(***************************************************************************)
EXTENDS RuntimeConfig

(* regex_validator.rs.  The size of a compiled regex grows with its pattern.*)
RegexSize(pattern) == Len(pattern)

HeaderRegexes(route) ==
    SelectSeq(route.matcher.headers, LAMBDA p : p.matcher.kind = "regex")
count_regexes_in_route(vhost) ==
    FoldLeft(LAMBDA n, route : n + Len(HeaderRegexes(route)), 0, vhost.paths)
collect_patterns(vhosts) ==
    UNION {{p.matcher.value : p \in Range(HeaderRegexes(route))} :
               route \in UNION {Range(v.paths) : v \in Range(vhosts)}}
compile_regex_pattern(pattern, limits) ==
    RegexNew(pattern) /\ RegexSize(pattern) <= limits.size_limit_bytes

(* The patterns that have a compiled regex, or Err.                         *)
validate_and_compile_regexes(config, limits) ==
    IF /\ \A v \in Range(config.routes) :
              count_regexes_in_route(v) <= limits.max_regex_per_route
       /\ \A p \in collect_patterns(config.routes) :
              compile_regex_pattern(p, limits)
       /\ FoldLeft(LAMBDA n, v : n + count_regexes_in_route(v), 0, config.routes)
              <= limits.max_regex_per_config
    THEN collect_patterns(config.routes) ELSE Err

--------------------------------------------------------------------------
(* router.rs.  Consecutive exact paths without further predicates share a   *)
(* map; every other route is tried in its turn.                             *)
has_predicates(m) == m.method.kind # "any" \/ m.headers # <<>>
ZoneKind(m) == IF m.path.kind = "exact" /\ ~has_predicates(m)
               THEN "map" ELSE "linear"

NewZone(m, index) ==
    IF ZoneKind(m) = "map" THEN [kind |-> "map", map |-> m.path.path :> index]
    ELSE [kind |-> "linear", routes |-> <<index>>]
Extend(zone, m, index) ==
    IF zone.kind = "map" THEN [zone EXCEPT !.map = @ @@ (m.path.path :> index)]
    ELSE [zone EXCEPT !.routes = Append(@, index)]

(* The exact paths of a host are gathered into its first map.               *)
ZonesHoisted(paths) ==
    LET Of(k) == SelectSeq([i \in DOMAIN paths |-> i],
                           LAMBDA i : ZoneKind(paths[i].matcher) = k)
    IN  <<[kind |-> "map",
           map |-> FoldLeft(LAMBDA f, i : f @@ (paths[i].matcher.path.path :> i),
                            <<>>, Of("map"))],
          [kind |-> "linear", routes |-> Of("linear")]>>

Zones(paths) ==
    FoldLeft(LAMBDA zones, i :
                 LET m == paths[i].matcher IN
                 IF zones # <<>> /\ Last(zones).kind = ZoneKind(m)
                 THEN Append(Front(zones), Extend(Last(zones), m, i))
                 ELSE Append(zones, NewZone(m, i)),
             <<>>, [i \in DOMAIN paths |-> i])

CompiledVirtualHost(v) == [config |-> v, zones |-> Zones(v.paths)]

(* A label with a star in it.                                               *)
IsWildcard(host) == \E label \in Range(host) : label \in {"*", "a*"}

with_regex(vhosts, regex_cache, regex_limits) ==
    LET regexes == {r.matcher.path.path : r \in
                      {x \in UNION {Range(v.paths) : v \in Range(vhosts)} :
                           x.matcher.path.kind = "regex"}}
        exact == {v \in Range(vhosts) : ~IsWildcard(v.host)}
    IN  IF regex_cache = Err \/ \E p \in regexes : ~RegexNew(p) THEN Err
        ELSE [exact_hosts |->
                  [h \in {v.host : v \in exact} |->
                       CompiledVirtualHost(CHOOSE v \in exact : v.host = h)],
              wildcard_hosts |->
                  MapSeq(SelectSeq(vhosts, LAMBDA v : IsWildcard(v.host)),
                         CompiledVirtualHost),
              regex_cache |-> regex_cache, regex_limits |-> regex_limits]

--------------------------------------------------------------------------
(* matcher.rs *)
matches_method(predicate, method) ==
    CASE predicate.kind = "any" -> TRUE
      [] predicate.kind = "specific" ->
             ToUppercase(method) = predicate.method
      [] predicate.kind = "list" ->
             ToUppercase(method) \in Range(predicate.methods)

(* Only a header's first value is looked at.                                *)
matches_header_predicate(p, headers, router) ==
    IF p.name \notin DOMAIN headers THEN p.matcher.kind = "absent"
    ELSE LET actual == Head(headers[p.name])
         IN  CASE p.matcher.kind = "present" -> TRUE
               [] p.matcher.kind = "absent" -> FALSE
               [] p.matcher.kind = "exact" -> actual = p.matcher.value
               [] p.matcher.kind = "prefix" -> IsPrefix(p.matcher.value, actual)
               [] p.matcher.kind = "regex" ->
                      /\ p.matcher.value \in router.regex_cache
                      /\ Len(actual) <= router.regex_limits.input_max_bytes
                      /\ RegexIsMatch(p.matcher.value, actual)

matches_headers(predicates, headers, router) ==
    \A p \in Range(predicates) : matches_header_predicate(p, headers, router)

matches_path(pm, uri_path) ==
    CASE pm.kind = "prefix" -> IsPrefix(pm.path, uri_path)
      [] pm.kind = "exact" -> uri_path = pm.path
      [] pm.kind = "regex" -> RegexIsMatch(pm.path, uri_path)

(* The routes a zone offers for a path, in the order they are tried.        *)
Offered(zone, uri_path) ==
    IF zone.kind = "linear" THEN zone.routes
    ELSE IF uri_path \in DOMAIN zone.map THEN <<zone.map[uri_path]>> ELSE <<>>

try_match(v, req, router) ==
    LET offered == FlattenSeq(MapSeq(v.zones, LAMBDA z : Offered(z, req.path)))
        Fits(i) == LET m == v.config.paths[i].matcher
                   IN  /\ matches_path(m.path, req.path)
                       /\ matches_method(m.method, req.method)
                       /\ matches_headers(m.headers, req.headers, router)
        first == SelectInSeq(offered, Fits)
    IN  IF first = 0 THEN None ELSE v.config.paths[offered[first]]

(* "*" fits every request, even one without a Host; "*.x" and "x.*" fit a   *)
(* host with at least one label more.                                       *)
HostFits(pattern, host) ==
    \/ pattern = <<"*">>
    \/ /\ host # None
       /\ IF Head(pattern) = "*"
          THEN Len(host) > Len(Tail(pattern)) /\ IsSuffix(Tail(pattern), host)
          ELSE IF Last(pattern) = "*"
          THEN Len(host) > Len(Front(pattern)) /\ IsPrefix(Front(pattern), host)
          ELSE host = pattern

(* A Host header is the host's labels, perhaps bracketed, perhaps with ":"  *)
(* and a port.                                                              *)
Before(s, mark) == SubSeq(s, 1, SelectInSeq(s, LAMBDA c : c = mark) - 1)
normalize_host(header) ==
    CASE Head(header) = "[" /\ Contains(header, "]") -> Tail(Before(header, "]"))
      [] /\ ~(Head(header) = "[" /\ Contains(header, "]"))
         /\ Contains(header, ":") -> Before(header, ":")
      [] OTHER -> header

match_request(router, req) ==
    LET host == MapSome(req.host, normalize_host)
        exact == IF host # None /\ host \in DOMAIN router.exact_hosts
                 THEN <<router.exact_hosts[host]>> ELSE <<>>
        wild == SelectSeq(router.wildcard_hosts,
                          LAMBDA v : HostFits(v.config.host, host))
        found == SelectSeq(MapSeq(exact \o wild,
                                  LAMBDA v : try_match(v, req, router)),
                           LAMBDA r : r # None)
    IN  IF found = <<>> THEN None ELSE Head(found)
==============================================================================
