---------------------------- MODULE ConfigureProofs ----------------------------
(***************************************************************************)
(* For every document, file, request and environment: a proxy runs what was *)
(* compiled, what a process bound when it started stays what its            *)
(* configuration says, and a request keeps the configuration it was pinned  *)
(* to.                                                                      *)
(***************************************************************************)
EXTENDS Configure, TLAPS

\* The provers get more time than by default: the contexts are large.
USE SMTT(15), ZenonT(30)

--------------------------------------------------------------------------
(* What the compiler makes.                                                 *)

\* A listener is its four fields, so the fingerprint of ensure_runtime_reload_safe
\* leaves nothing of it out.
Listeners(s) ==
    s = [i \in DOMAIN s |-> [name |-> s[i].name, address |-> s[i].address,
                             workers |-> s[i].workers, tls |-> s[i].tls]]

\* What `?` lets through has no error in it.
LEMMA TryPasses == ASSUME NEW r, Try(r) # Err PROVE Try(r) = r /\ \A f \in DOMAIN r : r[f] # Err
BY DEF Try

\* convert/server.rs: a compiled listener has the four fields and no other.
LEMMA ListenerMade ==
    ASSUME NEW l, ToListener(l) # Err
    PROVE  ToListener(l) = [name |-> ToListener(l).name, address |-> ToListener(l).address,
                            workers |-> ToListener(l).workers, tls |-> ToListener(l).tls]
<1> DEFINE r == [name |-> l.name, address |-> ParseSocketAddr(l.address),
                 workers |-> MapSome(l.workers, NonZero), tls |-> MapSome(l.tls, ToListenerTls)]
<1>1. ToListener(l) = r
    BY TryPasses DEF ToListener
<1> QED BY <1>1

\* build: a compiled configuration has the parts the document's become.
LEMMA Built ==
    ASSUME NEW doc, compile(doc) # Err
    PROVE  LET src == structural(doc)
               made == MapSeq(src.listeners, ToListener)
               c == compile(doc)
           IN  /\ c.listeners = Try(made) /\ Try(made) # Err
               /\ c.upstreams = upstreams_to_runtime(src.upstreams) /\ c.upstreams # Err
               /\ c.routes = routes_to_runtime(src.routes) /\ c.routes # Err
<1> DEFINE src == structural(doc)
           made == MapSeq(src.listeners, ToListener)
           r == [listeners |-> Try(made),
                 telemetry |-> telemetry_to_runtime(src.telemetry),
                 upstreams |-> upstreams_to_runtime(src.upstreams),
                 routes |-> routes_to_runtime(src.routes),
                 shutdown |-> shutdown_to_runtime(src.shutdown),
                 admin |-> admin_to_runtime(src.admin),
                 features |-> features_to_runtime(src.features),
                 required_capabilities |->
                     IF has_advanced_matchers(routes_to_runtime(src.routes))
                     THEN <<"advanced_matchers">> ELSE <<>>]
<1> HIDE DEF src
<1>1. build(src) # Err /\ compile(doc) = build(src)
    BY DEF compile, src
<1>2. build(src) = Try(r)
    BY <1>1 DEF build
<1> HIDE DEF r, made
<1>3. compile(doc) = r /\ \A f \in DOMAIN r : r[f] # Err
    BY <1>1, <1>2, TryPasses, ZenonT(30)
<1>4. /\ {"listeners", "upstreams", "routes"} \subseteq DOMAIN r
      /\ r.listeners = Try(made) /\ r.upstreams = upstreams_to_runtime(src.upstreams)
      /\ r.routes = routes_to_runtime(src.routes)
    BY DEF r
<1> QED BY <1>3, <1>4 DEF src, made

\* The listeners of a compiled configuration are such listeners.
LEMMA CompiledListeners ==
    ASSUME NEW doc, compile(doc) # Err
    PROVE  Listeners(compile(doc).listeners)
<1> DEFINE src == structural(doc)
           made == MapSeq(src.listeners, ToListener)
<1> HIDE DEF src
<1>1. compile(doc).listeners = Try(made) /\ Try(made) # Err
    BY Built DEF src
<1>2. Try(made) = made /\ \A i \in DOMAIN made : made[i] # Err
    BY <1>1, TryPasses
<1>3. DOMAIN made = DOMAIN src.listeners /\ \A i \in DOMAIN made : made[i] = ToListener(src.listeners[i])
    BY DEF MapSeq
<1>4. \A i \in DOMAIN made : made[i] = [name |-> made[i].name, address |-> made[i].address,
                                        workers |-> made[i].workers, tls |-> made[i].tls]
    BY <1>2, <1>3, ListenerMade, ZenonT(30)
<1>5. made = [i \in DOMAIN made |-> made[i]]
    BY DEF MapSeq
<1> HIDE DEF made
<1>6. Listeners(made)
    BY <1>4, <1>5, ZenonT(30) DEF Listeners
<1>7. compile(doc).listeners = made
    BY <1>1, <1>2, ZenonT(30)
<1> QED BY <1>6, <1>7, ZenonT(30)

--------------------------------------------------------------------------
(* The numbers of a configuration.                                          *)

\* What a pool, an upstream and a route count with is in the range of its type.
PoolFits(p) ==
    /\ p.idle \in IdleTimeout /\ p.connect \in ConnectTimeout /\ p.max \in NonZeroU32
    /\ p.queue_capacity \in U32 /\ p.queue_timeout_ms \in U32
    /\ p.tcp_keepalive \in Option(Duration)
UpstreamFits(u) ==
    /\ PoolFits(u.pool)
    /\ u.outlier_detection \in OutlierDetectionPolicy
    /\ u.circuit_breaker \in CircuitBreakerPolicy
    /\ \A i \in DOMAIN u.endpoints : u.endpoints[i].weight \in Weight
RouteFits(r) ==
    /\ r.timeout \in Timeout
    /\ r.action.kind = "forward" =>
          \A i \in DOMAIN r.action.destinations : r.action.destinations[i].weight \in Weight
Fits(c) ==
    /\ \A i \in DOMAIN c.upstreams : UpstreamFits(c.upstreams[i])
    /\ \A i \in DOMAIN c.routes : \A k \in DOMAIN c.routes[i].paths : RouteFits(c.routes[i].paths[k])

\* u32::try_from and NonZero::new: what they let through is in the range.
LEMMA Narrowed ==
    ASSUME NEW n
    PROVE  /\ NonZero(ToU32(n)) \in NonZeroU32 \cup {Err} /\ ToU32(n) \in U32 \cup {Err}
           /\ NonZero(ToU16(n)) \in NonZeroU16 \cup {Err} /\ 0 \in U32
BY WidthAssumption DEF WidthAssumption, NonZero, ToU32, ToU16, U32, U16, NonZeroU32, NonZeroU16

\* What the `?` of each conversion lets through.
LEMMA EndpointTry ==
    ASSUME NEW a, NEW w, NEW r, r # Err, r = Try([address |-> a, weight |-> w])
    PROVE  r.weight = w /\ w # Err
BY DEF Try

LEMMA DestinationTry ==
    ASSUME NEW u, NEW w, NEW r, r # Err, r = Try([upstream |-> u, weight |-> w])
    PROVE  r.weight = w /\ w # Err
BY DEF Try

LEMMA ForwardTry ==
    ASSUME NEW k, NEW d, NEW r, r # Err, r = Try([kind |-> k, destinations |-> d])
    PROVE  r.destinations = d /\ d # Err
BY DEF Try

\* convert/materialize.rs: a pool of any document.
LEMMA PoolMade == ASSUME NEW p, ToPool(p) # Err PROVE PoolFits(ToPool(p))
<1> DEFINE i == duration_to_policy(OrElse(p.idle, default_idle_timeout))
           c == duration_to_connect(OrElse(p.connect, default_connection_timeout))
           m == materialize_pool_max(p.max)
           q == materialize_queue_value(p.queue_capacity)
           t == materialize_queue_value(p.queue_timeout_ms)
           k == MapSome(p.tcp_keepalive, duration_to_tcp_keepalive)
           b == MapSome(p.recv_buffer_size, validate_recv_buffer_size)
           r == [idle |-> i, connect |-> c, max |-> m, queue_capacity |-> q, queue_timeout_ms |-> t,
                 tcp_keepalive |-> k, tcp_nodelay |-> p.tcp_nodelay, recv_buffer_size |-> b]
<1>1. \A v : /\ duration_to_policy(v) \in IdleTimeout \cup {Err}
            /\ duration_to_connect(v) \in ConnectTimeout \cup {Err}
    BY Narrowed, WidthAssumption DEF WidthAssumption, duration_to_policy, duration_to_connect,
       IdleTimeout, ConnectTimeout, Duration, Option, U32, NonZeroU32
<1>2. /\ \A v : MapSome(v, duration_to_tcp_keepalive) \in Option(Duration) \cup {Err}
      /\ \A v : materialize_pool_max(v) \in NonZeroU32 \cup {Err}
      /\ \A v : materialize_queue_value(v) \in U32 \cup {Err}
    BY Narrowed, PoolAssumption, ZenonT(30) DEF PoolAssumption, MapSome, Option, Duration,
       duration_to_tcp_keepalive, materialize_pool_max, materialize_queue_value
<1>3. ToPool(p) = Try(r)
    BY ZenonT(30) DEF ToPool
<1>4. /\ i \in IdleTimeout \cup {Err} /\ c \in ConnectTimeout \cup {Err} /\ m \in NonZeroU32 \cup {Err}
      /\ q \in U32 \cup {Err} /\ t \in U32 \cup {Err} /\ k \in Option(Duration) \cup {Err}
    BY <1>1, <1>2, ZenonT(30)
<1> HIDE DEF i, c, m, q, t, k, b, r
<1>5. ToPool(p) = r /\ \A f \in DOMAIN r : r[f] # Err
    BY <1>3, TryPasses, ZenonT(30)
<1>6. /\ r.idle = i /\ r.connect = c /\ r.max = m /\ r.tcp_keepalive = k
      /\ r.queue_capacity = q /\ r.queue_timeout_ms = t
      /\ {"idle", "connect", "max", "tcp_keepalive", "queue_capacity", "queue_timeout_ms"} \subseteq DOMAIN r
    BY DEF r
<1>7. Err \notin {i, c, m, q, t, k}
    BY <1>5, <1>6
<1> QED BY <1>4, <1>5, <1>6, <1>7, ZenonT(30) DEF PoolFits

\* emit.rs: the parts of an upstream of any document.
LEMMA PartsMade ==
    /\ \A o : ToOutlier(o) # Err => ToOutlier(o) \in OutlierDetectionPolicy
    /\ \A b : ToBreaker(b) # Err => ToBreaker(b) \in CircuitBreakerPolicy
    /\ \A e, d : ToEndpoint(e, d) # Err => ToEndpoint(e, d).weight \in Weight
    /\ \A d : ToDestination(d) # Err => ToDestination(d).weight \in Weight
<1>1. ASSUME NEW o, ToOutlier(o) # Err PROVE ToOutlier(o) \in OutlierDetectionPolicy
    BY <1>1, Narrowed DEF ToOutlier, Try, duration_to_required, Duration, OutlierDetectionPolicy, Option
<1>2. ASSUME NEW b, ToBreaker(b) # Err PROVE ToBreaker(b) \in CircuitBreakerPolicy
    BY <1>2, Narrowed DEF ToBreaker, Try, CircuitBreakerPolicy, Option
<1>3. ASSUME NEW e, NEW d, ToEndpoint(e, d) # Err PROVE ToEndpoint(e, d).weight \in Weight
    <2>1. LET w == NonZero(ToU16(OrElse(e.weight, 1))) IN ToEndpoint(e, d).weight = w /\ w # Err
        <3>1. PICK a : ToEndpoint(e, d) = Try([address |-> a, weight |-> NonZero(ToU16(OrElse(e.weight, 1)))])
            BY ZenonT(30) DEF ToEndpoint
        <3> QED BY <1>3, <3>1, EndpointTry, ZenonT(30)
    <2> QED BY <2>1, Narrowed, ZenonT(30) DEF Weight
<1>4. ASSUME NEW d, ToDestination(d) # Err PROVE ToDestination(d).weight \in Weight
    <2>1. LET w == NonZero(ToU16(d.weight)) IN ToDestination(d).weight = w /\ w # Err
        BY <1>4, DestinationTry DEF ToDestination
    <2> QED BY <2>1, Narrowed, ZenonT(30) DEF Weight
<1> QED BY <1>1, <1>2, <1>3, <1>4, ZenonT(30)

\* emit.rs: an upstream of any document.
LEMMA UpstreamMade == ASSUME NEW u, NEW n, ToUpstream(u, n) # Err PROVE UpstreamFits(ToUpstream(u, n))
<1> DEFINE d == OrElse(u.discovery, [kind |-> "static"])
           es == MapSeq(u.endpoints, LAMBDA e : ToEndpoint(e, d))
           i == NonZero(OrElse(u.id, n % (U16Max + 1)))
           b == OrElse(u.balancer, "random")
           p == OrElse(u.protocol, "h1")
           l == ToPool(OrElse(u.pool, default_pool_config))
           o == MapSome(u.outlier_detection, ToOutlier)
           c == MapSome(u.circuit_breaker, ToBreaker)
           h == MapSome(u.health_check, ToHealthCheck)
           t == MapSome(u.tls, ToTls)
           r == [id |-> i, name |-> u.name, discovery |-> d, balancer |-> b, protocol |-> p, pool |-> l,
                 outlier_detection |-> o, circuit_breaker |-> c, health_check |-> h, tls |-> t,
                 endpoints |-> Try(es)]
           x == ToUpstream(u, n)
<1>1. x = Try(r)
    BY ZenonT(30) DEF ToUpstream
<1>2. \A k \in DOMAIN es : es[k] = ToEndpoint(u.endpoints[k], d)
    BY DEF MapSeq
<1>3. l # Err => PoolFits(l)
    BY PoolMade, ZenonT(30)
<1>4. (o # Err => o \in OutlierDetectionPolicy) /\ (c # Err => c \in CircuitBreakerPolicy)
    BY PartsMade, ZenonT(30) DEF MapSome, OutlierDetectionPolicy, CircuitBreakerPolicy, Option
<1> HIDE DEF d, es, i, b, p, l, o, c, h, t, r, x
<1>5. x = r /\ \A f \in DOMAIN r : r[f] # Err
    BY <1>1, TryPasses, ZenonT(30) DEF x
<1>6. /\ x.pool = l /\ x.outlier_detection = o /\ x.circuit_breaker = c /\ x.endpoints = Try(es)
      /\ Err \notin {l, o, c, Try(es)}
    <2>1. /\ r.pool = l /\ r.outlier_detection = o /\ r.circuit_breaker = c /\ r.endpoints = Try(es)
          /\ {"pool", "outlier_detection", "circuit_breaker", "endpoints"} \subseteq DOMAIN r
        BY DEF r
    <2> QED BY <1>5, <2>1
<1>7. \A k \in DOMAIN x.endpoints : x.endpoints[k].weight \in Weight
    <2>1. x.endpoints = es /\ \A k \in DOMAIN es : es[k] # Err
        BY <1>6, TryPasses
    <2> QED BY <2>1, <1>2, PartsMade, ZenonT(30)
<1> QED BY <1>3, <1>4, <1>6, <1>7, ZenonT(30) DEF UpstreamFits, x

\* materialize.rs and emit.rs: what a route of any document takes over.
LEMMA RouteParts ==
    ASSUME NEW p, ToRoute(p) # Err
    PROVE  LET t == MapSome(p.timeout, duration_to_required)
               y == MapSome(p.retry, LAMBDA r : convert_retry_policy(r, t))
           IN  /\ ToRoute(p).timeout = t /\ ToRoute(p).retry = y /\ ToRoute(p).action = ToAction(p.action)
               /\ Err \notin {t, y, ToAction(p.action)}
<1> DEFINE m == OrElse(p.matcher, default_matcher)
           x == to_runtime_matcher(m)
           t == MapSome(p.timeout, duration_to_required)
           y == MapSome(p.retry, LAMBDA r : convert_retry_policy(r, t))
           q == to_runtime_headers(p.request_headers)
           s == to_runtime_headers(p.response_headers)
           w == ToRewrite(p.rewrite, m)
           a == ToAction(p.action)
           o == ToPrincipal(p.principal)
           r == [matcher |-> x, timeout |-> t, retry |-> y, request_headers |-> q,
                 response_headers |-> s, rewrite |-> w, action |-> a, principal |-> o]
<1>1. ToRoute(p) = Try(r)
    BY ZenonT(30) DEF ToRoute
<1> HIDE DEF x, t, y, q, s, w, a, o, r
<1>2. ToRoute(p) = r /\ \A f \in DOMAIN r : r[f] # Err
    BY <1>1, TryPasses, ZenonT(30)
<1>3. r.timeout = t /\ r.retry = y /\ r.action = a /\ {"timeout", "retry", "action"} \subseteq DOMAIN r
    BY DEF r
<1>4. Err \notin {t, y, a}
    BY <1>2, <1>3
<1> QED BY <1>2, <1>3, <1>4, ZenonT(30) DEF t, y, a

\* Its numbers are in their ranges.
LEMMA RouteMade == ASSUME NEW p, ToRoute(p) # Err PROVE RouteFits(ToRoute(p))
<1> DEFINE ds == MapSeq(p.action.destinations, ToDestination)
           x == ToRoute(p)
<1>1. /\ x.timeout = MapSome(p.timeout, duration_to_required) /\ x.action = ToAction(p.action)
      /\ Err \notin {x.timeout, x.action}
    BY RouteParts, ZenonT(30)
<1>2. x.timeout \in Timeout
    BY <1>1, Narrowed, ZenonT(30) DEF MapSome, duration_to_required, Timeout, Option, Duration
<1>3. \A i \in DOMAIN ds : ds[i] = ToDestination(p.action.destinations[i])
    BY DEF MapSeq
<1>4. x.action = (IF p.action.kind # "forward" THEN p.action ELSE Try([kind |-> "forward", destinations |-> Try(ds)]))
    BY <1>1, ZenonT(30) DEF ToAction
<1> HIDE DEF ds, x
<1>5. x.action.kind = "forward" => x.action.destinations = Try(ds) /\ Try(ds) # Err
    <2>1. CASE p.action.kind # "forward"
        BY <1>4, <2>1, ZenonT(30)
    <2>2. CASE x.action = Try([kind |-> "forward", destinations |-> Try(ds)])
        BY <1>1, <2>2, ForwardTry
    <2> QED BY <1>4, <2>1, <2>2, ZenonT(30)
<1>6. x.action.kind = "forward" =>
          \A i \in DOMAIN x.action.destinations : x.action.destinations[i].weight \in Weight
    <2> SUFFICES ASSUME x.action.kind = "forward"
                 PROVE  \A i \in DOMAIN x.action.destinations : x.action.destinations[i].weight \in Weight
        OBVIOUS
    <2>1. x.action.destinations = ds /\ \A i \in DOMAIN ds : ds[i] # Err
        BY <1>5, TryPasses, ZenonT(30)
    <2> QED BY <1>3, <2>1, PartsMade, ZenonT(30)
<1> QED BY <1>2, <1>6, ZenonT(30) DEF RouteFits, x

\* emit.rs: every route of a configuration is made from one of the document.
LEMMA RoutesMade ==
    ASSUME NEW doc, compile(doc) # Err
    PROVE  LET vs == structural(doc).routes
               c == compile(doc)
           IN  \A i \in DOMAIN c.routes : \A k \in DOMAIN c.routes[i].paths :
                   /\ i \in DOMAIN vs /\ k \in DOMAIN vs[i].paths
                   /\ c.routes[i].paths[k] = ToRoute(vs[i].paths[k]) /\ c.routes[i].paths[k] # Err
<1> DEFINE vs == structural(doc).routes
           c == compile(doc)
           Paths(v) == MapSeq(v.paths, ToRoute)
           Entry(v) == [host |-> v.host, paths |-> Try(Paths(v))]
           made == [i \in DOMAIN vs |-> Try(Entry(vs[i]))]
<1>1. c.routes = routes_to_runtime(vs) /\ c.routes # Err
    BY Built
<1> HIDE DEF vs, c
<1>2. c.routes = made /\ \A i \in DOMAIN made : made[i] # Err
    BY <1>1, TryPasses, ZenonT(30) DEF routes_to_runtime, MapSeq
<1>3. ASSUME NEW v, Try(Entry(v)) # Err
      PROVE  \A k \in DOMAIN Try(Entry(v)).paths :
                 /\ k \in DOMAIN v.paths /\ Try(Entry(v)).paths[k] = ToRoute(v.paths[k])
                 /\ Try(Entry(v)).paths[k] # Err
    <2>1. Try(Entry(v)) = Entry(v) /\ Try(Paths(v)) # Err
        BY <1>3, TryPasses
    <2>2. Entry(v).paths = Paths(v) /\ \A k \in DOMAIN Paths(v) : Paths(v)[k] # Err
        BY <2>1, TryPasses
    <2>3. DOMAIN Paths(v) = DOMAIN v.paths /\ \A k \in DOMAIN Paths(v) : Paths(v)[k] = ToRoute(v.paths[k])
        BY DEF MapSeq
    <2> HIDE DEF Paths, Entry
    <2> QED BY <2>1, <2>2, <2>3
<1> HIDE DEF Entry
<1>4. \A i \in DOMAIN c.routes : i \in DOMAIN vs /\ c.routes[i] = Try(Entry(vs[i])) /\ Try(Entry(vs[i])) # Err
    BY <1>2
<1> QED BY <1>3, <1>4, ZenonT(30) DEF vs, c

\* compile: whatever the document's numbers, those of the configuration fit.
LEMMA CompiledFits == ASSUME NEW doc, compile(doc) # Err PROVE Fits(compile(doc))
<1> DEFINE us == structural(doc).upstreams
           vs == structural(doc).routes
           c == compile(doc)
<1>1. /\ c.upstreams = upstreams_to_runtime(us) /\ c.upstreams # Err
      /\ c.routes = routes_to_runtime(vs) /\ c.routes # Err
    BY Built
<1>v. \A i \in DOMAIN c.routes : \A k \in DOMAIN c.routes[i].paths :
          c.routes[i].paths[k] = ToRoute(vs[i].paths[k]) /\ c.routes[i].paths[k] # Err
    BY RoutesMade, ZenonT(30)
<1> HIDE DEF us, vs, c
<1>2. \A i \in DOMAIN c.upstreams : UpstreamFits(c.upstreams[i])
    <2> DEFINE made == [i \in DOMAIN us |-> ToUpstream(us[i], i)]
    <2>1. c.upstreams = made /\ \A i \in DOMAIN made : made[i] # Err
        BY <1>1, TryPasses DEF upstreams_to_runtime
    <2> QED BY <2>1, UpstreamMade
<1>3. \A i \in DOMAIN c.routes : \A k \in DOMAIN c.routes[i].paths : RouteFits(c.routes[i].paths[k])
    BY <1>v, RouteMade, ZenonT(30)
<1> QED BY <1>2, <1>3, ZenonT(30) DEF Fits, c

--------------------------------------------------------------------------
(* The pauses between attempts.                                             *)

\* u64::saturating_mul grows with its factor.
LEMMA Saturates ==
    ASSUME NEW a \in Nat, NEW b \in Nat, NEW c \in Nat, b <= c
    PROVE  SaturatingMul(a, b) \in Nat /\ SaturatingMul(a, b) <= SaturatingMul(a, c)
<1> DEFINE q == U64Max \div a
<1>1. CASE a = 0
    BY <1>1, MillisAssumption DEF SaturatingMul, MillisAssumption
<1>2. CASE a > 0
    <2>1. q \in Nat /\ a * q <= U64Max /\ U64Max \in Nat
        BY <1>2, MillisAssumption DEF MillisAssumption
    <2>2. \A x \in Nat : SaturatingMul(a, x) = IF x <= q THEN a * x ELSE U64Max
        BY <1>2 DEF SaturatingMul
    <2> HIDE DEF q
    <2>3. \A x, y \in Nat : x <= y => a * x \in Nat /\ a * x <= a * y
        OBVIOUS
    <2>4. b <= q => a * b <= U64Max
        <3>1. b <= q => a * b <= a * q /\ a * b \in Nat /\ a * q \in Nat
            BY <2>1, <2>3
        <3> QED BY <2>1, <3>1
    <2> QED BY <2>1, <2>2, <2>3, <2>4
<1> QED BY <1>1, <1>2

\* The powers of two an exponential pause is multiplied with.
LEMMA Doubles == \A k \in 0..8 : 2^k \in Nat /\ (k > 0 => 2^(k - 1) <= 2^k)
<1> DEFINE P(k) == 2^k \in Nat /\ (k > 0 => 2^(k - 1) <= 2^k)
<1>1. /\ 2^0 = 1 /\ 2^1 = 2 /\ 2^2 = 4 /\ 2^3 = 8 /\ 2^4 = 16
      /\ 2^5 = 32 /\ 2^6 = 64 /\ 2^7 = 128 /\ 2^8 = 256
    OBVIOUS
<1>2. ASSUME NEW k \in 0..8
      PROVE  k = 0 \/ k = 1 \/ k = 2 \/ k = 3 \/ k = 4 \/ k = 5 \/ k = 6 \/ k = 7 \/ k = 8
    OBVIOUS
<1>3. P(0) /\ P(1) /\ P(2) /\ P(3) /\ P(4) /\ P(5) /\ P(6) /\ P(7) /\ P(8)
    BY <1>1
<1> HIDE DEF P
<1>4. \A k \in 0..8 : P(k)
    BY <1>2, <1>3
<1> QED BY <1>4, ZenonT(30) DEF P

\* calculate_backoff: a later pause is no shorter, and an exponential one bounded.
LEMMA PausesGrow ==
    ASSUME NEW b \in BackoffStrategy, NEW n \in 2..10
    PROVE  /\ calculate_backoff(b, n) \in Nat
           /\ calculate_backoff(b, n - 1) <= calculate_backoff(b, n)
           /\ b.kind = "exponential" => calculate_backoff(b, n) <= b.max_ms
<1>0. b.base_ms \in Nat /\ n - 1 \in Nat /\ n - 2 \in Nat /\ n \in Nat
    BY DEF BackoffStrategy
<1>1. CASE b.kind = "fixed"
    BY <1>0, <1>1 DEF calculate_backoff
<1>2. CASE b.kind = "linear"
    <2>1. /\ calculate_backoff(b, n) = SaturatingMul(b.base_ms, n - 1)
          /\ calculate_backoff(b, n - 1) = SaturatingMul(b.base_ms, n - 2)
        BY <1>0, <1>2 DEF calculate_backoff
    <2>2. n - 2 <= n - 1 /\ n - 1 <= n - 1
        BY <1>0
    <2>3. /\ SaturatingMul(b.base_ms, n - 1) \in Nat
          /\ SaturatingMul(b.base_ms, n - 2) <= SaturatingMul(b.base_ms, n - 1)
        BY <1>0, <2>2, Saturates, ZenonT(30)
    <2> QED BY <1>2, <2>1, <2>3
<1>3. CASE b.kind = "exponential"
    <2> DEFINE Raw(k) == SaturatingMul(b.base_ms, 2^k)
    <2>0. b.max_ms \in Nat
        BY <1>3 DEF BackoffStrategy
    <2>1. calculate_backoff(b, n) = Min2(Raw(n - 2), b.max_ms)
        BY <1>0, <1>3 DEF calculate_backoff
    <2>2. calculate_backoff(b, n - 1) = IF n = 2 THEN 0 ELSE Min2(Raw(n - 3), b.max_ms)
        BY <1>0, <1>3 DEF calculate_backoff
    <2>3. Raw(n - 2) \in Nat /\ (n # 2 => Raw(n - 3) \in Nat /\ Raw(n - 3) <= Raw(n - 2))
        <3>1. n - 2 \in 0..8 /\ (n # 2 => n - 3 \in 0..8 /\ n - 2 > 0 /\ (n - 2) - 1 = n - 3)
            OBVIOUS
        <3>2. 2^(n - 2) \in Nat /\ (n # 2 => 2^(n - 3) \in Nat /\ 2^(n - 3) <= 2^(n - 2))
            BY <3>1, Doubles, ZenonT(30)
        <3>3. 2^(n - 2) <= 2^(n - 2)
            BY <3>2
        <3> QED BY <1>0, <3>2, <3>3, Saturates, ZenonT(30)
    <2> HIDE DEF Raw
    <2>4. ASSUME NEW x \in Nat, NEW y \in Nat, NEW z \in Nat
          PROVE  Min2(y, z) \in Nat /\ Min2(y, z) <= z /\ 0 <= Min2(y, z) /\ (x <= y => Min2(x, z) <= Min2(y, z))
        BY DEF Min2
    <2> QED BY <2>0, <2>1, <2>2, <2>3, <2>4, ZenonT(30)
<1> QED BY <1>1, <1>2, <1>3 DEF BackoffStrategy

\* A request's time, paused away attempt by attempt.
LeftOver(f, b, d, m) ==
    f = [n \in 1..m |-> IF n = 1 THEN d ELSE f[n - 1] - apply_backoff(b, n, f[n - 1])]

\* There is such a function for as many attempts as a policy allows.
LEMMA LeftOverExists ==
    ASSUME NEW b, NEW d, NEW m \in 1..10
    PROVE  \E f : LeftOver(f, b, d, m)
<1> DEFINE Ex(k) == \E f : LeftOver(f, b, d, k)
<1>1. Ex(1)
    <2>1. LeftOver([n \in 1..1 |-> d], b, d, 1)
        BY DEF LeftOver
    <2> QED BY <2>1, ZenonT(30)
<1>2. ASSUME NEW k \in 1..9, Ex(k) PROVE Ex(k + 1)
    <2>1. PICK f : LeftOver(f, b, d, k)
        BY <1>2, ZenonT(30)
    <2> DEFINE g == [n \in 1..k + 1 |-> IF n = k + 1 THEN f[k] - apply_backoff(b, k + 1, f[k]) ELSE f[n]]
    <2>2. ASSUME NEW n \in 1..k + 1
          PROVE  g[n] = IF n = 1 THEN d ELSE g[n - 1] - apply_backoff(b, n, g[n - 1])
        <3>1. CASE n = k + 1
            <4>1. k + 1 \in 1..k + 1 /\ k \in 1..k + 1 /\ k # k + 1 /\ k + 1 # 1 /\ n - 1 = k
                BY <3>1
            <4>2. g[k + 1] = f[k] - apply_backoff(b, k + 1, f[k]) /\ g[k] = f[k]
                BY <4>1, ZenonT(30)
            <4> HIDE DEF g
            <4> QED BY <3>1, <4>1, <4>2, ZenonT(30)
        <3>2. CASE n # k + 1
            <4>1. n \in 1..k /\ (n # 1 => n - 1 \in 1..k + 1 /\ n - 1 # k + 1)
                BY <3>2
            <4>2. f[n] = IF n = 1 THEN d ELSE f[n - 1] - apply_backoff(b, n, f[n - 1])
                BY <2>1, <4>1, ZenonT(30) DEF LeftOver
            <4>3. g[n] = f[n] /\ (n # 1 => g[n - 1] = f[n - 1])
                BY <3>2, <4>1, ZenonT(30)
            <4> HIDE DEF g
            <4> QED BY <4>2, <4>3, ZenonT(30)
        <3> QED BY <3>1, <3>2
    <2>3. g = [n \in 1..k + 1 |-> g[n]]
        OBVIOUS
    <2> HIDE DEF g
    <2>4. LeftOver(g, b, d, k + 1)
        BY <2>2, <2>3, ZenonT(30) DEF LeftOver
    <2> QED BY <2>4, ZenonT(30)
<1> HIDE DEF Ex
<1>3. Ex(1) /\ Ex(2) /\ Ex(3) /\ Ex(4) /\ Ex(5) /\ Ex(6) /\ Ex(7) /\ Ex(8) /\ Ex(9) /\ Ex(10)
    BY <1>1, <1>2
<1>4. Ex(m)
    BY <1>3
<1> QED BY <1>4, ZenonT(30) DEF Ex

\* apply_backoff: the pauses of a request fit into its time.
LEMMA PausesFitIn ==
    ASSUME NEW b \in BackoffStrategy, NEW d \in Nat, NEW m \in 1..10, NEW f, LeftOver(f, b, d, m)
    PROVE  \A n \in 2..m : /\ f[n] = f[n - 1] - calculate_backoff(b, n) \/ f[n] = 0
                           /\ f[n] >= 0
<1> DEFINE Ok(k) == k <= m => f[k] \in Nat
<1>1. \A n \in 1..m : f[n] = IF n = 1 THEN d ELSE f[n - 1] - apply_backoff(b, n, f[n - 1])
    BY ZenonT(30) DEF LeftOver
<1>2. ASSUME NEW n \in 2..m, f[n - 1] \in Nat
      PROVE  f[n] \in Nat /\ (f[n] = f[n - 1] - calculate_backoff(b, n) \/ f[n] = 0)
    <2>1. calculate_backoff(b, n) \in Nat
        BY PausesGrow
    <2>2. f[n] = f[n - 1] - Min2(calculate_backoff(b, n), f[n - 1])
        BY <1>1 DEF apply_backoff
    <2>3. ASSUME NEW x \in Nat, NEW y \in Nat
          PROVE  y - Min2(x, y) \in Nat /\ (Min2(x, y) = x \/ y - Min2(x, y) = 0)
        BY DEF Min2
    <2> QED BY <1>2, <2>1, <2>2, <2>3, ZenonT(30)
<1>3. Ok(1)
    BY <1>1
<1>4. ASSUME NEW k \in 1..9, Ok(k) PROVE Ok(k + 1)
    <2>1. k + 1 <= m => k + 1 \in 2..m /\ k <= m /\ (k + 1) - 1 = k
        OBVIOUS
    <2> QED BY <1>2, <1>4, <2>1
<1> HIDE DEF Ok
<1>5. Ok(1) /\ Ok(2) /\ Ok(3) /\ Ok(4) /\ Ok(5) /\ Ok(6) /\ Ok(7) /\ Ok(8) /\ Ok(9) /\ Ok(10)
    BY <1>3, <1>4
<1>6. \A k \in 1..10 : Ok(k)
    BY <1>5
<1>7. \A n \in 2..m : f[n - 1] \in Nat
    <2>1. \A n \in 2..m : n - 1 \in 1..10 /\ n - 1 <= m
        OBVIOUS
    <2> QED BY <1>6, <2>1 DEF Ok
<1> QED BY <1>2, <1>7

\* A route's retry policy is within its limits.
RetryFits(r) == r.retry # None => r.retry.max_attempts \in 1..10 /\ r.retry.backoff \in BackoffStrategy

\* convert_retry_policy: it takes the policy over, or refuses it.
LEMMA RetryMade == ASSUME NEW p \in RouteDto, ToRoute(p) # Err PROVE RetryFits(ToRoute(p))
<1> DEFINE t == MapSome(p.timeout, duration_to_required)
           x == ToRoute(p)
<1>1. x.retry = (IF p.retry = None THEN None ELSE convert_retry_policy(p.retry, t)) /\ x.retry # Err
    BY RouteParts, ZenonT(30) DEF MapSome
<1>2. p.retry = None \/ p.retry \in RetryPolicyDto
    BY DEF RouteDto, Option
<1> HIDE DEF t, x
<1>3. ASSUME NEW y \in RetryPolicyDto, convert_retry_policy(y, t) # Err
      PROVE  LET z == convert_retry_policy(y, t)
             IN  z.max_attempts \in 1..10 /\ z.backoff \in BackoffStrategy
    <2> DEFINE z == [y EXCEPT !.per_try = convert_per_try(y.per_try, t)]
    <2>1. y.max_attempts \in 1..10 /\ convert_retry_policy(y, t) = Try(z) /\ Try(z) # Err
        BY <1>3, ZenonT(30) DEF convert_retry_policy
    <2>2. convert_retry_policy(y, t) = z
        BY <2>1, TryPasses
    <2>3. z.max_attempts = y.max_attempts /\ z.backoff = y.backoff
        BY DEF RetryPolicyDto
    <2>4. y.backoff \in BackoffStrategy
        BY DEF RetryPolicyDto, BackoffStrategyDTO, BackoffStrategy
    <2> HIDE DEF z
    <2> QED BY <2>1, <2>2, <2>3, <2>4
<1> QED BY <1>1, <1>2, <1>3, ZenonT(30) DEF RetryFits, x

\* compile: so are all those of a configuration.
LEMMA RetriesMade ==
    ASSUME NEW doc \in SerdeConfig, compile(doc) # Err
    PROVE  LET c == compile(doc)
           IN  \A i \in DOMAIN c.routes : \A k \in DOMAIN c.routes[i].paths : RetryFits(c.routes[i].paths[k])
<1> DEFINE vs == structural(doc).routes
<1>1. vs \in Seq(VirtualHostDto)
    <2>1. doc.routes = None \/ doc.routes \in Seq(VirtualHostDto)
        BY DEF SerdeConfig, Option
    <2>2. vs = OrElse(doc.routes, <<>>)
        BY ZenonT(30) DEF structural
    <2>3. <<>> \in Seq(VirtualHostDto)
        OBVIOUS
    <2> HIDE DEF vs
    <2> QED BY <2>1, <2>2, <2>3, ZenonT(30) DEF OrElse
<1> HIDE DEF vs
<1>2. \A i \in DOMAIN vs : \A k \in DOMAIN vs[i].paths : vs[i].paths[k] \in RouteDto
    <2>1. \A i \in DOMAIN vs : vs[i] \in VirtualHostDto
        BY <1>1
    <2>2. \A v \in VirtualHostDto : v.paths \in Seq(RouteDto)
        BY DEF VirtualHostDto
    <2>3. \A ps \in Seq(RouteDto) : \A k \in DOMAIN ps : ps[k] \in RouteDto
        OBVIOUS
    <2> QED BY <2>1, <2>2, <2>3, ZenonT(30)
<1> DEFINE c == compile(doc)
<1>3. \A i \in DOMAIN c.routes : \A k \in DOMAIN c.routes[i].paths :
          /\ i \in DOMAIN vs /\ k \in DOMAIN vs[i].paths
          /\ c.routes[i].paths[k] = ToRoute(vs[i].paths[k]) /\ c.routes[i].paths[k] # Err
    BY RoutesMade, ZenonT(30) DEF vs
<1> HIDE DEF c
<1>4. \A i \in DOMAIN c.routes : \A k \in DOMAIN c.routes[i].paths : RetryFits(c.routes[i].paths[k])
    <2> SUFFICES ASSUME NEW i \in DOMAIN c.routes, NEW k \in DOMAIN c.routes[i].paths
                 PROVE  RetryFits(c.routes[i].paths[k])
        OBVIOUS
    <2> DEFINE y == vs[i].paths[k]
    <2>1. c.routes[i].paths[k] = ToRoute(y) /\ ToRoute(y) # Err /\ y \in RouteDto
        BY <1>2, <1>3, ZenonT(30)
    <2> HIDE DEF y
    <2>2. RetryFits(ToRoute(y))
        BY <2>1, RetryMade, ZenonT(30)
    <2> QED BY <2>1, <2>2, ZenonT(30)
<1> QED BY <1>4, ZenonT(30) DEF c

\* The pauses BackoffGrows asks for, of any strategy, number of attempts and deadline.
LEMMA PausesAt ==
    ASSUME NEW b \in BackoffStrategy, NEW m \in 1..10, NEW d \in Nat
    PROVE  LET Pause(n) == calculate_backoff(b, n)
               left[n \in 1..m] == IF n = 1 THEN d ELSE left[n - 1] - apply_backoff(b, n, left[n - 1])
           IN  \A n \in 2..m :
                  /\ Pause(n - 1) <= Pause(n)
                  /\ b.kind = "exponential" => Pause(n) <= b.max_ms
                  /\ left[n] = left[n - 1] - Pause(n) \/ left[n] = 0
                  /\ left[n] >= 0
<1> DEFINE f == CHOOSE f : LeftOver(f, b, d, m)
<1>1. LeftOver(f, b, d, m)
    <2>1. \E g : LeftOver(g, b, d, m)
        BY LeftOverExists
    <2> QED BY <2>1, ZenonT(30)
<1>2. f = CHOOSE g : g = [n \in 1..m |-> IF n = 1 THEN d ELSE g[n - 1] - apply_backoff(b, n, g[n - 1])]
    BY DEF LeftOver
<1> HIDE DEF f
<1>3. \A n \in 2..m : /\ f[n] = f[n - 1] - calculate_backoff(b, n) \/ f[n] = 0
                      /\ f[n] >= 0
    BY <1>1, PausesFitIn, ZenonT(30)
<1>4. \A n \in 2..m : /\ calculate_backoff(b, n - 1) <= calculate_backoff(b, n)
                      /\ b.kind = "exponential" => calculate_backoff(b, n) <= b.max_ms
    <2>1. \A n \in 2..m : n \in 2..10
        OBVIOUS
    <2> QED BY <2>1, PausesGrow, ZenonT(30)
<1> QED BY <1>2, <1>3, <1>4, ZenonT(30)

\* Such a route has them.
LEMMA RoutePauses ==
    ASSUME NEW r, RouteFits(r), RetryFits(r), r.retry # None
    PROVE  LET retry == RetryContext(r.retry, request_timeout_ms(r.timeout))
               Pause(n) == calculate_backoff(r.retry.backoff, n)
               left[n \in 1 .. retry.max_attempts] ==
                   IF n = 1 THEN retry.global_deadline
                   ELSE left[n - 1] - apply_backoff(r.retry.backoff, n, left[n - 1])
           IN  \A n \in 2 .. retry.max_attempts :
                  /\ Pause(n - 1) <= Pause(n)
                  /\ r.retry.backoff.kind = "exponential" =>
                        Pause(n) <= r.retry.backoff.max_ms
                  /\ left[n] = left[n - 1] - Pause(n) \/ left[n] = 0
                  /\ left[n] >= 0
<1> DEFINE t == request_timeout_ms(r.timeout)
           retry == RetryContext(r.retry, t)
<1>1. t \in Nat
    <2>1. r.timeout = None \/ r.timeout \in Nat
        BY WidthAssumption DEF RouteFits, Timeout, Option, Duration, NonZeroU32, WidthAssumption
    <2> QED BY <2>1, SMTT(15) DEF request_timeout_ms, OrElse
<1> HIDE DEF t
<1>2. retry.max_attempts \in 1..10 /\ retry.global_deadline \in Nat /\ r.retry.backoff \in BackoffStrategy
    BY <1>1 DEF RetryContext, RetryFits
<1> QED BY <1>2, PausesAt, ZenonT(30) DEF t

--------------------------------------------------------------------------
(* The .pvs file.                                                           *)

\* read_verified_file: of a written file, or of one damaged on its way, nothing
\* is loaded but the configuration that was written.
LEMMA LoadExact ==
    ASSUME NEW c, NEW f, f = encode(c) \/ f \in Damaged(encode(c)), load(f) # Err
    PROVE  load(f) = c
<1> DEFINE a == Archive(c)
<1>1. read_verified_file(f) /\ f.payload.archive /\ load(f) = f.payload.config
    BY DEF load
<1>2. Garbage # a /\ a.config = c
    BY DEF Archive, Garbage
<1>3. CASE f = encode(c)
    BY <1>1, <1>2, <1>3 DEF encode
<1>4. CASE f \in Damaged(encode(c))
    <2>1. f.payload = a \/ f.checksum # compute_checksum(a) \/ compute_checksum(f.payload) # f.checksum
        BY DEF compute_checksum
    <2>2. compute_checksum(f.payload) = f.checksum
        BY <1>1 DEF read_verified_file
    <2>3. CASE f.checksum # compute_checksum(a)
        <3> DEFINE e == encode(c)
        <3>1. /\ DOMAIN e = {"len", "magic", "version", "algorithm", "checksum", "reserved", "payload"}
              /\ e.checksum = compute_checksum(a) /\ e.payload = a
            BY DEF encode
        <3> HIDE DEF e, a
        <3>2. \/ f = [e EXCEPT !.checksum = compute_checksum(Garbage)]
              \/ f = [e EXCEPT !.payload = Garbage, !.checksum = compute_checksum(Garbage)]
            BY <1>4, <2>3, <3>1, ZenonT(30) DEF Damaged, e
        <3>3. (f.payload = a /\ f.checksum = compute_checksum(Garbage)) \/ f.payload = Garbage
            BY <3>1, <3>2, ZenonT(30)
        <3>4. CASE f.payload = a /\ f.checksum = compute_checksum(Garbage)
            BY <1>2, <2>2, <3>4 DEF compute_checksum
        <3>5. CASE f.payload = Garbage
            BY <1>1, <3>5 DEF Garbage
        <3> QED BY <3>3, <3>4, <3>5
    <2> QED BY <1>1, <1>2, <2>1, <2>2, <2>3
<1> QED BY <1>3, <1>4

--------------------------------------------------------------------------
(* What is fixed at boot.                                                   *)

\* The parts of a configuration a reload may not change.
Fixed(c, d) ==
    /\ c.listeners = d.listeners /\ c.admin = d.admin /\ c.shutdown = d.shutdown
    /\ c.telemetry.metrics = d.telemetry.metrics
    /\ c.telemetry.access_log = d.telemetry.access_log

\* BootstrapPlan::build reads no other part.
LEMMA PlanFixed ==
    ASSUME NEW c, NEW d, NEW dns, Fixed(c, d)
    PROVE  BootstrapPlan(c, dns) = BootstrapPlan(d, dns)
<1>1. build_server_conf(c) = build_server_conf(d)
    BY DEF Fixed, build_server_conf, max_listener_threads
<1>2. collect_ports(c) = collect_ports(d)
    BY DEF Fixed, collect_ports
<1>3. MapSeq(c.listeners, TlsSettings) = MapSeq(d.listeners, TlsSettings)
    BY DEF Fixed, MapSeq
<1>4. c.listeners = d.listeners
    BY DEF Fixed
<1> QED BY <1>1, <1>2, <1>3, <1>4 DEF BootstrapPlan

\* ensure_runtime_reload_safe: the fingerprint of the listeners is all of them.
LEMMA SafeIsFixed ==
    ASSUME NEW c, NEW d, Listeners(c.listeners), Listeners(d.listeners),
           ensure_runtime_reload_safe(c, d)
    PROVE  Fixed(d, c)
<1> DEFINE s == c.listeners
           t == d.listeners
           Fingerprint(x) ==
               [i \in DOMAIN x |-> <<x[i].name, x[i].address, x[i].workers, x[i].tls>>]
<1>1. Fingerprint(s) = Fingerprint(t)
    BY DEF ensure_runtime_reload_safe, listener_fingerprint, MapSeq
<1>2. DOMAIN s = DOMAIN t
    BY <1>1
<1>3. ASSUME NEW i \in DOMAIN s
      PROVE  /\ s[i].name = t[i].name /\ s[i].address = t[i].address
             /\ s[i].workers = t[i].workers /\ s[i].tls = t[i].tls
    <2>1. Fingerprint(s)[i] = Fingerprint(t)[i]
        BY <1>1, ZenonT(30)
    <2>2. <<s[i].name, s[i].address, s[i].workers, s[i].tls>> = <<t[i].name, t[i].address, t[i].workers, t[i].tls>>
        BY <1>2, <2>1
    <2> QED BY <2>2
<1>4. s = t
    <2> HIDE DEF Fingerprint, s, t
    <2>1. Listeners(s) /\ Listeners(t)
        BY ZenonT(30) DEF s, t
    <2>2. \A i \in DOMAIN s : s[i] = [name |-> s[i].name, address |-> s[i].address,
                                      workers |-> s[i].workers, tls |-> s[i].tls]
        BY <2>1 DEF Listeners
    <2>3. \A i \in DOMAIN t : t[i] = [name |-> t[i].name, address |-> t[i].address,
                                      workers |-> t[i].workers, tls |-> t[i].tls]
        BY <2>1 DEF Listeners
    <2>4. s = [i \in DOMAIN s |-> s[i]] /\ t = [i \in DOMAIN t |-> t[i]]
        BY <2>1 DEF Listeners
    <2>5. ASSUME NEW i \in DOMAIN s PROVE s[i] = t[i]
        BY <1>2, <1>3, <2>2, <2>3, ZenonT(30)
    <2> QED BY <1>2, <2>4, <2>5, ZenonT(30)
<1> QED BY <1>4 DEF ensure_runtime_reload_safe, Fixed

--------------------------------------------------------------------------
(* The invariant.                                                           *)

\* A configuration that was compiled from an artifact the codec had checked.
Made(c) == c # Err /\ \E a \in Artifacts : check(a) /\ c = compile(a.doc)

\* So are the listeners of a configuration that was compiled once.
LEMMA MadeListeners == ASSUME NEW c, Made(c) PROVE Listeners(c.listeners)
BY CompiledListeners DEF Made

\* So are its routes.
LEMMA MadeRetries ==
    ASSUME NEW c, Made(c)
    PROVE  \A i \in DOMAIN c.routes : \A k \in DOMAIN c.routes[i].paths :
               RouteFits(c.routes[i].paths[k]) /\ RetryFits(c.routes[i].paths[k])
<1>1. PICK a \in Artifacts : check(a) /\ compile(a.doc) # Err /\ c = compile(a.doc)
    BY ZenonT(30) DEF Made
<1>2. a.doc \in SerdeConfig
    BY <1>1, ArtifactAssumption DEF ArtifactAssumption, check
<1> QED BY <1>1, <1>2, CompiledFits, RetriesMade, ZenonT(30) DEF Fits

\* A RuntimeState.
State(r) == r = [config |-> r.config, router |-> r.router, clusters |-> r.clusters]

\* On its way to the proxy a configuration stays what was compiled and validated.
Delivered ==
    /\ artifact \in Artifacts
    /\ stage = "checked" => check(artifact)
    /\ stage \in {"compiled", "validated", "written", "loaded"} => Made(config)
    /\ stage \in {"validated", "written", "loaded"} => validate_runtime(config)
    /\ stage = "written" => file = encode(config) \/ file \in Damaged(encode(config))
    /\ stage = "loaded" => loaded = config

\* The proxy has started.
Live == running # None \/ req # None \/ stage = "serving"

\* The running one was delivered, and agrees with what was bound at boot.
Serving ==
    Live =>
        /\ State(running)
        /\ Made(running.config) /\ validate_runtime(running.config)
        /\ Fixed(running.config, boot)
        /\ \E dns \in DnsSettings : server = BootstrapPlan(running.config, dns)

\* A request has a context, without a configuration and an upstream, or with one.
Fields == {"runtime_state", "upstream_name", "client_identity", "rbac_denied"}
Pins ==
    req # None =>
        /\ Fields \subseteq DOMAIN ctx
        /\ \/ ctx.runtime_state = None /\ ctx.upstream_name = None
           \/ State(ctx.runtime_state)

\* The principal of the route fits the identity the request has shown.
Allowed == is_authorized(route.principal, extract_spiffe_id(req.uris))

\* What was decided on a request: it has an upstream only if it is allowed to,
\* and is denied with an answer if it is not.
Judged ==
    req # None =>
        /\ None \notin Identities(req.uris)
        /\ ctx.client_identity = extract_spiffe_id(req.uris)
        /\ ctx.upstream_name # None => Allowed /\ route.action.kind = "forward"
        /\ IF route # None /\ ~Allowed THEN ctx.rbac_denied = TRUE /\ answer.status = 403
           ELSE ctx.rbac_denied = FALSE

\* What follows comes after it, and is logged as it was.
Traces ==
    /\ req = None => route = None /\ peer = None /\ answer = None
    /\ sent # None => peer # None
    /\ peer # None => ctx.upstream_name # None
    /\ entry # None =>
          /\ answer # None /\ entry.status = answer.status
          /\ entry.rbac_denied = ctx.rbac_denied /\ entry.upstream = Label(ctx.upstream_name)

\* RuntimeState::new keeps the configuration it is made of.
LEMMA StateMade ==
    ASSUME NEW c, RuntimeState(c) # Err
    PROVE  State(RuntimeState(c)) /\ RuntimeState(c).config = c
<1> DEFINE limits == c.features.regex_limits
           r == [config |-> c, router |-> with_regex(c.routes, validate_and_compile_regexes(c, limits), limits),
                 clusters |-> Manager(c.upstreams)]
<1>1. RuntimeState(c) = r
    BY TryPasses DEF RuntimeState
<1> QED BY <1>1 DEF State

\* The round-robin counter is not part of it.
LEMMA AdvancedKeeps ==
    ASSUME NEW r, NEW n, State(r)
    PROVE  State(Advanced(r, n)) /\ Advanced(r, n).config = r.config
<1>1. DOMAIN r = {"config", "router", "clusters"}
    BY DEF State
<1>2. Advanced(r, n) = r \/ \E x : Advanced(r, n) = [r EXCEPT !.clusters = x]
    BY ZenonT(30) DEF Advanced
<1>3. ASSUME NEW x PROVE State([r EXCEPT !.clusters = x]) /\ [r EXCEPT !.clusters = x].config = r.config
    BY <1>1 DEF State
<1> QED BY <1>2, <1>3, ZenonT(30)

--------------------------------------------------------------------------
(* It is inductive.                                                         *)

\* The steps of the pipeline, up to a file the proxy has read.
LEMMA DeliveryStep ==
    ASSUME Delivered, Serving,
           Check \/ Compile \/ Validated \/ Write \/ Damage \/ Load \/ Author
    PROVE  Delivered' /\ UNCHANGED <<process, exchange>> /\ (stage' = "serving" => Live)
<1>1. UNCHANGED <<process, exchange>>
    BY DEF Check, Compile, Validated, Write, Damage, Load, Author
<1>2. stage' = "serving" => Live
    BY DEF Check, Compile, Validated, Write, Damage, Load, Author, Refused, Live
<1> SUFFICES Delivered'
    BY <1>1, <1>2
<1>3. CASE Check
    BY <1>3 DEF Check, Delivered, Refused
<1>4. CASE Compile
    <2>1. CASE compile(artifact.doc) = Err
        BY <1>4, <2>1 DEF Compile, Delivered, Refused
    <2>2. CASE compile(artifact.doc) # Err
        <3>1. stage' = "compiled" /\ config' = compile(artifact.doc)
            BY <1>4, <2>2 DEF Compile
        <3>2. artifact \in Artifacts /\ check(artifact)
            BY <1>4 DEF Delivered, Compile
        <3>3. Made(config')
            BY <2>2, <3>1, <3>2, ZenonT(30) DEF Made
        <3>4. artifact' = artifact
            BY <1>4 DEF Compile
        <3> QED BY <3>1, <3>2, <3>3, <3>4 DEF Delivered
    <2> QED BY <2>1, <2>2
<1>5. CASE Validated
    BY <1>5 DEF Validated, Delivered, Refused
<1>6. CASE Write
    BY <1>6 DEF Write, Delivered
<1>7. CASE Damage
    BY <1>7 DEF Damage, Delivered
<1>8. CASE Load
    <2>1. stage = "written" /\ UNCHANGED <<artifact, config, file>>
        BY <1>8 DEF Load
    <2>2. CASE load(file) = Err
        BY <1>8, <2>1, <2>2 DEF Load, Delivered, Refused
    <2>3. CASE load(file) # Err
        <3>1. stage' = "loaded" /\ loaded' = load(file)
            BY <1>8, <2>3 DEF Load
        <3>2. load(file) = config
            BY <2>1, <2>3, LoadExact DEF Delivered
        <3> QED BY <1>1, <2>1, <3>1, <3>2 DEF Delivered
    <2> QED BY <2>2, <2>3
<1>9. CASE Author
    <2>1. artifact' \in Artifacts
        BY <1>9, ArtifactAssumption, ZenonT(30) DEF ArtifactAssumption, Author, Delivered
    <2> QED BY <1>9, <2>1 DEF Author, Delivered
<1> QED BY <1>3, <1>4, <1>5, <1>6, <1>7, <1>8, <1>9, ZenonT(30)

\* A process starts with what was loaded.
LEMMA BootStep ==
    ASSUME Delivered, Serving, Boot
    PROVE  Delivered' /\ Serving'
<1>1. stage = "loaded" /\ running = None /\ UNCHANGED <<artifact, config, file, loaded, exchange>>
    BY DEF Boot
<1>2. PICK dns \in DnsSettings :
        LET state == RuntimeState(loaded)
            plan == BootstrapPlan(loaded, dns)
        IN  IF ~validate_runtime_env(loaded, None) \/ Err \in {state, plan}
            THEN stage' = "refused" /\ UNCHANGED process
            ELSE Install(state) /\ boot' = loaded /\ server' = plan
    BY DEF Boot
<1>3. CASE stage' = "refused" /\ UNCHANGED process
    BY <1>1, <1>3, ZenonT(30) DEF process, exchange, Delivered, Serving, Live
<1>4. CASE /\ RuntimeState(loaded) # Err /\ Install(RuntimeState(loaded))
           /\ boot' = loaded /\ server' = BootstrapPlan(loaded, dns)
    <2>1. stage' = "serving" /\ running' = RuntimeState(loaded)
        BY <1>4 DEF Install
    <2>2. State(running') /\ running'.config = loaded
        BY <1>4, <2>1, StateMade
    <2>3. Made(loaded) /\ validate_runtime(loaded)
        BY <1>1 DEF Delivered
    <2>4. Delivered'
        BY <1>1, <2>1, ZenonT(30) DEF Delivered
    <2>5. Serving'
        <3>1. Fixed(running'.config, boot')
            BY <1>4, <2>2 DEF Fixed
        <3>2. server' = BootstrapPlan(running'.config, dns)
            BY <1>4, <2>2
        <3> QED BY <2>2, <2>3, <3>1, <3>2 DEF Serving
    <2> QED BY <2>4, <2>5
<1> QED BY <1>2, <1>3, <1>4

\* A reload replaces the state, and leaves what was bound.
LEMMA ReloadStep ==
    ASSUME Delivered, Serving, Reload
    PROVE  Delivered' /\ Serving'
<1>1. stage = "loaded" /\ running # None /\ UNCHANGED <<artifact, config, file, loaded, exchange>>
    BY DEF Reload
<1>2. CASE stage' = "serving" /\ UNCHANGED process
    BY <1>1, <1>2, ZenonT(30) DEF process, exchange, Delivered, Serving, Live
<1>3. CASE /\ RuntimeState(loaded) # Err /\ Install(RuntimeState(loaded)) /\ UNCHANGED <<boot, server>>
           /\ ensure_runtime_reload_safe(running.config, loaded)
    <2>1. stage' = "serving" /\ running' = RuntimeState(loaded)
        BY <1>3 DEF Install
    <2>2. State(running') /\ running'.config = loaded
        BY <1>3, <2>1, StateMade
    <2>3. Made(loaded) /\ validate_runtime(loaded)
        BY <1>1 DEF Delivered
    <2>4. Fixed(loaded, running.config)
        BY <1>1, <1>3, <2>3, MadeListeners, SafeIsFixed, ZenonT(30) DEF Serving, Live
    <2>5. Fixed(loaded, boot)
        BY <1>1, <2>4 DEF Serving, Live, Fixed
    <2>6. PICK dns \in DnsSettings : server = BootstrapPlan(running.config, dns)
        BY <1>1 DEF Serving, Live
    <2>7. server' = BootstrapPlan(running'.config, dns)
        BY <1>3, <2>2, <2>4, <2>6, PlanFixed
    <2>8. Delivered'
        BY <1>1, <2>1, ZenonT(30) DEF Delivered
    <2>9. Serving'
        BY <1>3, <2>2, <2>3, <2>5, <2>7 DEF Serving
    <2> QED BY <2>8, <2>9
<1> QED BY <1>2, <1>3 DEF Reload

\* A request arrives.
LEMMA ArriveStep ==
    ASSUME Delivered, Serving, Traces, NEW q \in Request, Arrive(q)
    PROVE  Delivered' /\ Serving' /\ Pins' /\ Judged' /\ Traces'
<1>1. /\ UNCHANGED <<pipeline, process, route, peer, sent, answer, entry>>
      /\ stage = "serving" /\ req = None
    BY DEF Arrive
<1>2. Delivered' /\ Serving'
    BY <1>1, ZenonT(30) DEF Delivered, Serving, Live, pipeline, process
<1>3. PICK id, uris : /\ req' = [q EXCEPT !.uris = uris] /\ uris \in {q.uris, <<>>}
                      /\ ctx' = [RouterContext(id) EXCEPT !.client_identity = extract_spiffe_id(uris)]
    BY ZenonT(30) DEF Arrive
<1>4. /\ Fields \subseteq DOMAIN ctx'
      /\ ctx'.runtime_state = None /\ ctx'.upstream_name = None
      /\ ctx'.client_identity = extract_spiffe_id(uris) /\ ctx'.rbac_denied = FALSE
    BY <1>3, ZenonT(30) DEF RouterContext, Fields
<1>5. req'.uris = uris /\ None \notin Identities(uris)
    <2>1. "uris" \in DOMAIN q /\ None \notin Identities(q.uris)
        BY ConfigureAssumption, ZenonT(30) DEF ConfigureAssumption
    <2>2. None \notin Identities(<<>>)
        BY DEF Identities
    <2>3. None \notin Identities(uris)
        BY <1>3, <2>1, <2>2, ZenonT(30)
    <2> QED BY <1>3, <2>1, <2>3, ZenonT(30)
<1>6. route' = None /\ peer' = None /\ sent' = None /\ entry' = None
    BY <1>1 DEF Traces
<1>7. Judged'
    BY <1>4, <1>5, <1>6 DEF Judged
<1> QED BY <1>1, <1>2, <1>4, <1>6, <1>7 DEF Pins, Traces

\* request_filter: the running state is pinned, and the request is judged.
LEMMA FilterStep ==
    ASSUME Delivered, Serving, Pins, Judged, Traces, RequestFilter
    PROVE  /\ Delivered' /\ Serving' /\ Pins' /\ Judged' /\ Traces'
           /\ ctx.runtime_state = None
<1>1. UNCHANGED <<pipeline, process, req, peer, sent, entry>> /\ req # None /\ Fresh
    BY ZenonT(30) DEF RequestFilter
<1>2. Delivered' /\ Serving'
    BY <1>1, ZenonT(30) DEF Delivered, Serving, Live, pipeline, process
<1>3. Fields \subseteq DOMAIN ctx /\ State(running)
    BY <1>1, ZenonT(30) DEF Pins, Serving, Live
<1> DEFINE Kept(c) == /\ DOMAIN c = DOMAIN ctx /\ c.runtime_state = running
                      /\ c.client_identity = ctx.client_identity
                      /\ c.upstream_name = None /\ c.rbac_denied = FALSE
           Passes == is_authorized(route'.principal, ctx.client_identity)
<1>4. Kept(Pinned)
    BY <1>1, <1>3 DEF Pinned, attach_runtime, Fresh, Fields
<1>5. ASSUME NEW r PROVE Kept(Matched(r))
    BY <1>3, <1>4 DEF Matched, apply_route_headers, record_route, Fields
<1>6. ASSUME NEW r PROVE Kept(Planned(r))
    BY <1>3, <1>5, ZenonT(30) DEF Planned, set_rewritten, Fields
<1> HIDE DEF Kept
<1>7. \/ route' = None /\ Kept(ctx')
      \/ route' # None /\ Passes /\ Kept(ctx')
      \/ \E c : route' # None /\ ~Passes /\ Kept(c) /\ ctx' = mark_rbac_denied(c) /\ Respond(403, <<>>)
      \/ \E c, n : /\ route' # None /\ Passes /\ Kept(c) /\ ctx' = set_upstream(c, n)
                  /\ route'.action.kind = "forward"
    <2> DEFINE r == match_request(running.router, req)
    <2>1. route' = r
        BY ZenonT(30) DEF RequestFilter
    <2> HIDE DEF r
    <2>2. \/ r = None /\ ctx' = Pinned
          \/ /\ r # None /\ ~is_authorized(r.principal, ctx.client_identity)
             /\ Respond(403, <<>>) /\ ctx' = mark_rbac_denied(Matched(r))
          \/ /\ r # None /\ is_authorized(r.principal, ctx.client_identity)
             /\ \/ ctx' = Planned(r)
                \/ r.action.kind = "forward" /\ \E n : ctx' = set_upstream(Planned(r), n)
        BY ZenonT(30) DEF RequestFilter, r
    <2> QED BY <1>4, <1>5, <1>6, <2>1, <2>2, ZenonT(30)
<1>8. /\ DOMAIN ctx' = DOMAIN ctx /\ ctx'.runtime_state = running
      /\ ctx'.client_identity = ctx.client_identity
      /\ ctx'.upstream_name # None => Passes /\ route'.action.kind = "forward"
      /\ IF route' # None /\ ~Passes THEN ctx'.rbac_denied = TRUE /\ answer'.status = 403
         ELSE ctx'.rbac_denied = FALSE
    <2>1. CASE Kept(ctx') /\ (route' = None \/ Passes)
        BY <2>1 DEF Kept
    <2>2. ASSUME NEW c, route' # None, ~Passes, Kept(c), ctx' = mark_rbac_denied(c), Respond(403, <<>>)
          PROVE  /\ DOMAIN ctx' = DOMAIN ctx /\ ctx'.runtime_state = running
                 /\ ctx'.client_identity = ctx.client_identity
                 /\ ctx'.upstream_name = None /\ ctx'.rbac_denied = TRUE /\ answer'.status = 403
        BY <1>3, <2>2 DEF mark_rbac_denied, Respond, Fields, Kept
    <2>3. ASSUME NEW c, NEW n, Passes, Kept(c), ctx' = set_upstream(c, n)
          PROVE  /\ DOMAIN ctx' = DOMAIN ctx /\ ctx'.runtime_state = running
                 /\ ctx'.client_identity = ctx.client_identity /\ ctx'.rbac_denied = FALSE
        BY <1>3, <2>3 DEF set_upstream, Fields, Kept
    <2> QED BY <1>7, <2>1, <2>2, <2>3, ZenonT(30)
<1>9. Pins'
    BY <1>1, <1>3, <1>8 DEF Pins
<1>10. Judged'
    BY <1>1, <1>8, ZenonT(30) DEF Judged, Allowed
<1>11. Traces'
    BY <1>1 DEF Traces, Fresh
<1> QED BY <1>1, <1>2, <1>9, <1>10, <1>11, ZenonT(30) DEF Fresh

\* upstream_peer: the pinned state goes on, its counter advanced.
LEMMA PeerStep ==
    ASSUME Delivered, Serving, Pins, Judged, Traces, UpstreamPeer
    PROVE  /\ Delivered' /\ Serving' /\ Pins' /\ Judged' /\ Traces'
           /\ ctx'.runtime_state.config = ctx.runtime_state.config
<1> DEFINE state == ctx.runtime_state
           n == ctx.upstream_name
<1>1. /\ UNCHANGED <<pipeline, boot, server, req, route, sent, entry>>
      /\ req # None /\ n # None /\ peer = None /\ answer = None
    BY DEF UpstreamPeer, ForwardBy
<1>2. Fields \subseteq DOMAIN ctx /\ State(state) /\ State(running)
    BY <1>1 DEF Pins, Serving, Live
<1>3. \/ UNCHANGED <<ctx, running>>
      \/ /\ running' = IF running = state THEN Advanced(state, n) ELSE running
         /\ \E a : LET chosen == [set_endpoint(ctx, a) EXCEPT !.runtime_state = Advanced(state, n)]
                   IN  ctx' = chosen \/ ctx' = start_upstream(chosen)
    BY DEF UpstreamPeer, ForwardBy
<1>4. State(Advanced(state, n)) /\ Advanced(state, n).config = state.config
    BY <1>2, AdvancedKeeps, ZenonT(30)
<1>5. \/ UNCHANGED ctx
      \/ /\ DOMAIN ctx' = DOMAIN ctx /\ ctx'.runtime_state = Advanced(state, n)
         /\ ctx'.upstream_name = n /\ ctx'.client_identity = ctx.client_identity
         /\ ctx'.rbac_denied = ctx.rbac_denied
    BY <1>2, <1>3, ZenonT(30) DEF set_endpoint, start_upstream, Fields
<1>6. State(running') /\ running'.config = running.config
    BY <1>2, <1>3, <1>4
<1>7. Delivered'
    BY <1>1 DEF Delivered, pipeline
<1>8. ctx'.runtime_state.config = ctx.runtime_state.config
    BY <1>4, <1>5
<1>9. Pins'
    BY <1>1, <1>2, <1>4, <1>5, ZenonT(30) DEF Pins
<1>10. Serving'
    BY <1>1, <1>6, ZenonT(30) DEF Serving, Live
<1>11. Judged'
    BY <1>1, <1>5, ZenonT(30) DEF Judged, Allowed
<1>12. Traces'
    BY <1>1, <1>5 DEF Traces
<1> QED BY <1>7, <1>8, <1>9, <1>10, <1>11, <1>12

IInv == Delivered /\ Serving /\ Pins /\ Judged /\ Traces

\* It holds before a process has started.
LEMMA InitIInv == Init => IInv
<1> SUFFICES ASSUME Init PROVE IInv
    OBVIOUS
<1>1. Delivered
    BY DEF Init, Delivered, Artifacts
<1>2. Serving
    BY DEF Init, Serving, Live
<1>3. Pins /\ Judged /\ Traces
    BY DEF Init, Pins, Judged, Traces
<1> QED BY <1>1, <1>2, <1>3, ZenonT(30) DEF IInv

\* The other callbacks, and the end of a request.
LEMMA OtherStep ==
    ASSUME IInv, UpstreamRequestFilter \/ UpstreamResponseFilter \/ Logging \/ Done \/ UNCHANGED vars
    PROVE  IInv' /\ (req' # None => UNCHANGED <<req, ctx>>)
<1>1. /\ UNCHANGED <<pipeline, process>>
      /\ \/ req' = None
         \/ UNCHANGED <<req, ctx, route, peer>> /\ (ctx.rbac_denied = FALSE \/ UNCHANGED answer)
      /\ Traces'
    <2>0. Traces /\ (peer # None => ctx.rbac_denied = FALSE)
        BY ZenonT(30) DEF IInv, Traces, Judged
    <2>1. CASE UpstreamRequestFilter
        <3>1. UNCHANGED <<pipeline, process, req, ctx, route, peer, answer, entry>> /\ peer # None
            BY <2>1, ZenonT(30) DEF UpstreamRequestFilter
        <3> QED BY <2>0, <3>1 DEF Traces
    <2>2. CASE UpstreamResponseFilter
        <3>1. /\ UNCHANGED <<pipeline, process, req, ctx, route, peer, sent, entry>>
              /\ sent # None /\ answer = None
            BY <2>2, ZenonT(30) DEF UpstreamResponseFilter
        <3>2. ctx.rbac_denied = FALSE /\ entry = None /\ req # None
            BY <2>0, <3>1, ZenonT(30) DEF Traces
        <3> QED BY <2>0, <3>1, <3>2 DEF Traces
    <2>3. CASE Logging
        BY <2>3, ZenonT(30) DEF Logging, LogEntry, IInv, Traces
    <2>4. CASE Done
        BY <2>4 DEF Done, Traces
    <2>5. CASE UNCHANGED vars
        BY <2>5 DEF vars, exchange, IInv, Traces
    <2> QED BY <2>1, <2>2, <2>3, <2>4, <2>5, ZenonT(30)
<1>2. Delivered'
    BY <1>1 DEF IInv, Delivered, pipeline
<1>3. Serving'
    BY <1>1, ZenonT(30) DEF IInv, Serving, Live, pipeline, process
<1>4. Pins' /\ Judged'
    <2>1. Pins'
        BY <1>1 DEF IInv, Pins
    <2>2. Judged'
        BY <1>1 DEF IInv, Judged, Allowed
    <2> QED BY <2>1, <2>2
<1> QED BY <1>1, <1>2, <1>3, <1>4, ZenonT(30) DEF IInv

\* Every step keeps it, and the configuration a request is pinned to.
LEMMA NextIInv ==
    ASSUME IInv, [Next]_vars
    PROVE  /\ IInv'
           /\ req # None /\ req' # None /\ ctx.runtime_state # None =>
                  ctx'.runtime_state.config = ctx.runtime_state.config
<1>0. UNCHANGED exchange => Pins' /\ Judged' /\ Traces' /\ UNCHANGED ctx
    BY ZenonT(30) DEF IInv, Pins, Judged, Allowed, Traces, exchange
<1>1. CASE Check \/ Compile \/ Validated \/ Write \/ Damage \/ Load \/ Author
    <2>1. Delivered' /\ UNCHANGED <<process, exchange>> /\ (stage' = "serving" => Live)
        BY <1>1, DeliveryStep DEF IInv
    <2>2. Serving'
        BY <2>1, ZenonT(30) DEF IInv, Serving, Live, process, exchange
    <2> QED BY <1>0, <2>1, <2>2, ZenonT(30) DEF IInv
<1>2. CASE Boot
    BY <1>0, <1>2, BootStep, ZenonT(30) DEF IInv, Boot
<1>3. CASE Reload
    BY <1>0, <1>3, ReloadStep DEF IInv, Reload
<1>4. ASSUME NEW q \in Request, Arrive(q) PROVE IInv' /\ req = None
    BY <1>4, ArriveStep, ZenonT(30) DEF IInv, Arrive
<1>5. CASE RequestFilter
    BY <1>5, FilterStep DEF IInv
<1>6. CASE UpstreamPeer
    BY <1>6, PeerStep DEF IInv
<1>7. CASE UpstreamRequestFilter \/ UpstreamResponseFilter \/ Logging \/ Done \/ UNCHANGED vars
    BY <1>7, OtherStep
<1> QED BY <1>1, <1>2, <1>3, <1>4, <1>5, <1>6, <1>7, ZenonT(30) DEF Next

\* The invariant holds.
LEMMA Invariant == Spec => []IInv
<1>1. IInv /\ [Next]_vars => IInv'
    BY NextIInv
<1> QED BY InitIInv, <1>1, PTL DEF Spec

\* ensure_runtime_reload_safe: for any documents and reloads, the sockets,
\* threads and certificates a process took when it started are those its running
\* configuration asks for.
THEOREM BoundAtBoot == Spec => []BootStays
<1>1. IInv => BootStays
    BY DEF IInv, Serving, Live, Fixed, BootStays
<1> QED BY Invariant, <1>1, PTL

\* pvs read_verified_file and load: what a proxy reads from a file, damaged or
\* not, is what was compiled.
THEOREM LoadsWhatWasCompiled == Spec => [](stage = "loaded" => loaded = config)
<1>1. IInv => (stage = "loaded" => loaded = config)
    BY DEF IInv, Delivered
<1> QED BY Invariant, <1>1, PTL

\* check, compile, validate_runtime and load: a proxy only runs a configuration
\* that the codec compiled from an artifact it had checked and the core validated.
THEOREM RunsOnlyValidated == Spec => [](running # None => Made(running.config) /\ validate_runtime(running.config))
<1>1. IInv => (running # None => Made(running.config) /\ validate_runtime(running.config))
    BY DEF IInv, Serving, Live
<1> QED BY Invariant, <1>1, PTL

\* materialize.rs and emit.rs: whatever numbers documents hold, of any width, a
\* proxy only runs with limits, timeouts and weights in the range of their types:
\* no pool without a connection, no threshold of zero, no weight that is none.
THEOREM NumbersFit == Spec => [](running # None => Fits(running.config))
<1>1. IInv => (running # None => Fits(running.config))
    BY CompiledFits DEF IInv, Serving, Live, Made
<1> QED BY Invariant, <1>1, PTL

\* retry.rs: for any policy of any document the pauses between the attempts of a
\* request never shrink, an exponential one stays within its maximum, and together
\* they stay within the request's time.
THEOREM PausesInTime == Spec => []BackoffGrows
<1>1. IInv => BackoffGrows
    <2> SUFFICES ASSUME IInv, running # None,
                        NEW v \in Range(running.config.routes), NEW r \in Range(v.paths)
                 PROVE  RouteFits(r) /\ RetryFits(r)
        BY RoutePauses, ZenonT(30) DEF BackoffGrows
    <2>1. Made(running.config)
        BY DEF IInv, Serving, Live
    <2>2. PICK i \in DOMAIN running.config.routes : v = running.config.routes[i]
        BY ZenonT(30) DEF Range
    <2>3. PICK k \in DOMAIN v.paths : r = v.paths[k]
        BY ZenonT(30) DEF Range
    <2> QED BY <2>1, <2>2, <2>3, MadeRetries, ZenonT(30)
<1> QED BY Invariant, <1>1, PTL

\* request_filter and upstream_peer: whatever is reloaded meanwhile, the
\* configuration pinned to a request stays until the request ends.
THEOREM RequestPinned ==
    Spec => [][req # None /\ req' # None /\ ctx.runtime_state # None =>
                   ctx'.runtime_state.config = ctx.runtime_state.config]_vars
<1>1. IInv /\ [Next]_vars =>
          [req # None /\ req' # None /\ ctx.runtime_state # None =>
               ctx'.runtime_state.config = ctx.runtime_state.config]_vars
    BY NextIInv
<1> QED BY Invariant, <1>1, PTL DEF Spec
--------------------------------------------------------------------------
(* The identity of a client.                                                *)

\* A set of one has one element.
LEMMA One == ASSUME NEW x PROVE Cardinality({x}) = 1
<1> DEFINE Count(f) == f = [T \in SUBSET {x} |-> IF T = {} THEN 0 ELSE 1 + f[T \ {CHOOSE y : y \in T}]]
           g == [T \in SUBSET {x} |-> IF T = {} THEN 0 ELSE 1]
           c == CHOOSE f : Count(f)
<1>1. Cardinality({x}) = c[{x}]
    BY DEF Cardinality
<1>2. Count(g)
    OBVIOUS
<1>3. Count(c)
    BY <1>2, ZenonT(30)
<1> HIDE DEF c
<1>4. c[{}] = 0 /\ c[{x}] = 1 + c[{x} \ {CHOOSE y : y \in {x}}]
    BY <1>3
<1>5. {x} \ {CHOOSE y : y \in {x}} = {}
    OBVIOUS
<1> QED BY <1>1, <1>4, <1>5

\* parse_spiffe_uri: what has the scheme is an identity or an error.
LEMMA Parsed ==
    ASSUME NEW u, <<"spiffe://">> \o u.rest # None
    PROVE  /\ parse_spiffe_uri(u) # None <=> u.scheme \in {"spiffe", "SPIFFE"}
           /\ parse_spiffe_uri(u) \notin {None, Err} => parse_spiffe_uri(u) = <<"spiffe://">> \o u.rest
<1>1. None # Err /\ (u.scheme \in {"spiffe", "SPIFFE"} => u.scheme # None)
    BY ConfigureAssumption DEF ConfigureAssumption
<1>2. ToLowercase("spiffe") = "spiffe" /\ ToLowercase("SPIFFE") = "spiffe"
    BY DEF ToLowercase
<1>3. ToLowercase(u.scheme) = "spiffe" => u.scheme \in {"spiffe", "SPIFFE"}
    BY DEF ToLowercase
<1> QED BY <1>1, <1>2, <1>3 DEF parse_spiffe_uri

\* extract_spiffe_id: an identity is that of the only URI with the scheme.
LEMMA Extracted ==
    ASSUME NEW uris, None \notin Identities(uris), extract_spiffe_id(uris) # None
    PROVE  \E i \in DOMAIN uris :
               /\ {k \in DOMAIN uris : uris[k].scheme \in {"spiffe", "SPIFFE"}} = {i}
               /\ extract_spiffe_id(uris) = <<"spiffe://">> \o uris[i].rest
<1> DEFINE hits == {k \in DOMAIN uris : parse_spiffe_uri(uris[k]) # None}
<1>1. \A k \in DOMAIN uris : <<"spiffe://">> \o uris[k].rest # None
    BY ZenonT(30) DEF Identities
<1>2. hits = {k \in DOMAIN uris : uris[k].scheme \in {"spiffe", "SPIFFE"}}
    BY <1>1, Parsed
<1>3. PICK i \in hits : hits = {i} /\ parse_spiffe_uri(uris[i]) # Err
    BY DEF extract_spiffe_id
<1>4. extract_spiffe_id(uris) = parse_spiffe_uri(uris[i])
    BY <1>3, SMTT(20) DEF extract_spiffe_id
<1> QED BY <1>1, <1>2, <1>3, <1>4, Parsed

\* auth.rs and identity.rs: whatever the configuration, the certificates and the
\* reloads, a route with a principal forwards only requests whose certificate
\* names exactly one SPIFFE identity, and that one fits.
THEOREM IdentityShown == Spec => []IdentityProven
<1>1. IInv => IdentityProven
    <2> SUFFICES ASSUME IInv, req # None, ctx.upstream_name # None, route.principal.kind # "any"
                 PROVE  IdentityProven
        BY DEF IdentityProven
    <2>1. None \notin Identities(req.uris) /\ Allowed
        BY DEF IInv, Judged
    <2>2. extract_spiffe_id(req.uris) # None
        BY <2>1 DEF Allowed, is_authorized
    <2>3. PICK i \in DOMAIN req.uris :
              /\ {k \in DOMAIN req.uris : req.uris[k].scheme \in {"spiffe", "SPIFFE"}} = {i}
              /\ extract_spiffe_id(req.uris) = <<"spiffe://">> \o req.uris[i].rest
        BY <2>1, <2>2, Extracted, ZenonT(30)
    <2> QED BY <2>1, <2>3, One, ZenonT(30) DEF IdentityProven, Allowed
<1> QED BY Invariant, <1>1, PTL

\* request_filter, upstream_peer and logging: a request its route does not allow
\* gets 403, no peer is chosen for it and nothing sent, and the access log says
\* that it was denied; one that is logged with an upstream was allowed there.
THEOREM DenialsHold ==
    Spec => [](req # None =>
        /\ route # None /\ ~Allowed => answer.status = 403 /\ peer = None /\ sent = None
        /\ entry # None =>
              /\ entry.status = answer.status
              /\ entry.rbac_denied = (route # None /\ ~Allowed)
              /\ entry.upstream # "-" => Allowed /\ route.action.kind = "forward")
<1>1. IInv => (req # None =>
        /\ route # None /\ ~Allowed => answer.status = 403 /\ peer = None /\ sent = None
        /\ entry # None =>
              /\ entry.status = answer.status
              /\ entry.rbac_denied = (route # None /\ ~Allowed)
              /\ entry.upstream # "-" => Allowed /\ route.action.kind = "forward")
    BY ZenonT(30) DEF IInv, Judged, Traces, Label
<1> QED BY Invariant, <1>1, PTL
==============================================================================
