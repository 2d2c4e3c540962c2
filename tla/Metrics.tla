------------------------------ MODULE Metrics ------------------------------
(***************************************************************************)
(* The metrics registry (telemetry/metrics.rs): label caches, the tracker  *)
(* of pool-key cardinality and the gauges and counters whose value depends *)
(* on more than one call.  Counters that only count calls are left out.    *)
(***************************************************************************)
EXTENDS Integers, Sequences, FiniteSets, FiniteSetsExt, TLC

CONSTANTS
    METRIC_LABEL_CACHE_CAP,
    METRIC_ROUTE_LABEL_CACHE_CAP,
    POOL_KEY_CARDINALITY_CAP,
    Ttl,                    \* BoundedKeySet's ttl, in ticks of the clock
    SampleRate,             \* PAVIS_POOL_KEY_SAMPLE_RATE
    PoolKey                 \* hashes of pool reuse keys

ASSUME MetricsAssumption ==
    Ttl \in Nat /\ POOL_KEY_CARDINALITY_CAP \in Nat /\ SampleRate \in Nat \ {0}

VARIABLES
    metrics,    \* "on" when the recorder was installed
    labels,     \* MetricLabels: the common and the route cache
    keys,       \* PoolKeyCardinalityTracker, of one upstream
    samples,    \* POOL_KEY_SAMPLE_COUNTER
    inflight,   \* pavis_http_inflight_requests
    cardinality,\* pavis_upstream_pool_key_cardinality_approx
    unlabelled, \* pavis_telemetry_metrics_label_dropped_total
    matches,    \* pavis_route_match_attempts_total, by result
    size,       \* pavis_runtime_config_size_bytes: the version whose size it is
    reloads,    \* pavis_runtime_reload_count_total
    clock,      \* Instant::now()
    seen        \* history: key |-> when it was last inserted

metricVars ==
    <<metrics, labels, keys, samples, inflight, cardinality, unlabelled, matches, size, reloads, clock, seen>>

EmptyCache == [map |-> {}, order |-> <<>>]
EmptyKeys == [entries |-> <<>>, order |-> <<>>]

MetricsInit(m) ==
    /\ metrics = m
    /\ labels = [common |-> EmptyCache, route |-> EmptyCache]
    /\ keys = EmptyKeys /\ samples = 0
    /\ inflight = 0 /\ cardinality = 0 /\ unlabelled = 0
    /\ matches = [matched |-> 0, no_match |-> 0]
    /\ size = 0 /\ reloads = 0 /\ clock = 0 /\ seen = <<>>

-----------------------------------------------------------------------------
(* LabelCache::get: the value, cached; the oldest labels leave.            *)

First(order, n) == {order[i] : i \in 1..n}

GetLabel(c, cap, label) ==
    LET map == c.map \cup {label}
        order == Append(c.order, label)
        n == Min({i \in 0..Len(order) : Cardinality(map \ First(order, i)) <= cap})
    IN  IF label \in c.map
        THEN c
        ELSE [map |-> map \ First(order, n), order |-> SubSeq(order, n + 1, Len(order))]

Common(c, label) == GetLabel(c, METRIC_LABEL_CACHE_CAP, label)
Commons(c, names) ==
    LET after[i \in 0..Len(names)] == IF i = 0 THEN c ELSE Common(after[i - 1], names[i])
    IN  after[Len(names)]
Route(c, label) == GetLabel(c, METRIC_ROUTE_LABEL_CACHE_CAP, label)

-----------------------------------------------------------------------------
(* BoundedKeySet: when each key was seen last, and the order of insertions.*)

\* HashMap::insert.
Put(f, k, v) == [j \in DOMAIN f \cup {k} |-> IF j = k THEN v ELSE f[j]]

\* Bug: an older insertion of a key takes its refreshed entry with it.
RemovedByKey(s, n) == {k \in DOMAIN s.entries : \E i \in 1..n : s.order[i].key = k}

\* The entries that popping the first n insertions removes: those that were
\* not refreshed later.
Removed(s, n) ==
    {k \in DOMAIN s.entries : \E i \in 1..n : s.order[i].key = k /\ s.order[i].at = s.entries[k]}

Pop(s, n) ==
    [entries |-> [k \in DOMAIN s.entries \ Removed(s, n) |-> s.entries[k]],
     order |-> SubSeq(s.order, n + 1, Len(s.order))]

evict_expired(s, now) ==
    Pop(s, Max({n \in 0..Len(s.order) : \A i \in 1..n : now - s.order[i].at > Ttl}))

evict_over_cap(s) ==
    LET Left(n) == Cardinality(DOMAIN s.entries \ Removed(s, n))
    IN  Pop(s, Min({n \in 0..Len(s.order) : Left(n) <= POOL_KEY_CARDINALITY_CAP}))

InsertKey(s, k, now) ==
    evict_over_cap(evict_expired(
        [entries |-> Put(s.entries, k, now),
         order |-> Append(s.order, [key |-> k, at |-> now])], now))

\* record_pool_key_cardinality: one above the cap stands for "saturated".
Reported(s) ==
    LET n == Cardinality(DOMAIN s.entries)
    IN  IF n >= POOL_KEY_CARDINALITY_CAP THEN POOL_KEY_CARDINALITY_CAP + 1 ELSE n

should_sample_pool_key == SampleRate = 1 \/ samples % SampleRate = 0

\* A call that only counts, for what the cache is concerned.
Label(names) ==
    labels' = IF metrics = "on" THEN [labels EXCEPT !.common = Commons(@, names)] ELSE labels

-----------------------------------------------------------------------------
(* What requests record.                                                   *)

increment_active_connections ==
    inflight' = IF metrics = "on" THEN inflight + 1 ELSE inflight

\* One attempt by its result; how often each predicate was evaluated or missed
\* is left out.
record_route_match(result) ==
    matches' = IF metrics = "on" THEN [matches EXCEPT ![result] = @ + 1] ELSE matches

\* The metrics part of logging(): record_request, record_upstream_request or
\* record_metrics_label_dropped, then decrement_active_connections.
RecordRequest(route, upstream) ==
    /\ IF route = "-"
       THEN unlabelled' = unlabelled + 1 /\ UNCHANGED labels
       ELSE /\ labels' = [common |-> Commons(labels.common, <<"GET", upstream>>),
                          route |-> Route(labels.route, route)]
            /\ UNCHANGED unlabelled
    /\ inflight' = inflight - 1

EndRequest(route, upstream) ==
    /\ IF metrics = "on"
       THEN RecordRequest(route, upstream)
       ELSE UNCHANGED <<labels, unlabelled, inflight>>
    /\ UNCHANGED <<metrics, keys, samples, cardinality, matches, size, reloads, clock, seen>>

\* The tracker part of upstream_peer; without metrics there is no tracker.
RecordKey(k, upstream) ==
    /\ IF metrics = "on" /\ should_sample_pool_key
       THEN /\ keys' = InsertKey(keys, k, clock)
            /\ Label(<<upstream>>)
            /\ cardinality' = Reported(keys')
            /\ seen' = Put(seen, k, clock)
       ELSE UNCHANGED <<keys, labels, cardinality, seen>>
    /\ samples' = IF metrics = "on" /\ SampleRate # 1 THEN samples + 1 ELSE samples
    /\ UNCHANGED <<metrics, inflight, unlabelled, matches, size, reloads, clock>>

\* update_config_stats, by the agent, after the labels of what it recorded before.
SetSize(version, recorded) ==
    /\ size' = IF metrics = "on" THEN version ELSE size
    /\ Label(Append(recorded, ToString(version)))

Tick ==
    /\ clock' = clock + 1
    /\ UNCHANGED <<metrics, labels, keys, samples, inflight, cardinality, unlabelled, matches, size, reloads, seen>>

=============================================================================
