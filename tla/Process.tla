------------------------------ MODULE Process ------------------------------
(***************************************************************************)
(* The services of one Pavis process around its requests: access log,      *)
(* metrics, tracing and admin API, started by Pingora each in a runtime of *)
(* its own (bootstrap.rs), reconfigured by the agent's updates and stopped *)
(* by one shutdown signal.                                                 *)
(*                                                                         *)
(* A configuration is [log, metrics, admin, tracing, routes]; routes is    *)
(* the set of patterns that match.  What happens to a request between its  *)
(* route and its end is the matter of RequestPath.                         *)
(***************************************************************************)
EXTENDS AccessLog, Metrics, Tracing, Admin

CONSTANTS
    MaxRequest,     \* bound: requests
    Boot,           \* configurations to boot with
    Updates,        \* configurations the relay may publish
    Bounds          \* bounds: how many inputs of each kind after each boot

Inputs == {"request", "attempt", "update", "conn", "tick", "failure", "stop"}

ASSUME ProcessAssumption ==
    /\ access_log_channel_capacity > 0
    /\ MaxRequest \in Nat
    /\ \A c \in Boot \cup Updates : c.tracing \in TracingPolicies /\ "-" \notin c.routes
    /\ Bounds \in [Boot -> [Inputs -> Nat]]

VARIABLES
    boot,       \* the configuration the services were built from; never changes
    live,       \* RuntimeState: version (0 for none) and configuration
    agent,      \* the update being verified and applied
    req,        \* RouterContext of each request
    stop,       \* the shutdown signal
    inputs      \* inputs so far, by kind

Request == 1..MaxRequest

processVars == <<boot, live, agent, req, stop, inputs>>
allVars == <<logVars, metricVars, tracingVars, adminVars, processVars>>

NoUpdate == [at |-> "idle"]
NoRequest == [at |-> "none"]

\* Telemetry::new and BootstrapPlan::build; the Prometheus recorder may fail to install.
ProcessInit ==
    \E c \in Boot :
        /\ LogInit(c.log)
        /\ \E m \in (IF c.metrics = "Enabled" THEN {"on", "off"} ELSE {"off"}) :
              MetricsInit(m) /\ AdminInit(c.admin, m)
        /\ TracingInit(c.tracing)
        /\ boot = c /\ live = [version |-> 0, config |-> c]
        /\ agent = NoUpdate
        /\ req = [r \in Request |-> NoRequest]
        /\ stop = "no" /\ inputs = [k \in Inputs |-> 0]

Input(k) ==
    /\ inputs[k] < Bounds[boot][k]
    /\ inputs' = [inputs EXCEPT ![k] = @ + 1]

-----------------------------------------------------------------------------
(* Requests.                                                               *)

\* request_filter: the context keeps the state it was routed with.  Accepted
\* connections are served to their end after the signal.
Arrive(r, route) ==
    /\ req[r] = NoRequest /\ \A q \in 1..r-1 : req[q] # NoRequest
    /\ Input("request")
    /\ increment_active_connections
    /\ record_route_match(IF route \in live.config.routes THEN "matched" ELSE "no_match")
    /\ StartSpan(live.config.tracing, metrics)
    /\ \E p \in SampledBy(live.config.tracing) :
          req' = [req EXCEPT ![r] = [at |-> "routed", config |-> live.config, span |-> p,
                     route |-> IF route \in live.config.routes THEN route ELSE "-"]]
    /\ UNCHANGED <<logVars, adminVars, boot, live, agent, stop>>
    /\ UNCHANGED <<metrics, labels, keys, samples, cardinality, unlabelled, size, reloads, clock, seen>>

\* upstream_peer, once per attempt.
Attempt(r, k) ==
    /\ req[r].at = "routed" /\ req[r].route # "-" /\ metrics = "on" /\ Input("attempt")
    /\ RecordKey(k, "up")
    /\ UNCHANGED <<logVars, tracingVars, adminVars, boot, live, agent, req, stop>>

\* logging(): the access log, the metrics, and the span with the context.
Logging(r) ==
    /\ req[r].at = "routed"
    /\ Log(r, req[r].config.log, metrics)
    /\ EndRequest(req[r].route, "up")
    /\ EndSpan(req[r].span)
    /\ req' = [req EXCEPT ![r] = [at |-> "done"]]
    /\ UNCHANGED <<adminVars, boot, live, agent, stop, inputs>>

-----------------------------------------------------------------------------
(* Updates: verify_update, apply_update and the callback of build_config_agent.*)

ensure_runtime_reload_safe(c, d) == c.admin = d.admin /\ c.metrics = d.metrics /\ c.log = d.log

classify_validation_error(err) ==
    CASE err = "version mismatch" -> "version"
      [] err \in {"artifact", "checksum"} -> "parse"
      [] err = "environment" -> "runtime"
      [] OTHER -> "semantic"

Recorded(results) ==
    /\ Label(results)
    /\ UNCHANGED <<metrics, keys, samples, inflight, cardinality, unlabelled, matches, size, reloads, clock, seen>>
    /\ UNCHANGED <<logVars, tracingVars, adminVars, boot, live, req, stop>>

record_validation_failure(err) == Recorded(<<"fail", classify_validation_error(err), "fail">>)
record_apply_failure == Recorded(<<"fail">>)

\* The bytes, the environment or the trial construction of the state.
VerifyFails(err) ==
    /\ agent = NoUpdate /\ Input("update")
    /\ record_validation_failure(err) /\ UNCHANGED agent

VerifyRefuses(c) ==
    /\ agent = NoUpdate /\ ~ensure_runtime_reload_safe(live.config, c) /\ Input("update")
    /\ record_validation_failure("reload") /\ UNCHANGED agent

\* The staging file cannot be written.
StageFails ==
    /\ agent = NoUpdate /\ Input("update")
    /\ record_apply_failure /\ UNCHANGED agent

Verify(c) ==
    /\ agent = NoUpdate /\ ensure_runtime_reload_safe(live.config, c) /\ Input("update")
    /\ agent' = [at |-> "verified", version |-> live.version + 1, config |-> c]
    /\ SetSize(live.version + 1, <<"ok", "none">>)
    /\ UNCHANGED <<logVars, tracingVars, adminVars, boot, live, req, stop>>
    /\ UNCHANGED <<metrics, keys, samples, inflight, cardinality, unlabelled, matches, reloads, clock, seen>>

\* The artifact is loaded and renamed to the LKG before the state is stored.
Store ==
    /\ agent.at = "verified"
    /\ live' = [version |-> agent.version, config |-> agent.config]
    /\ SetSize(agent.version, <<>>)
    /\ reloads' = IF metrics = "on" THEN reloads + 1 ELSE reloads
    /\ agent' = [agent EXCEPT !.at = "stored"]
    /\ UNCHANGED <<logVars, tracingVars, adminVars, boot, req, stop, inputs>>
    /\ UNCHANGED <<metrics, keys, samples, inflight, cardinality, unlabelled, matches, clock, seen>>

\* Loading the artifact, or reading the LKG back for the callback, fails.
LoadFails ==
    /\ agent.at \in {"verified", "stored"}
    /\ agent' = NoUpdate
    /\ record_validation_failure("artifact") /\ UNCHANGED inputs

RenameFails ==
    /\ agent.at = "verified"
    /\ agent' = NoUpdate
    /\ record_apply_failure /\ UNCHANGED inputs

Callback ==
    /\ agent.at = "stored"
    /\ CheckSlot("agent", agent.config.tracing)
    /\ agent' = [agent EXCEPT !.at = "tracing"]
    /\ UNCHANGED service
    /\ UNCHANGED <<logVars, metricVars, adminVars, boot, live, req, stop, inputs>>

Applied ==
    /\ agent.at = "tracing" /\ init["agent"] = Idle
    /\ agent' = NoUpdate
    /\ Recorded(<<"ok">>) /\ UNCHANGED inputs

-----------------------------------------------------------------------------
(* The services.                                                           *)

LogService ==
    /\ StartWorker \/ WriteEntry \/ (stop = "yes" /\ StopWorker)
    /\ UNCHANGED <<metricVars, tracingVars, adminVars, processVars>>

LogFails ==
    /\ WriteFails /\ Input("failure")
    /\ UNCHANGED <<metricVars, tracingVars, adminVars, boot, live, agent, req, stop>>

InitTracing(c) == (InstallLayer(c) \/ SetSlot(c)) /\ UNCHANGED service

TracingService ==
    /\ StartTracing(boot.tracing) \/ Started \/ InitTracing("service")
         \/ (stop = "yes" /\ FlushTraces)
    /\ UNCHANGED <<logVars, metricVars, adminVars, processVars>>

AgentTracing ==
    InitTracing("agent") /\ UNCHANGED <<logVars, metricVars, adminVars, processVars>>

BatchExport ==
    \E p \in Providers : Export(p) /\ UNCHANGED <<logVars, metricVars, adminVars, processVars>>

AdminService ==
    /\ \/ \E k \in Conn : AcceptAdmin(k) \/ AnswerAdmin(k) \/ ReadTimesOut(k)
       \/ stop = "yes" /\ StopAdmin
    /\ UNCHANGED <<logVars, metricVars, tracingVars, processVars>>

MetricsService ==
    /\ \/ \E k \in Conn : AcceptMetrics(k) \/ ServeMetrics(k) \/ MetricsTimesOut(k)
       \/ stop = "yes" /\ StopEndpoint
    /\ UNCHANGED <<logVars, metricVars, tracingVars, processVars>>

Clients ==
    \E k \in Conn, to \in Servers, kind \in Kinds :
        /\ Connect(k, to, kind) /\ stop = "no" /\ Input("conn")
        /\ UNCHANGED <<logVars, metricVars, tracingVars, boot, live, agent, req, stop>>

Time == Tick /\ seen # <<>> /\ Input("tick") /\ UNCHANGED <<logVars, tracingVars, adminVars, boot, live, agent, req, stop>>

Shutdown ==
    /\ stop' = "yes" /\ Input("stop")
    /\ UNCHANGED <<logVars, metricVars, tracingVars, adminVars, boot, live, agent, req>>

ProcessNext ==
    \/ \E r \in Request :
          (\E c \in Boot \cup Updates : \E p \in c.routes \cup {"-"} : Arrive(r, p)) \/ Logging(r)
             \/ \E k \in PoolKey : Attempt(r, k)
    \/ \E c \in Updates : Verify(c) \/ VerifyRefuses(c)
    \/ \E err \in {"version mismatch", "artifact", "checksum", "environment", "state"} : VerifyFails(err)
    \/ StageFails \/ Store \/ LoadFails \/ RenameFails \/ Callback \/ Applied \/ AgentTracing
    \/ LogService \/ LogFails \/ TracingService \/ BatchExport \/ AdminService \/ MetricsService
    \/ Clients \/ Time \/ Shutdown

\* Every service runs when it can, and so does what its timers allow; an
\* update that was begun is finished.  Clients, requests and the signal may
\* stay away.
ProcessFairness ==
    /\ WF_allVars(LogService) /\ WF_allVars(TracingService)
    /\ WF_allVars(AdminService) /\ WF_allVars(MetricsService)
    /\ WF_allVars(Store \/ Callback \/ Applied \/ AgentTracing)

ProcessSpec == ProcessInit /\ [][ProcessNext]_allVars /\ ProcessFairness

-----------------------------------------------------------------------------
(* Properties.                                                             *)

Active == {r \in Request : req[r].at = "routed"}

\* While the worker lives, every entry is in the log, in the channel, dropped
\* and counted, or reported as a failed write; and the log keeps the order in
\* which the requests ended.
LogAccounted ==
    /\ worker # "stopped" /\ writer = "ready" /\ metrics = "on" =>
          Len(offered) = Len(written) + Len(chan) + dropped + failures
    /\ \A d, e \in Request : Before(written \o chan, d, e) => Before(offered, d, e)

\* The gauges tell the truth.  The in-flight gauge is the number of requests
\* between request_filter and logging; what matched no route is counted once
\* when it is routed and once when it ends; every span is counted, also one
\* that starts while a layer is being installed.  When a key has just been inserted, the
\* reported cardinality is the number of distinct keys inserted within the ttl,
\* and the cap plus one from the cap on: neither a refreshed key nor one the cap
\* evicted is counted wrongly.
MetricsExact ==
    LET recent == Cardinality({k \in DOMAIN seen : clock - seen[k] <= Ttl})
    IN  /\ metrics = "on" =>
              /\ inflight = Cardinality(Active)
              /\ matches.no_match = unlabelled + Cardinality({r \in Active : req[r].route = "-"})
        /\ created = started
        /\ (\E k \in DOMAIN seen : seen[k] = clock) =>
              cardinality = IF recent < POOL_KEY_CARDINALITY_CAP THEN recent
                            ELSE POOL_KEY_CARDINALITY_CAP + 1

\* TracingService: a span that ends before the flush is exported by then, when
\* the flush ends in time.  What is lost are the spans of requests that end
\* after it, and none before, unless two callers of maybe_init_tracing found
\* the slot empty.
SpansFlushed == raced = "no" => IF shut = NoProvider THEN lost = 0 ELSE ended = sent + lost

\* Until the signal, every connection is answered or closed again and again,
\* although the admin API takes one at a time and clients may stay silent.  A
\* client that asked is assumed to take its answer: the writes have no timeout.
EveryoneServed == []<>(stop = "yes" \/ \A k \in Conn : conn[k].at \in {"none", "done"})

\* After the signal the access log, admin, metrics and tracing services end,
\* with clients connected or not; a write of the log is assumed to return.
AllStop ==
    []<>(\/ stop = "no"
         \/ /\ worker = "stopped" /\ admin = "stopped" /\ endpoint = "stopped"
            /\ service \in {"stopped", "gaveup"})

=============================================================================
