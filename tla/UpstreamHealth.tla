--------------------------- MODULE UpstreamHealth ---------------------------
(***************************************************************************)
(* Who changes an upstream cluster, and when: requests (proxy/service/     *)
(* io.rs) select endpoints and report outcomes, the health monitor         *)
(* (upstream/health.rs) probes, the resolver (upstream/resolver.rs) lists  *)
(* the endpoints anew, and a reload (state.rs) replaces the whole state.   *)
(*                                                                         *)
(* The model follows one upstream name through the configurations that     *)
(* replace one another.  A generation is one RuntimeState with its         *)
(* cluster of that name; a request keeps the generation it started with,   *)
(* a probe job and the scheduler keep the cluster they were made for.      *)
(* The monitor recognises a state by the address of its allocation, which  *)
(* the allocator may use again once the state is freed: a place.           *)
(***************************************************************************)
EXTENDS Cluster

CONSTANTS
    Host,           \* DNS names
    Config,         \* the upstream's entry in the configurations
    ZoneAnswer,     \* what a name may resolve to
    Place,          \* addresses of allocations
    Null,           \* last_state_ptr before the first tick
    None,
    Request, Job,
    MaxAttempts,    \* retry.attempts
    MaxGen,         \* bound: configurations
    MaxEvents       \* bound: changes of the network or of the zone

ASSUME HealthAssumption ==
    /\ Address \cap Host = {}
    /\ ZoneAnswer \subseteq Seq(Address)
    /\ \A conf \in Config : conf.endpoints \in Seq(Address \cup Host)
    /\ Null \notin Place /\ Place # {}
    /\ MaxAttempts \in Nat \ {0} /\ MaxGen \in Nat \ {0} /\ MaxEvents \in Nat

VARIABLES
    gen,        \* the generation RuntimeStateHandle holds
    cluster,    \* the cluster of every generation that is still referenced
    place,      \* where each generation was allocated
    mon,        \* the monitor: last_state_ptr and its scheduler's plan
    job,        \* the spawned probe jobs
    res,        \* resolve_once
    req,        \* the requests
    net,        \* which addresses answer with success
    zone,       \* what the names resolve to
    events

vars == <<gen, cluster, place, mon, job, res, req, net, zone, events>>

Gen == 1..MaxGen
NoJob == [phase |-> "none", gen |-> 0, todo |-> <<>>, answer |-> "healthy"]
Resting == [phase |-> "idle", config |-> None, current |-> <<>>, result |-> <<>>]
NoRequest == [phase |-> "none", gen |-> 0, attempt |-> 0, endpoint |-> None]

\* Every variable has its type.
TypeOK ==
    /\ gen \in Gen
    /\ DOMAIN cluster \subseteq Gen
    /\ \A g \in DOMAIN cluster :
          /\ cluster[g].config \in Config
          /\ Listed(cluster[g]) \subseteq Address
          /\ cluster[g].status \in [Address -> Status]
          /\ cluster[g].published \subseteq Listed(cluster[g])
    /\ place \in [Gen -> Place]
    /\ mon.seen \in Place \cup {Null} /\ mon.gen \in 0..MaxGen
    /\ mon.plan \in {"none", "ready", "marking"}
    /\ \A j \in Job : /\ job[j].phase \in {"none", "spawned", "probing", "answered"}
                      /\ job[j].gen \in 0..MaxGen
    /\ res.phase \in {"idle", "resolving", "answered"}
    /\ \A r \in Request :
          /\ req[r].phase \in {"none", "arrived", "refreshed", "sent"}
          /\ req[r].gen \in 0..MaxGen /\ req[r].attempt \in 0..MaxAttempts
          /\ req[r].endpoint \in Address \cup {None}
    /\ net \in [Address -> {"up", "down"}]
    /\ zone \in [Host -> ZoneAnswer]
    /\ events \in 0..MaxEvents

-----------------------------------------------------------------------------
(* Lists of endpoints.                                                     *)

\* materialize_endpoint: an address is itself, a name is looked up.
Lookup(e) == IF e \in Address THEN <<e>> ELSE zone[e]

\* materialize_all_endpoints, and the same walk in resolve_strict_dns.
AllEndpoints(eps) ==
    LET upto[i \in 0..Len(eps)] ==
            IF i = 0 THEN <<>> ELSE upto[i - 1] \o Lookup(eps[i])
    IN  upto[Len(eps)]

FirstOf(eps, kind) ==
    LET at == {i \in DOMAIN eps : eps[i] \in kind}
    IN  eps[CHOOSE i \in at : \A k \in at : i <= k]

Names(conf) == {h \in Host : \E i \in DOMAIN conf.endpoints : conf.endpoints[i] = h}
Resolvable(conf) == \A h \in Names(conf) : zone[h] # <<>>

\* materialize_upstreams for this upstream; the reload fails when there is no
\* endpoint, or a name it looks up has no address.
CanMaterialize(conf) ==
    /\ conf.endpoints # <<>>
    /\ IF conf.discovery # "logical" THEN Resolvable(conf)
       ELSE \/ \E i \in DOMAIN conf.endpoints : conf.endpoints[i] \in Address
            \/ zone[FirstOf(conf.endpoints, Host)] # <<>>
Materialize(conf) ==
    IF conf.discovery # "logical" THEN AllEndpoints(conf.endpoints)
    ELSE IF \E i \in DOMAIN conf.endpoints : conf.endpoints[i] \in Address
    THEN <<FirstOf(conf.endpoints, Address)>>
    ELSE <<zone[FirstOf(conf.endpoints, Host)][1]>>

\* resolve_logical_dns: the address in use if the name still has it, else the
\* first; resolve_strict_dns: everything.  <<>> is Ok(None), no update.
Resolve(conf, current) ==
    IF conf.discovery = "strict"
    THEN IF Resolvable(conf) THEN AllEndpoints(conf.endpoints) ELSE <<>>
    ELSE IF Names(conf) = {} THEN <<>>
    ELSE LET found == zone[FirstOf(conf.endpoints, Host)]
             kept == {found[i] : i \in DOMAIN found}
                         \cap {current[i] : i \in DOMAIN current}
         IN  IF found = <<>> THEN <<>>
             ELSE IF kept # {} THEN <<FirstOf(current, kept)>>
             ELSE <<found[1]>>

-----------------------------------------------------------------------------
(* The state and its reloads.                                              *)

Init ==
    /\ net = [a \in Address |-> "up"]
    /\ zone \in [Host -> ZoneAnswer]
    /\ gen = 1
    /\ \E conf \in Config :
          /\ CanMaterialize(conf)
          /\ cluster = [g \in {1} |-> NewCluster(conf, Materialize(conf))]
    /\ place = [g \in Gen |-> CHOOSE p \in Place : TRUE]
    /\ mon = [seen |-> Null, gen |-> 0, plan |-> "none", todo |-> <<>>]
    /\ job = [j \in Job |-> NoJob]
    /\ res = Resting
    /\ req = [r \in Request |-> NoRequest]
    /\ events = 0

\* The states a request still holds.
Held == {req[r].gen : r \in Request} \ {0}

\* RuntimeStateHandle::store.  The new state is allocated before the old one
\* is dropped; an older one that no request holds has been freed.
Reload(conf) ==
    /\ gen < MaxGen
    /\ CanMaterialize(conf)
    /\ gen' = gen + 1
    /\ cluster' = [g \in DOMAIN cluster \cup {gen + 1} |->
           IF g = gen + 1 THEN NewCluster(conf, Materialize(conf)) ELSE cluster[g]]
    /\ \E p \in Place :
          /\ p # place[gen] /\ \A g \in Held : p # place[g]
          /\ place' = [place EXCEPT ![gen + 1] = p]
    /\ UNCHANGED <<mon, job, res, req, net, zone, events>>

\* The last Arc of a replaced cluster is dropped.
Release(g) ==
    /\ g \in DOMAIN cluster /\ g < gen
    /\ g \notin Held /\ \A j \in Job : job[j].gen # g
    /\ mon.gen = g => mon.plan = "none"
    /\ cluster' = [k \in DOMAIN cluster \ {g} |-> cluster[k]]
    /\ UNCHANGED <<gen, place, mon, job, res, req, net, zone, events>>

-----------------------------------------------------------------------------
(* Requests.                                                               *)

\* request_filter takes the state, whose clusters the request keeps.
Arrive(r) ==
    /\ req[r].phase = "none"
    /\ req' = [req EXCEPT ![r] =
           [phase |-> "arrived", gen |-> gen, attempt |-> 1, endpoint |-> None]]
    /\ UNCHANGED <<gen, cluster, place, mon, job, res, net, zone, events>>

\* select_endpoint, under the lock.
SelectRefresh(r) ==
    /\ req[r].phase = "arrived"
    /\ cluster' = [cluster EXCEPT ![req[r].gen] = RefreshExpired(@)]
    /\ req' = [req EXCEPT ![r].phase = "refreshed"]
    /\ UNCHANGED <<gen, place, mon, job, res, net, zone, events>>

\* select_endpoint, after the lock: the list that is published by now.
SelectLoad(r) ==
    /\ req[r].phase = "refreshed"
    /\ \E a \in cluster[req[r].gen].published :
          req' = [req EXCEPT ![r].phase = "sent", ![r].endpoint = a]
    /\ UNCHANGED <<gen, cluster, place, mon, job, res, net, zone, events>>

\* logging: the outcome counts for the endpoint selected last.
Logging(r, ok) ==
    /\ cluster' = IF req[r].endpoint = None THEN cluster
                  ELSE [cluster EXCEPT ![req[r].gen] = RecordOutcome(@, req[r].endpoint, ok)]
    /\ req' = [req EXCEPT ![r] = NoRequest]

\* "Upstream has no endpoints": an error that is not retried.
NoEndpoint(r) ==
    /\ req[r].phase = "refreshed"
    /\ cluster[req[r].gen].published = {}
    /\ Logging(r, "no")
    /\ UNCHANGED <<gen, place, mon, job, res, net, zone, events>>

Succeed(r) ==
    /\ req[r].phase = "sent" /\ net[req[r].endpoint] = "up"
    /\ Logging(r, "yes")
    /\ UNCHANGED <<gen, place, mon, job, res, net, zone, events>>

\* The last attempt fails; an endpoint that is up may also answer 5xx.
Fail(r) ==
    /\ req[r].phase = "sent"
    /\ Logging(r, "no")
    /\ UNCHANGED <<gen, place, mon, job, res, net, zone, events>>

\* fail_to_connect, error_while_proxy or response_filter asks for a retry.  One
\* on a reused connection, which counts no attempt, is in RequestPath; here it
\* would select again as this one does.
Retry(r) ==
    /\ req[r].phase = "sent" /\ req[r].attempt < MaxAttempts
    /\ req' = [req EXCEPT ![r].phase = "arrived", ![r].attempt = @ + 1]
    /\ UNCHANGED <<gen, cluster, place, mon, job, res, net, zone, events>>

-----------------------------------------------------------------------------
(* The health monitor.                                                     *)

\* Scheduler::from_manager for the current state.
Rebuilt ==
    LET conf == cluster[gen].config
    IN  [seen |-> place[gen], gen |-> gen,
         plan |-> CASE conf.check = "on" -> "ready"
                    [] conf.check = "broken" -> "marking"
                    [] OTHER -> "none",
         todo |-> IF conf.check = "broken" THEN cluster[gen].endpoints ELSE <<>>]

\* Bug: the scheduler is built once.
ScheduledOnce == IF mon.seen = Null THEN Rebuilt ELSE mon

\* The scheduler of a tick: rebuilt when the state is at another place.
Scheduled == IF mon.seen = place[gen] THEN mon ELSE Rebuilt

\* A tick that finds no probe due.
Tick ==
    /\ mon.plan # "marking"
    /\ mon' = Scheduled
    /\ UNCHANGED <<gen, cluster, place, job, res, req, net, zone, events>>

\* A tick that dispatches a probe job (bound: one per Job).
TickDue(j) ==
    /\ mon.plan # "marking" /\ Scheduled.plan = "ready"
    /\ job[j] = NoJob
    /\ mon' = Scheduled
    /\ job' = [job EXCEPT ![j] = [phase |-> "spawned", gen |-> Scheduled.gen,
                                  todo |-> <<>>, answer |-> "healthy"]]
    /\ UNCHANGED <<gen, cluster, place, res, req, net, zone, events>>

\* mark_all_unhealthy, one lock at a time: no plan, no probe.
MarkUnhealthy ==
    /\ mon.plan = "marking"
    /\ IF mon.todo = <<>>
       THEN mon' = [mon EXCEPT !.plan = "none"] /\ UNCHANGED cluster
       ELSE /\ mon' = [mon EXCEPT !.todo = Tail(@)]
            /\ cluster' = [cluster EXCEPT ![mon.gen] =
                   SetActiveHealth(@, Head(mon.todo), "unhealthy")]
    /\ UNCHANGED <<gen, place, job, res, req, net, zone, events>>

\* ProbeJob::run takes the list of endpoints when the task first runs.
JobStarts(j) ==
    /\ job[j].phase = "spawned"
    /\ job' = [job EXCEPT ![j] =
           IF cluster[job[j].gen].endpoints = <<>> THEN NoJob
           ELSE [@ EXCEPT !.phase = "probing", !.todo = cluster[job[j].gen].endpoints]]
    /\ UNCHANGED <<gen, cluster, place, mon, res, req, net, zone, events>>

\* HealthProbePlan::probe
ProbeAnswers(j) ==
    /\ job[j].phase = "probing"
    /\ job' = [job EXCEPT ![j].phase = "answered",
           ![j].answer = IF net[Head(job[j].todo)] = "up" THEN "healthy" ELSE "unhealthy"]
    /\ UNCHANGED <<gen, cluster, place, mon, res, req, net, zone, events>>

NextProbe(q) ==
    IF Tail(q.todo) = <<>> THEN NoJob
    ELSE [phase |-> "probing", gen |-> q.gen, todo |-> Tail(q.todo), answer |-> "healthy"]

\* ProbeJob::run, after the await.
ProbeApplies(j) ==
    /\ job[j].phase = "answered"
    /\ cluster' = [cluster EXCEPT ![job[j].gen] =
           SetActiveHealth(@, Head(job[j].todo), job[j].answer)]
    /\ job' = [job EXCEPT ![j] = NextProbe(job[j])]
    /\ UNCHANGED <<gen, place, mon, res, req, net, zone, events>>

-----------------------------------------------------------------------------
(* The resolver.                                                           *)

\* resolve_once reads the configuration and the endpoints, then awaits.
ResolveStarts ==
    /\ res.phase = "idle"
    /\ cluster[gen].config.discovery # "static"
    /\ res' = [Resting EXCEPT !.phase = "resolving", !.config = cluster[gen].config,
                              !.current = cluster[gen].endpoints]
    /\ UNCHANGED <<gen, cluster, place, mon, job, req, net, zone, events>>

\* resolve_upstream: Ok(Some(..)) is an update, anything else none.
ResolveAnswers ==
    /\ res.phase = "resolving"
    /\ LET found == Resolve(res.config, res.current)
       IN  res' = IF found = <<>> THEN Resting
                  ELSE [Resting EXCEPT !.phase = "answered", !.result = found]
    /\ UNCHANGED <<gen, cluster, place, mon, job, req, net, zone, events>>

\* A lookup fails.
ResolveFails ==
    /\ res.phase = "resolving"
    /\ res' = Resting
    /\ UNCHANGED <<gen, cluster, place, mon, job, req, net, zone, events>>

\* Bug: the answer is dropped when the list would shrink.
ResolveAppliesGrowing ==
    /\ res.phase = "answered"
    /\ cluster' = IF Len(res.result) < Len(cluster[gen].endpoints) THEN cluster
                  ELSE [cluster EXCEPT ![gen] = UpdateEndpoints(@, res.result)]
    /\ res' = Resting
    /\ UNCHANGED <<gen, place, mon, job, req, net, zone, events>>

\* The result goes to the cluster that has the name now.
ResolveApplies ==
    /\ res.phase = "answered"
    /\ cluster' = [cluster EXCEPT ![gen] = UpdateEndpoints(@, res.result)]
    /\ res' = Resting
    /\ UNCHANGED <<gen, place, mon, job, req, net, zone, events>>

-----------------------------------------------------------------------------
(* Time and the network.                                                   *)

EjectionPasses(g, a) ==
    /\ g \in DOMAIN cluster /\ cluster[g].status[a].ejected = "pending"
    /\ cluster' = [cluster EXCEPT ![g] = Expire(@, a)]
    /\ UNCHANGED <<gen, place, mon, job, res, req, net, zone, events>>

NetChanges(a) ==
    /\ events < MaxEvents /\ events' = events + 1
    /\ net' = [net EXCEPT ![a] = IF @ = "up" THEN "down" ELSE "up"]
    /\ UNCHANGED <<gen, cluster, place, mon, job, res, req, zone>>

ZoneChanges(h) ==
    /\ events < MaxEvents /\ events' = events + 1
    /\ \E s \in ZoneAnswer \ {zone[h]} : zone' = [zone EXCEPT ![h] = s]
    /\ UNCHANGED <<gen, cluster, place, mon, job, res, req, net>>

RequestStep(r) ==
    \/ Arrive(r) \/ SelectRefresh(r) \/ SelectLoad(r) \/ NoEndpoint(r)
    \/ Succeed(r) \/ Fail(r) \/ Retry(r)
JobStep(j) == JobStarts(j) \/ ProbeAnswers(j) \/ ProbeApplies(j)

Next ==
    \/ \E conf \in Config : Reload(conf)
    \/ \E g \in Gen : Release(g)
    \/ \E r \in Request : RequestStep(r)
    \/ Tick \/ MarkUnhealthy
    \/ \E j \in Job : TickDue(j) \/ JobStep(j)
    \/ ResolveStarts \/ ResolveAnswers \/ ResolveFails \/ ResolveApplies
    \/ \E g \in Gen, a \in Address : EjectionPasses(g, a)
    \/ \E a \in Address : NetChanges(a)
    \/ \E h \in Host : ZoneChanges(h)

Spec == Init /\ [][Next]_vars

\* Timers fire, tasks run, requests keep coming and are answered or time out,
\* and lookups do not fail for ever.
FairSpec ==
    /\ Spec
    /\ WF_vars(\E j \in Job : TickDue(j)) /\ WF_vars(Tick) /\ WF_vars(MarkUnhealthy)
    /\ \A j \in Job : WF_vars(JobStep(j))
    /\ WF_vars(ResolveStarts) /\ SF_vars(ResolveAnswers) /\ WF_vars(ResolveApplies)
    /\ \A g \in Gen, a \in Address : WF_vars(EjectionPasses(g, a))
    /\ \A r \in Request : WF_vars(RequestStep(r))

-----------------------------------------------------------------------------
(* Properties.                                                             *)

\* refresh_state_from_health: the list requests choose from agrees with the
\* health of the endpoints, whoever changed it last.  Only an ejection whose
\* deadline passed since the last refresh may be missing from it.
PublishedMatchesHealth ==
    \A g \in DOMAIN cluster :
        /\ cluster[g].published \subseteq Eligible(cluster[g])
        /\ \A a \in Eligible(cluster[g]) \ cluster[g].published :
              cluster[g].status[a].ejected = "passed"

ListedOnce(c, a) ==
    \E i \in DOMAIN c.endpoints : /\ c.endpoints[i] = a
                                  /\ \A k \in DOMAIN c.endpoints : c.endpoints[k] = a => k = i

NoEarlyEnd ==
    \A g \in DOMAIN cluster \cap DOMAIN cluster', a \in Address :
        cluster[g].status[a].ejected = "pending" /\ ListedOnce(cluster'[g], a)
            => cluster'[g].status[a].ejected # "no"

\* record_failure, update_endpoints: no probe, no success of a late request
\* and no new list of endpoints ends an ejection before its deadline, unless
\* that list has the address twice: the second occurrence overwrites the
\* health that update_endpoints carried over.
EjectionHolds == [][NoEarlyEnd]_vars

Current == cluster[gen]

\* select_endpoint: no ejection is for ever.  A listed endpoint that answers its
\* probes is in the published list again and again.
Readmitted ==
    \A a \in Address :
        []<>(a \in Listed(Current) /\ Current.status[a].active = "healthy"
                => a \in Current.published)

Followed ==
    Current.config.check = "on" =>
        \A a \in Listed(Current) : (Current.status[a].active = "healthy") <=> (net[a] = "up")

\* The monitor takes the current state for one it has seen.
Mistaken == mon.seen = place[gen] /\ mon.gen # gen

\* ProbeJob::run: once the network is quiet the health of the endpoints is
\* what the probes find, whatever overlapping jobs, a job of the configuration
\* that a reload replaced, or a list that changed under a job left behind.  It
\* is not promised when the monitor mistakes the state for an earlier one that
\* was at the same place, which takes two reloads.
HealthFollowsProbes == <>[](Mistaken \/ Followed)

\* resolve_once: a cluster with strict discovery ends up with what its names
\* resolve to, also when a result of an earlier configuration reached it.
ListFollowsDns ==
    <>[](Current.config.discovery = "strict" /\ Resolvable(Current.config)
            => Current.endpoints = AllEndpoints(Current.config.endpoints))

=============================================================================
