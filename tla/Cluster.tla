------------------------------ MODULE Cluster -------------------------------
(***************************************************************************)
(* One upstream cluster (upstream/cluster/): the health of its endpoints,  *)
(* kept under a mutex, and the list of eligible endpoints published to     *)
(* the requests.  Every operation is a function from a cluster to the      *)
(* cluster after it, since each holds the mutex for its whole duration.    *)
(*                                                                         *)
(* An address stands for an EndpointKey.  An address that is not listed    *)
(* has no entry in the code's map; here its status is Fresh.  Time is in   *)
(* the status: an ejection is "pending" until its deadline and "passed"    *)
(* from then on.  The two readings of the clock inside one refresh are     *)
(* one reading here.                                                       *)
(***************************************************************************)
EXTENDS Integers, Sequences

CONSTANTS
    Address,
    Threshold,      \* outlier_detection.consecutive_errors
    MaxErrors       \* where saturating_add stops (u32::MAX in the code)

ASSUME ClusterAssumption ==
    /\ Threshold \in Nat \ {0} /\ MaxErrors \in Nat
    /\ Threshold <= MaxErrors

Status == [errors : 0..MaxErrors,
           ejected : {"no", "pending", "passed"},
           active : {"healthy", "unhealthy"}]

\* EndpointStatus::default
Fresh == [errors |-> 0, ejected |-> "no", active |-> "healthy"]

Listed(c) == {c.endpoints[i] : i \in DOMAIN c.endpoints}

\* HealthState::eligible_endpoints; without a status an endpoint is eligible.
Eligible(c) ==
    {a \in Listed(c) : a \in DOMAIN c.status =>
        c.status[a].active = "healthy" /\ c.status[a].ejected # "pending"}

\* HealthState::clear_expired_ejections
ClearExpired(c) ==
    [c EXCEPT !.status = [a \in Address |->
        IF c.status[a].ejected = "passed"
        THEN [c.status[a] EXCEPT !.ejected = "no", !.errors = 0]
        ELSE c.status[a]]]

\* Cluster::refresh_state_from_health
RefreshState(c) ==
    LET cleared == ClearExpired(c)
    IN  [cleared EXCEPT !.published = Eligible(cleared)]

\* Bug: only the map is cleaned, the published list stays.
RefreshExpiredUnpublished(c) == ClearExpired(c)

\* Cluster::refresh_expired_ejections
RefreshExpired(c) ==
    IF \E a \in Listed(c) : c.status[a].ejected = "passed"
    THEN RefreshState(c)
    ELSE c

\* Cluster::new_with_tls_materials, then the update with the materialized
\* endpoints.
NewCluster(conf, eps) ==
    RefreshState([config |-> conf, endpoints |-> eps,
                  status |-> [a \in Address |-> Fresh], published |-> {}])

\* HealthState::update_endpoints moves the status of an address to its first
\* occurrence in the list; a second occurrence overwrites it with the default.
KeptStatus(c, eps) ==
    [a \in Address |->
        IF \E i \in DOMAIN eps : /\ eps[i] = a
                                 /\ \A j \in DOMAIN eps : eps[j] = a => j = i
        THEN c.status[a]
        ELSE Fresh]

\* Bug: every refresh of the list starts from a clean slate.
UpdateForgets(c, eps) ==
    RefreshState([c EXCEPT !.endpoints = eps, !.status = [a \in Address |-> Fresh]])

\* Cluster::update_endpoints
UpdateEndpoints(c, eps) ==
    RefreshState([c EXCEPT !.endpoints = eps, !.status = KeptStatus(c, eps)])

\* Cluster::set_active_health
SetActiveHealth(c, a, h) ==
    IF c.config.check # "off" /\ a \in Listed(c) /\ c.status[a].active # h
    THEN RefreshState([c EXCEPT !.status[a].active = h])
    ELSE c

\* HealthState::record_success and its refresh
RecordSuccess(c, a) ==
    IF c.status[a].errors # 0
    THEN RefreshState([c EXCEPT !.status[a].errors = 0])
    ELSE c

CountError(c, a) ==
    LET n == c.status[a].errors IN IF n = MaxErrors THEN n ELSE n + 1

\* HealthState::record_failure and its refresh.  An endpoint that is ejected
\* already, its deadline passed or not, is only counted.
RecordFailure(c, a) ==
    IF CountError(c, a) >= Threshold /\ c.status[a].ejected = "no"
    THEN RefreshState([c EXCEPT !.status[a].errors = 0, !.status[a].ejected = "pending"])
    ELSE [c EXCEPT !.status[a].errors = CountError(c, a)]

\* Bug: the ejection is noted and the list is not published again.
RecordOutcomeUnpublished(c, a, ok) ==
    IF c.config.outlier = "off" \/ a \notin Listed(c) THEN c
    ELSE IF ok = "yes" THEN RecordSuccess(c, a)
    ELSE IF CountError(c, a) >= Threshold /\ c.status[a].ejected = "no"
    THEN [c EXCEPT !.status[a].errors = 0, !.status[a].ejected = "pending"]
    ELSE [c EXCEPT !.status[a].errors = CountError(c, a)]

\* Cluster::record_outcome
RecordOutcome(c, a, ok) ==
    IF c.config.outlier = "off" \/ a \notin Listed(c) THEN c
    ELSE IF ok = "yes" THEN RecordSuccess(c, a) ELSE RecordFailure(c, a)

\* The deadline of an ejection passes.
Expire(c, a) == [c EXCEPT !.status[a].ejected = "passed"]

=============================================================================
