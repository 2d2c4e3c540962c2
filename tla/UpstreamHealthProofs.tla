------------------------ MODULE UpstreamHealthProofs ------------------------
(***************************************************************************)
(* Proofs about UpstreamHealth, for any sets of addresses, names,          *)
(* configurations, requests and jobs and any bounds.                       *)
(*                                                                         *)
(* The operations of Cluster come first: each turns a cluster whose        *)
(* published list agrees with its health into another one, and none ends   *)
(* an ejection early.  The invariant then only has to say that whoever     *)
(* holds a cluster holds one that exists.                                  *)
(***************************************************************************)
EXTENDS UpstreamHealth, WellFoundedInduction, TLAPS

\* The provers get more time than by default: the contexts are large.
USE SMTT(15), ZenonT(30)

IsCluster(c) ==
    /\ c = [config |-> c.config, endpoints |-> c.endpoints,
            status |-> c.status, published |-> c.published]
    /\ c.status \in [Address -> Status]

Agrees(c) ==
    /\ c.published \subseteq Eligible(c)
    /\ \A a \in Eligible(c) \ c.published : a \in Address /\ c.status[a].ejected = "passed"

Good(c) == IsCluster(c) /\ Agrees(c)

\* No ejection of c ends early in d.
Keeps(c, d) ==
    \A a \in Address :
        c.status[a].ejected = "pending" /\ ListedOnce(d, a) => d.status[a].ejected # "no"

-----------------------------------------------------------------------------
(* The operations of a cluster.                                            *)

\* clear_expired_ejections keeps the shape of a cluster and touches passed
\* ejections only.
LEMMA ClearedCluster ==
    ASSUME NEW c, IsCluster(c)
    PROVE  /\ IsCluster(ClearExpired(c))
           /\ ClearExpired(c).endpoints = c.endpoints
           /\ \A a \in Address : c.status[a].ejected = "pending"
                  => ClearExpired(c).status[a].ejected = "pending"
  <1> DEFINE st == [a \in Address |->
                 IF c.status[a].ejected = "passed"
                 THEN [c.status[a] EXCEPT !.ejected = "no", !.errors = 0]
                 ELSE c.status[a]]
  <1>1. \A a \in Address : c.status[a] \in Status BY DEF IsCluster
  <1>2. 0 \in 0..MaxErrors BY ClusterAssumption DEF ClusterAssumption
  <1>3. \A a \in Address : [c.status[a] EXCEPT !.ejected = "no", !.errors = 0] \in Status
    BY <1>1, <1>2 DEF Status
  <1>4. st \in [Address -> Status] BY <1>1, <1>3, ZenonT(30)
  <1>5. \A a \in Address : c.status[a].ejected = "pending" => st[a].ejected = "pending"
    OBVIOUS
  <1>6. ClearExpired(c) = [c EXCEPT !.status = st] BY DEF ClearExpired
  <1> HIDE DEF st
  <1>7. ClearExpired(c) = [config |-> c.config, endpoints |-> c.endpoints,
                           status |-> st, published |-> c.published]
    BY <1>6 DEF IsCluster
  <1> QED BY <1>4, <1>5, <1>7 DEF IsCluster

\* refresh_state_from_health publishes a list that agrees with the health.
LEMMA Refreshed ==
    ASSUME NEW c, IsCluster(c)
    PROVE  /\ Good(RefreshState(c))
           /\ RefreshState(c).endpoints = c.endpoints
           /\ \A a \in Address : c.status[a].ejected = "pending"
                  => RefreshState(c).status[a].ejected = "pending"
  <1> DEFINE e == ClearExpired(c)
             r == [e EXCEPT !.published = Eligible(e)]
  <1>1. /\ IsCluster(e) /\ e.endpoints = c.endpoints
        /\ \A a \in Address : c.status[a].ejected = "pending"
               => e.status[a].ejected = "pending"
    BY ClearedCluster
  <1>2. RefreshState(c) = r BY DEF RefreshState
  <1> HIDE DEF e
  <1>3. r = [config |-> e.config, endpoints |-> e.endpoints,
             status |-> e.status, published |-> Eligible(e)]
    BY <1>1 DEF IsCluster
  <1>4. /\ r.endpoints = e.endpoints /\ r.status = e.status
        /\ r.published = Eligible(e) /\ r.config = e.config
    BY <1>3
  <1>5. IsCluster(r) BY <1>1, <1>3, <1>4 DEF IsCluster
  <1>6. Eligible(r) = Eligible(e) BY <1>4 DEF Eligible, Listed
  <1>7. Agrees(r) BY <1>4, <1>6 DEF Agrees
  <1> HIDE DEF r
  <1> QED BY <1>1, <1>2, <1>4, <1>5, <1>7 DEF Good

\* Changing the status of a cluster and refreshing it.
LEMMA StatusChanged ==
    ASSUME NEW c, IsCluster(c), NEW st \in [Address -> Status]
    PROVE  LET x == [c EXCEPT !.status = st]
           IN  /\ IsCluster(x) /\ x.endpoints = c.endpoints
               /\ x.status = st /\ x.published = c.published
  BY DEF IsCluster

\* refresh_expired_ejections
LEMMA RefreshExpiredGood ==
    ASSUME NEW c, Good(c)
    PROVE  Good(RefreshExpired(c)) /\ Keeps(c, RefreshExpired(c))
  <1>1. IsCluster(c) BY DEF Good
  <1>2. CASE RefreshExpired(c) = c BY <1>2 DEF Keeps
  <1>3. CASE RefreshExpired(c) = RefreshState(c)
    <2>1. /\ Good(RefreshState(c))
          /\ \A a \in Address : c.status[a].ejected = "pending"
                 => RefreshState(c).status[a].ejected = "pending"
      BY <1>1, Refreshed
    <2> QED BY <1>3, <2>1 DEF Keeps
  <1> QED BY <1>2, <1>3 DEF RefreshExpired

\* new_with_tls_materials: everything is fresh and published.
LEMMA NewGood ==
    ASSUME NEW conf, NEW eps
    PROVE  Good(NewCluster(conf, eps))
  <1> DEFINE st == [a \in Address |-> Fresh]
             x == [config |-> conf, endpoints |-> eps, status |-> st, published |-> {}]
  <1>1. Fresh \in Status BY ClusterAssumption DEF ClusterAssumption, Fresh, Status
  <1>2. st \in [Address -> Status] BY <1>1
  <1> HIDE DEF st
  <1>3. IsCluster(x) BY <1>2 DEF IsCluster
  <1>4. NewCluster(conf, eps) = RefreshState(x) BY DEF NewCluster, st
  <1> HIDE DEF x
  <1> QED BY <1>3, <1>4, Refreshed

\* update_endpoints: an address that is listed once keeps its status.
LEMMA UpdateGood ==
    ASSUME NEW c, Good(c), NEW eps
    PROVE  Good(UpdateEndpoints(c, eps)) /\ Keeps(c, UpdateEndpoints(c, eps))
  <1> DEFINE st == KeptStatus(c, eps)
             x == [c EXCEPT !.endpoints = eps, !.status = st]
  <1>1. IsCluster(c) BY DEF Good
  <1>2. Fresh \in Status BY ClusterAssumption DEF ClusterAssumption, Fresh, Status
  <1>3. st \in [Address -> Status] BY <1>1, <1>2 DEF KeptStatus, IsCluster
  <1>4. UpdateEndpoints(c, eps) = RefreshState(x) BY DEF UpdateEndpoints
  <1>5. ASSUME NEW a \in Address, c.status[a].ejected = "pending",
               \E i \in DOMAIN eps : /\ eps[i] = a
                                     /\ \A k \in DOMAIN eps : eps[k] = a => k = i
        PROVE  st[a].ejected = "pending"
    BY <1>5 DEF KeptStatus
  <1> HIDE DEF st
  <1>6. x = [config |-> c.config, endpoints |-> eps, status |-> st, published |-> c.published]
    <2> DEFINE y == [c EXCEPT !.endpoints = eps]
    <2>1. y = [config |-> c.config, endpoints |-> eps, status |-> c.status,
               published |-> c.published]
      BY <1>1 DEF IsCluster
    <2>2. x = [y EXCEPT !.status = st] OBVIOUS
    <2> HIDE DEF y
    <2> QED BY <2>1, <2>2
  <1>7. IsCluster(x) /\ x.endpoints = eps /\ x.status = st BY <1>3, <1>6 DEF IsCluster
  <1> HIDE DEF x
  <1>8. /\ Good(RefreshState(x)) /\ RefreshState(x).endpoints = eps
        /\ \A a \in Address : st[a].ejected = "pending"
               => RefreshState(x).status[a].ejected = "pending"
    BY <1>7, Refreshed
  <1>9. ASSUME NEW a \in Address, c.status[a].ejected = "pending",
               ListedOnce(RefreshState(x), a)
        PROVE  RefreshState(x).status[a].ejected # "no"
    <2>1. st[a].ejected = "pending" BY <1>5, <1>8, <1>9 DEF ListedOnce
    <2> QED BY <1>8, <2>1
  <1> QED BY <1>4, <1>8, <1>9 DEF Keeps

\* Every operation that changes the status of one address and refreshes.
LEMMA StatusThenRefresh ==
    ASSUME NEW c, Good(c), NEW a, NEW s,
           a \in Address => /\ s \in Status
                            /\ c.status[a].ejected = "pending" => s.ejected = "pending"
    PROVE  LET x == RefreshState([c EXCEPT !.status[a] = s])
           IN  Good(x) /\ Keeps(c, x)
  <1> DEFINE st == [c.status EXCEPT ![a] = s]
             x == [c EXCEPT !.status = st]
  <1>1. IsCluster(c) BY DEF Good
  <1>2. st \in [Address -> Status] BY <1>1, ZenonT(30) DEF IsCluster
  <1>3. \A b \in Address : c.status[b].ejected = "pending" => st[b].ejected = "pending"
    BY <1>1 DEF IsCluster
  <1>4. [c EXCEPT !.status[a] = s] = x OBVIOUS
  <1> HIDE DEF st
  <1>5. IsCluster(x) /\ x.status = st BY <1>1, <1>2, StatusChanged
  <1> HIDE DEF x
  <1>6. /\ Good(RefreshState(x))
        /\ \A b \in Address : st[b].ejected = "pending"
               => RefreshState(x).status[b].ejected = "pending"
    BY <1>5, Refreshed
  <1> QED BY <1>3, <1>4, <1>6 DEF Keeps

\* set_active_health
LEMMA SetActiveHealthGood ==
    ASSUME NEW c, Good(c), NEW a, NEW h \in {"healthy", "unhealthy"}
    PROVE  Good(SetActiveHealth(c, a, h)) /\ Keeps(c, SetActiveHealth(c, a, h))
  <1> DEFINE s == [c.status[a] EXCEPT !.active = h]
  <1>1. c.status \in [Address -> Status] BY DEF Good, IsCluster
  <1>2. a \in Address => /\ s \in Status
                         /\ c.status[a].ejected = "pending" => s.ejected = "pending"
    BY <1>1 DEF Status
  <1>3. [c EXCEPT !.status[a].active = h] = [c EXCEPT !.status[a] = s] OBVIOUS
  <1> HIDE DEF s
  <1>4. LET x == RefreshState([c EXCEPT !.status[a] = s]) IN Good(x) /\ Keeps(c, x)
    BY <1>2, StatusThenRefresh, ZenonT(30)
  <1>5. Keeps(c, c) BY DEF Keeps
  <1> QED BY <1>3, <1>4, <1>5 DEF SetActiveHealth

\* A count that changes without an ejection leaves the list as it is.
LEMMA CountOnly ==
    ASSUME NEW c, Good(c), NEW a, NEW n, a \in Address => n \in 0..MaxErrors
    PROVE  LET x == [c EXCEPT !.status[a].errors = n] IN Good(x) /\ Keeps(c, x)
  <1> DEFINE st == [c.status EXCEPT ![a].errors = n]
             x == [c EXCEPT !.status = st]
  <1>1. IsCluster(c) /\ Agrees(c) BY DEF Good
  <1>2. \A b \in Address : c.status[b] \in Status BY <1>1 DEF IsCluster
  <1>3. st \in [Address -> Status]
    <2>1. a \in Address => [c.status[a] EXCEPT !.errors = n] \in Status BY <1>2 DEF Status
    <2>2. c.status \in [Address -> Status] BY <1>1 DEF IsCluster
    <2> QED BY <2>1, <2>2, ZenonT(30)
  <1>4. \A b \in Address : /\ st[b].ejected = c.status[b].ejected
                           /\ st[b].active = c.status[b].active
    BY <1>1, <1>2, ZenonT(30) DEF IsCluster, Status
  <1>5. [c EXCEPT !.status[a].errors = n] = x OBVIOUS
  <1> HIDE DEF st
  <1>6. /\ IsCluster(x) /\ x.endpoints = c.endpoints
        /\ x.status = st /\ x.published = c.published
    BY <1>1, <1>3, StatusChanged
  <1> HIDE DEF x
  <1>7. DOMAIN c.status = Address /\ DOMAIN x.status = Address
    BY <1>1, <1>3, <1>6 DEF IsCluster
  <1>8. Eligible(x) = Eligible(c) BY <1>4, <1>6, <1>7 DEF Eligible, Listed
  <1>9. Agrees(x) BY <1>1, <1>4, <1>6, <1>8 DEF Agrees
  <1>10. Keeps(c, x) BY <1>4, <1>6 DEF Keeps
  <1> QED BY <1>5, <1>6, <1>9, <1>10 DEF Good

\* The deadline of an ejection: the endpoint waits for the next refresh.
LEMMA ExpireGood ==
    ASSUME NEW c, Good(c), NEW a \in Address, c.status[a].ejected = "pending"
    PROVE  Good(Expire(c, a)) /\ Keeps(c, Expire(c, a))
  <1> DEFINE st == [c.status EXCEPT ![a].ejected = "passed"]
             x == [c EXCEPT !.status = st]
  <1>1. IsCluster(c) /\ Agrees(c) BY DEF Good
  <1>2. \A b \in Address : c.status[b] \in Status BY <1>1 DEF IsCluster
  <1>3. st \in [Address -> Status]
    <2>1. [c.status[a] EXCEPT !.ejected = "passed"] \in Status BY <1>2 DEF Status
    <2>2. c.status \in [Address -> Status] BY <1>1 DEF IsCluster
    <2> QED BY <2>1, <2>2
  <1>4. /\ \A b \in Address \ {a} : st[b] = c.status[b]
        /\ st[a].ejected = "passed" /\ st[a].active = c.status[a].active
    BY <1>1, <1>2 DEF IsCluster, Status
  <1>5. Expire(c, a) = x BY DEF Expire
  <1> HIDE DEF st
  <1>6. /\ IsCluster(x) /\ x.endpoints = c.endpoints
        /\ x.status = st /\ x.published = c.published
    BY <1>1, <1>3, StatusChanged
  <1> HIDE DEF x
  <1>7. DOMAIN c.status = Address /\ DOMAIN x.status = Address
    BY <1>1, <1>3, <1>6 DEF IsCluster
  <1>8. Eligible(c) \subseteq Eligible(x) /\ Eligible(x) \ {a} \subseteq Eligible(c)
    BY <1>4, <1>6, <1>7 DEF Eligible, Listed
  <1>9. Agrees(x) BY <1>1, <1>4, <1>6, <1>8 DEF Agrees
  <1>10. Keeps(c, x) BY <1>4, <1>6 DEF Keeps
  <1> QED BY <1>5, <1>6, <1>9, <1>10 DEF Good

\* record_success and record_failure
LEMMA RecordOutcomeGood ==
    ASSUME NEW c, Good(c), NEW a, NEW ok
    PROVE  Good(RecordOutcome(c, a, ok)) /\ Keeps(c, RecordOutcome(c, a, ok))
  <1> DEFINE s == [c.status[a] EXCEPT !.errors = 0]
             t == [c.status[a] EXCEPT !.errors = 0, !.ejected = "pending"]
  <1>1. c.status \in [Address -> Status] BY DEF Good, IsCluster
  <1>2. 0 \in 0..MaxErrors BY ClusterAssumption DEF ClusterAssumption
  <1>3. Good(c) /\ Keeps(c, c) BY DEF Keeps
  <1>4. Good(RecordSuccess(c, a)) /\ Keeps(c, RecordSuccess(c, a))
    <2>1. a \in Address => /\ s \in Status
                           /\ c.status[a].ejected = "pending" => s.ejected = "pending"
      BY <1>1, <1>2 DEF Status
    <2>2. [c EXCEPT !.status[a].errors = 0] = [c EXCEPT !.status[a] = s] OBVIOUS
    <2> HIDE DEF s
    <2>3. LET x == RefreshState([c EXCEPT !.status[a] = s]) IN Good(x) /\ Keeps(c, x)
      BY <2>1, StatusThenRefresh
    <2> QED BY <1>3, <2>2, <2>3 DEF RecordSuccess
  <1>5. Good(RecordFailure(c, a)) /\ Keeps(c, RecordFailure(c, a))
    <2>1. a \in Address => /\ t \in Status
                           /\ c.status[a].ejected = "pending" => t.ejected = "pending"
      BY <1>1, <1>2, ZenonT(30) DEF Status
    <2>2. [c EXCEPT !.status[a].errors = 0, !.status[a].ejected = "pending"]
              = [c EXCEPT !.status[a] = t]
      BY ZenonT(30)
    <2> HIDE DEF t
    <2>3. LET x == RefreshState([c EXCEPT !.status[a] = t]) IN Good(x) /\ Keeps(c, x)
      BY <2>1, StatusThenRefresh
    <2>4. a \in Address => CountError(c, a) \in 0..MaxErrors
      BY <1>1, ClusterAssumption DEF CountError, Status, ClusterAssumption
    <2>5. LET x == [c EXCEPT !.status[a].errors = CountError(c, a)]
          IN  Good(x) /\ Keeps(c, x)
      BY <2>4, CountOnly, ZenonT(30)
    <2> QED BY <2>2, <2>3, <2>5 DEF RecordFailure
  <1> QED BY <1>3, <1>4, <1>5 DEF RecordOutcome

-----------------------------------------------------------------------------
(* The invariant: the clusters, and who may refer to them.                 *)

ClusterInv ==
    /\ gen \in Nat /\ gen \in DOMAIN cluster /\ DOMAIN cluster \subseteq 1..gen
    /\ cluster = [g \in DOMAIN cluster |-> cluster[g]]
    /\ \A g \in DOMAIN cluster : Good(cluster[g])

RequestInv ==
    /\ req = [r \in Request |-> req[r]]
    /\ \A r \in Request :
          /\ req[r] = [phase |-> req[r].phase, gen |-> req[r].gen,
                       attempt |-> req[r].attempt, endpoint |-> req[r].endpoint]
          /\ req[r].phase # "none" => req[r].gen \in DOMAIN cluster

JobInv ==
    /\ job = [j \in Job |-> job[j]]
    /\ \A j \in Job :
          /\ job[j] = [phase |-> job[j].phase, gen |-> job[j].gen,
                       todo |-> job[j].todo, answer |-> job[j].answer]
          /\ job[j].phase # "none" => job[j].gen \in DOMAIN cluster
          /\ job[j].answer \in {"healthy", "unhealthy"}

MonitorInv ==
    /\ mon = [seen |-> mon.seen, gen |-> mon.gen, plan |-> mon.plan, todo |-> mon.todo]
    /\ mon.plan # "none" => mon.gen \in DOMAIN cluster

IInv == ClusterInv /\ RequestInv /\ JobInv /\ MonitorInv

\* The step ends no ejection early.
Kept == \A g \in DOMAIN cluster \cap DOMAIN cluster' : Keeps(cluster[g], cluster'[g])

\* A step that puts a good cluster in the place of one.
LEMMA OneCluster ==
    ASSUME ClusterInv, gen' = gen,
           NEW g \in DOMAIN cluster, NEW d, Good(d), Keeps(cluster[g], d),
           cluster' = [cluster EXCEPT ![g] = d]
    PROVE  ClusterInv' /\ Kept /\ DOMAIN cluster' = DOMAIN cluster
  <1>1. DOMAIN cluster' = DOMAIN cluster OBVIOUS
  <1>2. \A k \in DOMAIN cluster : cluster'[k] = IF k = g THEN d ELSE cluster[k] OBVIOUS
  <1>3. cluster' = [k \in DOMAIN cluster' |-> cluster'[k]] BY ZenonT(30)
  <1>4. \A k \in DOMAIN cluster : Good(cluster'[k])
    BY <1>2 DEF ClusterInv
  <1>5. \A k \in DOMAIN cluster : Keeps(cluster[k], cluster'[k])
    <2>1. \A k : Keeps(cluster[k], cluster[k]) BY DEF Keeps
    <2> QED BY <1>2, <2>1
  <1>6. ClusterInv'
    <2>1. \A k \in DOMAIN cluster' : Good(cluster[k])' BY <1>1, <1>4 DEF Good, IsCluster, Agrees, Eligible, Listed
    <2> QED BY <1>1, <1>3, <2>1 DEF ClusterInv
  <1> QED BY <1>1, <1>5, <1>6 DEF Kept

\* A step that leaves the clusters alone.
LEMMA SameClusters ==
    ASSUME ClusterInv, gen' = gen, cluster' = cluster
    PROVE  ClusterInv' /\ Kept /\ DOMAIN cluster' = DOMAIN cluster
  <1>1. ClusterInv' BY DEF ClusterInv, Good, IsCluster, Agrees, Eligible, Listed
  <1>2. \A g \in DOMAIN cluster : Keeps(cluster[g], cluster[g]) BY DEF Keeps
  <1> QED BY <1>1, <1>2, ZenonT(30) DEF Kept

\* Whoever takes no part in a step still refers to a cluster that exists.
LEMMA Untouched ==
    ASSUME DOMAIN cluster \subseteq DOMAIN cluster'
    PROVE  /\ RequestInv /\ req' = req => RequestInv'
           /\ JobInv /\ job' = job => JobInv'
           /\ MonitorInv /\ mon' = mon => MonitorInv'
  BY DEF RequestInv, JobInv, MonitorInv

\* A request that changes, and still refers to a cluster.
LEMMA OneRequest ==
    ASSUME RequestInv, DOMAIN cluster' = DOMAIN cluster, NEW r \in Request, NEW q,
           q = [phase |-> q.phase, gen |-> q.gen, attempt |-> q.attempt, endpoint |-> q.endpoint],
           q.phase # "none" => q.gen \in DOMAIN cluster,
           req' = [req EXCEPT ![r] = q]
    PROVE  RequestInv'
  <1>1. \A k \in Request : req'[k] = IF k = r THEN q ELSE req[k] BY DEF RequestInv
  <1>2. req' = [k \in Request |-> req'[k]] BY DEF RequestInv
  <1>3. \A k \in Request :
           /\ req'[k] = [phase |-> req'[k].phase, gen |-> req'[k].gen,
                         attempt |-> req'[k].attempt, endpoint |-> req'[k].endpoint]
           /\ req'[k].phase # "none" => req'[k].gen \in DOMAIN cluster'
    <2> SUFFICES ASSUME NEW k \in Request
                 PROVE  /\ req'[k] = [phase |-> req'[k].phase, gen |-> req'[k].gen,
                                      attempt |-> req'[k].attempt, endpoint |-> req'[k].endpoint]
                        /\ req'[k].phase # "none" => req'[k].gen \in DOMAIN cluster'
      OBVIOUS
    <2>1. CASE k = r BY <1>1, <2>1
    <2>2. CASE k # r BY <1>1, <2>2 DEF RequestInv
    <2> QED BY <2>1, <2>2
  <1> QED BY <1>2, <1>3 DEF RequestInv

\* A probe job that changes, and still refers to a cluster.
LEMMA OneJob ==
    ASSUME JobInv, DOMAIN cluster' = DOMAIN cluster, NEW j \in Job, NEW q,
           q = [phase |-> q.phase, gen |-> q.gen, todo |-> q.todo, answer |-> q.answer],
           q.phase # "none" => q.gen \in DOMAIN cluster,
           q.answer \in {"healthy", "unhealthy"},
           job' = [job EXCEPT ![j] = q]
    PROVE  JobInv'
  <1>1. \A k \in Job : job'[k] = IF k = j THEN q ELSE job[k] BY DEF JobInv
  <1>2. job' = [k \in Job |-> job'[k]] BY DEF JobInv
  <1>3. \A k \in Job :
           /\ job'[k] = [phase |-> job'[k].phase, gen |-> job'[k].gen,
                         todo |-> job'[k].todo, answer |-> job'[k].answer]
           /\ job'[k].phase # "none" => job'[k].gen \in DOMAIN cluster'
           /\ job'[k].answer \in {"healthy", "unhealthy"}
    <2> SUFFICES ASSUME NEW k \in Job
                 PROVE  /\ job'[k] = [phase |-> job'[k].phase, gen |-> job'[k].gen,
                                      todo |-> job'[k].todo, answer |-> job'[k].answer]
                        /\ job'[k].phase # "none" => job'[k].gen \in DOMAIN cluster'
                        /\ job'[k].answer \in {"healthy", "unhealthy"}
      OBVIOUS
    <2>1. CASE k = j BY <1>1, <2>1
    <2>2. CASE k # j BY <1>1, <2>2 DEF JobInv
    <2> QED BY <2>1, <2>2
  <1> QED BY <1>2, <1>3 DEF JobInv

\* logging: the outcome goes to the cluster the request holds.
LEMMA LoggingKeeps ==
    ASSUME ClusterInv, RequestInv, gen' = gen, NEW r \in Request, NEW ok,
           req[r].phase # "none", Logging(r, ok)
    PROVE  ClusterInv' /\ RequestInv' /\ Kept /\ DOMAIN cluster' = DOMAIN cluster
  <1> DEFINE g == req[r].gen
             d == RecordOutcome(cluster[g], req[r].endpoint, ok)
  <1>1. g \in DOMAIN cluster BY DEF RequestInv
  <1>2. Good(cluster[g]) BY <1>1 DEF ClusterInv
  <1>3. Good(d) /\ Keeps(cluster[g], d) BY <1>2, RecordOutcomeGood
  <1>4. cluster' = cluster \/ cluster' = [cluster EXCEPT ![g] = d] BY DEF Logging
  <1> HIDE DEF d
  <1>5. ClusterInv' /\ Kept /\ DOMAIN cluster' = DOMAIN cluster
    <2>1. CASE cluster' = cluster BY <2>1, SameClusters
    <2>2. CASE cluster' = [cluster EXCEPT ![g] = d] BY <1>1, <1>3, <2>2, OneCluster, ZenonT(30)
    <2> QED BY <1>4, <2>1, <2>2
  <1>6. req' = [req EXCEPT ![r] = NoRequest] BY DEF Logging
  <1>7. /\ NoRequest = [phase |-> NoRequest.phase, gen |-> NoRequest.gen,
                        attempt |-> NoRequest.attempt, endpoint |-> NoRequest.endpoint]
        /\ NoRequest.phase = "none"
    BY DEF NoRequest
  <1>8. RequestInv' BY <1>5, <1>6, <1>7, OneRequest, ZenonT(30)
  <1> QED BY <1>5, <1>8

\* The steps of a request.
LEMMA RequestKeeps ==
    ASSUME IInv, NEW r \in Request, RequestStep(r)
    PROVE  IInv' /\ Kept
  <1>1. ClusterInv /\ RequestInv /\ JobInv /\ MonitorInv BY DEF IInv
  <1>2. gen' = gen /\ job' = job /\ mon' = mon
    BY DEF RequestStep, Arrive, SelectRefresh, SelectLoad, NoEndpoint, Succeed, Fail, Retry
  <1>3. ASSUME ClusterInv', RequestInv', Kept, DOMAIN cluster' = DOMAIN cluster
        PROVE  IInv' /\ Kept
    <2>1. DOMAIN cluster \subseteq DOMAIN cluster' BY <1>3
    <2> QED BY <1>1, <1>2, <1>3, <2>1, Untouched DEF IInv
  <1>4. CASE Arrive(r)
    <2> DEFINE q == [phase |-> "arrived", gen |-> gen, attempt |-> 1, endpoint |-> None]
    <2>1. cluster' = cluster /\ req' = [req EXCEPT ![r] = q] BY <1>4 DEF Arrive
    <2>2. ClusterInv' /\ Kept /\ DOMAIN cluster' = DOMAIN cluster BY <1>1, <1>2, <2>1, SameClusters
    <2>3. gen \in DOMAIN cluster BY <1>1 DEF ClusterInv
    <2>4. RequestInv' BY <1>1, <2>1, <2>2, <2>3, OneRequest, ZenonT(30)
    <2> QED BY <1>3, <2>2, <2>4
  <1>5. CASE SelectRefresh(r)
    <2> DEFINE g == req[r].gen
               d == RefreshExpired(cluster[g])
               q == [req[r] EXCEPT !.phase = "refreshed"]
    <2>1. g \in DOMAIN cluster BY <1>1, <1>5 DEF RequestInv, SelectRefresh
    <2>2. Good(d) /\ Keeps(cluster[g], d) BY <1>1, <2>1, RefreshExpiredGood DEF ClusterInv
    <2>3. cluster' = [cluster EXCEPT ![g] = d] BY <1>5 DEF SelectRefresh
    <2> HIDE DEF d
    <2>4. ClusterInv' /\ Kept /\ DOMAIN cluster' = DOMAIN cluster
      BY <1>1, <1>2, <2>1, <2>2, <2>3, OneCluster, ZenonT(30)
    <2>5. req' = [req EXCEPT ![r] = q] BY <1>5 DEF SelectRefresh
    <2>6. q = [phase |-> "refreshed", gen |-> g, attempt |-> req[r].attempt,
               endpoint |-> req[r].endpoint]
      BY <1>1 DEF RequestInv
    <2> HIDE DEF q
    <2>7. RequestInv' BY <1>1, <2>1, <2>4, <2>5, <2>6, OneRequest, ZenonT(30)
    <2> QED BY <1>3, <2>4, <2>7
  <1>6. CASE SelectLoad(r)
    <2>1. PICK a \in cluster[req[r].gen].published :
             req' = [req EXCEPT ![r].phase = "sent", ![r].endpoint = a]
      BY <1>6, ZenonT(30) DEF SelectLoad
    <2> DEFINE q == [phase |-> "sent", gen |-> req[r].gen, attempt |-> req[r].attempt,
                     endpoint |-> a]
    <2>2. [req[r] EXCEPT !.phase = "sent", !.endpoint = a] = q
      <3> DEFINE y == [req[r] EXCEPT !.phase = "sent"]
      <3>1. y = [phase |-> "sent", gen |-> req[r].gen, attempt |-> req[r].attempt,
                 endpoint |-> req[r].endpoint]
        BY <1>1 DEF RequestInv
      <3>2. [req[r] EXCEPT !.phase = "sent", !.endpoint = a] = [y EXCEPT !.endpoint = a] OBVIOUS
      <3> HIDE DEF y
      <3> QED BY <3>1, <3>2
    <2>3. req' = [req EXCEPT ![r] = q] BY <2>1, <2>2, ZenonT(30)
    <2>4. req[r].gen \in DOMAIN cluster BY <1>1, <1>6 DEF RequestInv, SelectLoad
    <2>5. ClusterInv' /\ Kept /\ DOMAIN cluster' = DOMAIN cluster
      BY <1>1, <1>2, <1>6, SameClusters DEF SelectLoad
    <2>6. RequestInv' BY <1>1, <2>3, <2>4, <2>5, OneRequest, ZenonT(30)
    <2> QED BY <1>3, <2>5, <2>6
  <1>7. CASE NoEndpoint(r) \/ Succeed(r) \/ Fail(r)
    <2>1. PICK ok : Logging(r, ok) BY <1>7 DEF NoEndpoint, Succeed, Fail
    <2>2. req[r].phase # "none" BY <1>7 DEF NoEndpoint, Succeed, Fail
    <2>3. ClusterInv' /\ RequestInv' /\ Kept /\ DOMAIN cluster' = DOMAIN cluster
      BY <1>1, <1>2, <2>1, <2>2, LoggingKeeps
    <2> QED BY <1>3, <2>3
  <1>8. CASE Retry(r)
    <2> DEFINE q == [phase |-> "arrived", gen |-> req[r].gen, attempt |-> req[r].attempt + 1,
                     endpoint |-> req[r].endpoint]
    <2>1. req' = [req EXCEPT ![r].phase = "arrived", ![r].attempt = req[r].attempt + 1]
      BY <1>8 DEF Retry
    <2>2. [req[r] EXCEPT !.phase = "arrived", !.attempt = req[r].attempt + 1] = q
      <3> DEFINE y == [req[r] EXCEPT !.phase = "arrived"]
      <3>1. y = [phase |-> "arrived", gen |-> req[r].gen, attempt |-> req[r].attempt,
                 endpoint |-> req[r].endpoint]
        BY <1>1 DEF RequestInv
      <3>2. [req[r] EXCEPT !.phase = "arrived", !.attempt = req[r].attempt + 1]
                = [y EXCEPT !.attempt = req[r].attempt + 1]
        OBVIOUS
      <3> HIDE DEF y
      <3> QED BY <3>1, <3>2
    <2>3. req' = [req EXCEPT ![r] = q] BY <2>1, <2>2, ZenonT(30)
    <2>4. req[r].gen \in DOMAIN cluster BY <1>1, <1>8 DEF RequestInv, Retry
    <2>5. ClusterInv' /\ Kept /\ DOMAIN cluster' = DOMAIN cluster
      BY <1>1, <1>2, <1>8, SameClusters DEF Retry
    <2>6. RequestInv' BY <1>1, <2>3, <2>4, <2>5, OneRequest, ZenonT(30)
    <2> QED BY <1>3, <2>5, <2>6
  <1> QED BY <1>4, <1>5, <1>6, <1>7, <1>8 DEF RequestStep

\* The steps of a probe job.
LEMMA JobKeeps ==
    ASSUME IInv, NEW j \in Job, JobStep(j)
    PROVE  IInv' /\ Kept
  <1>1. ClusterInv /\ RequestInv /\ JobInv /\ MonitorInv BY DEF IInv
  <1>2. gen' = gen /\ req' = req /\ mon' = mon
    BY DEF JobStep, JobStarts, ProbeAnswers, ProbeApplies
  <1>3. ASSUME ClusterInv', JobInv', Kept, DOMAIN cluster' = DOMAIN cluster
        PROVE  IInv' /\ Kept
    <2>1. DOMAIN cluster \subseteq DOMAIN cluster' BY <1>3
    <2> QED BY <1>1, <1>2, <1>3, <2>1, Untouched DEF IInv
  <1>4. /\ job[j] = [phase |-> job[j].phase, gen |-> job[j].gen,
                     todo |-> job[j].todo, answer |-> job[j].answer]
        /\ job[j].answer \in {"healthy", "unhealthy"}
    BY <1>1 DEF JobInv
  <1>5. job[j].gen \in DOMAIN cluster
    BY <1>1 DEF JobInv, JobStep, JobStarts, ProbeAnswers, ProbeApplies
  <1>6. /\ NoJob = [phase |-> NoJob.phase, gen |-> NoJob.gen,
                    todo |-> NoJob.todo, answer |-> NoJob.answer]
        /\ NoJob.phase = "none" /\ NoJob.answer = "healthy"
    BY DEF NoJob
  <1>7. CASE JobStarts(j)
    <2> DEFINE eps == cluster[job[j].gen].endpoints
               y == [job[j] EXCEPT !.phase = "probing"]
               q == [job[j] EXCEPT !.phase = "probing", !.todo = eps]
    <2>1. ClusterInv' /\ Kept /\ DOMAIN cluster' = DOMAIN cluster
      BY <1>1, <1>2, <1>7, SameClusters DEF JobStarts
    <2>2. job' = [job EXCEPT ![j] = NoJob] \/ job' = [job EXCEPT ![j] = q]
      BY <1>7, ZenonT(30) DEF JobStarts
    <2>3. q = [y EXCEPT !.todo = eps] OBVIOUS
    <2> HIDE DEF eps
    <2>4. y = [phase |-> "probing", gen |-> job[j].gen, todo |-> job[j].todo,
               answer |-> job[j].answer]
      BY <1>4
    <2> HIDE DEF q, y
    <2>5. q = [phase |-> "probing", gen |-> job[j].gen, todo |-> eps, answer |-> job[j].answer]
      BY <2>3, <2>4
    <2>6. CASE job' = [job EXCEPT ![j] = NoJob] BY <1>1, <1>3, <1>6, <2>1, <2>6, OneJob, ZenonT(30)
    <2>7. CASE job' = [job EXCEPT ![j] = q]
      BY <1>1, <1>3, <1>4, <1>5, <2>1, <2>5, <2>7, OneJob, ZenonT(30)
    <2> QED BY <2>2, <2>6, <2>7
  <1>8. CASE ProbeAnswers(j)
    <2>1. ClusterInv' /\ Kept /\ DOMAIN cluster' = DOMAIN cluster
      BY <1>1, <1>2, <1>8, SameClusters DEF ProbeAnswers
    <2>2. PICK ans \in {"healthy", "unhealthy"} :
             job' = [job EXCEPT ![j].phase = "answered", ![j].answer = ans]
      BY <1>8, ZenonT(30) DEF ProbeAnswers
    <2> DEFINE y == [job[j] EXCEPT !.phase = "answered"]
               q == [job[j] EXCEPT !.phase = "answered", !.answer = ans]
    <2>3. job' = [job EXCEPT ![j] = q] BY <2>2, ZenonT(30)
    <2>4. q = [y EXCEPT !.answer = ans] OBVIOUS
    <2>5. y = [phase |-> "answered", gen |-> job[j].gen, todo |-> job[j].todo,
               answer |-> job[j].answer]
      BY <1>4
    <2> HIDE DEF q, y
    <2>6. q = [phase |-> "answered", gen |-> job[j].gen, todo |-> job[j].todo, answer |-> ans]
      BY <2>4, <2>5
    <2>7. JobInv' BY <1>1, <1>5, <2>1, <2>3, <2>6, OneJob, ZenonT(30)
    <2> QED BY <1>3, <2>1, <2>7
  <1>9. CASE ProbeApplies(j)
    <2> DEFINE g == job[j].gen
               d == SetActiveHealth(cluster[g], Head(job[j].todo), job[j].answer)
               q == [phase |-> "probing", gen |-> g, todo |-> Tail(job[j].todo),
                     answer |-> "healthy"]
    <2>1. Good(d) /\ Keeps(cluster[g], d)
      BY <1>1, <1>4, <1>5, SetActiveHealthGood DEF ClusterInv
    <2>2. cluster' = [cluster EXCEPT ![g] = d] BY <1>9 DEF ProbeApplies
    <2> HIDE DEF d
    <2>3. ClusterInv' /\ Kept /\ DOMAIN cluster' = DOMAIN cluster
      BY <1>1, <1>2, <1>5, <2>1, <2>2, OneCluster, ZenonT(30)
    <2>4. job' = [job EXCEPT ![j] = NextProbe(job[j])] BY <1>9 DEF ProbeApplies
    <2>5. NextProbe(job[j]) = NoJob \/ NextProbe(job[j]) = q BY DEF NextProbe
    <2>6. JobInv'
      <3>1. CASE job' = [job EXCEPT ![j] = NoJob] BY <1>1, <1>6, <2>3, <3>1, OneJob, ZenonT(30)
      <3>2. CASE job' = [job EXCEPT ![j] = q] BY <1>1, <1>5, <2>3, <3>2, OneJob, ZenonT(30)
      <3> QED BY <2>4, <2>5, <3>1, <3>2, ZenonT(30)
    <2> QED BY <1>3, <2>3, <2>6
  <1> QED BY <1>7, <1>8, <1>9 DEF JobStep

\* The steps of the monitor.
LEMMA MonitorKeeps ==
    ASSUME IInv, Tick \/ MarkUnhealthy \/ \E j \in Job : TickDue(j)
    PROVE  IInv' /\ Kept
  <1>1. ClusterInv /\ RequestInv /\ JobInv /\ MonitorInv BY DEF IInv
  <1>2. gen' = gen /\ req' = req BY DEF Tick, MarkUnhealthy, TickDue
  <1>3. /\ Scheduled = [seen |-> Scheduled.seen, gen |-> Scheduled.gen,
                        plan |-> Scheduled.plan, todo |-> Scheduled.todo]
        /\ Scheduled.plan # "none" => Scheduled.gen \in DOMAIN cluster
    <2>1. CASE Scheduled = mon BY <1>1, <2>1 DEF MonitorInv
    <2>2. CASE Scheduled = Rebuilt
      <3>1. gen \in DOMAIN cluster BY <1>1 DEF ClusterInv
      <3>2. PICK p : \E t : Rebuilt = [seen |-> place[gen], gen |-> gen, plan |-> p, todo |-> t]
        BY ZenonT(30) DEF Rebuilt
      <3>3. PICK t : Rebuilt = [seen |-> place[gen], gen |-> gen, plan |-> p, todo |-> t]
        BY <3>2, ZenonT(30)
      <3> QED BY <2>2, <3>1, <3>3
    <2> QED BY <2>1, <2>2 DEF Scheduled
  <1>4. ASSUME ClusterInv', JobInv', MonitorInv', Kept, DOMAIN cluster' = DOMAIN cluster
        PROVE  IInv' /\ Kept
    <2>1. DOMAIN cluster \subseteq DOMAIN cluster' BY <1>4
    <2> QED BY <1>1, <1>2, <1>4, <2>1, Untouched DEF IInv
  <1>5. ASSUME cluster' = cluster, mon' = Scheduled
        PROVE  ClusterInv' /\ MonitorInv' /\ Kept /\ DOMAIN cluster' = DOMAIN cluster
    <2>1. ClusterInv' /\ Kept /\ DOMAIN cluster' = DOMAIN cluster
      BY <1>1, <1>2, <1>5, SameClusters
    <2> HIDE DEF Scheduled
    <2>2. MonitorInv' BY <1>3, <1>5, <2>1 DEF MonitorInv
    <2> QED BY <2>1, <2>2
  <1>6. CASE Tick
    <2>1. ClusterInv' /\ MonitorInv' /\ Kept /\ DOMAIN cluster' = DOMAIN cluster
      BY <1>5, <1>6 DEF Tick
    <2>2. JobInv' BY <1>1, <1>6, <2>1, Untouched DEF Tick
    <2> QED BY <1>4, <2>1, <2>2
  <1>7. CASE \E j \in Job : TickDue(j)
    <2>1. PICK j \in Job : TickDue(j) BY <1>7
    <2>2. ClusterInv' /\ MonitorInv' /\ Kept /\ DOMAIN cluster' = DOMAIN cluster
      BY <1>5, <2>1 DEF TickDue
    <2> DEFINE q == [phase |-> "spawned", gen |-> Scheduled.gen, todo |-> <<>>,
                     answer |-> "healthy"]
    <2>4. job' = [job EXCEPT ![j] = q] BY <2>1 DEF TickDue
    <2>5. Scheduled.gen \in DOMAIN cluster BY <1>3, <2>1 DEF TickDue
    <2>6. JobInv' BY <1>1, <2>2, <2>4, <2>5, OneJob, ZenonT(30)
    <2> QED BY <1>4, <2>2, <2>6
  <1>8. CASE MarkUnhealthy
    <2> DEFINE g == mon.gen
               d == SetActiveHealth(cluster[g], Head(mon.todo), "unhealthy")
    <2>1. g \in DOMAIN cluster BY <1>1, <1>8 DEF MonitorInv, MarkUnhealthy
    <2>2. Good(d) /\ Keeps(cluster[g], d) BY <1>1, <2>1, SetActiveHealthGood DEF ClusterInv
    <2>3. cluster' = cluster \/ cluster' = [cluster EXCEPT ![g] = d]
      BY <1>8 DEF MarkUnhealthy
    <2> HIDE DEF d
    <2>4. ClusterInv' /\ Kept /\ DOMAIN cluster' = DOMAIN cluster
      <3>1. CASE cluster' = cluster BY <1>1, <1>2, <3>1, SameClusters
      <3>2. CASE cluster' = [cluster EXCEPT ![g] = d]
        BY <1>1, <1>2, <2>1, <2>2, <3>2, OneCluster, ZenonT(30)
      <3> QED BY <2>3, <3>1, <3>2
    <2>5. MonitorInv'
      <3> DEFINE rest == Tail(mon.todo)
      <3>1. mon' = [mon EXCEPT !.plan = "none"] \/ mon' = [mon EXCEPT !.todo = rest]
        BY <1>8 DEF MarkUnhealthy
      <3> HIDE DEF rest
      <3>2. \/ mon' = [seen |-> mon.seen, gen |-> mon.gen, plan |-> "none", todo |-> mon.todo]
            \/ mon' = [seen |-> mon.seen, gen |-> mon.gen, plan |-> mon.plan, todo |-> rest]
        BY <1>1, <3>1 DEF MonitorInv
      <3> QED BY <2>1, <2>4, <3>2 DEF MonitorInv
    <2>6. JobInv' BY <1>1, <1>8, <2>4, Untouched DEF MarkUnhealthy
    <2> QED BY <1>4, <2>4, <2>5, <2>6
  <1> QED BY <1>6, <1>7, <1>8

\* The other steps: the resolver, deadlines, the network, reloads.
LEMMA OthersKeep ==
    ASSUME IInv,
           \/ ResolveStarts \/ ResolveAnswers \/ ResolveFails \/ ResolveApplies
           \/ \E g \in Gen, a \in Address : EjectionPasses(g, a)
           \/ \E a \in Address : NetChanges(a)
           \/ \E h \in Host : ZoneChanges(h)
    PROVE  IInv' /\ Kept
  <1>1. ClusterInv /\ RequestInv /\ JobInv /\ MonitorInv BY DEF IInv
  <1>2. gen' = gen /\ req' = req /\ job' = job /\ mon' = mon
    BY DEF ResolveStarts, ResolveAnswers, ResolveFails, ResolveApplies, EjectionPasses,
           NetChanges, ZoneChanges
  <1>3. ASSUME ClusterInv', Kept, DOMAIN cluster' = DOMAIN cluster
        PROVE  IInv' /\ Kept
    <2>1. DOMAIN cluster \subseteq DOMAIN cluster' BY <1>3
    <2> QED BY <1>1, <1>2, <1>3, <2>1, Untouched DEF IInv
  <1>4. CASE cluster' = cluster BY <1>1, <1>2, <1>3, <1>4, SameClusters
  <1>5. CASE ResolveApplies
    <2> DEFINE d == UpdateEndpoints(cluster[gen], res.result)
    <2>1. gen \in DOMAIN cluster BY <1>1 DEF ClusterInv
    <2>2. Good(d) /\ Keeps(cluster[gen], d) BY <1>1, <2>1, UpdateGood DEF ClusterInv
    <2>3. cluster' = [cluster EXCEPT ![gen] = d] BY <1>5 DEF ResolveApplies
    <2> HIDE DEF d
    <2> QED BY <1>1, <1>2, <1>3, <2>1, <2>2, <2>3, OneCluster, ZenonT(30)
  <1>6. CASE \E g \in Gen, a \in Address : EjectionPasses(g, a)
    <2>1. PICK g \in Gen : \E a \in Address : EjectionPasses(g, a) BY <1>6
    <2>2. PICK a \in Address : EjectionPasses(g, a) BY <2>1
    <2> DEFINE d == Expire(cluster[g], a)
    <2>3. g \in DOMAIN cluster BY <2>2 DEF EjectionPasses
    <2>4. Good(d) /\ Keeps(cluster[g], d)
      BY <1>1, <2>2, <2>3, ExpireGood DEF ClusterInv, EjectionPasses
    <2>5. cluster' = [cluster EXCEPT ![g] = d] BY <2>2 DEF EjectionPasses
    <2> HIDE DEF d
    <2> QED BY <1>1, <1>2, <1>3, <2>3, <2>4, <2>5, OneCluster, ZenonT(30)
  <1>7. cluster' = cluster \/ ResolveApplies
           \/ \E g \in Gen, a \in Address : EjectionPasses(g, a)
    BY DEF ResolveStarts, ResolveAnswers, ResolveFails, NetChanges, ZoneChanges
  <1> QED BY <1>4, <1>5, <1>6, <1>7

\* RuntimeStateHandle::store: one more cluster, the others as they were.
LEMMA ReloadKeeps ==
    ASSUME IInv, NEW conf \in Config, Reload(conf)
    PROVE  IInv' /\ Kept
  <1> DEFINE n == NewCluster(conf, Materialize(conf))
  <1>1. ClusterInv /\ RequestInv /\ JobInv /\ MonitorInv BY DEF IInv
  <1>2. Good(n) BY NewGood
  <1>3. /\ gen' = gen + 1
        /\ cluster' = [g \in DOMAIN cluster \cup {gen + 1} |->
                          IF g = gen + 1 THEN n ELSE cluster[g]]
        /\ req' = req /\ job' = job /\ mon' = mon
    BY DEF Reload
  <1> HIDE DEF n
  <1>4. DOMAIN cluster' = DOMAIN cluster \cup {gen + 1} BY <1>3
  <1>5. gen + 1 \notin DOMAIN cluster BY <1>1 DEF ClusterInv
  <1>6. \A g \in DOMAIN cluster : cluster'[g] = cluster[g] BY <1>3, <1>5
  <1>7. cluster'[gen + 1] = n BY <1>3
  <1>8. Kept
    <2>1. \A g : Keeps(cluster[g], cluster[g]) BY DEF Keeps
    <2> QED BY <1>4, <1>5, <1>6, <2>1 DEF Kept
  <1>9. ClusterInv'
    <2>1. \A g \in DOMAIN cluster' : Good(cluster'[g])
      BY <1>1, <1>2, <1>4, <1>6, <1>7 DEF ClusterInv
    <2>2. gen' \in Nat /\ gen' \in DOMAIN cluster' /\ DOMAIN cluster' \subseteq 1..gen'
      BY <1>1, <1>3, <1>4 DEF ClusterInv
    <2>3. cluster' = [g \in DOMAIN cluster' |-> cluster'[g]] BY <1>3
    <2>4. \A g \in DOMAIN cluster' : Good(cluster[g])'
      BY <2>1 DEF Good, IsCluster, Agrees, Eligible, Listed
    <2> QED BY <2>2, <2>3, <2>4 DEF ClusterInv
  <1>10. RequestInv' /\ JobInv' /\ MonitorInv' BY <1>1, <1>3, <1>4, Untouched
  <1> QED BY <1>8, <1>9, <1>10 DEF IInv

\* The last Arc is dropped: nobody refers to the cluster any more.
LEMMA ReleaseKeeps ==
    ASSUME IInv, NEW g \in Gen, Release(g)
    PROVE  IInv' /\ Kept
  <1>1. ClusterInv /\ RequestInv /\ JobInv /\ MonitorInv BY DEF IInv
  <1>2. /\ gen' = gen /\ req' = req /\ job' = job /\ mon' = mon
        /\ cluster' = [k \in DOMAIN cluster \ {g} |-> cluster[k]]
        /\ g \in DOMAIN cluster /\ g < gen
    BY DEF Release
  <1>3. DOMAIN cluster' = DOMAIN cluster \ {g} BY <1>2
  <1>4. \A k \in DOMAIN cluster' : cluster'[k] = cluster[k] BY <1>2, <1>3
  <1>5. Kept
    <2>1. \A k : Keeps(cluster[k], cluster[k]) BY DEF Keeps
    <2> QED BY <1>4, <2>1 DEF Kept
  <1>6. ClusterInv'
    <2>1. \A k \in DOMAIN cluster' : Good(cluster'[k]) BY <1>1, <1>3, <1>4 DEF ClusterInv
    <2>2. gen' \in Nat /\ gen' \in DOMAIN cluster' /\ DOMAIN cluster' \subseteq 1..gen'
      BY <1>1, <1>2, <1>3 DEF ClusterInv
    <2>3. cluster' = [k \in DOMAIN cluster' |-> cluster'[k]] BY <1>2
    <2>4. \A k \in DOMAIN cluster' : Good(cluster[k])'
      BY <2>1 DEF Good, IsCluster, Agrees, Eligible, Listed
    <2> QED BY <2>2, <2>3, <2>4 DEF ClusterInv
  <1>7. ASSUME NEW r \in Request, req[r].phase # "none"
        PROVE  req[r].gen \in DOMAIN cluster'
    <2>1. req[r].gen \in DOMAIN cluster /\ req[r].gen # 0
      BY <1>1, <1>7 DEF RequestInv, ClusterInv
    <2>2. req[r].gen \in Held BY <2>1 DEF Held
    <2> QED BY <1>3, <2>1, <2>2 DEF Release
  <1>8. RequestInv' BY <1>1, <1>2, <1>7 DEF RequestInv
  <1>9. JobInv' BY <1>1, <1>2, <1>3 DEF JobInv, Release
  <1>10. MonitorInv' BY <1>1, <1>2, <1>3 DEF MonitorInv, Release
  <1> QED BY <1>5, <1>6, <1>8, <1>9, <1>10 DEF IInv

-----------------------------------------------------------------------------
(* Lists of endpoints hold addresses.                                      *)

\* A set of numbers that is not empty has a least element.
LEMMA Least ==
    ASSUME NEW T, T \subseteq Nat, T # {}
    PROVE  \E x \in T : \A y \in T : x <= y
  <1>1. PICK x \in T : \A y \in T : ~ (<<y, x>> \in OpToRel(<, Nat))
    BY WFMin, NatLessThanWellFounded, ZenonT(30)
  <1>2. \A y \in T : x <= y
    <2> SUFFICES ASSUME NEW y \in T, y < x PROVE FALSE OBVIOUS
    <2>1. <<y, x>> \in Nat \X Nat /\ <<y, x>>[1] < <<y, x>>[2] OBVIOUS
    <2> QED BY <1>1, <2>1 DEF OpToRel
  <1> QED BY <1>2

\* materialize_all_endpoints and resolve_strict_dns make a list of addresses.
LEMMA AllAddresses ==
    ASSUME zone \in [Host -> ZoneAnswer], NEW eps \in Seq(Address \cup Host)
    PROVE  AllEndpoints(eps) \in Seq(Address)
  <1> DEFINE N == Len(eps)
             Walk(f, n) == f = [i \in 0..n |-> IF i = 0 THEN <<>> ELSE f[i - 1] \o Lookup(eps[i])]
             upto == CHOOSE f : Walk(f, N)
  <1>1. \A i \in 1..N : Lookup(eps[i]) \in Seq(Address)
    BY HealthAssumption DEF HealthAssumption, Lookup
  <1>2. AllEndpoints(eps) = upto[N] BY DEF AllEndpoints
  <1>0. N \in Nat /\ N \in 0..N /\ 0..N \subseteq Nat OBVIOUS
  <1> HIDE DEF N
  <1>3. \E f : Walk(f, N)
    <2> DEFINE Bad == {n \in 0..N : ~ \E f : Walk(f, n)}
    <2>1. CASE Bad = {} BY <1>0, <2>1, ZenonT(30)
    <2>2. CASE Bad # {}
      <3>0. Bad \subseteq Nat BY <1>0, ZenonT(30)
      <3>1. PICK n \in Bad : \A m \in Bad : n <= m BY <2>2, <3>0, Least, ZenonT(30)
      <3>2. n # 0
        <4>1. Walk([i \in 0..0 |-> <<>>], 0) OBVIOUS
        <4> QED BY <3>1, <4>1, ZenonT(30)
      <3>a. n \in Nat /\ n - 1 \in 0..N /\ ~(n <= n - 1)
        <4> HIDE DEF Walk
        <4> QED BY <1>0, <3>1, <3>2
      <3>3. PICK f : Walk(f, n - 1) BY <3>1, <3>a, ZenonT(30)
      <3> DEFINE g == [i \in 0..n |-> IF i = n THEN f[n - 1] \o Lookup(eps[n]) ELSE f[i]]
      <3>4. Walk(g, n)
        <4>1. \A i \in 0..n : i # n => i \in 0..n - 1 BY <3>1
        <4>2. \A i \in 0..n : g[i] = IF i = 0 THEN <<>> ELSE g[i - 1] \o Lookup(eps[i])
          <5> SUFFICES ASSUME NEW i \in 0..n
                       PROVE  g[i] = IF i = 0 THEN <<>> ELSE g[i - 1] \o Lookup(eps[i])
            BY ZenonT(30)
          <5>1. CASE i = n
            <6>1. n \in 0..n /\ n - 1 \in 0..n /\ n - 1 # n BY <3>2, <3>a
            <6>2. g[n] = f[n - 1] \o Lookup(eps[n]) /\ g[n - 1] = f[n - 1] BY <6>1, ZenonT(30)
            <6> HIDE DEF g
            <6> QED BY <3>2, <5>1, <6>2, ZenonT(30)
          <5>2. CASE i # n
            <6>1. f[i] = IF i = 0 THEN <<>> ELSE f[i - 1] \o Lookup(eps[i]) BY <3>3, <4>1, <5>2, ZenonT(30)
            <6>2. g[i] = f[i] /\ (i # 0 => g[i - 1] = f[i - 1]) BY <5>2
            <6> HIDE DEF g
            <6> QED BY <6>1, <6>2
          <5> QED BY <5>1, <5>2
        <4>3. g = [i \in 0..n |-> g[i]] OBVIOUS
        <4> HIDE DEF g
        <4> QED BY <4>2, <4>3, ZenonT(30)
      <3> QED BY <3>1, <3>4, ZenonT(30)
    <2> QED BY <2>1, <2>2, ZenonT(30)
  <1>4. Walk(upto, N) BY <1>3, ZenonT(30)
  <1> HIDE DEF upto
  <1>5. \A i \in 0..N : upto[i] = IF i = 0 THEN <<>> ELSE upto[i - 1] \o Lookup(eps[i])
    BY <1>4, ZenonT(30)
  <1> HIDE DEF Walk
  <1>6. upto[N] \in Seq(Address)
    <2> DEFINE Bad == {n \in 0..N : upto[n] \notin Seq(Address)}
    <2>1. CASE Bad = {} BY <1>0, <2>1, ZenonT(30)
    <2>2. CASE Bad # {}
      <3>0. Bad \subseteq Nat BY <1>0, ZenonT(30)
      <3>1. PICK n \in Bad : \A m \in Bad : n <= m BY <2>2, <3>0, Least, ZenonT(30)
      <3>2. n # 0
        <4>1. upto[0] = <<>> /\ <<>> \in Seq(Address) BY <1>0, <1>5
        <4> QED BY <3>1, <4>1, ZenonT(30)
      <3>a. n \in Nat /\ n \in 1..N /\ n - 1 \in 0..N /\ ~(n <= n - 1)
        BY <1>0, <3>1, <3>2
      <3>3. n - 1 \in 0..N /\ n - 1 \notin Bad BY <3>1, <3>a, ZenonT(30)
      <3>4. upto[n] = upto[n - 1] \o Lookup(eps[n]) BY <3>1, <3>2, <1>5, ZenonT(30)
      <3>5. upto[n - 1] \in Seq(Address) /\ Lookup(eps[n]) \in Seq(Address) BY <1>1, <3>3, <3>a, ZenonT(30)
      <3>6. upto[n - 1] \o Lookup(eps[n]) \in Seq(Address) BY <3>5
      <3> QED BY <3>1, <3>4, <3>6, ZenonT(30)
    <2> QED BY <2>1, <2>2
  <1> QED BY <1>2, <1>6

\* find: the first of a kind is of the list and of the kind.
LEMMA FirstFound ==
    ASSUME NEW S, NEW eps \in Seq(S), NEW kind, \E i \in DOMAIN eps : eps[i] \in kind
    PROVE  FirstOf(eps, kind) \in kind /\ \E i \in DOMAIN eps : FirstOf(eps, kind) = eps[i]
  <1> DEFINE at == {i \in DOMAIN eps : eps[i] \in kind}
             m == CHOOSE i \in at : \A k \in at : i <= k
  <1>1. at \subseteq Nat /\ at # {} OBVIOUS
  <1> HIDE DEF at
  <1>2. m \in at BY <1>1, Least, ZenonT(30)
  <1>3. FirstOf(eps, kind) = eps[m] BY DEF FirstOf, at
  <1> HIDE DEF m
  <1> QED BY <1>2, <1>3 DEF at

\* materialize_upstreams: an upstream starts with addresses only.
LEMMA Materialized ==
    ASSUME zone \in [Host -> ZoneAnswer], NEW conf \in Config, CanMaterialize(conf)
    PROVE  Materialize(conf) \in Seq(Address)
  <1> DEFINE eps == conf.endpoints
  <1>1. eps \in Seq(Address \cup Host) BY HealthAssumption DEF HealthAssumption
  <1>2. CASE conf.discovery # "logical" BY <1>1, <1>2, AllAddresses DEF Materialize
  <1>3. CASE conf.discovery = "logical" /\ \E i \in DOMAIN eps : eps[i] \in Address
    <2>1. FirstOf(eps, Address) \in Address BY <1>1, <1>3, FirstFound
    <2> QED BY <1>3, <2>1 DEF Materialize
  <1>4. CASE conf.discovery = "logical" /\ ~ \E i \in DOMAIN eps : eps[i] \in Address
    <2> DEFINE h == FirstOf(eps, Host)
    <2>1. 1 \in DOMAIN eps /\ eps[1] \in Host BY <1>1, <1>4 DEF CanMaterialize
    <2>2. h \in Host BY <1>1, <2>1, FirstFound
    <2>3. zone[h] # <<>> /\ zone[h] \in Seq(Address)
      BY <1>4, <2>2, HealthAssumption DEF HealthAssumption, CanMaterialize
    <2>4. Materialize(conf) = <<zone[h][1]>> BY <1>4 DEF Materialize
    <2> HIDE DEF h
    <2> QED BY <2>3, <2>4
  <1> QED BY <1>2, <1>3, <1>4

\* resolve_upstream: so does an update.
LEMMA Resolved ==
    ASSUME zone \in [Host -> ZoneAnswer], NEW conf \in Config, NEW current \in Seq(Address)
    PROVE  Resolve(conf, current) \in Seq(Address)
  <1> DEFINE eps == conf.endpoints
  <1>1. eps \in Seq(Address \cup Host) BY HealthAssumption DEF HealthAssumption
  <1>2. CASE conf.discovery = "strict" BY <1>1, <1>2, AllAddresses DEF Resolve
  <1>3. CASE conf.discovery # "strict"
    <2> DEFINE found == zone[FirstOf(eps, Host)]
               kept == {found[i] : i \in DOMAIN found} \cap {current[i] : i \in DOMAIN current}
    <2>1. CASE Names(conf) = {} \/ found = <<>> BY <1>3, <2>1 DEF Resolve
    <2>2. CASE Names(conf) # {} /\ found # <<>>
      <3>1. FirstOf(eps, Host) \in Host BY <1>1, <2>2, FirstFound DEF Names
      <3>2. found \in Seq(Address) BY <3>1, HealthAssumption DEF HealthAssumption
      <3>3. Resolve(conf, current) = IF kept # {} THEN <<FirstOf(current, kept)>> ELSE <<found[1]>>
        BY <1>3, <2>2, ZenonT(30) DEF Resolve
      <3> HIDE DEF found
      <3>4. kept # {} => FirstOf(current, kept) \in Address
        <4> SUFFICES ASSUME kept # {} PROVE FirstOf(current, kept) \in Address OBVIOUS
        <4>1. kept \subseteq Address BY <3>2
        <4>2. \E i \in DOMAIN current : current[i] \in kept OBVIOUS
        <4> HIDE DEF kept
        <4> QED BY <4>1, <4>2, FirstFound, ZenonT(30)
      <3>5. found[1] \in Address BY <2>2, <3>2
      <3> HIDE DEF kept
      <3> QED BY <3>3, <3>4, <3>5
    <2> QED BY <2>1, <2>2
  <1> QED BY <1>2, <1>3

\* Every operation keeps the fields it does not name.
Shape(c) == c = [config |-> c.config, endpoints |-> c.endpoints,
                 status |-> c.status, published |-> c.published]
Same(c, d) == Shape(d) /\ d.config = c.config /\ d.endpoints = c.endpoints

LEMMA SameStatus ==
    ASSUME NEW c, Shape(c), NEW t
    PROVE  Same(c, [c EXCEPT !.status = t])
  BY DEF Same, Shape

LEMMA SameRefreshed ==
    ASSUME NEW c, Shape(c)
    PROVE  Same(c, RefreshState(c))
  <1> DEFINE e == ClearExpired(c)
  <1>1. Same(c, e) BY SameStatus, ZenonT(30) DEF ClearExpired
  <1>2. RefreshState(c) = [e EXCEPT !.published = Eligible(e)] BY DEF RefreshState
  <1> HIDE DEF e
  <1> QED BY <1>1, <1>2 DEF Same, Shape

\* select_endpoint, probes, outcomes and deadlines: the list stays as it is.
LEMMA SameLists ==
    ASSUME NEW c, Shape(c), NEW a
    PROVE  /\ Same(c, RefreshExpired(c)) /\ Same(c, Expire(c, a))
           /\ \A h : Same(c, SetActiveHealth(c, a, h))
           /\ \A ok : Same(c, RecordOutcome(c, a, ok))
  <1>1. Same(c, c) BY DEF Same
  <1>2. ASSUME NEW d, Same(c, d) PROVE Same(c, RefreshState(d))
    BY <1>2, SameRefreshed DEF Same
  <1>3. \A v : Same(c, [c EXCEPT !.status[a].active = v])
    BY SameStatus
  <1>4. \A v : Same(c, [c EXCEPT !.status[a].errors = v])
    BY SameStatus
  <1>5. \A v : Same(c, [c EXCEPT !.status[a].ejected = v])
    BY SameStatus
  <1>6. Same(c, [c EXCEPT !.status[a].errors = 0, !.status[a].ejected = "pending"])
    <2> DEFINE d == [c EXCEPT !.status[a].errors = 0]
    <2>1. Same(c, d) BY <1>4
    <2>2. [c EXCEPT !.status[a].errors = 0, !.status[a].ejected = "pending"]
              = [d EXCEPT !.status[a].ejected = "pending"]
      OBVIOUS
    <2> HIDE DEF d
    <2>3. Same(d, [d EXCEPT !.status[a].ejected = "pending"]) BY <2>1, SameStatus DEF Same
    <2> QED BY <2>1, <2>2, <2>3 DEF Same
  <1>7. Same(c, RefreshExpired(c)) BY <1>1, <1>2 DEF RefreshExpired
  <1>8. Same(c, Expire(c, a)) BY <1>5 DEF Expire
  <1>9. \A h : Same(c, SetActiveHealth(c, a, h)) BY <1>1, <1>2, <1>3, ZenonT(30) DEF SetActiveHealth
  <1>10. \A ok : Same(c, RecordOutcome(c, a, ok))
    BY <1>1, <1>2, <1>4, <1>6, ZenonT(30) DEF RecordOutcome, RecordSuccess, RecordFailure
  <1> QED BY <1>7, <1>8, <1>9, <1>10

\* A new cluster and update_endpoints: the list they are given.
LEMMA GivenLists ==
    ASSUME NEW conf, NEW eps, NEW c, Shape(c)
    PROVE  /\ NewCluster(conf, eps).config = conf /\ NewCluster(conf, eps).endpoints = eps
           /\ UpdateEndpoints(c, eps).config = c.config /\ UpdateEndpoints(c, eps).endpoints = eps
  <1> DEFINE n == [config |-> conf, endpoints |-> eps,
                   status |-> [a \in Address |-> Fresh], published |-> {}]
             k == KeptStatus(c, eps)
             w == [c EXCEPT !.endpoints = eps]
             u == [w EXCEPT !.status = k]
  <1>1. Shape(n) /\ n.config = conf /\ n.endpoints = eps BY DEF Shape
  <1>2. NewCluster(conf, eps) = RefreshState(n) BY DEF NewCluster
  <1>3. UpdateEndpoints(c, eps) = RefreshState(u) BY DEF UpdateEndpoints
  <1> HIDE DEF n, k
  <1>4. Shape(w) /\ w.config = c.config /\ w.endpoints = eps BY DEF Shape
  <1> HIDE DEF w
  <1>5. Shape(u) /\ u.config = c.config /\ u.endpoints = eps BY <1>4, SameStatus DEF Same
  <1> HIDE DEF u
  <1> QED BY <1>1, <1>2, <1>3, <1>5, SameRefreshed DEF Same

\* What the resolver read, and what it found, is of that kind too.
ListInv ==
    /\ \A g \in DOMAIN cluster : cluster[g].config \in Config /\ cluster[g].endpoints \in Seq(Address)
    /\ res.phase \in {"idle", "resolving", "answered"}
    /\ res.phase = "resolving" => res.config \in Config /\ res.current \in Seq(Address)
    /\ res.phase = "answered" => res.result \in Seq(Address)
    /\ zone \in [Host -> ZoneAnswer]

\* The step changes no list.
SameClusterLists ==
    \A g \in DOMAIN cluster' :
        /\ g \in DOMAIN cluster
        /\ cluster'[g].config = cluster[g].config /\ cluster'[g].endpoints = cluster[g].endpoints

LEMMA OneSame ==
    ASSUME ClusterInv, NEW g \in DOMAIN cluster, NEW d, Same(cluster[g], d),
           cluster' = [cluster EXCEPT ![g] = d]
    PROVE  SameClusterLists
  BY DEF ClusterInv, Same, SameClusterLists

LEMMA Shaped == ASSUME ClusterInv, NEW g \in DOMAIN cluster PROVE Shape(cluster[g])
  BY DEF ClusterInv, Good, IsCluster, Shape

\* Only a reload and the resolver change a list.
LEMMA WhoChangesLists ==
    ASSUME IInv, [Next]_vars, ~ ResolveApplies, \A conf \in Config : ~ Reload(conf)
    PROVE  SameClusterLists
  <1>1. ClusterInv /\ RequestInv /\ JobInv /\ MonitorInv BY DEF IInv
  <1>2. CASE cluster' = cluster BY <1>2 DEF SameClusterLists
  <1>3. CASE \E g \in Gen : Release(g) BY <1>3 DEF Release, SameClusterLists
  <1>4. ASSUME NEW r \in Request, SelectRefresh(r) PROVE SameClusterLists
    <2>1. req[r].gen \in DOMAIN cluster BY <1>1, <1>4 DEF RequestInv, SelectRefresh
    <2>2. cluster' = [cluster EXCEPT ![req[r].gen] = RefreshExpired(cluster[req[r].gen])]
      BY <1>4 DEF SelectRefresh
    <2> QED BY <1>1, <2>1, <2>2, OneSame, Shaped, SameLists, ZenonT(30)
  <1>5. ASSUME NEW r \in Request, NEW ok, req[r].phase # "none", Logging(r, ok) PROVE SameClusterLists
    <2>1. req[r].gen \in DOMAIN cluster BY <1>1, <1>5 DEF RequestInv
    <2>2. \/ cluster' = cluster
          \/ cluster' = [cluster EXCEPT ![req[r].gen] =
                             RecordOutcome(cluster[req[r].gen], req[r].endpoint, ok)]
      BY <1>5 DEF Logging
    <2> QED BY <1>1, <1>2, <2>1, <2>2, OneSame, Shaped, SameLists, ZenonT(30)
  <1>6. CASE MarkUnhealthy
    <2>1. mon.gen \in DOMAIN cluster BY <1>1, <1>6 DEF MonitorInv, MarkUnhealthy
    <2>2. \/ cluster' = cluster
          \/ cluster' = [cluster EXCEPT ![mon.gen] =
                             SetActiveHealth(cluster[mon.gen], Head(mon.todo), "unhealthy")]
      BY <1>6 DEF MarkUnhealthy
    <2> QED BY <1>1, <1>2, <2>1, <2>2, OneSame, Shaped, SameLists, ZenonT(30)
  <1>7. ASSUME NEW j \in Job, ProbeApplies(j) PROVE SameClusterLists
    <2>1. job[j].gen \in DOMAIN cluster BY <1>1, <1>7 DEF JobInv, ProbeApplies
    <2>2. cluster' = [cluster EXCEPT ![job[j].gen] =
                         SetActiveHealth(cluster[job[j].gen], Head(job[j].todo), job[j].answer)]
      BY <1>7 DEF ProbeApplies
    <2> QED BY <1>1, <2>1, <2>2, OneSame, Shaped, SameLists, ZenonT(30)
  <1>8. ASSUME NEW g \in Gen, NEW a \in Address, EjectionPasses(g, a) PROVE SameClusterLists
    <2>1. g \in DOMAIN cluster /\ cluster' = [cluster EXCEPT ![g] = Expire(cluster[g], a)]
      BY <1>8 DEF EjectionPasses
    <2> QED BY <1>1, <2>1, OneSame, Shaped, SameLists, ZenonT(30)
  <1>9. CASE \E r \in Request : RequestStep(r)
    BY <1>2, <1>4, <1>5, <1>9, ZenonT(30) DEF RequestStep, Arrive, SelectLoad, Retry, NoEndpoint, Succeed, Fail
  <1>10. CASE \E j \in Job : TickDue(j) \/ JobStep(j)
    BY <1>2, <1>7, <1>10 DEF TickDue, JobStep, JobStarts, ProbeAnswers
  <1>11. CASE Tick \/ ResolveStarts \/ ResolveAnswers \/ ResolveFails \/ UNCHANGED vars
    BY <1>2, <1>11 DEF Tick, ResolveStarts, ResolveAnswers, ResolveFails, vars
  <1>12. CASE (\E a \in Address : NetChanges(a)) \/ \E h \in Host : ZoneChanges(h)
    BY <1>2, <1>12 DEF NetChanges, ZoneChanges
  <1> QED BY <1>3, <1>6, <1>8, <1>9, <1>10, <1>11, <1>12 DEF Next

\* A lookup that started under one configuration may end under another, and the
\* lists stay lists of addresses.
LEMMA ListsKept == IInv /\ ListInv /\ [Next]_vars => ListInv'
  <1> SUFFICES ASSUME IInv, ListInv, [Next]_vars PROVE ListInv' OBVIOUS
  <1> DEFINE Lists == \A g \in DOMAIN cluster :
                          cluster[g].config \in Config /\ cluster[g].endpoints \in Seq(Address)
             Lookups == /\ res.phase \in {"idle", "resolving", "answered"}
                        /\ res.phase = "resolving" => res.config \in Config /\ res.current \in Seq(Address)
                        /\ res.phase = "answered" => res.result \in Seq(Address)
  <1>1. ClusterInv /\ Lists /\ Lookups /\ zone \in [Host -> ZoneAnswer] BY DEF IInv, ListInv
  <1>2. Lists'
    <2>1. CASE SameClusterLists BY <1>1, <2>1 DEF SameClusterLists
    <2>2. ASSUME NEW conf \in Config, Reload(conf) PROVE Lists'
      <3> DEFINE n == NewCluster(conf, Materialize(conf))
      <3>1. Materialize(conf) \in Seq(Address) BY <1>1, <2>2, Materialized DEF Reload
      <3>2. gen \in DOMAIN cluster /\ Shape(cluster[gen]) BY <1>1, Shaped DEF ClusterInv
      <3>3. n.config = conf /\ n.endpoints = Materialize(conf) BY <3>2, GivenLists
      <3>4. cluster' = [g \in DOMAIN cluster \cup {gen + 1} |-> IF g = gen + 1 THEN n ELSE cluster[g]]
        BY <2>2 DEF Reload
      <3> HIDE DEF n
      <3> QED BY <1>1, <3>1, <3>3, <3>4
    <2>3. CASE ResolveApplies
      <3> DEFINE d == UpdateEndpoints(cluster[gen], res.result)
      <3>1. gen \in DOMAIN cluster /\ Shape(cluster[gen]) BY <1>1, Shaped DEF ClusterInv
      <3>2. d.config = cluster[gen].config /\ d.endpoints = res.result BY <3>1, GivenLists
      <3>3. cluster' = [cluster EXCEPT ![gen] = d] /\ res.result \in Seq(Address)
        BY <1>1, <2>3 DEF ResolveApplies
      <3> HIDE DEF d
      <3> QED BY <1>1, <3>1, <3>2, <3>3 DEF ClusterInv
    <2> QED BY <2>1, <2>2, <2>3, WhoChangesLists
  <1>3. Lookups'
    <2>1. CASE res' = res BY <1>1, <2>1
    <2>2. CASE ResolveStarts
      <3>1. gen \in DOMAIN cluster BY <1>1 DEF ClusterInv
      <3>2. res' = [phase |-> "resolving", config |-> cluster[gen].config,
                    current |-> cluster[gen].endpoints, result |-> <<>>]
        BY <2>2, ZenonT(30) DEF ResolveStarts, Resting
      <3> QED BY <1>1, <3>1, <3>2
    <2>3. CASE ResolveAnswers
      <3> DEFINE found == Resolve(res.config, res.current)
      <3>1. found \in Seq(Address) BY <1>1, <2>3, Resolved DEF ResolveAnswers
      <3>2. \/ res' = Resting
            \/ res' = [phase |-> "answered", config |-> None, current |-> <<>>, result |-> found]
        BY <2>3, ZenonT(30) DEF ResolveAnswers, Resting
      <3> HIDE DEF found
      <3> QED BY <3>1, <3>2 DEF Resting
    <2>4. CASE ResolveFails \/ ResolveApplies BY <2>4 DEF ResolveFails, ResolveApplies, Resting
    <2> HIDE DEF Lookups
    <2>5. res' = res \/ ResolveStarts \/ ResolveAnswers \/ ResolveFails \/ ResolveApplies
      BY ZenonT(30) DEF Next, vars, Reload, Release, RequestStep, Arrive, SelectRefresh, SelectLoad, NoEndpoint,
             Succeed, Fail, Retry, Tick, TickDue, MarkUnhealthy, JobStep, JobStarts, ProbeAnswers,
             ProbeApplies, EjectionPasses, NetChanges, ZoneChanges
    <2> QED BY <2>1, <2>2, <2>3, <2>4, <2>5
  <1>4. (zone \in [Host -> ZoneAnswer])'
    <2>1. zone' = zone \/ \E h \in Host : ZoneChanges(h)
      BY ZenonT(30) DEF Next, vars, Reload, Release, RequestStep, Arrive, SelectRefresh, SelectLoad, NoEndpoint,
             Succeed, Fail, Retry, Tick, TickDue, MarkUnhealthy, JobStep, JobStarts, ProbeAnswers,
             ProbeApplies, ResolveStarts, ResolveAnswers, ResolveFails, ResolveApplies,
             EjectionPasses, NetChanges
    <2> QED BY <1>1, <2>1 DEF ZoneChanges
  <1> QED BY <1>2, <1>3, <1>4 DEF ListInv

\* The first list is one.
LEMMA FirstList == Init => ListInv
  <1> SUFFICES ASSUME Init PROVE ListInv OBVIOUS
  <1>1. PICK conf \in Config :
           CanMaterialize(conf) /\ cluster = [g \in {1} |-> NewCluster(conf, Materialize(conf))]
    BY DEF Init
  <1>2. Materialize(conf) \in Seq(Address) BY <1>1, Materialized DEF Init
  <1> DEFINE n == NewCluster(conf, Materialize(conf))
  <1>3. Shape([config |-> conf, endpoints |-> <<>>, status |-> 0, published |-> {}]) BY DEF Shape
  <1>4. n.config = conf /\ n.endpoints = Materialize(conf) BY <1>3, GivenLists, ZenonT(30)
  <1>5. cluster = [g \in {1} |-> n] BY <1>1
  <1> HIDE DEF n
  <1>6. cluster[1] = n /\ DOMAIN cluster = {1} BY <1>5
  <1> QED BY <1>2, <1>4, <1>6 DEF Init, ListInv, Resting

\* The types of what is not a cluster.
StateTypes ==
    /\ gen \in Gen /\ place \in [Gen -> Place]
    /\ net \in [Address -> {"up", "down"}] /\ events \in 0..MaxEvents
RequestTypes ==
    \A r \in Request :
        /\ req[r].phase \in {"none", "arrived", "refreshed", "sent"}
        /\ req[r].gen \in 0..MaxGen /\ req[r].attempt \in 0..MaxAttempts
        /\ req[r].endpoint \in Address \cup {None}
JobTypes ==
    \A j \in Job : /\ job[j].phase \in {"none", "spawned", "probing", "answered"}
                   /\ job[j].gen \in 0..MaxGen
MonitorTypes ==
    /\ mon.seen \in Place \cup {Null} /\ mon.gen \in 0..MaxGen
    /\ mon.plan \in {"none", "ready", "marking"}

LEMMA StateTypesKept == StateTypes /\ [Next]_vars => StateTypes'
  <1> SUFFICES ASSUME StateTypes, [Next]_vars PROVE StateTypes' OBVIOUS
  <1>1. CASE UNCHANGED <<gen, place, net, events>> BY <1>1 DEF StateTypes
  <1>2. ASSUME NEW conf \in Config, Reload(conf) PROVE StateTypes'
    BY <1>2, HealthAssumption DEF HealthAssumption, Reload, StateTypes, Gen
  <1>3. ASSUME NEW a \in Address, NetChanges(a) PROVE StateTypes'
    BY <1>3, HealthAssumption DEF HealthAssumption, NetChanges, StateTypes
  <1>4. ASSUME NEW h \in Host, ZoneChanges(h) PROVE StateTypes'
    BY <1>4, HealthAssumption DEF HealthAssumption, ZoneChanges, StateTypes
  <1>5. \/ UNCHANGED <<gen, place, net, events>> \/ \E conf \in Config : Reload(conf)
        \/ (\E a \in Address : NetChanges(a)) \/ \E h \in Host : ZoneChanges(h)
    BY ZenonT(30) DEF Next, vars, Release, RequestStep, Arrive, SelectRefresh, SelectLoad, NoEndpoint,
           Succeed, Fail, Retry, Tick, TickDue, MarkUnhealthy, JobStep, JobStarts, ProbeAnswers,
           ProbeApplies, ResolveStarts, ResolveAnswers, ResolveFails, ResolveApplies, EjectionPasses
  <1> QED BY <1>1, <1>2, <1>3, <1>4, <1>5, ZenonT(30)

\* A request sends to an address of the list it was given.
LEMMA RequestTypesKept == IInv /\ ListInv /\ StateTypes /\ RequestTypes /\ [Next]_vars => RequestTypes'
  <1> SUFFICES ASSUME IInv, ListInv, StateTypes, RequestTypes, [Next]_vars PROVE RequestTypes' OBVIOUS
  <1> DEFINE Typed(q) == /\ q.phase \in {"none", "arrived", "refreshed", "sent"}
                         /\ q.gen \in 0..MaxGen /\ q.attempt \in 0..MaxAttempts
                         /\ q.endpoint \in Address \cup {None}
  <1>1. CASE req' = req BY <1>1 DEF RequestTypes
  <1>2. ASSUME NEW r \in Request, NEW q, req' = [req EXCEPT ![r] = q], Typed(q) PROVE RequestTypes'
    BY <1>2 DEF RequestTypes, IInv, RequestInv
  <1>3. ASSUME NEW r \in Request PROVE Typed(req[r]) BY DEF RequestTypes
  <1>4. ASSUME NEW r \in Request
        PROVE  req[r] = [phase |-> req[r].phase, gen |-> req[r].gen,
                         attempt |-> req[r].attempt, endpoint |-> req[r].endpoint]
    BY DEF IInv, RequestInv
  <1>5. ASSUME NEW r \in Request, Arrive(r) PROVE RequestTypes'
    <2> DEFINE q == [phase |-> "arrived", gen |-> gen, attempt |-> 1, endpoint |-> None]
    <2>1. Typed(q) BY HealthAssumption DEF HealthAssumption, StateTypes, Gen
    <2>2. req' = [req EXCEPT ![r] = q] BY <1>5 DEF Arrive
    <2> QED BY <1>2, <2>1, <2>2, ZenonT(30)
  <1>6. ASSUME NEW r \in Request, SelectRefresh(r) PROVE RequestTypes'
    <2> DEFINE q == [req[r] EXCEPT !.phase = "refreshed"]
    <2>1. Typed(q) BY <1>3, <1>4
    <2>2. req' = [req EXCEPT ![r] = q] BY <1>6 DEF SelectRefresh
    <2> QED BY <1>2, <2>1, <2>2, ZenonT(30)
  <1>7. ASSUME NEW r \in Request, SelectLoad(r) PROVE RequestTypes'
    <2>1. PICK a \in cluster[req[r].gen].published :
             req' = [req EXCEPT ![r].phase = "sent", ![r].endpoint = a]
      BY <1>7, ZenonT(30) DEF SelectLoad
    <2>2. a \in Address
      <3>1. req[r].gen \in DOMAIN cluster BY <1>7 DEF IInv, RequestInv, SelectLoad
      <3>2. cluster[req[r].gen].published \subseteq Listed(cluster[req[r].gen])
        BY <3>1 DEF IInv, ClusterInv, Good, Agrees, Eligible
      <3>3. cluster[req[r].gen].endpoints \in Seq(Address) BY <3>1 DEF ListInv
      <3>4. \A i \in DOMAIN cluster[req[r].gen].endpoints : cluster[req[r].gen].endpoints[i] \in Address
        <4>1. ASSUME NEW s \in Seq(Address), NEW i \in DOMAIN s PROVE s[i] \in Address OBVIOUS
        <4> QED BY <3>3, <4>1, ZenonT(30)
      <3> QED BY <2>1, <3>2, <3>4, ZenonT(30) DEF Listed
    <2> DEFINE q == [phase |-> "sent", gen |-> req[r].gen, attempt |-> req[r].attempt, endpoint |-> a]
    <2>3. [req[r] EXCEPT !.phase = "sent", !.endpoint = a] = q
      <3> DEFINE y == [req[r] EXCEPT !.phase = "sent"]
      <3>1. y = [phase |-> "sent", gen |-> req[r].gen, attempt |-> req[r].attempt,
                 endpoint |-> req[r].endpoint]
        BY DEF IInv, RequestInv
      <3>2. [req[r] EXCEPT !.phase = "sent", !.endpoint = a] = [y EXCEPT !.endpoint = a] OBVIOUS
      <3> HIDE DEF y
      <3> QED BY <3>1, <3>2
    <2>4. req' = [req EXCEPT ![r] = q] BY <2>1, <2>3, ZenonT(30)
    <2>5. Typed(q) BY <1>3, <2>2
    <2> QED BY <1>2, <2>4, <2>5, ZenonT(30)
  <1>8. ASSUME NEW r \in Request, NEW ok, Logging(r, ok) PROVE RequestTypes'
    <2>1. Typed(NoRequest) BY HealthAssumption DEF HealthAssumption, NoRequest
    <2> QED BY <1>2, <1>8, <2>1, ZenonT(30) DEF Logging
  <1>9. ASSUME NEW r \in Request, Retry(r) PROVE RequestTypes'
    <2> DEFINE n == req[r].attempt + 1
               q == [phase |-> "arrived", gen |-> req[r].gen, attempt |-> n, endpoint |-> req[r].endpoint]
    <2>1. n \in 0..MaxAttempts BY <1>3, <1>9, HealthAssumption DEF HealthAssumption, Retry
    <2>2. req' = [req EXCEPT ![r].phase = "arrived", ![r].attempt = n] BY <1>9 DEF Retry
    <2> HIDE DEF n
    <2>3. [req[r] EXCEPT !.phase = "arrived", !.attempt = n] = q
      <3> DEFINE y == [req[r] EXCEPT !.phase = "arrived"]
      <3>1. y = [phase |-> "arrived", gen |-> req[r].gen, attempt |-> req[r].attempt,
                 endpoint |-> req[r].endpoint]
        BY DEF IInv, RequestInv
      <3>2. [req[r] EXCEPT !.phase = "arrived", !.attempt = n] = [y EXCEPT !.attempt = n] OBVIOUS
      <3> HIDE DEF y
      <3> QED BY <3>1, <3>2
    <2>4. req' = [req EXCEPT ![r] = q] BY <2>2, <2>3, ZenonT(30)
    <2>5. Typed(q) BY <1>3, <2>1
    <2> QED BY <1>2, <2>4, <2>5, ZenonT(30)
  <1>10. req' = req \/ \E r \in Request : RequestStep(r)
    BY ZenonT(30) DEF Next, vars, Reload, Release, Tick, TickDue, MarkUnhealthy, JobStep, JobStarts,
           ProbeAnswers, ProbeApplies, ResolveStarts, ResolveAnswers, ResolveFails, ResolveApplies,
           EjectionPasses, NetChanges, ZoneChanges
  <1> QED BY <1>1, <1>5, <1>6, <1>7, <1>8, <1>9, <1>10, ZenonT(30)
          DEF RequestStep, NoEndpoint, Succeed, Fail

\* The monitor's scheduler is that of a state it has seen.
LEMMA ScheduledTypes ==
    ASSUME StateTypes, MonitorTypes
    PROVE  /\ Scheduled.seen \in Place \cup {Null} /\ Scheduled.gen \in 0..MaxGen
           /\ Scheduled.plan \in {"none", "ready", "marking"}
  <1>1. gen \in 0..MaxGen /\ place[gen] \in Place
    BY HealthAssumption DEF HealthAssumption, StateTypes, Gen
  <1>2. Rebuilt.seen = place[gen] /\ Rebuilt.gen = gen /\ Rebuilt.plan \in {"none", "ready", "marking"}
    BY DEF Rebuilt
  <1> QED BY <1>1, <1>2, ZenonT(30) DEF Scheduled, MonitorTypes

LEMMA MonitorTypesKept ==
    IInv /\ StateTypes /\ MonitorTypes /\ JobTypes /\ [Next]_vars => MonitorTypes' /\ JobTypes'
  <1> SUFFICES ASSUME IInv, StateTypes, MonitorTypes, JobTypes, [Next]_vars
               PROVE  MonitorTypes' /\ JobTypes'
    OBVIOUS
  <1> DEFINE Typed(q) == /\ q.phase \in {"none", "spawned", "probing", "answered"}
                         /\ q.gen \in 0..MaxGen
  <1>1. /\ mon' = mon => MonitorTypes'
        /\ job' = job => JobTypes'
    BY DEF MonitorTypes, JobTypes
  <1>2. mon' = Scheduled => MonitorTypes' BY ScheduledTypes DEF MonitorTypes
  <1>3. ASSUME NEW j \in Job, NEW q, job' = [job EXCEPT ![j] = q], Typed(q) PROVE JobTypes'
    BY <1>3 DEF JobTypes, IInv, JobInv
  <1>4. ASSUME NEW j \in Job
        PROVE  /\ job[j] = [phase |-> job[j].phase, gen |-> job[j].gen,
                            todo |-> job[j].todo, answer |-> job[j].answer]
               /\ Typed(job[j])
    BY DEF IInv, JobInv, JobTypes
  <1>5. Typed(NoJob) BY HealthAssumption DEF HealthAssumption, NoJob
  <1>6. CASE Tick BY <1>1, <1>2, <1>6 DEF Tick
  <1>7. CASE MarkUnhealthy
    <2>1. mon = [seen |-> mon.seen, gen |-> mon.gen, plan |-> mon.plan, todo |-> mon.todo]
      BY DEF IInv, MonitorInv
    <2>2. job' = job /\ (mon' = [mon EXCEPT !.plan = "none"] \/ mon' = [mon EXCEPT !.todo = Tail(@)])
      BY <1>7 DEF MarkUnhealthy
    <2>3. mon'.seen = mon.seen /\ mon'.gen = mon.gen /\ mon'.plan \in {mon.plan, "none"}
      BY <2>1, <2>2
    <2> QED BY <1>1, <2>2, <2>3 DEF MonitorTypes
  <1>8. ASSUME NEW j \in Job, TickDue(j) PROVE MonitorTypes' /\ JobTypes'
    <2> DEFINE q == [phase |-> "spawned", gen |-> Scheduled.gen, todo |-> <<>>, answer |-> "healthy"]
    <2>1. Typed(q) BY ScheduledTypes
    <2>2. mon' = Scheduled /\ job' = [job EXCEPT ![j] = q] BY <1>8 DEF TickDue
    <2> QED BY <1>2, <1>3, <2>1, <2>2, ZenonT(30)
  <1>9. ASSUME NEW j \in Job, JobStarts(j) PROVE MonitorTypes' /\ JobTypes'
    <2> DEFINE eps == cluster[job[j].gen].endpoints
               y == [job[j] EXCEPT !.phase = "probing"]
               q == [y EXCEPT !.todo = eps]
    <2>1. y = [phase |-> "probing", gen |-> job[j].gen, todo |-> job[j].todo, answer |-> job[j].answer]
      BY DEF IInv, JobInv
    <2>2. mon' = mon /\ (job' = [job EXCEPT ![j] = NoJob] \/ job' = [job EXCEPT ![j] = q])
      BY <1>9, ZenonT(30) DEF JobStarts
    <2> HIDE DEF y
    <2>3. Typed(q) BY <1>4, <2>1, ZenonT(30)
    <2> HIDE DEF q
    <2> QED BY <1>1, <1>3, <1>5, <2>2, <2>3, ZenonT(30)
  <1>10. ASSUME NEW j \in Job, ProbeAnswers(j) PROVE MonitorTypes' /\ JobTypes'
    <2> DEFINE v == IF net[Head(job[j].todo)] = "up" THEN "healthy" ELSE "unhealthy"
               y == [job[j] EXCEPT !.phase = "answered"]
               q == [y EXCEPT !.answer = v]
    <2>1. y = [phase |-> "answered", gen |-> job[j].gen, todo |-> job[j].todo, answer |-> job[j].answer]
      BY DEF IInv, JobInv
    <2>2. mon' = mon /\ job' = [job EXCEPT ![j] = q] BY <1>10, ZenonT(30) DEF ProbeAnswers
    <2> HIDE DEF y, v
    <2>3. Typed(q) BY <1>4, <2>1, ZenonT(30)
    <2> HIDE DEF q
    <2> QED BY <1>1, <1>3, <2>2, <2>3, ZenonT(30)
  <1>11. ASSUME NEW j \in Job, ProbeApplies(j) PROVE MonitorTypes' /\ JobTypes'
    <2>1. Typed(NextProbe(job[j])) BY <1>4, <1>5, ZenonT(30) DEF NextProbe
    <2>2. mon' = mon /\ job' = [job EXCEPT ![j] = NextProbe(job[j])] BY <1>11 DEF ProbeApplies
    <2> QED BY <1>1, <1>3, <2>1, <2>2, ZenonT(30)
  <1>12. \/ (mon' = mon /\ job' = job) \/ Tick \/ MarkUnhealthy
         \/ \E j \in Job : TickDue(j) \/ JobStep(j)
    BY ZenonT(30) DEF Next, vars, Reload, Release, RequestStep, Arrive, SelectRefresh, SelectLoad, NoEndpoint,
           Succeed, Fail, Retry, ResolveStarts, ResolveAnswers, ResolveFails, ResolveApplies,
           EjectionPasses, NetChanges, ZoneChanges
  <1> QED BY <1>1, <1>6, <1>7, <1>8, <1>9, <1>10, <1>11, <1>12, ZenonT(30) DEF JobStep

LEMMA FirstTypes == Init => StateTypes /\ RequestTypes /\ JobTypes /\ MonitorTypes
  <1> SUFFICES ASSUME Init PROVE StateTypes /\ RequestTypes /\ JobTypes /\ MonitorTypes OBVIOUS
  <1>1. 1 \in Gen /\ 0 \in 0..MaxGen /\ 0 \in 0..MaxAttempts /\ 0 \in 0..MaxEvents
    BY HealthAssumption DEF HealthAssumption, Gen
  <1>2. (CHOOSE p \in Place : TRUE) \in Place BY HealthAssumption, ZenonT(30) DEF HealthAssumption
  <1>3. StateTypes BY <1>1, <1>2 DEF Init, StateTypes
  <1>4. RequestTypes BY <1>1 DEF Init, RequestTypes, NoRequest
  <1>5. JobTypes BY <1>1 DEF Init, JobTypes, NoJob
  <1>6. MonitorTypes BY <1>1 DEF Init, MonitorTypes
  <1> QED BY <1>3, <1>4, <1>5, <1>6

-----------------------------------------------------------------------------
(* The theorems.                                                           *)

\* RuntimeStateHandle::new: the first state satisfies the invariant.
LEMMA InitEstablishes == Init => IInv
  <1> SUFFICES ASSUME Init PROVE IInv OBVIOUS
  <1>1. PICK conf \in Config :
           cluster = [g \in {1} |-> NewCluster(conf, Materialize(conf))]
    BY DEF Init
  <1> DEFINE n == NewCluster(conf, Materialize(conf))
  <1>2. Good(n) BY NewGood
  <1>3. cluster = [g \in {1} |-> n] /\ gen = 1 BY <1>1 DEF Init
  <1> HIDE DEF n
  <1>4. ClusterInv BY <1>2, <1>3 DEF ClusterInv
  <1>5. RequestInv BY DEF Init, RequestInv, NoRequest
  <1>6. JobInv BY DEF Init, JobInv, NoJob
  <1>7. MonitorInv BY DEF Init, MonitorInv
  <1> QED BY <1>4, <1>5, <1>6, <1>7 DEF IInv

\* Every step keeps the invariant and ends no ejection early.
LEMMA NextKeeps == IInv /\ [Next]_vars => IInv' /\ Kept
  <1> SUFFICES ASSUME IInv, [Next]_vars PROVE IInv' /\ Kept OBVIOUS
  <1>1. CASE \E conf \in Config : Reload(conf) BY <1>1, ReloadKeeps
  <1>2. CASE \E g \in Gen : Release(g) BY <1>2, ReleaseKeeps
  <1>3. CASE \E r \in Request : RequestStep(r) BY <1>3, RequestKeeps
  <1>4. CASE Tick \/ MarkUnhealthy \/ \E j \in Job : TickDue(j) BY <1>4, MonitorKeeps
  <1>5. CASE \E j \in Job : JobStep(j) BY <1>5, JobKeeps
  <1>6. CASE \/ ResolveStarts \/ ResolveAnswers \/ ResolveFails \/ ResolveApplies
             \/ \E g \in Gen, a \in Address : EjectionPasses(g, a)
             \/ \E a \in Address : NetChanges(a)
             \/ \E h \in Host : ZoneChanges(h)
    BY <1>6, OthersKeep
  <1>7. CASE UNCHANGED vars
    <2>1. /\ gen' = gen /\ cluster' = cluster /\ req' = req /\ job' = job /\ mon' = mon
      BY <1>7 DEF vars
    <2>2. ClusterInv' /\ Kept /\ DOMAIN cluster' = DOMAIN cluster
      BY <2>1, SameClusters DEF IInv
    <2> QED BY <2>1, <2>2, Untouched DEF IInv
  <1> QED BY <1>1, <1>2, <1>3, <1>4, <1>5, <1>6, <1>7 DEF Next

\* Whatever requests, probes, resolver rounds and reloads do and in whatever
\* order, every cluster in use has a list that agrees with its health.
THEOREM HealthPublished == Spec => []PublishedMatchesHealth
  <1>1. IInv => PublishedMatchesHealth
    BY DEF IInv, ClusterInv, Good, Agrees, PublishedMatchesHealth
  <1> QED BY InitEstablishes, NextKeeps, <1>1, PTL DEF Spec

\* No step of any of them ends an ejection before its deadline while the
\* endpoint is listed (once).
THEOREM EjectionsLast == Spec => EjectionHolds
  <1>1. Kept => NoEarlyEnd BY DEF Kept, Keeps, NoEarlyEnd
  <1>2. IInv /\ [Next]_vars => [NoEarlyEnd]_vars BY <1>1, NextKeeps
  <1> QED BY InitEstablishes, NextKeeps, <1>2, PTL DEF Spec, EjectionHolds

\* materialize_upstreams, resolve_once, update_endpoints: whatever is reloaded and
\* resolved when, every cluster is listed with addresses only and publishes some of
\* them, and every request is sent to an address.
THEOREM ListsAreAddresses == Spec => []TypeOK
  <1> DEFINE Types == IInv /\ ListInv /\ StateTypes /\ RequestTypes /\ JobTypes /\ MonitorTypes
  <1>1. Init => Types BY InitEstablishes, FirstList, FirstTypes
  <1>2. Types /\ [Next]_vars => Types'
    BY NextKeeps, ListsKept, StateTypesKept, RequestTypesKept, MonitorTypesKept
  <1>3. Types => TypeOK
    <2> SUFFICES ASSUME Types PROVE TypeOK OBVIOUS
    <2>1. DOMAIN cluster \subseteq Gen
      BY HealthAssumption DEF HealthAssumption, IInv, ClusterInv, StateTypes, Gen
    <2>2. ASSUME NEW g \in DOMAIN cluster
          PROVE  /\ cluster[g].config \in Config /\ cluster[g].status \in [Address -> Status]
                 /\ cluster[g].published \subseteq Listed(cluster[g])
                 /\ Listed(cluster[g]) \subseteq Address
      <3>1. cluster[g].config \in Config /\ cluster[g].endpoints \in Seq(Address) BY DEF ListInv
      <3>2. Listed(cluster[g]) \subseteq Address BY <3>1 DEF Listed
      <3> QED BY <3>1, <3>2 DEF IInv, ClusterInv, Good, IsCluster, Agrees, Eligible
    <2> QED BY <2>1, <2>2, ZenonT(30) DEF TypeOK, ListInv, StateTypes, RequestTypes, JobTypes, MonitorTypes
  <1> QED BY <1>1, <1>2, <1>3, PTL DEF Spec
=============================================================================
