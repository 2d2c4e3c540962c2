----------------------------- MODULE RequestPath -----------------------------
(***************************************************************************)
(* The life of a forwarded request (proxy/service/io.rs): it is counted,   *)
(* its body is buffered for a replay under a budget all requests share, it *)
(* takes a permit of the upstream's pool and one of its circuit breaker,   *)
(* is sent, and is tried again where the retry policy (retry.rs) or a      *)
(* reused connection says so; logging gives everything back.               *)
(*                                                                         *)
(* A member of Request is a downstream connection, which carries one       *)
(* request after another.  A step ends where the code awaits, or where     *)
(* another thread may see the atomic counter it just changed.              *)
(***************************************************************************)
EXTENDS Integers, Sequences, FiniteSets

CONSTANTS
    Request,
    Plan,           \* routes: method, retry policy, size of the body
    Upstream,       \* upstreams: the limits of pool, queue and circuit breaker
    BodyBudget,     \* RETRY_BODY_GLOBAL_BUDGET_BYTES
    MaxTries,       \* how often Pingora calls upstream_peer for a request
    None

ASSUME RequestAssumption ==
    /\ IsFiniteSet(Request) /\ None \notin Plan
    /\ \A u \in Upstream : /\ u.pool \in Nat \ {0} /\ u.queue \in Nat
                           /\ u.connections \in Nat /\ u.pending \in Nat
    /\ \A p \in Plan : /\ p.size \in Nat /\ p.limit \in Nat /\ p.max \in Nat
                       /\ p.retry = "on" => p.max >= 1      \* NonZeroU16
    /\ BodyBudget \in Nat /\ MaxTries \in Nat

VARIABLES
    up,             \* the upstream the requests go to, the same for all of them
    pc, plan,
    attempt,        \* retry_ctx.attempt, 0 while there is no retry_ctx
    clock,          \* has global_deadline passed
    body,           \* replayability of buffered_body, "none" when there is none
    guard,          \* bytes of the request's BudgetGuard
    budget,         \* RETRY_BODY_BUDGET_USED_BYTES
    tries, conn,    \* Pingora: calls of upstream_peer, kind of connection
    held, fresh,    \* ctx.pool_permit, and the permit upstream_peer has not stored yet
    poolFree, poolQ,            \* the pool's semaphore and who waits for it
    queued, active,             \* PoolLimiter's counters
    breaker,                    \* ctx.circuit_breaker_permit
    breakerFree, breakerQ,      \* max_connections
    pendingFree,                \* max_pending_requests, one permit per waiter
    inflight        \* the gauge pavis_http_inflight_requests

bodyVars == <<body, guard, budget>>
poolVars == <<held, fresh, poolFree, poolQ, queued, active>>
breakerVars == <<breaker, breakerFree, breakerQ, pendingFree>>
permitVars == <<poolVars, breakerVars>>
retryVars == <<attempt, clock>>
vars == <<up, pc, plan, retryVars, bodyVars, tries, conn, permitVars, inflight>>

PoolMax == up.pool
QueueCapacity == up.queue
QueueTimeout == up.queueTimeout = "positive"    \* queue.timeout_ms
BreakerMax == up.connections                    \* 0: circuit_breaker is off
PendingMax == up.pending

Phase == {"idle", "buffering", "peer", "backoff", "pool", "slow", "overflow",
          "queued", "breaker", "pending", "select", "connect", "proxy", "logging"}

Permit == {"yes", "no"}

\* Every variable has its type; a request counts no attempt beyond its policy.
TypeOK ==
    /\ up \in Upstream
    /\ pc \in [Request -> Phase]
    /\ plan \in [Request -> Plan \cup {None}]
    /\ attempt \in [Request -> Nat]
    /\ clock \in [Request -> {"running", "passed"}]
    /\ body \in [Request -> {"none", "empty", "buffered", "streaming"}]
    /\ guard \in [Request -> Nat] /\ budget \in Nat
    /\ tries \in [Request -> 0..MaxTries] /\ conn \in [Request -> {"new", "reused"}]
    /\ held \in [Request -> Permit] /\ fresh \in [Request -> Permit]
    /\ breaker \in [Request -> Permit]
    /\ poolFree \in Nat /\ breakerFree \in Nat /\ pendingFree \in Nat
    /\ poolQ \in Seq(Request) /\ breakerQ \in Seq(Request)
    /\ queued \in Nat /\ active \in Nat /\ inflight \in Nat

Init ==
    /\ up \in Upstream
    /\ pc = [r \in Request |-> "idle"] /\ plan = [r \in Request |-> None]
    /\ attempt = [r \in Request |-> 0] /\ clock = [r \in Request |-> "running"]
    /\ body = [r \in Request |-> "none"] /\ guard = [r \in Request |-> 0] /\ budget = 0
    /\ tries = [r \in Request |-> 0] /\ conn = [r \in Request |-> "new"]
    /\ held = [r \in Request |-> "no"] /\ fresh = [r \in Request |-> "no"]
    /\ poolFree = PoolMax /\ poolQ = <<>> /\ queued = 0 /\ active = 0
    /\ breaker = [r \in Request |-> "no"] /\ breakerFree = BreakerMax /\ breakerQ = <<>>
    /\ pendingFree = PendingMax
    /\ inflight = 0

Set(f, r, v) == [f EXCEPT ![r] = v]
Goto(r, p) == pc' = Set(pc, r, p)
Without(q, r) == SelectSeq(q, LAMBDA s : s # r)
One(permit) == IF permit = "yes" THEN 1 ELSE 0

-----------------------------------------------------------------------------
(* request_filter.                                                         *)

\* The request is counted and routed.  A 403, 404, redirect or direct answer
\* ends it here; a route with a retry policy first reads the body.
Arrive(r) ==
    /\ pc[r] = "idle"
    /\ inflight' = inflight + 1
    /\ \/ Goto(r, "logging") /\ UNCHANGED plan
       \/ \E p \in Plan :
             /\ plan' = Set(plan, r, p)
             /\ Goto(r, IF p.retry = "on" THEN "buffering" ELSE "peer")
    /\ UNCHANGED <<retryVars, bodyVars, tries, conn, permitVars>>

\* BudgetGuard::try_add for one more byte.
HasBudget == budget + 1 <= BodyBudget

\* Another chunk of the body is within the policy's limit and the budget.
ReadChunk(r) ==
    /\ pc[r] = "buffering"
    /\ guard[r] < plan[r].size /\ guard[r] + 1 <= plan[r].limit /\ HasBudget
    /\ guard' = Set(guard, r, guard[r] + 1) /\ budget' = budget + 1
    /\ UNCHANGED <<pc, plan, retryVars, body, tries, conn, permitVars, inflight>>

\* BufferedBody::new, once the body is read or known to exceed the limit.
Buffered(r) ==
    /\ pc[r] = "buffering"
    /\ \/ /\ guard[r] = plan[r].size
          /\ body' = Set(body, r, IF guard[r] = 0 THEN "empty" ELSE "buffered")
       \/ /\ guard[r] < plan[r].size /\ guard[r] + 1 > plan[r].limit
          /\ body' = Set(body, r, "streaming")
    /\ attempt' = Set(attempt, r, 1)
    /\ Goto(r, "peer")
    /\ UNCHANGED <<plan, clock, guard, budget, tries, conn, permitVars, inflight>>

\* The budget is used up: the request goes on without retries, its guard is
\* dropped.  So it is when the client's body cannot be read, and then the
\* request has failed.
Unbuffered(r) ==
    /\ pc[r] = "buffering"
    /\ \/ guard[r] < plan[r].size /\ guard[r] + 1 <= plan[r].limit /\ ~HasBudget /\ Goto(r, "peer")
       \/ guard[r] < plan[r].size /\ Goto(r, "logging")
    /\ guard' = Set(guard, r, 0) /\ budget' = budget - guard[r]
    /\ UNCHANGED <<plan, retryVars, body, tries, conn, permitVars, inflight>>

\* The global deadline passes.
DeadlinePasses(r) ==
    /\ attempt[r] > 0 /\ clock[r] = "running" /\ pc[r] # "logging"
    /\ clock' = Set(clock, r, "passed")
    /\ UNCHANGED <<pc, plan, attempt, bodyVars, tries, conn, permitVars, inflight>>

-----------------------------------------------------------------------------
(* RetryContext and BufferedBody.                                          *)

\* Off by one.
CanRetryOnceMore(a, r) == a <= plan[r].max /\ clock[r] = "running"
CanRetry(a, r) == a < plan[r].max /\ clock[r] = "running"
IsRetryable(r, reason) == reason \in plan[r].reasons
IsMethodAllowed(r) == plan[r].method = "idempotent" \/ plan[r].nonIdempotent = "retry"
CanReplay(r) == body[r] \in {"empty", "buffered"}

\* Pingora calls upstream_peer again for an error that is marked retryable.
Retry(r) == Goto(r, IF tries[r] < MaxTries THEN "peer" ELSE "logging")

\* next_attempt for a failure with this reason, or the end of the request.
RetryIf(r, counted) ==
    /\ attempt' = Set(attempt, r, attempt[r] + IF counted THEN 1 ELSE 0)
    /\ IF counted THEN Retry(r) ELSE Goto(r, "logging")

-----------------------------------------------------------------------------
(* upstream_peer.                                                          *)

\* Dropping ctx.pool_permit (PoolPermit::drop) and ctx.circuit_breaker_permit.
ReleasePermits(r) ==
    /\ held' = Set(held, r, "no")
    /\ poolFree' = poolFree + One(held[r])
    /\ active' = active - One(held[r])
    /\ breaker' = Set(breaker, r, "no")
    /\ breakerFree' = breakerFree + One(breaker[r])
    /\ UNCHANGED <<fresh, poolQ, queued, breakerQ, pendingFree>>

\* From the second counted attempt on, the permits are given back first.
PeerStart(r) ==
    /\ pc[r] = "peer"
    /\ tries' = Set(tries, r, tries[r] + 1)
    /\ \/ attempt[r] > 1 /\ ReleasePermits(r) /\ Goto(r, "backoff")
       \/ attempt[r] <= 1 /\ UNCHANGED permitVars /\ Goto(r, "pool")
    /\ UNCHANGED <<plan, retryVars, bodyVars, conn, inflight>>

\* apply_backoff has slept; the deadline and the body are looked at again.
BackoffEnds(r) ==
    /\ pc[r] = "backoff"
    /\ Goto(r, IF \/ clock[r] = "passed"
                  \/ body[r] # "none" /\ ~CanReplay(r) /\ plan[r].onStreaming = "fail"
               THEN "logging" ELSE "pool")
    /\ UNCHANGED <<plan, retryVars, bodyVars, tries, conn, permitVars, inflight>>

\* A permit for r, and start_pool_use.
TakePool(r) ==
    /\ fresh' = Set(fresh, r, "yes")
    /\ poolFree' = poolFree - 1
    /\ active' = active + 1

\* try_acquire of a semaphore: permits given back are set aside for those who
\* wait, and only what is left over is free.
Spare(free, waiters) == free > 0 /\ free > Len(waiters)

\* PoolLimiter::acquire, first try.
PoolTry(r) ==
    /\ pc[r] = "pool"
    /\ Spare(poolFree, poolQ)
    /\ TakePool(r)
    /\ Goto(r, "breaker")
    /\ UNCHANGED <<plan, retryVars, bodyVars, tries, conn, held, poolQ, queued, breakerVars, inflight>>

\* ERR_UPSTREAM_POOL_FULL, which the policy may retry whatever the method.
PoolRejects(r) ==
    RetryIf(r, attempt[r] > 0 /\ IsRetryable(r, "pool_full") /\ CanRetry(attempt[r], r))

\* No permit and no queue, or a queue nobody may wait in.
PoolExhausted(r) ==
    /\ pc[r] = "pool"
    /\ ~Spare(poolFree, poolQ)
    /\ IF QueueCapacity = 0 \/ ~QueueTimeout
       THEN PoolRejects(r)
       ELSE Goto(r, "slow") /\ UNCHANGED attempt
    /\ UNCHANGED <<plan, clock, bodyVars, tries, conn, permitVars, inflight>>

\* queued.fetch_add, and a place in the semaphore's queue if there is room.
PoolEnqueue(r) ==
    /\ pc[r] = "slow"
    /\ queued' = queued + 1
    /\ IF queued >= QueueCapacity
       THEN Goto(r, "overflow") /\ UNCHANGED poolQ
       ELSE Goto(r, "queued") /\ poolQ' = Append(poolQ, r)
    /\ UNCHANGED <<plan, retryVars, bodyVars, tries, conn, held, fresh, poolFree, active,
                   breakerVars, inflight>>

\* queued.fetch_sub of a request that found the queue full.
PoolOverflow(r) ==
    /\ pc[r] = "overflow"
    /\ queued' = queued - 1
    /\ PoolRejects(r)
    /\ UNCHANGED <<plan, clock, bodyVars, tries, conn, held, fresh, poolFree, poolQ, active,
                   breakerVars, inflight>>

PoolGranted(r) ==
    /\ pc[r] = "queued" /\ poolQ # <<>> /\ Head(poolQ) = r /\ poolFree > 0
    /\ TakePool(r)
    /\ poolQ' = Tail(poolQ) /\ queued' = queued - 1
    /\ Goto(r, "breaker")
    /\ UNCHANGED <<plan, retryVars, bodyVars, tries, conn, held, breakerVars, inflight>>

\* acquire_owned without a timeout.
PoolNeverTimesOut(r) == pc[r] = "queued" /\ FALSE /\ UNCHANGED vars

\* queue_timeout, possibly after a permit has been set aside for the waiter.
PoolTimesOut(r) ==
    /\ pc[r] = "queued"
    /\ poolQ' = Without(poolQ, r) /\ queued' = queued - 1
    /\ PoolRejects(r)
    /\ UNCHANGED <<plan, clock, bodyVars, tries, conn, held, fresh, poolFree, active,
                   breakerVars, inflight>>

\* The permit is dropped when upstream_peer returns.
StoreBreakerForgotten(r) == UNCHANGED <<breaker, breakerFree>>

\* ctx.circuit_breaker_permit = permit: a permit kept from the attempt before
\* is dropped only now.
StoreBreaker(r) ==
    /\ breaker' = Set(breaker, r, "yes")
    /\ breakerFree' = breakerFree - 1 + One(breaker[r])

\* acquire_breaker_permit, first try.
BreakerTry(r) ==
    /\ pc[r] = "breaker"
    /\ \/ BreakerMax = 0 /\ UNCHANGED <<breaker, breakerFree>>
       \/ Spare(breakerFree, breakerQ) /\ StoreBreaker(r)
    /\ Goto(r, "select")
    /\ UNCHANGED <<plan, retryVars, bodyVars, tries, conn, poolVars, breakerQ, pendingFree, inflight>>

\* The local pool permit is dropped when upstream_peer returns an error.
DropFresh(r) ==
    /\ fresh' = Set(fresh, r, "no")
    /\ poolFree' = poolFree + One(fresh[r])
    /\ active' = active - One(fresh[r])
    /\ UNCHANGED <<held, poolQ, queued>>

BreakerBusy(r) ==
    pc[r] = "breaker" /\ BreakerMax > 0 /\ ~Spare(breakerFree, breakerQ)

\* Wait for max_connections as one of the pending requests, without a timeout.
BreakerWaits(r) ==
    /\ BreakerBusy(r)
    /\ pendingFree > 0
    /\ pendingFree' = pendingFree - 1
    /\ breakerQ' = Append(breakerQ, r)
    /\ Goto(r, "pending")
    /\ UNCHANGED <<plan, retryVars, bodyVars, tries, conn, poolVars, breaker, breakerFree, inflight>>

\* PendingLimit: 503.
BreakerRejects(r) ==
    /\ BreakerBusy(r)
    /\ pendingFree = 0
    /\ DropFresh(r)
    /\ Goto(r, "logging")
    /\ UNCHANGED <<plan, retryVars, bodyVars, tries, conn, breakerVars, inflight>>

BreakerGranted(r) ==
    /\ pc[r] = "pending" /\ breakerQ # <<>> /\ Head(breakerQ) = r /\ breakerFree > 0
    /\ StoreBreaker(r)
    /\ breakerQ' = Tail(breakerQ)
    /\ pendingFree' = pendingFree + 1
    /\ Goto(r, "select")
    /\ UNCHANGED <<plan, retryVars, bodyVars, tries, conn, poolVars, inflight>>

\* The permit of the attempt before is overwritten, not dropped.
SelectedLeaks(r) ==
    /\ pc[r] = "select"
    /\ held' = Set(held, r, fresh[r]) /\ fresh' = Set(fresh, r, "no")
    /\ Goto(r, "connect")
    /\ UNCHANGED <<plan, retryVars, bodyVars, tries, conn, poolFree, poolQ, queued, active,
                   breakerVars, inflight>>

\* An endpoint is selected and the peer built; the pool permit moves to ctx,
\* in the place of one kept from the attempt before.
Selected(r) ==
    /\ pc[r] = "select"
    /\ held' = Set(held, r, fresh[r]) /\ fresh' = Set(fresh, r, "no")
    /\ poolFree' = poolFree + One(held[r]) /\ active' = active - One(held[r])
    /\ Goto(r, "connect")
    /\ UNCHANGED <<plan, retryVars, bodyVars, tries, conn, poolQ, queued, breakerVars, inflight>>

\* No endpoint, or one that cannot be connected to as configured.
NotSelected(r) ==
    /\ pc[r] = "select"
    /\ DropFresh(r)
    /\ \/ UNCHANGED <<breaker, breakerFree>>
       \/ breaker' = Set(breaker, r, "no") /\ breakerFree' = breakerFree + One(breaker[r])
    /\ Goto(r, "logging")
    /\ UNCHANGED <<plan, retryVars, bodyVars, tries, conn, breakerQ, pendingFree, inflight>>

-----------------------------------------------------------------------------
(* The upstream connection.                                                *)

\* Pingora connects, or takes an idle connection.
Connected(r) ==
    /\ pc[r] = "connect"
    /\ \E k \in {"new", "reused"} : conn' = Set(conn, r, k)
    /\ Goto(r, "proxy")
    /\ UNCHANGED <<plan, retryVars, bodyVars, tries, permitVars, inflight>>

\* fail_to_connect.
FailToConnect(r) ==
    /\ pc[r] = "connect"
    /\ \E reason \in {"connect_timeout", "connect_error"} :
          RetryIf(r, /\ attempt[r] > 0 /\ IsMethodAllowed(r) /\ IsRetryable(r, reason)
                     /\ CanRetry(attempt[r], r) /\ CanReplay(r))
    /\ UNCHANGED <<plan, clock, bodyVars, tries, conn, permitVars, inflight>>

\* error_while_proxy after a failure at attempt a.  A reused connection is
\* retried without asking the policy.
ErrorWhileProxy(r, a, reason) ==
    IF conn[r] = "reused"
    THEN attempt' = Set(attempt, r, a) /\ Retry(r)
    ELSE IF attempt[r] > 0 /\ IsMethodAllowed(r) /\ IsRetryable(r, reason) /\ CanRetry(a, r)
    THEN /\ attempt' = Set(attempt, r, a + 1)
         /\ \/ Retry(r)
            \/ plan[r].size > 0 /\ Goto(r, "logging")   \* retry_buffer_truncated
    ELSE attempt' = Set(attempt, r, a) /\ Goto(r, "logging")

ProxyFails(r) ==
    /\ pc[r] = "proxy"
    /\ \E reason \in {"read_timeout", "status_code"} : ErrorWhileProxy(r, attempt[r], reason)
    /\ UNCHANGED <<plan, clock, bodyVars, tries, conn, permitVars, inflight>>

\* response_filter: the error it returns for a retryable status passes through
\* error_while_proxy.
Responds(r) ==
    /\ pc[r] = "proxy"
    /\ \E listed \in BOOLEAN :
          LET wanted == /\ listed /\ attempt[r] > 0 /\ IsMethodAllowed(r)
                        /\ IsRetryable(r, "status_code") /\ CanRetry(attempt[r], r)
          IN  IF wanted /\ CanReplay(r)
              THEN ErrorWhileProxy(r, attempt[r] + 1, "status_code")
              ELSE IF wanted /\ plan[r].onStreaming = "fail"
              THEN ErrorWhileProxy(r, attempt[r], "status_code")
              ELSE Goto(r, "logging") /\ UNCHANGED attempt
    /\ UNCHANGED <<plan, clock, bodyVars, tries, conn, permitVars, inflight>>

\* logging, after which the context is dropped.
Logging(r) ==
    /\ pc[r] = "logging"
    /\ inflight' = inflight - 1
    /\ ReleasePermits(r)
    /\ attempt' = Set(attempt, r, 0) /\ clock' = Set(clock, r, "running")
    /\ body' = Set(body, r, "none") /\ guard' = Set(guard, r, 0) /\ budget' = budget - guard[r]
    /\ tries' = Set(tries, r, 0) /\ conn' = Set(conn, r, "new") /\ plan' = Set(plan, r, None)
    /\ Goto(r, "idle")

-----------------------------------------------------------------------------

\* What the proxy does for a request it has accepted.
Serve(r) ==
    \/ ReadChunk(r) \/ Buffered(r) \/ Unbuffered(r) \/ PeerStart(r) \/ BackoffEnds(r)
    \/ PoolTry(r) \/ PoolExhausted(r) \/ PoolEnqueue(r) \/ PoolOverflow(r)
    \/ PoolGranted(r) \/ PoolTimesOut(r)
    \/ BreakerTry(r) \/ BreakerWaits(r) \/ BreakerRejects(r) \/ BreakerGranted(r)
    \/ Selected(r) \/ NotSelected(r)
    \/ Connected(r) \/ FailToConnect(r) \/ ProxyFails(r) \/ Responds(r) \/ Logging(r)

Next == /\ \E r \in Request : Arrive(r) \/ DeadlinePasses(r) \/ Serve(r)
        /\ UNCHANGED up

Spec == Init /\ [][Next]_vars

\* Every task of the runtime is scheduled, and the upstream answers or the
\* connection breaks.
FairSpec == Spec /\ \A r \in Request : WF_vars(Serve(r) /\ UNCHANGED up)

-----------------------------------------------------------------------------
(* Properties.                                                             *)

\* How many requests are where f says.
Count(f, S) == Cardinality({r \in Request : f[r] \in S})

\* acquire, Drop, logging: no permit of the pool, of the breaker or of its
\* pending requests is lost or handed out twice, on any path, error or retry.
PermitsConserved ==
    /\ poolFree + Count(held, {"yes"}) + Count(fresh, {"yes"}) = PoolMax
    /\ breakerFree + Count(breaker, {"yes"}) = BreakerMax
    /\ pendingFree + Count(pc, {"pending"}) = PendingMax

\* pool.max and circuit_breaker.max_connections bound the requests that are
\* connecting or being sent, whatever retries and reused connections do.
LimitsHold ==
    /\ Count(pc, {"connect", "proxy"}) <= PoolMax
    /\ BreakerMax > 0 => Count(pc, {"connect", "proxy"}) <= BreakerMax

\* The bytes the requests have buffered.
Charged == UNION {{r} \X (1..guard[r]) : r \in Request}

\* BudgetGuard and RetryContext: the bytes charged to the shared budget are those
\* of the requests on their way and never exceed it, however a request ends;
\* and whichever callbacks advance the retry context, the policy's max_attempts
\* is not exceeded.
RetriesAccounted ==
    /\ budget = Cardinality(Charged) /\ budget <= BodyBudget
    /\ \A r \in Request :
          /\ pc[r] = "idle" => guard[r] = 0
          /\ attempt[r] > 0 => attempt[r] <= plan[r].max

\* PoolLimiter and metrics: the counters that are kept beside the semaphores
\* agree with them; the queue counter is beyond the capacity only while
\* requests that found it full step back.
CountersAgree ==
    /\ active = PoolMax - poolFree
    /\ queued = Count(pc, {"queued", "overflow"})
    /\ Count(pc, {"queued"}) <= QueueCapacity
    /\ inflight = Count(pc, Phase \ {"idle"})

\* Every permit of the breaker is kept by a request that waits for another.
Wedged ==
    /\ BreakerMax > 0
    /\ BreakerMax = Cardinality({r \in Request : breaker[r] = "yes" /\ pc[r] = "pending"})

\* upstream_peer, Pingora's loop: every request is answered in the end; the
\* only way to wait for ever is behind requests that wait for themselves.
AnsweredUnlessWedged == \A r \in Request : []<>(pc[r] = "idle" \/ Wedged)

\* docs/configuration/reference.md:374, circuit_breaker: "Enforced (503 on
\* overflow)": a request at the limit is answered.
Answered == \A r \in Request : []<>(pc[r] = "idle")

=============================================================================
