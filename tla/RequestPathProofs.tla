-------------------------- MODULE RequestPathProofs --------------------------
(***************************************************************************)
(* For any number of requests and any limits: no permit is lost, the       *)
(* counters agree with the semaphores, and the limits hold.  The           *)
(* inductive invariant says which phases hold which permits; everything    *)
(* else is counting.                                                       *)
(***************************************************************************)
EXTENDS RequestPath, FiniteSetTheorems, TLAPS

\* The provers get more time than by default: the contexts are large.
USE SMTT(15), ZenonT(30)

In(v, S) == IF v \in S THEN 1 ELSE 0

\* Counting is over a finite set.
LEMMA CountNat ==
    ASSUME NEW f, NEW S
    PROVE  Count(f, S) \in Nat /\ IsFiniteSet({q \in Request : f[q] \in S})
<1>1. IsFiniteSet(Request)
  BY RequestAssumption DEF RequestAssumption
<1>2. IsFiniteSet({q \in Request : f[q] \in S})
  <2>1. {q \in Request : f[q] \in S} \in SUBSET Request
    OBVIOUS
  <2>2. QED
    BY <1>1, <2>1, FS_Subset
<1>3. QED
  BY <1>2, FS_CardinalityType DEF Count

\* One request moves: what it leaves and what it enters is counted.
LEMMA CountStep ==
    ASSUME NEW V, NEW f \in [Request -> V], NEW r \in Request, NEW v, NEW S
    PROVE  Count(Set(f, r, v), S) = Count(f, S) + In(v, S) - In(f[r], S)
<1> DEFINE g == Set(f, r, v)
           A == {q \in Request : f[q] \in S}
           B == {q \in Request : g[q] \in S}
<1>1. g[r] = v /\ \A q \in Request : q # r => g[q] = f[q]
  BY DEF Set
<1>2. IsFiniteSet(A) /\ Cardinality(A) = Count(f, S) /\ Count(f, S) \in Nat
  BY CountNat, ZenonT(30) DEF Count
<1>3. Cardinality(B) = Count(Set(f, r, v), S)
  BY DEF Count
<1> HIDE DEF g, A, B
<1>4. CASE v \in S /\ f[r] \notin S
  <2>1. B = A \cup {r} /\ r \notin A
    BY <1>1, <1>4 DEF A, B
  <2>2. Cardinality(A \cup {r}) = Cardinality(A) + 1
    BY <2>1, <1>2, FS_AddElement, ZenonT(30)
  <2>3. QED
    BY <2>1, <2>2, <1>2, <1>3, <1>4 DEF In
<1>5. CASE v \notin S /\ f[r] \in S
  <2>1. B = A \ {r} /\ r \in A
    BY <1>1, <1>5 DEF A, B
  <2>2. Cardinality(A \ {r}) = Cardinality(A) - 1
    BY <2>1, <1>2, FS_RemoveElement, ZenonT(30)
  <2>3. QED
    BY <2>1, <2>2, <1>2, <1>3, <1>5 DEF In
<1>6. CASE v \in S <=> f[r] \in S
  <2>1. A = B
    BY <1>1, <1>6 DEF A, B
  <2>2. QED
    BY <2>1, <1>2, <1>3, <1>6 DEF In
<1>7. QED
  BY <1>4, <1>5, <1>6

\* Requests where f has a value of S are counted by g's value in T.
LEMMA CountImplied ==
    ASSUME NEW f, NEW g, NEW S, NEW T, \A q \in Request : f[q] \in S => g[q] \in T
    PROVE  Count(f, S) <= Count(g, T)
<1>1. {q \in Request : f[q] \in S} \subseteq {q \in Request : g[q] \in T}
  OBVIOUS
<1>2. IsFiniteSet({q \in Request : g[q] \in T})
  BY CountNat, ZenonT(30)
<1>3. QED
  BY <1>1, <1>2, FS_Subset DEF Count

-----------------------------------------------------------------------------

\* What each phase holds.
Holding ==
    \A r \in Request :
        /\ fresh[r] = "yes" <=> pc[r] \in {"breaker", "pending", "select"}
        /\ pc[r] \in {"connect", "proxy"} => held[r] = "yes"
        /\ BreakerMax > 0 /\ pc[r] \in {"select", "connect", "proxy"} => breaker[r] = "yes"

CountTypes ==
    /\ up \in Upstream
    /\ pc \in [Request -> Phase]
    /\ held \in [Request -> Permit] /\ fresh \in [Request -> Permit]
    /\ breaker \in [Request -> Permit]
    /\ poolFree \in Nat /\ breakerFree \in Nat /\ pendingFree \in Nat
    /\ queued \in Nat /\ active \in Int /\ inflight \in Int

\* The inductive invariant.
Inv == CountTypes /\ Holding /\ PermitsConserved /\ CountersAgree

\* Where the counters look when a request moves from one phase to another.
Counters(p, q) ==
    /\ Count(pc, {"pending"}) \in Nat /\ Count(pc, {"queued"}) \in Nat
    /\ Count(pc, {"queued", "overflow"}) \in Nat /\ Count(pc, Phase \ {"idle"}) \in Nat
    /\ Count(pc', {"pending"}) = Count(pc, {"pending"}) + In(q, {"pending"}) - In(p, {"pending"})
    /\ Count(pc', {"queued"}) = Count(pc, {"queued"}) + In(q, {"queued"}) - In(p, {"queued"})
    /\ Count(pc', {"queued", "overflow"})
          = Count(pc, {"queued", "overflow"}) + In(q, {"queued", "overflow"}) - In(p, {"queued", "overflow"})
    /\ Count(pc', Phase \ {"idle"})
          = Count(pc, Phase \ {"idle"}) + In(q, Phase \ {"idle"}) - In(p, Phase \ {"idle"})

\* When one request changes phase, each count of phases changes by what left
\* and what came.
LEMMA PhaseStep ==
    ASSUME CountTypes, NEW r \in Request, NEW q, pc' = Set(pc, r, q)
    PROVE  Counters(pc[r], q)
<1>1. /\ Count(pc, {"pending"}) \in Nat /\ Count(pc, {"queued"}) \in Nat
      /\ Count(pc, {"queued", "overflow"}) \in Nat /\ Count(pc, Phase \ {"idle"}) \in Nat
  BY CountNat, ZenonT(30)
<1>2. pc \in [Request -> Phase]
  BY DEF CountTypes
<1>3. \A S : Count(pc', S) = Count(pc, S) + In(q, S) - In(pc[r], S)
  BY <1>2, CountStep
<1>4. QED
  BY <1>1, <1>3 DEF Counters

\* The same for the requests that hold a permit.
LEMMA PermitCount ==
    ASSUME NEW f \in [Request -> Permit], NEW r \in Request, NEW v
    PROVE  Count(Set(f, r, v), {"yes"}) = Count(f, {"yes"}) + One(v) - One(f[r])
<1>1. In(v, {"yes"}) = One(v) /\ In(f[r], {"yes"}) = One(f[r])
  BY DEF In, One
<1>2. Count(Set(f, r, v), {"yes"}) = Count(f, {"yes"}) + In(v, {"yes"}) - In(f[r], {"yes"})
  BY CountStep
<1>3. QED
  BY <1>1, <1>2

\* Request r moves to phase q and then has the permits h, f and b.
Placed(r, q, h, f, b) ==
    /\ up' = up
    /\ pc' = Set(pc, r, q) /\ q \in Phase
    /\ held' = Set(held, r, h) /\ h \in Permit
    /\ fresh' = Set(fresh, r, f) /\ f \in Permit
    /\ breaker' = Set(breaker, r, b) /\ b \in Permit
    /\ f = "yes" <=> q \in {"breaker", "pending", "select"}
    /\ q \in {"connect", "proxy"} => h = "yes"
    /\ BreakerMax > 0 /\ q \in {"select", "connect", "proxy"} => b = "yes"

\* The semaphores follow.
PoolMetered(r, h, f) ==
    /\ poolFree' = poolFree + One(held[r]) + One(fresh[r]) - One(h) - One(f)
    /\ active' = active - One(held[r]) - One(fresh[r]) + One(h) + One(f)
    /\ poolFree' >= 0
BreakerMetered(r, b) ==
    breakerFree' = breakerFree + One(breaker[r]) - One(b) /\ breakerFree' >= 0
PendingMetered(r, q) ==
    pendingFree' = pendingFree + In(pc[r], {"pending"}) - In(q, {"pending"}) /\ pendingFree' >= 0
Metered(r, q, h, f, b) == PoolMetered(r, h, f) /\ BreakerMetered(r, b) /\ PendingMetered(r, q)

\* So do the counters of the requests.
Counted(r, q) ==
    /\ queued' = queued + In(q, {"queued", "overflow"}) - In(pc[r], {"queued", "overflow"})
    /\ q = "queued" => queued < QueueCapacity
    /\ inflight' = inflight + In(q, Phase \ {"idle"}) - In(pc[r], Phase \ {"idle"})

Moved(r, q, h, f, b) == Placed(r, q, h, f, b) /\ Metered(r, q, h, f, b) /\ Counted(r, q)

\* Such a move keeps the invariant.
LEMMA MovedPreserves ==
    ASSUME Inv, NEW r \in Request, NEW q, NEW h, NEW f, NEW b, Moved(r, q, h, f, b)
    PROVE  Inv'
<1>a. CountTypes /\ Holding /\ PermitsConserved /\ CountersAgree
  BY DEF Inv
<1>b. Placed(r, q, h, f, b) /\ Metered(r, q, h, f, b) /\ Counted(r, q)
  BY DEF Moved
<1>0. /\ held \in [Request -> Permit] /\ fresh \in [Request -> Permit]
      /\ breaker \in [Request -> Permit] /\ pc \in [Request -> Phase]
      /\ held' = Set(held, r, h) /\ fresh' = Set(fresh, r, f) /\ breaker' = Set(breaker, r, b)
      /\ pc' = Set(pc, r, q)
  BY <1>a, <1>b, ZenonT(30) DEF CountTypes, Placed
<1>1. /\ One(held[r]) \in Int /\ One(fresh[r]) \in Int /\ One(breaker[r]) \in Int
      /\ One(h) \in Int /\ One(f) \in Int /\ One(b) \in Int
      /\ \A v, S : In(v, S) \in {0, 1}
  BY DEF One, In
<1>2. Counters(pc[r], q)
  BY <1>0, <1>a, PhaseStep, ZenonT(30)
<1>3. /\ Count(held, {"yes"}) \in Nat /\ Count(fresh, {"yes"}) \in Nat /\ Count(breaker, {"yes"}) \in Nat
  BY CountNat, ZenonT(30)
<1>4. /\ PoolMax \in Nat /\ QueueCapacity \in Nat /\ PoolMax' = PoolMax /\ QueueCapacity' = QueueCapacity
      /\ BreakerMax' = BreakerMax /\ PendingMax' = PendingMax
  <2>1. up \in Upstream /\ up' = up
    BY <1>a, <1>b, ZenonT(30) DEF CountTypes, Placed
  <2>2. QED
    BY <2>1, RequestAssumption DEF RequestAssumption, PoolMax, QueueCapacity, BreakerMax, PendingMax
<1>5. Count(held', {"yes"}) = Count(held, {"yes"}) + One(h) - One(held[r])
  BY PermitCount, <1>0
<1>6. Count(fresh', {"yes"}) = Count(fresh, {"yes"}) + One(f) - One(fresh[r])
  BY PermitCount, <1>0
<1>7. Count(breaker', {"yes"}) = Count(breaker, {"yes"}) + One(b) - One(breaker[r])
  BY PermitCount, <1>0
<1>c. /\ poolFree \in Nat /\ breakerFree \in Nat /\ pendingFree \in Nat
      /\ queued \in Nat /\ active \in Int /\ inflight \in Int
  BY <1>a DEF CountTypes
<1>8. CountTypes'
  <2>1. /\ pc' \in [Request -> Phase] /\ held' \in [Request -> Permit]
        /\ fresh' \in [Request -> Permit] /\ breaker' \in [Request -> Permit]
    BY <1>0, <1>b DEF Placed, Set
  <2>2. poolFree' \in Nat /\ breakerFree' \in Nat /\ pendingFree' \in Nat /\ active' \in Int /\ inflight' \in Int
    <3>1. poolFree' \in Nat /\ breakerFree' \in Nat /\ active' \in Int
      BY <1>1, <1>b, <1>c DEF Metered, PoolMetered, BreakerMetered
    <3>2. pendingFree' \in Nat
      BY <1>1, <1>b, <1>c DEF Metered, PendingMetered
    <3>3. inflight' \in Int
      BY <1>1, <1>b, <1>c DEF Counted
    <3>4. QED
      BY <3>1, <3>2, <3>3
  <2>3. queued' \in Nat
    <3>1. pc[r] \in {"queued", "overflow"} => queued >= 1
      <4>1. CASE pc[r] \in {"queued", "overflow"}
        <5>1. Count(Set(pc, r, "idle"), {"queued", "overflow"}) = Count(pc, {"queued", "overflow"}) + 0 - 1
          <6>1. In("idle", {"queued", "overflow"}) = 0 /\ In(pc[r], {"queued", "overflow"}) = 1
            BY <4>1 DEF In
          <6>2. QED
            <7>1. pc \in [Request -> Phase]
              BY <1>0
            <7>2. \A S : Count(Set(pc, r, "idle"), S) = Count(pc, S) + In("idle", S) - In(pc[r], S)
              BY <7>1, CountStep, ZenonT(30)
            <7>3. QED
              BY <7>2, <6>1
        <5>2. Count(Set(pc, r, "idle"), {"queued", "overflow"}) \in Nat
          BY CountNat, ZenonT(30)
        <5>3. queued = Count(pc, {"queued", "overflow"})
          BY <1>a DEF CountersAgree
        <5>4. QED
          BY <5>1, <5>2, <5>3, <1>c
      <4>2. QED
        BY <4>1
    <3>2. queued' = queued + In(q, {"queued", "overflow"}) - In(pc[r], {"queued", "overflow"})
      BY <1>b DEF Counted
    <3>3. In(pc[r], {"queued", "overflow"}) = 1 => queued >= 1
      BY <3>1 DEF In
    <3>4. QED
      BY <3>2, <3>3, <1>1, <1>c
  <2>4. up' \in Upstream
    BY <1>a, <1>b DEF CountTypes, Placed
  <2>5. QED
    BY <2>1, <2>2, <2>3, <2>4 DEF CountTypes
<1>9. Holding'
  BY <1>a, <1>b, <1>0, <1>4 DEF Holding, Placed, Set
<1>10. PermitsConserved'
  <2>1. (poolFree + Count(held, {"yes"}) + Count(fresh, {"yes"}) = PoolMax)'
    <3>1. poolFree' = poolFree + One(held[r]) + One(fresh[r]) - One(h) - One(f)
      BY <1>b DEF Metered, PoolMetered
    <3>2. poolFree + Count(held, {"yes"}) + Count(fresh, {"yes"}) = PoolMax
      BY <1>a DEF PermitsConserved
    <3>3. QED
      BY <3>1, <3>2, <1>1, <1>3, <1>4, <1>5, <1>6, <1>c
  <2>2. (breakerFree + Count(breaker, {"yes"}) = BreakerMax)'
    <3>1. breakerFree' = breakerFree + One(breaker[r]) - One(b)
      BY <1>b DEF Metered, BreakerMetered
    <3>2. breakerFree + Count(breaker, {"yes"}) = BreakerMax
      BY <1>a DEF PermitsConserved
    <3>3. QED
      BY <3>1, <3>2, <1>1, <1>3, <1>4, <1>7, <1>c
  <2>3. (pendingFree + Count(pc, {"pending"}) = PendingMax)'
    <3>1. pendingFree' = pendingFree + In(pc[r], {"pending"}) - In(q, {"pending"})
      BY <1>b DEF Metered, PendingMetered
    <3>2. pendingFree + Count(pc, {"pending"}) = PendingMax
      BY <1>a DEF PermitsConserved
    <3>3. /\ Count(pc, {"pending"}) \in Nat
          /\ Count(pc', {"pending"}) = Count(pc, {"pending"}) + In(q, {"pending"}) - In(pc[r], {"pending"})
      BY <1>2 DEF Counters
    <3>4. QED
      BY <3>1, <3>2, <3>3, <1>1, <1>4, <1>c
  <2>4. QED
    BY <2>1, <2>2, <2>3 DEF PermitsConserved
<1>11. CountersAgree'
  <2>1. active' = (PoolMax - poolFree)'
    <3>1. /\ poolFree' = poolFree + One(held[r]) + One(fresh[r]) - One(h) - One(f)
          /\ active' = active - One(held[r]) - One(fresh[r]) + One(h) + One(f)
      BY <1>b DEF Metered, PoolMetered
    <3>2. active = PoolMax - poolFree
      BY <1>a DEF CountersAgree
    <3>3. QED
      BY <3>1, <3>2, <1>1, <1>4, <1>c
  <2>2. queued' = Count(pc, {"queued", "overflow"})' /\ inflight' = Count(pc, Phase \ {"idle"})'
    <3>1. queued = Count(pc, {"queued", "overflow"}) /\ inflight = Count(pc, Phase \ {"idle"})
      BY <1>a DEF CountersAgree
    <3>2. Phase' = Phase
      BY DEF Phase
    <3>3. QED
      BY <3>1, <3>2, <1>1, <1>2, <1>b, <1>c DEF Counted, Counters
  <2>3. (Count(pc, {"queued"}) <= QueueCapacity)'
    <3>0. /\ Count(pc, {"queued"}) \in Nat /\ In(pc[r], {"queued"}) \in {0, 1}
          /\ Count(pc', {"queued"}) = Count(pc, {"queued"}) + In(q, {"queued"}) - In(pc[r], {"queued"})
      BY <1>1, <1>2 DEF Counters
    <3>1. Count(pc, {"queued"}) <= queued /\ Count(pc, {"queued"}) <= QueueCapacity
      BY <1>a, CountImplied DEF CountersAgree
    <3>2. CASE q = "queued"
      <4>1. In(q, {"queued"}) = 1
        BY <3>2 DEF In
      <4>2. queued < QueueCapacity
        BY <3>2, <1>b DEF Counted
      <4>3. QED
        BY <4>1, <4>2, <3>0, <3>1, <1>4, <1>c
    <3>3. CASE q # "queued"
      <4>1. In(q, {"queued"}) = 0
        BY <3>3 DEF In
      <4>2. QED
        BY <4>1, <3>0, <3>1, <1>4
    <3>4. QED
      BY <3>2, <3>3
  <2>4. QED
    BY <2>1, <2>2, <2>3 DEF CountersAgree
<1>12. QED
  BY <1>8, <1>9, <1>10, <1>11 DEF Inv

\* What the steps below know of the request that moves: what it does not
\* change stays, where it is, and the numbers.
Kept(r) ==
    /\ held = Set(held, r, held[r]) /\ fresh = Set(fresh, r, fresh[r])
    /\ breaker = Set(breaker, r, breaker[r]) /\ pc = Set(pc, r, pc[r])
Located(r) ==
    /\ held[r] \in Permit /\ fresh[r] \in Permit /\ breaker[r] \in Permit /\ pc[r] \in Phase
    /\ fresh[r] = "yes" <=> pc[r] \in {"breaker", "pending", "select"}
    /\ pc[r] \in {"connect", "proxy"} => held[r] = "yes"
    /\ BreakerMax > 0 /\ pc[r] \in {"select", "connect", "proxy"} => breaker[r] = "yes"
Amounts ==
    /\ poolFree \in Nat /\ breakerFree \in Nat /\ pendingFree \in Nat
    /\ queued \in Nat /\ active \in Int /\ inflight \in Int
Facts(r) == Kept(r) /\ Located(r) /\ Amounts

\* What the invariant says of one request.
LEMMA InvFacts ==
    ASSUME Inv, NEW r \in Request
    PROVE  Facts(r)
<1>1. Kept(r)
  BY DEF Inv, CountTypes, Kept, Set
<1>2. Located(r)
  BY DEF Inv, CountTypes, Holding, Located
<1>3. QED
  BY <1>1, <1>2 DEF Inv, CountTypes, Amounts, Facts

\* The pool's permits as the steps move them: not at all, one taken, those of
\* the attempt before given back, the new one given back, the new one kept.
LEMMA PoolMeter ==
    ASSUME NEW r, Facts(r)
    PROVE  /\ poolFree' = poolFree /\ active' = active => PoolMetered(r, held[r], fresh[r])
           /\ TakePool(r) /\ poolFree > 0 /\ fresh[r] = "no" => PoolMetered(r, held[r], "yes")
           /\ poolFree' = poolFree + One(held[r]) /\ active' = active - One(held[r]) =>
                  /\ PoolMetered(r, "no", fresh[r])
                  /\ fresh[r] = "yes" => PoolMetered(r, "yes", "no")
           /\ DropFresh(r) => PoolMetered(r, held[r], "no")
<1>1. poolFree \in Nat /\ active \in Int
  BY DEF Facts, Amounts
<1>2. One("yes") = 1 /\ One("no") = 0 /\ One(held[r]) \in {0, 1} /\ One(fresh[r]) \in {0, 1}
  BY DEF One
<1>3. QED
  BY <1>1, <1>2 DEF PoolMetered, TakePool, DropFresh

\* The breaker's permits: untouched, one stored, one given back.
LEMMA BreakerMeter ==
    ASSUME NEW r, Facts(r)
    PROVE  /\ breakerFree' = breakerFree => BreakerMetered(r, breaker[r])
           /\ StoreBreaker(r) /\ breakerFree > 0 => BreakerMetered(r, "yes")
           /\ breakerFree' = breakerFree + One(breaker[r]) => BreakerMetered(r, "no")
<1>1. breakerFree \in Nat
  BY DEF Facts, Amounts
<1>2. One("yes") = 1 /\ One("no") = 0 /\ One(breaker[r]) \in {0, 1}
  BY DEF One
<1>3. QED
  BY <1>1, <1>2 DEF BreakerMetered, StoreBreaker

\* The places of those who wait for the breaker.
LEMMA PendingMeter ==
    ASSUME NEW r, Facts(r), NEW q
    PROVE  /\ pendingFree' = pendingFree /\ pc[r] # "pending" /\ q # "pending" => PendingMetered(r, q)
           /\ pendingFree' = pendingFree - 1 /\ pendingFree > 0 /\ pc[r] # "pending" => PendingMetered(r, "pending")
           /\ pendingFree' = pendingFree + 1 /\ pc[r] = "pending" /\ q # "pending" => PendingMetered(r, q)
<1>1. pendingFree \in Nat
  BY DEF Facts, Amounts
<1>2. QED
  BY <1>1 DEF PendingMetered, In

\* Neither end of the step counts.
Between == {"peer", "backoff", "pool", "breaker", "pending", "select", "connect", "logging"}
LEMMA CountedSame ==
    ASSUME NEW r, Facts(r), pc[r] \in Between, NEW q \in Between, queued' = queued, inflight' = inflight
    PROVE  Counted(r, q)
<1>1. queued \in Nat /\ inflight \in Int
  BY DEF Facts, Amounts
<1>2. /\ In(pc[r], {"queued", "overflow"}) = 0 /\ In(q, {"queued", "overflow"}) = 0
      /\ In(pc[r], Phase \ {"idle"}) = 1 /\ In(q, Phase \ {"idle"}) = 1 /\ q # "queued"
  BY DEF In, Between, Phase
<1>3. QED
  BY <1>1, <1>2 DEF Counted

Plain == {"buffering", "peer", "backoff", "pool", "slow", "logging", "connect", "proxy"}

\* The permits stay where they are.
LEMMA PlainStep ==
    ASSUME Inv, NEW r \in Request, NEW q \in Plain, pc[r] \in Plain, pc' = Set(pc, r, q),
           q \in {"connect", "proxy"} => pc[r] \in {"connect", "proxy"},
           UNCHANGED <<up, permitVars, inflight>>
    PROVE  Inv'
<1>1. Facts(r)
  BY InvFacts
<1>2. Moved(r, q, held[r], fresh[r], breaker[r])
  <2>1. Placed(r, q, held[r], fresh[r], breaker[r])
    BY <1>1 DEF Facts, Kept, Located, Placed, Plain, Phase, permitVars, poolVars, breakerVars
  <2>2. Metered(r, q, held[r], fresh[r], breaker[r])
    BY <1>1, PoolMeter, BreakerMeter, PendingMeter, ZenonT(30) DEF Metered, Plain, permitVars, poolVars, breakerVars
  <2>3. Counted(r, q)
    BY <1>1 DEF Facts, Amounts, Counted, Plain, Phase, In, permitVars, poolVars
  <2>4. QED
    BY <2>1, <2>2, <2>3 DEF Moved
<1>3. QED
  BY <1>2, MovedPreserves

\* The request is counted in, and out again.
LEMMA ArriveStep ==
    ASSUME Inv, NEW r \in Request, Arrive(r), up' = up
    PROVE  Inv'
<1>1. Facts(r)
  BY InvFacts
<1>2. PICK q \in {"logging", "buffering", "peer"} : pc' = Set(pc, r, q)
  BY DEF Arrive, Goto, Set
<1>3. Moved(r, q, held[r], fresh[r], breaker[r])
  <2>1. Placed(r, q, held[r], fresh[r], breaker[r])
    BY <1>1, <1>2 DEF Facts, Kept, Located, Placed, Arrive, Phase, permitVars, poolVars, breakerVars
  <2>2. Metered(r, q, held[r], fresh[r], breaker[r])
    BY <1>1, PoolMeter, BreakerMeter, PendingMeter, ZenonT(30) DEF Metered, Arrive, permitVars, poolVars, breakerVars
  <2>3. Counted(r, q)
    BY <1>1 DEF Facts, Amounts, Counted, Arrive, Phase, In, permitVars, poolVars
  <2>4. QED
    BY <2>1, <2>2, <2>3 DEF Moved
<1>4. QED
  BY <1>3, MovedPreserves

\* The request ends: what it held is given back.
LEMMA LoggingStep ==
    ASSUME Inv, NEW r \in Request, Logging(r), up' = up
    PROVE  Inv'
<1>1. Facts(r)
  BY InvFacts
<1>2. Moved(r, "idle", "no", fresh[r], "no")
  <2>1. Placed(r, "idle", "no", fresh[r], "no")
    BY <1>1 DEF Facts, Kept, Located, Placed, Logging, Goto, ReleasePermits, Phase, Permit
  <2>2. Metered(r, "idle", "no", fresh[r], "no")
    BY <1>1, PoolMeter, BreakerMeter, PendingMeter, ZenonT(30) DEF Metered, Logging, ReleasePermits
  <2>3. Counted(r, "idle")
    <3>1. queued' = queued /\ inflight' = inflight - 1 /\ pc[r] = "logging"
      BY ZenonT(30) DEF Logging, ReleasePermits
    <3>2. /\ In("idle", {"queued", "overflow"}) = 0 /\ In("logging", {"queued", "overflow"}) = 0
          /\ In("idle", Phase \ {"idle"}) = 0 /\ In("logging", Phase \ {"idle"}) = 1
      BY DEF In, Phase
    <3>3. QED
      BY <1>1, <3>1, <3>2 DEF Facts, Amounts, Counted
  <2>4. QED
    BY <2>1, <2>2, <2>3 DEF Moved
<1>3. QED
  BY <1>2, MovedPreserves

\* upstream_peer starts.
LEMMA PeerStartStep ==
    ASSUME Inv, NEW r \in Request, PeerStart(r), up' = up
    PROVE  Inv'
<1>1. Facts(r)
  BY InvFacts
<1>2. CASE attempt[r] > 1 /\ ReleasePermits(r) /\ Goto(r, "backoff")
  <2>1. Moved(r, "backoff", "no", fresh[r], "no")
    <3>1. Placed(r, "backoff", "no", fresh[r], "no")
      BY <1>1, <1>2 DEF Facts, Kept, Located, Placed, PeerStart, Goto, ReleasePermits, Phase, Permit
    <3>2. Metered(r, "backoff", "no", fresh[r], "no")
      BY <1>1, <1>2, PoolMeter, BreakerMeter, PendingMeter, ZenonT(30) DEF Metered, PeerStart, ReleasePermits
    <3>3. Counted(r, "backoff")
      BY <1>1, <1>2, CountedSame, ZenonT(30) DEF Between, PeerStart, ReleasePermits
    <3>4. QED
      BY <3>1, <3>2, <3>3 DEF Moved
  <2>2. QED
    BY <2>1, MovedPreserves
<1>3. CASE attempt[r] <= 1 /\ UNCHANGED permitVars /\ Goto(r, "pool")
  BY <1>3, PlainStep DEF PeerStart, Goto, Plain
<1>4. QED
  BY <1>2, <1>3 DEF PeerStart

\* The pool.
LEMMA PoolTakeStep ==
    ASSUME Inv, NEW r \in Request, PoolTry(r) \/ PoolGranted(r), up' = up
    PROVE  Inv'
<1>1. Facts(r)
  BY InvFacts
<1>0. fresh[r] = "no"
  BY <1>1 DEF Facts, Located, Permit, PoolTry, PoolGranted
<1>2. CASE PoolTry(r)
  <2>1. Moved(r, "breaker", held[r], "yes", breaker[r])
    <3>1. Placed(r, "breaker", held[r], "yes", breaker[r])
      BY <1>1, <1>2 DEF Facts, Kept, Located, Placed, PoolTry, TakePool, Goto, Phase, Permit, breakerVars
    <3>2. Metered(r, "breaker", held[r], "yes", breaker[r])
      BY <1>0, <1>1, <1>2, PoolMeter, BreakerMeter, PendingMeter, ZenonT(30) DEF Metered, PoolTry, Spare, breakerVars
    <3>3. Counted(r, "breaker")
      BY <1>1, <1>2, CountedSame, ZenonT(30) DEF Between, PoolTry
    <3>4. QED
      BY <3>1, <3>2, <3>3 DEF Moved
  <2>2. QED
    BY <2>1, MovedPreserves
<1>3. CASE PoolGranted(r)
  <2>1. Moved(r, "breaker", held[r], "yes", breaker[r])
    <3>1. Placed(r, "breaker", held[r], "yes", breaker[r])
      BY <1>1, <1>3 DEF Facts, Kept, Located, Placed, PoolGranted, TakePool, Goto, Phase, Permit,
          breakerVars
    <3>2. Metered(r, "breaker", held[r], "yes", breaker[r])
      BY <1>0, <1>1, <1>3, PoolMeter, BreakerMeter, PendingMeter, ZenonT(30) DEF Metered, PoolGranted, breakerVars
    <3>3. Counted(r, "breaker")
      BY <1>1, <1>3 DEF Facts, Amounts, Counted, PoolGranted, Phase, In
    <3>4. QED
      BY <3>1, <3>2, <3>3 DEF Moved
  <2>2. QED
    BY <2>1, MovedPreserves
<1>4. QED
  BY <1>2, <1>3

\* A rejected request goes to logging.
LEMMA RejectGoes ==
    ASSUME NEW r \in Request, NEW c, RetryIf(r, c)
    PROVE  \E q \in {"peer", "logging"} : pc' = Set(pc, r, q)
BY DEF RetryIf, Retry, Goto, Set

\* The wait for a pool permit.
LEMMA PoolWaitStep ==
    ASSUME Inv, NEW r \in Request, PoolEnqueue(r) \/ PoolOverflow(r) \/ PoolTimesOut(r), up' = up
    PROVE  Inv'
<1>1. Facts(r)
  BY InvFacts
<1>2. CASE PoolEnqueue(r) /\ queued >= QueueCapacity
  <2>1. Moved(r, "overflow", held[r], fresh[r], breaker[r])
    <3>1. Placed(r, "overflow", held[r], fresh[r], breaker[r])
      BY <1>1, <1>2 DEF Facts, Kept, Located, Placed, PoolEnqueue, Goto, Phase, breakerVars
    <3>2. Metered(r, "overflow", held[r], fresh[r], breaker[r])
      BY <1>1, <1>2, PoolMeter, BreakerMeter, PendingMeter, ZenonT(30) DEF Metered, PoolEnqueue, breakerVars
    <3>3. Counted(r, "overflow")
      BY <1>1, <1>2 DEF Facts, Amounts, Counted, PoolEnqueue, Phase, In
    <3>4. QED
      BY <3>1, <3>2, <3>3 DEF Moved
  <2>2. QED
    BY <2>1, MovedPreserves
<1>3. CASE PoolEnqueue(r) /\ ~(queued >= QueueCapacity)
  <2>1. QueueCapacity \in Nat
    BY RequestAssumption DEF RequestAssumption, Inv, CountTypes, QueueCapacity
  <2>2. Moved(r, "queued", held[r], fresh[r], breaker[r])
    <3>1. Placed(r, "queued", held[r], fresh[r], breaker[r])
      BY <1>1, <1>3 DEF Facts, Kept, Located, Placed, PoolEnqueue, Goto, Phase, breakerVars
    <3>2. Metered(r, "queued", held[r], fresh[r], breaker[r])
      BY <1>1, <1>3, PoolMeter, BreakerMeter, PendingMeter, ZenonT(30) DEF Metered, PoolEnqueue, breakerVars
    <3>3. Counted(r, "queued")
      BY <1>1, <1>3, <2>1 DEF Facts, Amounts, Counted, PoolEnqueue, Phase, In
    <3>4. QED
      BY <3>1, <3>2, <3>3 DEF Moved
  <2>3. QED
    BY <2>2, MovedPreserves
<1>4. CASE PoolOverflow(r) \/ PoolTimesOut(r)
  <2>1. PICK q \in {"peer", "logging"} : pc' = Set(pc, r, q)
    BY <1>4, RejectGoes, ZenonT(30) DEF PoolOverflow, PoolTimesOut, PoolRejects
  <2>2. Moved(r, q, held[r], fresh[r], breaker[r])
    <3>0. /\ pc[r] \in {"overflow", "queued"} /\ queued' = queued - 1
          /\ UNCHANGED <<held, fresh, poolFree, active, breaker, breakerFree, pendingFree, inflight>>
      BY <1>4 DEF PoolOverflow, PoolTimesOut, breakerVars
    <3>1. Placed(r, q, held[r], fresh[r], breaker[r])
      BY <1>1, <2>1, <3>0 DEF Facts, Kept, Located, Placed, Phase
    <3>2. Metered(r, q, held[r], fresh[r], breaker[r])
      BY <1>1, <2>1, <3>0, PoolMeter, BreakerMeter, PendingMeter, ZenonT(30) DEF Metered
    <3>3. Counted(r, q)
      BY <1>1, <3>0 DEF Facts, Amounts, Counted, Phase, In
    <3>4. QED
      BY <3>1, <3>2, <3>3 DEF Moved
  <2>3. QED
    BY <2>2, MovedPreserves
<1>5. QED
  BY <1>2, <1>3, <1>4

\* The breaker.
LEMMA BreakerTryStep ==
    ASSUME Inv, NEW r \in Request, BreakerTry(r), up' = up
    PROVE  Inv'
<1>1. Facts(r)
  BY InvFacts
<1>2. CASE BreakerMax = 0 /\ UNCHANGED <<breaker, breakerFree>>
  <2>1. Moved(r, "select", held[r], fresh[r], breaker[r])
    <3>1. Placed(r, "select", held[r], fresh[r], breaker[r])
      BY <1>1, <1>2 DEF Facts, Kept, Located, Placed, BreakerTry, Goto, Phase, poolVars
    <3>2. Metered(r, "select", held[r], fresh[r], breaker[r])
      BY <1>1, <1>2, PoolMeter, BreakerMeter, PendingMeter, ZenonT(30) DEF Metered, BreakerTry, poolVars
    <3>3. Counted(r, "select")
      BY <1>1, CountedSame, ZenonT(30) DEF Between, BreakerTry, poolVars
    <3>4. QED
      BY <3>1, <3>2, <3>3 DEF Moved
  <2>2. QED
    BY <2>1, MovedPreserves
<1>3. CASE Spare(breakerFree, breakerQ) /\ StoreBreaker(r)
  <2>1. Moved(r, "select", held[r], fresh[r], "yes")
    <3>1. Placed(r, "select", held[r], fresh[r], "yes")
      BY <1>1, <1>3 DEF Facts, Kept, Located, Placed, BreakerTry, StoreBreaker, Goto, Phase, poolVars
    <3>2. Metered(r, "select", held[r], fresh[r], "yes")
      BY <1>1, <1>3, PoolMeter, BreakerMeter, PendingMeter, ZenonT(30) DEF Metered, BreakerTry, Spare, poolVars
    <3>3. Counted(r, "select")
      BY <1>1, CountedSame, ZenonT(30) DEF Between, BreakerTry, poolVars
    <3>4. QED
      BY <3>1, <3>2, <3>3 DEF Moved
  <2>2. QED
    BY <2>1, MovedPreserves
<1>4. QED
  BY <1>2, <1>3 DEF BreakerTry

\* The wait for a breaker permit.
LEMMA BreakerWaitStep ==
    ASSUME Inv, NEW r \in Request, BreakerWaits(r) \/ BreakerRejects(r) \/ BreakerGranted(r), up' = up
    PROVE  Inv'
<1>1. Facts(r)
  BY InvFacts
<1>2. CASE BreakerWaits(r)
  <2>1. Moved(r, "pending", held[r], fresh[r], breaker[r])
    <3>1. Placed(r, "pending", held[r], fresh[r], breaker[r])
      BY <1>1, <1>2 DEF Facts, Kept, Located, Placed, BreakerWaits, BreakerBusy, Goto, Phase, poolVars
    <3>2. Metered(r, "pending", held[r], fresh[r], breaker[r])
      BY <1>1, <1>2, PoolMeter, BreakerMeter, PendingMeter, ZenonT(30) DEF Metered, BreakerWaits, BreakerBusy, poolVars
    <3>3. Counted(r, "pending")
      BY <1>1, <1>2, CountedSame, ZenonT(30) DEF Between, BreakerWaits, BreakerBusy, poolVars
    <3>4. QED
      BY <3>1, <3>2, <3>3 DEF Moved
  <2>2. QED
    BY <2>1, MovedPreserves
<1>3. CASE BreakerRejects(r)
  <2>1. Moved(r, "logging", held[r], "no", breaker[r])
    <3>1. Placed(r, "logging", held[r], "no", breaker[r])
      BY <1>1, <1>3 DEF Facts, Kept, Located, Placed, BreakerRejects, DropFresh, Goto, Phase, Permit,
          breakerVars
    <3>2. Metered(r, "logging", held[r], "no", breaker[r])
      BY <1>1, <1>3, PoolMeter, BreakerMeter, PendingMeter, ZenonT(30) DEF Metered, BreakerRejects, BreakerBusy, breakerVars
    <3>3. Counted(r, "logging")
      BY <1>1, <1>3, CountedSame, ZenonT(30) DEF Between, BreakerRejects, BreakerBusy, DropFresh
    <3>4. QED
      BY <3>1, <3>2, <3>3 DEF Moved
  <2>2. QED
    BY <2>1, MovedPreserves
<1>4. CASE BreakerGranted(r)
  <2>1. Moved(r, "select", held[r], fresh[r], "yes")
    <3>1. Placed(r, "select", held[r], fresh[r], "yes")
      BY <1>1, <1>4 DEF Facts, Kept, Located, Placed, BreakerGranted, StoreBreaker, Goto, Phase, poolVars
    <3>2. Metered(r, "select", held[r], fresh[r], "yes")
      BY <1>1, <1>4, PoolMeter, BreakerMeter, PendingMeter, ZenonT(30) DEF Metered, BreakerGranted, poolVars
    <3>3. Counted(r, "select")
      BY <1>1, <1>4, CountedSame, ZenonT(30) DEF Between, BreakerGranted, poolVars
    <3>4. QED
      BY <3>1, <3>2, <3>3 DEF Moved
  <2>2. QED
    BY <2>1, MovedPreserves
<1>5. QED
  BY <1>2, <1>3, <1>4

\* The choice of the endpoint.
LEMMA SelectStep ==
    ASSUME Inv, NEW r \in Request, Selected(r) \/ NotSelected(r), up' = up
    PROVE  Inv'
<1>1. Facts(r)
  BY InvFacts
<1>2. CASE Selected(r)
  <2>0. fresh[r] = "yes"
    BY <1>1, <1>2 DEF Facts, Located, Selected
  <2>1. Moved(r, "connect", "yes", "no", breaker[r])
    <3>1. Placed(r, "connect", "yes", "no", breaker[r])
      BY <1>1, <1>2 DEF Facts, Kept, Located, Placed, Selected, Goto, Phase, Permit, breakerVars
    <3>2. Metered(r, "connect", "yes", "no", breaker[r])
      BY <1>1, <1>2, <2>0, PoolMeter, BreakerMeter, PendingMeter, ZenonT(30) DEF Metered, Selected, breakerVars
    <3>3. Counted(r, "connect")
      BY <1>1, <1>2, CountedSame, ZenonT(30) DEF Between, Selected
    <3>4. QED
      BY <3>1, <3>2, <3>3 DEF Moved
  <2>2. QED
    BY <2>1, MovedPreserves
<1>3. CASE NotSelected(r) /\ UNCHANGED <<breaker, breakerFree>>
  <2>1. Moved(r, "logging", held[r], "no", breaker[r])
    <3>1. Placed(r, "logging", held[r], "no", breaker[r])
      BY <1>1, <1>3 DEF Facts, Kept, Located, Placed, NotSelected, DropFresh, Goto, Phase, Permit
    <3>2. Metered(r, "logging", held[r], "no", breaker[r])
      BY <1>1, <1>3, PoolMeter, BreakerMeter, PendingMeter, ZenonT(30) DEF Metered, NotSelected
    <3>3. Counted(r, "logging")
      BY <1>1, <1>3, CountedSame, ZenonT(30) DEF Between, NotSelected, DropFresh
    <3>4. QED
      BY <3>1, <3>2, <3>3 DEF Moved
  <2>2. QED
    BY <2>1, MovedPreserves
<1>4. CASE NotSelected(r) /\ breaker' = Set(breaker, r, "no") /\ breakerFree' = breakerFree + One(breaker[r])
  <2>1. Moved(r, "logging", held[r], "no", "no")
    <3>1. Placed(r, "logging", held[r], "no", "no")
      BY <1>1, <1>4 DEF Facts, Kept, Located, Placed, NotSelected, DropFresh, Goto, Phase, Permit
    <3>2. Metered(r, "logging", held[r], "no", "no")
      BY <1>1, <1>4, PoolMeter, BreakerMeter, PendingMeter, ZenonT(30) DEF Metered, NotSelected
    <3>3. Counted(r, "logging")
      BY <1>1, <1>4, CountedSame, ZenonT(30) DEF Between, NotSelected, DropFresh
    <3>4. QED
      BY <3>1, <3>2, <3>3 DEF Moved
  <2>2. QED
    BY <2>1, MovedPreserves
<1>5. QED
  BY <1>2, <1>3, <1>4 DEF NotSelected

\* The steps that touch no permit.
LEMMA OtherStep ==
    ASSUME Inv, NEW r \in Request, up' = up,
           \/ ReadChunk(r) \/ Buffered(r) \/ Unbuffered(r) \/ BackoffEnds(r) \/ PoolExhausted(r)
           \/ Connected(r) \/ FailToConnect(r) \/ ProxyFails(r) \/ Responds(r)
    PROVE  Inv'
<1>1. Facts(r)
  BY InvFacts
<1>2. CASE ReadChunk(r)
  <2>1. pc' = Set(pc, r, pc[r]) /\ pc[r] \in Plain /\ UNCHANGED <<up, permitVars, inflight>>
    BY <1>1, <1>2, ZenonT(30) DEF ReadChunk, Facts, Kept, Plain
  <2>2. QED
    BY <2>1, PlainStep
<1>3. CASE Buffered(r) \/ Unbuffered(r) \/ BackoffEnds(r)
  <2>1. PICK q \in {"peer", "logging", "pool"} : pc' = Set(pc, r, q)
    BY <1>3 DEF Buffered, Unbuffered, BackoffEnds, Goto
  <2>2. pc[r] \in Plain /\ UNCHANGED <<up, permitVars, inflight>> /\ q \in Plain
    BY <1>3, ZenonT(30) DEF Buffered, Unbuffered, BackoffEnds, Plain
  <2>3. QED
    BY <2>1, <2>2, PlainStep
<1>4. CASE PoolExhausted(r)
  <2>1. PICK q \in {"peer", "logging", "slow"} : pc' = Set(pc, r, q)
    BY <1>4, RejectGoes, ZenonT(30) DEF PoolExhausted, PoolRejects, Goto
  <2>2. pc[r] \in Plain /\ UNCHANGED <<up, permitVars, inflight>> /\ q \in Plain
    BY <1>4 DEF PoolExhausted, Plain
  <2>3. QED
    BY <2>1, <2>2, PlainStep
<1>5. CASE Connected(r)
  BY <1>5, PlainStep DEF Connected, Goto, Plain
<1>6. CASE FailToConnect(r) \/ ProxyFails(r) \/ Responds(r)
  <2>1. \A a, reason : ErrorWhileProxy(r, a, reason) =>
            \E q \in {"peer", "logging"} : pc' = Set(pc, r, q)
    BY DEF ErrorWhileProxy, Retry, Goto
  <2>2. PICK q \in {"peer", "logging"} : pc' = Set(pc, r, q)
    BY <1>6, <2>1, RejectGoes, ZenonT(30) DEF FailToConnect, ProxyFails, Responds, Goto
  <2>3. pc[r] \in Plain /\ UNCHANGED <<up, permitVars, inflight>> /\ q \in Plain
    BY <1>6, ZenonT(30) DEF FailToConnect, ProxyFails, Responds, Plain
  <2>4. QED
    BY <2>2, <2>3, PlainStep
<1>7. QED
  BY <1>2, <1>3, <1>4, <1>5, <1>6

\* Nothing moves.
LEMMA StutterStep ==
    ASSUME Inv, UNCHANGED <<up, pc, permitVars, inflight>>
    PROVE  Inv'
BY DEF Inv, CountTypes, Holding, PermitsConserved, CountersAgree, Count, PoolMax, QueueCapacity, BreakerMax,
       PendingMax, permitVars, poolVars, breakerVars

\* The invariant is inductive.
LEMMA NextInv ==
    ASSUME Inv, [Next]_vars
    PROVE  Inv'
<1>1. CASE UNCHANGED vars
  BY <1>1, StutterStep DEF vars
<1>2. CASE Next
  <2>1. up' = up
    BY <1>2 DEF Next
  <2>2. PICK r \in Request : Arrive(r) \/ DeadlinePasses(r) \/ Serve(r)
    BY <1>2 DEF Next
  <2>3. CASE DeadlinePasses(r)
    BY <2>1, <2>3, StutterStep DEF DeadlinePasses
  <2>4. QED
    BY <2>1, <2>2, <2>3, ArriveStep, LoggingStep, PeerStartStep, PoolTakeStep, PoolWaitStep, BreakerTryStep,
       BreakerWaitStep, SelectStep, OtherStep DEF Serve
<1>3. QED
  BY <1>1, <1>2

\* It holds before the first request.
LEMMA InitInv == Init => Inv
<1>1. SUFFICES ASSUME Init PROVE Inv
  OBVIOUS
<1>2. \A S : "no" \notin S => Count(held, S) = 0 /\ Count(fresh, S) = 0 /\ Count(breaker, S) = 0
  <2>1. \A S : "no" \notin S => /\ {q \in Request : held[q] \in S} = {}
                                /\ {q \in Request : fresh[q] \in S} = {}
                                /\ {q \in Request : breaker[q] \in S} = {}
    BY <1>1 DEF Init
  <2>2. QED
    BY <2>1, FS_EmptySet DEF Count
<1>3. \A S : "idle" \notin S => Count(pc, S) = 0
  <2>1. \A S : "idle" \notin S => {q \in Request : pc[q] \in S} = {}
    BY <1>1 DEF Init
  <2>2. QED
    BY <2>1, FS_EmptySet DEF Count
<1>4. /\ Count(held, {"yes"}) = 0 /\ Count(fresh, {"yes"}) = 0 /\ Count(breaker, {"yes"}) = 0
      /\ Count(pc, {"pending"}) = 0 /\ Count(pc, {"queued", "overflow"}) = 0
      /\ Count(pc, {"queued"}) = 0 /\ Count(pc, Phase \ {"idle"}) = 0
  BY <1>2, <1>3
<1>5. /\ PoolMax \in Nat /\ QueueCapacity \in Nat /\ BreakerMax \in Nat /\ PendingMax \in Nat
  BY <1>1, RequestAssumption DEF RequestAssumption, Init, PoolMax, QueueCapacity, BreakerMax, PendingMax
<1>6. CountTypes /\ Holding
  BY <1>1, <1>5 DEF Init, CountTypes, Holding, Phase, Permit
<1>7. PermitsConserved /\ CountersAgree
  BY <1>1, <1>4, <1>5 DEF Init, PermitsConserved, CountersAgree
<1>8. QED
  BY <1>6, <1>7 DEF Inv

\* It implies the limits.
LEMMA InvLimits == Inv => LimitsHold
<1>1. SUFFICES ASSUME Inv PROVE LimitsHold
  OBVIOUS
<1>2. /\ PoolMax \in Nat /\ BreakerMax \in Nat /\ poolFree \in Nat /\ breakerFree \in Nat
  BY <1>1, RequestAssumption DEF RequestAssumption, Inv, CountTypes, PoolMax, BreakerMax
<1>3. /\ Count(held, {"yes"}) \in Nat /\ Count(fresh, {"yes"}) \in Nat /\ Count(breaker, {"yes"}) \in Nat
      /\ Count(pc, {"connect", "proxy"}) \in Nat
  BY CountNat, ZenonT(30)
<1>4. Count(pc, {"connect", "proxy"}) <= Count(held, {"yes"})
  <2>1. \A q \in Request : pc[q] \in {"connect", "proxy"} => held[q] \in {"yes"}
    BY <1>1 DEF Inv, Holding
  <2>2. QED
    BY <2>1, CountImplied
<1>5. BreakerMax > 0 => Count(pc, {"connect", "proxy"}) <= Count(breaker, {"yes"})
  <2>1. BreakerMax > 0 => \A q \in Request : pc[q] \in {"connect", "proxy"} => breaker[q] \in {"yes"}
    BY <1>1 DEF Inv, Holding
  <2>2. QED
    BY <2>1, CountImplied
<1>6. /\ poolFree + Count(held, {"yes"}) + Count(fresh, {"yes"}) = PoolMax
      /\ breakerFree + Count(breaker, {"yes"}) = BreakerMax
  BY <1>1 DEF Inv, PermitsConserved
<1>7. QED
  BY <1>2, <1>3, <1>4, <1>5, <1>6 DEF LimitsHold

\* PoolLimiter::acquire, PoolPermit::drop, acquire_breaker_permit: for any
\* number of requests and any limits, no permit is lost or handed out twice.
THEOREM NoPermitLost == Spec => []PermitsConserved
<1>1. Inv /\ [Next]_vars => Inv'
  BY NextInv
<1>2. Inv => PermitsConserved
  BY DEF Inv
<1>3. QED
  BY InitInv, <1>1, <1>2, PTL DEF Spec

\* pool.max and circuit_breaker.max_connections are never exceeded by the
\* requests that are connecting or being sent.
THEOREM LimitsEnforced == Spec => []LimitsHold
<1>1. Inv /\ [Next]_vars => Inv'
  BY NextInv
<1>2. QED
  BY InitInv, InvLimits, <1>1, PTL DEF Spec

\* The pool's gauges, its queue counter and the in-flight gauge agree with the
\* semaphores and with the phases of the requests.
THEOREM CountersRight == Spec => []CountersAgree
<1>1. Inv /\ [Next]_vars => Inv'
  BY NextInv
<1>2. Inv => CountersAgree
  BY DEF Inv
<1>3. QED
  BY InitInv, <1>1, <1>2, PTL DEF Spec

-----------------------------------------------------------------------------
(* The shared budget and the retry context.                                *)

RetryTypes ==
    /\ pc \in [Request -> Phase] /\ plan \in [Request -> Plan \cup {None}]
    /\ attempt \in [Request -> Nat] /\ guard \in [Request -> Nat]

\* A request has a retry context only after its body is buffered, under the
\* policy of its route.
Policy ==
    \A r \in Request :
        /\ pc[r] = "idle" => guard[r] = 0 /\ attempt[r] = 0
        /\ pc[r] = "buffering" => attempt[r] = 0 /\ plan[r] \in Plan /\ plan[r].retry = "on"
        /\ attempt[r] > 0 => plan[r] \in Plan /\ attempt[r] <= plan[r].max

RetryInv ==
    /\ RetryTypes /\ Policy
    /\ IsFiniteSet(Charged) /\ budget = Cardinality(Charged) /\ budget <= BodyBudget

\* A byte is charged to the request that buffered it.
LEMMA ChargedByte ==
    ASSUME NEW r, NEW n PROVE <<r, n>> \in Charged <=> r \in Request /\ n \in 1..guard[r]
BY DEF Charged

\* ReadChunk charges one more byte.
LEMMA ChargeOne ==
    ASSUME RetryTypes, IsFiniteSet(Charged), NEW r \in Request, guard' = Set(guard, r, guard[r] + 1)
    PROVE  IsFiniteSet(Charged') /\ Cardinality(Charged') = Cardinality(Charged) + 1
<1> DEFINE byte == <<r, guard[r] + 1>>
<1>1. guard[r] \in Nat /\ guard'[r] = guard[r] + 1 /\ \A q \in Request : q # r => guard'[q] = guard[q]
  BY DEF RetryTypes, Set
<1>2. byte \notin Charged
  BY <1>1, ChargedByte
<1>3. Charged' = Charged \cup {byte}
  <2>1. 1..guard'[r] = (1..guard[r]) \cup {guard[r] + 1}
    BY <1>1
  <2>2. \A q \in Request : {q} \X (1..guard'[q]) \subseteq ({q} \X (1..guard[q])) \cup {byte}
    BY <1>1, <2>1
  <2>3. \A q \in Request : {q} \X (1..guard[q]) \subseteq {q} \X (1..guard'[q])
    BY <1>1, <2>1
  <2>4. byte \in {r} \X (1..guard'[r])
    BY <1>1
  <2> QED BY <2>2, <2>3, <2>4 DEF Charged
<1> HIDE DEF byte
<1>4. IsFiniteSet(Charged \cup {byte}) /\ Cardinality(Charged \cup {byte}) = Cardinality(Charged) + 1
  BY <1>2, FS_AddElement
<1> QED BY <1>3, <1>4

\* The numbers up to n are n.
LEMMA CountTo ==
    ASSUME NEW n \in Nat
    PROVE  IsFiniteSet(1..n) /\ Cardinality(1..n) = n
<1>1. 1 \in Int /\ n \in Int
  OBVIOUS
<1>2. IsFiniteSet(1..n) /\ Cardinality(1..n) = IF 1 > n THEN 0 ELSE n - 1 + 1
  BY <1>1, FS_Interval
<1> QED BY <1>2

\* BudgetGuard::drop gives back what the request has charged.
LEMMA ChargeDropped ==
    ASSUME RetryTypes, IsFiniteSet(Charged), NEW r \in Request, guard' = Set(guard, r, 0)
    PROVE  IsFiniteSet(Charged') /\ Cardinality(Charged') = Cardinality(Charged) - guard[r]
<1> DEFINE mine == {r} \X (1..guard[r])
<1>1. guard[r] \in Nat /\ guard'[r] = 0 /\ \A q \in Request : q # r => guard'[q] = guard[q]
  BY DEF RetryTypes, Set
<1>2. Charged' = Charged \ mine
  <2>1. 1..guard'[r] = {}
    BY <1>1
  <2>2. {r} \X (1..guard'[r]) = {}
    BY <2>1
  <2>3. \A q \in Request : q # r => ({q} \X (1..guard[q])) \cap mine = {}
    OBVIOUS
  <2>4. \A q \in Request : q # r => {q} \X (1..guard'[q]) = {q} \X (1..guard[q])
    BY <1>1
  <2> HIDE DEF mine
  <2>5. Charged' \subseteq Charged \ mine
    BY <2>2, <2>3, <2>4 DEF Charged
  <2>6. Charged \ mine \subseteq Charged'
    <3> SUFFICES ASSUME NEW x \in Charged, x \notin mine PROVE x \in Charged'
      OBVIOUS
    <3>1. PICK q \in Request : x \in {q} \X (1..guard[q])
      BY DEF Charged
    <3>2. q # r
      BY <3>1 DEF mine
    <3> QED BY <2>4, <3>1, <3>2 DEF Charged
  <2> QED BY <2>5, <2>6
<1>3. Charged \cap mine = mine
  BY DEF Charged
<1>4. Cardinality(mine) = guard[r]
  <2>1. IsFiniteSet({r}) /\ Cardinality({r}) = 1
    BY FS_Singleton
  <2>2. IsFiniteSet(1..guard[r]) /\ Cardinality(1..guard[r]) = guard[r]
    BY <1>1, CountTo
  <2>3. Cardinality({r} \X (1..guard[r])) = Cardinality({r}) * Cardinality(1..guard[r])
    BY <2>1, <2>2, FS_Product, ZenonT(30)
  <2> QED BY <1>1, <2>1, <2>2, <2>3
<1> HIDE DEF mine
<1>5. IsFiniteSet(Charged \ mine) /\ Cardinality(Charged \ mine) = Cardinality(Charged) - Cardinality(Charged \cap mine)
  BY FS_Difference, ZenonT(30)
<1> QED BY <1>2, <1>3, <1>4, <1>5

\* The budget follows the guards.
LEMMA BudgetStep ==
    ASSUME RetryInv, [Next]_vars
    PROVE  /\ guard' \in [Request -> Nat]
           /\ IsFiniteSet(Charged)' /\ budget' = Cardinality(Charged') /\ budget' <= BodyBudget
<1>0. budget \in Nat /\ BodyBudget \in Nat /\ RetryTypes /\ IsFiniteSet(Charged) /\ budget = Cardinality(Charged)
      /\ budget <= BodyBudget
  BY FS_CardinalityType, RequestAssumption DEF RequestAssumption, RetryInv
<1>1. CASE UNCHANGED <<guard, budget>>
  BY <1>0, <1>1 DEF RetryTypes, Charged
<1>2. ASSUME NEW r \in Request, ReadChunk(r) PROVE guard' = Set(guard, r, guard[r] + 1) /\ budget' = budget + 1 /\ budget + 1 <= BodyBudget
  BY <1>2 DEF ReadChunk, HasBudget
<1>3. ASSUME NEW r \in Request, Unbuffered(r) \/ Logging(r) PROVE guard' = Set(guard, r, 0) /\ budget' = budget - guard[r]
  BY <1>3 DEF Unbuffered, Logging
<1>4. ASSUME NEW r \in Request, ReadChunk(r)
      PROVE  /\ guard' \in [Request -> Nat]
             /\ IsFiniteSet(Charged)' /\ budget' = Cardinality(Charged') /\ budget' <= BodyBudget
  <2>1. IsFiniteSet(Charged') /\ Cardinality(Charged') = Cardinality(Charged) + 1
    BY <1>0, <1>2, <1>4, ChargeOne
  <2> QED BY <1>0, <1>2, <1>4, <2>1 DEF RetryTypes, Set
<1>5. ASSUME NEW r \in Request, Unbuffered(r) \/ Logging(r)
      PROVE  /\ guard' \in [Request -> Nat]
             /\ IsFiniteSet(Charged)' /\ budget' = Cardinality(Charged') /\ budget' <= BodyBudget
  <2>1. IsFiniteSet(Charged') /\ Cardinality(Charged') = Cardinality(Charged) - guard[r]
    BY <1>0, <1>3, <1>5, ChargeDropped
  <2> QED BY <1>0, <1>3, <1>5, <2>1 DEF RetryTypes, Set
<1>6. CASE UNCHANGED vars
  BY <1>1, <1>6 DEF vars, bodyVars
<1>7. ASSUME NEW r \in Request, Arrive(r) \/ DeadlinePasses(r) \/ Serve(r), ~ReadChunk(r), ~Unbuffered(r), ~Logging(r)
      PROVE  UNCHANGED <<guard, budget>>
  BY <1>7, ZenonT(30) DEF Serve, Arrive, DeadlinePasses, Buffered, PeerStart, BackoffEnds, PoolTry,
      PoolExhausted, PoolEnqueue,
     PoolOverflow, PoolGranted, PoolTimesOut, BreakerTry, BreakerWaits, BreakerRejects, BreakerGranted, Selected,
     NotSelected, Connected, FailToConnect, ProxyFails, Responds, bodyVars
<1> QED BY <1>1, <1>4, <1>5, <1>6, <1>7 DEF Next

\* What a step may do to the retry context of a request: it goes to phase q,
\* outside request_filter, with the attempt a.
Retried(r, q, a) ==
    /\ q \in Phase \ {"idle", "buffering"} /\ pc' = Set(pc, r, q)
    /\ UNCHANGED plan /\ attempt' = Set(attempt, r, a) /\ a \in Nat
    /\ a > 0 => plan[r] \in Plan /\ a <= plan[r].max
    /\ \A s \in Request : s # r => guard'[s] = guard[s]

\* A request that goes on after a retry, or without one, keeps to its policy.
LEMMA PolicyMoved ==
    ASSUME RetryTypes, Policy, NEW r \in Request, NEW q, NEW a, Retried(r, q, a)
    PROVE  /\ pc' \in [Request -> Phase] /\ plan' \in [Request -> Plan \cup {None}] /\ attempt' \in [Request -> Nat]
           /\ Policy'
<1>1. /\ pc' \in [Request -> Phase] /\ plan' \in [Request -> Plan \cup {None}] /\ attempt' \in [Request -> Nat]
      /\ pc'[r] \notin {"idle", "buffering"} /\ attempt'[r] = a
      /\ \A s \in Request : s # r => pc'[s] = pc[s] /\ attempt'[s] = attempt[s] /\ guard'[s] = guard[s]
  BY DEF RetryTypes, Retried, Set
<1>2. ASSUME NEW s \in Request
      PROVE  /\ pc'[s] = "idle" => guard'[s] = 0 /\ attempt'[s] = 0
             /\ pc'[s] = "buffering" => attempt'[s] = 0 /\ plan'[s] \in Plan /\ plan'[s].retry = "on"
             /\ attempt'[s] > 0 => plan'[s] \in Plan /\ attempt'[s] <= plan'[s].max
  BY <1>1, <1>2 DEF Policy, Retried
<1> QED BY <1>1, <1>2 DEF Policy

\* next_attempt is called for an attempt below the policy's limit.
LEMMA RetryIfMoved ==
    ASSUME RetryTypes, Policy, NEW r \in Request, NEW c \in BOOLEAN, c => attempt[r] > 0 /\ CanRetry(attempt[r], r),
           RetryIf(r, c), UNCHANGED <<plan, guard>>
    PROVE  \E q, a : Retried(r, q, a)
<1> DEFINE a == attempt[r] + IF c THEN 1 ELSE 0
<1>1. PICK q \in {"peer", "logging"} : pc' = Set(pc, r, q)
  BY RejectGoes
<1>2. attempt[r] \in Nat /\ (attempt[r] > 0 => plan[r] \in Plan /\ plan[r].max \in Nat /\ attempt[r] <= plan[r].max)
  BY RequestAssumption DEF RequestAssumption, RetryTypes, Policy
<1>3. a \in Nat /\ (a > 0 => plan[r] \in Plan /\ a <= plan[r].max)
  BY <1>2 DEF CanRetry
<1>4. Retried(r, q, a)
  BY <1>1, <1>3 DEF Retried, RetryIf, Phase
<1> QED BY <1>4

\* error_while_proxy after a failure at an attempt of the policy.
LEMMA ProxyErrorMoved ==
    ASSUME RetryTypes, Policy, NEW r \in Request, NEW a \in Nat, a > 0 => plan[r] \in Plan /\ a <= plan[r].max,
           a = 0 => attempt[r] = 0, NEW reason, ErrorWhileProxy(r, a, reason), UNCHANGED <<plan, guard>>
    PROVE  \E q, b : Retried(r, q, b)
<1>1. PICK q \in {"peer", "logging"} : pc' = Set(pc, r, q)
  BY DEF ErrorWhileProxy, Retry, Goto
<1>2. attempt' = Set(attempt, r, a) \/ (attempt' = Set(attempt, r, a + 1) /\ attempt[r] > 0 /\ CanRetry(a, r))
  BY DEF ErrorWhileProxy
<1>3. a > 0 => plan[r] \in Plan /\ plan[r].max \in Nat
  BY RequestAssumption DEF RequestAssumption
<1>4. attempt[r] > 0 => a > 0
  OBVIOUS
<1>5. CASE attempt' = Set(attempt, r, a)
  <2>1. Retried(r, q, a)
    BY <1>1, <1>5 DEF Retried, Phase
  <2> QED BY <2>1
<1>6. CASE attempt' = Set(attempt, r, a + 1) /\ attempt[r] > 0 /\ CanRetry(a, r)
  <2>1. Retried(r, q, a + 1)
    BY <1>1, <1>3, <1>4, <1>6 DEF Retried, Phase, CanRetry
  <2> QED BY <2>1
<1> QED BY <1>2, <1>5, <1>6

\* Every step of a request on its way keeps to the policy.
LEMMA ServeMoved ==
    ASSUME RetryTypes, Policy, NEW r \in Request, Serve(r), ~ReadChunk(r), ~Logging(r)
    PROVE  \E q, a : Retried(r, q, a)
<1>0. attempt[r] \in Nat /\ attempt = Set(attempt, r, attempt[r])
  BY DEF RetryTypes, Set
<1>p. attempt[r] > 0 => plan[r] \in Plan /\ plan[r].max \in Nat /\ attempt[r] <= plan[r].max
  BY RequestAssumption DEF RequestAssumption, Policy
<1>1. CASE /\ \E q \in Phase \ {"idle", "buffering"} : pc' = Set(pc, r, q)
           /\ UNCHANGED <<plan, attempt, guard>>
  <2>1. PICK q \in Phase \ {"idle", "buffering"} : pc' = Set(pc, r, q)
    BY <1>1
  <2>2. Retried(r, q, attempt[r])
    BY <1>0, <1>1, <1>p, <2>1 DEF Retried
  <2> QED BY <2>2
<1>2. CASE Buffered(r)
  <2>1. plan[r] \in Plan /\ 1 <= plan[r].max
    BY <1>2, RequestAssumption DEF RequestAssumption, Buffered, Policy
  <2>2. Retried(r, "peer", 1)
    BY <1>2, <2>1 DEF Retried, Buffered, Goto, Phase
  <2> QED BY <2>2
<1>3. CASE Unbuffered(r)
  <2>1. PICK q \in {"peer", "logging"} : pc' = Set(pc, r, q)
    BY <1>3 DEF Unbuffered, Goto
  <2>2. \A s \in Request : s # r => guard'[s] = guard[s]
    BY <1>3 DEF Unbuffered, Set, RetryTypes
  <2>3. Retried(r, q, attempt[r])
    BY <1>0, <1>3, <1>p, <2>1, <2>2, ZenonT(30) DEF Retried, Unbuffered, retryVars, Phase
  <2> QED BY <2>3
<1>4. CASE PoolOverflow(r) \/ PoolTimesOut(r) \/ (PoolExhausted(r) /\ PoolRejects(r))
  <2> DEFINE c == attempt[r] > 0 /\ IsRetryable(r, "pool_full") /\ CanRetry(attempt[r], r)
  <2>1. RetryIf(r, c) /\ UNCHANGED <<plan, guard>>
    BY <1>4, ZenonT(30) DEF PoolOverflow, PoolTimesOut, PoolExhausted, PoolRejects, bodyVars
  <2>2. c \in BOOLEAN /\ (c => attempt[r] > 0 /\ CanRetry(attempt[r], r))
    BY DEF IsRetryable, CanRetry
  <2> HIDE DEF c
  <2> QED BY <2>1, <2>2, RetryIfMoved
<1>5. CASE FailToConnect(r)
  <2>1. PICK reason \in {"connect_timeout", "connect_error"} :
          RetryIf(r, /\ attempt[r] > 0 /\ IsMethodAllowed(r) /\ IsRetryable(r, reason)
                     /\ CanRetry(attempt[r], r) /\ CanReplay(r))
    BY <1>5, ZenonT(30) DEF FailToConnect
  <2> DEFINE c == /\ attempt[r] > 0 /\ IsMethodAllowed(r) /\ IsRetryable(r, reason)
                  /\ CanRetry(attempt[r], r) /\ CanReplay(r)
  <2>2. RetryIf(r, c) /\ UNCHANGED <<plan, guard>>
    BY <1>5, <2>1, ZenonT(30) DEF FailToConnect, bodyVars
  <2>3. c \in BOOLEAN /\ (c => attempt[r] > 0 /\ CanRetry(attempt[r], r))
    BY DEF IsRetryable, IsMethodAllowed, CanReplay, CanRetry
  <2> HIDE DEF c
  <2> QED BY <2>2, <2>3, RetryIfMoved
<1>6. CASE ProxyFails(r)
  <2>1. UNCHANGED <<plan, guard>>
    BY <1>6 DEF ProxyFails, bodyVars
  <2> QED BY <1>0, <1>6, <1>p, <2>1, ProxyErrorMoved, ZenonT(30) DEF ProxyFails
<1>7. CASE Responds(r)
  <2>1. UNCHANGED <<plan, guard>>
    BY <1>7 DEF Responds, bodyVars
  <2>2. CASE pc' = Set(pc, r, "logging") /\ UNCHANGED attempt
    BY <1>1, <2>1, <2>2 DEF Phase
  <2>3. CASE ErrorWhileProxy(r, attempt[r], "status_code")
    BY <1>0, <1>p, <2>1, <2>3, ProxyErrorMoved
  <2>4. CASE ErrorWhileProxy(r, attempt[r] + 1, "status_code") /\ attempt[r] > 0 /\ CanRetry(attempt[r], r)
    <3>1. attempt[r] + 1 \in Nat /\ attempt[r] + 1 <= plan[r].max /\ plan[r] \in Plan /\ attempt[r] + 1 # 0
      BY <1>0, <1>p, <2>4 DEF CanRetry
    <3> DEFINE a == attempt[r] + 1
    <3> HIDE DEF a
    <3>2. ErrorWhileProxy(r, a, "status_code") /\ a \in Nat /\ a <= plan[r].max /\ a # 0
      BY <2>4, <3>1 DEF a
    <3> QED BY <2>1, <3>1, <3>2, ProxyErrorMoved
  <2> QED BY <1>7, <2>2, <2>3, <2>4, ZenonT(30) DEF Responds, Goto
<1>8. CASE \/ PeerStart(r) \/ BackoffEnds(r) \/ PoolTry(r) \/ PoolEnqueue(r) \/ PoolGranted(r)
           \/ BreakerTry(r) \/ BreakerWaits(r) \/ BreakerRejects(r) \/ BreakerGranted(r)
           \/ Selected(r) \/ NotSelected(r) \/ Connected(r) \/ (PoolExhausted(r) /\ ~PoolRejects(r))
  <2>1. UNCHANGED <<plan, attempt, guard>>
    BY <1>8, ZenonT(30) DEF PeerStart, BackoffEnds, PoolTry, PoolEnqueue, PoolGranted, BreakerTry,
        BreakerWaits, BreakerRejects,
       BreakerGranted, Selected, NotSelected, Connected, PoolExhausted, retryVars, bodyVars
  <2>2. \E q \in Phase \ {"idle", "buffering"} : pc' = Set(pc, r, q)
    BY <1>8, ZenonT(30) DEF PeerStart, BackoffEnds, PoolTry, PoolEnqueue, PoolGranted, BreakerTry,
        BreakerWaits, BreakerRejects,
       BreakerGranted, Selected, NotSelected, Connected, PoolExhausted, Goto, Phase
  <2> QED BY <1>1, <2>1, <2>2
<1> QED BY <1>2, <1>3, <1>4, <1>5, <1>6, <1>7, <1>8 DEF Serve

\* The inductive step.
LEMMA NextRetryInv == RetryInv /\ [Next]_vars => RetryInv'
<1> SUFFICES ASSUME RetryInv, [Next]_vars PROVE RetryInv'
  OBVIOUS
<1> DEFINE Good == /\ pc' \in [Request -> Phase] /\ plan' \in [Request -> Plan \cup {None}]
                   /\ attempt' \in [Request -> Nat] /\ Policy'
<1>0. RetryTypes /\ Policy
  BY DEF RetryInv
<1>1. UNCHANGED <<pc, plan, attempt, guard>> => Good
  BY <1>0 DEF RetryTypes, Policy
<1>2. ASSUME NEW r \in Request, DeadlinePasses(r) PROVE Good
  BY <1>1, <1>2, ZenonT(30) DEF DeadlinePasses, bodyVars
<1>3. ASSUME NEW r \in Request, Arrive(r) PROVE Good
  <2>1. UNCHANGED <<attempt, guard>> /\ pc[r] = "idle" /\ attempt[r] = 0
    BY <1>0, <1>3 DEF Arrive, Policy, retryVars, bodyVars
  <2>2. /\ pc' \in [Request -> Phase] /\ plan' \in [Request -> Plan \cup {None}] /\ attempt' \in [Request -> Nat]
        /\ pc'[r] # "idle" /\ (pc'[r] = "buffering" => plan'[r] \in Plan /\ plan'[r].retry = "on")
        /\ \A s \in Request : s # r => pc'[s] = pc[s] /\ plan'[s] = plan[s]
    BY <1>0, <1>3, <2>1 DEF Arrive, Goto, Set, RetryTypes, Phase
  <2> QED BY <1>0, <2>1, <2>2 DEF Policy
<1>4. ASSUME NEW r \in Request, ReadChunk(r) PROVE Good
  <2>1. UNCHANGED <<pc, plan, attempt>> /\ pc[r] = "buffering" /\ \A s \in Request : s # r => guard'[s] = guard[s]
    BY <1>0, <1>4 DEF ReadChunk, retryVars, Set, RetryTypes
  <2> QED BY <1>0, <2>1 DEF Policy, RetryTypes
<1>5. ASSUME NEW r \in Request, Logging(r) PROVE Good
  <2>1. /\ pc' \in [Request -> Phase] /\ plan' \in [Request -> Plan \cup {None}] /\ attempt' \in [Request -> Nat]
        /\ pc'[r] = "idle" /\ attempt'[r] = 0 /\ guard'[r] = 0
        /\ \A s \in Request : s # r => /\ pc'[s] = pc[s] /\ plan'[s] = plan[s]
                                       /\ attempt'[s] = attempt[s] /\ guard'[s] = guard[s]
    BY <1>0, <1>5 DEF Logging, Goto, Set, RetryTypes, Phase
  <2>2. Policy'
    <3> SUFFICES ASSUME NEW s \in Request
                 PROVE  /\ pc'[s] = "idle" => guard'[s] = 0 /\ attempt'[s] = 0
                        /\ pc'[s] = "buffering" => attempt'[s] = 0 /\ plan'[s] \in Plan /\ plan'[s].retry = "on"
                        /\ attempt'[s] > 0 => plan'[s] \in Plan /\ attempt'[s] <= plan'[s].max
      BY DEF Policy
    <3>1. CASE s = r
      BY <2>1, <3>1
    <3>2. CASE s # r
      BY <1>0, <2>1, <3>2 DEF Policy
    <3> QED BY <3>1, <3>2
  <2> QED BY <2>1, <2>2
<1>6. ASSUME NEW r \in Request, Serve(r), ~ReadChunk(r), ~Logging(r) PROVE Good
  <2>1. PICK q, a : Retried(r, q, a)
    BY <1>0, <1>6, ServeMoved
  <2> QED BY <1>0, <2>1, PolicyMoved
<1>7. UNCHANGED vars => Good
  BY <1>1 DEF vars, retryVars, bodyVars
<1> HIDE DEF Good
<1>8. Good
  BY <1>2, <1>3, <1>4, <1>5, <1>6, <1>7 DEF Next
<1> USE DEF Good
<1> QED BY <1>8, BudgetStep DEF RetryInv, RetryTypes

\* The inductive invariant holds at the start.
LEMMA InitRetryInv == Init => RetryInv
<1> SUFFICES ASSUME Init PROVE RetryInv
  OBVIOUS
<1>1. Charged = {}
  BY DEF Init, Charged
<1>2. IsFiniteSet(Charged) /\ Cardinality(Charged) = 0
  BY <1>1, FS_EmptySet
<1> QED BY <1>2, RequestAssumption DEF RequestAssumption, Init, RetryInv, RetryTypes, Policy, Phase

\* BudgetGuard and RetryContext, for any number of requests, sizes, policies and
\* any budget: the bytes charged to the shared budget are those the requests on
\* their way have buffered, they never exceed it, and no request counts more
\* attempts than its policy allows, whichever callback counted them.
THEOREM RetriesBounded == Spec => []RetriesAccounted
<1>1. RetryInv => RetriesAccounted
  BY DEF RetryInv, Policy, RetriesAccounted
<1> QED BY <1>1, InitRetryInv, NextRetryInv, PTL DEF Spec

=============================================================================
