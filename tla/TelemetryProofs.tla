-------------------------- MODULE TelemetryProofs --------------------------
(***************************************************************************)
(* What the pieces of telemetry keep, whatever calls them: the tracker of  *)
(* pool keys (BoundedKeySet), for every cap, every ttl and every set of    *)
(* keys, and the access log, for every capacity and every set of entries.  *)
(***************************************************************************)
EXTENDS AccessLog, Metrics, FiniteSetTheorems, SequenceTheorems, TLAPS

\* The provers get more time than by default: the contexts are large.
USE SMTT(15), ZenonT(30)

-----------------------------------------------------------------------------
(* The tracker of pool keys.                                               *)

\* What a tracker keeps of the insertions last, made until now: entries hold the
\* last insertion of their keys, insertions are in the order of time, and every
\* entry's insertion is still queued.
KeysKept(s, last, now) ==
    /\ DOMAIN s.entries \subseteq DOMAIN last /\ IsFiniteSet(DOMAIN last) /\ now \in Nat
    /\ \A k \in DOMAIN last : last[k] \in Nat /\ last[k] <= now
    /\ \A k \in DOMAIN s.entries : s.entries[k] = last[k]
    /\ s.order \in Seq([key : PoolKey, at : Nat])
    /\ \A i \in 1..Len(s.order) : s.order[i].at <= now
    /\ \A i, j \in 1..Len(s.order) : i <= j => s.order[i].at <= s.order[j].at
    /\ \A k \in DOMAIN s.entries : \E i \in 1..Len(s.order) : s.order[i].key = k /\ s.order[i].at = last[k]

\* The entries inserted since a time.
Since(s, last, t) == {j \in DOMAIN s.entries : last[j] >= t}

\* A key the tracker forgot has expired, or the cap of newer ones are there.
KeysForgotten(s, last, now) ==
    \A k \in DOMAIN last \ DOMAIN s.entries :
        \/ now - last[k] > Ttl
        \/ Cardinality(Since(s, last, last[k])) >= POOL_KEY_CARDINALITY_CAP

\* The keys inserted within the ttl.
Recent(last, now) == {k \in DOMAIN last : now - last[k] <= Ttl}

\* What record_pool_key_cardinality should report of n keys.
Saturating(n) == IF n < POOL_KEY_CARDINALITY_CAP THEN n ELSE POOL_KEY_CARDINALITY_CAP + 1


\* A set of numbers from 0 to b that is not empty has a least element, and Min
\* is it.
LEMMA MinIsLeast ==
    ASSUME NEW b \in Nat, NEW S \in SUBSET (0..b), S # {}
    PROVE  Min(S) \in S /\ \A y \in S : Min(S) <= y
<1>1. S \subseteq Nat
    OBVIOUS
<1>2. PICK x \in S : \A y \in S : ~ (<<y, x>> \in OpToRel(<, Nat))
    BY <1>1, WFMin, NatLessThanWellFounded, ZenonT(30)
<1>3. \A y \in S : x <= y
    <2> SUFFICES ASSUME NEW y \in S, y < x PROVE FALSE
        BY <1>1
    <2>1. <<y, x>> \in Nat \X Nat /\ <<y, x>>[1] < <<y, x>>[2]
        BY <1>1
    <2> QED BY <1>2, <2>1 DEF OpToRel
<1> QED BY <1>3, ZenonT(30) DEF Min

\* Likewise a greatest one, and Max is it.
LEMMA MaxIsGreatest ==
    ASSUME NEW b \in Nat, NEW S \in SUBSET (0..b), S # {}
    PROVE  Max(S) \in S /\ \A y \in S : y <= Max(S)
<1> DEFINE T == {m \in 0..b : b - m \in S}
<1>1. T \in SUBSET (0..b) /\ T # {}
    <2>1. PICK x \in S : TRUE
        BY ZenonT(30)
    <2>2. b - x \in 0..b /\ b - (b - x) = x
        OBVIOUS
    <2> QED BY <2>2, ZenonT(30)
<1>2. PICK m \in T : \A y \in T : m <= y
    BY <1>1, MinIsLeast, ZenonT(30)
<1>3. \A y \in S : y <= b - m
    <2> SUFFICES ASSUME NEW y \in S PROVE y <= b - m
        OBVIOUS
    <2>1. b - y \in 0..b /\ b - (b - y) = y
        OBVIOUS
    <2>2. m <= b - y
        BY <1>2, <2>1
    <2> QED BY <2>2
<1>4. b - m \in S
    OBVIOUS
<1>5. \E x \in S : \A y \in S : x >= y
    BY <1>3, <1>4
<1> QED BY <1>5, ZenonT(30) DEF Max

\* What is left of a sequence without its first n elements.
LEMMA DropFirst ==
    ASSUME NEW S, NEW q \in Seq(S), NEW n \in 0..Len(q)
    PROVE  /\ SubSeq(q, n + 1, Len(q)) \in Seq(S)
           /\ Len(SubSeq(q, n + 1, Len(q))) = Len(q) - n
           /\ \A i \in 1..Len(q) - n : SubSeq(q, n + 1, Len(q))[i] = q[n + i]
<1>1. Len(q) \in Nat /\ n + 1 \in Int /\ Len(q) \in Int /\ Len(q) - (n + 1) + 1 = Len(q) - n
    OBVIOUS
<1>2. \A i \in n + 1..Len(q) : q[i] \in S
    <2> SUFFICES ASSUME NEW i \in n + 1..Len(q) PROVE q[i] \in S
        OBVIOUS
    <2>1. i \in 1..Len(q)
        BY <1>1
    <2> QED BY <2>1
<1>3. /\ SubSeq(q, n + 1, Len(q)) \in Seq(S)
      /\ Len(SubSeq(q, n + 1, Len(q))) = IF n + 1 <= Len(q) THEN Len(q) - (n + 1) + 1 ELSE 0
      /\ \A i \in 1..Len(q) - (n + 1) + 1 : SubSeq(q, n + 1, Len(q))[i] = q[n + 1 + i - 1]
    BY <1>1, <1>2, SubSeqProperties
<1>4. n + 1 <= Len(q) \/ Len(q) - n = 0
    <2>1. ASSUME NEW m \in Nat, NEW j \in 0..m PROVE j + 1 <= m \/ m - j = 0
        OBVIOUS
    <2> QED BY <1>1, <2>1, ZenonT(30)
<1>5. \A i \in 1..Len(q) - n : n + 1 + i - 1 = n + i
    BY <1>1
<1> QED BY <1>1, <1>3, <1>4, <1>5, ZenonT(30)

\* Popping insertions removes entries older than those it leaves, and leaves
\* those that are not removed with their insertions.
LEMMA PopKept ==
    ASSUME NEW s, NEW last, NEW now, KeysKept(s, last, now), NEW n \in 0..Len(s.order)
    PROVE  /\ KeysKept(Pop(s, n), last, now)
           /\ DOMAIN Pop(s, n).entries = DOMAIN s.entries \ Removed(s, n)
           /\ \A x \in Removed(s, n), y \in DOMAIN Pop(s, n).entries : last[x] <= last[y]
<1> DEFINE t == Pop(s, n)
<1>1. s.order \in Seq([key : PoolKey, at : Nat]) /\ Len(s.order) \in Nat
    BY DEF KeysKept
<1>2. /\ SubSeq(s.order, n + 1, Len(s.order)) \in Seq([key : PoolKey, at : Nat])
      /\ Len(SubSeq(s.order, n + 1, Len(s.order))) = Len(s.order) - n
      /\ \A i \in 1..Len(s.order) - n : SubSeq(s.order, n + 1, Len(s.order))[i] = s.order[n + i]
    BY <1>1, DropFirst, ZenonT(30)
<1>3. t.order = SubSeq(s.order, n + 1, Len(s.order)) /\ DOMAIN t.entries = DOMAIN s.entries \ Removed(s, n)
    BY DEF Pop
<1>4. \A k \in DOMAIN t.entries : t.entries[k] = last[k]
    BY DEF Pop, KeysKept
<1>5. /\ t.order \in Seq([key : PoolKey, at : Nat]) /\ Len(t.order) = Len(s.order) - n
      /\ \A i \in 1..Len(t.order) : t.order[i] = s.order[n + i]
      /\ \A i \in 1..Len(t.order) : n + i \in 1..Len(s.order)
    <2>1. \A i \in 1..Len(s.order) - n : n + i \in 1..Len(s.order)
        BY <1>1
    <2> HIDE DEF t
    <2> QED BY <1>2, <1>3, <2>1, ZenonT(30)
<1>6. \A k \in DOMAIN t.entries : \E i \in 1..Len(t.order) : t.order[i].key = k /\ t.order[i].at = last[k]
    <2> SUFFICES ASSUME NEW k \in DOMAIN t.entries
                 PROVE  \E i \in 1..Len(t.order) : t.order[i].key = k /\ t.order[i].at = last[k]
        OBVIOUS
    <2>1. k \in DOMAIN s.entries /\ s.entries[k] = last[k]
        BY <1>3 DEF KeysKept
    <2>2. PICK i \in 1..Len(s.order) : s.order[i].key = k /\ s.order[i].at = last[k]
        BY <2>1 DEF KeysKept
    <2>3. i \notin 1..n
        BY <1>3, <2>1, <2>2 DEF Removed
    <2>4. i - n \in 1..Len(t.order) /\ n + (i - n) = i
        BY <1>1, <1>5, <2>3
    <2>5. t.order[i - n] = s.order[i]
        BY <1>5, <2>4
    <2> QED BY <2>2, <2>4, <2>5
<1>7. \A x \in Removed(s, n), y \in DOMAIN t.entries : last[x] <= last[y]
    <2> SUFFICES ASSUME NEW x \in Removed(s, n), NEW y \in DOMAIN t.entries PROVE last[x] <= last[y]
        OBVIOUS
    <2>1. PICK i \in 1..n : s.order[i].key = x /\ s.order[i].at = last[x]
        BY DEF Removed, KeysKept
    <2>2. PICK j \in 1..Len(t.order) : t.order[j].key = y /\ t.order[j].at = last[y]
        BY <1>6
    <2>3. i \in 1..Len(s.order) /\ i <= n + j
        <3>1. Len(s.order) \in Nat /\ Len(t.order) \in Nat
            BY <1>1, <1>5, LenProperties, ZenonT(30)
        <3> HIDE DEF t
        <3> QED BY <3>1
    <2>4. n + j \in 1..Len(s.order) /\ s.order[n + j].at = last[y]
        BY <1>5, <2>2, ZenonT(30)
    <2>5. s.order[i].at <= s.order[n + j].at
        BY <2>3, <2>4 DEF KeysKept
    <2> QED BY <2>1, <2>4, <2>5
<1>8. /\ \A i \in 1..Len(t.order) : t.order[i].at <= now
      /\ \A i, j \in 1..Len(t.order) : i <= j => t.order[i].at <= t.order[j].at
    <2>1. \A i, j \in 1..Len(t.order) : i <= j => n + i <= n + j
        BY <1>1, <1>5
    <2> QED BY <1>5, <2>1 DEF KeysKept
<1>9. KeysKept(t, last, now)
    BY <1>3, <1>4, <1>5, <1>6, <1>8, ZenonT(30) DEF KeysKept
<1> QED BY <1>3, <1>7, <1>9

\* evict_expired removes exactly the entries whose time is up.
LEMMA ExpiredLeave ==
    ASSUME NEW s, NEW last, NEW now, KeysKept(s, last, now)
    PROVE  /\ KeysKept(evict_expired(s, now), last, now)
           /\ DOMAIN evict_expired(s, now).entries = {k \in DOMAIN s.entries : now - last[k] <= Ttl}
<1> DEFINE N == {n \in 0..Len(s.order) : \A i \in 1..n : now - s.order[i].at > Ttl}
           m == Max(N)
<1>1. /\ Len(s.order) \in Nat /\ now \in Nat /\ Ttl \in Nat
      /\ \A i \in 1..Len(s.order) : s.order[i].at \in Nat
      /\ \A k \in DOMAIN s.entries : last[k] \in Nat /\ s.entries[k] = last[k]
    <2>1. s.order \in Seq([key : PoolKey, at : Nat])
        BY DEF KeysKept
    <2>2. Len(s.order) \in Nat /\ \A i \in 1..Len(s.order) : s.order[i].at \in Nat
        <3>1. ASSUME NEW i \in 1..Len(s.order) PROVE s.order[i] \in [key : PoolKey, at : Nat]
            BY <2>1, ElementOfSeq, ZenonT(30)
        <3> QED BY <2>1, <3>1
    <2>3. now \in Nat /\ Ttl \in Nat
        BY MetricsAssumption DEF KeysKept, MetricsAssumption
    <2>4. \A k \in DOMAIN s.entries : last[k] \in Nat /\ s.entries[k] = last[k]
        BY DEF KeysKept
    <2> QED BY <2>2, <2>3, <2>4
<1>2. N \in SUBSET (0..Len(s.order)) /\ 0 \in N
    BY <1>1
<1>3. m \in N /\ \A n \in N : n <= m
    BY <1>1, <1>2, MaxIsGreatest, ZenonT(30)
<1>4. evict_expired(s, now) = Pop(s, m)
    BY DEF evict_expired
<1> HIDE DEF m
<1>5. ASSUME NEW k \in DOMAIN s.entries PROVE k \in Removed(s, m) <=> now - last[k] > Ttl
    <2>1. ASSUME k \in Removed(s, m) PROVE now - last[k] > Ttl
        <3>1. PICK i \in 1..m : s.order[i].key = k /\ s.order[i].at = last[k]
            BY <1>1, <2>1 DEF Removed
        <3> QED BY <1>3, <3>1
    <2>2. ASSUME now - last[k] > Ttl PROVE k \in Removed(s, m)
        <3>1. PICK i \in 1..Len(s.order) : s.order[i].key = k /\ s.order[i].at = last[k]
            BY DEF KeysKept
        <3>2. \A j \in 1..i : s.order[j].at <= last[k] /\ s.order[j].at \in Nat
            <4>1. \A j \in 1..i : j \in 1..Len(s.order) /\ j <= i
                BY <1>1
            <4> QED BY <1>1, <3>1, <4>1 DEF KeysKept
        <3>3. \A j \in 1..i : now - s.order[j].at > Ttl
            <4>1. now \in Nat /\ Ttl \in Nat /\ last[k] \in Nat
                BY <1>1, ZenonT(30)
            <4>2. ASSUME NEW x \in Nat, x <= last[k] PROVE now - x > Ttl
                BY <2>2, <4>1, <4>2
            <4> QED BY <3>2, <4>2, ZenonT(30)
        <3>4. i \in N
            <4>1. i \in 0..Len(s.order)
                BY <1>1
            <4> QED BY <3>3, <4>1
        <3>5. i \in 1..m
            BY <1>1, <1>3, <3>4
        <3> QED BY <1>1, <3>1, <3>5 DEF Removed
    <2> QED BY <2>1, <2>2
<1>6. /\ KeysKept(Pop(s, m), last, now)
      /\ DOMAIN Pop(s, m).entries = DOMAIN s.entries \ Removed(s, m)
    BY <1>3, PopKept
<1>7. ASSUME NEW k \in DOMAIN s.entries PROVE k \notin Removed(s, m) <=> now - last[k] <= Ttl
    <2>1. last[k] \in Nat
        BY <1>1
    <2> QED BY <1>1, <1>5, <2>1
<1> QED BY <1>4, <1>6, <1>7

\* evict_over_cap leaves what there is up to the cap, else as many entries as the
\* cap, and the newest.
LEMMA OverCapLeave ==
    ASSUME NEW s, NEW last, NEW now, KeysKept(s, last, now)
    PROVE  /\ KeysKept(evict_over_cap(s), last, now)
           /\ DOMAIN evict_over_cap(s).entries \subseteq DOMAIN s.entries
           /\ \/ /\ DOMAIN evict_over_cap(s).entries = DOMAIN s.entries
                 /\ Cardinality(DOMAIN s.entries) <= POOL_KEY_CARDINALITY_CAP
              \/ Cardinality(DOMAIN evict_over_cap(s).entries) = POOL_KEY_CARDINALITY_CAP
           /\ \A x \in DOMAIN s.entries \ DOMAIN evict_over_cap(s).entries, y \in DOMAIN evict_over_cap(s).entries :
                 last[x] <= last[y]
<1> DEFINE Stay(n) == DOMAIN s.entries \ Removed(s, n)
           N == {n \in 0..Len(s.order) : Cardinality(Stay(n)) <= POOL_KEY_CARDINALITY_CAP}
           m == Min(N)
<1>1. Len(s.order) \in Nat /\ POOL_KEY_CARDINALITY_CAP \in Nat /\ IsFiniteSet(DOMAIN s.entries)
    BY MetricsAssumption, FS_Subset DEF KeysKept, MetricsAssumption
<1>2. \A n : IsFiniteSet(Stay(n)) /\ Cardinality(Stay(n)) \in Nat
    BY <1>1, FS_Difference, FS_CardinalityType, ZenonT(30)
<1>3. Stay(Len(s.order)) = {}
    <2> SUFFICES ASSUME NEW k \in DOMAIN s.entries PROVE k \in Removed(s, Len(s.order))
        OBVIOUS
    <2> QED BY DEF KeysKept, Removed
<1>4. N \in SUBSET (0..Len(s.order)) /\ Len(s.order) \in N
    <2>1. Cardinality(Stay(Len(s.order))) = 0
        BY <1>3, FS_EmptySet
    <2>2. 0 <= POOL_KEY_CARDINALITY_CAP /\ Len(s.order) \in 0..Len(s.order)
        BY <1>1
    <2>3. Cardinality(Stay(Len(s.order))) <= POOL_KEY_CARDINALITY_CAP
        BY <2>1, <2>2
    <2> HIDE DEF Stay
    <2> QED BY <2>2, <2>3
<1>5. m \in N /\ \A n \in N : m <= n
    BY <1>1, <1>4, MinIsLeast, ZenonT(30)
<1>6. evict_over_cap(s) = Pop(s, m)
    BY DEF evict_over_cap
<1> HIDE DEF m
<1>7. /\ KeysKept(Pop(s, m), last, now)
      /\ DOMAIN Pop(s, m).entries = Stay(m)
      /\ \A x \in Removed(s, m), y \in DOMAIN Pop(s, m).entries : last[x] <= last[y]
    BY <1>5, PopKept
<1>8. CASE m = 0
    <2>1. Removed(s, 0) = {}
        BY DEF Removed
    <2>2. Stay(m) = DOMAIN s.entries /\ Cardinality(Stay(m)) <= POOL_KEY_CARDINALITY_CAP
        BY <1>5, <1>8, <2>1
    <2> QED BY <1>6, <1>7, <2>2
<1>9. CASE m # 0
    <2>1. m - 1 \in 0..Len(s.order) /\ m - 1 \notin N /\ m \in 1..Len(s.order)
        BY <1>1, <1>5, <1>9
    <2>2. Cardinality(Stay(m - 1)) > POOL_KEY_CARDINALITY_CAP
        <3>1. ~ (Cardinality(Stay(m - 1)) <= POOL_KEY_CARDINALITY_CAP)
            BY <2>1, ElementOfSeq
        <3>2. Cardinality(Stay(m - 1)) \in Nat
            BY <1>2
        <3> HIDE DEF Stay
        <3> QED BY <1>1, <3>1, <3>2
    <2>3. \A i \in 1..m : i \in 1..m - 1 \/ i = m
        BY <2>1
    <2>4. Stay(m - 1) \ {s.order[m].key} \subseteq Stay(m)
        BY <2>3 DEF Removed
    <2>5. Cardinality(Stay(m - 1) \ {s.order[m].key}) >= Cardinality(Stay(m - 1)) - 1
        BY <1>2, FS_RemoveElement
    <2>6. Cardinality(Stay(m - 1) \ {s.order[m].key}) <= Cardinality(Stay(m))
        BY <1>2, <2>4, FS_Subset
    <2>7. Cardinality(Stay(m - 1) \ {s.order[m].key}) \in Nat
        BY <1>2, FS_Difference, FS_CardinalityType, ZenonT(30)
    <2>8. Cardinality(Stay(m)) <= POOL_KEY_CARDINALITY_CAP
        BY <1>5
    <2> HIDE DEF Stay
    <2>9. Cardinality(Stay(m)) = POOL_KEY_CARDINALITY_CAP
        <3>1. ASSUME NEW x \in Nat, NEW y \in Nat, NEW z \in Nat, NEW cap \in Nat,
                     x > cap, y >= x - 1, y <= z, z <= cap
              PROVE  z = cap
            BY <3>1
        <3> QED BY <1>1, <1>2, <2>2, <2>5, <2>6, <2>7, <2>8, <3>1, ZenonT(30)
    <2>10. DOMAIN s.entries \ Stay(m) \subseteq Removed(s, m) /\ Stay(m) \subseteq DOMAIN s.entries
        BY DEF Stay
    <2> QED BY <1>6, <1>7, <2>9, <2>10
<1> QED BY <1>8, <1>9

\* BoundedKeySet::insert before anything is evicted.
Inserted(s, k, now) ==
    [entries |-> Put(s.entries, k, now), order |-> Append(s.order, [key |-> k, at |-> now])]

\* An insertion is the newest of its key.
LEMMA InsertedKept ==
    ASSUME NEW s, NEW last, NEW now, KeysKept(s, last, now), NEW k \in PoolKey
    PROVE  /\ KeysKept(Inserted(s, k, now), Put(last, k, now), now)
           /\ DOMAIN Inserted(s, k, now).entries = DOMAIN s.entries \cup {k}
<1> DEFINE t == Inserted(s, k, now)
           next == Put(last, k, now)
           new == [key |-> k, at |-> now]
<1>1. s.order \in Seq([key : PoolKey, at : Nat]) /\ now \in Nat /\ new \in [key : PoolKey, at : Nat]
    BY DEF KeysKept
<1>2. t.order = Append(s.order, new) /\ t.entries = Put(s.entries, k, now)
    BY DEF Inserted
<1>3. DOMAIN t.entries = DOMAIN s.entries \cup {k} /\ DOMAIN next = DOMAIN last \cup {k}
    BY <1>2 DEF Put
<1>4. /\ t.order \in Seq([key : PoolKey, at : Nat]) /\ Len(s.order) \in Nat /\ Len(t.order) = Len(s.order) + 1
      /\ \A i \in 1..Len(s.order) : t.order[i] = s.order[i]
      /\ t.order[Len(s.order) + 1] = new
    <2>1. ASSUME NEW S, NEW q \in Seq(S), NEW x \in S
          PROVE  /\ Append(q, x) \in Seq(S) /\ Len(q) \in Nat /\ Len(Append(q, x)) = Len(q) + 1
                 /\ \A i \in 1..Len(q) : Append(q, x)[i] = q[i]
                 /\ Append(q, x)[Len(q) + 1] = x
        BY AppendProperties
    <2> HIDE DEF t, new
    <2> QED BY <1>1, <1>2, <2>1
<1>5. \A j \in 1..Len(t.order) : j \in 1..Len(s.order) \/ j = Len(s.order) + 1
    BY <1>4
<1>6. new.key = k /\ new.at = now
    OBVIOUS
<1>7. \A j \in DOMAIN next : next[j] = IF j = k THEN now ELSE last[j]
    BY DEF Put
<1>8. \A j \in DOMAIN t.entries : t.entries[j] = next[j]
    <2>1. DOMAIN s.entries \subseteq DOMAIN last /\ \A j \in DOMAIN s.entries : s.entries[j] = last[j]
        BY DEF KeysKept
    <2>2. \A j \in DOMAIN t.entries : t.entries[j] = IF j = k THEN now ELSE s.entries[j]
        BY <1>2 DEF Put
    <2> HIDE DEF t, next
    <2> QED BY <1>3, <1>7, <2>1, <2>2
<1>9. \A j \in DOMAIN next : next[j] \in Nat /\ next[j] <= now
    <2>1. \A j \in DOMAIN last : last[j] \in Nat /\ last[j] <= now
        BY DEF KeysKept
    <2>2. now <= now
        BY <1>1
    <2> HIDE DEF next
    <2> QED BY <1>1, <1>3, <1>7, <2>1, <2>2
<1>10. IsFiniteSet(DOMAIN next) /\ DOMAIN t.entries \subseteq DOMAIN next
    <2>1. IsFiniteSet(DOMAIN last) /\ DOMAIN s.entries \subseteq DOMAIN last
        BY DEF KeysKept
    <2>2. IsFiniteSet(DOMAIN last \cup {k})
        BY <2>1, FS_AddElement
    <2> QED BY <1>3, <2>1, <2>2
<1>11. \A i \in 1..Len(t.order) : t.order[i].at <= now
    <2>1. \A i \in 1..Len(s.order) : t.order[i].at <= now
        BY <1>4, ZenonT(30) DEF KeysKept
    <2>2. t.order[Len(s.order) + 1].at <= now
        BY <1>1, <1>4, <1>6
    <2> HIDE DEF t
    <2> QED BY <1>5, <2>1, <2>2
<1>12. \A i, j \in 1..Len(t.order) : i <= j => t.order[i].at <= t.order[j].at
    <2> SUFFICES ASSUME NEW i \in 1..Len(t.order), NEW j \in 1..Len(t.order), i <= j
                 PROVE  t.order[i].at <= t.order[j].at
        OBVIOUS
    <2>1. CASE j = Len(s.order) + 1
        BY <1>4, <1>6, <1>11, <2>1
    <2>2. CASE j \in 1..Len(s.order)
        <3>1. i \in 1..Len(s.order)
            BY <1>4, <2>2
        <3> QED BY <1>4, <2>2, <3>1, ZenonT(30) DEF KeysKept
    <2> QED BY <1>5, <2>1, <2>2
<1>13. \A j \in DOMAIN t.entries : \E i \in 1..Len(t.order) : t.order[i].key = j /\ t.order[i].at = next[j]
    <2> SUFFICES ASSUME NEW j \in DOMAIN t.entries
                 PROVE  \E i \in 1..Len(t.order) : t.order[i].key = j /\ t.order[i].at = next[j]
        OBVIOUS
    <2>1. \A i \in 1..Len(s.order) + 1 : i \in 1..Len(t.order)
        BY <1>4
    <2>2. CASE j = k
        <3>1. Len(s.order) + 1 \in 1..Len(t.order)
            BY <1>4
        <3> QED BY <1>3, <1>4, <1>6, <1>7, <2>2, <3>1
    <2>3. CASE j # k
        <3>1. j \in DOMAIN s.entries /\ j \in DOMAIN last
            BY <1>3, <2>3 DEF KeysKept
        <3>2. PICK i \in 1..Len(s.order) : s.order[i].key = j /\ s.order[i].at = last[j]
            BY <3>1 DEF KeysKept
        <3>3. i \in 1..Len(t.order)
            BY <1>4
        <3> QED BY <1>3, <1>4, <1>7, <2>3, <3>1, <3>2, <3>3, ZenonT(30)
    <2> QED BY <2>2, <2>3
<1>14. KeysKept(t, next, now)
    <2> HIDE DEF t, next
    <2> QED BY <1>1, <1>4, <1>8, <1>9, <1>10, <1>11, <1>12, <1>13 DEF KeysKept
<1> QED BY <1>3, <1>14

\* What is at least a bound stays so when it grows.
LEMMA AtLeast == \A x, y, z \in Nat : x >= z /\ x <= y => y >= z
OBVIOUS

\* An insertion reports the number of keys inserted within the ttl, or the cap
\* plus one, and forgets only what has expired or what is older than the cap of
\* others.
LEMMA InsertExact ==
    ASSUME NEW s, NEW last, NEW now, KeysKept(s, last, now), KeysForgotten(s, last, now), NEW k \in PoolKey
    PROVE  /\ KeysKept(InsertKey(s, k, now), Put(last, k, now), now)
           /\ KeysForgotten(InsertKey(s, k, now), Put(last, k, now), now)
           /\ Reported(InsertKey(s, k, now)) = Saturating(Cardinality(Recent(Put(last, k, now), now)))
<1> DEFINE next == Put(last, k, now)
           a == Inserted(s, k, now)
           b == evict_expired(a, now)
           c == evict_over_cap(b)
           E == DOMAIN b.entries
           F == DOMAIN c.entries
           Cap == POOL_KEY_CARDINALITY_CAP
<1>1. InsertKey(s, k, now) = c
    BY DEF InsertKey, Inserted
<1>2. KeysKept(a, next, now) /\ DOMAIN a.entries = DOMAIN s.entries \cup {k}
    BY InsertedKept
<1>3. KeysKept(b, next, now) /\ E = {j \in DOMAIN a.entries : now - next[j] <= Ttl}
    BY <1>2, ExpiredLeave
<1>4. /\ KeysKept(c, next, now) /\ F \subseteq E
      /\ (F = E /\ Cardinality(E) <= Cap) \/ Cardinality(F) = Cap
      /\ \A x \in E \ F, y \in F : next[x] <= next[y]
    BY <1>3, OverCapLeave, ZenonT(30)
<1>5. /\ IsFiniteSet(DOMAIN next) /\ IsFiniteSet(E) /\ IsFiniteSet(F)
      /\ Cardinality(E) \in Nat /\ Cardinality(F) \in Nat /\ Cap \in Nat /\ Ttl \in Nat /\ now \in Nat
    <2>1. IsFiniteSet(DOMAIN next) /\ E \subseteq DOMAIN next /\ now \in Nat
        BY <1>3 DEF KeysKept
    <2>2. IsFiniteSet(E) /\ IsFiniteSet(F)
        BY <1>4, <2>1, FS_Subset
    <2> QED BY <2>1, <2>2, FS_CardinalityType, MetricsAssumption, ZenonT(30) DEF MetricsAssumption
<1>6. /\ DOMAIN next = DOMAIN last \cup {k} /\ next[k] = now
      /\ \A j \in DOMAIN last : j # k => next[j] = last[j]
      /\ \A j \in DOMAIN next : next[j] \in Nat /\ next[j] <= now
      /\ \A j \in DOMAIN last : last[j] \in Nat /\ last[j] <= now
    BY <1>3, ZenonT(30) DEF Put, KeysKept
<1> HIDE DEF next, a, b, c, Cap
\* A recent key that is missing has the cap of entries at least as new.
<1>7. ASSUME NEW j \in DOMAIN next, j \notin E, now - next[j] <= Ttl
      PROVE  Cardinality({i \in E : next[i] >= next[j]}) >= Cap
    <2>1. j \in DOMAIN last \ DOMAIN s.entries /\ j # k /\ next[j] = last[j]
        BY <1>2, <1>3, <1>6, <1>7
    <2>2. Cardinality(Since(s, last, last[j])) >= Cap
        <3>1. ~ (now - last[j] > Ttl)
            BY <1>5, <1>6, <1>7, <2>1
        <3> QED BY <2>1, <3>1 DEF KeysForgotten, Cap
    <2>3. Since(s, last, last[j]) \subseteq {i \in E : next[i] >= next[j]}
        <3> SUFFICES ASSUME NEW i \in DOMAIN s.entries, last[i] >= last[j]
                     PROVE  i \in E /\ next[i] >= next[j]
            BY DEF Since
        <3>1. i \in DOMAIN a.entries /\ i \in DOMAIN last /\ i \in DOMAIN next
            BY <1>2, <1>6 DEF KeysKept
        <3>2. next[i] >= last[i] /\ next[i] \in Nat /\ last[i] \in Nat /\ last[j] \in Nat
            BY <1>5, <1>6, <2>1, <3>1
        <3>3. now - next[i] <= Ttl /\ next[i] >= next[j]
            BY <1>5, <1>7, <2>1, <3>2
        <3> QED BY <1>3, <3>1, <3>3
    <2>4. IsFiniteSet({i \in E : next[i] >= next[j]})
        BY <1>5, FS_Subset
    <2>5. /\ Cardinality(Since(s, last, last[j])) <= Cardinality({i \in E : next[i] >= next[j]})
          /\ Cardinality(Since(s, last, last[j])) \in Nat
          /\ Cardinality({i \in E : next[i] >= next[j]}) \in Nat
        BY <2>3, <2>4, FS_Subset, FS_CardinalityType
    <2> QED BY <1>5, <2>2, <2>5, AtLeast, ZenonT(30)
<1>8. Reported(c) = Saturating(Cardinality(Recent(next, now)))
    <2> DEFINE R == Recent(next, now)
    <2>1. E \subseteq R /\ R \subseteq DOMAIN next
        BY <1>3 DEF Recent, KeysKept
    <2>2. IsFiniteSet(R) /\ Cardinality(R) \in Nat /\ Cardinality(E) <= Cardinality(R)
        BY <1>5, <2>1, FS_Subset, FS_CardinalityType
    <2> HIDE DEF R
    <2>3. ASSUME R = E
          PROVE  \/ Cardinality(F) = Cardinality(R) /\ Cardinality(R) <= Cap
                 \/ Cardinality(F) = Cap /\ Cardinality(R) >= Cap
        <3>1. Cardinality(F) <= Cardinality(E)
            BY <1>4, <1>5, FS_Subset
        <3> HIDE DEF E, F
        <3>2. F = E => Cardinality(F) = Cardinality(R)
            BY <2>3
        <3>3. Cardinality(R) = Cardinality(E)
            BY <2>3
        <3> QED BY <1>4, <1>5, <3>1, <3>2, <3>3
    <2>4. ASSUME R # E
          PROVE  \/ Cardinality(F) = Cardinality(R) /\ Cardinality(R) <= Cap
                 \/ Cardinality(F) = Cap /\ Cardinality(R) >= Cap
        <3>1. PICK j \in R : j \notin E
            BY <2>1, <2>4
        <3>2. Cardinality({i \in E : next[i] >= next[j]}) >= Cap
            BY <1>7, <3>1 DEF R, Recent
        <3>3. Cardinality({i \in E : next[i] >= next[j]}) <= Cardinality(E) /\ Cardinality({i \in E : next[i] >= next[j]}) \in Nat
            BY <1>5, FS_Subset, FS_CardinalityType
        <3> HIDE DEF E, F
        <3>4. Cardinality(E) >= Cap
            BY <1>5, <3>2, <3>3
        <3>5. Cardinality(R) >= Cap
            BY <1>5, <2>2, <3>4
        <3>6. Cardinality(F) = Cap
            BY <1>4, <1>5, <3>4
        <3> QED BY <3>5, <3>6
    <2>5. \/ Cardinality(F) = Cardinality(R) /\ Cardinality(R) <= Cap
          \/ Cardinality(F) = Cap /\ Cardinality(R) >= Cap
        BY <2>3, <2>4
    <2>6. ASSUME NEW r \in Nat, NEW f \in Nat, NEW cap \in Nat, (f = r /\ r <= cap) \/ (f = cap /\ r >= cap)
          PROVE  (IF f >= cap THEN cap + 1 ELSE f) = IF r < cap THEN r ELSE cap + 1
        BY <2>6
    <2>7. (IF Cardinality(F) >= Cap THEN Cap + 1 ELSE Cardinality(F))
             = IF Cardinality(R) < Cap THEN Cardinality(R) ELSE Cap + 1
        <3> HIDE DEF F
        <3> QED BY <1>5, <2>2, <2>5, <2>6
    <2> QED BY <2>7 DEF Reported, Saturating, Cap, R
<1>9. KeysForgotten(c, next, now)
    <2> SUFFICES ASSUME NEW j \in DOMAIN next \ F, ~ (now - next[j] > Ttl)
                 PROVE  Cardinality(Since(c, next, next[j])) >= Cap
        BY DEF KeysForgotten, Cap
    <2>1. next[j] \in Nat /\ now - next[j] <= Ttl /\ \A i \in E : next[i] \in Nat
        <3>1. E \subseteq DOMAIN next
            BY <1>3 DEF KeysKept
        <3> QED BY <1>5, <1>6, <3>1
    <2>2. CASE j \in E
        <3>1. F # E /\ \A y \in F : next[y] >= next[j]
            BY <1>4, <2>1, <2>2
        <3>2. Since(c, next, next[j]) = F
            BY <3>1 DEF Since
        <3>3. Cardinality(F) = Cap
            BY <1>4, <3>1
        <3> QED BY <1>5, <3>2, <3>3
    <2>3. CASE j \notin E
        <3>1. Cardinality({i \in E : next[i] >= next[j]}) >= Cap
            BY <1>7, <2>1, <2>3
        <3>2. CASE \A y \in F : next[y] >= next[j]
            <4>1. Since(c, next, next[j]) = F
                BY <3>2 DEF Since
            <4>2. CASE F = E
                BY <3>1, <4>1, <4>2 DEF Since
            <4>3. CASE F # E
                BY <1>4, <1>5, <4>1, <4>3
            <4> QED BY <4>2, <4>3
        <3>3. CASE \E y \in F : ~ (next[y] >= next[j])
            <4>1. PICK y \in F : ~ (next[y] >= next[j])
                BY <3>3
            <4>2. \A x \in E : next[x] >= next[j] => x \in F
                BY <1>4, <2>1, <4>1
            <4>3. Since(c, next, next[j]) = {i \in E : next[i] >= next[j]}
                BY <1>4, <4>2 DEF Since
            <4> QED BY <3>1, <4>3
        <3> QED BY <3>2, <3>3
    <2> QED BY <2>2, <2>3
<1> QED BY <1>1, <1>4, <1>8, <1>9 DEF next

\* The tracker knows of all insertions, and what it reported last is still right.
KeyInv ==
    /\ KeysKept(keys, seen, clock) /\ KeysForgotten(keys, seen, clock)
    /\ (\E k \in DOMAIN seen : seen[k] = clock) => cardinality = Saturating(Cardinality(Recent(seen, clock)))

\* It holds of the empty tracker.
LEMMA KeyBegin ==
    ASSUME NEW m, MetricsInit(m)
    PROVE  KeyInv
<1>1. keys = EmptyKeys /\ seen = <<>> /\ clock = 0
    BY DEF MetricsInit
<1>2. DOMAIN seen = {} /\ DOMAIN keys.entries = {} /\ keys.order = <<>>
    BY <1>1 DEF EmptyKeys
<1>3. KeysKept(keys, seen, clock)
    BY <1>1, <1>2, FS_EmptySet DEF KeysKept
<1> QED BY <1>2, <1>3 DEF KeyInv, KeysForgotten

\* An insertion, or an attempt that is not sampled, keeps it.
LEMMA KeyRecorded ==
    ASSUME KeyInv, NEW k \in PoolKey, NEW upstream, RecordKey(k, upstream)
    PROVE  KeyInv'
<1>1. \/ UNCHANGED <<keys, seen, clock, cardinality>>
      \/ /\ keys' = InsertKey(keys, k, clock) /\ seen' = Put(seen, k, clock)
         /\ cardinality' = Reported(keys') /\ clock' = clock
    BY DEF RecordKey
<1>2. CASE UNCHANGED <<keys, seen, clock, cardinality>>
    BY <1>2 DEF KeyInv
<1>3. CASE /\ keys' = InsertKey(keys, k, clock) /\ seen' = Put(seen, k, clock)
           /\ cardinality' = Reported(keys') /\ clock' = clock
    BY <1>3, InsertExact DEF KeyInv
<1> QED BY <1>1, <1>2, <1>3

\* So does the clock.
LEMMA KeyTick ==
    ASSUME KeyInv, Tick
    PROVE  KeyInv'
<1>1. UNCHANGED <<keys, seen>> /\ clock' = clock + 1
    BY DEF Tick
<1>2. clock \in Nat /\ (\A k \in DOMAIN seen : seen[k] \in Nat /\ seen[k] <= clock) /\ Ttl \in Nat
    BY MetricsAssumption DEF KeyInv, KeysKept, MetricsAssumption
<1>3. KeysKept(keys, seen, clock + 1)
    <2>1. keys.order \in Seq([key : PoolKey, at : Nat])
        BY DEF KeyInv, KeysKept
    <2>2. \A i \in 1..Len(keys.order) : keys.order[i].at \in Nat
        <3>1. ASSUME NEW i \in 1..Len(keys.order) PROVE keys.order[i] \in [key : PoolKey, at : Nat]
            BY <2>1, ElementOfSeq, ZenonT(30)
        <3> QED BY <3>1
    <2>3. \A i \in 1..Len(keys.order) : keys.order[i].at <= clock + 1
        <3>1. \A i \in 1..Len(keys.order) : keys.order[i].at <= clock
            BY ZenonT(30) DEF KeyInv, KeysKept
        <3> QED BY <1>2, <2>2, <3>1
    <2>4. clock + 1 \in Nat /\ \A k \in DOMAIN seen : seen[k] <= clock + 1
        BY <1>2
    <2> QED BY <2>1, <2>3, <2>4 DEF KeyInv, KeysKept
<1>4. KeysForgotten(keys, seen, clock + 1)
    <2>1. \A k \in DOMAIN seen : clock - seen[k] > Ttl => (clock + 1) - seen[k] > Ttl
        BY <1>2
    <2>2. \A k \in DOMAIN seen \ DOMAIN keys.entries :
             \/ (clock + 1) - seen[k] > Ttl
             \/ Cardinality(Since(keys, seen, seen[k])) >= POOL_KEY_CARDINALITY_CAP
        BY <2>1, ZenonT(30) DEF KeyInv, KeysForgotten
    <2> QED BY <2>2, ZenonT(30) DEF KeysForgotten
<1>5. \A k \in DOMAIN seen : seen[k] # clock + 1
    BY <1>2
<1> QED BY <1>1, <1>3, <1>4, <1>5 DEF KeyInv

-----------------------------------------------------------------------------
(* The access log.                                                         *)

\* t has elements of s, in the order of s.
Follows(t, s) ==
    /\ Range(t) \subseteq Range(s)
    /\ \A d, e : Before(t, d, e) => Before(s, d, e)

\* What an added entry comes after.
LEMMA EarlierAppend ==
    ASSUME NEW S, NEW s \in Seq(S), NEW x \in S
    PROVE  /\ Range(Append(s, x)) = Range(s) \cup {x}
           /\ \A d, e : Before(Append(s, x), d, e) <=> Before(s, d, e) \/ (e = x /\ d \in Range(s))
<1> DEFINE a == Append(s, x)
<1>1. /\ Len(s) \in Nat /\ DOMAIN s = 1..Len(s) /\ DOMAIN a = 1..(Len(s) + 1)
      /\ a[Len(s) + 1] = x /\ \A i \in 1..Len(s) : a[i] = s[i]
    <2>1. a \in Seq(S) /\ Len(a) = Len(s) + 1 /\ a[Len(s) + 1] = x /\ \A i \in 1..Len(s) : a[i] = s[i]
        BY AppendProperties
    <2> HIDE DEF a
    <2>2. Len(s) \in Nat /\ DOMAIN s = 1..Len(s) /\ DOMAIN a = 1..Len(a)
        BY <2>1, LenProperties
    <2> QED BY <2>1, <2>2
<1> HIDE DEF a
<1>2. Range(a) = Range(s) \cup {x}
    BY <1>1 DEF Range
<1>3. ASSUME NEW d, NEW e, Before(a, d, e) PROVE Before(s, d, e) \/ (e = x /\ d \in Range(s))
    <2>1. PICK i, j \in DOMAIN a : i < j /\ a[i] = d /\ a[j] = e
        BY <1>3 DEF Before
    <2>2. i \in DOMAIN s /\ s[i] = d
        BY <1>1, <2>1
    <2>3. CASE j = Len(s) + 1
        BY <1>1, <2>1, <2>2, <2>3 DEF Range
    <2>4. CASE j # Len(s) + 1
        BY <1>1, <2>1, <2>2, <2>4 DEF Before
    <2> QED BY <2>3, <2>4
<1>4. ASSUME NEW d, NEW e, Before(s, d, e) \/ (e = x /\ d \in Range(s)) PROVE Before(a, d, e)
    <2>1. CASE Before(s, d, e)
        BY <1>1, <2>1 DEF Before
    <2>2. CASE e = x /\ d \in Range(s)
        <3>1. PICK i \in DOMAIN s : s[i] = d
            BY <2>2 DEF Range
        <3>2. i \in DOMAIN a /\ a[i] = d /\ Len(s) + 1 \in DOMAIN a /\ i < Len(s) + 1 /\ a[Len(s) + 1] = e
            BY <1>1, <2>2, <3>1
        <3> QED BY <3>2 DEF Before
    <2> QED BY <1>4, <2>1, <2>2
<1> QED BY <1>2, <1>3, <1>4 DEF a

\* An entry offered and sent, or offered and dropped.
LEMMA FollowsAppend ==
    ASSUME NEW Entry, NEW t \in Seq(Entry), NEW s \in Seq(Entry), NEW x \in Entry, Follows(t, s)
    PROVE  Follows(Append(t, x), Append(s, x)) /\ Follows(t, Append(s, x))
<1>1. /\ Range(Append(t, x)) = Range(t) \cup {x} /\ Range(Append(s, x)) = Range(s) \cup {x}
      /\ \A d, e : Before(Append(t, x), d, e) <=> Before(t, d, e) \/ (e = x /\ d \in Range(t))
      /\ \A d, e : Before(Append(s, x), d, e) <=> Before(s, d, e) \/ (e = x /\ d \in Range(s))
    BY EarlierAppend
<1> QED BY <1>1 DEF Follows

\* An entry that leaves the channel unwritten.
LEMMA FollowsTail ==
    ASSUME NEW Entry, NEW w \in Seq(Entry), NEW c \in Seq(Entry)
    PROVE  /\ Follows(w, w \o c)
           /\ c # <<>> => Follows(w \o Tail(c), w \o c)
<1> DEFINE a == w \o c
<1>1. /\ Len(w) \in Nat /\ Len(c) \in Nat /\ DOMAIN w = 1..Len(w) /\ DOMAIN a = 1..(Len(w) + Len(c))
      /\ \A i \in 1..(Len(w) + Len(c)) : a[i] = IF i <= Len(w) THEN w[i] ELSE c[i - Len(w)]
    <2>1. /\ a \in Seq(Entry) /\ Len(a) = Len(w) + Len(c)
          /\ \A i \in 1..(Len(w) + Len(c)) : a[i] = IF i <= Len(w) THEN w[i] ELSE c[i - Len(w)]
        BY ConcatProperties
    <2> HIDE DEF a
    <2>2. Len(w) \in Nat /\ Len(c) \in Nat /\ DOMAIN w = 1..Len(w) /\ DOMAIN a = 1..Len(a)
        BY <2>1, LenProperties
    <2> QED BY <2>1, <2>2
<1> HIDE DEF a
<1>2. \A i \in DOMAIN w : i \in DOMAIN a /\ a[i] = w[i]
    BY <1>1
<1>3. Follows(w, a)
    BY <1>2 DEF Follows, Range, Before
<1>4. ASSUME c # <<>> PROVE Follows(w \o Tail(c), a)
    <2> DEFINE b == w \o Tail(c)
    <2>1. Tail(c) \in Seq(Entry) /\ Len(Tail(c)) = Len(c) - 1 /\ \A i \in 1..(Len(c) - 1) : Tail(c)[i] = c[i + 1]
        BY <1>4, HeadTailProperties
    <2>2. /\ DOMAIN b = 1..(Len(w) + Len(c) - 1)
          /\ \A i \in 1..(Len(w) + Len(c) - 1) : b[i] = IF i <= Len(w) THEN w[i] ELSE c[i - Len(w) + 1]
        <3>1. /\ b \in Seq(Entry) /\ Len(b) = Len(w) + Len(Tail(c))
              /\ \A i \in 1..(Len(w) + Len(Tail(c))) : b[i] = IF i <= Len(w) THEN w[i] ELSE Tail(c)[i - Len(w)]
            BY <2>1, ConcatProperties
        <3> HIDE DEF b
        <3>2. DOMAIN b = 1..Len(b)
            BY <3>1, LenProperties
        <3>3. Len(w) + Len(Tail(c)) = Len(w) + Len(c) - 1
            BY <1>1, <2>1
        <3>4. ASSUME NEW i \in 1..(Len(w) + Len(c) - 1) PROVE b[i] = IF i <= Len(w) THEN w[i] ELSE c[i - Len(w) + 1]
            <4>1. CASE i <= Len(w)
                BY <3>1, <3>3, <4>1
            <4>2. CASE ~(i <= Len(w))
                <5>1. i - Len(w) \in 1..(Len(c) - 1)
                    BY <1>1, <4>2
                <5> QED BY <2>1, <3>1, <3>3, <4>2, <5>1
            <4> QED BY <4>1, <4>2
        <3> QED BY <3>1, <3>2, <3>3, <3>4
    <2> HIDE DEF b
    <2> DEFINE at(i) == IF i <= Len(w) THEN i ELSE i + 1
    <2>3. \A i \in DOMAIN b : at(i) \in DOMAIN a /\ a[at(i)] = b[i]
        <3> SUFFICES ASSUME NEW i \in DOMAIN b PROVE at(i) \in DOMAIN a /\ a[at(i)] = b[i]
            OBVIOUS
        <3>1. CASE i <= Len(w)
            BY <1>1, <2>2, <3>1
        <3>2. CASE ~(i <= Len(w))
            <4>1. i + 1 \in 1..(Len(w) + Len(c)) /\ i + 1 - Len(w) = i - Len(w) + 1 /\ ~(i + 1 <= Len(w))
                BY <1>1, <2>2, <3>2
            <4>2. at(i) = i + 1
                BY <3>2
            <4>3. a[i + 1] = c[i + 1 - Len(w)]
                <5>1. i \in Int /\ Len(w) \in Nat /\ Len(c) \in Nat
                    BY <1>1, <2>2
                <5>2. ASSUME NEW k \in 1..(Len(w) + Len(c)), ~(k <= Len(w)) PROVE a[k] = c[k - Len(w)]
                    BY <1>1, <5>2
                <5> QED BY <4>1, <5>1, <5>2
            <4>4. b[i] = c[i - Len(w) + 1]
                BY <2>2, <3>2, ZenonT(30)
            <4>5. i + 1 \in DOMAIN a
                BY <1>1, <4>1, ZenonT(30)
            <4> QED BY <4>1, <4>2, <4>3, <4>4, <4>5, ZenonT(30)
        <3> QED BY <3>1, <3>2
    <2>4. \A i, j \in DOMAIN b : i < j => at(i) < at(j)
        BY <1>1, <2>2
    <2> HIDE DEF at
    <2>5. Range(b) \subseteq Range(a)
        BY <2>3 DEF Range
    <2>6. \A d, e : Before(b, d, e) => Before(a, d, e)
        BY <2>3, <2>4 DEF Before
    <2> QED BY <2>5, <2>6 DEF Follows, b
<1> QED BY <1>3, <1>4 DEF a

\* Writing the first entry of the channel moves it to the end of the log, and
\* sending one puts it at the end of both.
LEMMA WriteKeeps ==
    ASSUME NEW Entry, NEW w \in Seq(Entry), NEW c \in Seq(Entry)
    PROVE  /\ c # <<>> => Append(w, Head(c)) \o Tail(c) = w \o c
           /\ \A x \in Entry : w \o Append(c, x) = Append(w \o c, x)
<1>0. Len(w) \in Nat /\ Len(c) \in Nat
    BY LenProperties
<1>c. ASSUME NEW d \in Seq(Entry), NEW e \in Seq(Entry)
      PROVE  /\ d \o e \in Seq(Entry) /\ Len(d \o e) = Len(d) + Len(e)
             /\ \A i \in 1..(Len(d) + Len(e)) : (d \o e)[i] = IF i <= Len(d) THEN d[i] ELSE e[i - Len(d)]
    BY ConcatProperties, ZenonT(30)
<1>a. ASSUME NEW d \in Seq(Entry), NEW x \in Entry
      PROVE  /\ Append(d, x) \in Seq(Entry) /\ Len(Append(d, x)) = Len(d) + 1
             /\ \A i \in 1..Len(d) : Append(d, x)[i] = d[i]
             /\ Append(d, x)[Len(d) + 1] = x
    BY AppendProperties
<1>1. ASSUME c # <<>> PROVE Append(w, Head(c)) \o Tail(c) = w \o c
    <2> DEFINE t == Tail(c)
               u == Append(w, Head(c))
               l == u \o t
               r == w \o c
    <2>1. /\ t \in Seq(Entry) /\ Len(t) = Len(c) - 1 /\ \A i \in 1..Len(t) : t[i] = c[i + 1]
          /\ Head(c) \in Entry /\ Head(c) = c[1]
        BY <1>1, HeadTailProperties
    <2>2. /\ u \in Seq(Entry) /\ Len(u) = Len(w) + 1
          /\ \A i \in 1..Len(w) : u[i] = w[i]
          /\ u[Len(w) + 1] = c[1]
        BY <1>a, <2>1, ZenonT(30)
    <2> HIDE DEF t, u
    <2>3. /\ l \in Seq(Entry) /\ Len(l) = Len(u) + Len(t)
          /\ \A i \in 1..(Len(u) + Len(t)) : l[i] = IF i <= Len(u) THEN u[i] ELSE t[i - Len(u)]
        BY <1>c, <2>1, <2>2, ZenonT(30)
    <2>4. /\ r \in Seq(Entry) /\ Len(r) = Len(w) + Len(c)
          /\ \A i \in 1..(Len(w) + Len(c)) : r[i] = IF i <= Len(w) THEN w[i] ELSE c[i - Len(w)]
        BY <1>c, ZenonT(30)
    <2> HIDE DEF l, r
    <2>5. Len(l) = Len(r)
        BY <1>0, <2>1, <2>2, <2>3, <2>4
    <2>6. ASSUME NEW i \in 1..Len(r) PROVE l[i] = r[i]
        <3>1. i \in 1..(Len(w) + Len(c)) /\ i \in 1..(Len(u) + Len(t))
            BY <2>3, <2>4, <2>5
        <3>2. CASE i <= Len(w)
            <4>1. i \in 1..Len(w) /\ i <= Len(u)
                BY <1>0, <2>2, <3>1, <3>2
            <4> QED BY <2>2, <2>3, <2>4, <3>1, <3>2, <4>1, ZenonT(30)
        <3>3. CASE i = Len(w) + 1
            <4>1. i <= Len(u) /\ ~ (i <= Len(w)) /\ i - Len(w) = 1
                BY <1>0, <2>2, <3>3
            <4> QED BY <2>2, <2>3, <2>4, <3>1, <3>3, <4>1, ZenonT(30)
        <3>4. CASE i > Len(w) + 1
            <4>1. ~ (i <= Len(u)) /\ ~ (i <= Len(w)) /\ i - Len(u) \in 1..Len(t) /\ i - Len(u) + 1 = i - Len(w)
                <5>1. Len(u) = Len(w) + 1 /\ Len(t) = Len(c) - 1
                    BY <2>1, <2>2
                <5> QED BY <1>0, <3>1, <3>4, <5>1
            <4> QED BY <2>1, <2>3, <2>4, <3>1, <4>1, ZenonT(30)
        <3> QED BY <1>0, <3>1, <3>2, <3>3, <3>4
    <2>7. l = r
        BY <2>3, <2>4, <2>5, <2>6, SeqEqual, ZenonT(30)
    <2> QED BY <2>7, ZenonT(30) DEF l, r, u, t
<1>2. ASSUME NEW x \in Entry PROVE w \o Append(c, x) = Append(w \o c, x)
    <2> DEFINE t == Append(c, x)
               l == w \o t
               q == w \o c
               r == Append(q, x)
    <2>1. /\ t \in Seq(Entry) /\ Len(t) = Len(c) + 1
          /\ \A i \in 1..Len(c) : t[i] = c[i]
          /\ t[Len(c) + 1] = x
        BY <1>a, ZenonT(30)
    <2>2. /\ q \in Seq(Entry) /\ Len(q) = Len(w) + Len(c)
          /\ \A i \in 1..(Len(w) + Len(c)) : q[i] = IF i <= Len(w) THEN w[i] ELSE c[i - Len(w)]
        BY <1>c, ZenonT(30)
    <2> HIDE DEF t, q
    <2>3. /\ l \in Seq(Entry) /\ Len(l) = Len(w) + Len(t)
          /\ \A i \in 1..(Len(w) + Len(t)) : l[i] = IF i <= Len(w) THEN w[i] ELSE t[i - Len(w)]
        BY <1>c, <2>1, ZenonT(30)
    <2>4. /\ r \in Seq(Entry) /\ Len(r) = Len(q) + 1
          /\ \A i \in 1..Len(q) : r[i] = q[i]
          /\ r[Len(q) + 1] = x
        BY <1>a, <2>2, ZenonT(30)
    <2> HIDE DEF l, r
    <2>5. Len(l) = Len(r)
        BY <1>0, <2>1, <2>2, <2>3, <2>4
    <2>6. ASSUME NEW i \in 1..Len(r) PROVE l[i] = r[i]
        <3>1. i \in 1..(Len(w) + Len(t))
            BY <2>3, <2>5
        <3>2. CASE i \in 1..Len(q)
            <4>1. i \in 1..(Len(w) + Len(c)) /\ (~ (i <= Len(w)) => i - Len(w) \in 1..Len(c))
                BY <1>0, <2>2, <3>2
            <4> QED BY <2>1, <2>2, <2>3, <2>4, <3>1, <3>2, <4>1, ZenonT(30)
        <3>3. CASE i = Len(q) + 1
            <4>1. ~ (i <= Len(w)) /\ i - Len(w) = Len(c) + 1
                BY <1>0, <2>2, <3>3
            <4> QED BY <2>1, <2>3, <2>4, <3>1, <3>3, <4>1, ZenonT(30)
        <3> QED BY <1>0, <2>2, <2>4, <3>2, <3>3
    <2>7. l = r
        BY <2>3, <2>4, <2>5, <2>6, SeqEqual, ZenonT(30)
    <2> QED BY <2>7, ZenonT(30) DEF l, r, q, t
<1> QED BY <1>1, <1>2, ZenonT(30)

\* What the log, the channel and the counters hold of the entries offered; a
\* worker that has not started has written nothing.
LogInv(Entry) ==
    /\ written \in Seq(Entry) /\ chan \in Seq(Entry) /\ offered \in Seq(Entry)
    /\ dropped \in Nat /\ failures \in Nat
    /\ worker = "new" => written = <<>> /\ failures = 0
    /\ worker # "stopped" /\ (worker = "new" \/ writer = "ready") /\ metrics = "on" =>
          Len(offered) = Len(written) + Len(chan) + dropped + failures
    /\ Follows(written \o chan, offered)

\* The books balance at boot.
LEMMA LogBegin ==
    ASSUME NEW Entry, NEW p, LogInit(p)
    PROVE  LogInv(Entry)
<1>1. written = <<>> /\ chan = <<>> /\ offered = <<>> /\ dropped = 0 /\ failures = 0
    BY DEF LogInit
<1>2. <<>> \in Seq(Entry) /\ Len(<<>>) = 0
    BY EmptySeq
<1>3. Follows(<<>> \o <<>>, <<>>)
    <2>1. <<>> \o <<>> = <<>>
        BY <1>2, ConcatEmptySeq
    <2> QED BY <2>1 DEF Follows
<1> QED BY <1>1, <1>2, <1>3 DEF LogInv

\* AccessLog::log keeps the books.
LEMMA LogStep ==
    ASSUME NEW Entry, LogInv(Entry), UNCHANGED metrics, NEW r \in Entry, NEW p, Log(r, p, metrics)
    PROVE  LogInv(Entry)'
<1>0. /\ written \in Seq(Entry) /\ chan \in Seq(Entry) /\ offered \in Seq(Entry)
      /\ Len(written) \in Nat /\ Len(chan) \in Nat /\ Len(offered) \in Nat
      /\ dropped \in Nat /\ failures \in Nat /\ written \o chan \in Seq(Entry)
    BY LenProperties, ConcatProperties DEF LogInv
<1>1. UNCHANGED <<worker, writer, written, failures>>
    BY DEF Log
<1>2. CASE UNCHANGED <<chan, dropped, offered>>
    BY <1>1, <1>2 DEF LogInv
<1>3. CASE TrySend(r, metrics) /\ offered' = Append(offered, r)
    <2>1. Append(offered, r) \in Seq(Entry) /\ Len(Append(offered, r)) = Len(offered) + 1
        BY <1>0, AppendProperties
    <2>2. Follows(Append(written \o chan, r), Append(offered, r)) /\ Follows(written \o chan, Append(offered, r))
        BY <1>0, FollowsAppend, ZenonT(30) DEF LogInv
    <2>3. CASE chan' = Append(chan, r) /\ UNCHANGED dropped
        <3>1. Append(chan, r) \in Seq(Entry) /\ Len(Append(chan, r)) = Len(chan) + 1
            BY <1>0, AppendProperties
        <3>2. written \o Append(chan, r) = Append(written \o chan, r)
            BY <1>0, WriteKeeps
        <3>3. Len(chan') = Len(chan) + 1 /\ Len(offered') = Len(offered) + 1
            BY <1>3, <2>1, <2>3, <3>1
        <3>4. Follows(written \o chan, offered)'
            BY <1>1, <1>3, <2>2, <2>3, <3>2
        <3>5. chan' \in Seq(Entry) /\ offered' \in Seq(Entry)
            BY <1>3, <2>1, <2>3, <3>1
        <3>6. ASSUME metrics = "on", Len(offered) = Len(written) + Len(chan) + dropped + failures
              PROVE  Len(offered') = Len(written) + Len(chan') + dropped + failures
            BY <1>0, <3>3, <3>6
        <3> QED BY <1>0, <1>1, <2>3, <3>4, <3>5, <3>6, ZenonT(30) DEF LogInv
    <2>4. CASE /\ dropped' = IF worker # "stopped" /\ metrics = "on" THEN dropped + 1 ELSE dropped
               /\ UNCHANGED chan
        <3>1. Len(offered') = Len(offered) + 1 /\ offered' \in Seq(Entry)
            BY <1>3, <2>1
        <3>2. Follows(written \o chan, offered)'
            BY <1>1, <1>3, <2>2, <2>4
        <3>3. dropped' \in Nat /\ (worker # "stopped" /\ metrics = "on" => dropped' = dropped + 1)
            BY <1>0, <2>4
        <3>4. (worker # "stopped" /\ (worker = "new" \/ writer = "ready") /\ metrics = "on" =>
                 Len(offered) = Len(written) + Len(chan) + dropped + failures)'
            <4>1. ASSUME dropped' = dropped + 1, Len(offered) = Len(written) + Len(chan) + dropped + failures
                  PROVE  Len(offered') = Len(written) + Len(chan) + dropped' + failures
                BY <1>0, <3>1, <4>1
            <4> QED BY <1>1, <2>4, <3>3, <4>1, ZenonT(30) DEF LogInv
        <3> QED BY <1>0, <1>1, <2>4, <3>1, <3>2, <3>3, <3>4, ZenonT(30) DEF LogInv
    <2> QED BY <1>3, <2>3, <2>4 DEF TrySend
<1> QED BY <1>2, <1>3 DEF Log

\* So does the worker.
LEMMA WorkerStep ==
    ASSUME NEW Entry, LogInv(Entry), UNCHANGED metrics, StartWorker \/ WriteEntry \/ WriteFails \/ StopWorker
    PROVE  LogInv(Entry)'
<1>0. /\ written \in Seq(Entry) /\ chan \in Seq(Entry) /\ offered \in Seq(Entry)
      /\ Len(written) \in Nat /\ Len(chan) \in Nat /\ Len(offered) \in Nat
      /\ dropped \in Nat /\ failures \in Nat /\ written \o chan \in Seq(Entry)
    BY LenProperties, ConcatProperties DEF LogInv
<1>1. CASE StartWorker
    BY <1>1 DEF StartWorker, LogInv
<1>2. chan # <<>> => /\ Tail(chan) \in Seq(Entry) /\ Len(Tail(chan)) = Len(chan) - 1 /\ Head(chan) \in Entry
                     /\ Follows(written \o Tail(chan), written \o chan)
    BY <1>0, HeadTailProperties, FollowsTail
<1>3. CASE WriteEntry /\ writer = "ready"
    <2>1. /\ chan # <<>> /\ chan' = Tail(chan) /\ written' = Append(written, Head(chan))
          /\ UNCHANGED <<worker, writer, dropped, offered, failures>> /\ worker = "running"
        BY <1>3 DEF WriteEntry
    <2>2. Append(written, Head(chan)) \in Seq(Entry) /\ Len(Append(written, Head(chan))) = Len(written) + 1
        BY <1>0, <1>2, <2>1, AppendProperties
    <2>3. Append(written, Head(chan)) \o Tail(chan) = written \o chan
        BY <1>0, <2>1, WriteKeeps
    <2>4. /\ written' \in Seq(Entry) /\ chan' \in Seq(Entry) /\ Len(written') = Len(written) + 1
          /\ Len(chan') = Len(chan) - 1 /\ written' \o chan' = written \o chan
        BY <1>2, <2>1, <2>2, <2>3
    <2>5. Follows(written \o chan, offered)'
        BY <2>1, <2>4, ZenonT(30) DEF LogInv
    <2>6. (worker # "stopped" /\ (worker = "new" \/ writer = "ready") /\ metrics = "on" =>
             Len(offered) = Len(written) + Len(chan) + dropped + failures)'
        <3>1. metrics = "on" => Len(offered) = Len(written) + Len(chan) + dropped + failures
            BY <1>3, <2>1 DEF LogInv
        <3>2. metrics = "on" => Len(offered) = Len(written') + Len(chan') + dropped + failures
            <4>1. Len(written') = Len(written) + 1 /\ Len(chan') = Len(chan) - 1
                BY <2>4
            <4>2. Len(written) \in Nat /\ Len(chan) \in Nat /\ dropped \in Nat /\ failures \in Nat
                BY <1>0
            <4>3. Len(written) + Len(chan) = Len(written') + Len(chan')
                BY <4>1, <4>2
            <4> QED BY <3>1, <4>3, ZenonT(30)
        <3> QED BY <2>1, <3>2
    <2>7. (worker # "new")'
        BY <2>1
    <2> QED BY <1>0, <2>1, <2>4, <2>5, <2>6, <2>7 DEF LogInv
<1>4. CASE (WriteEntry /\ writer # "ready") \/ WriteFails
    <2>1. /\ chan # <<>> /\ chan' = Tail(chan) /\ UNCHANGED <<worker, writer, written, dropped, offered>>
          /\ worker = "running"
          /\ (UNCHANGED failures /\ writer # "ready") \/ failures' = failures + 1
        BY <1>4 DEF WriteEntry, WriteFails
    <2>2. chan' \in Seq(Entry) /\ Len(chan') = Len(chan) - 1
        BY <1>2, <2>1
    <2>3. Follows(written \o chan, offered)'
        BY <1>2, <2>1 DEF LogInv, Follows
    <2>4. ASSUME writer = "ready", Len(offered) = Len(written) + Len(chan) + dropped + failures
          PROVE  Len(offered) = Len(written) + Len(chan') + dropped + failures'
        <3>1. failures' = failures + 1
            BY <2>1, <2>4
        <3> QED BY <1>0, <2>2, <2>4, <3>1
    <2>5. failures' \in Nat /\ written \in Seq(Entry) /\ offered \in Seq(Entry) /\ dropped \in Nat
        BY <1>0, <2>1
    <2>6. (worker # "stopped" /\ (worker = "new" \/ writer = "ready") /\ metrics = "on" =>
             Len(offered) = Len(written) + Len(chan) + dropped + failures)'
        BY <2>1, <2>4 DEF LogInv
    <2> QED BY <2>1, <2>2, <2>3, <2>5, <2>6 DEF LogInv
<1>5. CASE StopWorker
    <2>1. chan' = <<>> /\ worker' = "stopped" /\ UNCHANGED <<writer, written, dropped, offered, failures>>
        BY <1>5 DEF StopWorker
    <2>2. <<>> \in Seq(Entry) /\ written \o <<>> = written
        BY <1>0, EmptySeq, ConcatEmptySeq
    <2>3. Follows(written, written \o chan)
        BY <1>0, FollowsTail
    <2>4. Follows(written \o chan, offered)'
        BY <2>1, <2>2, <2>3 DEF LogInv, Follows
    <2> QED BY <2>1, <2>2, <2>4 DEF LogInv
<1> QED BY <1>1, <1>3, <1>4, <1>5
=============================================================================
