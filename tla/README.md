# Pavis in TLA+

Pavis is an L7 proxy with a frozen data plane. A *codec* compiles a configuration
document ahead of time into a checksummed `.pvs` artifact. A *relay* compiles
watched files or accepts published artifacts, gives them versions, keeps a
last-known-good copy (LKG) and a history on disk, and hands them to runtimes over
a long poll. In every runtime an *agent* fetches artifacts, verifies them,
replaces its own LKG file and swaps the state the proxy threads read. Requests
then run against that state: router, upstream clusters with outlier ejection and
active health checks, connection pool, circuit breaker, retries. Around them run
the access log, metrics, tracing and a small admin API.

This directory holds TLA+ modules for these parts, TLC configurations that check
them on small instances, and TLAPS proofs for the properties that matter most.
Source paths below are relative to `src/crates/`, document paths to `src/docs/`.

```
tlc -workers 2 -config AgentFaults.cfg MCConfigAgent    # one run
tlapm UpstreamHealthProofs.tla                          # one proof module
```

## Parts of the system

| part | code | modules |
|---|---|---|
| configuration agent | `pavis/src/agent/` | `ConfigAgent`, abstract `AtomicReload` |
| relay store and publish | `pavis-relay/src/runtime.rs`, `storage/`, `state.rs`, `app.rs` | `RelayStore` |
| relay long poll | `pavis-relay/src/handlers.rs`, `pavis/src/agent/driver.rs` | `LongPoll`, `Wire` |
| relay ingest pipeline | `pavis-relay/src/pipeline/` | `RelayPipeline` |
| file ingest | `pavis-ingest-file/src/` | `IngestFile` |
| relay configuration | `pavis-relay/src/config/` | `RelayConfig` |
| codec | `pavis-codec-serde/src/` | `SerdeDto`, `CodecUpstreams`, `CodecRoutes`, `Codec`, `Predicates` |
| configuration types, validation | `pavis-core/src/runtime/`, `validate/` | `RuntimeConfig`, `Validate` |
| artifact format | `pavis-pvs/src/` | `Pvs` |
| bootstrap, reload boundary | `pavis/src/bootstrap.rs`, `listener/`, `pavis-core/src/runtime/reload.rs` | `Bootstrap`, `Configure`, `ConfigAgent` |
| router | `pavis/src/router.rs`, `router/`, `regex_validator.rs` | `Router` |
| forwarding: headers, identities, balancing, peer, probe | `pavis/src/proxy/`, `upstream/` | `Forwarding`, `RequestContext` |
| pool, circuit breaker, retries | `pavis/src/upstream/cluster/`, `proxy/service/io.rs`, `retry.rs` | `RequestPath` |
| upstream cluster, health monitor, DNS resolver | `pavis/src/upstream/` | `Cluster`, `UpstreamHealth` |
| access log, metrics, tracing, admin API | `pavis/src/telemetry/`, `admin.rs` | `AccessLog`, `Metrics`, `Tracing`, `Admin`, `Process` |

`PROJECT.json` maps every definition to the lines it stands for and says of every
part what is left out.

## How the parts interact

```
 document --Codec, Validate--> Runtime --Pvs--> .pvs            (Configure)
                                                 |
 watched file --IngestFile--> RelayPipeline --publish--> RelayStore (disk)
                     POST --------------^            |
                                                     v  snapshot, notify
                                   ConfigAgent <--Wire-- LongPoll
                                       |  LKG file
                                       v
                               RuntimeStateHandle (swap)
              ________________________/  |  \__________________
             v                           v                     v
  Configure: route, forward,   RequestPath: permits,    UpstreamHealth: probes,
  answer, log one request      retries, budget          lookups, ejections
             \___________________________|____________________/
                                         v
                Process: AccessLog, Metrics, Tracing, Admin, shutdown
```

Compositions that are checked as one: `RelayPipeline` extends `IngestFile` and
`LongPoll` (file to agent); `Configure` extends everything between the document
and the log entry of a request; `Process` extends the four services;
`UpstreamHealth` extends `Cluster`. The others meet at an interface that both
sides model: `LongPoll` is the in-memory half of the publish whose durable half
is `RelayStore`; `ConfigAgent` treats the relay as an environment that answers
the way `get_config` does; the swap there is `Reload` in `UpstreamHealth` and
`Configure`.

## How the modules correspond to the code

### ConfigAgent and AtomicReload

One variable per piece of state: `fsm` and `ctx` are `Fsm::state` and `Fsm::ctx`,
`fetch` and `timer` the driver's `pending_fetch` and `pending_timer`, `job` the
place inside `verify_update` (`stage`, `check`) or `apply_update` (`load`,
`rename`, `store`), `lkg` and `tmp` the two files, `served` the
`RuntimeStateHandle`, `boot` the artifact the listeners were built from.

* `Boot` is `main`: the services and the first state come from the LKG file.
  `Bootstrap` is `bootstrap_from_lkg`, which loads the file once more and whose
  failure is only logged, and then the Start event.
* A response event is one action with the whole of `Fsm::tick` for it:
  `RespondArtifact` (with the bytes that arrived, perhaps damaged),
  `RespondNoUpdate`, `RespondNeedResync` (410), `RespondTransient`.
* Verify and apply are several actions because they await between file
  operations; crashes fall between them. `Shutdown` is seen only between events.
* A rejection is remembered with `until` in `none`, `pending`, `passed`: all that
  the code ever asks of `last_rejected_until`. Delays of the back-off are not
  kept; the saturating attempt counter is.

`AtomicReload` is what an operator is promised: one durable and one live
configuration; a reload commits an intact artifact with the same boot-time
fields, then makes it live; a restart completes it. The mapping takes the LKG
file as durable, and as live the served state, or the LKG file while the process
is down.

### RelayStore

A file is its current content and the set of contents a power loss may leave:
`write_atomic` syncs data before it renames, but the rename is durable only after
the directory is synced. Every file operation of `append_to_history`,
`promote_to_lkg` and `save_state` is an action, with `pc` the place in
`publish_bytes`; `publish_lock` makes one program counter enough. Startup is
`RepairLkg` (with `recover_lkg_from_history`, which promotes through the same
steps), then `LoadLkg`. `Exit` kills the process and keeps the files; `PowerLoss`
picks a surviving content of every file; the `*Fails` actions are I/O errors and
the clean-up after them; `Disconnect` drops the handler at an await. The read
endpoints (`get_ready`, `get_status`, `get_artifact`) are functions of the state.
`acked`, `seen` and `since` record the past for the properties.

### LongPoll and Wire

`SetSnapshot` and `Announce` are the two halves of `publish`, split at the await
of the history lock. A client's request is `looking` after `get_config` read the
snapshot, `waiting` once `notified()` exists, `woken` after `notify_waiters`.
`Expire` is the deadline. A client polls again with the ETag it was last given.
`Wire` is what both sides do to that ETag: how a checksum is spelled, quoted and
read from `If-None-Match`, the 200, 204, 304 and 503 answers, and what
`fetch_once` makes of each.

### IngestFile, RelayConfig and RelayPipeline

`RelayConfig` turns a relay's own configuration as written into its settings
(references to the environment, defaults, refusals); `IngestFile` starts from one
of them. A content of the watched file is what the file system, the size limit,
the UTF-8 check and the codec tell apart; its mtime is the number of the edit
that wrote it. The stream reads the file once, the watcher task then takes its
first `last_mtime` (`baseline`), and follows notify's events and its own poll,
debouncing before every read. A read stats the file and reads it afterwards, with
room for an edit in between. Events may be lost. `RelayPipeline` takes what the
stream yields, at most `max_in_flight` at a time, compiles it and publishes under
`publish_lock`, a fair mutex it shares with `POST /v1/publish`; a failed publish
sleeps and asks again until its retries are exhausted. A restart comes back with
the LKG, whose durability is the matter of `RelayStore`: the snapshot, or what a
publish had promoted and not yet put into memory, or only its bytes under the
older metadata (`RelayTorn`).

### RuntimeConfig, SerdeDto, the codec modules, Validate, Pvs

`RuntimeConfig` has a set for every Rust type of a compiled configuration,
`SerdeDto` one for every type of the document. The operators of `CodecUpstreams`,
`CodecRoutes` and `Codec` carry the names of the conversion functions; a
computation that ends with an error yields `Err`, and `Try` is Rust's `?`.
Integers keep their width: `u16` is exact, `u32` and `u64` are scaled to what TLC
can count, durations tick finer than a millisecond so that truncation shows.
Paths and hosts are sequences because prefixes and labels matter; other strings
are atoms. A regular expression is one with or without the `^` anchor, or
malformed. `Pvs` has the header and payload with each check of the reader in its
order.

### Router, Forwarding, RequestContext, Predicates, Bootstrap, Configure

`Router` compiles virtual hosts into exact, prefix and predicate zones and looks
a request up in them. `Forwarding` is the rest of a request: certificate identity
and principal, destination by weight, endpoint by round robin, headers, the peer
with its TLS settings and pool key, the pause before a retry, and what an active
probe sends to the same endpoint. `RequestContext` has the request id and the log
entry. `Predicates` has the predicate trees of the codec and their normal form,
which the serve path does not use; `ConfigurePredicates` sets them against the
matchers of the configurations of `Configure`. `Lists` has the slice and iterator
operations all of them use. `Bootstrap` is what the process reads and fixes
at its start.

`Configure` puts them in sequence: `Check`, `Compile`, `Validated`, `Write`,
perhaps `Damage`, `Load`, then `Boot` or `Reload`. While the proxy serves, an
author may edit and a reload may fall between any two callbacks of a request:
`Arrive`, `RequestFilter`, `UpstreamPeer`, `UpstreamRequestFilter`,
`UpstreamResponseFilter`, `Logging`, `Done`. The context pins the state, as
`RouterContext` does.

### RequestPath

A member of `Request` is a downstream connection that carries one request after
another; `pc` is the place inside Pingora's callbacks. A step ends where the code
awaits, or where another thread may see the atomic it just changed, so that
`PoolLimiter`'s counters are apart from the semaphore they describe. `held` is
`ctx.pool_permit`, `fresh` the permit `upstream_peer` has acquired and not stored
yet, `breaker` the circuit breaker's permit. Both semaphores have FIFO queues, as
tokio's have. The body is buffered under a budget all requests share. Pingora
calls `upstream_peer` at most `MaxTries` times; a failure on a reused connection
is retried without asking the policy. The deadline is a clock that runs or has
passed.

### Cluster and UpstreamHealth

`Cluster` has one operator per method of `Cluster` and `HealthState`, from a
cluster to the cluster after it, since each method holds the mutex throughout:
`UpdateEndpoints`, `SetActiveHealth`, `RecordOutcome`, `RefreshExpired`. A
cluster is its configuration, the list of endpoints, the status of every address
(consecutive errors, ejection, active health) and the published set of eligible
endpoints. An ejection is `pending`, then `passed`; clearing it is a separate
event of the code and of the model.

`UpstreamHealth` follows one upstream name through successive configurations. A
*generation* is one `RuntimeState`; replaced generations stay alive while a
request, a probe job or the scheduler refers to them.

* Requests: `Arrive` fixes the generation; `SelectRefresh` and `SelectLoad` are the
  two halves of `select_endpoint`, under and after the lock; `Retry` goes back to
  the selection with one more attempt; `Succeed`, `Fail` and `NoEndpoint` end in
  `logging`, which records one outcome, for the endpoint selected last.
* Monitor: `Tick` and `TickDue` compare the *place* (allocation address) of the
  current state with the one seen last, and rebuild the scheduler if it differs;
  `MarkUnhealthy` is `mark_all_unhealthy` for a plan that could not be built.
  A job reads the list when it first runs (`JobStarts`), probes
  (`ProbeAnswers`), and applies after the await (`ProbeApplies`).
* Resolver: `ResolveStarts` reads configuration and endpoints and lets go of the
  state; `ResolveAnswers` or `ResolveFails`; `ResolveApplies` looks the cluster up
  again by name. `Resolve` is strict or logical discovery; `Materialize` is what
  `state.rs` does with the same lists at a reload.
* `EjectionPasses`, `NetChanges`, `ZoneChanges` are the clock, the servers, the DNS.

### AccessLog, Metrics, Tracing, Admin and Process

`AccessLog` is the bounded channel and its worker; `Metrics` the label caches, the
tracker of pool-key cardinality and the gauges that depend on more than one call;
`Tracing` the slot with the provider, which the tracing service and the agent's
callback may both try to fill, the layer installed, and the spans batched,
exported and flushed (`shut` is the provider that was flushed and shut down:
requests on accepted connections still arrive and end after the signal; `ended`,
`sent` and `lost` count what became of their spans); `Admin`
the two small HTTP servers with clients that send a line, a bad one, or nothing.
`Process` runs them with requests, updates (`Verify`, `Store`, `Callback`,
`Applied` and the ways they fail) and one shutdown signal.

## Runs

| run | module | properties | result |
|---|---|---|---|
| `AgentFaults` | MCConfigAgent | DriverInSync, LkgServed, ImplementsAtomicReload | holds, 387 k states |
| `AgentLive` | MCConfigAgent | AppliedIsServed, Convergence | holds, 98 k states |
| `RelayCrash` | MCRelayStore | AckedIsDurable, AckedHistoryKept, VersionsNeverGoBack, RepairPossible, EndpointsCoverAcked | holds, 355 k states |
| `RelayTorn` | MCRelayStore | LkgPairIntact | violated (finding) |
| `Delivery` | MCRelayPipeline | ClientNeverGoesBack, NoRedundantAnswer, EventuallyCurrent, EventuallyDelivered, NewerStays | holds, 213 k states |
| `Configure` | MCConfigure | TypeOK, RoundTrip, FirstRouteWins, TlsAsWritten, HeadersAsRuled, IdentityProven, SharesByWeight, BackoffGrows, BootStays, OneConfiguration, PredicatesAgree | holds, 71 k states |
| `SniMissing` | MCConfigure | NameForEveryPeer | violated (finding) |
| `RequestSafe` | MCRequestPath | PermitsConserved, LimitsHold, RetriesAccounted, AnsweredUnlessWedged | holds, 265 k states |
| `BreakerWedge` | MCRequestPath | Answered | violated (finding) |
| `HealthSafe` | MCUpstreamHealth | PublishedMatchesHealth, EjectionHolds | holds, 248 k states |
| `HealthLive` | MCUpstreamHealth | Readmitted, HealthFollowsProbes, ListFollowsDns | holds, 183 k states |
| `Process` | MCProcess | LogAccounted, MetricsExact, SpansFlushed, EveryoneServed, AllStop | holds, 123 k states |

What the passing runs say:

* **Agent.** Whatever crashes, shutdowns, transient answers, resyncs and damaged
  bodies do, the driver's pending work is exactly what the state machine waits
  for (so it never wedges), the LKG file is intact and is what is served except
  between rename and store, and the whole refines `AtomicReload`. If the file just
  renamed can be read back, `last_applied_etag` names what is served, and once
  publishes and faults stop the agent serves the relay's artifact if it can be
  accepted at all.
* **Relay store.** An acknowledged publish survives any combination of the faults,
  in the LKG and in the history; versions do not go back once they were served from
  a synced LKG;
  `repair_lkg` finds what it needs; the read endpoints never show less than what
  was acknowledged.
* **Delivery.** No client is taken back in time or answered with the bytes it
  holds, and every client ends up with the snapshot even when its wake-up was
  lost. Once edits stop, relay and agents end up with what the file holds, except
  after an edit between the first read and the watcher's first `last_mtime`, after
  exhausted retries, after a retry that another publish may overtake
  (`max_in_flight` above 1), and after posts, which have nothing to do with the
  file. With one artifact in flight an older content never replaces a newer one.
* **Configuration.** A configuration rendered as a document compiles to itself,
  and a damaged file is not loaded. The compiled router chooses the first fitting
  route of the document. The peer of a request uses TLS, names and certificates as
  written, the probe of the same endpoint agrees with it, and peers with one pool
  key agree in all of that. Headers are what the rules say, one by one. A route
  with a principal forwards only proven identities. Endpoints and destinations get
  their weight in picks. Pauses between attempts grow and stay within the
  deadline. A reload never changes what was fixed at boot, and a request ends with the
  configuration it was routed by, and is logged so. Normalised predicate trees
  mean what the router's matcher does.
* **Requests.** No permit or byte of budget is lost on any path; the limits bound
  what is connecting or being sent, and `max_attempts` the attempts of the policy;
  every request is answered, unless all breaker permits are held by requests that
  wait for another one.
* **Clusters.** The list requests choose from always agrees with the health of
  the endpoints; no probe, late success or new list ends an ejection early; an
  ejected endpoint comes back; after a reload probes and lookups converge to the
  truth, whatever late results of the replaced state did.
* **Process.** While the log's worker lives every entry is written, queued,
  counted as dropped or reported; gauges and the pool-key cardinality are exact;
  a flush in time leaves no span behind; every connection is served although the
  admin API takes one at a time; after the signal every service ends.

What the violated ones show (details and the quoted lines are in `PROJECT.json`):

* `RelayTorn`: an exit between the two renames of `promote_to_lkg` leaves new bytes
  under old metadata, and startup does not compare checksums.
* `BreakerWedge`: a request retried on a reused connection keeps its breaker permit
  while it waits, without a timeout, for a second one; once all permits are held
  so, nobody is answered.
* `SniMissing`: the validation accepts a host rewrite as the name of a verified
  upstream of addresses, but no code sets the name from it; every request is
  answered with 500.

### Bounds, and why they are enough

* Agent: four artifacts, one for each verdict (`good`, `other`, one with other
  boot-time fields, one that does not verify); two publishes, which allow change
  and rollback; two faults, so that a second failure meets the recovery from the
  first; the attempt counter saturates at 2 instead of `u32::MAX`. `AgentLive`
  leaves the artifact with other boot-time fields out.
* Relay store: two artifacts, which are symmetric, and three versions, so that a
  publish can fail between two that succeed and restore the older content; one
  fault of each kind, in any order. `CHECK_DEADLOCK FALSE` because the versions
  run out.
* Delivery: five relay configurations that start (one in flight with a retry,
  without, two in flight, an unknown format, no file) and four that are refused;
  contents of every verdict; one edit during the run, one disturbance (failed
  publish, post or restart), one dropped publish; one client and two artifacts. The relay starts
  without an LKG or with one, the file missing or acceptable (`MCInit`). Edits and
  publishes run out, so `CHECK_DEADLOCK FALSE`.
* Configure: several hundred documents, each varying one section of a small valid
  one through every case its conversion and validation distinguish; requests
  that between them meet every kind of host, path, method, header and
  certificate; reloads to documents that vary what is fixed at boot or what is
  routed, at most one during a request. The round-robin counter wraps at `CounterMax`. A refused
  document ends the behaviour, so `CHECK_DEADLOCK FALSE`.
* Requests: two connections, four routes (without retries, with, and two whose
  body exceeds its limit), four sets of limits, among them a breaker of two that
  both requests can wait for; three calls of `upstream_peer`, so that a retry
  follows a retry; a budget that only one body fits. `BreakerWedge` needs only the
  breaker of one. A wedge is a deadlock, so `RequestSafe` does not check for it;
  `AnsweredUnlessWedged` says there is no other.
* Clusters: two addresses, one name, lists that grow, shrink and become empty,
  an address that is listed twice; threshold 2 with two attempts, so that retry
  and ejection meet. `HealthSafe` has one configuration of four kinds and two
  overlapping probe jobs. `HealthLive` has one reload, two overlapping jobs, of
  the same or of different configurations, and two kinds of cluster, one that ejects at
  the first failure and one that is probed while its list changes. A monitor that takes
  the state for an earlier one needs a second reload, which only the proofs have.
  Two places suffice: a state is never allocated where the current one is.
* Process: five boots, each with the inputs its services care about (`MCBounds`);
  channel and label caches of 1, a key cap of 2 with three keys and five
  insertions, so that every limit is met and a queued insertion outlives its entry.

### Fairness

* Agent: the supervisor restarts the process, tokio runs spawned tasks and
  timers, the relay answers or times out every request (it has a deadline), and
  rejection deadlines pass. Nothing is assumed of damaged or transient answers.
* Delivery: the watcher task, the pipeline's futures and timers, and the handlers
  are polled when they can make progress; deadlines pass; agents poll again after
  every answer. Edits, posts and publishes are not assumed to happen.
* Requests: every task is scheduled and the upstream answers or the connection
  breaks (weak fairness on each request's steps). Arrivals and deadlines are free.
* Clusters: ticks and tasks run; deadlines pass; every request is answered or
  times out, and requests keep coming, because the code clears ejections only
  when a request selects an endpoint; a lookup that is made again and again
  succeeds at some time (strong fairness on `ResolveAnswers`).
* Process: every service runs when it can, and an update that was begun is
  finished. Clients, requests and the signal may stay away. A client that sent its
  line takes the answer, and a write of the log returns: neither write has a
  timeout in the code (`telemetry/metrics.rs:194`, `telemetry/access_log.rs:87`).

## Proofs

TLAPS checks these for every value of the constants that the named assumptions
(`AgentAssumption`, `StoreAssumption`, `PollAssumption`, `PipelineAssumption`,
`ClusterAssumption`, `HealthAssumption`, `RequestAssumption`, `MetricsAssumption`,
`TracingAssumption`, `ProcessAssumption`, `ArtifactAssumption`,
`ConfigureAssumption`, `WidthAssumption`, `PoolAssumption`, `MillisAssumption`) allow: any set of
artifacts, clients, addresses and jobs, any finite set of requests, any limits and
capacities, any bound on publishes, edits, faults and reloads, any documents and
certificates. The assumptions are type conditions on the constants (a name
resolves to a list of addresses, a configured endpoint is an address or a name),
facts the code enforces (a `NonZeroU16` is at least 1, the default pool size is
in its range, a route's pattern is not the mark of "no route"), and that the mark
`None` of an absent value is not itself a value.

| theorem | module | says |
|---|---|---|
| `AgentSafety` | ConfigAgentProofs | TypeOK, DriverInSync, LkgServed, BootFrozen, RejectedNotRetried |
| `DriverConsistent` | ConfigAgentProofs | DriverInSync |
| `AgentDeduplication` | ConfigAgentProofs | AppliedIsServed, if the LKG can be read back |
| `AgentImplementsReload` | ConfigAgentProofs | the refinement of `AtomicReload` |
| `AckedPublishSurvives`, `AckedHistory` | RelayStoreProofs | TypeOK, AckedIsDurable, AckedHistoryKept |
| `VersionsMonotone` | RelayStoreProofs | VersionsNeverGoBack |
| `RepairAlwaysPossible` | RelayStoreProofs | RepairPossible |
| `EndpointsCover` | RelayStoreProofs | EndpointsCoverAcked |
| `PollMonotone`, `PollNotRedundant` | RelayPipelineProofs | ClientNeverGoesBack, NoRedundantAnswer, of the long poll alone |
| `DeliveryMonotone`, `DeliveryNotRedundant` | RelayPipelineProofs | the same, of the whole relay with ingest, pipeline, posts and restarts |
| `PublishesInOrder` | RelayPipelineProofs | NewerStays |
| `HealthPublished` | UpstreamHealthProofs | PublishedMatchesHealth |
| `EjectionsLast` | UpstreamHealthProofs | EjectionHolds |
| `ListsAreAddresses` | UpstreamHealthProofs | TypeOK of UpstreamHealth: clusters list, publish and select addresses only |
| `NoPermitLost` | RequestPathProofs | PermitsConserved |
| `LimitsEnforced` | RequestPathProofs | LimitsHold |
| `RetriesBounded` | RequestPathProofs | RetriesAccounted |
| `CountersRight` | RequestPathProofs | CountersAgree: pool counters and in-flight gauge agree with the semaphores |
| `LogComplete` | ProcessProofs, with the lemmas of TelemetryProofs | LogAccounted |
| `MetricsTrue` | ProcessProofs, with the lemmas of TelemetryProofs | MetricsExact |
| `NoSpanLeft` | ProcessProofs | SpansFlushed |
| `BoundAtBoot` | ConfigureProofs | BootStays |
| `LoadsWhatWasCompiled` | ConfigureProofs | the second half of RoundTrip: what is loaded is what was compiled |
| `RunsOnlyValidated` | ConfigureProofs | a running configuration was compiled and validated |
| `RequestPinned` | ConfigureProofs | a request keeps the configuration it was routed by (what OneConfiguration rests on) |
| `IdentityShown` | ConfigureProofs | IdentityProven |
| `DenialsHold` | ConfigureProofs | a request its route does not allow gets 403, no peer, nothing sent, and is logged as denied (the decisions in OneConfiguration) |
| `NumbersFit` | ConfigureProofs | the numbers of a running configuration are in the range of their types (the widths in TypeOK) |
| `PausesInTime` | ConfigureProofs | BackoffGrows |

* **Agent.** The invariant adds to the listed properties: no work, fetch or timer
  outlives the running process (`Quiet`); the update in hand is well formed and,
  past verification, is the file in `tmp` with the boot-time fields of what is
  served (`Staged`); a rejection has a deadline and the other way round
  (`RejectionShape`). `Staged` carries the argument from the check to the rename,
  two steps later.
* **Relay store.** The invariant is about what *may* survive, not about what is
  there: every possible content of the LKG metadata is at least the last
  acknowledged version (`Covered`, `AckCovered`), the current content is a
  possible one (`NowIsPossible`), and the job in hand proposes the successor of the
  snapshot's version, its history entry and then its LKG pair being durable
  before the snapshot changes (`JobShape`). Without the first a power loss would break
  `AckedIsDurable` in one step. Three more invariants rest on it: `Served` (what is
  in memory and what the endpoints read), `Settled` (what was served from a synced
  LKG bounds every content the LKG may have) and `Repairable` (without failed
  operations, metadata on disk has its history entry).
* **Long poll and delivery.** No client is ahead of the snapshot (`NotAhead`); that
  an ETag survives quoting and parsing is expanded from `Wire`. `RelayPipeline` is
  shown to take, for the long poll, only steps of the long poll or restarts, which
  never lower the version (`RelayRefinesPoll`, `RestartIInv`), so its properties carry
  over. For `NewerStays`, `Ordered` says that with one artifact in flight the
  readings published, in flight, in the channel and still to be read are in the
  order of the file's edits.
* **Clusters.** The operators of `Cluster` are shown one by one to keep a cluster
  `Good` (published agrees with health) and to end no ejection early; the rest of
  the invariant is that every reference of a request, job or monitor is to a live
  cluster and that records keep their shape. For `ListsAreAddresses`, `ListInv`
  adds that every list, among them the answer a lookup has not applied yet,
  is a sequence of addresses, whichever configuration it was asked for under. That
  `AllEndpoints` yields one for a list of any length (`AllAddresses`) is an
  induction by the least counterexample (`Least`, from the well-foundedness of
  the naturals), which also shows that the recursive function exists.
* **Requests.** The invariant says which phases hold which permits (`Holding`), and
  with it conservation and the counters. A few lemmas count: what `Count` becomes
  when one request changes its phase or a permit changes hands (`CountStep`,
  `PhaseStep`). The limits follow, since what is connecting or being sent holds a
  permit of both. The retry budget is the number of bytes the requests hold,
  counted as pairs of a request and a byte (`Charged`), so that one byte more or a
  dropped guard changes it by what it should (`ChargeOne`, `ChargeDropped`); that
  `max_attempts` bounds the attempts follows from the policy moving only under
  `can_retry` (`RetryInv`).
* **Process.** The log: what is written and queued is, with drops and failures, what
  was offered, and follows its order (`LogInv`, `Follows`). Tracing: unless two
  callers raced, one provider is built at a time and only the one in the slot ever
  has spans (`OneProvider`), so that what ended is what was exported, lost or waits
  there (`SpanCount`). Gauges: the requests in flight are counted with
  their number (`GaugeInv`). The tracker of pool keys: insertions are
  queued in the order of time, every entry still has its queued insertion
  (`KeysKept`), and a key without an entry has expired or the cap of entries at
  least as new exist (`KeysForgotten`). The last is what makes the count exact when
  keys expire after the cap had evicted others; from it follow what each of the two
  evictions leaves (`ExpiredLeave`, `OverCapLeave`) and what an insertion reports
  (`InsertExact`).

* **Configuration.** The invariant follows a configuration through its stages
  (`Delivered`: what is in the file, if its checksum fits, is what was compiled and
  validated), into the process (`Serving`) and into a request (`Pins`). Three facts
  about the operators carry it: a compiled listener has four fields and no other
  (`CompiledListeners`), so equal fingerprints mean equal listeners
  (`SafeIsFixed`); a process fixes nothing that is not a function of the fields the
  reload check compares (`PlanFixed`); and a file that passes `load` holds the bytes
  that were encoded, whatever was damaged (`LoadExact`). `Judged` ties a request to
  the decision about it (its identity is the one its certificate names, an upstream
  is set only where the route allows it, the denial mark is exact), and `Traces`
  says that peer, sent request and log entry come after that decision and keep it;
  `IdentityShown` and `DenialsHold` follow. For `NumbersFit` every conversion is
  followed from the narrowing of one number (`Narrowed`) through the record it is a
  part of to the lists of endpoints, upstreams, routes and paths (`CompiledFits`).
  `PausesInTime` rests on the same walk (`RoutesMade`): a compiled policy has at
  most ten attempts (`RetryMade`), a saturating product grows with its factor
  (`Saturates`), and the time that is left, a recursive function of the attempt,
  exists (`LeftOverExists`) and never becomes negative (`PausesFitIn`), both by an
  induction of ten steps.

TLC has also evaluated the inductive invariants of `ConfigureProofs` and
`UpstreamHealthProofs` on every reachable state of the instances of `Configure.cfg` and
`HealthSafe.cfg`, and found no violation. Those evaluations are not among the runs.

Only model-checked:

* everything under fairness (Convergence, EventuallyCurrent, EventuallyDelivered,
  AnsweredUnlessWedged, Readmitted, HealthFollowsProbes, ListFollowsDns,
  EveryoneServed, AllStop), since the prover does not do ENABLED;
* `PredicatesAgree`: `Predicates` is recursive over trees of any depth, which the
  prover does not admit (`ConfigurePredicates` keeps it apart);
* of `Configure`, `FirstRouteWins`, `HeadersAsRuled`, `SharesByWeight`, `TlsAsWritten`
  and the first half of `RoundTrip` (a rendered configuration compiles to itself):
  each compares what folds and chains of conversions compute with a reference
  definition, for every input; most would need an induction over the `SelectSeq`
  or the folds of `Lists` for every operator on the way;
* of `OneConfiguration` and `TypeOK` of `Configure`, what `RequestPinned`,
  `DenialsHold` and `NumbersFit` do not say: that the peer and the headers are
  computed from the pinned configuration, and the membership of names and variants,
  which are strings, in their types (the prover does not know that a literal is a
  string).

## Where code and documents differ, without a run of its own

Each was met while modelling; the modules follow the code, and the properties
name their exceptions.

Agent:

* `specs/runtime-config-fsm.md:152`, "Conditional fetch MUST use `If-None-Match =
  last_applied_etag`": `conditional_etag` prefers the ETag of a rejected artifact
  while its rejection lasts.
* `specs/runtime-config-fsm.md:46`, "BackoffSleeping MUST only be entered after
  TransientUnavailable" (also `:158`): failed verifications and applications back
  off too.
* `specs/runtime-config-fsm.md:192`, "Runtime MUST NOT re-apply an artifact with the
  same checksum": after a 410 the applied ETag is forgotten, and not remembered
  again while the counted unconditional fetches last.
* `specs/runtime-config-fsm.md:236`, "On Shutdown, any in-flight fetch MUST be
  canceled": once the select has taken the handle, dropping it detaches the task.
* `operations/runtime.md:41`, "Rollback is simply "publish the older artifact"":
  `apply_update` stores the state and then reads the LKG back; if that read fails,
  `last_applied_etag` stays at the previous artifact, and a rollback to it is
  skipped (`AgentLive` assumes that the file can be read back).
* `operations/metrics.md:60`, "Size of current runtime config": the gauge is set
  when an update was validated, before it is applied.

Relay:

* `specs/relay-protocol.md:46`, "versions that are strictly monotonic": a relay
  restarted after a mere process exit serves an LKG whose renames are not synced; a
  power loss after that may take it back (`VersionsNeverGoBack` speaks of versions
  served from a synced LKG).
* `specs/relay-protocol.md:123`, "MUST return 5xx only when it cannot serve any
  artifact at all": a first publish whose client disconnects between the snapshot
  and `mark_ready` leaves a relay with a snapshot that answers 503 until the next
  publish (`EventuallyCurrent` excludes it).
* `specs/relay-protocol.md:130`, "the Relay MUST notify all waiters": a publish
  between the snapshot and `notified()` wakes nobody (`handlers.rs:194`); the request sleeps until
  its deadline and the next poll repairs it.
* After a restart, or after a publish that was dropped at its last await,
  `/v1/artifacts` knows fewer versions than the history on disk.
* `pavis-ingest-file/README.md:4`, "hot-reload configuration whenever a watched file
  is modified": an edit between the first read and the watcher's first
  `last_mtime` (`watch.rs:43`) is not seen when its event is lost too.
* With `max_in_flight` above 1 (8 by default) a publish that sleeps before its
  retry is overtaken by a newer content and then replaces it. Exhausted retries
  lose a content until the next edit.

Clusters:

* `configuration/reference.md:192`, "`static`: Unit variant. IPs provided in
  `endpoints`.": a DNS answer asked for by the replaced configuration overwrites
  the list of an upstream that is static now (`resolver.rs:75`).
* `configuration/reference.md:391`, "periodic probes mark endpoints
  healthy/unhealthy": two reloads between two ticks may put the new state at the
  address the monitor remembers; it then keeps probing the old cluster
  (`health.rs:48`; `HealthFollowsProbes` excludes it, and its run has one reload).
* `configuration/reference.md:383`, "ejects endpoints after consecutive failures":
  one outcome per request is recorded, for the last endpoint; failures that are
  retried elsewhere do not count (`io.rs:751`).
* `HealthState::update_endpoints` loses the status of an address that is listed
  twice (`EjectionHolds` excludes it).
* With `sni_mode=auto` and DNS endpoints a probe addresses the IP where a request
  uses the name (`TlsAsWritten` speaks of names the document gives), and a probe takes the
  first certificate of a CA file and the system's roots.

Requests:

* A failure on a reused connection is retried without asking the policy, also a
  POST (`tests/suites/pavis/66_resilience_retry_idempotency.sh:6`), and a read
  timeout is retried with a streaming body
  (`68_resilience_retry_body_buffer.sh:6`).
* A retried status passes `next_attempt` twice, in `response_filter` and in
  `error_while_proxy`, so that of three attempts two are made
  (`65_resilience_retry_status_codes.sh:6`).
* `tests/suites/DESIGN_PAVIS.md:916`, "504 Gateway Timeout when global budget is
  exhausted": a deadline met by `can_retry` returns the original error.
* The pool's gauges are set after the counter changed, so two threads may set them in
  the wrong order; the counters themselves are right (`CountersRight`).

Configuration:

* `configuration/reference.md:671`, "`rewrite` cannot be used if the `matcher` is
  `regex`": a rewrite of the host can. `:672`, `method` and `methods` "are mutually
  exclusive": `methods` wins. `:673`, `per_try` "must be `<=` the overall route
  timeout": it is compared after its truncation to 32 bits of milliseconds.
* `features.routing.advanced_matchers` and `pattern_max_bytes`
  (`configuration/reference.md:628`, `:634`) are read only by `convert/predicates.rs`, which the
  serve path does not use. There `Absent` becomes `Present`, and
  `normalize` only removes adjacent duplicates ("Deduplicate identical
  predicates", `pavis-core/src/runtime/matcher.rs:13`); `PredicatesAgree` states
  what does hold.
* `regex_validator.rs:34`, "This is the ONLY place where regex syntax and
  compilation limits are enforced": the codec
  (`semantic_validate.rs:74`) and `validate_runtime` compile patterns too.
* An upstream without endpoints passes validation and fails when it is loaded.
* `tests/suites/DESIGN_PAVIS.md:391`, "longest prefix wins", `:394`, "deterministic
  tie-breaking based on prefix specificity", and
  `tests/suites/pavis/53_routing_tie_breaking.sh:60`, "More Specific Wins": of
  overlapping prefixes the one written first wins, however short
  (`FirstRouteWins`). The test writes the longer one first and cannot tell.

Telemetry:

* At exactly its cap the pool-key tracker reports the cap plus one, and its queue
  of evictions is not bounded within the ttl (`MetricsExact` states both sides of
  the cap).
* The tracing service and the agent's callback may both find the slot empty; the
  provider that loses stays installed as a layer or is not flushed
  (`SpansFlushed` excludes it). Endpoint and sampling are those of the first
  configuration that enables tracing.
* The flush comes with the signal, while requests still drain: their spans end at a
  provider that is shut down and are lost (`tracing.rs:532`; `lost` counts them, and
  `SpansFlushed` promises only the spans that end before). A flush that takes longer
  than 5 s is given up.
* `operations/metrics.md:340` says of `pavis_telemetry_access_log_dropped_total` "No
  runtime call-site (not currently incremented)": a full channel increments it
  (`access_log.rs:226`), as `LogAccounted` needs. `:356` says "No runtime call-site" of
  `pavis_telemetry_tracing_spans_created_total`: `SpanMetricsLayer` increments it, as
  `MetricsExact` states.
* A line whose flush failed stays in the log's `BufWriter` and may be written with a
  later one (`access_log.rs:87`); `LogAccounted` counts it as reported.
* Entries in the access log's channel when the worker stops are lost
  (`LogAccounted` speaks of a living worker), and a capacity of 0 ends the process.

## Not modelled

* `ShutdownCoordinator` (`pavis/src/shutdown.rs`): nothing uses it. `Process` models
  the signal the services react to.
* Pingora's server, connection reuse and HTTP parsing: external. `RequestPath` has
  its retry loop and `upstream_peer` calls as environment.
* Parsing of YAML, JSON and TOML text, the rkyv encoding, PEM and SHA-256: external
  libraries, modelled by what their callers tell apart.
* The subscriber's global filter: with log level `warn` or `error` it disables the
  request's span (`main.rs:59`), and there is nothing to count or to flush.
* Wording of errors and logs; metrics that only count calls; the values of the
  agent's back-off delays, probe intervals and jitter: nothing the properties tell
  apart depends on them.
* `pavctl` (one-shot commands over the codec and the PVS writer), the codec and
  ingest traits, test and benchmark kits, `publish_auto`, test-only helpers.
