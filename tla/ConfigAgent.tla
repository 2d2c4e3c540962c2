---------------------------- MODULE ConfigAgent ----------------------------
(***************************************************************************)
(* The configuration agent of the Pavis runtime: the fetch/verify/apply    *)
(* state machine (agent/fsm.rs), the driver that performs its effects      *)
(* (agent/driver.rs), the last-known-good file it keeps (agent/lkg.rs) and *)
(* the RuntimeState that the proxy threads read (state.rs).                *)
(*                                                                         *)
(* An artifact stands for its bytes and for the checksum of its bytes: the *)
(* ETag of artifact a is a.  The relay is the environment: it holds one    *)
(* current artifact and answers a long poll the way get_config does.       *)
(*                                                                         *)
(* last_rejected_until is kept as what the code reads of it: unset, still  *)
(* ahead, or passed.                                                       *)
(***************************************************************************)
EXTENDS Naturals

CONSTANTS
    Artifact,          \* the .pvs artifacts, each standing for its checksum
    Version,           \* values of the x-config-version header
    None,              \* Option::None
    WellFormed,        \* the artifacts pavis_pvs::verify accepts
    Fingerprint,       \* artifact -> its boot-time fields (listeners, admin, ...)
    MaxAttempt,        \* u32::MAX, where backoff_attempt saturates
    MaxPublishes,      \* bound: publishes of the relay in one behaviour
    MaxFaults,         \* bound: failures of network, disk, environment, process
    LkgReadbackFails   \* may re-reading the LKG file just renamed fail?

ASSUME AgentAssumption ==
    /\ None \notin Artifact
    /\ None \notin Version
    /\ WellFormed \subseteq Artifact
    /\ WellFormed # {}
    /\ MaxAttempt \in Nat \ {0}
    /\ MaxPublishes \in Nat
    /\ MaxFaults \in Nat
    /\ LkgReadbackFails \in BOOLEAN

VARIABLES
    proc,      \* "down", "loaded" (main has run), "running" (run_loop), "stopped"
    boot,      \* artifact the boot-time services were built from
    served,    \* RuntimeStateHandle: config and config_version
    lkg,       \* content of lkg_path
    tmp,       \* content of lkg_path with extension tmp.pvs
    fsm,       \* Fsm::state
    ctx,       \* Fsm::ctx
    update,    \* the data of Verifying and Applying
    job,       \* where in verify_update or apply_update the driver is
    fetch,     \* pending_fetch and the request it stands for
    timer,     \* pending_timer
    relay,     \* the relay's current artifact and version
    publishes, \* publishes so far
    faults     \* failures so far

agentVars == <<fsm, ctx, update, job, fetch, timer>>
diskVars == <<lkg, tmp>>
vars == <<proc, boot, served, diskVars, agentVars, relay, publishes, faults>>

OptArtifact == Artifact \cup {None}
OptVersion == Version \cup {None}
Context == [applied : OptArtifact, rejected : OptArtifact,
            until : {"none", "pending", "passed"},
            attempt : 0..MaxAttempt, observed : OptVersion, force : 0..2]
FsmState == {"Idle", "Fetching", "Verifying", "Applying", "BackoffSleeping", "Stopped"}
Update == [etag : Artifact, version : OptVersion, bytes : Artifact]
Fetch == [at : {"none", "sent", "parked"}, cond : OptArtifact]

\* Every variable has its type.
TypeOK ==
    /\ proc \in {"down", "loaded", "running", "stopped"}
    /\ boot \in Artifact
    /\ served \in [art : Artifact, version : OptVersion]
    /\ lkg \in Artifact
    /\ tmp \in OptArtifact
    /\ fsm \in FsmState
    /\ ctx \in Context
    /\ update \in Update \cup {None}
    /\ job \in {"none", "stage", "check", "load", "rename", "store"}
    /\ fetch \in Fetch
    /\ timer \in {"none", "armed"}
    /\ relay \in [art : Artifact, version : OptVersion]
    /\ publishes \in 0..MaxPublishes
    /\ faults \in 0..MaxFaults

-----------------------------------------------------------------------------
(* Context: the memory of the state machine.                               *)

NewContext == [applied |-> None, rejected |-> None, until |-> "none",
               attempt |-> 0, observed |-> None, force |-> 0]

\* Bug: the rejection outlives its deadline.
KeepExpired(c) == c

ClearRejectedIfExpired(c) ==
    IF c.until = "passed" THEN [c EXCEPT !.rejected = None, !.until = "none"] ELSE c

\* conditional_etag: the ETag the next request carries ...
ConditionalEtag(c) ==
    LET d == ClearRejectedIfExpired(c)
    IN  IF d.force > 0 THEN None
        ELSE IF d.rejected # None THEN d.rejected ELSE d.applied

\* ... and the context it leaves behind.
AfterConditionalEtag(c) ==
    LET d == ClearRejectedIfExpired(c)
    IN  IF d.force > 0 THEN [d EXCEPT !.force = @ - 1] ELSE d

SetRejected(c, etag) == [c EXCEPT !.rejected = etag, !.until = "pending"]

\* Bug: a resync keeps last_applied_etag.
ResyncKeepsApplied(c) == [c EXCEPT !.rejected = None, !.until = "none", !.force = 2]

ClearConditionalState(c) ==
    [c EXCEPT !.applied = None, !.rejected = None, !.until = "none", !.force = 2]

BumpAttempt(c) ==
    [c EXCEPT !.attempt = IF @ = MaxAttempt THEN @ ELSE @ + 1]

ResetAttempt(c) == [c EXCEPT !.attempt = 0]

-----------------------------------------------------------------------------
(* The driver's effects.                                                   *)

NoFetch == [at |-> "none", cond |-> None]

\* Fetch effects are dropped while pending_fetch holds a task.
StartFetch(pending, etag) ==
    IF pending.at = "none"
    THEN [at |-> "sent", cond |-> etag]
    ELSE pending

\* Back to Fetching with the request that context c asks for.
Refetch(c, pending) ==
    /\ fsm' = "Fetching"
    /\ ctx' = AfterConditionalEtag(c)
    /\ fetch' = StartFetch(pending, ConditionalEtag(c))

\* Bug: the failure is recorded and no timer is armed.
BackoffWithoutTimer(c) ==
    /\ fsm' = "BackoffSleeping"
    /\ ctx' = BumpAttempt(c)
    /\ timer' = timer

\* ScheduleTimer after a failure.
EnterBackoff(c) ==
    /\ fsm' = "BackoffSleeping"
    /\ ctx' = BumpAttempt(c)
    /\ timer' = "armed"

\* VerifyFail and ApplyFail of the update in hand.
RejectUpdate ==
    /\ EnterBackoff(SetRejected(ctx, update.etag))
    /\ update' = None
    /\ job' = "none"

Fault == faults < MaxFaults /\ faults' = faults + 1
NoFault == faults' = faults

Init ==
    /\ proc = "down"
    /\ lkg \in WellFormed
    /\ boot = lkg
    /\ served = [art |-> lkg, version |-> None]
    /\ tmp = None
    /\ fsm = "Idle"
    /\ ctx = NewContext
    /\ update = None
    /\ job = "none"
    /\ fetch = NoFetch
    /\ timer = "none"
    /\ relay \in [art : Artifact, version : OptVersion]
    /\ publishes = 0
    /\ faults = 0

-----------------------------------------------------------------------------
(* Process life: main, the worker's bootstrap, shutdown, crash.            *)

\* BootstrapPlan::build: listeners, admin, metrics, access log and the initial
\* RuntimeState all come from the file main has loaded.
BuildServices ==
    /\ boot' = lkg
    /\ served' = [art |-> lkg, version |-> None]

\* ConfigAgent::new: a fresh state machine, nothing pending.
NewAgent ==
    /\ fsm' = "Idle" /\ ctx' = NewContext
    /\ update' = None /\ job' = "none"
    /\ fetch' = NoFetch /\ timer' = "none"

\* main: the configured path is also the agent's lkg_path.
Boot ==
    /\ proc \in {"down", "stopped"}
    /\ proc' = "loaded"
    /\ BuildServices
    /\ NewAgent
    /\ UNCHANGED <<diskVars, relay, publishes, faults>>

\* The file is read, verified and loaded again; the version is the one main set,
\* not the one of the file beside the LKG.
bootstrap_from_lkg ==
    /\ served' = [art |-> lkg, version |-> served.version]
    /\ ctx' = [ctx EXCEPT !.applied = lkg]

\* The Start event of a fresh machine: the first fetch is unconditional.
OnStart ==
    /\ fsm' = "Fetching"
    /\ fetch' = StartFetch(fetch, None)

\* start_service: a bootstrap that fails is only logged.
Bootstrap ==
    /\ proc = "loaded"
    /\ proc' = "running"
    /\ \/ NoFault /\ bootstrap_from_lkg
       \/ Fault /\ UNCHANGED <<served, ctx>>
    /\ OnStart
    /\ UNCHANGED <<boot, diskVars, update, job, timer, relay, publishes>>

\* The select of run_loop sees the shutdown signal only between two events.
\* The fetch in flight is aborted, or only detached once the select has taken
\* its handle; its result is lost either way.
Shutdown ==
    /\ proc = "running" /\ job = "none"
    /\ Fault
    /\ proc' = "stopped"
    /\ fsm' = "Stopped"
    /\ fetch' = NoFetch
    /\ timer' = "none"
    /\ UNCHANGED <<boot, served, diskVars, ctx, update, job, relay, publishes>>

Crash ==
    /\ proc \in {"loaded", "running"}
    /\ Fault
    /\ proc' = "down"
    /\ NewAgent
    /\ UNCHANGED <<boot, served, diskVars, relay, publishes>>

-----------------------------------------------------------------------------
(* The relay, as the agent sees it.                                        *)

RelayPublish(a, v) ==
    /\ publishes < MaxPublishes
    /\ publishes' = publishes + 1
    /\ relay' = [art |-> a, version |-> v]
    /\ UNCHANGED <<proc, boot, served, diskVars, agentVars, faults>>

\* get_config finds the client's ETag current and parks the request.
ParkRequest ==
    /\ fetch.at = "sent"
    /\ fetch.cond = relay.art
    /\ fetch' = [fetch EXCEPT !.at = "parked"]
    /\ UNCHANGED <<proc, boot, served, diskVars, fsm, ctx, update, job, timer,
                   relay, publishes, faults>>

-----------------------------------------------------------------------------
(* Response events.  Each consumes the pending fetch.                      *)

\* Response::NewArtifact: skip an artifact under rejection, verify any other.
OnNewArtifact(bytes) ==
    LET c == ClearRejectedIfExpired(ctx)
    IN  IF c.rejected = relay.art
        THEN /\ Refetch(ResetAttempt(c), NoFetch)
             /\ UNCHANGED <<update, job>>
        ELSE /\ fsm' = "Verifying"
             /\ ctx' = c
             /\ update' = [etag |-> relay.art, version |-> relay.version, bytes |-> bytes]
             /\ job' = "stage"
             /\ fetch' = NoFetch

\* 200: the relay's current artifact differs from the client's ETag, either
\* when the request arrives or when a publish wakes it.  Bytes that do not
\* match the ETag are a fault.
RespondArtifact(bytes) ==
    /\ fsm = "Fetching" /\ fetch.at # "none"
    /\ fetch.cond # relay.art
    /\ IF bytes = relay.art THEN NoFault ELSE Fault
    /\ OnNewArtifact(bytes)
    /\ UNCHANGED <<proc, boot, served, diskVars, timer, relay, publishes>>

\* 204 when the long poll times out.  The handler does not look at the current
\* artifact again, so the answer can come after a publish.
RespondNoUpdate ==
    /\ fsm = "Fetching" /\ fetch.at = "parked"
    /\ Refetch(ResetAttempt(ClearRejectedIfExpired(ctx)), NoFetch)
    /\ UNCHANGED <<proc, boot, served, diskVars, update, job, timer,
                   relay, publishes, faults>>

\* 410: the fetch that follows does not use up a forced unconditional one.
RespondNeedResync ==
    /\ fsm = "Fetching" /\ fetch.at # "none"
    /\ Fault
    /\ ctx' = ResetAttempt(ClearConditionalState(ClearRejectedIfExpired(ctx)))
    /\ fetch' = StartFetch(NoFetch, None)
    /\ UNCHANGED <<proc, boot, served, diskVars, fsm, update, job, timer,
                   relay, publishes>>

\* 5xx, any other status, a network error, a bad ETag header, a failed task.
RespondTransient ==
    /\ fsm = "Fetching" /\ fetch.at # "none"
    /\ Fault
    /\ EnterBackoff(ClearRejectedIfExpired(ctx))
    /\ fetch' = NoFetch
    /\ UNCHANGED <<proc, boot, served, diskVars, update, job, relay, publishes>>

\* The backoff timer fires.
TimerFired ==
    /\ fsm = "BackoffSleeping" /\ timer = "armed"
    /\ timer' = "none"
    /\ Refetch(ClearRejectedIfExpired(ctx), fetch)
    /\ UNCHANGED <<proc, boot, served, diskVars, update, job,
                   relay, publishes, faults>>

\* REJECT_TTL runs out.
RejectTtlElapses ==
    /\ proc = "running"
    /\ ctx.until = "pending"
    /\ ctx' = [ctx EXCEPT !.until = "passed"]
    /\ UNCHANGED <<proc, boot, served, diskVars, fsm, update, job, fetch, timer,
                   relay, publishes, faults>>

-----------------------------------------------------------------------------
(* verify_update.                                                          *)

\* A temporary file, synced and renamed: the staging file is the old or the new
\* one, whatever fails.
write_atomic(bytes) == tmp' = bytes

\* Bug: the bytes are staged without pavis_pvs::verify.
StageUnverified ==
    /\ job = "stage"
    /\ NoFault
    /\ write_atomic(update.bytes)
    /\ job' = "check"
    /\ UNCHANGED <<proc, boot, served, lkg, fsm, ctx, update, timer, fetch,
                   relay, publishes>>

\* Checksum against ETag, pavis_pvs::verify, then the staging file.
VerifyStage ==
    /\ job = "stage"
    /\ \/ /\ update.bytes # update.etag \/ update.bytes \notin WellFormed
          /\ NoFault
          /\ RejectUpdate
          /\ UNCHANGED tmp
       \/ /\ update.bytes = update.etag /\ update.bytes \in WellFormed
          /\ \/ /\ NoFault
                /\ write_atomic(update.bytes)
                /\ job' = "check"
                /\ UNCHANGED <<fsm, ctx, update, timer>>
             \/ /\ Fault
                /\ RejectUpdate
                /\ UNCHANGED tmp
    /\ UNCHANGED <<proc, boot, served, lkg, fetch, relay, publishes>>

\* VerifyOk: discard what is already applied, apply the rest.
OnVerifyOk ==
    LET c == ClearRejectedIfExpired(ctx)
    IN  IF c.applied = update.etag
        THEN /\ Refetch(ResetAttempt(c), fetch)
             /\ tmp' = None
             /\ update' = None
             /\ job' = "none"
        ELSE /\ fsm' = "Applying"
             /\ ctx' = c
             /\ job' = "load"
             /\ UNCHANGED <<update, tmp, fetch>>

\* ensure_runtime_reload_safe.
ReloadSafe(current, next) == Fingerprint[current] = Fingerprint[next]

\* Load the staging file, reload boundary against the current state, runtime
\* environment, trial construction of the RuntimeState.  The reload boundary
\* and the trial construction leave the staging file behind when they fail.
VerifyCheck ==
    /\ job = "check"
    /\ \/ /\ Fault
          /\ RejectUpdate
          /\ tmp' \in {None, tmp}
          /\ UNCHANGED fetch
       \/ /\ NoFault
          /\ ~ReloadSafe(served.art, tmp)
          /\ RejectUpdate
          /\ UNCHANGED <<tmp, fetch>>
       \/ /\ NoFault
          /\ ReloadSafe(served.art, tmp)
          /\ OnVerifyOk
          /\ UNCHANGED timer
    /\ UNCHANGED <<proc, boot, served, lkg, relay, publishes>>

-----------------------------------------------------------------------------
(* apply_update.                                                           *)

\* Load the staging file again and build the new state from it.
ApplyLoad ==
    /\ job = "load"
    /\ \/ /\ NoFault
          /\ job' = "rename"
          /\ update' = [update EXCEPT !.bytes = tmp]
          /\ UNCHANGED <<tmp, fsm, ctx, timer>>
       \/ /\ Fault
          /\ RejectUpdate
          /\ tmp' \in {None, tmp}
    /\ UNCHANGED <<proc, boot, served, lkg, fetch, relay, publishes>>

\* Rename the staging file over the LKG.
ApplyRename ==
    /\ job = "rename"
    /\ \/ /\ NoFault
          /\ lkg' = tmp
          /\ tmp' = None
          /\ job' = "store"
          /\ UNCHANGED <<fsm, ctx, update, timer>>
       \/ /\ Fault
          /\ RejectUpdate
          /\ UNCHANGED <<lkg, tmp>>
    /\ UNCHANGED <<proc, boot, served, fetch, relay, publishes>>

\* ApplyOk: the ETag is remembered only outside forced unconditional mode.
SetApplied(c, u) ==
    [c EXCEPT !.applied = IF c.force = 0 THEN u.etag ELSE @,
              !.rejected = None, !.until = "none", !.attempt = 0, !.observed = u.version]

OnApplyOk ==
    /\ Refetch(SetApplied(ctx, update), fetch)
    /\ update' = None
    /\ job' = "none"

\* Bug: the new state is published before the rename, so this step only
\* reports success.
StoreNothing ==
    /\ job = "store"
    /\ NoFault
    /\ OnApplyOk
    /\ UNCHANGED <<proc, boot, served, diskVars, timer, relay, publishes>>

\* Publish the new state, then re-read the LKG for the update callback.  A
\* failure of that read is reported as a failed apply of a served artifact.
ApplyStore ==
    /\ job = "store"
    /\ served' = [art |-> update.bytes, version |-> update.version]
    /\ \/ /\ NoFault
          /\ OnApplyOk
          /\ UNCHANGED timer
       \/ /\ LkgReadbackFails
          /\ Fault
          /\ RejectUpdate
          /\ UNCHANGED fetch
    /\ UNCHANGED <<proc, boot, diskVars, relay, publishes>>

-----------------------------------------------------------------------------
Relay ==
    \/ \E a \in Artifact, v \in OptVersion : RelayPublish(a, v)
    \/ ParkRequest

Respond ==
    \/ \E bytes \in Artifact : RespondArtifact(bytes)
    \/ RespondNoUpdate
    \/ RespondNeedResync
    \/ RespondTransient

Work == VerifyStage \/ VerifyCheck \/ ApplyLoad \/ ApplyRename \/ ApplyStore

Next ==
    \/ Boot \/ Bootstrap \/ Shutdown \/ Crash
    \/ Relay \/ Respond
    \/ TimerFired \/ RejectTtlElapses
    \/ Work

Spec == Init /\ [][Next]_vars

\* What the scheduler and the environment owe the agent: the supervisor
\* restarts the process, spawned tasks and timers make progress, the relay
\* answers or times out every request, and time passes.
Fairness ==
    /\ WF_vars(Boot) /\ WF_vars(Bootstrap)
    /\ WF_vars(ParkRequest)
    /\ WF_vars(RespondArtifact(relay.art))
    /\ WF_vars(RespondNoUpdate)
    /\ WF_vars(TimerFired) /\ WF_vars(RejectTtlElapses)
    /\ WF_vars(Work)

FairSpec == Spec /\ Fairness

-----------------------------------------------------------------------------
(* Properties.                                                             *)

Up == proc \in {"loaded", "running"}

\* The driver never wedges: run_loop's pending_fetch, pending_timer and inline
\* work are exactly the ones the state of the machine calls for, so whatever
\* the order of responses, timers and failures, one of them will produce the
\* next event, and there is never a second fetch in flight.
DriverInSync ==
    proc = "running" =>
        /\ (fsm = "Fetching") <=> (fetch.at # "none")
        /\ (fsm = "BackoffSleeping") <=> (timer = "armed")
        /\ (fsm = "Verifying") <=> (job \in {"stage", "check"})
        /\ (fsm = "Applying") <=> (job \in {"load", "rename", "store"})
        /\ fsm \notin {"Idle", "Stopped"}

\* The LKG file always holds an intact artifact, and while the process is up it
\* is the artifact being served, except between the rename and the store of
\* apply_update, where it is the verified update: a crash at any point restarts
\* on the old or the new configuration.
LkgServed ==
    /\ lkg \in WellFormed
    /\ Up => \/ lkg = served.art
             \/ job = "store" /\ lkg = update.etag

\* The boot-time services (listeners, admin, metrics, access log) are never
\* out of step with the configuration being served, even though
\* bootstrap_from_lkg swaps the state without ensure_runtime_reload_safe.
BootFrozen == Up => Fingerprint[served.art] = Fingerprint[boot]

\* An artifact under rejection is not verified or applied again before
\* REJECT_TTL clears it, whatever the relay answers in between.
RejectedNotRetried ==
    fsm \in {"Verifying", "Applying"} => update.etag # ctx.rejected

\* When the agent remembers an applied ETag it is the artifact being served:
\* the deduplication of VerifyOk never discards an update that would have
\* changed the served configuration.
AppliedIsServed ==
    proc = "running" => ctx.applied \in {None, served.art}

Acceptable(a) == a \in WellFormed /\ Fingerprint[a] = Fingerprint[boot]

\* Once the relay stops publishing and failures stop, the runtime ends up
\* serving the relay's artifact if it can be accepted at all: rejections
\* expire, missed wake-ups are repaired by the next poll, rollbacks are taken.
Convergence == <>[](Acceptable(relay.art) => served.art = relay.art)

\* The agent implements an atomic reload: across fetches, failures, crashes
\* and restarts, the LKG file is the durable configuration, and the
\* RuntimeState (after a crash: the one the restart will load) the live one.
Reload == INSTANCE AtomicReload WITH
              durable <- lkg, live <- IF Up THEN served.art ELSE lkg

ImplementsAtomicReload == Reload!Spec

=============================================================================
