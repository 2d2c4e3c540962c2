---------------------------- MODULE ProcessProofs ----------------------------
(***************************************************************************)
(* The services of one process, for any number of requests, entries, pool  *)
(* keys, policies and updates, and any capacity of channel and tracker.    *)
(***************************************************************************)
EXTENDS Process, TelemetryProofs

\* The provers get more time than by default: the contexts are large.
USE SMTT(15), ZenonT(30)

-----------------------------------------------------------------------------
(* Configurations and requests.                                            *)

\* A request that was routed keeps its configuration.
Contexts ==
    /\ boot \in Boot /\ live.config \in Boot \cup Updates
    /\ \/ agent = NoUpdate
       \/ /\ agent = [at |-> agent.at, version |-> agent.version, config |-> agent.config]
          /\ agent.at \in {"verified", "stored", "tracing"} /\ agent.config \in Updates
    /\ req = [r \in Request |-> req[r]]

\* No request is in flight at boot.
LEMMA InitContexts == ProcessInit => Contexts
BY DEF ProcessInit, Contexts

\* Every step leaves a request the configuration it was given.
LEMMA NextContexts == Contexts /\ [ProcessNext]_allVars => Contexts'
<1> SUFFICES ASSUME Contexts, [ProcessNext]_allVars PROVE Contexts'
    OBVIOUS
<1>0. CASE UNCHANGED <<boot, live, agent, req>>
    BY <1>0 DEF Contexts
<1>1. ASSUME NEW r \in Request, NEW p, Arrive(r, p) PROVE Contexts'
    <2>1. PICK x : req' = [req EXCEPT ![r] = x]
        BY <1>1, ZenonT(30) DEF Arrive
    <2> QED BY <1>1, <2>1 DEF Arrive, Contexts
<1>2. ASSUME NEW r \in Request, Logging(r) PROVE Contexts'
    BY <1>2 DEF Logging, Contexts
<1>3. ASSUME NEW r \in Request, NEW k, Attempt(r, k) PROVE Contexts'
    BY <1>0, <1>3 DEF Attempt
<1>4. ASSUME NEW c \in Updates, Verify(c) \/ VerifyRefuses(c) PROVE Contexts'
    <2>1. CASE Verify(c)
        BY <1>4, <2>1 DEF Verify, Contexts
    <2>2. CASE VerifyRefuses(c)
        BY <1>0, <2>2 DEF VerifyRefuses, record_validation_failure, Recorded
    <2> QED BY <1>4, <2>1, <2>2
<1>5. ASSUME NEW err, VerifyFails(err) PROVE Contexts'
    BY <1>0, <1>5 DEF VerifyFails, record_validation_failure, Recorded
<1>6. CASE StageFails
    BY <1>0, <1>6 DEF StageFails, record_apply_failure, Recorded
<1>7. CASE Store
    <2>1. agent.config \in Updates
        BY <1>7 DEF Store, Contexts, NoUpdate
    <2>2. live'.config = agent.config /\ agent' = [agent EXCEPT !.at = "stored"] /\ UNCHANGED <<boot, req>>
        BY <1>7 DEF Store
    <2>3. agent' = [at |-> "stored", version |-> agent.version, config |-> agent.config]
        BY <1>7, <2>2 DEF Store, Contexts, NoUpdate
    <2> QED BY <2>1, <2>2, <2>3, ZenonT(30) DEF Contexts
<1>8. CASE LoadFails \/ RenameFails \/ Applied
    BY <1>8 DEF LoadFails, RenameFails, Applied, record_validation_failure, record_apply_failure, Recorded, Contexts
<1>9. CASE Callback
    BY <1>9 DEF Callback, Contexts, NoUpdate
<1>10. CASE AgentTracing \/ LogService \/ LogFails \/ TracingService \/ BatchExport \/ AdminService
            \/ MetricsService \/ Clients \/ Time \/ Shutdown \/ UNCHANGED allVars
    BY <1>0, <1>10 DEF AgentTracing, LogService, LogFails, TracingService, BatchExport, AdminService,
                       MetricsService, Clients, Time, Shutdown, allVars, processVars
<1> QED BY <1>1, <1>2, <1>3, <1>4, <1>5, <1>6, <1>7, <1>8, <1>9, <1>10, ZenonT(30) DEF ProcessNext
-----------------------------------------------------------------------------
(* Tracing.                                                                *)

Tracer == Providers \cup {NoProvider}

\* A caller of maybe_init_tracing that is not idle has built a provider; the
\* layer is installed before the slot is set.
TraceTypes ==
    /\ slot \in Tracer /\ layer \in Tracer /\ shut \in Tracer
    /\ init \in [Callers -> [at : {"idle", "built", "installed"}, provider : Tracer]]
    /\ \A c \in Callers : init[c] = Idle \/ (init[c].at # "idle" /\ init[c].provider \in Providers)
    /\ batch \in [Providers -> Nat]
    /\ raced \in {"yes", "no"}
    /\ \A r \in Request : req[r].at = "routed" => req[r].span \in Tracer
    /\ slot # NoProvider => layer # NoProvider
    /\ \A c \in Callers : init[c].at = "installed" => layer # NoProvider

\* Unless two callers raced, one provider is built at a time, and the one in the
\* slot is the only one that receives spans.
OneBuilder ==
    /\ \A c, d \in Callers : c # d => init[c] = Idle \/ init[d] = Idle
    /\ \A c \in Callers : init[c].at = "installed" => layer = init[c].provider
    /\ slot # NoProvider => layer = slot /\ \A c \in Callers : init[c] = Idle
    /\ \A r \in Request : req[r].at = "routed" => req[r].span \in {NoProvider, slot}
OneReceiver ==
    /\ \A q \in Providers : q # slot => batch[q] = 0
    /\ shut # NoProvider => shut = slot /\ batch[slot] = 0
OneProvider == raced = "no" => OneBuilder /\ OneReceiver

TraceInv == TraceTypes /\ OneProvider /\ created = started

\* An idle caller has installed nothing.
LEMMA IdleAt == Idle.at = "idle" /\ Idle.at # "installed" /\ Idle.at # "built"
BY DEF Idle

\* A provider is somebody's.
LEMMA ProviderReal == NoProvider \notin Providers
<1> SUFFICES ASSUME NEW x \in Providers PROVE x # NoProvider
    OBVIOUS
<1>1. PICK c \in Callers, p \in TracingPolicies : x = [by |-> c, endpoint |-> p.endpoint, sampling |-> p.sampling]
    BY DEF Providers
<1>2. x.by = c /\ c # "nobody"
    BY <1>1 DEF Callers
<1>3. NoProvider.by = "nobody"
    BY DEF NoProvider
<1> QED BY <1>2, <1>3

\* What a step does for tracing.
TraceFrame ==
    \/ UNCHANGED <<slot, layer, init, shut, batch, created, started, ended, sent, lost, raced, req>>
    \/ \E r \in Request : \E p : Arrive(r, p)
    \/ \E r \in Request : Logging(r)
    \/ \E c \in Callers : /\ UNCHANGED req
                          /\ \/ \E p \in TracingPolicies : CheckSlot(c, p)
                             \/ InstallLayer(c) \/ SetSlot(c)
    \/ UNCHANGED req /\ (FlushTraces \/ \E p \in Providers : Export(p))

\* Which steps touch the tracer.
LEMMA TraceFrames == Contexts /\ [ProcessNext]_allVars => TraceFrame
<1> SUFFICES ASSUME Contexts, [ProcessNext]_allVars PROVE TraceFrame
    OBVIOUS
<1>0. CASE UNCHANGED <<tracingVars, req>>
    BY <1>0 DEF TraceFrame, tracingVars
<1>1. ASSUME NEW r \in Request, (\E p : Arrive(r, p)) \/ Logging(r) PROVE TraceFrame
    BY <1>1 DEF TraceFrame
<1>3. ASSUME NEW r \in Request, NEW k, Attempt(r, k) PROVE UNCHANGED <<tracingVars, req>>
    BY <1>3 DEF Attempt
<1>4. ASSUME NEW c \in Updates, Verify(c) \/ VerifyRefuses(c) PROVE UNCHANGED <<tracingVars, req>>
    BY <1>4 DEF Verify, VerifyRefuses, record_validation_failure, Recorded
<1>5. ASSUME NEW err, VerifyFails(err) PROVE UNCHANGED <<tracingVars, req>>
    BY <1>5 DEF VerifyFails, record_validation_failure, Recorded
<1>6. CASE StageFails \/ Store \/ LoadFails \/ RenameFails \/ Applied
    <2>1. UNCHANGED <<tracingVars, req>>
        BY <1>6 DEF StageFails, Store, LoadFails, RenameFails, Applied, record_validation_failure,
                    record_apply_failure, Recorded
    <2> QED BY <1>0, <2>1
<1>7. CASE Callback
    <2>1. agent.config.tracing \in TracingPolicies /\ CheckSlot("agent", agent.config.tracing) /\ UNCHANGED req
        BY <1>7, ProcessAssumption DEF ProcessAssumption, Callback, Contexts, NoUpdate
    <2> QED BY <2>1 DEF TraceFrame, Callers
<1>8. CASE TracingService
    <2>1. boot.tracing \in TracingPolicies /\ UNCHANGED req
        BY <1>8, ProcessAssumption DEF ProcessAssumption, TracingService, Contexts, processVars
    <2>2. CASE StartTracing(boot.tracing) \/ InitTracing("service") \/ FlushTraces
        BY <2>1, <2>2 DEF TraceFrame, StartTracing, InitTracing, Callers
    <2>3. CASE Started
        BY <2>1, <2>3 DEF TraceFrame, Started, UnchangedSpans
    <2> QED BY <1>8, <2>2, <2>3 DEF TracingService
<1>9. CASE AgentTracing \/ BatchExport
    BY <1>9 DEF TraceFrame, AgentTracing, InitTracing, BatchExport, Callers, processVars
<1>10. CASE LogService \/ LogFails \/ AdminService \/ MetricsService \/ Clients \/ Time \/ Shutdown \/ UNCHANGED allVars
    <2>1. UNCHANGED <<tracingVars, req>>
        BY <1>10 DEF LogService, LogFails, AdminService, MetricsService, Clients, Time, Shutdown, allVars, processVars
    <2> QED BY <1>0, <2>1
<1> QED BY <1>0, <1>1, <1>3, <1>4, <1>5, <1>6, <1>7, <1>8, <1>9, <1>10, ZenonT(30) DEF ProcessNext

\* No tracer is built at boot.
LEMMA InitTraceInv == ProcessInit => TraceInv
<1> SUFFICES ASSUME ProcessInit PROVE TraceInv
    OBVIOUS
<1>1. /\ slot = NoProvider /\ layer = NoProvider /\ shut = NoProvider /\ init = [c \in Callers |-> Idle]
      /\ batch = [p \in Providers |-> 0] /\ created = 0 /\ started = 0 /\ raced = "no"
      /\ \A r \in Request : req[r].at # "routed"
    BY DEF ProcessInit, TracingInit, NoRequest
<1> QED BY <1>1 DEF TraceInv, TraceTypes, OneProvider, OneBuilder, OneReceiver, Tracer, Idle

\* maybe_init_tracing, first step.
LEMMA CheckSlotInv ==
    ASSUME TraceInv, NEW c \in Callers, NEW p \in TracingPolicies, CheckSlot(c, p), UNCHANGED req
    PROVE  TraceInv'
<1> DEFINE made == [by |-> c, endpoint |-> p.endpoint, sampling |-> p.sampling]
           built == [at |-> "built", provider |-> made]
<1>1. /\ init[c] = Idle /\ UNCHANGED <<slot, shut, batch, created, started>> /\ p.enabled \in {"yes", "no"}
      /\ \/ UNCHANGED <<init, layer>>
         \/ slot # NoProvider /\ layer' = slot /\ UNCHANGED init
         \/ slot = NoProvider /\ init' = [init EXCEPT ![c] = built] /\ UNCHANGED layer /\ p.enabled = "yes"
      /\ raced' = IF init'[c] # Idle /\ \E d \in Callers \ {c} : init[d] # Idle THEN "yes" ELSE raced
    BY TracingAssumption DEF TracingAssumption, CheckSlot, UnchangedSpans
<1>2. CASE UNCHANGED init /\ (UNCHANGED layer \/ (slot # NoProvider /\ layer' = slot))
    <2>1. UNCHANGED raced
        BY <1>1, <1>2 DEF TraceInv, TraceTypes
    <2>2. TraceTypes'
        BY <1>1, <1>2, <2>1 DEF TraceInv, TraceTypes
    <2>3. OneProvider'
        BY <1>1, <1>2, <2>1 DEF TraceInv, OneProvider, OneBuilder, OneReceiver, Idle
    <2> QED BY <1>1, <2>2, <2>3 DEF TraceInv
<1>3. CASE slot = NoProvider /\ init' = [init EXCEPT ![c] = built] /\ UNCHANGED layer /\ p.enabled = "yes"
    <2>1. made \in Providers
        BY <1>3 DEF Providers
    <2> HIDE DEF made
    <2>2. init'[c] = built /\ built # Idle /\ \A d \in Callers : d # c => init'[d] = init[d]
        BY <1>3 DEF TraceInv, TraceTypes, Idle
    <2>3. raced' \in {"yes", "no"}
        BY <1>1 DEF TraceInv, TraceTypes
    <2>4. TraceTypes'
        BY <1>1, <1>3, <2>1, <2>2, <2>3 DEF TraceInv, TraceTypes, Tracer
    <2>5. ASSUME raced' = "no" PROVE raced = "no" /\ \A d \in Callers : d # c => init[d] = Idle
        BY <1>1, <2>2, <2>5 DEF TraceInv, TraceTypes
    <2>6. OneProvider'
        <3> SUFFICES ASSUME raced' = "no" PROVE OneProvider'
            BY ZenonT(30) DEF OneProvider
        <3>1. raced = "no" /\ \A d \in Callers : d # c => init'[d] = Idle
            BY <2>2, <2>5, ZenonT(30)
        <3>2. init'[c].at # "installed"
            BY <2>2
        <3>3. \A d \in Callers : init'[d].at # "installed"
            BY <3>1, <3>2, IdleAt, ZenonT(30)
        <3> QED BY <1>1, <1>3, <3>1, <3>3, ZenonT(30) DEF TraceInv, OneProvider, OneBuilder, OneReceiver
    <2> QED BY <1>1, <2>4, <2>6, ZenonT(30) DEF TraceInv
<1> QED BY <1>1, <1>2, <1>3

\* A caller that has built a provider holds a real one.
LEMMA HoldsReal ==
    ASSUME TraceInv, NEW c \in Callers, init[c].at # "idle"
    PROVE  init[c] # Idle /\ init[c].provider \in Providers /\ init[c].provider # NoProvider
<1>1. init[c] = Idle \/ (init[c].at # "idle" /\ init[c].provider \in Providers)
    BY ZenonT(30) DEF TraceInv, TraceTypes
<1>2. init[c] # Idle
    BY IdleAt, ZenonT(30)
<1> QED BY <1>1, <1>2, ProviderReal, ZenonT(30)

\* Its second and third step.
LEMMA InstallInv ==
    ASSUME TraceInv, NEW c \in Callers, InstallLayer(c) \/ SetSlot(c), UNCHANGED req
    PROVE  TraceInv'
<1>0. /\ init \in [Callers -> [at : {"idle", "built", "installed"}, provider : Tracer]]
      /\ init[c] = [at |-> init[c].at, provider |-> init[c].provider]
    BY DEF TraceInv, TraceTypes
<1>1. CASE InstallLayer(c)
    <2>1. /\ init'[c] = [at |-> "installed", provider |-> init[c].provider]
          /\ \A d \in Callers : d # c => init'[d] = init[d]
          /\ init' \in [Callers -> [at : {"idle", "built", "installed"}, provider : Tracer]]
          /\ init[c].at = "built" /\ layer' = init[c].provider
          /\ UNCHANGED <<slot, raced, shut, batch, created, started>>
        BY <1>0, <1>1 DEF InstallLayer, UnchangedSpans
    <2>2. init[c] # Idle /\ init[c].provider \in Providers /\ init[c].provider # NoProvider
        <3>1. init[c].at # "idle"
            BY <2>1
        <3> QED BY <3>1, HoldsReal, ZenonT(30)
    <2>3. init'[c].at = "installed" /\ init'[c].provider = init[c].provider /\ init'[c].at # "idle"
        BY <2>1
    <2>4. TraceTypes'
        <3>1. \A d \in Callers : init'[d] = Idle \/ (init'[d].at # "idle" /\ init'[d].provider \in Providers)
            BY <2>1, <2>2, <2>3, ZenonT(30) DEF TraceInv, TraceTypes
        <3>2. layer' \in Tracer /\ layer' # NoProvider
            BY <2>1, <2>2, ZenonT(30) DEF Tracer
        <3> QED BY <2>1, <3>1, <3>2, ZenonT(30) DEF TraceInv, TraceTypes
    <2>5. OneProvider'
        <3> SUFFICES ASSUME raced = "no" PROVE OneProvider'
            BY <2>1, ZenonT(30) DEF OneProvider
        <3>1. /\ slot = NoProvider /\ \A d \in Callers : d # c => init[d] = Idle
              /\ shut # NoProvider => shut = slot /\ batch[slot] = 0
            BY <2>2, ZenonT(30) DEF TraceInv, OneProvider, OneBuilder, OneReceiver
        <3>2. \A d \in Callers : init'[d].at = "installed" => d = c
            BY <2>1, <3>1, IdleAt, ZenonT(30)
        <3> QED BY <2>1, <2>3, <3>1, <3>2, ZenonT(30) DEF TraceInv, OneProvider, OneBuilder, OneReceiver
    <2> QED BY <2>1, <2>4, <2>5, ZenonT(30) DEF TraceInv
<1>2. CASE SetSlot(c)
    <2>1. /\ init'[c] = Idle /\ \A d \in Callers : d # c => init'[d] = init[d]
          /\ init' \in [Callers -> [at : {"idle", "built", "installed"}, provider : Tracer]]
          /\ init[c].at = "installed" /\ slot' = (IF slot = NoProvider THEN init[c].provider ELSE slot)
          /\ UNCHANGED <<layer, raced, shut, batch, created, started>>
        BY <1>0, <1>2 DEF SetSlot, UnchangedSpans, Idle, Tracer
    <2>2. init[c] # Idle /\ init[c].provider \in Providers /\ init[c].provider # NoProvider /\ layer # NoProvider
        <3>1. init[c].at # "idle"
            BY <2>1
        <3>2. layer # NoProvider
            BY <2>1, ZenonT(30) DEF TraceInv, TraceTypes
        <3> QED BY <3>1, <3>2, HoldsReal, ZenonT(30)
    <2>3. TraceTypes'
        BY <2>1, <2>2, IdleAt, ZenonT(30) DEF TraceInv, TraceTypes, Tracer
    <2>4. raced = "no" => slot = NoProvider /\ slot' = init[c].provider /\ layer = slot' /\ \A d \in Callers : init'[d] = Idle
        BY <2>1, <2>2 DEF TraceInv, OneProvider, OneBuilder, OneReceiver
    <2>5. OneProvider'
        <3> SUFFICES ASSUME raced = "no" PROVE OneProvider'
            BY <2>1, ZenonT(30) DEF OneProvider
        <3>1. /\ slot = NoProvider /\ \A q \in Providers : q # NoProvider => batch[q] = 0
              /\ \A r \in Request : req[r].at = "routed" => req[r].span = NoProvider
              /\ shut = NoProvider
            BY <2>4 DEF TraceInv, OneProvider, OneBuilder, OneReceiver
        <3>2. \A q \in Providers : batch[q] = 0
            BY <3>1, ProviderReal, ZenonT(30)
        <3>3. \A d \in Callers : init'[d] = Idle /\ init'[d].at # "installed"
            BY <2>4, IdleAt, ZenonT(30)
        <3> QED BY <2>1, <2>4, <3>1, <3>2, <3>3 DEF OneProvider, OneBuilder, OneReceiver
    <2> QED BY <2>1, <2>3, <2>5 DEF TraceInv
<1> QED BY <1>1, <1>2

\* The end: the batch processor and the flush.
LEMMA FlushInv ==
    ASSUME TraceInv, FlushTraces \/ (\E p \in Providers : Export(p)), UNCHANGED req
    PROVE  TraceInv'
<1>1. UNCHANGED <<slot, layer, init, created, started, raced>>
    BY DEF FlushTraces, Export
<1>2. /\ batch' = batch \/ \E p \in Providers : batch' = [batch EXCEPT ![p] = 0]
      /\ shut' = shut \/ (shut' = slot /\ (slot # NoProvider => batch' = [batch EXCEPT ![slot] = 0]))
    BY ProviderReal DEF FlushTraces, Export, Flush, TraceInv, TraceTypes, Tracer
<1>3. /\ batch' \in [Providers -> Nat] /\ \A q \in Providers : batch[q] = 0 => batch'[q] = 0
      /\ shut' = shut \/ (shut' = slot /\ (slot # NoProvider => batch'[slot] = 0))
      /\ shut' \in Tracer
    BY <1>2 DEF TraceInv, TraceTypes, Tracer
<1>4. TraceTypes'
    BY <1>1, <1>3 DEF TraceInv, TraceTypes
<1>5. OneProvider'
    <2> SUFFICES ASSUME raced = "no" PROVE OneProvider'
        BY <1>1, ZenonT(30) DEF OneProvider
    <2>1. \A q \in Providers : q # slot => batch'[q] = 0
        BY <1>3, ZenonT(30) DEF TraceInv, OneProvider, OneReceiver
    <2>2. shut' # NoProvider => shut' = slot /\ batch'[slot] = 0
        <3>1. slot # NoProvider => slot \in Providers
            BY ZenonT(30) DEF TraceInv, TraceTypes, Tracer
        <3>2. shut # NoProvider => shut = slot /\ batch[slot] = 0
            BY ZenonT(30) DEF TraceInv, OneProvider, OneReceiver
        <3>3. CASE shut' = shut
            <4> SUFFICES ASSUME shut # NoProvider PROVE shut = slot /\ batch'[slot] = 0
                BY <3>3, ZenonT(30)
            <4>1. slot \in Providers /\ shut = slot /\ batch[slot] = 0
                BY <3>1, <3>2, ZenonT(30)
            <4> QED BY <1>3, <4>1, ZenonT(30)
        <3>4. CASE shut' = slot /\ (slot # NoProvider => batch'[slot] = 0)
            BY <3>4, ZenonT(30)
        <3> QED BY <1>3, <3>3, <3>4, ZenonT(30)
    <2>3. OneBuilder'
        BY <1>1, ZenonT(30) DEF TraceInv, OneProvider, OneBuilder
    <2> QED BY <1>1, <2>1, <2>2, <2>3, ZenonT(30) DEF OneProvider, OneReceiver
<1> QED BY <1>1, <1>4, <1>5, ZenonT(30) DEF TraceInv

\* A span begins.
LEMMA ArriveInv ==
    ASSUME TraceInv, Contexts, NEW r \in Request, NEW p, Arrive(r, p)
    PROVE  TraceInv'
<1>1. /\ UNCHANGED <<slot, layer, init, shut, batch, raced>>
      /\ started' = IF TracingEnabled(live.config.tracing) /\ metrics = "on" THEN started + 1 ELSE started
      /\ created' = IF TracingEnabled(live.config.tracing) THEN CountSpan(metrics) ELSE created
    BY ZenonT(30) DEF Arrive, StartSpan
<1>2. created' = started'
    BY <1>1 DEF TraceInv, TraceTypes, TracingEnabled, CountSpan, Installed
<1>3. PICK q \in SampledBy(live.config.tracing) :
          req' = [req EXCEPT ![r] = [at |-> "routed", config |-> live.config, span |-> q,
                     route |-> IF p \in live.config.routes THEN p ELSE "-"]]
    BY ZenonT(30) DEF Arrive
<1>4. q = NoProvider \/ (q = layer /\ slot # NoProvider)
    BY <1>3 DEF SampledBy, Installed, TracingEnabled
<1>5. \A s \in Request : req'[s].at = "routed" => req'[s].span = (IF s = r THEN q ELSE req[s].span) /\ (s # r => req[s].at = "routed")
    BY <1>3 DEF Contexts
<1>6. TraceTypes'
    BY <1>1, <1>4, <1>5 DEF TraceInv, TraceTypes, Tracer
<1>7. OneProvider'
    BY <1>1, <1>4, <1>5 DEF TraceInv, TraceTypes, OneProvider, OneBuilder, OneReceiver
<1> QED BY <1>2, <1>6, <1>7 DEF TraceInv

\* A span ends.
LEMMA LoggingInv ==
    ASSUME TraceInv, Contexts, NEW r \in Request, Logging(r)
    PROVE  TraceInv'
<1> DEFINE p == req[r].span
<1>1. /\ UNCHANGED <<slot, layer, init, shut, created, started, raced>>
      /\ req[r].at = "routed" /\ req' = [req EXCEPT ![r] = [at |-> "done"]]
    BY DEF Logging, EndSpan
<1>2. PICK q \in {p} \cup Installed :
          batch' = IF p # NoProvider /\ q # shut THEN [batch EXCEPT ![q] = @ + 1] ELSE batch
    BY ZenonT(30) DEF Logging, EndSpan
<1>3. p \in Tracer /\ q \in Tracer
    BY <1>1, <1>2 DEF TraceInv, TraceTypes, Installed
<1>4. \A s \in Request : req'[s].at = "routed" => req'[s] = req[s]
    BY <1>1 DEF Contexts
<1>5. p # NoProvider => q \in Providers
    BY <1>2, <1>3, ProviderReal DEF Installed, Tracer
<1>6. batch' \in [Providers -> Nat]
    <2>1. batch \in [Providers -> Nat]
        BY DEF TraceInv, TraceTypes
    <2> HIDE DEF p
    <2> QED BY <1>2, <1>5, <2>1
<1>7. TraceTypes'
    BY <1>1, <1>4, <1>6 DEF TraceInv, TraceTypes
<1>8. raced = "no" /\ p # NoProvider => q = slot
    BY <1>1, <1>2 DEF TraceInv, OneProvider, OneBuilder, OneReceiver, Installed
<1>9. OneProvider'
    <2> SUFFICES ASSUME raced = "no" PROVE OneProvider'
        BY <1>1 DEF OneProvider
    <2>1. \A d \in Providers : d # slot \/ shut = slot => batch'[d] = batch[d]
        BY <1>2, <1>8 DEF TraceInv, TraceTypes
    <2> QED BY <1>1, <1>4, <2>1 DEF TraceInv, TraceTypes, OneProvider, OneBuilder, OneReceiver, Tracer
<1> QED BY <1>1, <1>7, <1>9 DEF TraceInv

\* The tracing invariant is inductive.
LEMMA NextTraceInv == Contexts /\ TraceInv /\ [ProcessNext]_allVars => TraceInv'
<1> SUFFICES ASSUME Contexts, TraceInv, [ProcessNext]_allVars PROVE TraceInv'
    OBVIOUS
<1>1. CASE UNCHANGED <<slot, layer, init, shut, batch, created, started, ended, sent, lost, raced, req>>
    BY <1>1 DEF TraceInv, TraceTypes, OneProvider, OneBuilder, OneReceiver
<1>2. TraceFrame
    BY TraceFrames
<1> QED BY <1>1, <1>2, ArriveInv, LoggingInv, CheckSlotInv, InstallInv, FlushInv DEF TraceFrame

\* Unless two callers raced, every span that ended is exported, lost after the
\* flush, or waiting in the provider of the slot.
Waiting == IF slot = NoProvider THEN 0 ELSE batch[slot]
SpanCount ==
    /\ ended \in Nat /\ sent \in Nat /\ lost \in Nat
    /\ raced = "no" => ended = sent + lost + Waiting /\ (shut = NoProvider => lost = 0)

\* No span has ended at boot.
LEMMA InitSpanCount == ProcessInit => SpanCount
<1> SUFFICES ASSUME ProcessInit PROVE SpanCount
    OBVIOUS
<1>1. slot = NoProvider /\ ended = 0 /\ sent = 0 /\ lost = 0
    BY DEF ProcessInit, TracingInit
<1> QED BY <1>1 DEF SpanCount, Waiting

\* A span that waits is a number of spans.
LEMMA WaitingNat == TraceInv => Waiting \in Nat
<1> SUFFICES ASSUME TraceInv PROVE Waiting \in Nat
    OBVIOUS
<1>1. batch \in [Providers -> Nat] /\ (slot = NoProvider \/ slot \in Providers)
    BY ZenonT(30) DEF TraceInv, TraceTypes, Tracer
<1> QED BY <1>1 DEF Waiting

\* A provider that comes into the slot has received nothing yet.
LEMMA CheckCount ==
    ASSUME TraceInv, SpanCount, NEW c \in Callers,
           (\E p \in TracingPolicies : CheckSlot(c, p)) \/ InstallLayer(c) \/ SetSlot(c)
    PROVE  SpanCount'
<1>1. UNCHANGED <<shut, batch, ended, sent, lost>>
    BY ZenonT(30) DEF CheckSlot, InstallLayer, SetSlot, UnchangedSpans
<1>2. ASSUME raced' = "no" PROVE raced = "no"
    BY <1>2 DEF CheckSlot, InstallLayer, SetSlot, TraceInv, TraceTypes
<1>3. ASSUME raced = "no" PROVE Waiting' = Waiting
    <2>1. CASE UNCHANGED slot
        BY <1>1, <2>1 DEF Waiting
    <2>2. CASE SetSlot(c) /\ slot' # slot
        <3>1. slot = NoProvider /\ slot' = init[c].provider /\ init[c].at = "installed"
            BY <2>2, ZenonT(30) DEF SetSlot
        <3>2. init[c].at # "idle"
            BY <3>1
        <3>3. slot' \in Providers /\ slot' # slot
            BY <3>1, <3>2, HoldsReal, ZenonT(30)
        <3>4. batch[slot'] = 0
            BY <1>3, <3>3, ZenonT(30) DEF TraceInv, OneProvider, OneReceiver
        <3> QED BY <1>1, <3>1, <3>3, <3>4, ZenonT(30) DEF Waiting
    <2> QED BY <2>1, <2>2, ZenonT(30) DEF CheckSlot, InstallLayer
<1> QED BY <1>1, <1>2, <1>3, ZenonT(30) DEF SpanCount

\* What the batch processor and the flush take from the slot's provider they
\* give to its exporter; the others have nothing.
LEMMA FlushCount ==
    ASSUME TraceInv, SpanCount, FlushTraces \/ (\E p \in Providers : Export(p))
    PROVE  SpanCount'
<1>1. UNCHANGED <<slot, ended, lost, raced>> /\ (UNCHANGED shut \/ shut' = slot)
    BY ZenonT(30) DEF FlushTraces, Export
<1>2. (UNCHANGED <<batch, sent>>) \/ (\E p \in Providers : Flush(p))
    <2>1. slot = NoProvider \/ slot \in Providers
        BY ZenonT(30) DEF TraceInv, TraceTypes, Tracer
    <2>2. slot = NoProvider /\ Flush(slot) => UNCHANGED <<batch, sent>>
        BY ZenonT(30) DEF Flush
    <2> QED BY <2>1, <2>2, ZenonT(30) DEF FlushTraces, Export
<1>3. raced = "no" => (shut' = NoProvider => lost = 0)
    <2>1. raced = "no" => (shut # NoProvider => shut = slot)
        BY ZenonT(30) DEF TraceInv, OneProvider, OneReceiver
    <2> QED BY <1>1, <2>1, ZenonT(30) DEF SpanCount
<1>4. CASE UNCHANGED <<batch, sent>>
    BY <1>1, <1>3, <1>4, ZenonT(30) DEF SpanCount, Waiting
<1>5. ASSUME NEW p \in Providers, Flush(p) PROVE SpanCount'
    <2>1. batch \in [Providers -> Nat] /\ p # NoProvider
        BY ProviderReal, ZenonT(30) DEF TraceInv, TraceTypes
    <2>2. sent' = sent + batch[p] /\ batch' = [batch EXCEPT ![p] = 0] /\ batch[p] \in Nat
        BY <1>5, <2>1, ZenonT(30) DEF Flush
    <2>3. sent' \in Nat
        BY <2>2 DEF SpanCount
    <2>4. ASSUME raced = "no" PROVE ended = sent' + lost + Waiting'
        <3>1. CASE p = slot
            <4>1. Waiting = batch[p] /\ Waiting' = 0
                BY <1>1, <2>1, <2>2, <3>1 DEF Waiting
            <4> QED BY <2>2, <2>4, <4>1 DEF SpanCount
        <3>2. CASE p # slot
            <4>1. batch[p] = 0
                BY <2>4, <3>2, ZenonT(30) DEF TraceInv, OneProvider, OneReceiver
            <4>2. slot = NoProvider \/ slot \in Providers
                BY ZenonT(30) DEF TraceInv, TraceTypes, Tracer
            <4>3. Waiting' = Waiting
                BY <1>1, <2>1, <2>2, <3>2, <4>2 DEF Waiting
            <4>4. sent' = sent
                BY <2>2, <4>1 DEF SpanCount
            <4> QED BY <2>4, <4>3, <4>4, ZenonT(30) DEF SpanCount
        <3> QED BY <3>1, <3>2
    <2> QED BY <1>1, <1>3, <2>3, <2>4, ZenonT(30) DEF SpanCount
<1> QED BY <1>2, <1>4, <1>5, ZenonT(30)

\* A sampled span that ends waits in the provider of the slot, or is lost when
\* that one is shut down.
LEMMA LoggingCount ==
    ASSUME TraceInv, SpanCount, NEW r \in Request, Logging(r)
    PROVE  SpanCount'
<1> DEFINE p == req[r].span
<1>1. /\ UNCHANGED <<slot, shut, sent, raced>> /\ req[r].at = "routed"
      /\ ended' = IF p # NoProvider THEN ended + 1 ELSE ended
    BY ZenonT(30) DEF Logging, EndSpan
<1>2. PICK q \in {p} \cup Installed :
          /\ batch' = IF p # NoProvider /\ q # shut THEN [batch EXCEPT ![q] = @ + 1] ELSE batch
          /\ lost' = IF p # NoProvider /\ q = shut THEN lost + 1 ELSE lost
    BY ZenonT(30) DEF Logging, EndSpan
<1>3. raced = "no" /\ p # NoProvider => q = slot /\ slot # NoProvider /\ slot \in Providers
    <2>1. slot = NoProvider \/ slot \in Providers
        BY ZenonT(30) DEF TraceInv, TraceTypes, Tracer
    <2> QED BY <1>1, <1>2, <2>1 DEF TraceInv, OneProvider, OneBuilder, Installed
<1>4. batch \in [Providers -> Nat]
    BY ZenonT(30) DEF TraceInv, TraceTypes
<1> HIDE DEF p
<1>5. ended' \in Nat /\ lost' \in Nat
    BY <1>1, <1>2 DEF SpanCount
<1>6. ASSUME raced = "no" PROVE ended' = sent + lost' + Waiting' /\ (shut = NoProvider => lost' = 0)
    <2>1. CASE p = NoProvider
        BY <1>1, <1>2, <1>6, <2>1, ZenonT(30) DEF SpanCount, Waiting
    <2>2. CASE p # NoProvider /\ slot = shut
        <3>1. ended' = ended + 1 /\ lost' = lost + 1 /\ Waiting' = Waiting /\ shut # NoProvider
            BY <1>1, <1>2, <1>3, <1>6, <2>2, ZenonT(30) DEF Waiting
        <3>2. Waiting \in Nat
            BY WaitingNat
        <3> QED BY <1>6, <3>1, <3>2 DEF SpanCount
    <2>3. CASE p # NoProvider /\ slot # shut
        <3>1. ended' = ended + 1 /\ lost' = lost /\ batch' = [batch EXCEPT ![slot] = @ + 1]
            BY <1>1, <1>2, <1>3, <1>6, <2>3, ZenonT(30)
        <3>2. Waiting' = Waiting + 1
            BY <1>1, <1>3, <1>4, <1>6, <2>3, <3>1 DEF Waiting
        <3>3. Waiting \in Nat
            BY WaitingNat
        <3> QED BY <1>6, <3>1, <3>2, <3>3 DEF SpanCount
    <2> QED BY <2>1, <2>2, <2>3
<1> QED BY <1>1, <1>5, <1>6, ZenonT(30) DEF SpanCount

\* The count is inductive.
LEMMA NextSpanCount == Contexts /\ TraceInv /\ SpanCount /\ [ProcessNext]_allVars => SpanCount'
<1> SUFFICES ASSUME Contexts, TraceInv, SpanCount, [ProcessNext]_allVars PROVE SpanCount'
    OBVIOUS
<1>1. CASE UNCHANGED <<slot, shut, batch, ended, sent, lost, raced>>
    BY <1>1, ZenonT(30) DEF SpanCount, Waiting
<1>2. ASSUME NEW r \in Request, NEW p, Arrive(r, p) PROVE SpanCount'
    <2>1. UNCHANGED <<slot, shut, batch, ended, sent, lost, raced>>
        BY <1>2, ZenonT(30) DEF Arrive, StartSpan
    <2> QED BY <1>1, <2>1
<1>3. TraceFrame
    BY TraceFrames
<1> QED BY <1>1, <1>2, <1>3, CheckCount, FlushCount, LoggingCount, ZenonT(30) DEF TraceFrame

\* TracingService and the agent's callback: a flush in time exports every span
\* that ended before it, and only spans that end after it are lost, in any
\* interleaving in which the two do not race.
THEOREM NoSpanLeft == ProcessSpec => []SpansFlushed
<1>1. TraceInv /\ SpanCount => SpansFlushed
    <2> SUFFICES ASSUME TraceInv, SpanCount, raced = "no", shut # NoProvider PROVE ended = sent + lost
        BY ZenonT(30) DEF SpansFlushed, SpanCount
    <2>1. shut = slot /\ batch[slot] = 0
        BY ZenonT(30) DEF TraceInv, OneProvider, OneReceiver
    <2>2. Waiting = 0
        BY <2>1, ZenonT(30) DEF Waiting
    <2> QED BY <2>2 DEF SpanCount
<1>2. Contexts /\ TraceInv /\ SpanCount /\ [ProcessNext]_allVars => Contexts' /\ TraceInv' /\ SpanCount'
    BY NextContexts, NextTraceInv, NextSpanCount
<1> QED BY <1>1, <1>2, InitContexts, InitTraceInv, InitSpanCount, PTL DEF ProcessSpec

-----------------------------------------------------------------------------
(* The access log.                                                         *)

\* Which steps touch the log.
LEMMA LogFrame ==
    ASSUME [ProcessNext]_allVars
    PROVE  /\ UNCHANGED metrics
           /\ \/ UNCHANGED logVars
              \/ \E r \in Request : \E p : Log(r, p, metrics)
              \/ StartWorker \/ WriteEntry \/ WriteFails \/ StopWorker
<1>1. ASSUME NEW r \in Request, Logging(r) PROVE UNCHANGED metrics /\ \E p : Log(r, p, metrics)
    BY <1>1 DEF Logging, EndRequest
<1>2. CASE LogService \/ LogFails
    BY <1>2 DEF LogService, LogFails, metricVars
<1>3. ASSUME NEW r \in Request, NEW p, Arrive(r, p) PROVE UNCHANGED <<metrics, logVars>>
    BY <1>3 DEF Arrive
<1>4. ASSUME NEW r \in Request, NEW k, Attempt(r, k) PROVE UNCHANGED <<metrics, logVars>>
    BY <1>4, ZenonT(30) DEF Attempt, RecordKey
<1>5. ASSUME NEW c \in Updates, Verify(c) \/ VerifyRefuses(c) PROVE UNCHANGED <<metrics, logVars>>
    BY <1>5 DEF Verify, VerifyRefuses, record_validation_failure, Recorded
<1>6. ASSUME NEW err, VerifyFails(err) PROVE UNCHANGED <<metrics, logVars>>
    BY <1>6 DEF VerifyFails, record_validation_failure, Recorded
<1>7. CASE StageFails \/ Store \/ LoadFails \/ RenameFails \/ Callback \/ Applied \/ AgentTracing
    BY <1>7 DEF StageFails, Store, LoadFails, RenameFails, Callback, Applied, AgentTracing,
                record_validation_failure, record_apply_failure, Recorded, metricVars
<1>8. CASE TracingService \/ BatchExport \/ AdminService \/ MetricsService \/ Clients \/ Time \/ Shutdown
    BY <1>8, ZenonT(30) DEF TracingService, BatchExport, AdminService, MetricsService, Clients, Time, Tick,
        Shutdown, metricVars
<1>9. CASE UNCHANGED allVars
    BY <1>9 DEF allVars, metricVars
<1> QED BY <1>1, <1>2, <1>3, <1>4, <1>5, <1>6, <1>7, <1>8, <1>9, ZenonT(30) DEF ProcessNext
\* No step of the process unbalances the books of the log.
LEMMA NextLogInv == LogInv(Request) /\ [ProcessNext]_allVars => LogInv(Request)'
<1> SUFFICES ASSUME LogInv(Request), [ProcessNext]_allVars PROVE LogInv(Request)'
    OBVIOUS
<1>1. UNCHANGED metrics
    BY LogFrame
<1>2. CASE UNCHANGED logVars
    BY <1>1, <1>2 DEF logVars, LogInv
<1> QED BY <1>1, <1>2, LogFrame, LogStep, WorkerStep

\* AccessLog::log and AccessLogWorker: for any capacity and number of requests,
\* no entry is lost unreported while the worker lives, and the log keeps the
\* order in which the requests ended.
THEOREM LogComplete == ProcessSpec => []LogAccounted
<1>1. LogInv(Request) => LogAccounted
    BY DEF LogInv, LogAccounted, Follows
<1>2. ProcessInit => LogInv(Request)
    BY LogBegin DEF ProcessInit
<1> QED BY <1>1, <1>2, NextLogInv, PTL DEF ProcessSpec

-----------------------------------------------------------------------------
(* The gauges.                                                             *)

\* The requests in flight that matched no route.
Unmatched == {r \in Active : req[r].route = "-"}

\* A request that has arrived is not NoRequest, and is in flight until it ends.
GaugeInv ==
    metrics = "on" =>
        /\ inflight = Cardinality(Active)
        /\ matches = [matched |-> matches.matched, no_match |-> matches.no_match]
        /\ unlabelled \in Int
        /\ matches.no_match = unlabelled + Cardinality(Unmatched)
\* What a step does for the gauges.
MetricFrame ==
    \/ UNCHANGED <<metrics, keys, seen, clock, cardinality, inflight, matches, unlabelled, req>>
    \/ \E r \in Request : (\E p : Arrive(r, p)) \/ Logging(r) \/ \E k \in PoolKey : Attempt(r, k)
    \/ Tick /\ UNCHANGED req

\* Every step of the process is one of these.
LEMMA MetricFrames == [ProcessNext]_allVars => MetricFrame
<1> SUFFICES ASSUME [ProcessNext]_allVars PROVE MetricFrame
    OBVIOUS
<1>0. CASE UNCHANGED <<metrics, keys, seen, clock, cardinality, inflight, matches, unlabelled, req>>
    BY <1>0 DEF MetricFrame
<1>1. ASSUME NEW r \in Request, (\E p : Arrive(r, p)) \/ Logging(r) \/ \E k \in PoolKey : Attempt(r, k)
      PROVE  MetricFrame
    BY <1>1 DEF MetricFrame
<1>2. ASSUME NEW c \in Updates, Verify(c) \/ VerifyRefuses(c) PROVE MetricFrame
    BY <1>0, <1>2 DEF Verify, VerifyRefuses, record_validation_failure, Recorded
<1>3. ASSUME NEW err, VerifyFails(err) PROVE MetricFrame
    BY <1>0, <1>3 DEF VerifyFails, record_validation_failure, Recorded
<1>4. CASE StageFails \/ Store \/ LoadFails \/ RenameFails \/ Applied
    BY <1>0, <1>4 DEF StageFails, Store, LoadFails, RenameFails, Applied, record_validation_failure,
                      record_apply_failure, Recorded
<1>5. CASE Callback \/ AgentTracing \/ BatchExport \/ TracingService \/ LogService \/ LogFails \/ AdminService
           \/ MetricsService \/ Clients \/ Shutdown \/ UNCHANGED allVars
    <2>1. UNCHANGED <<metricVars, req>>
        BY <1>5 DEF Callback, AgentTracing, BatchExport, TracingService, LogService, LogFails, AdminService,
                    MetricsService, Clients, Shutdown, allVars, processVars
    <2> QED BY <1>0, <2>1 DEF metricVars
<1>6. CASE Time
    BY <1>6 DEF Time, MetricFrame
<1> QED BY <1>1, <1>2, <1>3, <1>4, <1>5, <1>6, ZenonT(30) DEF ProcessNext
\* No step makes the reported cardinality wrong.
LEMMA NextKeyInv == KeyInv /\ [ProcessNext]_allVars => KeyInv'
<1> SUFFICES ASSUME KeyInv, MetricFrame PROVE KeyInv'
    BY MetricFrames
<1>0. CASE UNCHANGED <<keys, seen, clock, cardinality>>
    BY <1>0 DEF KeyInv
<1>1. ASSUME NEW r \in Request, (\E p : Arrive(r, p)) \/ Logging(r) PROVE KeyInv'
    BY <1>0, <1>1, ZenonT(30) DEF Arrive, Logging, EndRequest
<1>2. ASSUME NEW r \in Request, NEW k \in PoolKey, Attempt(r, k) PROVE KeyInv'
    BY <1>2, KeyRecorded, ZenonT(30) DEF Attempt
<1> QED BY <1>0, <1>1, <1>2, KeyTick DEF MetricFrame

\* The gauges are right at boot.
LEMMA InitGaugeInv == ProcessInit => GaugeInv
<1> SUFFICES ASSUME ProcessInit PROVE GaugeInv
    OBVIOUS
<1>1. inflight = 0 /\ unlabelled = 0 /\ matches = [matched |-> 0, no_match |-> 0]
    BY DEF ProcessInit, MetricsInit
<1>2. Active = {}
    <2>1. req = [r \in Request |-> NoRequest]
        BY DEF ProcessInit
    <2>2. \A r \in Request : req[r].at = "none"
        BY <2>1 DEF NoRequest
    <2> QED BY <2>2 DEF Active
<1>3. Cardinality({}) = 0
    BY FS_EmptySet
<1>4. Unmatched = {}
    BY <1>2 DEF Unmatched
<1>5. matches = [matched |-> matches.matched, no_match |-> matches.no_match] /\ matches.no_match = 0
    BY <1>1
<1>6. inflight = Cardinality(Active) /\ unlabelled \in Int
    BY <1>1, <1>2, <1>3
<1>7. matches.no_match = unlabelled + Cardinality(Unmatched)
    <2>1. matches.no_match = 0 /\ unlabelled = 0 /\ Cardinality(Unmatched) = 0
        BY <1>1, <1>3, <1>4, <1>5, ZenonT(30)
    <2> QED BY <2>1
<1> QED BY <1>5, <1>6, <1>7, ZenonT(30) DEF GaugeInv

\* The requests are finitely many.
LEMMA ActiveFinite ==
    IsFiniteSet(Active) /\ IsFiniteSet(Unmatched) /\ Cardinality(Active) \in Nat /\ Cardinality(Unmatched) \in Nat
<1>1. IsFiniteSet(Request)
    BY FS_Interval, ProcessAssumption DEF Request, ProcessAssumption
<1>2. Active \in SUBSET Request /\ Unmatched \in SUBSET Request
    BY DEF Active, Unmatched
<1> QED BY <1>1, <1>2, FS_Subset, FS_CardinalityType

\* A request counts once, from its arrival to its end.
LEMMA NextGaugeInv == Contexts /\ GaugeInv /\ [ProcessNext]_allVars => GaugeInv'
<1> SUFFICES ASSUME Contexts, GaugeInv, MetricFrame PROVE GaugeInv'
    BY MetricFrames
<1>0. CASE UNCHANGED <<metrics, inflight, matches, unlabelled, req>>
    BY <1>0 DEF GaugeInv, Active, Unmatched
<1>1. ASSUME NEW r \in Request, NEW p, Arrive(r, p) PROVE GaugeInv'
    <2> DEFINE result == IF p \in live.config.routes THEN "matched" ELSE "no_match"
               route == IF p \in live.config.routes THEN p ELSE "-"
    <2>1. PICK x : req' = [req EXCEPT ![r] = [at |-> "routed", config |-> live.config, span |-> x, route |-> route]]
        BY <1>1, ZenonT(30) DEF Arrive
    <2>2. req = [q \in Request |-> req[q]] /\ r \notin Active
        <3>1. req[r] = NoRequest
            BY <1>1, ZenonT(30) DEF Arrive
        <3>2. req[r].at # "routed"
            BY <3>1 DEF NoRequest
        <3> QED BY <3>2, ZenonT(30) DEF Contexts, Active
    <2>3. Active' = Active \cup {r}
        BY <2>1, <2>2 DEF Active
    <2>4. route = "-" <=> p \notin live.config.routes
        BY ProcessAssumption DEF ProcessAssumption, Contexts
    <2>5. Unmatched' = IF p \in live.config.routes THEN Unmatched ELSE Unmatched \cup {r}
        BY <2>1, <2>2, <2>3, <2>4 DEF Active, Unmatched
    <2>6. Cardinality(Active') = Cardinality(Active) + 1
        BY <2>2, <2>3, ActiveFinite, FS_AddElement, ZenonT(30)
    <2>7. p \notin live.config.routes => Cardinality(Unmatched') = Cardinality(Unmatched) + 1
        <3>1. r \notin Unmatched
            BY <2>2 DEF Unmatched
        <3> QED BY <2>5, <3>1, ActiveFinite, FS_AddElement, ZenonT(30)
    <2>8. ASSUME metrics = "on"
          PROVE  /\ inflight' = inflight + 1 /\ UNCHANGED <<metrics, unlabelled>>
                 /\ matches' = [matches EXCEPT ![result] = @ + 1]
        BY <1>1, <2>8, ZenonT(30) DEF Arrive, increment_active_connections, record_route_match
    <2>9. metrics' = metrics
        BY <1>1, ZenonT(30) DEF Arrive
    <2>10. ASSUME metrics = "on"
           PROVE  /\ matches' = [matched |-> matches'.matched, no_match |-> matches'.no_match]
                  /\ matches'.no_match = IF p \in live.config.routes THEN matches.no_match ELSE matches.no_match + 1
        BY <2>8, <2>10 DEF GaugeInv
    <2> HIDE DEF result, route
    <2>11. ASSUME metrics = "on" PROVE matches'.no_match = unlabelled' + Cardinality(Unmatched')
        BY <2>5, <2>7, <2>8, <2>10, <2>11, ActiveFinite DEF GaugeInv
    <2> QED BY <2>6, <2>8, <2>9, <2>10, <2>11 DEF GaugeInv
<1>2. ASSUME NEW r \in Request, Logging(r) PROVE GaugeInv'
    <2>1. req' = [req EXCEPT ![r] = [at |-> "done"]] /\ r \in Active /\ req = [q \in Request |-> req[q]]
        BY <1>2 DEF Logging, Contexts, Active
    <2>2. Active' = Active \ {r} /\ Unmatched' = Unmatched \ {r}
        BY <2>1 DEF Active, Unmatched
    <2>3. r \in Unmatched <=> req[r].route = "-"
        BY <2>1 DEF Unmatched
    <2>4. Cardinality(Active') = Cardinality(Active) - 1
        BY <2>1, <2>2, ActiveFinite, FS_RemoveElement, ZenonT(30)
    <2>5. Cardinality(Unmatched') = IF req[r].route = "-" THEN Cardinality(Unmatched) - 1 ELSE Cardinality(Unmatched)
        BY <2>2, <2>3, ActiveFinite, FS_RemoveElement, ZenonT(30)
    <2>6. metrics' = metrics /\ matches' = matches
        BY <1>2 DEF Logging, EndRequest
    <2>7. ASSUME metrics = "on"
          PROVE  /\ inflight' = inflight - 1
                 /\ unlabelled' = IF req[r].route = "-" THEN unlabelled + 1 ELSE unlabelled
        BY <1>2, <2>7, ZenonT(30) DEF Logging, EndRequest, RecordRequest
    <2>8. ASSUME metrics = "on"
          PROVE  inflight' = Cardinality(Active') /\ unlabelled' \in Int
        <3>1. inflight = Cardinality(Active) /\ unlabelled \in Int
            BY <2>8 DEF GaugeInv
        <3> QED BY <2>4, <2>7, <2>8, <3>1
    <2>9. ASSUME metrics = "on"
          PROVE  matches'.no_match = unlabelled' + Cardinality(Unmatched')
        <3>1. matches.no_match = unlabelled + Cardinality(Unmatched) /\ unlabelled \in Int
            BY <2>9 DEF GaugeInv
        <3>2. Cardinality(Unmatched) \in Nat
            BY ActiveFinite, ZenonT(30)
        <3>3. CASE req[r].route = "-"
            <4>1. Cardinality(Unmatched') = Cardinality(Unmatched) - 1 /\ unlabelled' = unlabelled + 1
                BY <2>5, <2>7, <2>9, <3>3, ZenonT(30)
            <4> QED BY <2>6, <3>1, <3>2, <4>1
        <3>4. CASE req[r].route # "-"
            BY <2>5, <2>6, <2>7, <2>9, <3>1, <3>4, ZenonT(30)
        <3> QED BY <3>3, <3>4
    <2> QED BY <2>6, <2>8, <2>9, ZenonT(30) DEF GaugeInv
<1>3. ASSUME NEW r \in Request, NEW k, Attempt(r, k) PROVE GaugeInv'
    BY <1>0, <1>3, ZenonT(30) DEF Attempt, RecordKey
<1>4. CASE Tick /\ UNCHANGED req
    BY <1>0, <1>4 DEF Tick
<1> QED BY <1>0, <1>1, <1>2, <1>3, <1>4 DEF MetricFrame

\* The gauges tell the truth, for any number of requests and keys, any cap and
\* any ttl (telemetry/metrics.rs).
THEOREM MetricsTrue == ProcessSpec => []MetricsExact
<1>1. Contexts /\ TraceInv /\ GaugeInv /\ KeyInv => MetricsExact
    BY DEF MetricsExact, TraceInv, GaugeInv, KeyInv, Unmatched, Recent, Saturating
<1>2. ProcessInit => Contexts /\ TraceInv /\ GaugeInv /\ KeyInv
    BY InitContexts, InitTraceInv, InitGaugeInv, KeyBegin DEF ProcessInit
<1>3. Contexts /\ TraceInv /\ GaugeInv /\ KeyInv /\ [ProcessNext]_allVars
          => (Contexts /\ TraceInv /\ GaugeInv /\ KeyInv)'
    BY NextContexts, NextTraceInv, NextGaugeInv, NextKeyInv
<1> QED BY <1>1, <1>2, <1>3, PTL DEF ProcessSpec
=============================================================================
