------------------------------ MODULE Tracing ------------------------------
(***************************************************************************)
(* OpenTelemetry tracing (telemetry/tracing.rs): maybe_init_tracing, run   *)
(* by the tracing service when it starts and by the agent's callback after *)
(* an update, each in a thread of its own; the layer it installs; the      *)
(* provider that samples, batches and exports; the flush at shutdown.      *)
(*                                                                         *)
(* A policy is [enabled, endpoint, sampling]; a provider is known by who   *)
(* built it and from which policy.                                         *)
(***************************************************************************)
EXTENDS Integers

CONSTANT TracingPolicies

ASSUME TracingAssumption == \A p \in TracingPolicies : p.enabled \in {"yes", "no"} /\ p.sampling \in 0..100

VARIABLES
    slot,       \* runtime_slot, the OnceLock with the provider to flush
    layer,      \* ReloadableLayer: the provider whose layer is installed
    init,       \* where each caller of maybe_init_tracing is
    service,    \* TracingService: "new", "starting", "running", "stopped", "gaveup"
    shut,       \* the provider that was flushed and shut down
    batch,      \* provider |-> ended spans it has not exported
    created,    \* pavis_telemetry_tracing_spans_created_total
    started,    \* history: spans that requests started
    ended,      \* history: sampled spans whose requests ended
    sent,       \* history: those that a provider gave to its exporter
    lost,       \* history: those that reached a provider already shut down
    raced       \* history: two callers found the slot empty

tracingVars ==
    <<slot, layer, init, service, shut, batch, created, started, ended, sent, lost, raced>>

Callers == {"service", "agent"}
NoProvider == [by |-> "nobody", endpoint |-> "", sampling |-> 0]
Providers ==
    {[by |-> c, endpoint |-> p.endpoint, sampling |-> p.sampling] :
        c \in Callers, p \in {q \in TracingPolicies : q.enabled = "yes"}}

Idle == [at |-> "idle", provider |-> NoProvider]

\* With a disabled policy the service only waits for the signal.
TracingInit(config) ==
    /\ slot = NoProvider /\ layer = NoProvider
    /\ init = [c \in Callers |-> Idle]
    /\ service = IF config.enabled = "yes" THEN "new" ELSE "running"
    /\ shut = NoProvider /\ batch = [p \in Providers |-> 0]
    /\ created = 0 /\ started = 0 /\ ended = 0 /\ sent = 0 /\ lost = 0
    /\ raced = "no"

-----------------------------------------------------------------------------
(* maybe_init_tracing: check, build and install, set the slot.             *)

UnchangedSpans == UNCHANGED <<shut, batch, created, started, ended, sent, lost>>

\* Bug: the slot is not looked at, every update builds a provider.
CheckSlotAlways(c, p) ==
    /\ init[c] = Idle
    /\ IF p.enabled = "no" \/ p.endpoint = "bad"
       THEN UNCHANGED <<init, layer>>
       ELSE /\ init' = [init EXCEPT ![c] = [at |-> "built",
                          provider |-> [by |-> c, endpoint |-> p.endpoint, sampling |-> p.sampling]]]
            /\ UNCHANGED layer
    /\ raced' = raced
    /\ UNCHANGED slot /\ UnchangedSpans

\* A disabled policy does nothing.  With a provider in the slot its layer is
\* installed again, whatever the policy says; a provider is built otherwise,
\* unless the exporter refuses the endpoint.
CheckSlot(c, p) ==
    /\ init[c] = Idle
    /\ CASE p.enabled = "no" -> UNCHANGED <<init, layer>>
         [] p.enabled = "yes" /\ slot # NoProvider -> layer' = slot /\ UNCHANGED init
         [] p.enabled = "yes" /\ slot = NoProvider /\ p.endpoint = "bad" ->
                UNCHANGED <<init, layer>>
         [] OTHER ->
                /\ init' = [init EXCEPT ![c] = [at |-> "built",
                       provider |-> [by |-> c, endpoint |-> p.endpoint, sampling |-> p.sampling]]]
                /\ UNCHANGED layer
    /\ raced' = IF init'[c] # Idle /\ \E d \in Callers \ {c} : init[d] # Idle THEN "yes" ELSE raced
    /\ UNCHANGED slot /\ UnchangedSpans

InstallLayer(c) ==
    /\ init[c].at = "built"
    /\ init' = [init EXCEPT ![c].at = "installed"]
    /\ layer' = init[c].provider
    /\ UNCHANGED <<slot, raced>> /\ UnchangedSpans

\* OnceLock::set keeps the first provider.
SetSlot(c) ==
    /\ init[c].at = "installed"
    /\ init' = [init EXCEPT ![c] = Idle]
    /\ slot' = IF slot = NoProvider THEN init[c].provider ELSE slot
    /\ UNCHANGED <<layer, raced>> /\ UnchangedSpans

-----------------------------------------------------------------------------
(* The spans of requests.                                                  *)

\* ReloadableLayer: each callback (on_new_span, on_record, on_enter, on_exit,
\* on_event, on_close, ...) locks the slot, poisoned or not, and delegates to the
\* layer that is there at that moment; without one it does nothing.
Installed == IF layer = NoProvider THEN {} ELSE {layer}

\* request_filter: a span is made when the request's own policy is enabled,
\* samples at all, and a provider is in the slot.
TracingEnabled(p) == p.enabled = "yes" /\ p.sampling > 0 /\ slot # NoProvider

\* The provider that will receive the span, if it samples it.
SampledBy(p) ==
    LET sampling == {q \in Installed : TracingEnabled(p) /\ q.sampling > 0}
    IN  IF \E q \in sampling : q.sampling = 100 THEN sampling ELSE sampling \cup {NoProvider}

\* SpanMetricsLayer, installed with the other layer: one more request's span.
CountSpan(counter) == IF counter = "on" /\ Installed # {} THEN created + 1 ELSE created

\* The span is made at level info: the filter of the whole subscriber is
\* taken to let it pass, as it does unless the log level is warn or error.
StartSpan(p, counter) ==
    /\ started' = IF TracingEnabled(p) /\ counter = "on" THEN started + 1 ELSE started
    /\ created' = IF TracingEnabled(p) THEN CountSpan(counter) ELSE created
    /\ UNCHANGED <<slot, layer, init, service, shut, batch, ended, sent, lost, raced>>

\* on_close: the provider of the layer that was there when the span began, or
\* of the one that is there now, queues it; the span is lost when that one
\* has been shut down.
EndSpan(p) ==
    /\ \E q \in {p} \cup Installed :
          /\ batch' = IF p # NoProvider /\ q # shut THEN [batch EXCEPT ![q] = @ + 1] ELSE batch
          /\ lost' = IF p # NoProvider /\ q = shut THEN lost + 1 ELSE lost
    /\ ended' = IF p # NoProvider THEN ended + 1 ELSE ended
    /\ UNCHANGED <<slot, layer, init, service, shut, created, started, sent, raced>>

\* MetricsSpanExporter passes export, force_flush and shutdown on.
Flush(p) ==
    /\ batch' = IF p = NoProvider THEN batch ELSE [batch EXCEPT ![p] = 0]
    /\ sent' = IF p = NoProvider THEN sent ELSE sent + batch[p]

\* The batch processor's thread: a batch that fails is not sent again.
\* MetricsSpanExporter counts it as exported or as an error.
Export(p) ==
    /\ batch[p] > 0
    /\ Flush(p)
    /\ UNCHANGED <<slot, layer, init, service, shut, created, started, ended, lost, raced>>

-----------------------------------------------------------------------------
(* TracingService::start_service.                                          *)

StartTracing(p) ==
    /\ service = "new"
    /\ service' = "starting"
    /\ CheckSlot("service", p)

Started ==
    /\ service = "starting" /\ init["service"] = Idle
    /\ service' = "running"
    /\ UNCHANGED <<slot, layer, init, raced>> /\ UnchangedSpans

\* force_flush and shutdown of the provider in the slot, in at most 5 s.
FlushTraces ==
    /\ service = "running"
    /\ \/ /\ service' = "stopped"
          /\ Flush(slot) /\ shut' = slot
       \/ /\ slot # NoProvider
          /\ service' = "gaveup" /\ UNCHANGED <<shut, batch, sent>>
    /\ UNCHANGED <<slot, layer, init, created, started, ended, lost, raced>>

=============================================================================
