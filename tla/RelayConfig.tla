---------------------------- MODULE RelayConfig ----------------------------
(***************************************************************************)
(* The relay's own configuration (pavis-relay/src/config): a YAML value    *)
(* becomes a RelayConfig, with references to the environment expanded, the *)
(* root normalised and defaults filled in, or the relay does not start.    *)
(*                                                                         *)
(* A mapping is a record whose absent keys are absent from its domain; a   *)
(* string is literal or a reference to a variable of the environment; a    *)
(* path is known by its extension.  Sections the relay reads and never     *)
(* uses (identity, security, logging, metrics...) are left out.            *)
(***************************************************************************)
EXTENDS Integers

CONSTANT Environment    \* std::env: variable |-> value

Literal(s) == [kind |-> "text", text |-> s]
Reference(k) == [kind |-> "ref", text |-> k]
Unterminated == [kind |-> "open", text |-> ""]

Failed == [ok |-> FALSE]

Get(map, key, default) == IF key \in DOMAIN map THEN map[key] ELSE default
Section(map, key) == Get(map, key, <<>>)

-----------------------------------------------------------------------------
(* expand_env: a reference that is unterminated or unset fails the load.   *)
Expands(s) == s.kind = "text" \/ (s.kind = "ref" /\ s.text \in DOMAIN Environment)
expand_env_str(s) == IF s.kind = "ref" THEN Environment[s.text] ELSE s.text

\* The strings of the sections kept here.
Strings(v) ==
    LET source == Section(Section(Section(v, "pipeline"), "ingest"), "source")
        http == Section(v, "http")
        storage == Section(v, "storage")
    IN  {source[k] : k \in DOMAIN source \cap {"path"}}
          \cup {http[k] : k \in DOMAIN http \cap {"bind"}}
          \cup {storage[k] : k \in DOMAIN storage \cap {"root_dir"}}

expand_env(v) == \A s \in Strings(v) \cup Strings(Section(v, "relay")) : Expands(s)

\* The configuration may be under the key relay.
normalize_root(v) == IF "relay" \in DOMAIN v THEN v["relay"] ELSE v

-----------------------------------------------------------------------------
(* Defaults, section by section.                                           *)

RestartBackoffConfig(s) == [min |-> Get(s, "min", 500), max |-> Get(s, "max", 30000)]

RetryBackoffConfig(s) == [min |-> Get(s, "min", 250), max |-> Get(s, "max", 5000)]

RetryConfig(s) ==
    [max |-> Get(s, "max", 5), backoff |-> RetryBackoffConfig(Section(s, "backoff"))]

PublishRetryConfig(s) ==
    [max |-> Get(s, "max", 5), backoff |-> RetryBackoffConfig(Section(s, "backoff"))]

PipelineRuntimeConfig(s) ==
    [max_in_flight |-> Get(s, "max_in_flight", 8),
     restart_backoff |-> RestartBackoffConfig(Section(s, "restart_backoff")),
     publish_retry |-> PublishRetryConfig(Section(s, "publish_retry"))]

\* Tagged by kind: a file needs its path.  Without a source, the file "".
IngestSource(s) ==
    CASE DOMAIN s = {} -> [ok |-> TRUE, kind |-> "file", path |-> ""]
      [] Get(s, "kind", "") = "none" -> [ok |-> TRUE, kind |-> "none", path |-> ""]
      [] Get(s, "kind", "") = "file" /\ "path" \in DOMAIN s ->
            [ok |-> TRUE, kind |-> "file", path |-> expand_env_str(s["path"])]
      [] OTHER -> Failed

IngestMode(s) == [debounce |-> Get(s, "debounce", 100)]

IngestConfig(s) ==
    [source |-> IngestSource(Section(s, "source")), mode |-> IngestMode(Section(s, "mode"))]

PipelineConfig(s) ==
    [ingest |-> IngestConfig(Section(s, "ingest")),
     runtime |-> PipelineRuntimeConfig(Section(s, "runtime"))]

PersistenceConfig(s) ==
    [flush_interval |-> Get(s, "flush_interval", 1000), retry |-> RetryConfig(Section(s, "retry"))]

LongPollConfig(s) == [enabled |-> Get(s, "enabled", FALSE)]

HttpConfig(s) == [bind |-> IF "bind" \in DOMAIN s THEN expand_env_str(s["bind"]) ELSE ""]

Config(v) ==
    [ok |-> TRUE,
     http |-> HttpConfig(Section(v, "http")),
     pipeline |-> PipelineConfig(Section(v, "pipeline")),
     distribution |-> [long_poll |-> LongPollConfig(Section(Section(v, "distribution"), "long_poll"))],
     persistence |-> PersistenceConfig(Section(v, "persistence"))]

decode_value(v) ==
    LET c == Config(normalize_root(v))
    IN  IF c.pipeline.ingest.source.ok THEN c ELSE Failed

load(v) == IF expand_env(v) THEN decode_value(v) ELSE Failed

-----------------------------------------------------------------------------
(* serve_from_config, before the pipeline starts.                          *)

\* build_options refuses a persistence section it could not work with.
build_options(c) ==
    IF \/ c.persistence.flush_interval = 0
       \/ c.persistence.retry.backoff.min = 0
       \/ c.persistence.retry.backoff.max < c.persistence.retry.backoff.min
    THEN Failed
    ELSE [ok |-> TRUE, long_poll_enabled |-> c.distribution.long_poll.enabled]

\* "addr" stands for the addresses that parse.
ParsesAddress(s) == s = "addr"

\* main: the configuration loads, its address parses and its options hold.
Starts(v) ==
    LET c == load(v) IN c.ok /\ ParsesAddress(c.http.bind) /\ build_options(c).ok

\* PipelineOptions::from_config.
from_config(p) ==
    [max_in_flight |-> p.runtime.max_in_flight, max_attempts |-> p.runtime.publish_retry.max]

\* What the parts that serve_from_config starts are given.
Settings(v) ==
    LET c == load(v)
    IN  [options |-> from_config(c.pipeline),
         source |-> c.pipeline.ingest.source,
         long_poll_enabled |-> build_options(c).long_poll_enabled]

=============================================================================
