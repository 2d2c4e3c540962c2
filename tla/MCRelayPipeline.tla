-------------------------- MODULE MCRelayPipeline --------------------------
(* Instances of RelayPipeline for model checking.                          *)
EXTENDS RelayPipeline, TLC

CONSTANTS x, y, c1

MCArtifact == {x, y}
MCClient == {c1}

Doc(syntax, a) == [syntax |-> syntax, art |-> a]
Content(size, text, d) == [exists |-> "yes", size |-> size, text |-> text, doc |-> d]

\* A document in each syntax, a blank file, one too large, and no file.
MCContents ==
    {Content(9, "words", Doc("yaml", x)), Content(9, "words", Doc("json", y)),
     Content(3, "blank", Doc("yaml", None)),
     Content(DEFAULT_MAX_BYTES + 1, "words", Doc("json", x)),
     [exists |-> "no", size |-> 0]}

Runtime(limit, retries) ==
    [runtime |-> [max_in_flight |-> limit, publish_retry |-> [max |-> retries]]]
Source(s) == [ingest |-> [source |-> s]]
File(path) == Source([kind |-> "file", path |-> path])
Polling == [long_poll |-> [enabled |-> TRUE]]
Bound == [bind |-> Literal("addr")]

MCEnvironment == [INPUT |-> "yml"]

\* Five that start: one file in flight, no retries, two files in flight, a
\* file of an unknown format, no file.  Four that do not.
MCConfigs ==
    {[http |-> Bound, distribution |-> Polling,
      pipeline |-> File(Literal("yaml")) @@ Runtime(0, 1)],
     [relay |-> [http |-> Bound, distribution |-> Polling,
                 pipeline |-> File(Reference("INPUT")) @@ Runtime(1, 0)]],
     [http |-> Bound, distribution |-> Polling,
      pipeline |-> File(Literal("json")) @@ Runtime(2, 1)],
     [http |-> Bound, pipeline |-> File(Literal("txt"))],
     [http |-> Bound, distribution |-> Polling, pipeline |-> Source([kind |-> "none"])],
     [http |-> Bound, pipeline |-> File(Reference("UNSET"))],
     [http |-> Bound, pipeline |-> File(Unterminated)],
     [http |-> Bound, pipeline |-> Source([kind |-> "file"])],
     [http |-> Bound, persistence |-> [retry |-> [backoff |-> [min |-> 6000]]]]}

\* Starting points: a relay without an LKG or with x, and a file that is
\* missing or that the ingest accepts.
MCInit ==
    /\ RelayInit
    /\ snap.art # y
    /\ file.content.exists = "yes" => validate_bytes(file.content) /\ Fits(file.content)

MCSpec == MCInit /\ [][RelayNext]_relayVars /\ RelayFairness

=============================================================================
