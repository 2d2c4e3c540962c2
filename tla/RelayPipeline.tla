--------------------------- MODULE RelayPipeline ---------------------------
(***************************************************************************)
(* From the file to the agents: the relay's pipeline (pipeline/) between   *)
(* the file ingest (IngestFile) and the long poll (LongPoll).  It takes    *)
(* what the ingest stream yields, at most max_in_flight at a time, turns   *)
(* it into an artifact and publishes that, retrying when a publish fails.  *)
(* Publishes of the pipeline and of POST /v1/publish share publish_lock,   *)
(* a fair mutex: futures of one task queue for it in the order in which    *)
(* they ask, and one that sleeps between two attempts asks again later.    *)
(***************************************************************************)
EXTENDS LongPoll, IngestFile, Sequences

CONSTANTS
    MaxDisturbances \* bound: publishes the storage refuses, posts and restarts, together

ASSUME PipelineAssumption ==
    /\ MaxDisturbances \in Nat /\ MaxEdits \in Nat
    /\ \A c \in Contents : c.exists = "yes" => c.doc.art \in Artifact \cup {None}

VARIABLES
    queue,      \* handle_artifact futures that wait for publish_lock
    asleep,     \* those that sleep between two attempts
    active,     \* who holds publish_lock
    published,  \* history: mtime of the content the pipeline published last
    gaveUp,     \* history: the retries of the last artifact were exhausted
    faults      \* failures, posts and restarts so far

pipelineVars == <<queue, asleep, active, published, gaveUp, faults>>
relayVars == <<vars, ingestVars, pipelineVars>>

Job == [art : Artifact, mtime : 0..MaxEdits, attempt : Nat]

RelayInit ==
    /\ Init /\ IngestInit
    /\ queue = <<>> /\ asleep = <<>> /\ active = "nobody"
    /\ published = NoMtime /\ gaveUp = "no"
    /\ faults = [failures |-> 0, posts |-> 0, restarts |-> 0]

-----------------------------------------------------------------------------
(* The pipeline.                                                           *)

max_in_flight(c) == IF c.options.max_in_flight > 1 THEN c.options.max_in_flight ELSE 1

Disturb(k) ==
    /\ faults.failures + faults.posts + faults.restarts < MaxDisturbances
    /\ faults' = [faults EXCEPT ![k] = @ + 1]

\* Bug: a future that sleeps does not count.
InFlightAwake == Len(queue) + (IF active = "pipeline" THEN 1 ELSE 0)

InFlight == Len(queue) + Len(asleep) + (IF active = "pipeline" THEN 1 ELSE 0)

\* AutoSerdeCodec: the codec of the format, none for others.  JSON is YAML too.
codec_for_format(format) ==
    CASE format = "Json" -> {"json"}
      [] format = "Yaml" -> {"json", "yaml"}
      [] OTHER -> {}

\* Codec::materialize: an artifact, or None when a stage refuses the document.
materialize(doc) ==
    IF doc.syntax \in codec_for_format(infer_format(conf.source.path)) THEN doc.art ELSE None

\* A stream item becomes a future; an error or a refused document ends it at once.
Take ==
    /\ watch \in Streaming /\ chan # Empty /\ InFlight < max_in_flight(conf)
    /\ chan' = Empty
    /\ LET art == IF chan.kind = "ok" THEN materialize(chan.doc) ELSE None
       IN  IF art = None
           THEN UNCHANGED <<queue, gaveUp>>
           ELSE /\ queue' = Append(queue, [art |-> art, mtime |-> chan.mtime, attempt |-> 1])
                /\ gaveUp' = "no"
    /\ UNCHANGED <<vars, conf, file, event, watch, last, timer, out, base, gap,
                   asleep, active, published, faults>>

\* publish_config of the first in line, with the lock.
PublishNext ==
    /\ queue # <<>> /\ active = "nobody"
    /\ SetSnapshot(Head(queue).art)
    /\ queue' = Tail(queue) /\ active' = "pipeline"
    /\ published' = Head(queue).mtime
    /\ UNCHANGED <<ingestVars, asleep, gaveUp, faults>>

\* The storage refuses it: sleep and retry, or give up after max_attempts retries.
PublishFails ==
    /\ queue # <<>> /\ active = "nobody" /\ pub = "idle"
    /\ Disturb("failures")
    /\ queue' = Tail(queue)
    /\ LET job == Head(queue)
       IN  IF job.attempt <= conf.options.max_attempts
           THEN /\ asleep' = Append(asleep, [job EXCEPT !.attempt = @ + 1])
                /\ UNCHANGED gaveUp
           ELSE gaveUp' = "yes" /\ UNCHANGED asleep
    /\ UNCHANGED <<vars, ingestVars, active, published>>

Without(s, i) == SubSeq(s, 1, i - 1) \o SubSeq(s, i + 1, Len(s))

\* A backoff has passed; which one passes first depends on its length.
Wake ==
    /\ \E i \in DOMAIN asleep :
          /\ queue' = Append(queue, asleep[i])
          /\ asleep' = Without(asleep, i)
    /\ UNCHANGED <<vars, ingestVars, active, published, gaveUp, faults>>

\* publish ends and releases the lock.
Finish ==
    /\ Announce
    /\ active' = "nobody"
    /\ UNCHANGED <<ingestVars, queue, asleep, published, gaveUp, faults>>

-----------------------------------------------------------------------------
(* The other publisher, and restarts.                                      *)

PostPublish(a) ==
    /\ active = "nobody" /\ Disturb("posts")
    /\ SetSnapshot(a)
    /\ active' = "post"
    /\ UNCHANGED <<ingestVars, queue, asleep, published, gaveUp>>

PostDropped ==
    /\ active = "post" /\ DropPublish
    /\ active' = "nobody"
    /\ UNCHANGED <<ingestVars, queue, asleep, published, gaveUp, faults>>

\* init_state serves the LKG: the snapshot, or an artifact that was promoted and
\* is not in memory, of the first in line, of a POST, or of a publish that failed
\* after its promotion, under the old version when only its bytes were promoted;
\* the pipeline and every request start over.
Restart ==
    /\ Disturb("restarts")
    /\ \/ UNCHANGED <<snap, published>>
       \/ /\ queue # <<>> /\ active = "nobody" /\ snap.version < MaxPublishes
          /\ snap' = [version |-> snap.version + 1, art |-> Head(queue).art]
          /\ published' = Head(queue).mtime
       \/ /\ active = "nobody" /\ UNCHANGED published
          /\ \E a \in Artifact, v \in snap.version .. MaxPublishes :
                /\ v = snap.version + 1 \/ (v = snap.version /\ snap.art # None)
                /\ snap' = [version |-> v, art |-> a]
    /\ ready' = IF snap'.art = None THEN "no" ELSE "yes"
    /\ pub' = "idle" /\ req' = [c \in Client |-> "none"] /\ UNCHANGED <<have, drops>>
    /\ queue' = <<>> /\ asleep' = <<>> /\ active' = "nobody" /\ gaveUp' = "no"
    /\ event' = "none" /\ watch' = Start(conf) /\ timer' = "off"
    /\ last' = NoMtime /\ base' = NoMtime /\ gap' = "no"
    /\ out' = Empty /\ chan' = Empty /\ UNCHANGED <<conf, file>>

-----------------------------------------------------------------------------
Ingest == (StreamStep \/ WatchStep) /\ UNCHANGED <<vars, pipelineVars>>
Operator == \E c \in Contents : Edit(c) /\ UNCHANGED <<vars, pipelineVars>>
\* Without long_poll.enabled, a current ETag is answered 304 at once; the
\* agents always ask to wait.
Agents ==
    \E c \in Client :
        /\ Poll(c)
        /\ (GetCurrent(c) => conf.long_poll_enabled)
        /\ (GetUnchanged(c) => ~conf.long_poll_enabled)
        /\ UNCHANGED <<ingestVars, pipelineVars>>
Pipeline == Take \/ PublishNext \/ PublishFails \/ Wake \/ Finish

RelayNext ==
    \/ Operator \/ Ingest \/ Pipeline \/ Agents
    \/ \E a \in Artifact : PostPublish(a)
    \/ PostDropped \/ Restart

\* The watcher task and the pipeline run whenever they can; deadlines and
\* backoffs pass; an agent polls again after every answer.
RelayFairness ==
    /\ WF_relayVars(Ingest)
    /\ WF_relayVars(Take) /\ WF_relayVars(PublishNext) /\ WF_relayVars(Wake) /\ WF_relayVars(Finish)
    /\ \A c \in Client :
          WF_relayVars((GetNew(c) \/ Expire(c) \/ Resume(c)) /\ UNCHANGED <<ingestVars, pipelineVars>>)

RelaySpec == RelayInit /\ [][RelayNext]_relayVars /\ RelayFairness

-----------------------------------------------------------------------------
(* Properties.                                                             *)

\* What the file should make the relay serve, None when it is refused.
Wanted ==
    IF validate_format /\ Contained.kind = "ok" THEN materialize(Contained.doc) ELSE None

Serves(a) == snap.art = a /\ \A c \in Client : have[c].art = a

\* Once edits stop, the relay and every agent end up with what the file holds,
\* whatever events, wake-ups, rejected edits, failed publishes and restarts
\* came between, with three exceptions the code makes: an edit between the
\* first read and the first last_mtime of the watcher, retries that were
\* exhausted, and a retry that other publishes may overtake.
EventuallyDelivered ==
    <>[]((/\ conf.source.kind = "file" /\ Wanted # None
          /\ gap = "no" /\ gaveUp = "no"
          /\ max_in_flight(conf) = 1 \/ faults.failures = 0
          /\ faults.posts = 0) => Serves(Wanted))

\* With one artifact in flight, the pipeline never publishes an older content of
\* the file over a newer one, retries and restarts included.
NewerStays ==
    [][max_in_flight(conf) = 1 => published' >= published]_published

=============================================================================
