----------------------------- MODULE IngestFile -----------------------------
(***************************************************************************)
(* The file ingest (pavis-ingest-file): a stream that first reads the      *)
(* watched file and then follows it, through notify's events and a poll of *)
(* its mtime, with a debounce before every read.                           *)
(*                                                                         *)
(* A content is [exists, size, text, doc]: what the file system, the size  *)
(* limit, the UTF-8 check and the codec tell apart.  The mtime of a        *)
(* content is the number of the edit that wrote it.  A read stats the file *)
(* first and reads it afterwards, with room for an edit between the two.   *)
(***************************************************************************)
EXTENDS RelayConfig

CONSTANTS
    Contents,       \* what an edit may leave in the file
    RawConfigs,     \* relay configurations, as written
    MaxEdits        \* bound: edits of the file

VARIABLES
    conf,       \* Settings of the configuration; never changes
    file,       \* the watched file: content and mtime
    event,      \* event_rx: nothing, or a Modify or Create event "queued"
    watch,      \* where stream() or the watcher task is
    last,       \* last_mtime
    timer,      \* debounce_timer
    out,        \* what the watcher task is sending
    chan,       \* the channel of capacity 1
    base,       \* history: mtime of what stream() read first
    gap         \* history: the task's first last_mtime hides an edit

Configs == {Settings(v) : v \in {r \in RawConfigs : Starts(r)}}

ingestVars == <<conf, file, event, watch, last, timer, out, chan, base, gap>>

DEFAULT_MAX_BYTES == 10 * 1024 * 1024
NoMtime == -1

Empty == [kind |-> "empty"]
Error == [kind |-> "err"]
Read(doc, n) == [kind |-> "ok", doc |-> doc, mtime |-> n]

Streaming == {"baseline", "idle", "checked", "sending"}

\* build_ingest: FileIngest, or a stream that never yields.
Start(c) == IF c.source.kind = "file" THEN "stopped" ELSE "pending"

IngestInit ==
    /\ conf \in Configs
    /\ file \in [content : Contents, mtime : {0}]
    /\ event = "none" /\ watch = Start(conf)
    /\ last = NoMtime /\ base = NoMtime
    /\ timer = "off" /\ gap = "no"
    /\ out = Empty /\ chan = Empty

-----------------------------------------------------------------------------
(* Reading the file.                                                       *)

infer_format(ext) ==
    CASE ext \in {"yaml", "yml"} -> "Yaml"
      [] ext = "json" -> "Json"
      [] OTHER -> "Unknown"

is_supported(format) == format \in {"Yaml", "Json"}

validate_format == is_supported(infer_format(conf.source.path))

validate_size(size, max_bytes) == ~(max_bytes > 0 /\ size > max_bytes)

validate_bytes(c) == c.size > 0 /\ c.text = "words"

Fits(c) == validate_size(c.size, DEFAULT_MAX_BYTES)

Mtime == IF file.content.exists = "yes" THEN file.mtime ELSE NoMtime

\* tokio::fs::read and the checks on what it returned.
Contained ==
    LET c == file.content
    IN  IF c.exists = "yes" /\ Fits(c) /\ validate_bytes(c)
        THEN Read(c.doc, file.mtime)
        ELSE Error

-----------------------------------------------------------------------------
(* An editor writes, replaces or removes the file.  Once the watch is      *)
(* registered the edit may raise an event, which may be lost: the file     *)
(* was replaced by rename, the queue of the kernel overflowed.             *)
Edit(c) ==
    /\ file.mtime < MaxEdits /\ c # file.content
    /\ file' = [content |-> c, mtime |-> file.mtime + 1]
    /\ event' \in IF watch \in Streaming THEN {event, "queued"} ELSE {event}
    /\ UNCHANGED <<conf, watch, last, timer, out, chan, base, gap>>

(* stream(): read_artifact, then spawn_watcher.                            *)

Emit(item) ==
    /\ chan' = item /\ watch' = "read" /\ base' = Mtime
    /\ UNCHANGED <<conf, file, event, last, timer, out, gap>>

\* read_artifact up to the size of the file.
ReadStat ==
    /\ watch = "stopped"
    /\ \/ /\ ~(validate_format /\ file.content.exists = "yes" /\ Fits(file.content))
          /\ Emit(Error)
       \/ /\ validate_format /\ file.content.exists = "yes" /\ Fits(file.content)
          /\ watch' = "opened"
          /\ UNCHANGED <<conf, file, event, last, timer, out, chan, base, gap>>

ReadFirst == watch = "opened" /\ Emit(Contained)

\* watcher.watch: the path must exist, or stream() fails and drops its channel.
WatchPath ==
    /\ watch = "read"
    /\ \/ /\ file.content.exists = "yes"
          /\ watch' = "baseline" /\ UNCHANGED chan
       \/ /\ file.content.exists = "no"
          /\ watch' = "backoff" /\ chan' = Empty
    /\ UNCHANGED <<conf, file, event, last, timer, out, base, gap>>

\* run_pipeline's restart_backoff has slept: stream() again.
BackOff ==
    /\ watch = "backoff"
    /\ watch' = "stopped"
    /\ UNCHANGED <<conf, file, event, last, timer, out, chan, base, gap>>

(* The watcher task.                                                       *)

\* The spawned task takes its first last_mtime.
Baseline ==
    /\ watch = "baseline"
    /\ watch' = "idle" /\ last' = Mtime
    /\ gap' = IF Mtime = base THEN "no" ELSE "yes"
    /\ UNCHANGED <<conf, file, event, timer, out, chan, base>>

Detect ==
    /\ last' = Mtime /\ timer' = "on" /\ gap' = "no"
    /\ UNCHANGED <<conf, file, watch, out, chan, base>>

TakeEvent == watch = "idle" /\ event = "queued" /\ event' = "none" /\ Detect

\* Bug: the poll does not look at the mtime unless an event came.
PollTickBlind == watch = "idle" /\ Mtime # last /\ event = "queued" /\ Detect /\ UNCHANGED event

PollTick == watch = "idle" /\ Mtime # last /\ Detect /\ UNCHANGED event

\* The debounce timer fires; a size that cannot be read is not an error yet.
Debounced ==
    /\ watch = "idle" /\ timer = "on"
    /\ timer' = "off"
    /\ \/ /\ ~(validate_format /\ Fits(file.content))
          /\ out' = Error /\ watch' = "sending"
       \/ /\ validate_format /\ Fits(file.content)
          /\ watch' = "checked" /\ UNCHANGED out
    /\ UNCHANGED <<conf, file, event, last, chan, base, gap>>

ReadAgain ==
    /\ watch = "checked"
    /\ out' = Contained /\ watch' = "sending"
    /\ UNCHANGED <<conf, file, event, last, timer, chan, base, gap>>

\* tx.send waits for room in the channel.
Send ==
    /\ watch = "sending" /\ chan = Empty
    /\ chan' = out /\ out' = Empty /\ watch' = "idle"
    /\ UNCHANGED <<conf, file, event, last, timer, base, gap>>

StreamStep == ReadStat \/ ReadFirst \/ WatchPath \/ BackOff
WatchStep == Baseline \/ TakeEvent \/ PollTick \/ Debounced \/ ReadAgain \/ Send

=============================================================================
