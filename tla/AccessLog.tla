----------------------------- MODULE AccessLog -----------------------------
(***************************************************************************)
(* The access log (telemetry/access_log.rs): finished requests hand an     *)
(* entry to a bounded channel without waiting, and a worker writes what it *)
(* receives to stdout or to a file.  An entry is the request it is about.  *)
(***************************************************************************)
EXTENDS Integers, Sequences

CONSTANT ChannelCapacity    \* PAVIS_ACCESS_LOG_CHANNEL_CAPACITY, Unset or a number

VARIABLES
    policy,     \* AccessLogPolicy of the configuration the process booted with
    chan,       \* the channel; entries in the order they were sent
    worker,     \* AccessLogWorker: "new", "running", "stopped"
    writer,     \* "none", or "ready" once stdout or the file is open
    written,    \* the log
    dropped,    \* pavis_telemetry_access_log_dropped_total
    offered,    \* history: entries of requests that ended with the log enabled
    failures    \* history: writes that failed

logVars == <<policy, chan, worker, writer, written, dropped, offered, failures>>

Unset == -1

\* 4096 when the variable is not set or is not a number.
access_log_channel_capacity == IF ChannelCapacity = Unset THEN 4096 ELSE ChannelCapacity

HasChannel == policy # "Disabled"

\* Without a channel the service has nothing to do.
LogInit(p) ==
    /\ policy = p
    /\ chan = <<>> /\ writer = "none"
    /\ worker = IF p = "Disabled" THEN "stopped" ELSE "new"
    /\ written = <<>> /\ dropped = 0
    /\ offered = <<>> /\ failures = 0

-----------------------------------------------------------------------------
(* AccessLog::log, at the end of a request.                                *)

\* Bug: an entry that does not fit is dropped and not counted.
TrySendUncounted(e, counter) ==
    /\ chan' = IF worker # "stopped" /\ Len(chan) < access_log_channel_capacity
               THEN Append(chan, e) ELSE chan
    /\ UNCHANGED dropped

\* try_send with metrics or without: a full channel drops the entry and counts
\* it, a closed one only drops it.
TrySend(e, counter) ==
    IF worker # "stopped" /\ Len(chan) < access_log_channel_capacity
    THEN chan' = Append(chan, e) /\ UNCHANGED dropped
    ELSE /\ dropped' = IF worker # "stopped" /\ counter = "on" THEN dropped + 1 ELSE dropped
         /\ UNCHANGED chan

\* The policy of the configuration the request ran with decides, and the
\* channel of the one the process booted with.
Log(e, current, counter) ==
    /\ IF current # "Disabled" /\ HasChannel
       THEN TrySend(e, counter) /\ offered' = Append(offered, e)
       ELSE UNCHANGED <<chan, dropped, offered>>
    /\ UNCHANGED <<policy, worker, writer, written, failures>>

-----------------------------------------------------------------------------
(* AccessLogWorker::start_service.                                         *)

\* A file that cannot be opened leaves the worker without a writer, and it
\* goes on receiving.
StartWorker ==
    /\ worker = "new"
    /\ worker' = "running"
    /\ writer' \in IF policy = "File" THEN {"ready", "none"} ELSE {"ready"}
    /\ UNCHANGED <<policy, chan, written, dropped, offered, failures>>

WriteEntry ==
    /\ worker = "running" /\ chan # <<>>
    /\ chan' = Tail(chan)
    /\ written' = IF writer = "ready" THEN Append(written, Head(chan)) ELSE written
    /\ UNCHANGED <<policy, worker, writer, dropped, offered, failures>>

\* write_all or flush fails: reported on stderr, the worker goes on.  written
\* has the lines whose flush succeeded: the bytes of one that was reported may
\* stay in the BufWriter and reach the file with the next flush, in order.
WriteFails ==
    /\ worker = "running" /\ writer = "ready" /\ chan # <<>>
    /\ chan' = Tail(chan) /\ failures' = failures + 1
    /\ UNCHANGED <<policy, worker, writer, written, dropped, offered>>

\* The shutdown signal wins the select, whatever is in the channel; dropping
\* the receiver closes it.
StopWorker ==
    /\ worker = "running"
    /\ worker' = "stopped" /\ chan' = <<>>
    /\ UNCHANGED <<policy, writer, written, dropped, offered, failures>>

-----------------------------------------------------------------------------
\* An entry is in a sequence, another after it.
Before(s, d, e) == \E i, j \in DOMAIN s : i < j /\ s[i] = d /\ s[j] = e

=============================================================================
