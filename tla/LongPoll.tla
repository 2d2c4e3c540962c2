------------------------------ MODULE LongPoll ------------------------------
(***************************************************************************)
(* The relay's long poll: get_config (handlers.rs) against the in-memory   *)
(* half of publish (runtime.rs).  publish replaces the snapshot, awaits    *)
(* the history lock, and only then wakes the waiters and marks the relay   *)
(* ready; get_config reads the snapshot first and registers with the       *)
(* notifier afterwards.                                                    *)
(*                                                                         *)
(* A client stands for an agent: it sends the ETag of the artifact it      *)
(* holds and polls again after every answer.  Inside the handler's loop    *)
(* current_etag always equals that ETag, so it needs no variable.  The     *)
(* answers that carry nothing (204, 304, 503) end the request and change   *)
(* nothing else; a 304 and a 503 are given in the step that receives the   *)
(* request.                                                                *)
(***************************************************************************)
EXTENDS Integers, Wire

CONSTANTS
    Client,
    MaxPublishes,   \* bound: publishes
    MaxDrops        \* bound: publish requests whose client disconnects

ASSUME PollAssumption ==
    /\ None \notin Artifact
    /\ MaxPublishes \in Nat /\ MaxDrops \in Nat

VARIABLES
    snap,       \* RelaySnapshot: version and artifact
    ready,      \* RelayRuntimeState.ready
    pub,        \* the publish in flight: "idle", or whether the ETag "changed"
    req,        \* where each client's request is
    have,       \* what each client got last
    drops       \* publishes dropped so far

vars == <<snap, ready, pub, req, have, drops>>

OptArtifact == Artifact \cup {None}
Snapshot == [version : 0..MaxPublishes, art : OptArtifact]

\* Every variable has its type.
TypeOK ==
    /\ snap \in Snapshot
    /\ ready \in {"yes", "no"}
    /\ pub \in {"idle", "changed", "same"}
    /\ req \in [Client -> {"none", "looking", "waiting", "woken"}]
    /\ have \in [Client -> Snapshot]
    /\ drops \in 0..MaxDrops

\* new_with_options: with the LKG, or with nothing.
Init ==
    /\ \E a \in OptArtifact : snap = [version |-> 0, art |-> a]
    /\ ready = IF snap.art = None THEN "no" ELSE "yes"
    /\ pub = "idle"
    /\ req = [c \in Client |-> "none"]
    /\ have = [c \in Client |-> [version |-> 0, art |-> None]]
    /\ drops = 0

-----------------------------------------------------------------------------
(* publish, under publish_lock.                                            *)

\* Bug: without execute_plan, a version proposed earlier is stored later.
SetSnapshotUnchecked(a) ==
    /\ pub = "idle" /\ snap.version < MaxPublishes
    /\ \E v \in 0..(snap.version + 1) : snap' = [version |-> v, art |-> a]
    /\ pub' = IF a = snap.art THEN "same" ELSE "changed"
    /\ UNCHANGED <<ready, req, have, drops>>

SetSnapshot(a) ==
    /\ pub = "idle" /\ snap.version < MaxPublishes
    /\ snap' = [version |-> snap.version + 1, art |-> a]
    /\ pub' = IF a = snap.art THEN "same" ELSE "changed"
    /\ UNCHANGED <<ready, req, have, drops>>

\* notify_waiters: every registered Notified fires.
NotifyWaiters == [c \in Client |-> IF req[c] = "waiting" THEN "woken" ELSE req[c]]

\* Bug: publish does not mark the relay ready.
AnnounceUnready ==
    /\ pub # "idle"
    /\ req' = IF pub = "changed" THEN NotifyWaiters ELSE req
    /\ ready' = ready
    /\ pub' = "idle"
    /\ UNCHANGED <<snap, have, drops>>

\* The history lock is granted: index, wake, mark_ready.
Announce ==
    /\ pub # "idle"
    /\ req' = IF pub = "changed" THEN NotifyWaiters ELSE req
    /\ ready' = "yes"
    /\ pub' = "idle"
    /\ UNCHANGED <<snap, have, drops>>

\* The publishing client goes away while publish waits for the history lock.
DropPublish ==
    /\ pub # "idle" /\ drops < MaxDrops
    /\ drops' = drops + 1
    /\ pub' = "idle"
    /\ UNCHANGED <<snap, ready, req, have>>

-----------------------------------------------------------------------------
(* get_config for client c.                                                *)

current_etag == etag_from_checksum(artifact_checksum(snap.art))

\* The answer reaches the agent, which keeps bytes that match their ETag.
Answer(c, r) ==
    /\ req' = [req EXCEPT ![c] = "none"]
    /\ IF fetch_once(r) = "NewArtifact" /\ Intact(r)
       THEN have' = [have EXCEPT ![c] = [version |-> r.version, art |-> r.body]]
       ELSE UNCHANGED have

GoTo(c, place) ==
    /\ req' = [req EXCEPT ![c] = place]
    /\ UNCHANGED have

\* The ETag the client sends is the current one.
Current(c) == parse_if_none_match(if_none_match(have[c].art)) = {current_etag}

\* Nothing to serve yet.
GetUnready(c) ==
    /\ req[c] = "none" /\ ready = "no"
    /\ Answer(c, build_503_response)
    /\ UNCHANGED <<snap, ready, pub, drops>>

\* No ETag, or another one.
GetNew(c) ==
    /\ req[c] = "none" /\ ready = "yes" /\ ~Current(c)
    /\ Answer(c, build_200_response(snap, current_etag))
    /\ UNCHANGED <<snap, ready, pub, drops>>

\* The client's ETag is current and wait_ms > 0 ...
GetCurrent(c) ==
    /\ req[c] = "none" /\ ready = "yes" /\ Current(c)
    /\ GoTo(c, "looking")
    /\ UNCHANGED <<snap, ready, pub, drops>>

\* ... or long polling is off.
GetUnchanged(c) ==
    /\ req[c] = "none" /\ ready = "yes" /\ Current(c)
    /\ Answer(c, build_304_response(current_etag))
    /\ UNCHANGED <<snap, ready, pub, drops>>

\* The head of the loop: notified(), or 204 past the deadline.
Register(c) ==
    /\ req[c] = "looking"
    /\ GoTo(c, "waiting")
    /\ UNCHANGED <<snap, ready, pub, drops>>

Expire(c) ==
    /\ req[c] \in {"looking", "waiting"}
    /\ Answer(c, build_204_response(checksum_for_bytes(have[c].art)))
    /\ UNCHANGED <<snap, ready, pub, drops>>

\* The notifier fired: read the snapshot again, go on if the ETag is the same.
Resume(c) ==
    /\ req[c] = "woken"
    /\ IF current_etag # checksum_for_bytes(have[c].art)
       THEN Answer(c, build_200_response(snap, current_etag))
       ELSE GoTo(c, "looking")
    /\ UNCHANGED <<snap, ready, pub, drops>>

Poll(c) ==
    \/ GetUnready(c) \/ GetNew(c) \/ GetCurrent(c) \/ GetUnchanged(c)
    \/ Register(c) \/ Expire(c) \/ Resume(c)

Next ==
    \/ \E a \in Artifact : SetSnapshot(a)
    \/ Announce
    \/ DropPublish
    \/ \E c \in Client : Poll(c)

Spec == Init /\ [][Next]_vars

\* The runtime polls every future that can make progress, a deadline passes,
\* and an agent polls again after every answer.
Fairness ==
    /\ WF_vars(Announce)
    /\ \A c \in Client : WF_vars(GetNew(c)) /\ WF_vars(Expire(c)) /\ WF_vars(Resume(c))

FairSpec == Spec /\ Fairness

-----------------------------------------------------------------------------
(* Properties.                                                             *)

\* Answers to one client never go back in time, whatever wake-ups, timeouts
\* and dropped publishes come between: get_config answers from a snapshot read
\* after the last wake-up.
ClientNeverGoesBack ==
    [][\A c \in Client : have'[c].version >= have[c].version]_have

\* No client is sent again the bytes it holds, not even when they were published
\* again under a higher version: the ETag it sends back, quoted and read on both
\* sides, is recognised, and a wake-up re-checks it before it answers.
NoRedundantAnswer ==
    [][\A c \in Client : have'[c] # have[c] => have'[c].art # have[c].art]_vars

\* Once publishes stop, every agent ends up with the artifact of the snapshot,
\* even if its wake-up was lost: the long poll times out and the next one
\* compares ETags.  Only a publish dropped before mark_ready may leave a relay
\* that answers nobody.
EventuallyCurrent ==
    <>[]((ready = "yes" \/ drops = 0) => \A c \in Client : have[c].art = snap.art)

=============================================================================
