------------------------ MODULE RelayPipelineProofs ------------------------
(***************************************************************************)
(* The relay as a whole, for any configuration and number of edits,        *)
(* failed publishes, posts and restarts: what LongPoll promises the agents *)
(* still holds, and the pipeline does not publish an older content of the  *)
(* file over a newer one.                                                  *)
(***************************************************************************)
EXTENDS RelayPipeline, SequenceTheorems, TLAPS

\* The provers get more time than by default: the contexts are large.
USE SMTT(15), ZenonT(30)

-----------------------------------------------------------------------------
(* The long poll by itself (Spec of LongPoll).                             *)

\* No client holds a version the snapshot has not reached.
NotAhead == \A c \in Client : have[c].version <= snap.version

IInv == TypeOK /\ NotAhead

\* The ETag of an artifact survives the way to the agent and back.
LEMMA EtagRoundTrip ==
    ASSUME NEW a \in Artifact
    PROVE  /\ etag_from_checksum(artifact_checksum(a)) = checksum_for_bytes(a)
           /\ parse_if_none_match(if_none_match(a)) = {checksum_for_bytes(a)}
BY PollAssumption DEF PollAssumption, etag_from_checksum, artifact_checksum, to_lowercase,
   checksum_for_bytes, parse_if_none_match, if_none_match, quote_etag, Spelled

\* An answer leaves the client with what it had, or with the artifact answered.
LEMMA AnswerStep ==
    ASSUME IInv, NEW c \in Client, NEW r, Answer(c, r),
           r.status = 200 => r.version = snap.version /\ r.body = snap.art
    PROVE  /\ req' \in [Client -> {"none", "looking", "waiting", "woken"}]
           /\ have' = have \/ (have' = [have EXCEPT ![c] = snap] /\ r.status = 200)
<1>1. snap = [version |-> snap.version, art |-> snap.art]
    BY DEF IInv, TypeOK, Snapshot
<1>2. fetch_once(r) = "NewArtifact" => r.status = 200
    BY DEF fetch_once
<1> QED BY <1>1, <1>2 DEF Answer, IInv, TypeOK

\* The two steps that answer with an artifact.
Served(c) == GetNew(c) \/ (Resume(c) /\ current_etag # checksum_for_bytes(have[c].art))

\* A request's step moves only that client, to the snapshot or nowhere.
LEMMA PollStep ==
    ASSUME IInv, NEW c \in Client, Poll(c)
    PROVE  /\ UNCHANGED <<snap, ready, pub, drops>>
           /\ req' \in [Client -> {"none", "looking", "waiting", "woken"}]
           /\ have' = have \/ have' = [have EXCEPT ![c] = snap]
           /\ have' # have => Served(c)
<1> DEFINE full == build_200_response(snap, current_etag)
<1>1. full.status = 200 /\ full.version = snap.version /\ full.body = snap.art
    BY DEF build_200_response
<1>2. CASE GetNew(c)
    BY <1>1, <1>2, AnswerStep DEF GetNew, Served
<1>3. CASE Resume(c)
    <2>1. CASE current_etag # checksum_for_bytes(have[c].art)
        BY <1>1, <1>3, <2>1, AnswerStep DEF Resume, Served
    <2>2. CASE current_etag = checksum_for_bytes(have[c].art)
        BY <1>3, <2>2 DEF Resume, GoTo, IInv, TypeOK
    <2> QED BY <2>1, <2>2
<1>4. CASE GetUnready(c)
    <2>1. build_503_response.status = 503
        BY DEF build_503_response
    <2> QED BY <1>4, <2>1, AnswerStep DEF GetUnready
<1>5. CASE GetUnchanged(c)
    <2>1. build_304_response(current_etag).status = 304
        BY DEF build_304_response
    <2> QED BY <1>5, <2>1, AnswerStep DEF GetUnchanged
<1>6. CASE Expire(c)
    <2>1. build_204_response(checksum_for_bytes(have[c].art)).status = 204
        BY DEF build_204_response
    <2> QED BY <1>6, <2>1, AnswerStep DEF Expire
<1>7. CASE GetCurrent(c) \/ Register(c)
    BY <1>7 DEF GetCurrent, Register, GoTo, IInv, TypeOK
<1> QED BY <1>2, <1>3, <1>4, <1>5, <1>6, <1>7 DEF Poll

\* The invariant holds before the first publication.
LEMMA InitIInv == Init => IInv
BY PollAssumption DEF PollAssumption, Init, IInv, TypeOK, NotAhead, Snapshot, OptArtifact

\* Every step preserves the invariant, and no step takes a client back.
LEMMA NextIInv ==
    ASSUME IInv, [Next]_vars
    PROVE  IInv' /\ \A c \in Client : have'[c].version >= have[c].version
<1> USE PollAssumption DEF PollAssumption
<1>0. \A c \in Client : have[c].version \in Nat /\ snap.version \in Nat
    BY DEF IInv, TypeOK, Snapshot
<1>1. ASSUME NEW a \in Artifact, SetSnapshot(a) PROVE IInv' /\ UNCHANGED have
    <2>1. snap' \in Snapshot /\ snap'.version = snap.version + 1
        BY <1>1 DEF SetSnapshot, IInv, TypeOK, Snapshot, OptArtifact
    <2>2. NotAhead'
        BY <1>0, <1>1, <2>1 DEF SetSnapshot, IInv, NotAhead
    <2> QED BY <1>1, <2>1, <2>2 DEF SetSnapshot, IInv, TypeOK
<1>2. CASE Announce
    BY <1>0, <1>2 DEF Announce, NotifyWaiters, IInv, TypeOK, NotAhead
<1>3. CASE DropPublish
    BY <1>0, <1>3 DEF DropPublish, IInv, TypeOK, NotAhead
<1>4. ASSUME NEW c \in Client, Poll(c)
      PROVE  IInv' /\ \A d \in Client : have'[d].version >= have[d].version
    <2>1. /\ UNCHANGED <<snap, ready, pub, drops>>
          /\ req' \in [Client -> {"none", "looking", "waiting", "woken"}]
          /\ have' = have \/ have' = [have EXCEPT ![c] = snap]
        BY <1>4, PollStep
    <2>2. have' \in [Client -> Snapshot]
        BY <2>1 DEF IInv, TypeOK
    <2>3. \A d \in Client : have'[d] = have[d] \/ have'[d] = snap
        BY <2>1 DEF IInv, TypeOK
    <2>4. TypeOK'
        BY <2>1, <2>2 DEF IInv, TypeOK
    <2>5. NotAhead' /\ \A d \in Client : have'[d].version >= have[d].version
        BY <1>0, <2>1, <2>3 DEF IInv, NotAhead
    <2> QED BY <2>4, <2>5 DEF IInv
<1>5. CASE UNCHANGED vars
    BY <1>0, <1>5 DEF vars, IInv, TypeOK, NotAhead
<1> QED
    BY <1>0, <1>1, <1>2, <1>3, <1>4, <1>5 DEF Next

\* Answers to one client never go back in time.
THEOREM PollMonotone == Spec => ClientNeverGoesBack
<1>1. IInv /\ [Next]_vars => IInv'
    BY NextIInv
<1>2. IInv /\ [Next]_vars => [\A c \in Client : have'[c].version >= have[c].version]_have
    BY NextIInv
<1> QED BY <1>1, <1>2, InitIInv, PTL DEF Spec, ClientNeverGoesBack

\* What a client receives is new to it.
Fresh == \A c \in Client : have'[c] # have[c] => have'[c].art # have[c].art

\* A client is not sent the bytes it holds.
LEMMA NextFresh ==
    ASSUME IInv, [Next]_vars
    PROVE  [Fresh]_vars
<1> SUFFICES ASSUME NEW d \in Client, have'[d] # have[d], Next, have'[d].art = have[d].art
             PROVE  FALSE
    BY DEF Fresh
<1>1. PICK c \in Client : Poll(c)
    BY DEF Next, SetSnapshot, Announce, DropPublish
<1>2. d = c
    BY <1>1, PollStep DEF IInv, TypeOK
<1>3. have'[d] = snap /\ snap.art = have[d].art
    BY <1>1, <1>2, PollStep DEF IInv, TypeOK
<1>4. snap.art \in Artifact
    <2>1. Answer(d, build_200_response(snap, current_etag))
        BY <1>1, <1>2, PollStep DEF GetNew, Resume, Served
    <2>2. ASSUME snap.art = None PROVE FALSE
        <3>1. current_etag.digits = None
            BY <2>2 DEF current_etag, etag_from_checksum, artifact_checksum, to_lowercase
        <3>2. fetch_once(build_200_response(snap, current_etag)) # "NewArtifact"
            BY <3>1 DEF fetch_once, build_200_response, parse_etag_header, quote_etag, Spelled
        <3> QED BY <2>1, <3>2 DEF Answer
    <2> QED BY <2>2 DEF IInv, TypeOK, Snapshot, OptArtifact
<1>5. current_etag = checksum_for_bytes(have[d].art) /\ Current(d)
    BY <1>3, <1>4, EtagRoundTrip DEF current_etag, Current
<1> QED BY <1>1, <1>2, <1>5, PollStep DEF GetNew, Served

\* No client is sent again the bytes it holds.
THEOREM PollNotRedundant == Spec => NoRedundantAnswer
<1>1. IInv /\ [Next]_vars => IInv' /\ [Fresh]_vars
    BY NextIInv, NextFresh
<1> QED BY <1>1, InitIInv, PTL DEF Spec, NoRedundantAnswer, Fresh

-----------------------------------------------------------------------------
(* The pipeline.                                                           *)

\* An item of the stream carries a document of the file, at most as new as it.
Item(x) == x.kind = "ok" => x.doc.art \in OptArtifact /\ x.mtime \in 0..file.mtime

PipelineTyped ==
    /\ file.content \in Contents /\ file.mtime \in 0..MaxEdits
    /\ queue \in Seq(Job) /\ asleep \in Seq(Job)
    /\ published \in Int
    /\ Item(out) /\ Item(chan)

\* The handle_artifact futures that have something to publish.
Waiting == Range(queue) \cup Range(asleep)

\* With one artifact in flight, what is published, in flight, in the channel, in
\* the watcher's hands and in the file is in the order of the edits.
Ordered ==
    max_in_flight(conf) = 1 =>
        /\ InFlight <= 1
        /\ out.kind # "empty" => watch = "sending"
        /\ published <= file.mtime
        /\ \A j \in Waiting :
              /\ published <= j.mtime /\ j.mtime <= file.mtime
              /\ chan.kind = "ok" => j.mtime <= chan.mtime
              /\ out.kind = "ok" => j.mtime <= out.mtime
        /\ chan.kind = "ok" => published <= chan.mtime
        /\ out.kind = "ok" => published <= out.mtime
        /\ chan.kind = "ok" /\ out.kind = "ok" => chan.mtime <= out.mtime

-----------------------------------------------------------------------------
(* Sequences of waiting futures.                                           *)

\* A future joins a queue at its end.
LEMMA AppendWaiting ==
    ASSUME NEW S, NEW s \in Seq(S), NEW e \in S
    PROVE  /\ Append(s, e) \in Seq(S) /\ Len(Append(s, e)) = Len(s) + 1
           /\ Range(Append(s, e)) = Range(s) \cup {e}
<1>1. /\ Append(s, e) \in Seq(S) /\ Len(Append(s, e)) = Len(s) + 1 /\ Len(s) \in Nat
      /\ \A i \in 1..Len(s) : Append(s, e)[i] = s[i]
      /\ Append(s, e)[Len(s) + 1] = e
    BY AppendProperties, LenProperties
<1>2. DOMAIN s = 1..Len(s) /\ DOMAIN Append(s, e) = 1..(Len(s) + 1)
    BY <1>1, LenProperties
<1> QED BY <1>1, <1>2 DEF Range

\* The first future leaves its queue.
LEMMA TailWaiting ==
    ASSUME NEW S, NEW s \in Seq(S), s # <<>>
    PROVE  /\ Tail(s) \in Seq(S) /\ Len(Tail(s)) = Len(s) - 1 /\ Len(s) \in Nat \ {0}
           /\ Range(Tail(s)) \subseteq Range(s) /\ Head(s) \in Range(s) /\ Head(s) \in S
<1>1. Head(s) = s[1] /\ Len(s) \in Nat \ {0}
    BY EmptySeq
<1>2. /\ Head(s) \in S /\ Tail(s) \in Seq(S) /\ Len(Tail(s)) = Len(s) - 1
      /\ \A i \in 1..Len(Tail(s)) : Tail(s)[i] = s[i + 1]
    BY HeadTailProperties
<1>3. DOMAIN s = 1..Len(s) /\ DOMAIN Tail(s) = 1..(Len(s) - 1)
    BY <1>2, LenProperties
<1>4. Range(Tail(s)) \subseteq Range(s) /\ s[1] \in Range(s)
    BY <1>1, <1>2, <1>3 DEF Range
<1> QED BY <1>1, <1>2, <1>4

\* A future leaves its queue from anywhere.
LEMMA RemoveWaiting ==
    ASSUME NEW S, NEW s \in Seq(S), NEW i \in DOMAIN s
    PROVE  /\ Without(s, i) \in Seq(S) /\ Len(Without(s, i)) = Len(s) - 1
           /\ Range(Without(s, i)) \subseteq Range(s) /\ s[i] \in Range(s) /\ s[i] \in S
<1>1. Len(s) \in Nat /\ DOMAIN s = 1..Len(s) /\ \A j \in 1..Len(s) : s[j] \in S
    BY LenProperties, ElementOfSeq
<1> DEFINE a == SubSeq(s, 1, i - 1)
           b == SubSeq(s, i + 1, Len(s))
<1>2. a \in Seq(S) /\ Len(a) = i - 1 /\ \A j \in 1..(i - 1) : a[j] = s[j]
    <2>1. i - 1 \in Int /\ 1 \in Int /\ \A j \in 1..(i - 1) : s[j] \in S
        BY <1>1
    <2> HIDE DEF a
    <2>2. /\ a \in Seq(S) /\ Len(a) = IF 1 <= i - 1 THEN (i - 1) - 1 + 1 ELSE 0
          /\ \A j \in 1..((i - 1) - 1 + 1) : a[j] = s[1 + j - 1]
        BY <2>1, SubSeqProperties DEF a
    <2> QED BY <1>1, <2>2
<1>3. b \in Seq(S) /\ Len(b) = Len(s) - i /\ \A j \in 1..(Len(s) - i) : b[j] = s[i + j]
    <2>1. i + 1 \in Int /\ Len(s) \in Int /\ \A j \in (i + 1)..Len(s) : s[j] \in S
        BY <1>1
    <2> HIDE DEF b
    <2>2. /\ b \in Seq(S) /\ Len(b) = IF i + 1 <= Len(s) THEN Len(s) - (i + 1) + 1 ELSE 0
          /\ \A j \in 1..(Len(s) - (i + 1) + 1) : b[j] = s[i + 1 + j - 1]
        BY <2>1, SubSeqProperties DEF b
    <2>3. Len(s) - (i + 1) + 1 = Len(s) - i /\ \A j \in Nat : i + 1 + j - 1 = i + j
        BY <1>1
    <2>4. \A j \in 1..(Len(s) - i) : b[j] = s[i + j]
        <3> SUFFICES ASSUME NEW j \in 1..(Len(s) - i) PROVE b[j] = s[i + j]
            OBVIOUS
        <3>1. j \in 1..(Len(s) - (i + 1) + 1) /\ i + 1 + j - 1 = i + j
            BY <1>1
        <3>2. b[j] = s[i + 1 + j - 1]
            BY <2>2, <3>1
        <3> QED BY <3>1, <3>2
    <2> QED BY <1>1, <2>2, <2>3, <2>4
<1>4. Without(s, i) = a \o b
    BY DEF Without
<1> HIDE DEF a, b
<1>5. a \o b \in Seq(S) /\ Len(a \o b) = Len(s) - 1
    <2>1. a \o b \in Seq(S) /\ Len(a \o b) = Len(a) + Len(b)
        BY <1>2, <1>3, ConcatProperties
    <2> QED BY <1>1, <1>2, <1>3, <2>1
<1>6. Range(a) \subseteq Range(s)
    <2>1. Range(a) = {a[j] : j \in 1..Len(a)} /\ Range(s) = {s[j] : j \in 1..Len(s)}
        BY <1>2, RangeEquality
    <2> QED BY <1>1, <1>2, <2>1
<1>7. Range(b) \subseteq Range(s)
    <2>1. Range(b) = {b[j] : j \in 1..Len(b)} /\ Range(s) = {s[j] : j \in 1..Len(s)}
        BY <1>3, RangeEquality
    <2> QED BY <1>1, <1>3, <2>1
<1>8. Range(a \o b) = Range(a) \cup Range(b)
    BY <1>2, <1>3, RangeConcatenation
<1> QED BY <1>1, <1>4, <1>5, <1>6, <1>7, <1>8, ZenonT(30) DEF Range

\* An empty queue holds no future.
LEMMA NoneWaiting ==
    ASSUME NEW S, NEW s \in Seq(S), Len(s) = 0
    PROVE  s = <<>> /\ Range(s) = {}
<1>1. s = <<>>
    BY EmptySeq
<1>2. DOMAIN s = 1..0
    BY LenProperties
<1> QED BY <1>1, <1>2 DEF Range

-----------------------------------------------------------------------------
(* The steps.                                                              *)

\* What a read of the file yields.
LEMMA ReadItem ==
    ASSUME PipelineTyped, Contained.kind = "ok"
    PROVE  Contained.doc.art \in OptArtifact /\ Contained.mtime = file.mtime
BY PipelineAssumption DEF PipelineAssumption, PipelineTyped, Contained, Read, Error, OptArtifact

\* A job that is retried is the same one, with its next attempt.
LEMMA RetriedJob ==
    ASSUME NEW j \in Job
    PROVE  [j EXCEPT !.attempt = @ + 1] \in Job /\ [j EXCEPT !.attempt = @ + 1].mtime = j.mtime
<1>1. j = [art |-> j.art, mtime |-> j.mtime, attempt |-> j.attempt]
    BY DEF Job
<1>2. j.art \in Artifact /\ j.mtime \in 0..MaxEdits /\ j.attempt \in Nat
    BY DEF Job
<1>3. j.attempt + 1 \in Nat
    BY <1>2
<1>4. [j EXCEPT !.attempt = @ + 1] = [art |-> j.art, mtime |-> j.mtime, attempt |-> j.attempt + 1]
    BY <1>1
<1>5. [art |-> j.art, mtime |-> j.mtime, attempt |-> j.attempt + 1] \in Job
    BY <1>2, <1>3 DEF Job
<1> QED BY <1>4, <1>5

\* The ingest leaves the pipeline and the configuration alone.
LEMMA IngestTyped == PipelineTyped /\ Ingest => PipelineTyped'
<1> SUFFICES ASSUME PipelineTyped, Ingest PROVE PipelineTyped'
    OBVIOUS
<1>1. UNCHANGED <<file, queue, asleep, published>>
    BY DEF Ingest, pipelineVars, StreamStep, WatchStep, ReadStat, ReadFirst, Emit, WatchPath, BackOff,
           Baseline, TakeEvent, PollTick, Detect, Debounced, ReadAgain, Send
<1>2. /\ chan' \in {chan, Empty, Error, Contained, out}
      /\ out' \in {out, Empty, Error, Contained}
    BY DEF Ingest, StreamStep, WatchStep, ReadStat, ReadFirst, Emit, WatchPath, BackOff,
           Baseline, TakeEvent, PollTick, Detect, Debounced, ReadAgain, Send
<1>3. file.mtime \in Nat /\ Item(out) /\ Item(chan) /\ Item(Empty) /\ Item(Error) /\ Item(Contained)
    BY ReadItem DEF PipelineTyped, Item, Empty, Error
<1>4. Item(out)' /\ Item(chan)'
    BY <1>1, <1>2, <1>3 DEF Item
<1> QED BY <1>1, <1>4 DEF PipelineTyped

\* The watcher reads the file as it is, and sends what it read before it reads again.
LEMMA IngestOrdered == PipelineTyped /\ Ordered /\ Ingest => Ordered'
<1> SUFFICES ASSUME PipelineTyped, Ordered, Ingest, max_in_flight(conf)' = 1 PROVE Ordered'
    BY DEF Ordered
<1>1. UNCHANGED <<conf, file, queue, asleep, published, active>>
    BY DEF Ingest, pipelineVars, StreamStep, WatchStep, ReadStat, ReadFirst, Emit, WatchPath, BackOff,
           Baseline, TakeEvent, PollTick, Detect, Debounced, ReadAgain, Send
<1>2. max_in_flight(conf) = 1 /\ Waiting' = Waiting /\ InFlight' = InFlight
    BY <1>1 DEF max_in_flight, Waiting, InFlight
<1>t. /\ file.mtime \in Nat /\ published \in Int /\ \A j \in Waiting : j.mtime \in Nat
      /\ chan.kind = "ok" => chan.mtime \in Nat /\ chan.mtime <= file.mtime
      /\ out.kind = "ok" => out.mtime \in Nat /\ out.mtime <= file.mtime
    <2>1. \A j \in Waiting : j \in Job
        BY RangeOfSeq DEF PipelineTyped, Waiting
    <2>2. \A j \in Waiting : j.mtime \in Nat
        BY <2>1 DEF Job
    <2>3. file.mtime \in Nat
        BY DEF PipelineTyped
    <2>4. published \in Int /\ Item(out) /\ Item(chan)
        BY ZenonT(30) DEF PipelineTyped
    <2> QED BY <2>2, <2>3, <2>4 DEF Item
<1>e. Empty.kind = "empty" /\ Error.kind = "err"
    BY DEF Empty, Error
<1>3. CASE UNCHANGED <<chan, out>> /\ watch # "sending"
    BY <1>1, <1>2, <1>3 DEF Ordered
<1>4. CASE watch # "sending" /\ chan' \in {Empty, Error, Contained} /\ UNCHANGED out
    <2>1. out.kind = "empty"
        BY <1>2, <1>4 DEF Ordered
    <2> QED BY <1>1, <1>2, <1>4, <1>t, <1>e, <2>1, ReadItem DEF Ordered
<1>5. CASE watch' = "sending" /\ out' \in {Error, Contained} /\ UNCHANGED chan
    BY <1>1, <1>2, <1>5, <1>t, <1>e, ReadItem DEF Ordered
<1>6. CASE Send
    BY <1>1, <1>2, <1>6, <1>t, <1>e DEF Send, Ordered
<1> QED
    BY <1>3, <1>4, <1>5, <1>6
    DEF Ingest, StreamStep, WatchStep, ReadStat, ReadFirst, Emit, WatchPath, BackOff,
        Baseline, TakeEvent, PollTick, Detect, Debounced, ReadAgain

\* Every step of the relay keeps the types.
LEMMA PipelineNextTyped == PipelineTyped /\ [RelayNext]_relayVars => PipelineTyped'
<1> SUFFICES ASSUME PipelineTyped, [RelayNext]_relayVars PROVE PipelineTyped'
    OBVIOUS
<1> USE PipelineAssumption DEF PipelineAssumption
<1>t. /\ file.mtime \in Nat /\ file.mtime <= MaxEdits /\ queue \in Seq(Job) /\ asleep \in Seq(Job)
      /\ published \in Int
    BY DEF PipelineTyped
<1>0. CASE UNCHANGED <<file, queue, asleep, published, out, chan>>
    BY <1>0 DEF PipelineTyped, Item
<1>1. CASE Operator
    <2>1. PICK c \in Contents : Edit(c)
        BY <1>1 DEF Operator
    <2>2. /\ file'.content \in Contents /\ file'.mtime = file.mtime + 1 /\ file.mtime < MaxEdits
          /\ UNCHANGED <<queue, asleep, published, out, chan>>
        BY <1>1, <2>1 DEF Operator, Edit, pipelineVars
    <2> QED BY <1>t, <2>2 DEF PipelineTyped, Item
<1>2. CASE Ingest
    BY <1>2, IngestTyped
<1>3. CASE Take
    <2>1. UNCHANGED <<file, asleep, published, out>> /\ chan' = Empty
        BY <1>3 DEF Take
    <2>2. queue' \in Seq(Job)
        <3> DEFINE art == IF chan.kind = "ok" THEN materialize(chan.doc) ELSE None
                   job == [art |-> art, mtime |-> chan.mtime, attempt |-> 1]
        <3>1. CASE art = None
            BY <1>3, <3>1, <1>t DEF Take
        <3>2. CASE art # None
            <4>1. chan.kind = "ok" /\ art \in Artifact /\ chan.mtime \in 0..MaxEdits
                BY <3>2, <1>t DEF PipelineTyped, Item, materialize, OptArtifact
            <4>2. job \in Job
                BY <4>1 DEF Job
            <4>3. queue' = Append(queue, job)
                BY <1>3, <3>2 DEF Take
            <4> QED BY <4>2, <4>3, <1>t, AppendProperties
        <3> QED BY <3>1, <3>2
    <2> QED BY <2>1, <2>2 DEF PipelineTyped, Item, Empty
<1>4. CASE PublishNext
    <2>1. /\ UNCHANGED <<file, asleep, out, chan>> /\ queue # <<>> /\ queue' = Tail(queue)
          /\ published' = Head(queue).mtime
        BY <1>4 DEF PublishNext, ingestVars
    <2>2. Tail(queue) \in Seq(Job) /\ Head(queue) \in Job
        BY <1>t, <2>1, HeadTailProperties
    <2> QED BY <2>1, <2>2 DEF PipelineTyped, Item, Job
<1>5. CASE PublishFails
    <2> DEFINE again == [Head(queue) EXCEPT !.attempt = @ + 1]
    <2>1. /\ UNCHANGED <<file, published, out, chan>> /\ queue # <<>> /\ queue' = Tail(queue)
          /\ asleep' = asleep \/ asleep' = Append(asleep, again)
        BY <1>5 DEF PublishFails, ingestVars
    <2>2. Tail(queue) \in Seq(Job) /\ Head(queue) \in Job
        BY <1>t, <2>1, HeadTailProperties
    <2>3. again \in Job
        BY <2>2, RetriedJob
    <2> HIDE DEF again
    <2>4. asleep' \in Seq(Job)
        <3>1. asleep \in Seq(Job)
            BY <1>t
        <3>2. Append(asleep, again) \in Seq(Job)
            BY <2>3, <3>1, AppendProperties
        <3> QED BY <2>1, <3>1, <3>2
    <2> QED BY <2>1, <2>2, <2>4 DEF PipelineTyped, Item
<1>6. CASE Wake
    <2>1. PICK i \in DOMAIN asleep : queue' = Append(queue, asleep[i]) /\ asleep' = Without(asleep, i)
        BY <1>6 DEF Wake
    <2>2. asleep' \in Seq(Job) /\ asleep[i] \in Job
        BY <1>t, <2>1, RemoveWaiting
    <2>3. queue' \in Seq(Job)
        BY <1>t, <2>1, <2>2, AppendProperties
    <2> QED BY <1>6, <2>2, <2>3 DEF Wake, PipelineTyped, Item, ingestVars
<1>7. CASE Restart
    <2>1. /\ UNCHANGED file /\ queue' = <<>> /\ asleep' = <<>> /\ out' = Empty /\ chan' = Empty
          /\ published' = published \/ (queue # <<>> /\ published' = Head(queue).mtime)
        BY <1>7 DEF Restart
    <2>2. queue # <<>> => Head(queue).mtime \in Int
        <3>1. queue # <<>> => Head(queue) \in Job
            BY <1>t, HeadTailProperties
        <3> QED BY <3>1 DEF Job
    <2>3. Empty.kind # "ok"
        BY DEF Empty
    <2>4. Item(out)' /\ Item(chan)'
        BY <2>1, <2>3, ZenonT(30) DEF Item
    <2>5. published' \in Int /\ queue' \in Seq(Job) /\ asleep' \in Seq(Job)
        BY <1>t, <2>1, <2>2
    <2>6. file'.content \in Contents /\ file'.mtime \in 0..MaxEdits
        BY <2>1, ZenonT(30) DEF PipelineTyped
    <2> QED BY <2>4, <2>5, <2>6, ZenonT(30) DEF PipelineTyped
<1>8. CASE Finish \/ Agents \/ PostDropped \/ (\E a \in Artifact : PostPublish(a)) \/ UNCHANGED relayVars
    BY <1>0, <1>8 DEF Finish, Agents, PostDropped, PostPublish, relayVars, ingestVars, pipelineVars
<1> QED
    BY <1>1, <1>2, <1>3, <1>4, <1>5, <1>6, <1>7, <1>8 DEF RelayNext, Pipeline

\* Every step of the relay keeps the order: a future in flight blocks the next
\* take, and a failed one stays in flight while it sleeps.
LEMMA NextOrdered == PipelineTyped /\ Ordered /\ [RelayNext]_relayVars => Ordered'
<1> SUFFICES ASSUME PipelineTyped, Ordered, [RelayNext]_relayVars, max_in_flight(conf)' = 1 PROVE Ordered'
    BY DEF Ordered
<1>c. UNCHANGED conf
    BY ZenonT(30) DEF RelayNext, relayVars, ingestVars, Operator, Edit, Ingest, Pipeline, Take, PublishNext,
        PublishFails, Wake,
           Finish, Agents, PostPublish, PostDropped, Restart, StreamStep, WatchStep, ReadStat, ReadFirst, Emit,
           WatchPath, BackOff, Baseline, TakeEvent, PollTick, Detect, Debounced, ReadAgain, Send
<1>o. max_in_flight(conf) = 1
    BY <1>c DEF max_in_flight
<1>t. /\ file.mtime \in Nat /\ published \in Int /\ queue \in Seq(Job) /\ asleep \in Seq(Job)
      /\ \A j \in Waiting : j.mtime \in Nat
      /\ Len(queue) \in Nat /\ Len(asleep) \in Nat
      /\ chan.kind = "ok" => chan.mtime \in Nat /\ chan.mtime <= file.mtime
      /\ out.kind = "ok" => out.mtime \in Nat /\ out.mtime <= file.mtime
    <2>1. \A j \in Waiting : j \in Job
        BY RangeOfSeq DEF PipelineTyped, Waiting
    <2>2. Len(queue) \in Nat /\ Len(asleep) \in Nat
        BY LenProperties DEF PipelineTyped
    <2>3. \A j \in Waiting : j.mtime \in Nat
        BY <2>1 DEF Job
    <2>4. file.mtime \in Nat
        BY DEF PipelineTyped
    <2>5. published \in Int /\ queue \in Seq(Job) /\ asleep \in Seq(Job) /\ Item(out) /\ Item(chan)
        BY ZenonT(30) DEF PipelineTyped
    <2>6. /\ chan.kind = "ok" => chan.mtime \in Nat /\ chan.mtime <= file.mtime
          /\ out.kind = "ok" => out.mtime \in Nat /\ out.mtime <= file.mtime
        BY <2>4, <2>5 DEF Item
    <2> QED BY <2>2, <2>3, <2>4, <2>5, <2>6, ZenonT(30)
<1>e. Empty.kind = "empty" /\ Error.kind = "err"
    BY DEF Empty, Error
<1>0. CASE UNCHANGED <<file, queue, asleep, published, out, chan, watch>> /\ InFlight' <= 1
    BY <1>0, <1>o DEF Ordered, Waiting
<1>1. CASE Operator
    <2>1. PICK c \in Contents : Edit(c)
        BY <1>1 DEF Operator
    <2>2. file'.mtime = file.mtime + 1 /\ UNCHANGED <<queue, asleep, published, out, chan, watch, active>>
        BY <1>1, <2>1 DEF Operator, Edit, pipelineVars
    <2>3. Waiting' = Waiting /\ InFlight' = InFlight
        BY <2>2 DEF Waiting, InFlight
    <2> QED BY <1>o, <1>t, <2>2, <2>3 DEF Ordered
<1>2. CASE Ingest
    BY <1>2, IngestOrdered
<1>3. CASE Take
    <2> DEFINE art == IF chan.kind = "ok" THEN materialize(chan.doc) ELSE None
               job == [art |-> art, mtime |-> chan.mtime, attempt |-> 1]
    <2>1. /\ UNCHANGED <<file, asleep, published, out, watch, active>> /\ chan' = Empty
          /\ queue' = queue \/ (queue' = Append(queue, job) /\ chan.kind = "ok")
          /\ InFlight < 1 /\ job.mtime = chan.mtime
        BY <1>3, <1>o DEF Take
    <2>2. /\ Len(queue) = 0 /\ Len(asleep) = 0 /\ active # "pipeline"
        BY <1>t, <2>1 DEF InFlight
    <2>3. Waiting = {} /\ queue = <<>> /\ asleep = <<>>
        BY <1>t, <2>2, NoneWaiting, ZenonT(30) DEF Waiting
    <2> HIDE DEF job, art
    <2>4. Waiting' \subseteq {job} /\ (Waiting' # {} => chan.kind = "ok") /\ InFlight' <= 1
        <3>1. CASE queue' = queue
            BY <2>1, <2>2, <2>3, <3>1 DEF Waiting, InFlight
        <3>2. CASE queue' = Append(queue, job) /\ chan.kind = "ok"
            <4>1. job \in {job} /\ queue \in Seq({job})
                BY <2>3, EmptySeq
            <4>2. /\ Len(Append(queue, job)) = Len(queue) + 1
                  /\ Range(Append(queue, job)) = Range(queue) \cup {job}
                BY <4>1, AppendWaiting
            <4>3. Len(queue') = 1 /\ Range(queue') = Range(queue) \cup {job}
                BY <2>2, <3>2, <4>2
            <4> QED BY <2>1, <2>2, <2>3, <3>2, <4>3 DEF Waiting, InFlight
        <3> QED BY <2>1, <3>1, <3>2
    <2> QED BY <1>o, <1>t, <1>e, <2>1, <2>4 DEF Ordered
<1>4. CASE PublishNext
    <2>1. /\ UNCHANGED <<file, asleep, out, chan, watch>> /\ queue # <<>> /\ queue' = Tail(queue)
          /\ published' = Head(queue).mtime /\ active = "nobody" /\ active' = "pipeline"
        BY <1>4 DEF PublishNext, ingestVars
    <2>2. /\ Tail(queue) \in Seq(Job) /\ Len(Tail(queue)) = Len(queue) - 1 /\ Len(queue) \in Nat \ {0}
          /\ Head(queue) \in Waiting
        BY <1>t, <2>1, TailWaiting DEF Waiting
    <2>3. Len(queue) = 1 /\ Len(asleep) = 0
        BY <1>o, <1>t, <2>1, <2>2 DEF Ordered, InFlight
    <2>4. Range(queue') = {} /\ Range(asleep') = {}
        <3>1. Len(Tail(queue)) = 0
            BY <2>2, <2>3
        <3>2. Range(Tail(queue)) = {}
            BY <2>2, <3>1, NoneWaiting, ZenonT(30)
        <3>3. Range(asleep) = {}
            BY <1>t, <2>3, NoneWaiting, ZenonT(30)
        <3> QED BY <2>1, <3>2, <3>3
    <2>5. Waiting' = {} /\ InFlight' <= 1
        BY <2>1, <2>2, <2>3, <2>4 DEF Waiting, InFlight
    <2> QED BY <1>o, <1>t, <2>1, <2>2, <2>5 DEF Ordered
<1>5. CASE PublishFails
    <2> DEFINE again == [Head(queue) EXCEPT !.attempt = @ + 1]
    <2>1. /\ UNCHANGED <<file, published, out, chan, watch, active>> /\ queue # <<>> /\ queue' = Tail(queue)
          /\ asleep' = asleep \/ asleep' = Append(asleep, again)
        BY <1>5 DEF PublishFails, ingestVars
    <2>2. /\ Tail(queue) \in Seq(Job) /\ Len(Tail(queue)) = Len(queue) - 1 /\ Len(queue) \in Nat \ {0}
          /\ Head(queue) \in Waiting /\ Head(queue) \in Job /\ Range(Tail(queue)) \subseteq Range(queue)
        BY <1>t, <2>1, TailWaiting DEF Waiting
    <2>3. again \in Job /\ again.mtime = Head(queue).mtime
        BY <2>2, RetriedJob
    <2> HIDE DEF again
    <2>4. Len(asleep') <= Len(asleep) + 1 /\ Range(asleep') \subseteq Range(asleep) \cup {again} /\ Len(asleep') \in Nat
        <3>1. CASE asleep' = asleep
            BY <1>t, <3>1
        <3>2. CASE asleep' = Append(asleep, again)
            <4>1. Len(asleep') = Len(asleep) + 1 /\ Range(asleep') = Range(asleep) \cup {again}
                BY <1>t, <2>3, <3>2, AppendWaiting
            <4> QED BY <1>t, <4>1
        <3> QED BY <2>1, <3>1, <3>2
    <2>5. InFlight' <= 1
        BY <1>o, <1>t, <2>1, <2>2, <2>4 DEF Ordered, InFlight
    <2>6. \A j \in Waiting' : \E i \in Waiting : j.mtime = i.mtime
        BY <1>t, <2>1, <2>2, <2>3, <2>4 DEF Waiting
    <2> QED BY <1>o, <1>t, <2>1, <2>5, <2>6 DEF Ordered
<1>6. CASE Wake
    <2>1. PICK i \in DOMAIN asleep : queue' = Append(queue, asleep[i]) /\ asleep' = Without(asleep, i)
        BY <1>6 DEF Wake
    <2>2. UNCHANGED <<file, published, out, chan, watch, active>>
        BY <1>6 DEF Wake, ingestVars
    <2>3. /\ Len(asleep') = Len(asleep) - 1 /\ Range(asleep') \subseteq Range(asleep)
          /\ asleep[i] \in Range(asleep) /\ asleep[i] \in Job
        BY <1>t, <2>1, RemoveWaiting
    <2>4. Len(queue') = Len(queue) + 1 /\ Range(queue') = Range(queue) \cup {asleep[i]}
        BY <1>t, <2>1, <2>3, AppendWaiting
    <2>5. InFlight' = InFlight /\ Waiting' \subseteq Waiting
        <3>1. InFlight' = InFlight
            BY <1>t, <2>2, <2>3, <2>4 DEF InFlight
        <3>2. Waiting' \subseteq Waiting
            BY <2>3, <2>4, ZenonT(30) DEF Waiting
        <3> QED BY <3>1, <3>2, ZenonT(30)
    <2> QED BY <1>o, <2>2, <2>5 DEF Ordered
<1>7. CASE Restart
    <2>1. /\ UNCHANGED file /\ queue' = <<>> /\ asleep' = <<>> /\ out' = Empty /\ chan' = Empty /\ active' = "nobody"
          /\ published' = published \/ (queue # <<>> /\ published' = Head(queue).mtime)
        BY <1>7 DEF Restart
    <2>2. queue # <<>> => Head(queue) \in Waiting
        BY <1>t, TailWaiting DEF Waiting
    <2>3. Waiting' = {} /\ InFlight' = 0
        <3>1. <<>> \in Seq(Job) /\ Len(<<>>) = 0
            BY EmptySeq
        <3>2. Range(queue') = {} /\ Range(asleep') = {}
            BY <2>1, <3>1, NoneWaiting, ZenonT(30)
        <3> QED BY <2>1, <3>1, <3>2 DEF Waiting, InFlight
    <2> QED BY <1>o, <1>t, <1>e, <2>1, <2>2, <2>3 DEF Ordered
<1>8. CASE Finish \/ Agents \/ PostDropped \/ (\E a \in Artifact : PostPublish(a)) \/ UNCHANGED relayVars
    <2>1. UNCHANGED <<file, queue, asleep, published, out, chan, watch>> /\ (active' = active \/ active' # "pipeline")
        BY <1>8 DEF Finish, Agents, PostDropped, PostPublish, relayVars, ingestVars, pipelineVars
    <2>2. InFlight' <= 1
        BY <1>o, <1>t, <2>1 DEF InFlight, Ordered
    <2> QED BY <1>0, <2>1, <2>2
<1> QED
    BY <1>1, <1>2, <1>3, <1>4, <1>5, <1>6, <1>7, <1>8 DEF RelayNext, Pipeline

\* The relay starts with the invariants.
LEMMA RelayInitInv == RelayInit => IInv /\ PipelineTyped /\ Ordered
<1> SUFFICES ASSUME RelayInit PROVE IInv /\ PipelineTyped /\ Ordered
    OBVIOUS
<1>1. IInv
    BY InitIInv DEF RelayInit
<1>2. <<>> \in Seq(Job) /\ Len(<<>>) = 0 /\ Range(<<>>) = {}
    BY EmptySeq, NoneWaiting, ZenonT(30)
<1>3. /\ file.content \in Contents /\ file.mtime = 0 /\ out = Empty /\ chan = Empty
      /\ queue = <<>> /\ asleep = <<>> /\ published = -1 /\ active = "nobody"
    BY DEF RelayInit, IngestInit, NoMtime
<1>4. PipelineTyped
    BY <1>2, <1>3, PipelineAssumption DEF PipelineAssumption, PipelineTyped, Item, Empty
<1>5. Waiting = {} /\ InFlight = 0
    BY <1>2, <1>3 DEF Waiting, InFlight
<1>6. Ordered
    BY <1>3, <1>5 DEF Ordered, Empty
<1> QED BY <1>1, <1>4, <1>6

-----------------------------------------------------------------------------
(* What the agents see.                                                    *)

\* Every step of the relay is, for the agents, a step of the long poll, or a
\* restart, which takes nothing from them.
LEMMA RelayRefinesPoll ==
    ASSUME PipelineTyped, [RelayNext]_relayVars
    PROVE  [Next]_vars \/ (Restart /\ UNCHANGED have)
<1>1. CASE Operator \/ Ingest \/ Take \/ PublishFails \/ Wake \/ UNCHANGED relayVars
    BY <1>1 DEF Operator, Ingest, Take, PublishFails, Wake, relayVars
<1>2. CASE PublishNext
    <2>1. Head(queue) \in Job
        BY <1>2, HeadTailProperties DEF PublishNext, PipelineTyped
    <2> QED BY <1>2, <2>1 DEF PublishNext, Next, Job
<1>3. CASE Finish \/ PostDropped \/ Agents \/ \E a \in Artifact : PostPublish(a)
    BY <1>3 DEF Finish, PostDropped, Agents, PostPublish, Next
<1>4. CASE Restart
    BY <1>4 DEF Restart
<1> QED BY <1>1, <1>2, <1>3, <1>4 DEF RelayNext, Pipeline

\* A restart keeps the version of the snapshot or takes the next one, whatever the
\* bytes.
LEMMA RestartIInv == ASSUME IInv, PipelineTyped, Restart PROVE IInv'
<1> USE PollAssumption DEF PollAssumption
<1>1. /\ have' = have /\ drops' = drops /\ pub' = "idle" /\ req' = [c \in Client |-> "none"]
      /\ ready' \in {"yes", "no"}
    BY DEF Restart
<1>2. snap' \in Snapshot /\ snap.version \in Nat /\ snap'.version \in Nat /\ snap.version <= snap'.version
    <2>1. CASE UNCHANGED snap
        BY <2>1 DEF IInv, TypeOK, Snapshot
    <2>2. CASE queue # <<>> /\ snap.version < MaxPublishes
                 /\ snap' = [version |-> snap.version + 1, art |-> Head(queue).art]
        <3>1. Head(queue) \in Job
            BY <2>2, HeadTailProperties DEF PipelineTyped
        <3>2. Head(queue).art \in OptArtifact
            BY <3>1 DEF Job, OptArtifact
        <3>3. snap.version \in Nat
            BY DEF IInv, TypeOK, Snapshot
        <3> QED BY <2>2, <3>2, <3>3 DEF Snapshot
    <2>3. ASSUME NEW a \in Artifact, NEW v \in snap.version .. MaxPublishes, snap' = [version |-> v, art |-> a]
          PROVE  snap' \in Snapshot /\ snap.version \in Nat /\ snap'.version \in Nat /\ snap.version <= snap'.version
        BY <2>3 DEF IInv, TypeOK, Snapshot, OptArtifact
    <2> QED BY <2>1, <2>2, <2>3 DEF Restart
<1>3. \A c \in Client : have[c].version \in Nat
    BY DEF IInv, TypeOK, Snapshot
<1> QED BY <1>1, <1>2, <1>3 DEF IInv, TypeOK, NotAhead

\* The invariants of the relay together.
LEMMA RelayInvariant == RelaySpec => [](IInv /\ PipelineTyped /\ Ordered)
<1>1. ASSUME IInv, PipelineTyped, [RelayNext]_relayVars PROVE IInv'
    BY <1>1, RelayRefinesPoll, NextIInv, RestartIInv
<1>2. IInv /\ PipelineTyped /\ Ordered /\ [RelayNext]_relayVars => IInv' /\ PipelineTyped' /\ Ordered'
    BY <1>1, PipelineNextTyped, NextOrdered
<1> QED BY <1>2, RelayInitInv, PTL DEF RelaySpec

\* Answers to one agent never go back in time, also across restarts of the
\* relay and with the pipeline and POST /v1/publish as publishers.
THEOREM DeliveryMonotone == RelaySpec => ClientNeverGoesBack
<1> DEFINE Forward == [\A c \in Client : have'[c].version >= have[c].version]_have
<1>1. ASSUME IInv, PipelineTyped, [RelayNext]_relayVars PROVE Forward
    BY <1>1, RelayRefinesPoll, NextIInv
<1> QED BY <1>1, RelayInvariant, PTL DEF RelaySpec, ClientNeverGoesBack

\* No agent is sent again the bytes it holds, whoever published them again.
THEOREM DeliveryNotRedundant == RelaySpec => NoRedundantAnswer
<1>1. ASSUME IInv, PipelineTyped, [RelayNext]_relayVars PROVE [Fresh]_vars
    BY <1>1, RelayRefinesPoll, NextFresh DEF Fresh
<1> QED BY <1>1, RelayInvariant, PTL DEF RelaySpec, NoRedundantAnswer, Fresh

\* With one artifact in flight, retries and restarts included, the pipeline
\* publishes the contents of the file in the order of its edits.
THEOREM PublishesInOrder == RelaySpec => NewerStays
<1> DEFINE Newer == [max_in_flight(conf) = 1 => published' >= published]_published
<1>1. ASSUME PipelineTyped, Ordered, [RelayNext]_relayVars PROVE Newer
    <2> SUFFICES ASSUME max_in_flight(conf) = 1, published' # published PROVE published' >= published
        OBVIOUS
    <2>1. queue # <<>> /\ published' = Head(queue).mtime
        BY <1>1, ZenonT(30) DEF RelayNext, relayVars, pipelineVars, Operator, Ingest, Pipeline, Take,
            PublishNext, PublishFails, Wake,
                    Finish, Agents, PostPublish, PostDropped, Restart
    <2>2. Head(queue) \in Waiting /\ Head(queue) \in Job
        BY <1>1, <2>1, TailWaiting DEF PipelineTyped, Waiting
    <2> QED BY <1>1, <2>1, <2>2 DEF Ordered, PipelineTyped, Job
<1> QED BY <1>1, RelayInvariant, PTL DEF RelaySpec, NewerStays

=============================================================================
