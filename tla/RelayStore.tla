----------------------------- MODULE RelayStore -----------------------------
(***************************************************************************)
(* The relay's durable store: publish_bytes and publish (runtime.rs), the  *)
(* LKG pair lkg/config.pvs + lkg/meta.json (storage/lkg.rs), the history   *)
(* directory (storage/history.rs), state.json (state.rs), and what         *)
(* init_state (app.rs) rebuilds from them after a restart.                 *)
(*                                                                         *)
(* A file is its current content and the contents a power loss may leave   *)
(* behind: write_atomic syncs the data before it renames, so a file is     *)
(* never half written, but a rename is durable only once its directory is  *)
(* synced.  A power loss picks one possible content per file; the exit of  *)
(* the process alone keeps the current ones, synced or not.                *)
(*                                                                         *)
(* publish_lock admits one publisher at a time, so there is one program    *)
(* counter.  It also names the steps of startup: repair_lkg calls the same *)
(* promote_to_lkg.  None is an absent file, and the empty artifact.        *)
(***************************************************************************)
EXTENDS Integers, FiniteSets

CONSTANTS
    Artifact,       \* verified artifacts, known by their checksum
    None,
    MaxVersion,     \* bound: versions 1..MaxVersion
    MaxPowerLosses, \* bound: crashes of the machine
    MaxExits,       \* bound: process exits that leave the machine up
    MaxIoErrors,    \* bound: file operations that fail
    MaxDrops        \* bound: publish requests whose client disconnects

ASSUME StoreAssumption ==
    /\ None \notin Artifact
    /\ None \notin [version : 1..MaxVersion, sum : Artifact]
    /\ MaxVersion \in Nat /\ MaxPowerLosses \in Nat /\ MaxExits \in Nat
    /\ MaxIoErrors \in Nat /\ MaxDrops \in Nat

VARIABLES
    pc,         \* the step the process is at; "idle": no publish is running
    job,        \* the promotion in hand: who asked for it, bytes, metadata
    lkgArt,     \* lkg/config.pvs
    lkgMeta,    \* lkg/meta.json
    histArt,    \* history/<version>.pvs
    histMeta,   \* history/<version>.meta.json
    state,      \* state.json: current_version
    mem,        \* RelaySnapshot: version and artifact served to agents
    index,      \* in-memory history: the pairs /v1/artifacts answers from
    ready,      \* "yes" once there is something to serve
    acked,      \* history variable: publishes acknowledged with a 200
    durable,    \* history variable: pairs in the snapshot with their LKG synced
    since,      \* history variable: artifacts tried since the last ack
    budget      \* faults so far

lkg == <<lkgArt, lkgMeta>>
hist == <<histArt, histMeta>>
memory == <<mem, index, ready>>
ghosts == <<acked, durable, since>>
vars == <<pc, job, lkg, hist, state, memory, ghosts, budget>>

Versions == 1..MaxVersion
OptArtifact == Artifact \cup {None}
Metadata == [version : Versions, sum : Artifact]
Pair == (0..MaxVersion) \X OptArtifact
Snapshot == [version : 0..MaxVersion, art : OptArtifact]
File(content) == [now : content, may : SUBSET content]
Steps == {"down", "load", "idle", "histArt", "histMeta", "histSync",
          "lkgArt", "lkgMeta", "lkgSync", "state", "memory", "index"}
Budget == [power : 0..MaxPowerLosses, exit : 0..MaxExits,
           io : 0..MaxIoErrors, drop : 0..MaxDrops]
Job == [origin : {"publish", "metaOnly", "artOnly"}, art : Artifact, meta : Metadata]

\* Every variable has its type.
TypeOK ==
    /\ pc \in Steps
    /\ job \in Job \cup {None}
    /\ lkgArt \in File(OptArtifact)
    /\ lkgMeta \in File(Metadata \cup {None})
    /\ histArt \in [Versions -> File(OptArtifact)]
    /\ histMeta \in [Versions -> File(Metadata \cup {None})]
    /\ state \in File(0..MaxVersion)
    /\ mem \in Snapshot
    /\ index \subseteq Pair
    /\ ready \in {"yes", "no"}
    /\ acked \subseteq Pair /\ durable \subseteq Pair /\ since \subseteq Artifact
    /\ budget \in Budget

-----------------------------------------------------------------------------
(* Files.                                                                  *)

Stable(c) == [now |-> c, may |-> {c}]

\* write_atomic_in_dir: temporary file, sync, rename.  Also remove_file.
Write(f, c) == [now |-> c, may |-> f.may \cup {c}]

\* fsync_dir, for one file of the directory.
Fsync(f) == Stable(f.now)

\* read_if_present.
Present(f) == f.now # None

\* The same for the entries of history/ and for state.json.
WriteHistory(files, v, c) == [files EXCEPT ![v] = Write(@, c)]
FsyncHistory(files) == [v \in Versions |-> Fsync(files[v])]
WriteState(v) == Write(state, v)
save_state(v) == Stable(v)

\* What the machine finds on the disk after it went down.
Survive(f, g) == \E c \in f.may : g = Stable(c)

Spend(kind, limit) ==
    /\ budget[kind] < limit
    /\ budget' = [budget EXCEPT ![kind] = @ + 1]
IoError == Spend("io", MaxIoErrors)

Init ==
    /\ pc = "down"
    /\ job = None
    /\ lkgArt = Stable(None) /\ lkgMeta = Stable(None)
    /\ histArt = [v \in Versions |-> Stable(None)]
    /\ histMeta = [v \in Versions |-> Stable(None)]
    /\ state = Stable(0)
    /\ mem = [version |-> 0, art |-> None] /\ index = {} /\ ready = "no"
    /\ acked = {} /\ durable = {} /\ since = {}
    /\ budget = [power |-> 0, exit |-> 0, io |-> 0, drop |-> 0]

-----------------------------------------------------------------------------
(* promote_to_lkg: artifact, metadata, directory sync.                     *)

PromoteArtifact ==
    /\ pc = "lkgArt"
    /\ lkgArt' = Write(lkgArt, job.art)
    /\ pc' = "lkgMeta"
    /\ UNCHANGED <<job, lkgMeta, hist, state, memory, ghosts, budget>>

\* Bug: metadata that is there is taken for the metadata of these bytes.
PromoteMetadataOnce ==
    /\ pc = "lkgMeta"
    /\ lkgMeta' = IF Present(lkgMeta) THEN lkgMeta ELSE Write(lkgMeta, job.meta)
    /\ pc' = "lkgSync"
    /\ UNCHANGED <<job, lkgArt, hist, state, memory, ghosts, budget>>

PromoteMetadata ==
    /\ pc = "lkgMeta"
    /\ lkgMeta' = Write(lkgMeta, job.meta)
    /\ pc' = "lkgSync"
    /\ UNCHANGED <<job, lkgArt, hist, state, memory, ghosts, budget>>

\* Bug: the directory is not synced.
PromoteWithoutSync ==
    /\ pc = "lkgSync"
    /\ pc' = IF job.origin = "publish" THEN "state" ELSE "load"
    /\ UNCHANGED <<job, lkg, hist, state, memory, ghosts, budget>>

PromoteSync ==
    /\ pc = "lkgSync"
    /\ lkgArt' = Fsync(lkgArt)
    /\ lkgMeta' = Fsync(lkgMeta)
    /\ pc' = IF job.origin = "publish" THEN "state" ELSE "load"
    /\ UNCHANGED <<job, hist, state, memory, ghosts, budget>>

Promoting == pc \in {"lkgArt", "lkgMeta", "lkgSync"}

\* publish_bytes takes the history entry back; a removal may itself fail.
PublishFails ==
    /\ Promoting /\ job.origin = "publish"
    /\ IoError
    /\ LET v == job.meta.version
       IN  /\ \/ histArt' = WriteHistory(histArt, v, None)
              \/ UNCHANGED histArt
           /\ \/ histMeta' = WriteHistory(histMeta, v, None)
              \/ UNCHANGED histMeta
    /\ pc' = "idle" /\ job' = None
    /\ UNCHANGED <<lkg, state, memory, ghosts>>

\* repair_lkg drops an artifact it found without metadata ...
DropArtifact ==
    /\ Promoting /\ job.origin = "artOnly"
    /\ IoError
    /\ lkgArt' = Write(lkgArt, None)
    /\ pc' = "load" /\ job' = None
    /\ UNCHANGED <<lkgMeta, hist, state, memory, ghosts>>

\* ... and gives up, which ends the process, on metadata without artifact.
RepairFails ==
    /\ Promoting /\ job.origin = "metaOnly"
    /\ IoError
    /\ pc' = "down" /\ job' = None
    /\ UNCHANGED <<lkg, hist, state, memory, ghosts>>

-----------------------------------------------------------------------------
(* init_state.                                                             *)

\* list_history_versions: the entries with both files.
HistoryVersions ==
    {v \in Versions : Present(histArt[v]) /\ Present(histMeta[v])}

\* What init_state warns of: entries above the LKG, and half entries.
find_orphaned_versions(current) == {v \in HistoryVersions : v > current}
find_corrupt_versions == {v \in Versions : Present(histArt[v]) # Present(histMeta[v])}

\* recover_lkg_from_history.
Recover(origin, v) ==
    /\ v \in HistoryVersions
    /\ job' = [origin |-> origin, art |-> histArt[v].now, meta |-> histMeta[v].now]
    /\ pc' = "lkgArt"
    /\ UNCHANGED lkgArt

\* repair_lkg.  The metadata without an artifact of its history entry stops
\* the relay: no action is enabled.
RepairLkg ==
    /\ pc = "down"
    /\ \/ /\ Present(lkgArt) <=> Present(lkgMeta)
          /\ pc' = "load"
          /\ UNCHANGED <<job, lkgArt>>
       \/ /\ ~Present(lkgArt) /\ Present(lkgMeta)
          /\ Recover("metaOnly", lkgMeta.now.version)
       \/ /\ Present(lkgArt) /\ ~Present(lkgMeta)
          /\ \E v \in HistoryVersions :
                /\ \A w \in HistoryVersions : w <= v
                /\ Recover("artOnly", v)
       \/ /\ Present(lkgArt) /\ ~Present(lkgMeta)
          /\ HistoryVersions = {}
          /\ lkgArt' = Write(lkgArt, None)
          /\ pc' = "load"
          /\ UNCHANGED job
    /\ UNCHANGED <<lkgMeta, hist, state, memory, ghosts, budget>>

\* Bug: the version comes from state.json, which a publish may fail to save.
VersionFromState == state.now

\* derive_state_from_lkg, or version 0.
DerivedVersion == IF Present(lkgMeta) THEN lkgMeta.now.version ELSE 0

\* load_lkg, state.json brought in line, new_with_options.  Bytes and metadata
\* are not compared.
LoadLkg ==
    /\ pc = "load"
    /\ Present(lkgArt) <=> Present(lkgMeta)
    /\ state' = IF state.now = DerivedVersion THEN state ELSE save_state(DerivedVersion)
    /\ mem' = [version |-> DerivedVersion, art |-> lkgArt.now]
    /\ index' = {<<DerivedVersion, lkgArt.now>>}
    /\ ready' = IF Present(lkgArt) THEN "yes" ELSE "no"
    /\ durable' = IF lkgMeta = Stable(lkgMeta.now)
                  THEN durable \cup {<<DerivedVersion, lkgArt.now>>} ELSE durable
    /\ pc' = "idle" /\ job' = None
    /\ UNCHANGED <<lkg, hist, acked, since, budget>>

\* load_lkg's error for half a pair, left by DropArtifact: the process ends.
LoadFails ==
    /\ pc = "load"
    /\ ~(Present(lkgArt) <=> Present(lkgMeta))
    /\ pc' = "down" /\ job' = None
    /\ UNCHANGED <<lkg, hist, state, memory, ghosts, budget>>

\* A file of the start cannot be read, or state.json cannot be saved.
StartFails ==
    /\ pc = "load"
    /\ IoError
    /\ state' \in {state, WriteState(DerivedVersion)}
    /\ pc' = "down" /\ job' = None
    /\ UNCHANGED <<lkg, hist, memory, ghosts>>

-----------------------------------------------------------------------------
(* publish_bytes.                                                          *)

\* Bug: the version in use is proposed again.
ProposedAgain == IF mem.version = 0 THEN 1 ELSE mem.version

ProposedVersion == mem.version + 1

\* The lock is held and the bytes are verified.
StartPublish(a) ==
    /\ pc = "idle" /\ mem.version < MaxVersion
    /\ job' = [origin |-> "publish", art |-> a,
               meta |-> [version |-> ProposedVersion, sum |-> a]]
    /\ since' = since \cup {a}
    /\ pc' = "histArt"
    /\ UNCHANGED <<lkg, hist, state, memory, acked, durable, budget>>

\* append_to_history: artifact, metadata, directory sync.
AppendArtifact ==
    /\ pc = "histArt"
    /\ histArt' = WriteHistory(histArt, job.meta.version, job.art)
    /\ pc' = "histMeta"
    /\ UNCHANGED <<job, lkg, histMeta, state, memory, ghosts, budget>>

AppendMetadata ==
    /\ pc = "histMeta"
    /\ histMeta' = WriteHistory(histMeta, job.meta.version, job.meta)
    /\ pc' = "histSync"
    /\ UNCHANGED <<job, lkg, histArt, state, memory, ghosts, budget>>

\* Bug: the history directory is not synced before the promotion.
AppendWithoutSync ==
    /\ pc = "histSync"
    /\ pc' = "lkgArt"
    /\ UNCHANGED <<job, lkg, hist, state, memory, ghosts, budget>>

AppendSync ==
    /\ pc = "histSync"
    /\ histArt' = FsyncHistory(histArt)
    /\ histMeta' = FsyncHistory(histMeta)
    /\ pc' = "lkgArt"
    /\ UNCHANGED <<job, lkg, state, memory, ghosts, budget>>

\* A failed append is reported and what it wrote stays.
AppendFails ==
    /\ pc \in {"histArt", "histMeta", "histSync"}
    /\ IoError
    /\ pc' = "idle" /\ job' = None
    /\ UNCHANGED <<lkg, hist, state, memory, ghosts>>

\* save_state: a failure is only logged, before or after the rename.
SaveState ==
    /\ pc = "state"
    /\ \/ state' = save_state(job.meta.version) /\ UNCHANGED budget
       \/ IoError /\ state' \in {state, WriteState(job.meta.version)}
    /\ pc' = "memory"
    /\ UNCHANGED <<job, lkg, hist, memory, ghosts>>

execute_plan(current, proposed) == proposed > current

\* publish, up to its second await: execute_plan and the new snapshot.
SetSnapshot ==
    /\ pc = "memory"
    /\ execute_plan(mem.version, job.meta.version)
    /\ mem' = [version |-> job.meta.version, art |-> job.art]
    /\ durable' = durable \cup {<<job.meta.version, job.art>>}
    /\ pc' = "index"
    /\ UNCHANGED <<job, lkg, hist, state, index, ready, acked, since, budget>>

\* The rest of publish, and the 200.
Announce ==
    /\ pc = "index"
    /\ index' = {p \in index : p[1] # job.meta.version}
                    \cup {<<job.meta.version, job.art>>}
    /\ ready' = "yes"
    /\ acked' = acked \cup {<<job.meta.version, job.art>>}
    /\ since' = {}
    /\ pc' = "idle" /\ job' = None
    /\ UNCHANGED <<lkg, hist, state, mem, durable, budget>>

\* The server drops the handler's future, at one of its awaits, when the
\* client goes away.
Disconnect ==
    /\ pc \in {"memory", "index"}
    /\ Spend("drop", MaxDrops)
    /\ pc' = "idle" /\ job' = None
    /\ UNCHANGED <<lkg, hist, state, memory, ghosts>>

NoProcess ==
    /\ mem' = [version |-> 0, art |-> None] /\ index' = {} /\ ready' = "no"
    /\ pc' = "down" /\ job' = None
    /\ UNCHANGED ghosts

\* The process is killed; what it renamed is still to reach the disk.
Exit ==
    /\ pc # "down"
    /\ Spend("exit", MaxExits)
    /\ NoProcess
    /\ UNCHANGED <<lkg, hist, state>>

\* The machine goes down.
PowerLoss ==
    /\ Spend("power", MaxPowerLosses)
    /\ NoProcess
    /\ Survive(lkgArt, lkgArt') /\ Survive(lkgMeta, lkgMeta') /\ Survive(state, state')
    /\ \E f \in [Versions -> OptArtifact] :
          /\ \A v \in Versions : f[v] \in histArt[v].may
          /\ histArt' = [v \in Versions |-> Stable(f[v])]
    /\ \E f \in [Versions -> Metadata \cup {None}] :
          /\ \A v \in Versions : f[v] \in histMeta[v].may
          /\ histMeta' = [v \in Versions |-> Stable(f[v])]

-----------------------------------------------------------------------------

Startup == RepairLkg \/ LoadLkg \/ LoadFails \/ StartFails \/ DropArtifact \/ RepairFails
Append == AppendArtifact \/ AppendMetadata \/ AppendSync \/ AppendFails
Promote == PromoteArtifact \/ PromoteMetadata \/ PromoteSync \/ PublishFails
Commit == SaveState \/ SetSnapshot \/ Announce

-----------------------------------------------------------------------------
(* The read endpoints: memory, and what the disk holds at the moment.      *)

get_ready == IF ready = "yes" THEN 200 ELSE 503

get_status == [current_version |-> mem.version, lkg |-> lkgMeta.now,
               history_count |-> Cardinality(HistoryVersions)]

\* The artifact of a version, {} for a 404.
get_artifact(v) == {p[2] : p \in {q \in index : q[1] = v}}

-----------------------------------------------------------------------------

Next ==
    \/ Startup
    \/ \E a \in Artifact : StartPublish(a)
    \/ Append
    \/ Promote
    \/ Commit
    \/ Disconnect
    \/ Exit
    \/ PowerLoss

Spec == Init /\ [][Next]_vars

-----------------------------------------------------------------------------
(* Properties.                                                             *)

Running ==
    \/ pc \in {"idle", "histArt", "histMeta", "histSync", "state", "memory", "index"}
    \/ Promoting /\ job.origin = "publish"

\* What publish_bytes has acknowledged is durable: after any exit or power loss
\* the relay serves a version not below the last acknowledged one, with the
\* acknowledged artifact or one that a later publish brought.
AckedIsDurable ==
    (Running /\ acked # {}) =>
        \E p \in acked : /\ \A q \in acked : q[1] <= p[1]
                         /\ p[1] <= mem.version
                         /\ mem.art \in {p[2]} \cup since

\* append_to_history and the clean-up of a failed promote never disturb the
\* entry of an acknowledged version, on whatever the next power loss leaves.
AckedHistoryKept ==
    \A p \in acked : /\ histArt[p[1]] = Stable(p[2])
                     /\ histMeta[p[1]] = Stable([version |-> p[1], sum |-> p[2]])

\* "The Relay assigns versions that are strictly monotonic": init_state restores
\* a current_version at least as large as any the snapshot ever had, whatever
\* a power loss, an exit, a failed save_state or a dropped publish left.  (Not
\* covered: what a process loaded from renames that its predecessor, which was
\* killed or failed to start, had not synced.)
VersionsNeverGoBack ==
    Running => \A p \in durable : p[1] <= mem.version

\* As long as file operations succeed, repair_lkg never refuses to start the
\* relay: metadata that lost its artifact still has a complete history entry.
RepairPossible ==
    (pc = "down" /\ budget.io = 0 /\ lkgArt.now = None /\ lkgMeta.now # None)
        => lkgMeta.now.version \in HistoryVersions

\* The read endpoints cover what was acknowledged, whatever failed or crashed:
\* the relay is ready, /v1/status shows an LKG not behind the version served and
\* every acknowledged entry of the history, none of which init_state calls
\* orphaned or corrupt, and an acknowledged current version can be fetched.
EndpointsCoverAcked ==
    (Running /\ acked # {}) =>
        LET status == get_status
            versions == {p[1] : p \in acked}
        IN  /\ get_ready = 200
            /\ status.lkg # None /\ status.lkg.version >= status.current_version
            /\ status.history_count >= Cardinality(versions)
            /\ versions \cap find_corrupt_versions = {}
            /\ versions \cap find_orphaned_versions(status.lkg.version) = {}
            /\ status.current_version \in versions =>
                  get_artifact(status.current_version) # {}

\* "Relay crash during publish MUST leave either the old or the new LKG, never
\* partial state": bytes and metadata of the served LKG belong together.
LkgPairIntact ==
    (pc = "idle" /\ lkgMeta.now # None) => lkgMeta.now.sum = lkgArt.now

=============================================================================
