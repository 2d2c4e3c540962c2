-------------------------- MODULE RelayStoreProofs --------------------------
(***************************************************************************)
(* What the relay's store guarantees for any number of versions, crashes,  *)
(* failed file operations and dropped requests.                            *)
(***************************************************************************)
EXTENDS RelayStore, TLAPS

\* The provers get more time than by default: the contexts are large.
USE SMTT(15), ZenonT(30)

Publishing == pc \in {"histArt", "histMeta", "histSync", "state", "memory"}
                \/ (Promoting /\ job.origin = "publish")
Appended == pc \in {"state", "memory", "index"} \/ (Promoting /\ job.origin = "publish")
Promoted == pc \in {"state", "memory", "index"}

\* The content a process reads is one the disk may keep.
NowIsPossible == lkgArt.now \in lkgArt.may /\ lkgMeta.now \in lkgMeta.may

\* The publish in hand proposes the successor of the snapshot's version; its
\* history entry and then its LKG pair are durable before the snapshot changes.
\* repair_lkg promotes only before the first acknowledgement.
JobShape ==
    /\ (Publishing \/ Promoting \/ pc = "index") => job \in Job
    /\ Publishing => job.origin = "publish" /\ job.meta.version = mem.version + 1
    /\ pc = "index" => mem = [version |-> job.meta.version, art |-> job.art]
    /\ (Publishing \/ pc = "index") => job.meta.sum = job.art /\ job.art \in since
    /\ pc \in {"histMeta", "histSync"} => histArt[job.meta.version].now = job.art
    /\ pc = "histSync" => histMeta[job.meta.version].now = job.meta
    /\ Appended => /\ histArt[job.meta.version] = Stable(job.art)
                   /\ histMeta[job.meta.version] = Stable(job.meta)
    /\ pc \in {"lkgMeta", "lkgSync"} => lkgArt.now = job.art
    /\ pc = "lkgSync" => lkgMeta.now = job.meta
    /\ Promoted => lkgArt = Stable(job.art) /\ lkgMeta = Stable(job.meta)
    /\ (Promoting /\ job.origin # "publish") => acked = {}

\* Acknowledged versions are covered by every metadata file the disk may keep,
\* and by the snapshot.
Covered ==
    /\ \A p \in acked : \A m \in lkgMeta.may : m # None /\ p[1] <= m.version
    /\ Running => \A p \in acked : p[1] <= mem.version

AckedTyped == \A p \in acked : p[1] \in Versions /\ p[2] \in Artifact

\* p is the last acknowledged publish, and nothing older can come back.
Last(p) ==
    /\ \A q \in acked : q[1] <= p[1]
    /\ \A c \in lkgArt.may : c \in {p[2]} \cup since
    /\ Running => mem.art \in {p[2]} \cup since

AckCovered == acked # {} => \E p \in acked : Last(p)

\* The inductive invariant.
IInv ==
    /\ TypeOK /\ NowIsPossible /\ JobShape /\ Covered /\ AckedTyped
    /\ AckedHistoryKept /\ AckCovered

\* What the disk may keep of the LKG metadata is not behind the durable versions.
\* A history entry is about its own version; repair_lkg writes metadata of the
\* version it found, or finds none and has nothing durable to keep.
Settled ==
    /\ \A p \in durable : p[1] = 0 \/ \A m \in lkgMeta.may : m # None /\ p[1] <= m.version
    /\ VersionsNeverGoBack
    /\ \A v \in Versions :
          /\ histArt[v].now \in histArt[v].may /\ histMeta[v].now \in histMeta[v].may
          /\ \A m \in histMeta[v].may : m # None => m.version = v
    /\ Promoting /\ job.origin = "metaOnly" =>
          lkgMeta.now # None /\ lkgMeta.now.version = job.meta.version
    /\ Promoting /\ job.origin = "artOnly" => \A p \in durable : p[1] = 0

\* What the read endpoints rest on: the metadata on disk is not behind the
\* snapshot, and the index knows the snapshot's version once it is acknowledged.
Served ==
    Running => /\ mem.version = 0 \/ (lkgMeta.now # None /\ mem.version <= lkgMeta.now.version)
               /\ acked # {} => ready = "yes"
               /\ (\E p \in acked : p[1] = mem.version) => \E q \in index : q[1] = mem.version

HistoryStable == \A v \in Versions : histArt[v].may = {histArt[v].now} /\ histMeta[v].may = {histMeta[v].now}

\* Metadata the disk may keep has a history entry that cannot vanish, as long as
\* no file operation failed; the history is synced whenever the LKG may be half
\* written.
Repairable ==
    budget.io = 0 =>
        /\ \A m \in lkgMeta.may : m # None =>
              None \notin histArt[m.version].may /\ None \notin histMeta[m.version].may
        /\ pc \in {"idle", "histArt", "histMeta", "histSync"} => (Present(lkgArt) <=> Present(lkgMeta))
        /\ (Present(lkgArt) /\ ~Present(lkgMeta)) => HistoryStable
        /\ Promoting /\ job.origin # "metaOnly" => HistoryStable
        /\ Promoting /\ job.origin = "artOnly" => job.meta.version \in HistoryVersions

-----------------------------------------------------------------------------
USE DEF Present, WriteHistory, FsyncHistory, WriteState, save_state, execute_plan, Snapshot

\* Writing, syncing and losing a file keeps it a file, and what these leave.
LEMMA FileOps ==
    ASSUME NEW S, NEW f \in File(S), NEW c \in S
    PROVE  /\ Write(f, c) \in File(S) /\ Write(f, c).now = c
           /\ Write(f, c).may = f.may \cup {c}
           /\ Fsync(f) \in File(S) /\ Fsync(f).now = f.now /\ Fsync(f).may = {f.now}
           /\ Stable(c) \in File(S) /\ Stable(c).now = c /\ Stable(c).may = {c}
           /\ Fsync(Stable(c)) = Stable(c)
BY DEF File, Write, Fsync, Stable

\* The invariant holds of an empty directory.
LEMMA InitIInv == Init => IInv
<1> SUFFICES ASSUME Init PROVE IInv
    OBVIOUS
<1>1. TypeOK
    BY StoreAssumption DEF StoreAssumption, Init, TypeOK, Steps, Budget, File, OptArtifact, Stable, Pair, Versions
<1>2. NowIsPossible /\ JobShape
    BY DEF Init, NowIsPossible, JobShape, Stable, Publishing, Promoting, Appended, Promoted
<1>3. Covered /\ AckedTyped /\ AckedHistoryKept /\ AckCovered
    BY DEF Init, Covered, AckedTyped, AckedHistoryKept, AckCovered
<1> QED
    BY <1>1, <1>2, <1>3 DEF IInv

\* What a failure costs stays within the bounds on failures.
LEMMA Spent ==
    ASSUME budget \in Budget,
           \/ Spend("power", MaxPowerLosses) \/ Spend("exit", MaxExits)
           \/ Spend("io", MaxIoErrors) \/ Spend("drop", MaxDrops)
    PROVE  budget' \in Budget
BY StoreAssumption DEF StoreAssumption, Spend, Budget

\* Types are preserved.
LEMMA NextType == TypeOK /\ JobShape /\ [Next]_vars => TypeOK'
<1> SUFFICES ASSUME TypeOK, JobShape, [Next]_vars PROVE TypeOK'
    OBVIOUS
<1> USE StoreAssumption DEF StoreAssumption
<1>io. ASSUME IoError PROVE budget' \in Budget
    BY <1>io, Spent, ZenonT(30) DEF IoError, TypeOK
<1>j. Promoting \/ Publishing \/ pc = "index" =>
        job \in Job /\ job.art \in Artifact /\ job.meta \in Metadata /\ job.meta.version \in Versions
    BY DEF JobShape, Job, Metadata
<1>f. \A f \in File(OptArtifact) : \A c \in OptArtifact : Write(f, c) \in File(OptArtifact)
    BY FileOps, ZenonT(30)
<1>g. \A f \in File(Metadata \cup {None}) : \A c \in Metadata \cup {None} :
        Write(f, c) \in File(Metadata \cup {None})
    BY FileOps, ZenonT(30)
<1>h. \A f \in File(0..MaxVersion) : \A c \in 0..MaxVersion :
        Write(f, c) \in File(0..MaxVersion) /\ Stable(c) \in File(0..MaxVersion)
    BY FileOps
<1>n. None \in OptArtifact /\ None \in Metadata \cup {None} /\ Artifact \subseteq OptArtifact
    BY DEF OptArtifact
<1>p. \A v \in 0..MaxVersion : \A c \in OptArtifact :
        <<v, c>> \in Pair /\ [version |-> v, art |-> c] \in [version : 0..MaxVersion, art : OptArtifact]
    BY DEF Pair
<1>1. CASE PromoteArtifact
    BY <1>1, <1>j, FileOps, ZenonT(30) DEF PromoteArtifact, TypeOK, Steps, Promoting, OptArtifact, hist,
        memory, ghosts
<1>2. CASE PromoteMetadata
    BY <1>2, <1>j, FileOps, ZenonT(30) DEF PromoteMetadata, TypeOK, Steps, Promoting, hist, memory, ghosts
<1>3. CASE PromoteSync
    <2>1. lkgArt.now \in OptArtifact /\ lkgMeta.now \in Metadata \cup {None}
        BY DEF TypeOK, File
    <2> QED BY <1>3, <2>1, FileOps, ZenonT(30) DEF PromoteSync, TypeOK, Steps, hist, memory, ghosts
<1>4. CASE PublishFails
    <2>1. budget' \in Budget
        BY <1>4, <1>io DEF PublishFails
    <2>2. job.meta.version \in Versions
        BY <1>4, <1>j DEF PublishFails
    <2>3. histArt' \in [Versions -> File(OptArtifact)]
        BY <1>4, <2>2, <1>f, <1>n DEF PublishFails, TypeOK
    <2>4. histMeta' \in [Versions -> File(Metadata \cup {None})]
        <3>1. Write(histMeta[job.meta.version], None) \in File(Metadata \cup {None})
            BY <2>2, <1>g, <1>n, ZenonT(30) DEF TypeOK
        <3> QED BY <1>4, <2>2, <3>1, ZenonT(30) DEF PublishFails, TypeOK
    <2> QED BY <1>4, <2>1, <2>3, <2>4, ZenonT(30) DEF PublishFails, TypeOK, Steps, lkg, memory, ghosts
<1>5. CASE DropArtifact
    BY <1>5, <1>io, FileOps, ZenonT(30) DEF DropArtifact, TypeOK, Steps, OptArtifact, hist, memory, ghosts
<1>6. CASE RepairFails
    BY <1>6, <1>io, ZenonT(30) DEF RepairFails, TypeOK, Steps, lkg, hist, memory, ghosts
<1>7. CASE RepairLkg
    <2>1. ASSUME NEW v \in HistoryVersions, NEW o \in {"metaOnly", "artOnly"}
          PROVE  [origin |-> o, art |-> histArt[v].now, meta |-> histMeta[v].now] \in Job
        <3>1. v \in Versions /\ histArt[v] \in File(OptArtifact) /\ histMeta[v] \in File(Metadata \cup {None})
            BY ZenonT(30) DEF HistoryVersions, TypeOK
        <3>2. histArt[v].now \in Artifact /\ histMeta[v].now \in Metadata
            BY <3>1 DEF HistoryVersions, File, OptArtifact
        <3> QED BY <3>2 DEF Job
    <2>2. job' \in Job \cup {None}
        BY <1>7, <2>1, ZenonT(30) DEF RepairLkg, Recover, TypeOK
    <2>3. lkgArt' \in File(OptArtifact)
        <3>1. lkgArt' = lkgArt \/ lkgArt' = Write(lkgArt, None)
            BY <1>7, ZenonT(30) DEF RepairLkg, Recover
        <3>2. lkgArt \in File(OptArtifact)
            BY DEF TypeOK
        <3> QED BY <1>f, <1>n, <3>1, <3>2
    <2>4. pc' \in Steps
        BY <1>7 DEF RepairLkg, Recover, Steps
    <2> QED BY <1>7, <2>2, <2>3, <2>4, ZenonT(30) DEF RepairLkg, TypeOK, hist, memory, ghosts
<1>8. CASE LoadLkg
    <2>1. DerivedVersion \in 0..MaxVersion /\ lkgArt.now \in OptArtifact
        BY DEF DerivedVersion, TypeOK, File, Metadata, Versions
    <2>2. <<DerivedVersion, lkgArt.now>> \in Pair
        BY <2>1, <1>p
    <2>3. mem' \in [version : 0..MaxVersion, art : OptArtifact] /\ state' \in File(0..MaxVersion)
        BY <1>8, <2>1, <1>p, <1>h DEF LoadLkg, TypeOK
    <2> QED BY <1>8, <2>2, <2>3, ZenonT(30) DEF LoadLkg, TypeOK, Steps, lkg, hist
<1>9. CASE LoadFails
    BY <1>9, ZenonT(30) DEF LoadFails, TypeOK, Steps, lkg, hist, memory, ghosts
<1>22. CASE StartFails
    <2>1. DerivedVersion \in 0..MaxVersion
        BY DEF DerivedVersion, TypeOK, File, Metadata, Versions
    <2>2. state' \in File(0..MaxVersion)
        BY <1>22, <2>1, <1>h DEF StartFails, TypeOK
    <2> QED BY <1>22, <1>io, <2>2, ZenonT(30) DEF StartFails, TypeOK, Steps, lkg, hist, memory, ghosts
<1>10. ASSUME NEW a \in Artifact, StartPublish(a) PROVE TypeOK'
    <2>1. ProposedVersion \in Versions
        BY <1>10 DEF StartPublish, ProposedVersion, TypeOK, Versions
    <2>2. job' \in Job
        BY <1>10, <2>1 DEF StartPublish, Job, Metadata
    <2> QED BY <1>10, <2>2, ZenonT(30) DEF StartPublish, TypeOK, Steps, lkg, hist, memory
<1>11. CASE AppendArtifact
    <2>1. histArt' \in [Versions -> File(OptArtifact)]
        BY <1>11, <1>j, FileOps, ZenonT(30) DEF AppendArtifact, TypeOK, OptArtifact, Publishing
    <2> QED BY <1>11, <2>1, ZenonT(30) DEF AppendArtifact, TypeOK, Steps, lkg, memory, ghosts
<1>12. CASE AppendMetadata
    <2>1. histMeta' \in [Versions -> File(Metadata \cup {None})]
        BY <1>12, <1>j, FileOps, ZenonT(30) DEF AppendMetadata, TypeOK, Publishing
    <2> QED BY <1>12, <2>1, ZenonT(30) DEF AppendMetadata, TypeOK, Steps, lkg, memory, ghosts
<1>13. CASE AppendSync
    <2>1. histArt' \in [Versions -> File(OptArtifact)]
        BY <1>13 DEF AppendSync, TypeOK, File, Fsync, Stable
    <2>2. histMeta' \in [Versions -> File(Metadata \cup {None})]
        BY <1>13 DEF AppendSync, TypeOK, File, Fsync, Stable
    <2> QED BY <1>13, <2>1, <2>2, ZenonT(30) DEF AppendSync, TypeOK, Steps, lkg, memory, ghosts
<1>14. CASE AppendFails
    BY <1>14, <1>io, ZenonT(30) DEF AppendFails, TypeOK, Steps, lkg, hist, memory, ghosts
<1>15. CASE SaveState
    <2>1. job.meta.version \in 0..MaxVersion
        BY <1>15, <1>j DEF SaveState, Publishing, Versions
    <2>2. state' \in File(0..MaxVersion)
        BY <1>15, <2>1, <1>h DEF SaveState, TypeOK
    <2>3. budget' \in Budget
        BY <1>15, <1>io DEF SaveState, TypeOK
    <2> QED BY <1>15, <2>2, <2>3, ZenonT(30) DEF SaveState, TypeOK, Steps, lkg, hist, memory, ghosts
<1>16. CASE SetSnapshot
    <2>1. job.meta.version \in 0..MaxVersion /\ job.art \in OptArtifact
        BY <1>16, <1>j, <1>n DEF SetSnapshot, Publishing, Versions
    <2> QED BY <1>16, <2>1, <1>p, ZenonT(30) DEF SetSnapshot, TypeOK, Steps, lkg, hist
<1>17. CASE Announce
    <2>1. job.meta.version \in 0..MaxVersion /\ job.art \in OptArtifact
        BY <1>17, <1>j, <1>n DEF Announce, Versions
    <2> QED BY <1>17, <2>1, <1>p, ZenonT(30) DEF Announce, TypeOK, Steps, lkg, hist
<1>18. CASE Disconnect
    <2>1. budget' \in Budget
        BY <1>18, Spent, ZenonT(30) DEF Disconnect, TypeOK
    <2> QED BY <1>18, <2>1, ZenonT(30) DEF Disconnect, TypeOK, Steps, lkg, hist, memory, ghosts
<1>m. ASSUME NoProcess
      PROVE  /\ pc' \in Steps /\ job' \in Job \cup {None}
             /\ mem' \in [version : 0..MaxVersion, art : OptArtifact]
             /\ index' \subseteq Pair /\ ready' \in {"yes", "no"}
             /\ acked' \subseteq Pair /\ durable' \subseteq Pair /\ since' \subseteq Artifact
    BY <1>m, <1>p, <1>n DEF NoProcess, ghosts, TypeOK, Steps
<1>19. CASE Exit
    <2>1. budget' \in Budget
        BY <1>19, Spent, ZenonT(30) DEF Exit, TypeOK
    <2> QED BY <1>19, <1>m, <2>1, ZenonT(30) DEF Exit, lkg, hist, TypeOK
<1>21. CASE PowerLoss
    <2>1. budget' \in Budget
        BY <1>21, Spent, ZenonT(30) DEF PowerLoss, TypeOK
    <2>2. /\ lkgArt' \in File(OptArtifact)
          /\ lkgMeta' \in File(Metadata \cup {None})
          /\ state' \in File(0..MaxVersion)
        BY <1>21 DEF PowerLoss, Survive, TypeOK, File, Stable
    <2>3. histArt' \in [Versions -> File(OptArtifact)]
        BY <1>21 DEF PowerLoss, File, Stable
    <2>4. histMeta' \in [Versions -> File(Metadata \cup {None})]
        BY <1>21 DEF PowerLoss, File, Stable
    <2> QED BY <1>21, <1>m, <2>1, <2>2, <2>3, <2>4, ZenonT(30) DEF PowerLoss, TypeOK
<1>20. CASE UNCHANGED vars
    BY <1>20, ZenonT(30) DEF vars, TypeOK, lkg, hist, memory, ghosts
<1> QED
    BY <1>1, <1>2, <1>3, <1>4, <1>5, <1>6, <1>7, <1>8, <1>9, <1>10, <1>11, <1>12, <1>13, <1>14,
       <1>15, <1>16, <1>17, <1>18, <1>19, <1>20, <1>21, <1>22 DEF Next, Startup, Append, Promote, Commit

\* Every step preserves the invariant.
LEMMA NextIInv == IInv /\ [Next]_vars => IInv'
<1> SUFFICES ASSUME IInv, [Next]_vars PROVE IInv'
    OBVIOUS
<1> USE StoreAssumption DEF StoreAssumption
<1>t. TypeOK /\ TypeOK'
    BY NextType DEF IInv
<1>j. Promoting \/ Publishing \/ pc = "index" =>
        job \in Job /\ job.art \in Artifact /\ job.meta \in Metadata /\ job.meta.version \in Versions
    BY DEF IInv, JobShape, Job, Metadata
<1> DEFINE Core == NowIsPossible /\ JobShape /\ Covered /\ AckedTyped
                    /\ AckedHistoryKept /\ AckCovered
<1>core. Core
    BY DEF IInv
<1>v. mem.version \in Nat /\ \A p \in acked : p[1] \in Versions
    BY <1>t, <1>core DEF TypeOK, AckedTyped
<1>p. Publishing => /\ job.meta.version \in Versions /\ job.meta.version = mem.version + 1
                    /\ \A p \in acked : p[1] # job.meta.version
    <2>1. Publishing => job.meta.version = mem.version + 1
        BY <1>core DEF JobShape
    <2>2. Publishing => \A p \in acked : p[1] <= mem.version
        BY <1>core DEF Covered, Publishing, Promoting, Running
    <2> QED BY <1>j, <1>v, <2>1, <2>2 DEF Versions
<1> SUFFICES Core'
    BY <1>t DEF IInv
<1>1. CASE PromoteArtifact
    <2> USE <1>1 DEF PromoteArtifact, hist, memory, ghosts
    <2>1. lkgArt'.may = lkgArt.may \cup {job.art} /\ lkgArt'.now = job.art
        BY DEF Write
    <2>2. NowIsPossible' /\ AckedTyped' /\ AckedHistoryKept'
        BY <1>core, <2>1 DEF NowIsPossible, AckedTyped, AckedHistoryKept
    <2>3. JobShape' /\ Covered'
        BY <1>core, <2>1 DEF JobShape, Covered, Publishing, Promoting, Appended, Promoted, Running
    <2>4. AckCovered'
        <3> SUFFICES ASSUME acked # {} PROVE AckCovered'
            BY DEF AckCovered
        <3>1. PICK p \in acked : Last(p)
            BY <1>core DEF AckCovered
        <3>2. job.origin = "publish" /\ job.art \in since
            BY <1>core DEF JobShape, Publishing, Promoting
        <3>3. Last(p)'
            BY <3>1, <3>2, <2>1 DEF Last, Running, Promoting
        <3> QED BY <3>3 DEF AckCovered
    <2> QED BY <2>2, <2>3, <2>4
<1>2. CASE PromoteMetadata
    <2> USE <1>2 DEF PromoteMetadata, hist, memory, ghosts
    <2>1. lkgMeta'.may = lkgMeta.may \cup {job.meta} /\ lkgMeta'.now = job.meta /\ job.meta # None
        BY <1>j DEF Write, Promoting, Metadata, Versions
    <2>2. NowIsPossible' /\ AckedTyped' /\ AckedHistoryKept'
        BY <1>core, <2>1 DEF NowIsPossible, AckedTyped, AckedHistoryKept
    <2>3. JobShape'
        BY <1>core, <2>1 DEF JobShape, Publishing, Promoting, Appended, Promoted
    <2>5. \A p \in acked : p[1] <= job.meta.version
        <3>1. acked # {} => job.meta.version = mem.version + 1 /\ Running
            BY <1>core DEF JobShape, Publishing, Promoting, Running
        <3> QED BY <3>1, <1>core, <1>v DEF Covered, Versions
    <2>6. Covered'
        BY <1>core, <2>1, <2>5 DEF Covered, Promoting, Running
    <2>4. AckCovered'
        BY <1>core DEF AckCovered, Last, Running, Promoting
    <2> QED BY <2>2, <2>3, <2>4, <2>6
<1>3. CASE PromoteSync
    <2> USE <1>3 DEF PromoteSync, hist, memory, ghosts
    <2>1. /\ lkgArt' = Stable(lkgArt.now) /\ lkgArt'.now = lkgArt.now /\ lkgArt'.may = {lkgArt.now}
          /\ lkgMeta' = Stable(lkgMeta.now) /\ lkgMeta'.now = lkgMeta.now /\ lkgMeta'.may = {lkgMeta.now}
          /\ lkgArt.now \in lkgArt.may /\ lkgMeta.now \in lkgMeta.may
        BY <1>core DEF Fsync, Stable, NowIsPossible
    <2>2. NowIsPossible' /\ AckedTyped' /\ AckedHistoryKept'
        BY <1>core, <2>1 DEF NowIsPossible, AckedTyped, AckedHistoryKept
    <2>3. JobShape'
        BY <1>core, <2>1 DEF JobShape, Publishing, Promoting, Appended, Promoted
    <2>4. Covered'
        BY <1>core, <2>1 DEF Covered, Promoting, Running
    <2>5. AckCovered'
        BY <1>core, <2>1 DEF AckCovered, Last, Running, Promoting
    <2> QED BY <2>2, <2>3, <2>4, <2>5
<1>4. CASE PublishFails
    <2> USE <1>4 DEF PublishFails, lkg, memory, ghosts
    <2>1. /\ Publishing /\ job.meta.version \in Versions
          /\ job.meta.version = mem.version + 1
          /\ mem.version \in Nat
        BY <1>p, <1>v DEF Publishing
    <2>2. \A v \in Versions : v # job.meta.version => histArt'[v] = histArt[v] /\ histMeta'[v] = histMeta[v]
        BY <1>t, <2>1 DEF TypeOK
    <2>4. NowIsPossible' /\ AckedTyped'
        BY <1>core DEF NowIsPossible, AckedTyped
    <2>5. \A p \in acked : p[1] \in Versions /\ p[1] # job.meta.version
        BY <1>p, <1>v, <2>1, ZenonT(30)
    <2>6. AckedHistoryKept'
        BY <1>core, <2>2, <2>5, ZenonT(30) DEF AckedHistoryKept
    <2>7. JobShape' /\ Covered'
        BY <1>core DEF JobShape, Covered, Publishing, Promoting, Appended, Promoted, Running
    <2>8. AckCovered'
        BY <1>core DEF AckCovered, Last, Running, Promoting
    <2> QED BY <2>4, <2>6, <2>7, <2>8
<1>5. CASE DropArtifact
    <2> USE <1>5 DEF DropArtifact, hist, memory, ghosts
    <2>1. acked = {} /\ lkgArt'.now = None /\ None \in lkgArt'.may
        BY <1>core DEF JobShape, Write
    <2>2. NowIsPossible' /\ AckedTyped' /\ AckedHistoryKept' /\ AckCovered'
        BY <1>core, <2>1 DEF NowIsPossible, AckedTyped, AckedHistoryKept, AckCovered
    <2>3. JobShape' /\ Covered'
        BY <1>core DEF JobShape, Covered, Publishing, Promoting, Appended, Promoted, Running
    <2> QED BY <2>2, <2>3
<1>6. CASE RepairFails
    <2> USE <1>6 DEF RepairFails, lkg, hist, memory, ghosts
    <2>2. NowIsPossible' /\ AckedTyped' /\ AckedHistoryKept'
        BY <1>core DEF NowIsPossible, AckedTyped, AckedHistoryKept
    <2>3. JobShape' /\ Covered'
        BY <1>core DEF JobShape, Covered, Publishing, Promoting, Appended, Promoted, Running
    <2>4. AckCovered'
        BY <1>core DEF AckCovered, Last, Running, Promoting
    <2> QED BY <2>2, <2>3, <2>4
<1>7. CASE RepairLkg
    <2> USE <1>7 DEF RepairLkg, hist, memory, ghosts
    <2>a. lkgArt.now \in lkgArt.may /\ lkgMeta.now \in lkgMeta.may
        BY <1>core DEF NowIsPossible
    <2>b. lkgMeta.now = None => acked = {}
        BY <1>core, <2>a DEF Covered
    <2>c. lkgArt.now = None => acked = {}
        <3> SUFFICES ASSUME lkgArt.now = None, acked # {} PROVE FALSE
            OBVIOUS
        <3>1. PICK p \in acked : Last(p)
            BY <1>core DEF AckCovered
        <3>2. None \in {p[2]} \cup since
            BY <3>1, <2>a DEF Last
        <3> QED BY <3>2, <1>core, <1>t DEF AckedTyped, TypeOK
    <2>d. NowIsPossible' /\ AckedTyped' /\ AckedHistoryKept'
        <3>1. NowIsPossible'
            BY <1>core DEF NowIsPossible, Recover, Write
        <3> QED BY <3>1, <1>core DEF AckedTyped, AckedHistoryKept
    <2>e. (pc' = "load" \/ pc' = "lkgArt") /\ (pc' = "load" => lkgArt' = lkgArt \/ acked = {})
        BY <2>b DEF Recover
    <2>1. CASE pc' = "load"
        <3>1. JobShape' /\ Covered'
            BY <1>core, <2>1 DEF JobShape, Covered, Publishing, Promoting, Appended, Promoted, Running
        <3>2. AckCovered'
            BY <1>core, <2>1, <2>e DEF AckCovered, Last, Running, Promoting
        <3> QED BY <2>d, <3>1, <3>2
    <2>2. CASE pc' = "lkgArt"
        <3>0. (\E v : Recover("metaOnly", v)) \/ (\E v : Recover("artOnly", v))
            BY <2>2
        <3>1. PICK o \in {"metaOnly", "artOnly"} : \E v : Recover(o, v)
            BY <3>0
        <3>2. PICK v : Recover(o, v)
            BY <3>1
        <3>3. acked = {}
            BY <2>2, <2>b, <2>c DEF Recover
        <3>4. v \in Versions /\ histArt[v].now \in Artifact /\ histMeta[v].now \in Metadata
            <4>1. v \in Versions /\ histArt[v].now \in OptArtifact /\ histMeta[v].now \in Metadata \cup {None}
                BY <3>2, <1>t DEF Recover, HistoryVersions, TypeOK, File
            <4>2. histArt[v].now # None /\ histMeta[v].now # None
                BY <3>2 DEF Recover, HistoryVersions
            <4> QED BY <4>1, <4>2 DEF OptArtifact
        <3>5. job' \in Job /\ job'.origin = o /\ o # "publish"
            BY <3>2, <3>4 DEF Recover, Job
        <3>6. JobShape'
            BY <1>core, <2>2, <3>3, <3>5 DEF JobShape, Publishing, Promoting, Appended, Promoted
        <3>7. Covered' /\ AckCovered'
            BY <3>3 DEF Covered, AckCovered
        <3> QED BY <2>d, <3>6, <3>7
    <2> QED BY <2>1, <2>2, <2>e
<1>8. CASE LoadLkg
    <2> USE <1>8 DEF LoadLkg, lkg, hist
    <2>1. lkgArt.now \in lkgArt.may /\ lkgMeta.now \in lkgMeta.may
        BY <1>core DEF NowIsPossible
    <2>2. \A p \in acked : p[1] <= DerivedVersion
        BY <1>core, <2>1 DEF Covered, DerivedVersion
    <2>3. NowIsPossible' /\ AckedTyped' /\ AckedHistoryKept'
        BY <1>core DEF NowIsPossible, AckedTyped, AckedHistoryKept
    <2>4. JobShape' /\ Covered'
        BY <1>core, <2>2 DEF JobShape, Covered, Publishing, Promoting, Appended, Promoted, Running
    <2>5. AckCovered'
        BY <1>core, <2>1 DEF AckCovered, Last, Running, Promoting
    <2> QED BY <2>3, <2>4, <2>5
<1>9. CASE LoadFails
    <2> USE <1>9 DEF LoadFails, lkg, hist, memory, ghosts
    <2>2. NowIsPossible' /\ AckedTyped' /\ AckedHistoryKept'
        BY <1>core DEF NowIsPossible, AckedTyped, AckedHistoryKept
    <2>3. JobShape' /\ Covered'
        BY <1>core DEF JobShape, Covered, Publishing, Promoting, Appended, Promoted, Running
    <2>4. AckCovered'
        BY <1>core DEF AckCovered, Last, Running, Promoting
    <2> QED BY <2>2, <2>3, <2>4
<1>22. CASE StartFails
    <2> USE <1>22 DEF StartFails, lkg, hist, memory, ghosts
    <2>2. NowIsPossible' /\ AckedTyped' /\ AckedHistoryKept'
        BY <1>core DEF NowIsPossible, AckedTyped, AckedHistoryKept
    <2>3. JobShape' /\ Covered'
        BY <1>core DEF JobShape, Covered, Publishing, Promoting, Appended, Promoted, Running
    <2>4. AckCovered'
        BY <1>core DEF AckCovered, Last, Running, Promoting
    <2> QED BY <2>2, <2>3, <2>4
<1>10. ASSUME NEW a \in Artifact, StartPublish(a) PROVE Core'
    <2> USE <1>10 DEF StartPublish, lkg, hist, memory
    <2>1. /\ job' \in Job /\ job'.origin = "publish" /\ job'.art = a /\ job'.meta.sum = a
          /\ job'.meta.version = mem.version + 1
        <3>1. ProposedVersion \in Versions
            BY <1>t DEF ProposedVersion, TypeOK, Versions
        <3> QED BY <3>1 DEF Job, Metadata, ProposedVersion
    <2>2. NowIsPossible' /\ AckedTyped' /\ AckedHistoryKept'
        BY <1>core DEF NowIsPossible, AckedTyped, AckedHistoryKept
    <2>3. JobShape' /\ Covered'
        BY <1>core, <2>1 DEF JobShape, Covered, Publishing, Promoting, Appended, Promoted, Running
    <2>4. AckCovered'
        BY <1>core DEF AckCovered, Last, Running, Promoting
    <2> QED BY <2>2, <2>3, <2>4
<1>11. CASE AppendArtifact
    <2> USE <1>11 DEF AppendArtifact, lkg, memory, ghosts
    <2>1. /\ Publishing /\ job.meta.version \in Versions
          /\ job.meta.version = mem.version + 1 /\ mem.version \in Nat
        BY <1>p, <1>v DEF Publishing
    <2>2. /\ \A v \in Versions : v # job.meta.version => histArt'[v] = histArt[v]
          /\ histArt'[job.meta.version].now = job.art
        BY <1>t, <2>1 DEF TypeOK, Write
    <2>3. \A p \in acked : p[1] \in Versions /\ p[1] # job.meta.version
        BY <1>p, <1>v, <2>1, ZenonT(30)
    <2>4. NowIsPossible' /\ AckedTyped' /\ AckedHistoryKept'
        BY <1>core, <2>2, <2>3 DEF NowIsPossible, AckedTyped, AckedHistoryKept
    <2>5. JobShape' /\ Covered'
        BY <1>core, <2>2 DEF JobShape, Covered, Publishing, Promoting, Appended, Promoted, Running
    <2>6. AckCovered'
        BY <1>core DEF AckCovered, Last, Running, Promoting
    <2> QED BY <2>4, <2>5, <2>6
<1>12. CASE AppendMetadata
    <2> USE <1>12 DEF AppendMetadata, lkg, memory, ghosts
    <2>1. /\ Publishing /\ job.meta.version \in Versions
          /\ job.meta.version = mem.version + 1 /\ mem.version \in Nat
        BY <1>p, <1>v DEF Publishing
    <2>2. /\ \A v \in Versions : v # job.meta.version => histMeta'[v] = histMeta[v]
          /\ histMeta'[job.meta.version].now = job.meta
          /\ histMeta'[job.meta.version].may = histMeta[job.meta.version].may \cup {job.meta}
        BY <1>t, <2>1 DEF TypeOK, Write
    <2>3. \A p \in acked : p[1] \in Versions /\ p[1] # job.meta.version
        BY <1>p, <1>v, <2>1, ZenonT(30)
    <2>4. NowIsPossible'
        BY <1>core, <2>1, <2>2 DEF NowIsPossible
    <2>5. AckedTyped' /\ AckedHistoryKept'
        BY <1>core, <2>2, <2>3 DEF AckedTyped, AckedHistoryKept
    <2>6. JobShape' /\ Covered'
        BY <1>core, <2>2 DEF JobShape, Covered, Publishing, Promoting, Appended, Promoted, Running
    <2>7. AckCovered'
        BY <1>core DEF AckCovered, Last, Running, Promoting
    <2> QED BY <2>4, <2>5, <2>6, <2>7
<1>13. CASE AppendSync
    <2> USE <1>13 DEF AppendSync, lkg, memory, ghosts
    <2>1. \A v \in Versions : /\ histArt'[v] = Stable(histArt[v].now)
                              /\ histMeta'[v] = Stable(histMeta[v].now)
        BY DEF Fsync
    <2>2. \A c : Stable(c).now = c /\ Stable(c).may = {c}
        BY DEF Stable
    <2>3. Publishing /\ job.meta.version \in Versions /\ job.meta.version = mem.version + 1 /\ mem.version \in Nat
        BY <1>p, <1>v DEF Publishing
    <2>4. NowIsPossible' /\ AckedTyped'
        BY <1>core, <2>1, <2>2 DEF NowIsPossible, AckedTyped
    <2>5. AckedHistoryKept'
        <3> SUFFICES ASSUME NEW p \in acked
                     PROVE  /\ histArt'[p[1]] = Stable(p[2])
                            /\ histMeta'[p[1]] = Stable([version |-> p[1], sum |-> p[2]])
            BY ZenonT(30) DEF AckedHistoryKept
        <3>1. /\ p[1] \in Versions /\ histArt[p[1]] = Stable(p[2])
              /\ histMeta[p[1]] = Stable([version |-> p[1], sum |-> p[2]])
            BY <1>core DEF AckedHistoryKept, AckedTyped
        <3> QED BY <3>1, <2>1, <2>2
    <2>6. JobShape'
        <3>1. /\ histArt'[job.meta.version] = Stable(job.art)
              /\ histMeta'[job.meta.version] = Stable(job.meta)
            BY <1>core, <2>1, <2>3 DEF JobShape
        <3> QED BY <1>core, <3>1, <2>3 DEF JobShape, Publishing, Promoting, Appended, Promoted
    <2>7. Covered'
        BY <1>core DEF Covered, Promoting, Running
    <2>8. AckCovered'
        BY <1>core DEF AckCovered, Last, Running, Promoting
    <2> QED BY <2>4, <2>5, <2>6, <2>7, <2>8
<1>14. CASE AppendFails
    <2> USE <1>14 DEF AppendFails, lkg, hist, memory, ghosts
    <2>1. NowIsPossible' /\ AckedTyped' /\ AckedHistoryKept'
        BY <1>core DEF NowIsPossible, AckedTyped, AckedHistoryKept
    <2>2. JobShape' /\ Covered'
        BY <1>core DEF JobShape, Covered, Publishing, Promoting, Appended, Promoted, Running
    <2>3. AckCovered'
        BY <1>core DEF AckCovered, Last, Running, Promoting
    <2> QED BY <2>1, <2>2, <2>3
<1>15. CASE SaveState
    <2> USE <1>15 DEF SaveState, lkg, hist, memory, ghosts
    <2>1. NowIsPossible' /\ AckedTyped' /\ AckedHistoryKept'
        BY <1>core DEF NowIsPossible, AckedTyped, AckedHistoryKept
    <2>2. JobShape' /\ Covered'
        BY <1>core DEF JobShape, Covered, Publishing, Promoting, Appended, Promoted, Running
    <2>3. AckCovered'
        BY <1>core DEF AckCovered, Last, Running, Promoting
    <2> QED BY <2>1, <2>2, <2>3
<1>16. CASE SetSnapshot
    <2> USE <1>16 DEF SetSnapshot, lkg, hist
    <2>1. NowIsPossible' /\ AckedTyped' /\ AckedHistoryKept'
        BY <1>core DEF NowIsPossible, AckedTyped, AckedHistoryKept
    <2>2. JobShape'
        BY <1>core DEF JobShape, Publishing, Promoting, Appended, Promoted
    <2>3. Covered'
        <3>1. \A p \in acked : p[1] \in Nat /\ p[1] <= mem.version
            <4>1. Running
                BY DEF Running
            <4>2. \A p \in acked : p[1] <= mem.version
                BY <1>core, <4>1, ZenonT(30) DEF Covered
            <4>3. \A p \in acked : p[1] \in Nat
                BY <1>core DEF AckedTyped, Versions
            <4> QED BY <4>2, <4>3, ZenonT(30)
        <3>2. mem'.version = mem.version + 1 /\ mem.version \in Nat
            BY <1>p, <1>v DEF Publishing
        <3> QED BY <3>1, <3>2, <1>core DEF Covered
    <2>4. AckCovered'
        <3>1. job.art \in since
            BY <1>core DEF JobShape, Publishing
        <3> QED BY <3>1, <1>core DEF AckCovered, Last, Running, Promoting
    <2> QED BY <2>1, <2>2, <2>3, <2>4
<1>17. CASE Announce
    <2> USE <1>17 DEF Announce, lkg, hist
    <2>0. PICK new : new = <<job.meta.version, job.art>>
        BY ZenonT(30)
    <2>1. /\ acked' = acked \cup {new} /\ new[1] = job.meta.version /\ new[2] = job.art
          /\ job.meta.version \in Versions /\ job.art \in Artifact /\ job.meta \in Metadata
        BY <1>j, <2>0
    <2>2. /\ job.meta.sum = job.art /\ mem.version = job.meta.version /\ mem.art = job.art
          /\ histArt[job.meta.version] = Stable(job.art) /\ histMeta[job.meta.version] = Stable(job.meta)
          /\ lkgArt.may = {job.art} /\ lkgMeta.may = {job.meta}
        <3>1. /\ job.meta.sum = job.art /\ mem = [version |-> job.meta.version, art |-> job.art]
              /\ histArt[job.meta.version] = Stable(job.art) /\ histMeta[job.meta.version] = Stable(job.meta)
              /\ lkgArt = Stable(job.art) /\ lkgMeta = Stable(job.meta)
            BY <1>core DEF JobShape, Appended, Promoted
        <3> QED BY <3>1 DEF Stable
    <2>3. job.meta = [version |-> new[1], sum |-> new[2]] /\ job.meta # None
        BY <2>1, <2>2 DEF Metadata, Versions
    <2>4. NowIsPossible' /\ AckedTyped'
        BY <1>core, <2>1 DEF NowIsPossible, AckedTyped
    <2>5. AckedHistoryKept'
        BY <1>core, <2>1, <2>2, <2>3, ZenonT(30) DEF AckedHistoryKept
    <2>6. JobShape'
        BY <1>core DEF JobShape, Publishing, Promoting, Appended, Promoted
    <2>7. \A p \in acked' : p[1] <= job.meta.version
        <3>1. \A p \in acked : p[1] <= mem.version
            BY <1>core DEF Covered, Running
        <3> QED BY <3>1, <2>1, <2>2 DEF Versions
    <2>8. Covered'
        BY <2>2, <2>3, <2>7 DEF Covered
    <2>9. Last(new)'
        BY <2>1, <2>2, <2>7 DEF Last
    <2> QED BY <2>1, <2>4, <2>5, <2>6, <2>8, <2>9 DEF AckCovered
<1>18. CASE Disconnect
    <2> USE <1>18 DEF Disconnect, lkg, hist, memory, ghosts
    <2>1. NowIsPossible' /\ AckedTyped' /\ AckedHistoryKept'
        BY <1>core DEF NowIsPossible, AckedTyped, AckedHistoryKept
    <2>2. JobShape' /\ Covered'
        BY <1>core DEF JobShape, Covered, Publishing, Promoting, Appended, Promoted, Running
    <2>3. AckCovered'
        BY <1>core DEF AckCovered, Last, Running, Promoting
    <2> QED BY <2>1, <2>2, <2>3
<1>19. CASE Exit
    <2> USE <1>19 DEF Exit, NoProcess, lkg, hist, ghosts
    <2>1. NowIsPossible' /\ AckedTyped' /\ AckedHistoryKept'
        BY <1>core DEF NowIsPossible, AckedTyped, AckedHistoryKept
    <2>2. JobShape' /\ Covered'
        BY <1>core DEF JobShape, Covered, Publishing, Promoting, Appended, Promoted, Running
    <2>3. AckCovered'
        BY <1>core DEF AckCovered, Last, Running, Promoting
    <2> QED BY <2>1, <2>2, <2>3
<1>20. CASE PowerLoss
    <2> USE <1>20 DEF PowerLoss, NoProcess, ghosts
    <2>1. PICK a \in lkgArt.may : lkgArt' = Stable(a)
        BY DEF Survive
    <2>2. PICK m \in lkgMeta.may : lkgMeta' = Stable(m)
        BY DEF Survive
    <2>3. \A c : Stable(c).now = c /\ Stable(c).may = {c}
        BY DEF Stable
    <2>4. \A v \in Versions : /\ \E c \in histArt[v].may : histArt'[v] = Stable(c)
                              /\ \E c \in histMeta[v].may : histMeta'[v] = Stable(c)
        OBVIOUS
    <2>5. NowIsPossible' /\ AckedTyped'
        BY <1>core, <2>1, <2>2, <2>3 DEF NowIsPossible, AckedTyped
    <2>6. AckedHistoryKept'
        <3> SUFFICES ASSUME NEW p \in acked
                     PROVE  /\ histArt'[p[1]] = Stable(p[2])
                            /\ histMeta'[p[1]] = Stable([version |-> p[1], sum |-> p[2]])
            BY ZenonT(30) DEF AckedHistoryKept
        <3>1. /\ p[1] \in Versions /\ histArt[p[1]].may = {p[2]}
              /\ histMeta[p[1]].may = {[version |-> p[1], sum |-> p[2]]}
            BY <1>core, <2>3, ZenonT(30) DEF AckedHistoryKept, AckedTyped
        <3> QED BY <3>1, <2>4
    <2>7. JobShape'
        BY DEF JobShape, Publishing, Promoting, Appended, Promoted
    <2>8. Covered'
        BY <1>core, <2>2, <2>3 DEF Covered, Running, Promoting
    <2>9. AckCovered'
        BY <1>core, <2>1, <2>3 DEF AckCovered, Last, Running, Promoting
    <2> QED BY <2>5, <2>6, <2>7, <2>8, <2>9
<1>21. CASE UNCHANGED vars
    <2> USE <1>21 DEF vars, lkg, hist, memory, ghosts
    <2>1. NowIsPossible' /\ AckedTyped' /\ AckedHistoryKept'
        BY <1>core DEF NowIsPossible, AckedTyped, AckedHistoryKept
    <2>2. JobShape' /\ Covered'
        BY <1>core DEF JobShape, Covered, Publishing, Promoting, Appended, Promoted, Running
    <2>3. AckCovered'
        BY <1>core DEF AckCovered, Last, Running, Promoting
    <2> QED BY <2>1, <2>2, <2>3
<1> QED
    BY <1>1, <1>2, <1>3, <1>4, <1>5, <1>6, <1>7, <1>8, <1>9, <1>10, <1>11, <1>12, <1>13, <1>14,
       <1>15, <1>16, <1>17, <1>18, <1>19, <1>20, <1>21, <1>22 DEF Next, Startup, Append, Promote, Commit

\* The inductive invariant holds of every behaviour.
THEOREM StoreInvariant == Spec => []IInv
<1>1. Init => IInv
    BY InitIInv
<1>2. IInv /\ [Next]_vars => IInv'
    BY NextIInv
<1> QED BY <1>1, <1>2, PTL DEF Spec

\* What publish_bytes acknowledged survives every exit, power loss, failed file
\* operation and dropped request, whatever their number.
THEOREM AckedPublishSurvives == Spec => [](TypeOK /\ AckedIsDurable /\ AckedHistoryKept)
<1>1. IInv => AckedIsDurable
    BY DEF IInv, AckCovered, Last, Covered, AckedIsDurable
<1>2. IInv => TypeOK /\ AckedIsDurable /\ AckedHistoryKept
    BY <1>1 DEF IInv
<1> QED BY <1>2, StoreInvariant, PTL

\* The history entry of an acknowledged version stays complete and synced.
COROLLARY AckedHistory == Spec => []AckedHistoryKept
<1>1. IInv => AckedHistoryKept
    BY DEF IInv
<1> QED BY <1>1, StoreInvariant, PTL

-----------------------------------------------------------------------------
(* What the read endpoints show, and how far versions go back.             *)

\* Every step preserves what the read endpoints rest on.
LEMMA NextServed == IInv /\ IInv' /\ Served /\ [Next]_vars => Served'
<1> SUFFICES ASSUME IInv, IInv', Served, [Next]_vars PROVE Served'
    OBVIOUS
<1> USE StoreAssumption DEF StoreAssumption
<1>t. TypeOK /\ NowIsPossible /\ JobShape /\ Covered /\ AckedTyped
    BY DEF IInv
<1>m. /\ mem.version \in 0..MaxVersion /\ lkgMeta.now \in Metadata \cup {None}
      /\ lkgMeta.now # None => lkgMeta.now.version \in 1..MaxVersion
    BY <1>t DEF TypeOK, File, Metadata, Versions
<1>j. Promoting \/ Publishing \/ pc = "index" =>
        job \in Job /\ job.meta \in Metadata /\ job.meta # None /\ job.meta.version \in Versions
    BY <1>t DEF JobShape, Job, Metadata, Versions
<1>1. CASE PromoteArtifact
    BY <1>1, <1>t, <1>m, <1>j
    DEF PromoteArtifact, Served, Running, Promoting, Publishing, JobShape, lkg, hist, memory, ghosts
<1>2. CASE PromoteMetadata
    <2>1. lkgMeta'.now = job.meta /\ mem' = mem /\ acked' = acked /\ ready' = ready /\ index' = index
        BY <1>2 DEF PromoteMetadata, Write, memory, ghosts
    <2>2. Running' => Running /\ Publishing /\ job.meta.version = mem.version + 1
        BY <1>2, <1>t DEF PromoteMetadata, Running, Promoting, Publishing, JobShape
    <2> QED BY <1>2, <1>j, <1>m, <2>1, <2>2 DEF PromoteMetadata, Promoting, Served, Versions
<1>3. CASE PromoteSync
    <2>1. lkgMeta'.now = lkgMeta.now /\ mem' = mem /\ acked' = acked /\ ready' = ready /\ index' = index
        BY <1>3 DEF PromoteSync, Fsync, Stable, memory, ghosts
    <2>2. Running' => Running
        BY <1>3 DEF PromoteSync, Running, Promoting
    <2> QED BY <2>1, <2>2 DEF Served
<1>4. CASE PublishFails
    BY <1>4, <1>t, <1>m, <1>j
    DEF PublishFails, Served, Running, Promoting, Publishing, JobShape, lkg, hist, memory, ghosts
<1>5. CASE DropArtifact
    BY <1>5, <1>t, <1>m, <1>j
    DEF DropArtifact, Served, Running, Promoting, Publishing, JobShape, lkg, hist, memory, ghosts
<1>6. CASE RepairFails
    BY <1>6, <1>t, <1>m, <1>j
    DEF RepairFails, Served, Running, Promoting, Publishing, JobShape, lkg, hist, memory, ghosts
<1>7. CASE RepairLkg
    <2>1. pc' = "load" \/ (pc' = "lkgArt" /\ job'.origin # "publish")
        BY <1>7 DEF RepairLkg, Recover
    <2> QED BY <2>1 DEF Served, Running, Promoting
<1>8. CASE LoadLkg
    <2>1. mem'.version = DerivedVersion /\ <<DerivedVersion, lkgArt.now>> \in index' /\ acked' = acked /\ lkgMeta' = lkgMeta
        BY <1>8 DEF LoadLkg, lkg
    <2>2. DerivedVersion = 0 \/ (lkgMeta.now # None /\ DerivedVersion <= lkgMeta.now.version)
        BY <1>m DEF DerivedVersion
    <2>3. acked # {} => ready' = "yes"
        BY <1>8, <1>t DEF LoadLkg, Covered, NowIsPossible
    <2>4. \E q \in index' : q[1] = mem'.version
        BY <2>1
    <2> QED BY <2>1, <2>2, <2>3, <2>4 DEF Served
<1>9. CASE LoadFails
    BY <1>9, <1>t, <1>m, <1>j
    DEF LoadFails, Served, Running, Promoting, Publishing, JobShape, lkg, hist, memory, ghosts
<1>10. CASE StartFails
    BY <1>10, <1>t, <1>m, <1>j
    DEF StartFails, Served, Running, Promoting, Publishing, JobShape, lkg, hist, memory, ghosts
<1>11. ASSUME NEW a \in Artifact, StartPublish(a) PROVE Served'
    BY <1>11, <1>t, <1>m, <1>j
    DEF StartPublish, Served, Running, Promoting, Publishing, JobShape, lkg, hist, memory, ghosts
<1>12. CASE AppendArtifact
    BY <1>12, <1>t, <1>m, <1>j
    DEF AppendArtifact, Served, Running, Promoting, Publishing, JobShape, lkg, hist, memory, ghosts
<1>13. CASE AppendMetadata
    BY <1>13, <1>t, <1>m, <1>j
    DEF AppendMetadata, Served, Running, Promoting, Publishing, JobShape, lkg, hist, memory, ghosts
<1>14. CASE AppendSync
    BY <1>14, <1>t, <1>m, <1>j
    DEF AppendSync, Served, Running, Promoting, Publishing, JobShape, lkg, hist, memory, ghosts
<1>15. CASE AppendFails
    BY <1>15, <1>t, <1>m, <1>j
    DEF AppendFails, Served, Running, Promoting, Publishing, JobShape, lkg, hist, memory, ghosts
<1>16. CASE SaveState
    BY <1>16, <1>t, <1>m, <1>j
    DEF SaveState, Served, Running, Promoting, Publishing, JobShape, lkg, hist, memory, ghosts
<1>17. CASE SetSnapshot
    <2>1. /\ mem'.version = job.meta.version /\ job.meta.version = mem.version + 1
          /\ lkgMeta' = lkgMeta /\ lkgMeta.now = job.meta /\ acked' = acked /\ ready' = ready
        BY <1>17, <1>t DEF SetSnapshot, JobShape, Publishing, Promoted, Stable, lkg
    <2>2. \A p \in acked : p[1] \in Nat /\ p[1] <= mem.version
        <3>1. Running
            BY <1>17 DEF SetSnapshot, Running
        <3>2. \A p \in acked : p[1] <= mem.version
            BY <1>t, <3>1, ZenonT(30) DEF Covered
        <3>3. \A p \in acked : p[1] \in Nat
            BY <1>t DEF AckedTyped, Versions
        <3> QED BY <3>2, <3>3, ZenonT(30)
    <2>3. Running /\ job.meta \in Metadata /\ job.meta # None /\ job.meta.version \in Versions
        BY <1>17, <1>j DEF SetSnapshot, Running, Publishing
    <2> QED BY <1>m, <2>1, <2>2, <2>3 DEF Served, Versions
<1>18. CASE Announce
    <2>1. /\ mem' = mem /\ mem.version = job.meta.version /\ lkgMeta' = lkgMeta /\ ready' = "yes"
          /\ <<job.meta.version, job.art>> \in index'
        BY <1>18, <1>t DEF Announce, JobShape, lkg
    <2>2. Running
        BY <1>18 DEF Announce, Running
    <2> QED BY <2>1, <2>2 DEF Served
<1>19. CASE Disconnect
    BY <1>19, <1>t, <1>m, <1>j
    DEF Disconnect, Served, Running, Promoting, Publishing, JobShape, lkg, hist, memory, ghosts
<1>20. CASE Exit
    BY <1>20, <1>t, <1>m, <1>j
    DEF Exit, NoProcess, Served, Running, Promoting, Publishing, JobShape, lkg, hist, memory, ghosts
<1>21. CASE PowerLoss
    BY <1>21, <1>t, <1>m, <1>j
    DEF PowerLoss, NoProcess, Served, Running, Promoting, Publishing, JobShape, lkg, hist, memory, ghosts
<1>22. CASE UNCHANGED vars
    BY <1>22, <1>t, <1>m, <1>j
    DEF vars, Served, Running, Promoting, Publishing, JobShape, lkg, hist, memory, ghosts
<1> QED
    BY <1>1, <1>2, <1>3, <1>4, <1>5, <1>6, <1>7, <1>8, <1>9, <1>10, <1>11, <1>12, <1>13, <1>14, <1>15, <1>16,
        <1>17, <1>18, <1>19, <1>20, <1>21, <1>22
       DEF Next, Startup, Append, Promote, Commit

\* Every step keeps durable versions durable.
LEMMA NextSettled == IInv /\ IInv' /\ Settled /\ [Next]_vars => Settled'
<1> SUFFICES ASSUME IInv, IInv', Settled, [Next]_vars PROVE Settled'
    OBVIOUS
<1> USE StoreAssumption DEF StoreAssumption
<1> DEFINE Ahead == \A p \in durable : p[1] = 0 \/ \A m \in lkgMeta.may : m # None /\ p[1] <= m.version
           Named == \A v \in Versions :
                       /\ histArt[v].now \in histArt[v].may /\ histMeta[v].now \in histMeta[v].may
                       /\ \A m \in histMeta[v].may : m # None => m.version = v
           Origin == /\ Promoting /\ job.origin = "metaOnly" =>
                           lkgMeta.now # None /\ lkgMeta.now.version = job.meta.version
                     /\ Promoting /\ job.origin = "artOnly" => \A p \in durable : p[1] = 0
<1>s. Ahead /\ Named /\ Origin /\ VersionsNeverGoBack
    BY DEF Settled
<1>g. SUFFICES Ahead' /\ Named' /\ Origin' /\ VersionsNeverGoBack'
    BY DEF Settled
<1>t. TypeOK /\ NowIsPossible /\ JobShape
    BY DEF IInv
<1>m. /\ mem.version \in 0..MaxVersion /\ lkgMeta.now \in Metadata \cup {None}
      /\ \A p \in durable : p[1] \in 0..MaxVersion
      /\ \A m \in lkgMeta.may : m # None => m.version \in 1..MaxVersion
    BY <1>t DEF TypeOK, File, Metadata, Versions, Pair
<1>j. Promoting \/ Publishing \/ pc = "index" =>
        job \in Job /\ job.meta \in Metadata /\ job.meta # None /\ job.meta.version \in Versions
    BY <1>t DEF JobShape, Job, Metadata, Versions
<1>1. CASE PromoteArtifact
    BY <1>1, <1>t, <1>m, <1>s
    DEF PromoteArtifact, VersionsNeverGoBack, Running, Promoting, lkg, hist, memory, ghosts
<1>2. CASE PromoteMetadata
    <2>1. /\ lkgMeta'.may = lkgMeta.may \cup {job.meta} /\ lkgMeta'.now = job.meta /\ job' = job
          /\ durable' = durable /\ mem' = mem /\ hist' = hist
        BY <1>2 DEF PromoteMetadata, Write, memory, ghosts
    <2>2. \A p \in durable : p[1] = 0 \/ p[1] <= job.meta.version
        <3>0. job \in Job /\ job.meta.version \in Versions /\ Promoting
            BY <1>2, <1>j DEF PromoteMetadata, Promoting
        <3>1. CASE job.origin = "publish"
            <4>1. Running /\ job.meta.version = mem.version + 1
                BY <3>0, <3>1, <1>t DEF Running, JobShape, Publishing
            <4> QED BY <4>1, <1>s, <1>m DEF VersionsNeverGoBack
        <3>2. CASE job.origin = "metaOnly"
            BY <3>0, <3>2, <1>s, <1>t DEF NowIsPossible
        <3>3. CASE job.origin = "artOnly"
            BY <3>0, <3>3, <1>s
        <3> QED BY <3>0, <3>1, <3>2, <3>3 DEF Job
    <2>3. Ahead'
        BY <1>2, <1>j, <1>s, <2>1, <2>2 DEF PromoteMetadata, Promoting
    <2>4. Named' /\ Origin'
        BY <1>2, <1>j, <1>s, <2>1 DEF PromoteMetadata, Promoting, hist
    <2>5. VersionsNeverGoBack'
        BY <1>2, <1>s, <2>1 DEF PromoteMetadata, Promoting, VersionsNeverGoBack, Running
    <2> QED BY <2>3, <2>4, <2>5
<1>3. CASE PromoteSync
    <2>1. /\ lkgMeta'.may = {lkgMeta.now} /\ lkgMeta'.now = lkgMeta.now
          /\ durable' = durable /\ mem' = mem /\ hist' = hist /\ job' = job
        BY <1>3 DEF PromoteSync, Fsync, Stable, memory, ghosts
    <2>2. Ahead' /\ Named'
        BY <1>s, <1>t, <2>1 DEF NowIsPossible, hist
    <2>3. Origin' /\ VersionsNeverGoBack'
        BY <1>3, <1>s, <2>1 DEF PromoteSync, Promoting, VersionsNeverGoBack, Running
    <2> QED BY <2>2, <2>3
<1>4. CASE PublishFails
    <2>1. Ahead' /\ Origin' /\ VersionsNeverGoBack'
        BY <1>4, <1>s DEF PublishFails, Promoting, VersionsNeverGoBack, Running, lkg, memory, ghosts
    <2>2. ASSUME NEW v \in Versions
          PROVE  /\ histArt'[v] = histArt[v] \/ histArt'[v] = Write(histArt[v], None)
                 /\ histMeta'[v] = histMeta[v] \/ histMeta'[v] = Write(histMeta[v], None)
        BY <1>4, <1>t DEF PublishFails, TypeOK
    <2>3. \A f, c : Write(f, c).now = c /\ Write(f, c).may = f.may \cup {c}
        BY DEF Write
    <2>4. Named'
        BY <1>s, <2>2, <2>3
    <2> QED BY <2>1, <2>4
<1>5. CASE DropArtifact
    BY <1>5, <1>t, <1>m, <1>s
    DEF DropArtifact, VersionsNeverGoBack, Running, Promoting, lkg, hist, memory, ghosts
<1>6. CASE RepairFails
    BY <1>6, <1>t, <1>m, <1>s
    DEF RepairFails, VersionsNeverGoBack, Running, Promoting, lkg, hist, memory, ghosts
<1>7. CASE RepairLkg
    <2>1. lkgMeta' = lkgMeta /\ hist' = hist /\ durable' = durable /\ pc' \in {"load", "lkgArt"}
        BY <1>7 DEF RepairLkg, Recover, ghosts
    <2>2. Ahead' /\ Named'
        BY <1>s, <2>1 DEF hist
    <2>3. VersionsNeverGoBack' /\ Origin'
        <3>1. CASE pc' = "load"
            BY <3>1 DEF VersionsNeverGoBack, Running, Promoting
        <3>2. ASSUME pc' = "lkgArt", ~Present(lkgArt), Present(lkgMeta), Recover("metaOnly", lkgMeta.now.version)
              PROVE  VersionsNeverGoBack' /\ Origin'
            <4>1. /\ job'.origin = "metaOnly" /\ job'.meta = histMeta[lkgMeta.now.version].now
                  /\ lkgMeta.now.version \in HistoryVersions
                BY <3>2 DEF Recover
            <4>2. job'.meta.version = lkgMeta.now.version
                BY <4>1, <1>s DEF HistoryVersions
            <4> QED BY <3>2, <4>1, <4>2, <2>1 DEF VersionsNeverGoBack, Running, Promoting
        <3>3. ASSUME NEW v \in HistoryVersions, pc' = "lkgArt", ~Present(lkgMeta), Recover("artOnly", v)
              PROVE  VersionsNeverGoBack' /\ Origin'
            <4>1. job'.origin = "artOnly"
                BY <3>3 DEF Recover
            <4>2. \A p \in durable : p[1] = 0
                BY <3>3, <1>s, <1>t DEF NowIsPossible
            <4> QED BY <3>3, <4>1, <4>2, <2>1 DEF VersionsNeverGoBack, Running, Promoting
        <3> QED BY <1>7, <2>1, <3>1, <3>2, <3>3 DEF RepairLkg
    <2> QED BY <2>2, <2>3
<1>8. CASE LoadLkg
    <2>0. PICK new : new = <<DerivedVersion, lkgArt.now>>
        BY ZenonT(30)
    <2>1. /\ lkgMeta' = lkgMeta /\ hist' = hist /\ pc' = "idle" /\ mem'.version = DerivedVersion
          /\ durable' = durable \/ (durable' = durable \cup {new} /\ lkgMeta.may = {lkgMeta.now})
          /\ new[1] = DerivedVersion
        BY <1>8, <2>0 DEF LoadLkg, lkg, Stable
    <2>2. \A p \in durable : p[1] <= DerivedVersion
        BY <1>s, <1>t, <1>m DEF NowIsPossible, DerivedVersion
    <2>3. DerivedVersion \in Nat /\ (DerivedVersion = 0 \/ (lkgMeta.now # None /\ DerivedVersion = lkgMeta.now.version))
        BY <1>m, <1>t DEF DerivedVersion, NowIsPossible
    <2>4. Ahead'
        BY <1>s, <2>1, <2>3
    <2>5. Named' /\ Origin'
        BY <1>s, <2>1 DEF hist, Promoting
    <2>6. VersionsNeverGoBack'
        BY <2>1, <2>2, <2>3 DEF VersionsNeverGoBack
    <2> QED BY <2>4, <2>5, <2>6
<1>9. CASE LoadFails
    BY <1>9, <1>t, <1>m, <1>s
    DEF LoadFails, VersionsNeverGoBack, Running, Promoting, lkg, hist, memory, ghosts
<1>10. CASE StartFails
    BY <1>10, <1>t, <1>m, <1>s
    DEF StartFails, VersionsNeverGoBack, Running, Promoting, lkg, hist, memory, ghosts
<1>11. ASSUME NEW a \in Artifact, StartPublish(a) PROVE Ahead' /\ Named' /\ Origin' /\ VersionsNeverGoBack'
    BY <1>11, <1>t, <1>m, <1>s
    DEF StartPublish, VersionsNeverGoBack, Running, Promoting, lkg, hist, memory, ghosts
<1>12. CASE AppendArtifact
    <2>1. Ahead' /\ Origin' /\ VersionsNeverGoBack'
        BY <1>12, <1>s DEF AppendArtifact, Promoting, VersionsNeverGoBack, Running, lkg, memory, ghosts
    <2>2. \A v \in Versions : histArt'[v] = histArt[v] \/ histArt'[v] = Write(histArt[v], job.art)
        BY <1>12, <1>t DEF AppendArtifact, TypeOK
    <2>3. Named'
        <3>1. histMeta' = histMeta
            BY <1>12 DEF AppendArtifact
        <3>2. \A f, c : Write(f, c).now = c /\ c \in Write(f, c).may
            BY DEF Write
        <3> QED BY <1>s, <2>2, <3>1, <3>2
    <2> QED BY <2>1, <2>3
<1>13. CASE AppendMetadata
    <2>1. Ahead' /\ Origin' /\ VersionsNeverGoBack'
        BY <1>13, <1>s DEF AppendMetadata, Promoting, VersionsNeverGoBack, Running, lkg, memory, ghosts
    <2>2. \A v \in Versions : \/ histMeta'[v] = histMeta[v]
                              \/ histMeta'[v] = Write(histMeta[v], job.meta) /\ v = job.meta.version
        BY <1>13, <1>t DEF AppendMetadata, TypeOK
    <2>3. Named'
        <3>1. histArt' = histArt
            BY <1>13 DEF AppendMetadata
        <3>2. \A f, c : Write(f, c).now = c /\ Write(f, c).may = f.may \cup {c}
            BY DEF Write
        <3> QED BY <1>s, <2>2, <3>1, <3>2
    <2> QED BY <2>1, <2>3
<1>14. CASE AppendSync
    <2>1. Ahead' /\ VersionsNeverGoBack'
        BY <1>14, <1>s, <1>t DEF AppendSync, Promoting, VersionsNeverGoBack, Running, JobShape, Publishing,
            lkg, memory, ghosts
    <2>2. Origin'
        BY <1>14, <1>t DEF AppendSync, Promoting, JobShape, Publishing
    <2>3. \A v \in Versions : histArt'[v] = Stable(histArt[v].now) /\ histMeta'[v] = Stable(histMeta[v].now)
        BY <1>14 DEF AppendSync, Fsync
    <2>4. \A c : Stable(c).now = c /\ Stable(c).may = {c}
        BY DEF Stable
    <2>5. Named'
        BY <1>s, <2>3, <2>4
    <2> QED BY <2>1, <2>2, <2>5
<1>15. CASE AppendFails
    BY <1>15, <1>t, <1>m, <1>s
    DEF AppendFails, VersionsNeverGoBack, Running, Promoting, lkg, hist, memory, ghosts
<1>16. CASE SaveState
    BY <1>16, <1>t, <1>m, <1>s
    DEF SaveState, VersionsNeverGoBack, Running, Promoting, lkg, hist, memory, ghosts
<1>17. CASE SetSnapshot
    <2>0. PICK new : new = <<job.meta.version, job.art>>
        BY ZenonT(30)
    <2>1. /\ mem'.version = job.meta.version /\ durable' = durable \cup {new} /\ new[1] = job.meta.version
          /\ lkgMeta' = lkgMeta /\ hist' = hist /\ pc' = "index"
        BY <1>17, <2>0 DEF SetSnapshot, lkg
    <2>2. /\ Running /\ job.meta.version = mem.version + 1 /\ lkgMeta.may = {job.meta} /\ job.meta # None
          /\ job.meta.version \in Versions
        <3>1. Publishing /\ Promoted /\ Running
            BY <1>17 DEF SetSnapshot, Publishing, Promoted, Running
        <3>2. job.meta.version = mem.version + 1 /\ lkgMeta = Stable(job.meta)
            BY <3>1, <1>t DEF JobShape
        <3> QED BY <1>j, <3>1, <3>2 DEF Stable
    <2>3. \A p \in durable' : p[1] <= job.meta.version
        BY <1>s, <1>m, <2>1, <2>2 DEF VersionsNeverGoBack, Versions
    <2>4. Ahead' /\ VersionsNeverGoBack'
        BY <2>1, <2>2, <2>3 DEF VersionsNeverGoBack
    <2>5. Named' /\ Origin'
        BY <1>s, <2>1 DEF hist, Promoting
    <2> QED BY <2>4, <2>5
<1>18. CASE Announce
    BY <1>18, <1>t, <1>m, <1>s
    DEF Announce, VersionsNeverGoBack, Running, Promoting, lkg, hist, memory, ghosts
<1>19. CASE Disconnect
    BY <1>19, <1>t, <1>m, <1>s
    DEF Disconnect, VersionsNeverGoBack, Running, Promoting, lkg, hist, memory, ghosts
<1>20. CASE Exit
    BY <1>20, <1>t, <1>m, <1>s
    DEF Exit, NoProcess, VersionsNeverGoBack, Running, Promoting, lkg, hist, memory, ghosts
<1>21. CASE PowerLoss
    <2>1. pc' = "down" /\ durable' = durable
        BY <1>21 DEF PowerLoss, NoProcess, ghosts
    <2>2. PICK m \in lkgMeta.may : lkgMeta' = Stable(m)
        BY <1>21 DEF PowerLoss, Survive
    <2>3. \A v \in Versions : /\ \E c \in histArt[v].may : histArt'[v] = Stable(c)
                              /\ \E c \in histMeta[v].may : histMeta'[v] = Stable(c)
        BY <1>21 DEF PowerLoss
    <2>4. \A c : Stable(c).now = c /\ Stable(c).may = {c}
        BY DEF Stable
    <2>5. Ahead'
        BY <1>s, <2>1, <2>2, <2>4
    <2>6. Named'
        BY <1>s, <2>3, <2>4
    <2>7. Origin' /\ VersionsNeverGoBack'
        BY <2>1 DEF Promoting, VersionsNeverGoBack, Running
    <2> QED BY <2>5, <2>6, <2>7
<1>22. CASE UNCHANGED vars
    BY <1>22, <1>t, <1>m, <1>s
    DEF vars, VersionsNeverGoBack, Running, Promoting, lkg, hist, memory, ghosts
<1> QED
    BY <1>1, <1>2, <1>3, <1>4, <1>5, <1>6, <1>7, <1>8, <1>9, <1>10, <1>11, <1>12, <1>13, <1>14, <1>15, <1>16,
        <1>17, <1>18, <1>19, <1>20, <1>21, <1>22, ZenonT(30)
       DEF Next, Startup, Append, Promote, Commit

\* Every step keeps the LKG repairable.
LEMMA NextRepairable == IInv /\ IInv' /\ Settled /\ Settled' /\ Repairable /\ [Next]_vars => Repairable'
<1> SUFFICES ASSUME IInv, IInv', Settled, Settled', Repairable, [Next]_vars, budget'.io = 0 PROVE Repairable'
    BY DEF Repairable
<1> USE StoreAssumption DEF StoreAssumption
<1> DEFINE Entries == \A m \in lkgMeta.may : m # None =>
                         None \notin histArt[m.version].may /\ None \notin histMeta[m.version].may
           Whole == pc \in {"idle", "histArt", "histMeta", "histSync"} => (Present(lkgArt) <=> Present(lkgMeta))
           Half == (Present(lkgArt) /\ ~Present(lkgMeta)) => HistoryStable
           Origin == /\ Promoting /\ job.origin # "metaOnly" => HistoryStable
                     /\ Promoting /\ job.origin = "artOnly" => job.meta.version \in HistoryVersions
<1>io. budget.io = 0 /\ ~IoError
    <2>1. budget \in Budget /\ budget.io \in Nat
        BY DEF IInv, TypeOK, Budget
    <2>2. IoError => budget'.io = budget.io + 1
        BY <2>1 DEF IoError, Spend, Budget
    <2>3. \A k \in {"power", "exit", "drop"} : \A n : Spend(k, n) => budget'.io = budget.io
        BY <2>1 DEF Spend, Budget
    <2>4. \/ UNCHANGED budget \/ IoError
          \/ \E k \in {"power", "exit", "drop"} : \E n : Spend(k, n)
        BY DEF Next, Startup, Append, Promote, Commit, vars,
               PromoteArtifact, PromoteMetadata, PromoteSync, PublishFails, DropArtifact, RepairFails, RepairLkg,
               LoadLkg, LoadFails, StartFails, StartPublish, AppendArtifact, AppendMetadata, AppendSync,
               AppendFails, SaveState, SetSnapshot, Announce, Disconnect, Exit, PowerLoss
    <2> QED BY <2>1, <2>2, <2>3, <2>4
<1>r. Entries /\ Whole /\ Half /\ Origin
    BY <1>io DEF Repairable
<1>g. SUFFICES Entries' /\ Whole' /\ Half' /\ Origin'
    BY DEF Repairable
<1>t. TypeOK /\ NowIsPossible /\ JobShape
    BY DEF IInv
<1>j. Promoting \/ Publishing \/ pc = "index" =>
        /\ job \in Job /\ job.art \in Artifact /\ job.art # None
        /\ job.meta \in Metadata /\ job.meta # None /\ job.meta.version \in Versions
    BY <1>t DEF JobShape, Job, Metadata, Versions
<1>m. \A m \in lkgMeta.may : m # None => m.version \in Versions
    BY <1>t DEF TypeOK, File, Metadata
<1>n. \A v \in Versions : histArt[v].now \in histArt[v].may /\ histMeta[v].now \in histMeta[v].may
    BY DEF Settled
<1>w. \A f, c : Write(f, c).now = c /\ Write(f, c).may = f.may \cup {c}
    BY DEF Write
<1>s. \A c : Stable(c).now = c /\ Stable(c).may = {c}
    BY DEF Stable
<1>1. CASE PromoteArtifact
    <2>1. lkgArt'.now = job.art /\ job.art # None /\ lkgMeta' = lkgMeta /\ hist' = hist /\ job' = job /\ pc' = "lkgMeta"
        BY <1>1, <1>j, <1>w DEF PromoteArtifact, Promoting
    <2>2. Entries' /\ Whole' /\ Origin'
        BY <1>1, <1>r, <2>1 DEF PromoteArtifact, Promoting, HistoryStable, HistoryVersions, hist
    <2>3. job.origin = "metaOnly" => lkgMeta.now # None
        BY <1>1 DEF PromoteArtifact, Promoting, Settled
    <2>4. Half'
        BY <1>1, <1>r, <2>1, <2>3 DEF PromoteArtifact, Promoting, HistoryStable, hist
    <2> QED BY <2>2, <2>4
<1>2. CASE PromoteMetadata
    <2>1. /\ lkgMeta'.now = job.meta /\ lkgMeta'.may = lkgMeta.may \cup {job.meta} /\ job.meta # None
          /\ lkgArt' = lkgArt /\ hist' = hist /\ job' = job /\ pc' = "lkgSync"
        BY <1>2, <1>j, <1>w DEF PromoteMetadata, Promoting
    <2>2. None \notin histArt[job.meta.version].may /\ None \notin histMeta[job.meta.version].may
        <3>0. job \in Job /\ job.meta.version \in Versions /\ Promoting /\ job.art # None
            BY <1>2, <1>j DEF PromoteMetadata, Promoting
        <3>1. CASE job.origin = "publish"
            <4>1. histArt[job.meta.version] = Stable(job.art) /\ histMeta[job.meta.version] = Stable(job.meta)
                BY <3>0, <3>1, <1>t DEF JobShape, Appended
            <4> QED BY <3>0, <2>1, <4>1 DEF Stable
        <3>2. CASE job.origin = "metaOnly"
            <4>1. lkgMeta.now # None /\ lkgMeta.now.version = job.meta.version /\ lkgMeta.now \in lkgMeta.may
                BY <3>0, <3>2, <1>t DEF Settled, NowIsPossible
            <4> QED BY <4>1, <1>r
        <3>3. CASE job.origin = "artOnly"
            <4>1. HistoryStable /\ job.meta.version \in HistoryVersions
                BY <3>0, <3>3, <1>r, ZenonT(30)
            <4> QED BY <4>1 DEF HistoryStable, HistoryVersions
        <3> QED BY <3>0, <3>1, <3>2, <3>3 DEF Job
    <2>3. Entries'
        BY <1>r, <2>1, <2>2 DEF hist
    <2>4. Whole' /\ Half' /\ Origin'
        BY <1>2, <1>r, <2>1 DEF PromoteMetadata, Promoting, HistoryStable, HistoryVersions, hist
    <2> QED BY <2>3, <2>4
<1>3. CASE PromoteSync
    <2>1. /\ lkgMeta'.now = lkgMeta.now /\ lkgMeta'.may = {lkgMeta.now} /\ lkgArt'.now = lkgArt.now
          /\ hist' = hist /\ job' = job /\ pc' \in {"state", "load"}
        BY <1>3, <1>s DEF PromoteSync, Fsync
    <2> QED BY <1>r, <1>t, <2>1 DEF NowIsPossible, Promoting, HistoryStable, hist
<1>4. CASE PublishFails
    BY <1>4, <1>io DEF PublishFails
<1>5. CASE DropArtifact
    BY <1>5, <1>io DEF DropArtifact
<1>6. CASE RepairFails
    BY <1>6, <1>io DEF RepairFails
<1>7. CASE RepairLkg
    <2>1. lkgMeta' = lkgMeta /\ hist' = hist /\ pc' \in {"load", "lkgArt"}
        BY <1>7 DEF RepairLkg, Recover
    <2>2. Entries' /\ Whole'
        BY <1>r, <2>1 DEF hist
    <2>3. Half' /\ Origin'
        <3>1. CASE pc' = "load" /\ lkgArt' = lkgArt
            BY <3>1, <1>r, <2>1 DEF Promoting, HistoryStable, hist
        <3>2. CASE pc' = "load" /\ lkgArt' = Write(lkgArt, None)
            BY <3>2, <1>w DEF Promoting
        <3>3. ASSUME Present(lkgMeta), Recover("metaOnly", lkgMeta.now.version)
              PROVE  Half' /\ Origin'
            BY <3>3, <1>r, <2>1 DEF Recover, Promoting, HistoryStable, hist
        <3>4. ASSUME NEW v \in HistoryVersions, Present(lkgArt), ~Present(lkgMeta), Recover("artOnly", v)
              PROVE  Half' /\ Origin'
            <4>1. HistoryStable' /\ lkgArt' = lkgArt /\ job'.origin = "artOnly" /\ job'.meta = histMeta[v].now
                BY <3>4, <1>r, <2>1 DEF Recover, HistoryStable, hist
            <4>2. job'.meta.version = v
                <5>1. v \in Versions /\ histMeta[v].now # None
                    BY <3>4, ZenonT(30) DEF HistoryVersions
                <5>2. \A m \in histMeta[v].may : m # None => m.version = v
                    BY <5>1, ZenonT(30) DEF Settled
                <5> QED BY <4>1, <5>1, <5>2, <1>n
            <4>3. HistoryVersions' = HistoryVersions
                BY <2>1 DEF HistoryVersions, hist
            <4> QED BY <4>1, <4>2, <4>3
        <3> QED BY <1>7, <2>1, <3>1, <3>2, <3>3, <3>4 DEF RepairLkg
    <2> QED BY <2>2, <2>3
<1>8. CASE LoadLkg
    BY <1>8, <1>r DEF LoadLkg, Promoting, HistoryStable, lkg, hist
<1>9. CASE LoadFails
    BY <1>9, <1>r, <1>t
    DEF LoadFails, HistoryStable, HistoryVersions, Promoting, Publishing, JobShape, lkg, hist, memory, ghosts
<1>10. CASE StartFails
    BY <1>10, <1>io DEF StartFails
<1>11. ASSUME NEW a \in Artifact, StartPublish(a) PROVE Entries' /\ Whole' /\ Half' /\ Origin'
    BY <1>11, <1>r, <1>t
    DEF StartPublish, HistoryStable, HistoryVersions, Promoting, Publishing, JobShape, lkg, hist, memory, ghosts
<1>12. CASE AppendArtifact
    <2>1. /\ lkg' = lkg /\ pc' = "histMeta" /\ job.art # None
          /\ \A v \in Versions : histArt'[v] = histArt[v] \/ histArt'[v] = Write(histArt[v], job.art)
          /\ histMeta' = histMeta
        BY <1>12, <1>t, <1>j DEF AppendArtifact, TypeOK, Publishing
    <2>2. Entries'
        BY <1>r, <1>m, <1>w, <2>1 DEF lkg
    <2>3. Whole' /\ Half' /\ Origin'
        BY <1>12, <1>r, <2>1 DEF AppendArtifact, Promoting, lkg
    <2> QED BY <2>2, <2>3
<1>13. CASE AppendMetadata
    <2>1. /\ lkg' = lkg /\ pc' = "histSync" /\ job.meta # None
          /\ \A v \in Versions : histMeta'[v] = histMeta[v] \/ histMeta'[v] = Write(histMeta[v], job.meta)
          /\ histArt' = histArt
        BY <1>13, <1>t, <1>j DEF AppendMetadata, TypeOK, Publishing
    <2>2. Entries'
        BY <1>r, <1>m, <1>w, <2>1 DEF lkg
    <2>3. Whole' /\ Half' /\ Origin'
        BY <1>13, <1>r, <2>1 DEF AppendMetadata, Promoting, lkg
    <2> QED BY <2>2, <2>3
<1>14. CASE AppendSync
    <2>1. /\ lkg' = lkg /\ pc' = "lkgArt" /\ job' = job /\ job.origin = "publish"
          /\ \A v \in Versions : histArt'[v] = Stable(histArt[v].now) /\ histMeta'[v] = Stable(histMeta[v].now)
        BY <1>14, <1>t DEF AppendSync, Fsync, JobShape, Publishing
    <2>2. HistoryStable'
        BY <1>s, <2>1 DEF HistoryStable
    <2>3. Entries'
        BY <1>r, <1>m, <1>n, <1>s, <2>1 DEF lkg
    <2> QED BY <2>1, <2>2, <2>3
<1>15. CASE AppendFails
    BY <1>15, <1>io DEF AppendFails
<1>16. CASE SaveState
    BY <1>16, <1>r, <1>t
    DEF SaveState, HistoryStable, HistoryVersions, Promoting, Publishing, JobShape, lkg, hist, memory, ghosts
<1>17. CASE SetSnapshot
    BY <1>17, <1>r, <1>t
    DEF SetSnapshot, HistoryStable, HistoryVersions, Promoting, Publishing, JobShape, lkg, hist, memory, ghosts
<1>18. CASE Announce
    <2>1. lkgArt.now = job.art /\ lkgMeta.now = job.meta /\ job.art # None /\ job.meta # None
        BY <1>18, <1>t, <1>j, <1>s DEF Announce, JobShape, Promoted
    <2> QED BY <1>18, <1>r, <2>1 DEF Announce, Promoting, HistoryStable, lkg, hist
<1>19. CASE Disconnect
    <2>1. lkgArt.now = job.art /\ lkgMeta.now = job.meta /\ job.art # None /\ job.meta # None
        BY <1>19, <1>t, <1>j, <1>s DEF Disconnect, JobShape, Promoted, Publishing
    <2> QED BY <1>19, <1>r, <2>1 DEF Disconnect, Promoting, HistoryStable, lkg, hist
<1>20. CASE Exit
    BY <1>20, <1>r, <1>t
    DEF Exit, NoProcess, HistoryStable, HistoryVersions, Promoting, Publishing, JobShape, lkg, hist, memory, ghosts
<1>21. CASE PowerLoss
    <2>1. pc' = "down"
        BY <1>21 DEF PowerLoss, NoProcess
    <2>2. PICK m \in lkgMeta.may : lkgMeta' = Stable(m)
        BY <1>21 DEF PowerLoss, Survive
    <2>3. \A v \in Versions : /\ \E c \in histArt[v].may : histArt'[v] = Stable(c)
                              /\ \E c \in histMeta[v].may : histMeta'[v] = Stable(c)
        BY <1>21 DEF PowerLoss
    <2>4. HistoryStable'
        BY <1>s, <2>3 DEF HistoryStable
    <2>5. Entries'
        BY <1>r, <1>m, <1>s, <2>2, <2>3
    <2> QED BY <2>1, <2>4, <2>5 DEF Promoting
<1>22. CASE UNCHANGED vars
    BY <1>22, <1>r, <1>t
    DEF vars, HistoryStable, HistoryVersions, Promoting, Publishing, JobShape, lkg, hist, memory, ghosts
<1> QED
    BY <1>1, <1>2, <1>3, <1>4, <1>5, <1>6, <1>7, <1>8, <1>9, <1>10, <1>11, <1>12, <1>13, <1>14, <1>15, <1>16,
        <1>17, <1>18, <1>19, <1>20, <1>21, <1>22
       DEF Next, Startup, Append, Promote, Commit

\* The invariant of everything below holds initially and forever.
LEMMA StoreStrong == Spec => [](IInv /\ Served /\ Settled /\ Repairable)
<1>1. Init => Served /\ Settled /\ Repairable
    <2> SUFFICES ASSUME Init PROVE Served /\ Settled /\ Repairable
        BY ZenonT(30)
    <2>1. ~Running /\ ~Promoting /\ durable = {} /\ pc = "down"
        BY DEF Init, Running, Promoting
    <2>2. /\ lkgArt.now = None /\ lkgMeta.may = {None}
          /\ \A v \in Versions : histArt[v] = Stable(None) /\ histMeta[v] = Stable(None)
        BY DEF Init, Stable
    <2>3. Served
        BY <2>1, ZenonT(30) DEF Served
    <2>4. Settled
        BY <2>1, <2>2 DEF Settled, VersionsNeverGoBack, Stable
    <2>5. Repairable
        BY <2>1, <2>2 DEF Repairable
    <2> QED BY <2>3, <2>4, <2>5, ZenonT(30)
<1>2. IInv /\ Served /\ Settled /\ Repairable /\ [Next]_vars => IInv' /\ Served' /\ Settled' /\ Repairable'
    BY NextIInv, NextServed, NextSettled, NextRepairable
<1> QED BY <1>1, <1>2, InitIInv, PTL DEF Spec

\* A version once served from a synced LKG is never followed by a smaller one,
\* across power losses, exits, failed starts, failed saves and dropped requests.
THEOREM VersionsMonotone == Spec => []VersionsNeverGoBack
<1>1. Settled => VersionsNeverGoBack
    BY DEF Settled
<1> QED BY <1>1, StoreStrong, PTL

\* Without failed file operations repair_lkg always finds what it needs.
THEOREM RepairAlwaysPossible == Spec => []RepairPossible
<1>1. IInv /\ Settled /\ Repairable => RepairPossible
    <2> SUFFICES ASSUME IInv, Settled, Repairable, budget.io = 0, lkgMeta.now # None
                 PROVE  lkgMeta.now.version \in HistoryVersions
        BY DEF RepairPossible
    <2>1. lkgMeta.now \in lkgMeta.may /\ lkgMeta.now.version \in Versions
        BY DEF IInv, NowIsPossible, TypeOK, File, Metadata
    <2> QED BY <2>1 DEF Repairable, Settled, HistoryVersions
<1> QED BY <1>1, StoreStrong, PTL

\* Only the next lemma counts: the theorems on finite sets enter here, and not
\* into the contexts of the proofs above.
INSTANCE FiniteSetTheorems

\* The read endpoints cover what publish_bytes acknowledged.
LEMMA ServedCovers == IInv /\ Served => EndpointsCoverAcked
<1> SUFFICES ASSUME IInv, Served, Running, acked # {} PROVE EndpointsCoverAcked
    BY DEF EndpointsCoverAcked
<1> DEFINE versions == {p[1] : p \in acked}
<1>t. TypeOK /\ NowIsPossible /\ Covered /\ AckedTyped /\ AckedHistoryKept
    BY DEF IInv
<1>1. versions \subseteq HistoryVersions
    <2> SUFFICES ASSUME NEW p \in acked PROVE p[1] \in HistoryVersions
        OBVIOUS
    <2>1. p[1] \in Versions /\ p[2] \in Artifact
        BY <1>t DEF AckedTyped
    <2>2. histArt[p[1]].now = p[2] /\ histMeta[p[1]].now = [version |-> p[1], sum |-> p[2]]
        <3>1. histArt[p[1]] = Stable(p[2]) /\ histMeta[p[1]] = Stable([version |-> p[1], sum |-> p[2]])
            BY <1>t DEF AckedHistoryKept
        <3> QED BY <3>1 DEF Stable
    <2>3. p[2] # None /\ [version |-> p[1], sum |-> p[2]] # None
        BY <2>1, StoreAssumption DEF StoreAssumption, Versions
    <2> QED BY <2>1, <2>2, <2>3 DEF HistoryVersions
<1>2. IsFiniteSet(HistoryVersions)
    <2>1. IsFiniteSet(Versions)
        <3>1. MaxVersion \in Int /\ 1 \in Int
            BY StoreAssumption DEF StoreAssumption
        <3> QED BY <3>1, FS_Interval DEF Versions
    <2> QED BY <2>1, FS_Subset DEF HistoryVersions
<1>3. Cardinality(HistoryVersions) >= Cardinality(versions)
    BY <1>1, <1>2, FS_Subset, FS_CardinalityType
<1>4. lkgMeta.now # None /\ \A p \in acked : p[1] <= lkgMeta.now.version
    BY <1>t DEF Covered, NowIsPossible
<1>5. lkgMeta.now.version >= mem.version
    <2>1. mem.version \in Nat /\ lkgMeta.now.version \in Nat
        BY <1>4, <1>t DEF TypeOK, File, Metadata, Versions
    <2> QED BY <1>4, <2>1 DEF Served
<1>6. versions \cap find_corrupt_versions = {}
    BY <1>1 DEF HistoryVersions, find_corrupt_versions
<1>7. versions \cap find_orphaned_versions(lkgMeta.now.version) = {}
    <2>1. \A p \in acked : p[1] \in Nat /\ lkgMeta.now.version \in Nat
        BY <1>4, <1>t DEF TypeOK, File, Metadata, AckedTyped, Versions
    <2> QED BY <1>4, <2>1 DEF find_orphaned_versions
<1>8. mem.version \in versions => get_artifact(mem.version) # {}
    BY DEF Served, get_artifact
<1> QED BY <1>3, <1>4, <1>5, <1>6, <1>7, <1>8 DEF EndpointsCoverAcked, get_ready, get_status, Served

\* What the relay serves and shows covers every acknowledged publish: readiness,
\* /v1/status, /v1/artifacts, and what init_state warns of, after any crash.
THEOREM EndpointsCover == Spec => []EndpointsCoverAcked
BY ServedCovers, StoreStrong, PTL

=============================================================================
