------------------------- MODULE ConfigAgentProofs -------------------------
(***************************************************************************)
(* Proofs about ConfigAgent, for every set of artifacts and versions and   *)
(* every bound.                                                            *)
(***************************************************************************)
EXTENDS ConfigAgent, TLAPS

\* The provers get more time than by default: the contexts are large.
USE SMTT(15), ZenonT(30)

USE DEF FsmState, NewAgent, bootstrap_from_lkg, OnStart, write_atomic

\* While the process is not in its run loop nothing of the driver is pending.
Quiet ==
    /\ proc # "running" =>
           /\ job = "none" /\ fetch.at = "none" /\ timer = "none"
           /\ fsm \in {"Idle", "Stopped"}
    /\ proc = "loaded" => lkg = boot /\ served.art = boot /\ ctx = NewContext

\* What each step of verify_update and apply_update has established about the
\* update in hand, the staging file and the LKG.
Staged ==
    /\ job # "none" => update \in Update
    /\ job \in {"check", "load", "rename"} => tmp = update.etag
    /\ job \in {"check", "load", "rename", "store"} =>
           update.etag \in WellFormed /\ update.bytes = update.etag
    /\ job \in {"load", "rename", "store"} =>
           Fingerprint[update.etag] = Fingerprint[served.art]
    /\ job = "store" => lkg = update.etag

\* A rejected ETag and its deadline come and go together.
Paired(c) == c.until = "none" <=> c.rejected = None
RejectionShape == Paired(ctx)

IInv ==
    /\ TypeOK
    /\ DriverInSync
    /\ LkgServed
    /\ BootFrozen
    /\ RejectedNotRetried
    /\ Quiet
    /\ Staged
    /\ RejectionShape

-----------------------------------------------------------------------------
(* The context operators.                                                  *)

\* The helpers of Context keep it well typed, and none of them makes up a
\* rejection.
LEMMA ContextOps ==
    ASSUME NEW c \in Context, Paired(c)
    PROVE  /\ ClearRejectedIfExpired(c) \in Context
           /\ AfterConditionalEtag(c) \in Context
           /\ ConditionalEtag(c) \in OptArtifact
           /\ BumpAttempt(c) \in Context
           /\ ResetAttempt(c) \in Context
           /\ ClearConditionalState(c) \in Context
           /\ \A e \in Artifact : SetRejected(c, e) \in Context
  <1> USE AgentAssumption
      DEF AgentAssumption, Context, OptArtifact, OptVersion, ClearRejectedIfExpired
  <1>1. ClearRejectedIfExpired(c) \in Context
    BY ZenonT(30)
  <1>2. AfterConditionalEtag(c) \in Context
    BY <1>1 DEF AfterConditionalEtag
  <1>3. ConditionalEtag(c) \in OptArtifact
    BY <1>1 DEF ConditionalEtag
  <1>4. BumpAttempt(c) \in Context
    BY DEF BumpAttempt
  <1>5. /\ \A n \in 0..MaxAttempt : [c EXCEPT !.attempt = n] \in Context
        /\ 0 \in 0..MaxAttempt
    OBVIOUS
  <1>7. ResetAttempt(c) \in Context
    BY ONLY <1>5 DEF ResetAttempt
  <1>8. ClearConditionalState(c) \in Context
    <2>1. \A f \in 0..2 : [c EXCEPT !.applied = None, !.rejected = None,
                                    !.until = "none", !.force = f] \in Context
      BY ZenonT(30)
    <2>2. 2 \in 0..2
      OBVIOUS
    <2> QED
      BY ONLY <2>1, <2>2 DEF ClearConditionalState
  <1>6. \A e \in Artifact : SetRejected(c, e) \in Context
    BY ZenonT(30) DEF SetRejected
  <1> QED
    BY <1>1, <1>2, <1>3, <1>4, <1>6, <1>7, <1>8

\* Clearing an expired rejection leaves a paired context that still remembers
\* what was applied, and so does resetting the attempts after it.
LEMMA ClearRejected ==
    ASSUME NEW c \in Context, Paired(c)
    PROVE  LET d == ClearRejectedIfExpired(c)
           IN  /\ d \in Context /\ Paired(d)
               /\ ResetAttempt(d) \in Context /\ Paired(ResetAttempt(d))
               /\ d.rejected \in {c.rejected, None}
               /\ d.applied = c.applied /\ ResetAttempt(d).applied = c.applied
               /\ d.force = c.force /\ ResetAttempt(d).force = c.force
  <1> DEFINE d == ClearRejectedIfExpired(c)
  <1>1. /\ d \in Context /\ Paired(d) /\ d.rejected \in {c.rejected, None}
        /\ d.applied = c.applied /\ d.force = c.force
    <2>1. d \in Context
      BY ContextOps DEF Paired
    <2> QED
      BY <2>1 DEF ClearRejectedIfExpired, Context, Paired
  <1>2. ResetAttempt(d) \in Context
    BY <1>1, ContextOps DEF Paired
  <1>3. /\ Paired(ResetAttempt(d))
        /\ ResetAttempt(d).applied = d.applied /\ ResetAttempt(d).force = d.force
    BY <1>1 DEF ResetAttempt, Context, Paired
  <1> QED
    BY <1>1, <1>2, <1>3

\* After an ApplyOk nothing is rejected, and the applied ETag is the update's
\* outside forced unconditional mode.
LEMMA SetAppliedContext ==
    ASSUME NEW c \in Context, NEW u \in Update
    PROVE  /\ SetApplied(c, u) \in Context /\ Paired(SetApplied(c, u))
           /\ SetApplied(c, u).applied = IF c.force = 0 THEN u.etag ELSE c.applied
           /\ SetApplied(c, u).force = c.force
  <1> DEFINE applied == IF c.force = 0 THEN u.etag ELSE c.applied
  <1>1. \A n \in 0..MaxAttempt, e \in OptArtifact, v \in OptVersion :
          [c EXCEPT !.applied = e, !.rejected = None, !.until = "none",
                    !.attempt = n, !.observed = v] \in Context
    BY ZenonT(30) DEF Context, OptArtifact
  <1>2. 0 \in 0..MaxAttempt /\ u.version \in OptVersion /\ applied \in OptArtifact
    BY AgentAssumption DEF AgentAssumption, Update, Context, OptArtifact
  <1>3. SetApplied(c, u) \in Context
    BY <1>1, <1>2, ZenonT(30) DEF SetApplied
  <1>4. SetApplied(c, u).rejected = None /\ SetApplied(c, u).until = "none"
        /\ SetApplied(c, u).applied = applied /\ SetApplied(c, u).force = c.force
    BY DEF SetApplied, Context
  <1> QED
    BY <1>3, <1>4 DEF Paired

-----------------------------------------------------------------------------
(* The inductive invariant.                                                *)

\* The invariant holds at boot.
LEMMA InitIInv == Init => IInv
  BY AgentAssumption
  DEF AgentAssumption, Init, IInv, TypeOK, DriverInSync, LkgServed, BootFrozen,
      RejectedNotRetried, Quiet, Staged, RejectionShape, Paired, Up, NewContext, NoFetch,
      Context, Fetch, OptArtifact, OptVersion

\* Recording a rejection of the update in hand arms the timer and nothing else.
LEMMA RejectStep ==
    ASSUME IInv, job # "none", RejectUpdate
    PROVE  /\ ctx' \in Context /\ RejectionShape'
           /\ fsm' = "BackoffSleeping" /\ timer' = "armed"
           /\ update' = None /\ job' = "none"
  <1>1. update.etag \in Artifact /\ update.etag # None
    BY AgentAssumption DEF AgentAssumption, IInv, Staged, Update
  <1>2. SetRejected(ctx, update.etag) \in Context
    BY <1>1, ContextOps DEF IInv, TypeOK, RejectionShape
  <1>3. /\ SetRejected(ctx, update.etag).rejected = update.etag
        /\ SetRejected(ctx, update.etag).until = "pending"
    BY DEF SetRejected, IInv, TypeOK, Context
  <1>4. /\ ctx' = BumpAttempt(SetRejected(ctx, update.etag))
        /\ fsm' = "BackoffSleeping" /\ timer' = "armed"
        /\ update' = None /\ job' = "none"
    BY DEF RejectUpdate, EnterBackoff
  <1>5. ctx' \in Context
    BY <1>1, <1>2, <1>3, <1>4, ContextOps DEF Paired
  <1>6. ctx'.rejected = update.etag /\ ctx'.until = "pending"
    BY <1>2, <1>3, <1>4 DEF BumpAttempt, Context
  <1> QED
    BY <1>1, <1>4, <1>5, <1>6 DEF RejectionShape, Paired

\* Going back to Fetching starts exactly one request.
LEMMA RefetchStep ==
    ASSUME NEW c \in Context, Paired(c),
           NEW pending, pending.at = "none", Refetch(c, pending)
    PROVE  /\ ctx' \in Context /\ RejectionShape'
           /\ fsm' = "Fetching"
           /\ fetch' \in Fetch /\ fetch'.at = "sent"
  <1>1. AfterConditionalEtag(c) \in Context /\ ConditionalEtag(c) \in OptArtifact
    BY ContextOps
  <1>2. fetch' = [at |-> "sent", cond |-> ConditionalEtag(c)]
    BY DEF Refetch, StartFetch
  <1>3. RejectionShape'
    BY DEF Refetch, RejectionShape, Paired, AfterConditionalEtag, ClearRejectedIfExpired, Context
  <1> QED
    BY <1>1, <1>2, <1>3 DEF Refetch, Fetch

\* It is inductive.
LEMMA NextIInv == IInv /\ [Next]_vars => IInv'
  <1> SUFFICES ASSUME IInv, [Next]_vars PROVE IInv'
    OBVIOUS
  <1> USE AgentAssumption DEF AgentAssumption, IInv
  <1>1. CASE Boot
    <2>1. TypeOK'
      BY <1>1 DEF TypeOK, Boot, BuildServices, NewContext, NoFetch, Context, Fetch, OptArtifact, OptVersion,
          diskVars
    <2>2. DriverInSync' /\ Quiet'
      BY <1>1 DEF DriverInSync, Quiet, Boot, BuildServices, NoFetch, diskVars
    <2>3. LkgServed' /\ BootFrozen'
      BY <1>1 DEF LkgServed, BootFrozen, Boot, BuildServices, diskVars
    <2>4. RejectedNotRetried' /\ Staged'
      BY <1>1 DEF RejectedNotRetried, Staged, Boot
    <2>5. RejectionShape'
      BY <1>1 DEF RejectionShape, Paired, Boot, NewContext
    <2> QED BY <2>1, <2>2, <2>3, <2>4, <2>5
  <1>2. CASE Bootstrap
    <2>1. TypeOK'
      BY <1>2 DEF TypeOK, Bootstrap, Context, Fetch, OptArtifact, diskVars, StartFetch, Fault, NoFault
    <2>2. DriverInSync' /\ Quiet'
      BY <1>2 DEF DriverInSync, Quiet, Bootstrap, StartFetch
    <2>3. LkgServed' /\ BootFrozen'
      BY <1>2 DEF LkgServed, BootFrozen, Staged, Up, Bootstrap, diskVars
    <2>4. RejectedNotRetried' /\ Staged'
      BY <1>2 DEF Quiet, RejectedNotRetried, Staged, Bootstrap
    <2>5. RejectionShape'
      BY <1>2 DEF Quiet, RejectionShape, Paired, Bootstrap, NewContext
    <2> QED BY <2>1, <2>2, <2>3, <2>4, <2>5
  <1>3. CASE Shutdown
    <2>1. TypeOK'
      BY <1>3 DEF TypeOK, Shutdown, NoFetch, Fetch, OptArtifact, diskVars, Fault
    <2>2. DriverInSync' /\ Quiet'
      BY <1>3 DEF DriverInSync, Quiet, Shutdown, NoFetch
    <2>3. LkgServed' /\ BootFrozen'
      BY <1>3 DEF LkgServed, BootFrozen, Up, Shutdown, diskVars
    <2>4. RejectedNotRetried' /\ Staged'
      BY <1>3 DEF RejectedNotRetried, Staged, Shutdown
    <2>5. RejectionShape'
      BY <1>3 DEF RejectionShape, Shutdown
    <2> QED BY <2>1, <2>2, <2>3, <2>4, <2>5
  <1>4. CASE Crash
    <2>1. TypeOK'
      BY <1>4 DEF TypeOK, Crash, NewContext, NoFetch, Context, Fetch, OptArtifact, OptVersion, diskVars,
          Fault
    <2>2. DriverInSync' /\ Quiet'
      BY <1>4 DEF DriverInSync, Quiet, Crash, NoFetch
    <2>3. LkgServed' /\ BootFrozen'
      BY <1>4 DEF LkgServed, BootFrozen, Up, Crash, diskVars
    <2>4. RejectedNotRetried' /\ Staged'
      BY <1>4 DEF RejectedNotRetried, Staged, Crash
    <2>5. RejectionShape'
      BY <1>4 DEF RejectionShape, Paired, Crash, NewContext
    <2> QED BY <2>1, <2>2, <2>3, <2>4, <2>5
  <1>5. CASE VerifyStage
    <2>1. CASE RejectUpdate /\ UNCHANGED tmp
      <3>1. TypeOK'
        BY <1>5, <2>1, RejectStep DEF TypeOK, VerifyStage, Fault, NoFault
      <3>2. DriverInSync' /\ Quiet'
        BY <1>5, RejectStep DEF DriverInSync, Quiet, VerifyStage
      <3>3. LkgServed' /\ BootFrozen'
        BY <1>5 DEF LkgServed, BootFrozen, Up, VerifyStage
      <3>4. RejectedNotRetried' /\ Staged'
        BY <1>5, RejectStep DEF RejectedNotRetried, Staged, VerifyStage
      <3>5. RejectionShape'
        BY <1>5, <2>1, RejectStep DEF VerifyStage
      <3> QED BY <3>1, <3>2, <3>3, <3>4, <3>5
    <2>2. CASE tmp' = update.bytes /\ job' = "check"
      BY <1>5, <2>2
      DEF VerifyStage, TypeOK, DriverInSync, LkgServed, BootFrozen, RejectedNotRetried,
          Quiet, Staged, RejectionShape, Paired, Up, Fault, NoFault, OptArtifact, Update,
          RejectUpdate
    <2> QED
      BY <1>5, <2>1, <2>2 DEF VerifyStage
  <1>6. CASE VerifyCheck
    <2>0. tmp \in Artifact /\ update \in Update /\ fetch.at = "none"
      BY <1>6 DEF VerifyCheck, TypeOK, DriverInSync, Quiet, Staged, Update
    <2>1. CASE RejectUpdate /\ tmp' \in {None, tmp} /\ UNCHANGED fetch
      <3>1. TypeOK'
        BY <1>6, <2>1, RejectStep DEF TypeOK, VerifyCheck, Fault, NoFault, OptArtifact
      <3>2. DriverInSync' /\ Quiet'
        BY <1>6, <2>1, RejectStep DEF DriverInSync, Quiet, VerifyCheck
      <3>3. LkgServed' /\ BootFrozen'
        BY <1>6 DEF LkgServed, BootFrozen, Up, VerifyCheck
      <3>4. RejectedNotRetried' /\ Staged'
        BY <1>6, <2>1, RejectStep DEF RejectedNotRetried, Staged, VerifyCheck
      <3>5. RejectionShape'
        BY <1>6, <2>1, RejectStep DEF VerifyCheck
      <3> QED BY <3>1, <3>2, <3>3, <3>4, <3>5
    <2>2. CASE ReloadSafe(served.art, tmp) /\ OnVerifyOk /\ UNCHANGED timer
      <3> DEFINE d == ClearRejectedIfExpired(ctx)
      <3>1. /\ d \in Context /\ Paired(d) /\ d.rejected \in {ctx.rejected, None}
            /\ ResetAttempt(d) \in Context /\ Paired(ResetAttempt(d))
        BY ClearRejected DEF TypeOK, RejectionShape
      <3>3. CASE d.applied = update.etag
        <4>1. Refetch(ResetAttempt(d), fetch) /\ tmp' = None /\ update' = None /\ job' = "none"
          BY <2>2, <3>3 DEF OnVerifyOk
        <4>2. /\ ctx' \in Context /\ RejectionShape'
              /\ fsm' = "Fetching" /\ fetch' \in Fetch /\ fetch'.at = "sent"
          BY <2>0, <3>1, <4>1, RefetchStep
        <4> QED
          BY <1>6, <2>0, <2>2, <4>1, <4>2
          DEF VerifyCheck, TypeOK, DriverInSync, LkgServed, BootFrozen, RejectedNotRetried,
          Quiet, Staged, Up, Fault, NoFault, OptArtifact
      <3>4. CASE d.applied # update.etag
        <4>1. fsm' = "Applying" /\ ctx' = d /\ job' = "load" /\ UNCHANGED <<update, tmp, fetch>>
          BY <2>2, <3>4 DEF OnVerifyOk
        <4> QED
          <5>1. TypeOK'
            BY <1>6, <2>2, <3>1, <4>1 DEF TypeOK, VerifyCheck, Fault, NoFault
          <5>2. DriverInSync' /\ Quiet'
            BY <1>6, <2>2, <4>1 DEF DriverInSync, Quiet, VerifyCheck
          <5>3. LkgServed' /\ BootFrozen'
            BY <1>6 DEF LkgServed, BootFrozen, Up, VerifyCheck
          <5>4. RejectedNotRetried' /\ Staged'
            BY <1>6, <2>2, <3>1, <4>1 DEF DriverInSync, Quiet, RejectedNotRetried, Staged, VerifyCheck,
                ReloadSafe
          <5>5. RejectionShape'
            BY <3>1, <4>1 DEF RejectionShape
          <5> QED BY <5>1, <5>2, <5>3, <5>4, <5>5
      <3> QED
        BY <3>3, <3>4
    <2> QED
      BY <1>6, <2>1, <2>2 DEF VerifyCheck
  <1>7. CASE ApplyLoad
    <2>0. tmp \in Artifact /\ update \in Update /\ tmp = update.etag
      BY <1>7 DEF ApplyLoad, Staged, Update
    <2>1. CASE RejectUpdate /\ tmp' \in {None, tmp}
      <3>1. TypeOK'
        BY <1>7, <2>1, RejectStep DEF TypeOK, ApplyLoad, Fault, OptArtifact
      <3>2. DriverInSync' /\ Quiet'
        BY <1>7, RejectStep DEF DriverInSync, Quiet, ApplyLoad
      <3>3. LkgServed' /\ BootFrozen'
        BY <1>7 DEF LkgServed, BootFrozen, Up, ApplyLoad
      <3>4. RejectedNotRetried' /\ Staged'
        BY <1>7, <2>1, RejectStep DEF RejectedNotRetried, Staged, ApplyLoad
      <3>5. RejectionShape'
        BY <1>7, <2>1, RejectStep DEF ApplyLoad
      <3> QED BY <3>1, <3>2, <3>3, <3>4, <3>5
    <2>2. CASE job' = "rename"
      <3>1. TypeOK'
        BY <1>7, <2>0, <2>2 DEF TypeOK, ApplyLoad, NoFault, Update, RejectUpdate
      <3>2. DriverInSync' /\ Quiet'
        BY <1>7, <2>2 DEF DriverInSync, Quiet, ApplyLoad, RejectUpdate
      <3>3. LkgServed' /\ BootFrozen'
        BY <1>7 DEF LkgServed, BootFrozen, Up, ApplyLoad
      <3>4. RejectedNotRetried' /\ Staged'
        BY <1>7, <2>2 DEF RejectedNotRetried, Staged, ApplyLoad, Update, RejectUpdate
      <3>5. RejectionShape'
        BY <1>7, <2>2 DEF RejectionShape, ApplyLoad, RejectUpdate
      <3> QED BY <3>1, <3>2, <3>3, <3>4, <3>5
    <2> QED
      BY <1>7, <2>1, <2>2 DEF ApplyLoad
  <1>8. CASE ApplyRename
    <2>0. tmp \in Artifact /\ update \in Update /\ tmp = update.etag
      BY <1>8 DEF ApplyRename, Staged, Update
    <2>1. CASE RejectUpdate /\ UNCHANGED <<lkg, tmp>>
      <3>1. TypeOK'
        BY <1>8, <2>1, RejectStep DEF TypeOK, ApplyRename, Fault
      <3>2. DriverInSync' /\ Quiet'
        BY <1>8, RejectStep DEF DriverInSync, Quiet, ApplyRename
      <3>3. LkgServed' /\ BootFrozen'
        BY <1>8, <2>1 DEF LkgServed, BootFrozen, Up, ApplyRename
      <3>4. RejectedNotRetried' /\ Staged'
        BY <1>8, RejectStep DEF RejectedNotRetried, Staged, ApplyRename
      <3>5. RejectionShape'
        BY <1>8, <2>1, RejectStep DEF ApplyRename
      <3> QED BY <3>1, <3>2, <3>3, <3>4, <3>5
    <2>2. CASE job' = "store"
      BY <1>8, <2>0, <2>2
      DEF ApplyRename, TypeOK, DriverInSync, LkgServed, BootFrozen, RejectedNotRetried,
          Quiet, Staged, Up, RejectionShape, Fault, NoFault, OptArtifact, RejectUpdate
    <2> QED
      BY <1>8, <2>1, <2>2 DEF ApplyRename
  <1>9. CASE ApplyStore
    <2>0. /\ update \in Update /\ update.bytes = update.etag /\ lkg = update.etag
          /\ fetch.at = "none" /\ proc = "running"
      BY <1>9 DEF ApplyStore, Quiet, Staged, LkgServed, DriverInSync, Up, TypeOK
    <2>1. CASE RejectUpdate /\ UNCHANGED fetch
      <3>1. TypeOK'
        BY <1>9, <2>0, <2>1, RejectStep DEF TypeOK, ApplyStore, Fault, NoFault, diskVars, Update
      <3>2. DriverInSync' /\ Quiet'
        BY <1>9, <2>1, RejectStep DEF DriverInSync, Quiet, ApplyStore
      <3>3. LkgServed' /\ BootFrozen'
        BY <1>9 DEF LkgServed, BootFrozen, Staged, Up, ApplyStore, diskVars
      <3>4. RejectedNotRetried' /\ Staged'
        BY <1>9, <2>1, RejectStep DEF RejectedNotRetried, Staged, ApplyStore
      <3>5. RejectionShape'
        BY <1>9, <2>1, RejectStep DEF ApplyStore
      <3> QED BY <3>1, <3>2, <3>3, <3>4, <3>5
    <2>2. CASE OnApplyOk /\ UNCHANGED timer
      <3>1. SetApplied(ctx, update) \in Context /\ Paired(SetApplied(ctx, update))
        BY <2>0, SetAppliedContext DEF TypeOK
      <3>2. Refetch(SetApplied(ctx, update), fetch) /\ update' = None /\ job' = "none"
        BY <2>2 DEF OnApplyOk
      <3>3. /\ ctx' \in Context /\ RejectionShape'
            /\ fsm' = "Fetching" /\ fetch' \in Fetch /\ fetch'.at = "sent"
        BY <2>0, <3>1, <3>2, RefetchStep
      <3> QED
        BY <1>9, <2>0, <2>2, <3>2, <3>3
        DEF ApplyStore, TypeOK, DriverInSync, LkgServed, BootFrozen, RejectedNotRetried,
          Quiet, Staged, Up, Fault, NoFault, OptArtifact, diskVars, Update
    <2> QED
      BY <1>9, <2>1, <2>2 DEF ApplyStore
  <1>10. CASE \E a \in Artifact, v \in OptVersion : RelayPublish(a, v)
    <2>1. TypeOK'
      BY <1>10 DEF TypeOK, RelayPublish, diskVars, agentVars
    <2>2. DriverInSync' /\ Quiet'
      BY <1>10 DEF DriverInSync, Quiet, RelayPublish, diskVars, agentVars
    <2>3. LkgServed' /\ BootFrozen'
      BY <1>10 DEF LkgServed, BootFrozen, Up, RelayPublish, diskVars, agentVars
    <2>4. RejectedNotRetried' /\ Staged'
      BY <1>10 DEF RejectedNotRetried, Staged, RelayPublish, diskVars, agentVars
    <2>5. RejectionShape'
      BY <1>10 DEF RejectionShape, RelayPublish, agentVars
    <2> QED BY <2>1, <2>2, <2>3, <2>4, <2>5
  <1>11. CASE ParkRequest
    BY <1>11
    DEF ParkRequest, TypeOK, DriverInSync, LkgServed, BootFrozen, RejectedNotRetried,
          Quiet, Staged, Up, RejectionShape, diskVars, Fetch
  <1>12. CASE \E bytes \in Artifact : RespondArtifact(bytes)
    <2> PICK bytes \in Artifact : RespondArtifact(bytes)
      BY <1>12
    <2> DEFINE d == ClearRejectedIfExpired(ctx)
    <2>1. /\ d \in Context /\ Paired(d) /\ d.rejected \in {ctx.rejected, None}
          /\ ResetAttempt(d) \in Context /\ Paired(ResetAttempt(d))
      BY ClearRejected DEF TypeOK, RejectionShape
    <2>2. proc = "running" /\ fsm = "Fetching"
      BY DEF RespondArtifact, Quiet, TypeOK
    <2>3. CASE d.rejected = relay.art
      <3>1. Refetch(ResetAttempt(d), NoFetch) /\ UNCHANGED <<update, job>>
        BY <2>3, ZenonT(30) DEF RespondArtifact, OnNewArtifact
      <3>2. /\ ctx' \in Context /\ RejectionShape'
            /\ fsm' = "Fetching" /\ fetch' \in Fetch /\ fetch'.at = "sent"
        BY <2>1, <3>1, RefetchStep DEF NoFetch
      <3>3. UNCHANGED <<proc, boot, served, lkg, tmp, timer, relay, publishes, update, job>>
        BY <3>1 DEF RespondArtifact, diskVars
      <3>4. faults' \in 0..MaxFaults
        BY DEF RespondArtifact, TypeOK, Fault, NoFault
      <3>5. TypeOK'
        BY <3>2, <3>3, <3>4 DEF TypeOK
      <3> QED
        BY <2>2, <3>2, <3>3, <3>5
        DEF TypeOK, DriverInSync, LkgServed, BootFrozen, RejectedNotRetried, Quiet, Staged, Up
    <2>4. CASE d.rejected # relay.art
      <3>1. /\ fsm' = "Verifying" /\ ctx' = d /\ job' = "stage" /\ fetch' = NoFetch
            /\ update' = [etag |-> relay.art, version |-> relay.version, bytes |-> bytes]
        BY <2>4, ZenonT(30) DEF RespondArtifact, OnNewArtifact
      <3>2. update' \in Update /\ update'.etag = relay.art
        BY <3>1 DEF Update, TypeOK
      <3>3. fetch' \in Fetch /\ fetch'.at = "none"
        BY <3>1 DEF NoFetch, Fetch, OptArtifact
      <3> HIDE DEF d
      <3> QED
        <4>1. TypeOK'
          BY <2>1, <3>1, <3>2, <3>3 DEF TypeOK, RespondArtifact, Fault, NoFault, diskVars
        <4>2. DriverInSync' /\ Quiet'
          BY <3>1, <3>3 DEF DriverInSync, Quiet, RespondArtifact
        <4>3. LkgServed' /\ BootFrozen'
          BY <2>2 DEF DriverInSync, LkgServed, BootFrozen, Up, RespondArtifact, diskVars
        <4>4. RejectedNotRetried' /\ Staged'
          BY <2>4, <3>1, <3>2 DEF RejectedNotRetried, Staged
        <4>5. RejectionShape'
          BY <2>1, <3>1 DEF RejectionShape
        <4> QED BY <4>1, <4>2, <4>3, <4>4, <4>5
    <2> QED
      BY <2>3, <2>4
  <1>13. CASE RespondNoUpdate
    <2> DEFINE d == ResetAttempt(ClearRejectedIfExpired(ctx))
    <2>1. d \in Context /\ Paired(d)
      BY ClearRejected DEF TypeOK, RejectionShape
    <2>2. Refetch(d, NoFetch)
      BY <1>13 DEF RespondNoUpdate
    <2>3. /\ ctx' \in Context /\ RejectionShape'
          /\ fsm' = "Fetching" /\ fetch' \in Fetch /\ fetch'.at = "sent"
      BY <2>1, <2>2, RefetchStep DEF NoFetch
    <2> QED
      BY <1>13, <2>3
      DEF RespondNoUpdate, TypeOK, DriverInSync, LkgServed, BootFrozen, RejectedNotRetried,
          Quiet, Staged, Up, diskVars
  <1>14. CASE RespondNeedResync
    <2> DEFINE d == ClearRejectedIfExpired(ctx)
               e == ClearConditionalState(d)
    <2>1. d \in Context /\ Paired(d)
      BY ClearRejected DEF TypeOK, RejectionShape
    <2>2. e \in Context /\ e.rejected = None /\ e.until = "none"
      <3>1. e \in Context
        BY <2>1, ContextOps
      <3> QED
        BY <2>1, <3>1 DEF ClearConditionalState, Context
    <2>3. ctx' = ResetAttempt(e)
      BY <1>14 DEF RespondNeedResync
    <2>4. ResetAttempt(e) \in Context
      BY <2>2, ContextOps DEF Paired
    <2>5. ctx' \in Context /\ RejectionShape'
      <3> HIDE DEF e
      <3> QED
        BY <2>2, <2>3, <2>4 DEF RejectionShape, Paired, ResetAttempt, Context
    <2>6. fetch' \in Fetch /\ fetch'.at = "sent"
      BY <1>14 DEF RespondNeedResync, StartFetch, NoFetch, Fetch, OptArtifact
    <2> QED
      <3>1. TypeOK'
        BY <1>14, <2>5, <2>6 DEF TypeOK, RespondNeedResync, Fault, diskVars
      <3>2. DriverInSync' /\ Quiet'
        BY <1>14, <2>6 DEF DriverInSync, Quiet, RespondNeedResync
      <3>3. LkgServed' /\ BootFrozen'
        BY <1>14 DEF LkgServed, BootFrozen, Up, RespondNeedResync, diskVars
      <3>4. RejectedNotRetried' /\ Staged'
        BY <1>14 DEF RejectedNotRetried, Staged, RespondNeedResync, diskVars
      <3>5. RejectionShape'
        BY <2>5
      <3> QED BY <3>1, <3>2, <3>3, <3>4, <3>5
  <1>15. CASE RespondTransient
    <2> DEFINE d == ClearRejectedIfExpired(ctx)
    <2>1. d \in Context /\ Paired(d)
      BY ClearRejected DEF TypeOK, RejectionShape
    <2>2. ctx' = BumpAttempt(d) /\ fsm' = "BackoffSleeping" /\ timer' = "armed"
      BY <1>15 DEF RespondTransient, EnterBackoff
    <2>3. BumpAttempt(d) \in Context
      BY <2>1, ContextOps
    <2>4. ctx' \in Context /\ RejectionShape'
      <3> HIDE DEF d
      <3> QED
        BY <2>1, <2>2, <2>3 DEF RejectionShape, Paired, BumpAttempt, Context
    <2>5. fetch' \in Fetch /\ fetch'.at = "none"
      BY <1>15 DEF RespondTransient, NoFetch, Fetch, OptArtifact
    <2> QED
      <3>1. TypeOK'
        BY <1>15, <2>2, <2>4, <2>5 DEF TypeOK, RespondTransient, Fault, diskVars
      <3>2. DriverInSync' /\ Quiet'
        BY <1>15, <2>2, <2>5 DEF DriverInSync, Quiet, RespondTransient
      <3>3. LkgServed' /\ BootFrozen'
        BY <1>15 DEF LkgServed, BootFrozen, Up, RespondTransient, diskVars
      <3>4. RejectedNotRetried' /\ Staged'
        BY <1>15, <2>2 DEF RejectedNotRetried, Staged, RespondTransient, diskVars
      <3>5. RejectionShape'
        BY <2>4
      <3> QED BY <3>1, <3>2, <3>3, <3>4, <3>5
  <1>16. CASE TimerFired
    <2> DEFINE d == ClearRejectedIfExpired(ctx)
    <2>1. d \in Context /\ Paired(d) /\ fetch.at = "none"
      BY <1>16, ClearRejected DEF TimerFired, TypeOK, RejectionShape, DriverInSync, Quiet
    <2>2. Refetch(d, fetch)
      BY <1>16 DEF TimerFired
    <2>3. /\ ctx' \in Context /\ RejectionShape'
          /\ fsm' = "Fetching" /\ fetch' \in Fetch /\ fetch'.at = "sent"
      BY <2>1, <2>2, RefetchStep
    <2> QED
      BY <1>16, <2>3
      DEF TimerFired, TypeOK, DriverInSync, LkgServed, BootFrozen, RejectedNotRetried,
          Quiet, Staged, Up, diskVars
  <1>17. CASE RejectTtlElapses
    BY <1>17
    DEF RejectTtlElapses, TypeOK, DriverInSync, LkgServed, BootFrozen, RejectedNotRetried,
          Quiet, Staged, Up, RejectionShape, Paired, diskVars, Context
  <1>18. CASE UNCHANGED vars
    BY <1>18
    DEF vars, TypeOK, DriverInSync, LkgServed, BootFrozen, RejectedNotRetried,
          Quiet, Staged, Up, RejectionShape, diskVars, agentVars
  <1> QED
    BY <1>1, <1>2, <1>3, <1>4, <1>5, <1>6, <1>7, <1>8, <1>9, <1>10, <1>11, <1>12, <1>13, <1>14, <1>15, <1>16, <1>17, <1>18
    DEF Next, Relay, Respond, Work

-----------------------------------------------------------------------------
(* The theorems.                                                           *)

\* The inductive invariant holds in every behaviour of the agent.
THEOREM AgentInvariant == Spec => []IInv
  BY InitIInv, NextIInv, PTL DEF Spec

\* The driver never wedges and never has two fetches in flight, the LKG file
\* is always a valid restart point, the boot-time services stay in step with
\* the served configuration, and a rejected artifact is left alone until its
\* TTL ends: for every number of artifacts, publishes and failures.
THEOREM AgentSafety ==
    Spec => [](TypeOK /\ DriverInSync /\ LkgServed /\ BootFrozen /\ RejectedNotRetried)
  <1>1. IInv => TypeOK /\ DriverInSync /\ LkgServed /\ BootFrozen /\ RejectedNotRetried
    BY DEF IInv
  <1> QED
    BY <1>1, AgentInvariant, PTL

\* run_loop's pending fetch, timer and inline work always match the state of the
\* machine, so that the next event always comes.
COROLLARY DriverConsistent == Spec => []DriverInSync
  BY AgentSafety, PTL

\* While unconditional fetches are forced, no applied ETag is remembered.
Forgotten == ctx.force # 0 => ctx.applied = None

\* The context a refetch leaves remembers the same applied ETag and does not
\* enter forced unconditional mode.
LEMMA RefetchKeepsApplied ==
    ASSUME NEW c \in Context, Paired(c), NEW pending, Refetch(c, pending)
    PROVE  ctx'.applied = c.applied /\ (ctx'.force # 0 => c.force # 0)
  <1> DEFINE d == ClearRejectedIfExpired(c)
  <1>1. d \in Context /\ d.applied = c.applied /\ d.force = c.force
    BY ClearRejected
  <1>2. ctx' = IF d.force > 0 THEN [d EXCEPT !.force = @ - 1] ELSE d
    BY DEF Refetch, AfterConditionalEtag
  <1> HIDE DEF d
  <1> QED
    BY <1>1, <1>2 DEF Context

\* What the driver serves stays what it last applied.
LEMMA NextAppliedIsServed ==
    /\ LkgReadbackFails = FALSE /\ IInv /\ AppliedIsServed /\ Forgotten /\ [Next]_vars
    => AppliedIsServed' /\ Forgotten'
  <1> SUFFICES ASSUME LkgReadbackFails = FALSE, IInv, AppliedIsServed, Forgotten, [Next]_vars
               PROVE  AppliedIsServed' /\ Forgotten'
    BY ZenonT(30)
  <1> USE DEF IInv, AppliedIsServed, Forgotten
  <1> DEFINE d == ClearRejectedIfExpired(ctx)
  <1>0. /\ ctx \in Context /\ d \in Context /\ Paired(d)
        /\ d.applied = ctx.applied /\ d.force = ctx.force
        /\ ResetAttempt(d) \in Context /\ Paired(ResetAttempt(d))
        /\ ResetAttempt(d).applied = ctx.applied /\ ResetAttempt(d).force = ctx.force
    BY ClearRejected DEF TypeOK, RejectionShape
  <1>1. CASE Boot \/ Crash \/ Shutdown
    <2>1. proc' \in {"loaded", "down", "stopped"} /\ (ctx' = NewContext \/ ctx' = ctx)
      BY <1>1, ZenonT(30) DEF Boot, NewAgent, Crash, Shutdown
    <2>2. NewContext.force = 0
      BY DEF NewContext
    <2> QED
      BY <2>1, <2>2, ZenonT(30)
  <1>2. CASE Bootstrap
    BY <1>0, <1>2 DEF Bootstrap, Quiet, NewContext
  <1>3. ASSUME RejectUpdate, UNCHANGED <<served, proc>>
        PROVE  AppliedIsServed' /\ Forgotten'
    <2>1. ctx'.applied = ctx.applied /\ ctx'.force = ctx.force
      BY <1>0, <1>3 DEF RejectUpdate, EnterBackoff, BumpAttempt, SetRejected, Context
    <2> QED
      BY <1>3, <2>1
  <1>4. CASE VerifyStage \/ ApplyLoad \/ ApplyRename
    BY <1>3, <1>4 DEF VerifyStage, ApplyLoad, ApplyRename
  <1>5. CASE VerifyCheck
    <2>1. CASE OnVerifyOk
      <3>1. ctx'.applied = ctx.applied /\ (ctx'.force # 0 => ctx.force # 0)
        BY <1>0, <2>1, RefetchKeepsApplied DEF OnVerifyOk
      <3> QED
        BY <1>5, <3>1 DEF VerifyCheck
    <2>2. CASE RejectUpdate
      BY <1>3, <1>5, <2>2 DEF VerifyCheck
    <2> QED
      BY <1>5, <2>1, <2>2 DEF VerifyCheck
  <1>6. CASE ApplyStore
    <2> DEFINE c == SetApplied(ctx, update)
    <2>1. /\ served' = [art |-> update.bytes, version |-> update.version]
          /\ OnApplyOk /\ proc' = proc /\ update \in Update /\ update.bytes = update.etag
      BY <1>6 DEF ApplyStore, Staged
    <2>2. /\ c \in Context /\ Paired(c) /\ c.force = ctx.force
          /\ c.applied = IF ctx.force = 0 THEN update.etag ELSE ctx.applied
      BY <1>0, <2>1, SetAppliedContext
    <2>3. ctx'.applied = c.applied /\ (ctx'.force # 0 => c.force # 0)
      BY <2>1, <2>2, RefetchKeepsApplied DEF OnApplyOk
    <2> QED
      BY <2>1, <2>2, <2>3
  <1>7. CASE \E bytes \in Artifact : RespondArtifact(bytes)
    BY <1>0, <1>7, RefetchKeepsApplied DEF RespondArtifact, OnNewArtifact
  <1>8. CASE RespondNoUpdate
    BY <1>0, <1>8, RefetchKeepsApplied DEF RespondNoUpdate
  <1>9. CASE TimerFired
    BY <1>0, <1>9, RefetchKeepsApplied DEF TimerFired
  <1>10. CASE RespondTransient
    BY <1>0, <1>10 DEF RespondTransient, EnterBackoff, BumpAttempt, Context
  <1>11. CASE RespondNeedResync
    BY <1>0, <1>11 DEF RespondNeedResync, ResetAttempt, ClearConditionalState, Context
  <1>12. CASE RejectTtlElapses
    BY <1>0, <1>12 DEF RejectTtlElapses, Context
  <1>13. CASE Relay \/ UNCHANGED vars
    BY <1>13 DEF Relay, RelayPublish, ParkRequest, vars, agentVars
  <1> QED
    BY <1>1, <1>2, <1>4, <1>5, <1>6, <1>7, <1>8, <1>9, <1>10, <1>11, <1>12, <1>13
    DEF Next, Respond, Work

\* When re-reading the LKG after a rename does not fail, the ETag the agent
\* remembers as applied is always the one being served: deduplication never
\* discards a real change, and a rollback to an earlier artifact is taken.
THEOREM AgentDeduplication ==
    LkgReadbackFails = FALSE => (Spec => []AppliedIsServed)
  <1> SUFFICES ASSUME LkgReadbackFails = FALSE PROVE Spec => []AppliedIsServed
    BY ZenonT(30)
  <1>1. Init => AppliedIsServed /\ Forgotten
    BY DEF Init, AppliedIsServed, Forgotten, NewContext
  <1>2. IInv /\ (AppliedIsServed /\ Forgotten) /\ [Next]_vars => (AppliedIsServed /\ Forgotten)'
    BY NextAppliedIsServed
  <1> QED
    BY <1>1, <1>2, AgentInvariant, PTL DEF Spec

-----------------------------------------------------------------------------
(* Refinement.                                                             *)

\* Every step of the agent commits, goes live, or changes neither
\* configuration.
LEMMA ReloadStep == IInv /\ [Next]_vars => [Reload!Next]_<<lkg, IF Up THEN served.art ELSE lkg>>
  <1> SUFFICES ASSUME IInv, [Next]_vars
               PROVE  [Reload!Next]_<<lkg, IF Up THEN served.art ELSE lkg>>
    OBVIOUS
  <1> USE AgentAssumption
      DEF AgentAssumption, IInv, LkgServed, Quiet, Up, Reload!Next, Reload!GoLive, diskVars
  <1>1. CASE Boot \/ Bootstrap
    BY <1>1 DEF Boot, BuildServices, Bootstrap
  <1>2. CASE Shutdown \/ Crash
    BY <1>2 DEF Shutdown, Crash
  <1>3. CASE VerifyStage \/ VerifyCheck \/ ApplyLoad
    BY <1>3 DEF VerifyStage, VerifyCheck, ApplyLoad
  <1>4. CASE ApplyRename
    <2>1. CASE job' = "store"
      <3>1. /\ lkg' = update.etag /\ update.etag \in WellFormed /\ served' = served
            /\ proc' = proc /\ proc = "running" /\ served.art = lkg
            /\ Fingerprint[update.etag] = Fingerprint[served.art]
        BY <1>4, <2>1, ZenonT(30) DEF ApplyRename, Staged, TypeOK, RejectUpdate
      <3>2. Reload!Commit(update.etag)
        BY <3>1 DEF Reload!Commit
      <3> QED
        BY <3>1, <3>2
    <2>2. CASE UNCHANGED lkg
      BY <1>4, <2>2 DEF ApplyRename
    <2> QED
      BY <1>4, <2>1, <2>2 DEF ApplyRename
  <1>5. CASE ApplyStore
    BY <1>5 DEF ApplyStore, Staged, TypeOK
  <1>6. CASE Respond
    BY <1>6, ZenonT(30) DEF Respond, RespondArtifact, RespondNoUpdate, RespondNeedResync, RespondTransient
  <1>7. CASE TimerFired \/ RejectTtlElapses \/ Relay \/ UNCHANGED vars
    BY <1>7 DEF TimerFired, RejectTtlElapses, Relay, RelayPublish, ParkRequest, vars
  <1> QED
    BY <1>1, <1>2, <1>3, <1>4, <1>5, <1>6, <1>7 DEF Next, Work

\* The agent implements the atomic reload, whatever fails or crashes and
\* whenever: the durable configuration changes only to intact artifacts that
\* keep the boot-time fields, and the live one only to the durable one.
THEOREM AgentImplementsReload == Spec => ImplementsAtomicReload
  <1>1. Init => Reload!Init
    BY DEF Init, Reload!Init, Up
  <1> QED
    BY <1>1, ReloadStep, AgentInvariant, PTL DEF Spec, ImplementsAtomicReload, Reload!Spec

=============================================================================
