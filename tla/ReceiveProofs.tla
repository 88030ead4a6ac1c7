---------------------------- MODULE ReceiveProofs ----------------------------
(* Theorems about Receive, for every value of its constants.               *)
EXTENDS Receive, TLAPS

-----------------------------------------------------------------------------
(* Types of what the operators of the model return.                        *)

LEMMA EmptyPlanType == EmptyPlan \in Plans
BY DEF EmptyPlan, Plans

LEMMA PeelType == \A o \in ObjectIDs : Peel(o) \in Commits \cup {NoCommit}
BY ObjectAssumption DEF Peel, ObjectIDs

LEMMA StagedType ==
    ASSUME NEW s \in Sessions
    PROVE  /\ Staged(s) \subseteq Artifacts
           /\ \A a \in Staged(s) : a = <<s, a[2]>> /\ a[2] \in Pointers
BY DEF Staged, StagedFor, Covered, Artifacts

LEMMA TagOfType == \A p \in Pointers : TagOf[p] \in Tags
BY PointerAssumption

\* The rows a push or a batch refers to.
LEMMA RowTypes ==
    ASSUME TypeOK, NEW s \in Sessions
    PROVE  /\ plan[s].tags \subseteq Tags
           /\ \A p \in Pointers : /\ plan[s].gen[p] \in Nat
                                  /\ plan[s].cur[p] \in Artifacts \cup {NoArtifact}
           /\ \A t \in Tags : push[s].old[t] \in ObjectIDs /\ push[s].new[t] \in ObjectIDs
BY DEF TypeOK, Plans, Pushes

LEMMA ClosePointersType ==
    ASSUME TypeOK, NEW s \in Sessions, ClosePointers(s)
    PROVE  pointers' \in [Pointers -> PointerRows]
BY DEF TypeOK, ClosePointers, PointerRows

LEMMA FailBatchType ==
    ASSUME TypeOK, NEW s \in Sessions, FailBatch(s)
    PROVE  batch' \in [Sessions -> BatchStates]
BY DEF TypeOK, FailBatch, BatchStates

LEMMA PrepareTransactionType ==
    ASSUME TypeOK, NEW s \in Sessions, PrepareTransaction(s)
    PROVE  /\ batch' \in [Sessions -> BatchStates]
           /\ pointers' \in [Pointers -> PointerRows]
           /\ artifacts' \in [Artifacts -> ArtifactRows]
<1>1. batch' \in [Sessions -> BatchStates]
    BY DEF PrepareTransaction, TypeOK, BatchStates
<1>2. pointers' \in [Pointers -> PointerRows]
    BY ClosePointersType DEF PrepareTransaction
<1>3. \A a \in Staged(s) : Peel(push[s].new[TagOf[a[2]]]) \in Commits \cup {NoCommit}
    BY StagedType, TagOfType, RowTypes, PeelType
<1>4. artifacts' \in [Artifacts -> ArtifactRows]
    BY <1>3 DEF PrepareTransaction, TypeOK, ArtifactRows
<1> QED
    BY <1>1, <1>2, <1>4

LEMMA CompleteType ==
    ASSUME TypeOK, NEW s \in Sessions, Complete(s)
    PROVE  /\ batch' \in [Sessions -> BatchStates]
           /\ pointers' \in [Pointers -> PointerRows]
           /\ artifacts' \in [Artifacts -> ArtifactRows]
           /\ versions' \in [Tags -> VersionRows]
           /\ history' \in [Tags -> HistoryRows]
           /\ plugin' \in PluginRows
           /\ gcJobs' \subseteq Artifacts
<1>1. batch' \in [Sessions -> BatchStates]
    BY DEF Complete, TypeOK, BatchStates
<1>2. pointers' \in [Pointers -> PointerRows]
  <2>1. \A p \in Pointers : Switched(s, p) \in PointerRows
      BY RowTypes DEF Switched, PointerRows, Artifacts, Moves
  <2> QED
      BY <2>1 DEF Complete, CompletePointers, TypeOK
<1>3. artifacts' \in [Artifacts -> ArtifactRows]
    BY DEF Complete, CompletePointers, TypeOK, ArtifactRows
<1>4. versions' \in [Tags -> VersionRows]
  <2>1. \A t \in Tags : push[s].new[t] \in ObjectIDs /\ NoObject \in ObjectIDs
      BY RowTypes DEF ObjectIDs
  <2> QED
      BY <2>1 DEF Complete, CompleteVersions, TypeOK, VersionRows
<1>5. history' \in [Tags -> HistoryRows]
  <2>1. \A t \in Tags : HistoryRow(s, t) \in HistoryRows
      BY RowTypes, PeelType DEF HistoryRow, HistoryRows
  <2> QED
      BY <2>1 DEF Complete, CompleteVersions, TypeOK
<1>6. plugin' \in PluginRows
    BY DEF Complete, CompleteVersions, TypeOK, PluginRows
<1>7. gcJobs' \subseteq Artifacts
    BY RowTypes DEF Complete, CompletePointers, TypeOK, Covered
<1> QED
    BY <1>1, <1>2, <1>3, <1>4, <1>5, <1>6, <1>7

LEMMA AbortType ==
    ASSUME TypeOK, NEW s \in Sessions, Abort(s)
    PROVE  /\ batch' \in [Sessions -> BatchStates]
           /\ pointers' \in [Pointers -> PointerRows]
           /\ gcJobs' \subseteq Artifacts
<1>1. batch' \in [Sessions -> BatchStates]
    BY DEF Abort, TypeOK, BatchStates
<1>2. pointers' \in [Pointers -> PointerRows]
    BY ZenonT(60) DEF Abort, TypeOK, PointerRows
<1>3. gcJobs' \subseteq Artifacts
    BY StagedType DEF Abort, Abandoned, TypeOK
<1> QED
    BY <1>1, <1>2, <1>3

LEMMA MovedRefsType ==
    ASSUME TypeOK, NEW s \in Sessions, NEW moved
    PROVE  MovedRefs(s, moved) \in [Tags -> ObjectIDs]
BY RowTypes DEF MovedRefs, TypeOK

LEMMA ApplyType ==
    ASSUME TypeOK, NEW s \in Sessions, NEW d, Apply(s, d)
    PROVE  /\ batch' \in [Sessions -> BatchStates]
           /\ pointers' \in [Pointers -> PointerRows]
           /\ artifacts' \in [Artifacts -> ArtifactRows]
           /\ versions' \in [Tags -> VersionRows]
           /\ history' \in [Tags -> HistoryRows]
           /\ plugin' \in PluginRows
           /\ gcJobs' \subseteq Artifacts
<1>1. CASE Complete(s)
    BY <1>1, CompleteType
<1>2. CASE Abort(s)
    BY <1>2, AbortType DEF Abort, versionVars, TypeOK
<1> QED
    BY <1>1, <1>2 DEF Apply

-----------------------------------------------------------------------------
(* Type correctness.                                                       *)

LEMMA InitType == Init => TypeOK
<1> SUFFICES ASSUME Init PROVE TypeOK
    OBVIOUS
<1>1. refs \in [Tags -> ObjectIDs]
    BY DEF Init
<1>2. disk \subseteq Artifacts /\ gcJobs \subseteq Artifacts
    BY DEF Init, Artifacts
<1>3. plugin \in PluginRows
    BY PointerAssumption DEF Init, PluginRows
<1>4. versions \in [Tags -> VersionRows]
    BY <1>1 DEF Init, VersionRows, ObjectIDs
<1>5. history \in [Tags -> HistoryRows]
    BY <1>1, PeelType DEF Init, HistoryRows
<1>6. pointers \in [Pointers -> PointerRows]
    BY DEF Init, PointerRows, Artifacts
<1>7. artifacts \in [Artifacts -> ArtifactRows]
  <2>1. \A a \in Artifacts : Peel(refs[TagOf[a[2]]]) \in Commits \cup {NoCommit}
      BY <1>1, PeelType, TagOfType DEF Artifacts
  <2> QED
      BY <2>1 DEF Init, ArtifactRows
<1>8. batch \in [Sessions -> BatchStates] /\ pc \in [Sessions -> SessionStates]
    BY DEF Init, BatchStates, SessionStates
<1>9. plan \in [Sessions -> Plans]
    BY EmptyPlanType DEF Init
<1>10. push \in [Sessions -> Pushes]
    BY DEF Init, NoPush, Pushes, ObjectIDs
<1>11. lock \in Sessions \cup Reconcilers \cup {Nobody}
    BY DEF Init
<1>12. job \in [Reconcilers -> Jobs]
    BY DEF Init, IdleJob, Jobs, Dispositions
<1> QED
    BY <1>1, <1>2, <1>3, <1>4, <1>5, <1>6, <1>7, <1>8, <1>9, <1>10, <1>11, <1>12 DEF TypeOK

LEMMA PrepareType ==
    ASSUME TypeOK, NEW s \in Sessions, Advertise(s) \/ Open(s) \/ Prepare(s)
    PROVE  TypeOK'
<1> USE DEF Goto, Close, SessionStates, gitVars, versionVars, servingVars
<1>1. CASE Advertise(s)
    BY <1>1 DEF Advertise, TypeOK, Pushes
<1>2. CASE Open(s)
    BY <1>2 DEF Open, TypeOK
<1>3. CASE AdmitUnplanned(s)
    BY <1>3 DEF AdmitUnplanned, TypeOK
<1>4. CASE BuildPlan(s)
  <2>1. PlannedTags(s) \subseteq Tags
      BY DEF PlannedTags, PushTags
  <2>2. plan' \in [Sessions -> Plans]
      BY <1>4, <2>1 DEF BuildPlan, TypeOK, Plans, PointerRows
  <2>3. disk' \subseteq Artifacts
      BY <1>4 DEF BuildPlan, TypeOK, Artifacts
  <2> QED
      BY <1>4, <2>2, <2>3 DEF BuildPlan, TypeOK
<1>5. CASE RejectPrepare(s)
    BY <1>5, EmptyPlanType DEF RejectPrepare, TypeOK
<1>6. CASE PersistPrepared(s)
    BY <1>6, PrepareTransactionType DEF PersistPrepared, TypeOK
<1>7. CASE PersistThenReject(s)
    BY <1>7, PrepareTransactionType DEF PersistThenReject, TypeOK
<1> QED
    BY <1>1, <1>2, <1>3, <1>4, <1>5, <1>6, <1>7 DEF Prepare

LEMMA ResolveType ==
    ASSUME TypeOK, NEW s \in Sessions, CommitRefs(s) \/ Finalize(s) \/ Die(s)
    PROVE  TypeOK'
<1> USE DEF Goto, Close, SessionStates, gitVars, versionVars, servingVars
<1>1. CASE UpdateRefs(s)
    BY <1>1, MovedRefsType DEF UpdateRefs, TypeOK
<1>2. CASE UpdateRefsFails(s)
    BY <1>2 DEF UpdateRefsFails, TypeOK
<1>3. CASE UpdateRefsKilled(s)
    BY <1>3, MovedRefsType DEF UpdateRefsKilled, TypeOK
<1>4. CASE FinalizeResolved(s)
    BY <1>4 DEF FinalizeResolved, TypeOK
<1>5. CASE ResolveManual(s)
    BY <1>5, ClosePointersType, FailBatchType DEF ResolveManual, TypeOK
<1>6. CASE ResolveApply(s)
    BY <1>6, ApplyType DEF ResolveApply, TypeOK
<1>7. CASE ResolveVerifyFails(s)
  <2>1. artifacts' \in [Artifacts -> ArtifactRows]
    <3>1. PICK a : artifacts' = [artifacts EXCEPT ![a].state = "failed"]
      BY <1>7 DEF ResolveVerifyFails
    <3>2. artifacts \in [Artifacts -> ArtifactRows]
      BY DEF TypeOK
    <3> QED
      BY <3>1, <3>2 DEF ArtifactRows
  <2> QED
      BY <1>7, <2>1 DEF ResolveVerifyFails, TypeOK
<1>8. CASE ResolveApplyFails(s)
    BY <1>8 DEF ResolveApplyFails, TypeOK
<1>9. CASE ResolveAckLost(s)
    BY <1>9, ApplyType DEF ResolveAckLost, TypeOK
<1>10. CASE MarkManual(s)
    BY <1>10, ClosePointersType, FailBatchType DEF MarkManual, TypeOK
<1>11. CASE Die(s)
    BY <1>11 DEF Die, TypeOK
<1> QED
    BY <1>1, <1>2, <1>3, <1>4, <1>5, <1>6, <1>7, <1>8, <1>9, <1>10, <1>11
       DEF CommitRefs, Finalize

LEMMA ReconcileType ==
    ASSUME TypeOK, NEW r \in Reconcilers, Reconcile(r)
    PROVE  TypeOK'
<1> USE DEF gitVars, versionVars, servingVars, sessionVars, Jobs, Dispositions
<1>1. CASE ReconcileList(r)
    BY <1>1 DEF ReconcileList, TypeOK
<1>2. ASSUME NEW s \in Sessions, ReconcileObserve(r, s) PROVE TypeOK'
  <2>1. Observed(s) \subseteq Dispositions
      BY DEF Observed, Classify
  <2>2. PICK d \in Dispositions : job' = [job EXCEPT ![r].at = s, ![r].disposition = d]
      BY <1>2, <2>1 DEF ReconcileObserve
  <2>3. job' \in [Reconcilers -> Jobs]
      BY ZenonT(60), <2>2 DEF TypeOK
  <2> QED
      BY <1>2, <2>3 DEF ReconcileObserve, TypeOK
<1>3. job[r].at # Nobody => job[r].at \in Sessions
    BY DEF TypeOK
<1>4. ReconcileNext(r) => job' \in [Reconcilers -> Jobs] /\ lock' = Nobody
    BY DEF ReconcileNext, TypeOK, IdleJob
<1>5. CASE ReconcileApply(r)
    BY <1>5, <1>3, <1>4, ApplyType DEF ReconcileApply, TypeOK
<1>6. CASE ReconcileSkip(r)
    BY <1>6, <1>4 DEF ReconcileSkip, TypeOK
<1>7. CASE ReconcileManual(r)
    BY <1>7, <1>3, <1>4, ClosePointersType, FailBatchType DEF ReconcileManual, TypeOK
<1>8. CASE ReconcileFails(r)
    BY <1>8 DEF ReconcileFails, TypeOK, IdleJob
<1> QED
    BY <1>1, <1>2, <1>5, <1>6, <1>7, <1>8 DEF Reconcile

LEMMA ManageType == TypeOK /\ Manage => TypeOK'
<1> SUFFICES ASSUME TypeOK, Manage PROVE TypeOK'
    OBVIOUS
<1> USE DEF gitVars, servingVars, sessionVars, PluginRows
<1>1. ASSUME NEW t \in Tags, NEW makeDefault \in BOOLEAN, PublishVersion(t, makeDefault)
      PROVE  TypeOK'
  <2>1. versions' \in [Tags -> VersionRows]
      BY <1>1 DEF PublishVersion, TypeOK, VersionRows
  <2>2. history' \in [Tags -> HistoryRows]
      BY <1>1, PeelType DEF PublishVersion, TypeOK, HistoryRows
  <2>3. plugin' \in PluginRows
      BY <1>1 DEF PublishVersion, TypeOK
  <2> QED
      BY <1>1, <2>1, <2>2, <2>3 DEF PublishVersion, TypeOK
<1>2. ASSUME NEW t \in Tags, SetDefaultVersion(t) PROVE TypeOK'
    BY <1>2 DEF SetDefaultVersion, TypeOK
<1>3. CASE ClearDefaultVersion
    BY <1>3 DEF ClearDefaultVersion, TypeOK
<1>4. CASE Archive
    BY <1>4 DEF Archive, TypeOK
<1>5. CASE Restore
    BY <1>5 DEF Restore, TypeOK
<1> QED
    BY <1>1, <1>2, <1>3, <1>4, <1>5 DEF Manage

LEMMA StutterType == TypeOK /\ UNCHANGED vars => TypeOK'
BY DEF TypeOK, vars, gitVars, versionVars, servingVars, sessionVars

\* Every variable keeps its type: every row a session, a reconciler or a
\* management operation writes is a row its table can hold.
THEOREM TypeCorrect == Spec => []TypeOK
<1>1. TypeOK /\ [Next]_vars => TypeOK'
    BY PrepareType, ResolveType, ReconcileType, ManageType, StutterType DEF Next
<1> QED
    BY InitType, <1>1, PTL DEF Spec

-----------------------------------------------------------------------------
(* The inductive invariant: the rows and the refs.                         *)

\* The effect lock has one holder.
LEMMA OneHolder ==
    ASSUME LockHeld, NEW s \in Sessions, pc[s] \in Holding
    PROVE  /\ \A s1 \in Sessions : pc[s1] \in Holding => s1 = s
           /\ \A r \in Reconcilers : job[r].at = Nobody
BY ActorAssumption DEF LockHeld

LEMMA NoOtherHolder ==
    ASSUME LockHeld, NEW r \in Reconcilers, job[r].at # Nobody
    PROVE  /\ \A s \in Sessions : pc[s] \notin Holding
           /\ \A r1 \in Reconcilers : job[r1].at # Nobody => r1 = r
BY ActorAssumption DEF LockHeld

\* While the lock is free nobody is inside its steps.
LEMMA NoHolder ==
    ASSUME LockHeld, lock = Nobody
    PROVE  /\ \A s \in Sessions : pc[s] \notin Holding
           /\ \A r \in Reconcilers : job[r].at = Nobody
BY ActorAssumption DEF LockHeld

\* Tags that unresolved batches share, and the pointers of those tags.
LEMMA Disjoint ==
    ASSUME OneUnresolvedPerTag, NEW s1 \in Sessions, NEW s2 \in Sessions, s1 # s2,
           batch[s1] \in UnresolvedStates, batch[s2] \in UnresolvedStates
    PROVE  /\ plan[s1].tags \cap plan[s2].tags = {}
           /\ Covered(s1) \cap Covered(s2) = {}
BY DEF OneUnresolvedPerTag, Covered

\* A read that shows a move completed, or an old object, is a true read: only
\* the absence of a ref can be a failure to read it.
LEMMA TrueReads ==
    ASSUME TypeOK, NEW s \in Sessions,
           \A t \in plan[s].tags : push[s].old[t] # NoObject
    PROVE  /\ "completed" \in Observed(s) =>
                \A t \in plan[s].tags :
                  Moves(s, t) \/ ~RefReadMayFail => refs[t] = push[s].new[t]
           /\ "aborted" \in Observed(s) =>
                \A t \in plan[s].tags : refs[t] = push[s].old[t]
<1>1. ASSUME "completed" \in Observed(s), NEW t \in plan[s].tags,
             Moves(s, t) \/ ~RefReadMayFail
      PROVE  refs[t] = push[s].new[t]
  <2>1. PICK o \in Observations(s) : Classify(s, o) = "completed"
      BY <1>1 DEF Observed
  <2>2. o[t] = push[s].new[t]
      BY <2>1 DEF Classify
  <2>3. o[t] \in PossibleReads(t)
      BY DEF Observations
  <2> QED
      BY <1>1, <2>2, <2>3 DEF PossibleReads, Moves
<1>2. ASSUME "aborted" \in Observed(s), NEW t \in plan[s].tags
      PROVE  refs[t] = push[s].old[t]
  <2>1. PICK o \in Observations(s) : Classify(s, o) = "aborted"
      BY <1>2 DEF Observed
  <2>2. o[t] = push[s].old[t]
      BY <2>1 DEF Classify
  <2>3. o[t] \in PossibleReads(t)
      BY DEF Observations
  <2> QED
      BY <2>2, <2>3 DEF PossibleReads
<1> QED
    BY <1>1, <1>2

LEMMA PreparedOldExists ==
    ASSUME TypeOK, DataInv, NEW s \in Sessions, batch[s] = "prepared"
    PROVE  \A t \in plan[s].tags : push[s].old[t] # NoObject
BY RowTypes DEF DataInv, PreparedCanResolve, AvailableHasObject

LEMMA DataFrame ==
    ASSUME TypeOK, DataInv,
           UNCHANGED <<refs, versions, pointers, batch, plan, push>>
    PROVE  DataInv'
BY DEF DataInv, PreparedCanResolve, OneUnresolvedPerTag, PointerFailClosed,
       RefVersionAgreement, AvailableHasObject, PointersAsPrepared, Covered,
       Unresolved, Available

\* persistPrepared: the new batch is the only one of its tags and its pointers
\* are as its transitions say.
LEMMA PrepareKeepsData ==
    ASSUME TypeOK, DataInv, NEW s \in Sessions, batch[s] = "none",
           \A t \in plan[s].tags : /\ Available(t)
                                   /\ versions[t].raw = push[s].old[t]
                                   /\ ~Unresolved(t),
           PrepareTransaction(s), UNCHANGED <<refs, versions, plan, push>>
    PROVE  DataInv'
<1>1. \A s1 \in Sessions : batch'[s1] = IF s1 = s THEN "prepared" ELSE batch[s1]
    BY DEF PrepareTransaction, TypeOK
<1>2. \A s1 \in Sessions : Covered(s1)' = Covered(s1)
    BY DEF Covered
<1>3. \A p \in Pointers :
        /\ pointers'[p].artifact = pointers[p].artifact
        /\ pointers'[p].gen = pointers[p].gen
        /\ pointers'[p].available = (pointers[p].available /\ p \notin Covered(s))
    BY ZenonT(60) DEF PrepareTransaction, ClosePointers, TypeOK, PointerRows
<1>4. \A s1 \in Sessions : batch[s1] \in UnresolvedStates =>
        plan[s1].tags \cap plan[s].tags = {}
    BY DEF Unresolved
<1>5. PreparedCanResolve'
  <2> SUFFICES ASSUME NEW s1 \in Sessions, batch'[s1] = "prepared"
               PROVE  /\ \A t \in plan[s1].tags : Available(t) /\ versions[t].raw = push[s1].old[t]
                      /\ PointersAsPrepared(s1)'
      BY DEF PreparedCanResolve, Available
  <2>1. CASE s1 = s
    <3>1. \A p \in Covered(s) : /\ pointers[p].gen = plan[s].gen[p]
                                /\ pointers[p].artifact = plan[s].cur[p]
        BY DEF PrepareTransaction
    <3>2. \A p \in Covered(s) : /\ pointers'[p].gen = plan[s].gen[p]
                                /\ ~pointers'[p].available
                                /\ pointers'[p].artifact = plan[s].cur[p]
        BY <3>1, <1>3 DEF Covered
    <3> QED
        BY <2>1, <3>2, <1>2 DEF PointersAsPrepared
  <2>2. CASE s1 # s
      BY ZenonT(60), <2>2, <1>1, <1>2, <1>3 DEF DataInv, PreparedCanResolve, PointersAsPrepared, Covered
  <2> QED
      BY <2>1, <2>2
<1>6. OneUnresolvedPerTag'
    BY <1>1, <1>4 DEF DataInv, OneUnresolvedPerTag
<1>7. PointerFailClosed'
    BY <1>1, <1>2, <1>3 DEF DataInv, PointerFailClosed, Covered
<1>8. \A t \in Tags : Unresolved(t) => Unresolved(t)'
    BY <1>1 DEF Unresolved, UnresolvedStates
<1>9. RefVersionAgreement' /\ AvailableHasObject'
    BY <1>8 DEF DataInv, RefVersionAgreement, AvailableHasObject, Available
<1> QED
    BY <1>5, <1>6, <1>7, <1>9 DEF DataInv

\* markManual and manualBatch: the batch stays unresolved and its pointers closed.
LEMMA ManualKeepsData ==
    ASSUME TypeOK, DataInv, NEW s \in Sessions, batch[s] # "none", FailBatch(s),
           ClosePointers(s) \/ UNCHANGED pointers,
           UNCHANGED <<refs, versions, plan, push>>
    PROVE  DataInv'
<1>1. \A s1 \in Sessions : /\ batch'[s1] = "prepared" => batch[s1] = "prepared"
                           /\ batch'[s1] \in UnresolvedStates <=> batch[s1] \in UnresolvedStates
    BY DEF FailBatch, TypeOK, UnresolvedStates, BatchStates
<1>2. \A s1 \in Sessions : Covered(s1)' = Covered(s1)
    BY DEF Covered
<1>3. \A p \in Pointers : /\ pointers'[p].artifact = pointers[p].artifact
                          /\ pointers'[p].gen = pointers[p].gen
                          /\ pointers'[p].available => pointers[p].available
    BY DEF ClosePointers, TypeOK, PointerRows
<1>4. PreparedCanResolve'
    BY <1>1, <1>2, <1>3 DEF DataInv, PreparedCanResolve, PointersAsPrepared, Available, Covered
<1>5. OneUnresolvedPerTag'
    BY <1>1 DEF DataInv, OneUnresolvedPerTag
<1>6. PointerFailClosed'
    BY <1>1, <1>2, <1>3 DEF DataInv, PointerFailClosed, Covered
<1>7. RefVersionAgreement' /\ AvailableHasObject'
    BY <1>1 DEF DataInv, RefVersionAgreement, AvailableHasObject, Available, Unresolved
<1> QED
    BY <1>4, <1>5, <1>6, <1>7 DEF DataInv

\* What one resolving transaction changes: the tags and pointers of one batch.
LEMMA CompleteKeepsData ==
    ASSUME TypeOK, DataInv, NEW s \in Sessions, Complete(s),
           \A t \in plan[s].tags : Moves(s, t) => refs[t] = push[s].new[t],
           UNCHANGED <<refs, plan, push>>
    PROVE  DataInv'
<1>1. batch[s] = "prepared" /\ batch[s] \in UnresolvedStates
    BY DEF Complete, UnresolvedStates
<1>2. \A s1 \in Sessions : batch'[s1] = IF s1 = s THEN "completed" ELSE batch[s1]
    BY DEF Complete, TypeOK
<1>3. \A s1 \in Sessions : Covered(s1)' = Covered(s1)
    BY DEF Covered
<1>4. \A p \in Pointers \ Covered(s) : pointers'[p] = pointers[p]
    BY DEF Complete, CompletePointers
<1>5. \A t \in Tags :
        /\ t \notin plan[s].tags => versions'[t] = versions[t]
        /\ t \in plan[s].tags /\ Moves(s, t) =>
             versions'[t].status = "available" /\ versions'[t].raw = push[s].new[t]
        /\ t \in plan[s].tags /\ ~Moves(s, t) => versions'[t].status = "deleted"
    BY DEF Complete, CompleteVersions
<1>6. ASSUME NEW s1 \in Sessions, batch'[s1] \in UnresolvedStates
      PROVE  /\ s1 # s /\ batch[s1] = batch'[s1]
             /\ plan[s1].tags \cap plan[s].tags = {}
             /\ Covered(s1) \subseteq Pointers \ Covered(s)
  <2>1. s1 # s /\ batch[s1] = batch'[s1]
      BY <1>2, <1>6 DEF UnresolvedStates
  <2> QED
      BY <2>1, <1>1, <1>6, Disjoint DEF DataInv, Covered
<1>7. PreparedCanResolve'
  <2> SUFFICES ASSUME NEW s1 \in Sessions, batch'[s1] = "prepared"
               PROVE  /\ \A t \in plan[s1].tags : /\ versions'[t].status = "available"
                                                 /\ versions'[t].raw = push[s1].old[t]
                      /\ PointersAsPrepared(s1)'
      BY DEF PreparedCanResolve, Available
  <2>1. /\ batch[s1] = "prepared" /\ plan[s1].tags \cap plan[s].tags = {}
        /\ Covered(s1) \subseteq Pointers \ Covered(s)
      BY <1>6 DEF UnresolvedStates
  <2>2. plan[s1].tags \subseteq Tags
      BY RowTypes
  <2>3. \A t \in plan[s1].tags : versions'[t] = versions[t]
      BY <2>1, <2>2, <1>5
  <2>4. PointersAsPrepared(s1)'
      BY <2>1, <1>3, <1>4 DEF DataInv, PreparedCanResolve, PointersAsPrepared
  <2> QED
      BY <2>1, <2>3, <2>4 DEF DataInv, PreparedCanResolve, Available
<1>8. OneUnresolvedPerTag'
    BY <1>2 DEF DataInv, OneUnresolvedPerTag, UnresolvedStates
<1>9. PointerFailClosed'
    BY <1>3, <1>4, <1>6 DEF DataInv, PointerFailClosed
<1>10. RefVersionAgreement'
  <2> SUFFICES ASSUME NEW t \in Tags, versions'[t].status = "available", ~Unresolved(t)'
               PROVE  versions'[t].raw = refs[t]
      BY DEF RefVersionAgreement, Available
  <2>1. CASE t \in plan[s].tags
      BY <2>1, <1>5
  <2>2. CASE t \notin plan[s].tags
    <3>1. ~Unresolved(t)
        BY <2>2, <1>2 DEF Unresolved, UnresolvedStates
    <3> QED
        BY <2>2, <3>1, <1>5 DEF DataInv, RefVersionAgreement, Available
  <2> QED
      BY <2>1, <2>2
<1>11. AvailableHasObject'
    BY <1>5 DEF DataInv, AvailableHasObject, Available, Moves
<1> QED
    BY <1>7, <1>8, <1>9, <1>10, <1>11 DEF DataInv

LEMMA AbortKeepsData ==
    ASSUME TypeOK, DataInv, NEW s \in Sessions, Abort(s),
           \A t \in plan[s].tags : refs[t] = push[s].old[t],
           UNCHANGED <<refs, plan, push>>
    PROVE  DataInv'
<1>1. batch[s] = "prepared" /\ batch[s] \in UnresolvedStates /\ versions' = versions
    BY DEF Abort, UnresolvedStates, versionVars
<1>2. \A s1 \in Sessions : batch'[s1] = IF s1 = s THEN "aborted" ELSE batch[s1]
    BY DEF Abort, TypeOK
<1>3. \A s1 \in Sessions : Covered(s1)' = Covered(s1)
    BY DEF Covered
<1>4. \A p \in Pointers \ Covered(s) : pointers'[p] = pointers[p]
    BY DEF Abort
<1>5. ASSUME NEW s1 \in Sessions, batch'[s1] \in UnresolvedStates
      PROVE  batch[s1] = batch'[s1] /\ Covered(s1) \subseteq Pointers \ Covered(s)
  <2>1. s1 # s /\ batch[s1] = batch'[s1]
      BY <1>2, <1>5 DEF UnresolvedStates
  <2> QED
      BY <2>1, <1>1, <1>5, Disjoint DEF DataInv, Covered
<1>6. PreparedCanResolve'
  <2> SUFFICES ASSUME NEW s1 \in Sessions, batch'[s1] = "prepared"
               PROVE  /\ \A t \in plan[s1].tags : Available(t) /\ versions[t].raw = push[s1].old[t]
                      /\ PointersAsPrepared(s1)'
      BY <1>1 DEF PreparedCanResolve, Available
  <2>1. batch[s1] = "prepared" /\ Covered(s1) \subseteq Pointers \ Covered(s)
      BY <1>5 DEF UnresolvedStates
  <2> QED
      BY <2>1, <1>3, <1>4 DEF DataInv, PreparedCanResolve, PointersAsPrepared
<1>7. OneUnresolvedPerTag'
    BY <1>2 DEF DataInv, OneUnresolvedPerTag, UnresolvedStates
<1>8. PointerFailClosed'
    BY <1>3, <1>4, <1>5 DEF DataInv, PointerFailClosed
<1>9. RefVersionAgreement'
  <2> SUFFICES ASSUME NEW t \in Tags, Available(t), ~Unresolved(t)'
               PROVE  versions[t].raw = refs[t]
      BY <1>1 DEF RefVersionAgreement, Available
  <2>1. CASE t \in plan[s].tags
      BY <2>1, <1>1 DEF DataInv, PreparedCanResolve
  <2>2. CASE t \notin plan[s].tags
    <3>1. ~Unresolved(t)
        BY <2>2, <1>2 DEF Unresolved, UnresolvedStates
    <3> QED
        BY <3>1 DEF DataInv, RefVersionAgreement
  <2> QED
      BY <2>1, <2>2
<1>10. AvailableHasObject'
    BY <1>1 DEF DataInv, AvailableHasObject, Available
<1> QED
    BY <1>6, <1>7, <1>8, <1>9, <1>10 DEF DataInv

\* `git update-ref` moves tags that have no available Version, or whose Version
\* has an unresolved receive.
LEMMA MoveKeepsData ==
    ASSUME TypeOK, DataInv, NEW s \in Sessions, NEW moved \in SUBSET PushTags(s),
           \A t \in PushTags(s) \ plan[s].tags : ~Available(t),
           plan[s].tags = {} \/ batch[s] = "prepared",
           refs' = MovedRefs(s, moved), UNCHANGED <<versions, pointers, batch, plan, push>>
    PROVE  DataInv'
<1>1. PreparedCanResolve' /\ OneUnresolvedPerTag' /\ PointerFailClosed' /\ AvailableHasObject'
    BY DEF DataInv, PreparedCanResolve, OneUnresolvedPerTag, PointerFailClosed,
           AvailableHasObject, PointersAsPrepared, Covered, Available
<1>2. RefVersionAgreement'
  <2> SUFFICES ASSUME NEW t \in Tags, Available(t), ~Unresolved(t)
               PROVE  versions[t].raw = refs'[t]
      BY DEF RefVersionAgreement, Available, Unresolved
  <2>1. t \notin plan[s].tags
      BY DEF Unresolved, UnresolvedStates
  <2>2. refs'[t] = refs[t]
      BY <2>1 DEF MovedRefs
  <2> QED
      BY <2>2 DEF DataInv, RefVersionAgreement
<1> QED
    BY <1>1, <1>2 DEF DataInv

\* A session without a batch changes what it asks for or what it plans.
LEMMA PlanKeepsData ==
    ASSUME TypeOK, DataInv, NEW s \in Sessions, batch[s] = "none",
           \A s1 \in Sessions \ {s} : plan'[s1] = plan[s1] /\ push'[s1] = push[s1],
           UNCHANGED <<refs, versions, pointers, batch>>
    PROVE  DataInv'
<1>1. \A s1 \in Sessions : batch[s1] # "none" =>
        plan'[s1] = plan[s1] /\ push'[s1] = push[s1] /\ Covered(s1)' = Covered(s1)
    BY DEF Covered
<1>2. \A t \in Tags : Unresolved(t)' <=> Unresolved(t)
    BY <1>1 DEF Unresolved, UnresolvedStates
<1>3. PreparedCanResolve'
    BY <1>1 DEF DataInv, PreparedCanResolve, PointersAsPrepared, Available
<1>4. OneUnresolvedPerTag' /\ PointerFailClosed'
    BY <1>1 DEF DataInv, OneUnresolvedPerTag, PointerFailClosed, UnresolvedStates
<1>5. RefVersionAgreement' /\ AvailableHasObject'
    BY <1>2 DEF DataInv, RefVersionAgreement, AvailableHasObject, Available
<1> QED
    BY <1>3, <1>4, <1>5 DEF DataInv

\* Publish names the object the ref names, and only when no receive is unresolved.
LEMMA PublishKeepsData ==
    ASSUME TypeOK, DataInv, NEW t \in Tags, NEW makeDefault, PublishVersion(t, makeDefault)
    PROVE  DataInv'
<1> USE DEF gitVars, servingVars, sessionVars
<1>1. UNCHANGED <<refs, pointers, batch, plan, push>>
    BY DEF PublishVersion
<1>2. \A u \in Tags : ~Unresolved(u)
    BY DEF PublishVersion, Publishable, UnresolvedReceiveExists
<1>3. \A u \in Tags : versions'[u] = IF u = t THEN [status |-> "available", raw |-> refs[t]]
                                             ELSE versions[u]
    BY DEF PublishVersion, TypeOK
<1>4. PreparedCanResolve'
  <2> SUFFICES ASSUME NEW s \in Sessions, batch[s] = "prepared"
               PROVE  /\ \A u \in plan[s].tags : Available(u)' /\ versions'[u].raw = push[s].old[u]
                      /\ PointersAsPrepared(s)'
      BY <1>1 DEF PreparedCanResolve
  <2>1. plan[s].tags = {}
      BY <1>2, RowTypes DEF Unresolved, UnresolvedStates
  <2> QED
      BY <2>1, <1>1 DEF PointersAsPrepared, Covered
<1>5. OneUnresolvedPerTag' /\ PointerFailClosed'
    BY <1>1 DEF DataInv, OneUnresolvedPerTag, PointerFailClosed, Covered
<1>6. RefVersionAgreement'
    BY <1>1, <1>2, <1>3 DEF DataInv, RefVersionAgreement, Available, Unresolved
<1>7. AvailableHasObject'
    BY <1>3 DEF DataInv, AvailableHasObject, Available, PublishVersion
<1> QED
    BY <1>4, <1>5, <1>6, <1>7 DEF DataInv

-----------------------------------------------------------------------------
(* The inductive invariant: who is inside the lock and what it relies on.  *)

LEMMA InitInv == Init => DataInv /\ ControlInv
<1> SUFFICES ASSUME Init PROVE DataInv /\ ControlInv
    OBVIOUS
<1>1. \A s \in Sessions : /\ batch[s] = "none" /\ pc[s] = "idle"
                          /\ plan[s].tags = {}
    BY DEF Init, EmptyPlan
<1>2. \A t \in Tags : Available(t) => versions[t].raw = refs[t] /\ refs[t] # NoObject
    BY DEF Init, Available
<1>3. DataInv
    BY <1>1, <1>2 DEF DataInv, PreparedCanResolve, OneUnresolvedPerTag, PointerFailClosed,
                      RefVersionAgreement, AvailableHasObject, UnresolvedStates
<1>4. \A s \in Sessions : SessionInv(s)
    BY <1>1 DEF SessionInv, SessionStage, BuiltStillAdmissible, UnplannedNotAvailable
<1>5. \A r \in Reconcilers : job[r].todo = {} /\ job[r].at = Nobody
    BY DEF Init, IdleJob
<1>6. LockHeld /\ JobsHaveBatches /\ ReadStillTrue
    BY <1>1, <1>5, ActorAssumption DEF LockHeld, Holding, JobsHaveBatches, ReadStillTrue
<1> QED
    BY <1>3, <1>4, <1>6 DEF ControlInv

\* A session without the lock does not depend on rows that others change.
LEMMA Outside ==
    ASSUME TypeOK, NEW s \in Sessions, SessionInv(s), pc[s] \notin Holding,
           pc'[s] = pc[s], plan'[s] = plan[s], batch'[s] = batch[s]
    PROVE  SessionInv(s)'
BY DEF SessionInv, SessionStage, BuiltStillAdmissible, UnplannedNotAvailable,
       TypeOK, Holding, SessionStates

\* A step of the session that holds the lock, into its next stage.
LEMMA HolderStep ==
    ASSUME TypeOK, ControlInv, NEW s \in Sessions, pc[s] \in Holding,
           NEW next, Goto(s, next), next \in Holding => lock' = lock, job' = job,
           \A s1 \in Sessions : batch[s1] # "none" => batch'[s1] # "none",
           \A s1 \in Sessions \ {s} : plan'[s1] = plan[s1] /\ batch'[s1] = batch[s1],
           SessionInv(s)'
    PROVE  ControlInv'
<1>1. /\ \A s1 \in Sessions \ {s} : pc[s1] \notin Holding /\ pc'[s1] = pc[s1]
      /\ \A r \in Reconcilers : job[r].at = Nobody
      /\ lock = s /\ pc'[s] = next
    BY OneHolder DEF ControlInv, LockHeld, Goto, TypeOK
<1>2. \A s1 \in Sessions : SessionInv(s1)'
    BY <1>1, Outside DEF ControlInv
<1>3. LockHeld'
    BY <1>1 DEF LockHeld
<1>4. JobsHaveBatches' /\ ReadStillTrue'
    BY <1>1 DEF ControlInv, JobsHaveBatches, ReadStillTrue
<1> QED
    BY <1>2, <1>3, <1>4 DEF ControlInv

\* A reconciler that holds the lock is done with one batch.
LEMMA ReconcilerStep ==
    ASSUME TypeOK, ControlInv, NEW r \in Reconcilers, job[r].at # Nobody, ReconcileNext(r),
           UNCHANGED <<plan, pc>>,
           \A s \in Sessions : batch[s] = "none" <=> batch'[s] = "none"
    PROVE  ControlInv'
<1>1. \A s \in Sessions : pc[s] \notin Holding
    BY NoOtherHolder DEF ControlInv
<1>2. \A r1 \in Reconcilers : job'[r1].at = Nobody /\ job'[r1].todo \subseteq job[r1].todo
    BY NoOtherHolder DEF ControlInv, ReconcileNext, TypeOK, IdleJob
<1>3. \A s \in Sessions : SessionInv(s)'
    BY <1>1 DEF ControlInv, SessionInv, SessionStage, BuiltStillAdmissible,
                UnplannedNotAvailable, Holding
<1>4. LockHeld' /\ JobsHaveBatches' /\ ReadStillTrue'
    BY <1>1, <1>2, ActorAssumption DEF ControlInv, LockHeld, JobsHaveBatches, ReadStillTrue
<1> QED
    BY <1>3, <1>4 DEF ControlInv

\* A step outside the lock that leaves batches, refs and Versions alone.
LEMMA ControlFrame ==
    ASSUME TypeOK, ControlInv, LockHeld',
           UNCHANGED <<refs, versions, batch, plan, push, pc, job>>
    PROVE  ControlInv'
<1>1. \A s \in Sessions : SessionInv(s)'
    BY DEF ControlInv, SessionInv, SessionStage, BuiltStillAdmissible,
           UnplannedNotAvailable, Available, Unresolved, PushTags
<1>2. JobsHaveBatches' /\ ReadStillTrue'
    BY DEF ControlInv, JobsHaveBatches, ReadStillTrue, Moves
<1> QED
    BY <1>1, <1>2 DEF ControlInv

-----------------------------------------------------------------------------
(* The inductive invariant: one lemma for each group of actions.           *)

LEMMA AdvertiseInv ==
    ASSUME TypeOK, DataInv, ControlInv, NEW s \in Sessions, Advertise(s)
    PROVE  DataInv' /\ ControlInv'
<1> USE DEF Advertise, Goto, gitVars, versionVars, servingVars
<1>1. batch[s] = "none" /\ plan[s].tags = {}
    BY DEF ControlInv, SessionInv, SessionStage
<1>2. /\ pc'[s] = "advertised"
      /\ \A s1 \in Sessions \ {s} : pc'[s1] = pc[s1] /\ push'[s1] = push[s1]
    BY DEF TypeOK
<1>3. DataInv'
    BY <1>1, <1>2, PlanKeepsData
<1>4. \A s1 \in Sessions : SessionInv(s1)'
  <2>1. SessionInv(s)'
      BY <1>1, <1>2 DEF SessionInv, SessionStage, BuiltStillAdmissible, UnplannedNotAvailable
  <2>2. \A s1 \in Sessions \ {s} : SessionInv(s1)'
      BY <1>2 DEF ControlInv, SessionInv, SessionStage, BuiltStillAdmissible,
                  UnplannedNotAvailable, Available, Unresolved, PushTags
  <2> QED
      BY <2>1, <2>2
<1>5. LockHeld' /\ JobsHaveBatches'
    BY <1>2 DEF ControlInv, LockHeld, JobsHaveBatches, Holding
<1>6. ReadStillTrue'
  <2> SUFFICES ASSUME NEW r \in Reconcilers, job[r].at # Nobody, batch[job[r].at] = "prepared"
               PROVE  /\ push'[job[r].at] = push[job[r].at]
                      /\ job[r].at \in Sessions
      BY DEF ControlInv, ReadStillTrue, Moves
  <2> QED
      BY <1>1, <1>2 DEF TypeOK, Jobs
<1> QED
    BY <1>3, <1>4, <1>5, <1>6 DEF ControlInv

LEMMA OpenInv ==
    ASSUME TypeOK, DataInv, ControlInv, NEW s \in Sessions, Open(s)
    PROVE  DataInv' /\ ControlInv'
<1> USE DEF Open, Goto, gitVars, versionVars, servingVars
<1>1. DataInv'
    BY DataFrame
<1>2. /\ \A s1 \in Sessions : pc[s1] \notin Holding
      /\ \A r \in Reconcilers : job[r].at = Nobody
    BY NoHolder DEF ControlInv
<1>3. /\ pc'[s] \in {"done", "opened"}
      /\ pc'[s] = "opened" => lock' = s
      /\ \A s1 \in Sessions \ {s} : pc'[s1] = pc[s1]
    BY DEF TypeOK
<1>4. batch[s] = "none" /\ plan[s].tags = {}
    BY DEF ControlInv, SessionInv, SessionStage
<1>5. \A s1 \in Sessions : SessionInv(s1)'
  <2>1. SessionInv(s)'
      BY <1>3, <1>4 DEF SessionInv, SessionStage, BuiltStillAdmissible, UnplannedNotAvailable
  <2>2. \A s1 \in Sessions \ {s} : SessionInv(s1)'
      BY <1>2, <1>3, Outside DEF ControlInv
  <2> QED
      BY <2>1, <2>2
<1>6. LockHeld' /\ JobsHaveBatches' /\ ReadStillTrue'
    BY <1>2, <1>3 DEF ControlInv, LockHeld, JobsHaveBatches, ReadStillTrue, Holding
<1> QED
    BY <1>1, <1>5, <1>6 DEF ControlInv

LEMMA PrepareInv ==
    ASSUME TypeOK, DataInv, ControlInv, NEW s \in Sessions, Prepare(s)
    PROVE  DataInv' /\ ControlInv'
<1> USE DEF Goto, Close, gitVars, versionVars, servingVars
<1>1. SessionInv(s)
    BY DEF ControlInv
<1>2. CASE AdmitUnplanned(s)
  <2> USE <1>2 DEF AdmitUnplanned
  <2>1. DataInv'
      BY DataFrame
  <2>2. batch[s] = "none" /\ plan[s].tags = {} /\ pc'[s] = "admitted"
      BY <1>1 DEF SessionInv, SessionStage, TypeOK
  <2>3. SessionInv(s)'
      BY <2>2 DEF SessionInv, SessionStage, BuiltStillAdmissible, UnplannedNotAvailable,
                  PlannedTags, PushTags, Available
  <2> QED
      BY <2>1, <2>3, HolderStep DEF Holding
<1>3. CASE BuildPlan(s)
  <2> USE <1>3 DEF BuildPlan
  <2>1. batch[s] = "none" /\ pc'[s] = "built"
      BY <1>1 DEF SessionInv, SessionStage, TypeOK
  <2>2. \A s1 \in Sessions \ {s} : plan'[s1] = plan[s1]
      BY DEF TypeOK
  <2>3. DataInv'
      BY <2>1, <2>2, PlanKeepsData
  <2>4. plan'[s].tags = PlannedTags(s)
      BY DEF TypeOK
  <2>5. \A t \in Tags : Unresolved(t)' => Unresolved(t)
      BY <2>1, <2>2 DEF Unresolved, UnresolvedStates
  <2>6. BuiltStillAdmissible(s)'
      BY <2>4, <2>5 DEF BuiltStillAdmissible, Admissible, NoOtherReceive, PlannedTags,
                        PushTags, Available
  <2>7. UnplannedNotAvailable(s)' /\ SessionStage(s)'
      BY <2>1, <2>4 DEF UnplannedNotAvailable, SessionStage, PlannedTags, PushTags, Available
  <2> QED
      BY <2>2, <2>3, <2>6, <2>7, HolderStep DEF Holding, SessionInv
<1>4. CASE RejectPrepare(s)
  <2> USE <1>4 DEF RejectPrepare
  <2>1. batch[s] = "none" /\ pc'[s] = "done"
      BY <1>1 DEF SessionInv, SessionStage, TypeOK
  <2>2. \A s1 \in Sessions \ {s} : plan'[s1] = plan[s1]
      BY DEF TypeOK
  <2>3. DataInv'
      BY <2>1, <2>2, PlanKeepsData
  <2>4. SessionInv(s)'
      BY <2>1 DEF SessionInv, SessionStage, BuiltStillAdmissible, UnplannedNotAvailable
  <2> QED
      BY <2>2, <2>3, <2>4, HolderStep DEF Holding
<1>5. CASE PersistPrepared(s) \/ PersistThenReject(s)
  <2> USE <1>5 DEF PersistPrepared, PersistThenReject
  <2>1. batch[s] = "none"
      BY <1>1 DEF SessionInv, SessionStage
  <2>2. PrepareTransaction(s) /\ UNCHANGED <<refs, versions, plan, push, job>>
      OBVIOUS
  <2>3. DataInv'
      BY <1>1, <2>1, <2>2, PrepareKeepsData DEF SessionInv, BuiltStillAdmissible
  <2>4. \A s1 \in Sessions : batch'[s1] = IF s1 = s THEN "prepared" ELSE batch[s1]
      BY <2>2 DEF PrepareTransaction, TypeOK
  <2>5. PICK next \in {"prepared", "done"} : Goto(s, next) /\ (next = "prepared" => lock' = lock)
      OBVIOUS
  <2>6. pc'[s] = next
      BY <2>5 DEF TypeOK
  <2>7. SessionInv(s)'
      BY <1>1, <2>2, <2>4, <2>6 DEF SessionInv, SessionStage, BuiltStillAdmissible,
                                    UnplannedNotAvailable, PushTags, Available
  <2> QED
      BY <2>2, <2>3, <2>4, <2>5, <2>7, HolderStep DEF Holding
<1> QED
    BY <1>2, <1>3, <1>4, <1>5 DEF Prepare

LEMMA CommitRefsInv ==
    ASSUME TypeOK, DataInv, ControlInv, NEW s \in Sessions, CommitRefs(s)
    PROVE  DataInv' /\ ControlInv'
<1> USE DEF CommitRefs, UpdateRefs, UpdateRefsFails, UpdateRefsKilled,
            gitVars, versionVars, servingVars
<1>1. /\ pc[s] \in {"admitted", "prepared"} /\ Goto(s, "updated")
      /\ UNCHANGED <<versions, pointers, batch, plan, push, lock, job>>
    OBVIOUS
<1>2. SessionInv(s)
    BY DEF ControlInv
<1>3. DataInv'
  <2>1. CASE UpdateRefsFails(s)
      BY <2>1, DataFrame
  <2>2. CASE UpdateRefs(s) \/ UpdateRefsKilled(s)
    <3>1. PICK moved \in SUBSET PushTags(s) : refs' = MovedRefs(s, moved)
        BY <2>2
    <3>2. plan[s].tags = {} \/ batch[s] = "prepared"
        BY <1>1, <1>2 DEF SessionInv, SessionStage
    <3>3. \A t \in PushTags(s) \ plan[s].tags : ~Available(t)
        BY <1>1, <1>2 DEF SessionInv, UnplannedNotAvailable
    <3> QED
        BY <1>1, <3>1, <3>2, <3>3, MoveKeepsData
  <2> QED
      BY <2>1, <2>2
<1>4. SessionInv(s)'
    BY <1>1 DEF Goto, TypeOK, SessionInv, SessionStage, BuiltStillAdmissible,
                UnplannedNotAvailable
<1> QED
    BY <1>1, <1>3, <1>4, HolderStep DEF Holding

\* A resolving transaction leaves rows and refs in agreement when the refs say
\* what its disposition says of them; a deletion need not be believed.
LEMMA ApplyKeepsData ==
    ASSUME TypeOK, DataInv, NEW s \in Sessions, NEW d, Apply(s, d),
           \A t \in plan[s].tags :
             /\ d = "completed" /\ Moves(s, t) => refs[t] = push[s].new[t]
             /\ d = "aborted" => refs[t] = push[s].old[t],
           UNCHANGED <<refs, plan, push>>
    PROVE  DataInv'
<1>1. CASE d = "completed" /\ Complete(s)
    BY <1>1, CompleteKeepsData
<1>2. CASE d = "aborted" /\ Abort(s)
    BY <1>2, AbortKeepsData
<1> QED
    BY <1>1, <1>2 DEF Apply

LEMMA ApplyBatch ==
    ASSUME TypeOK, NEW s \in Sessions, NEW d, Apply(s, d)
    PROVE  /\ batch[s] = "prepared"
           /\ batch' \in [Sessions -> BatchStates]
           /\ batch'[s] # "none"
           /\ \A s1 \in Sessions \ {s} : batch'[s1] = batch[s1]
BY ApplyType DEF Apply, Complete, Abort, TypeOK

LEMMA FailBatchOf ==
    ASSUME TypeOK, NEW s \in Sessions, FailBatch(s)
    PROVE  /\ batch'[s] # "none"
           /\ \A s1 \in Sessions \ {s} : batch'[s1] = batch[s1]
BY DEF FailBatch, TypeOK

LEMMA FinalizeInv ==
    ASSUME TypeOK, DataInv, ControlInv, NEW s \in Sessions, Finalize(s)
    PROVE  DataInv' /\ ControlInv'
<1> USE DEF Close, gitVars, versionVars, servingVars
<1>1. SessionInv(s)
    BY DEF ControlInv
<1>2. CASE FinalizeResolved(s)
  <2> USE <1>2 DEF FinalizeResolved
  <2>1. DataInv'
      BY DataFrame
  <2>2. SessionInv(s)'
      BY DEF Goto, TypeOK, SessionInv, SessionStage, BuiltStillAdmissible, UnplannedNotAvailable
  <2> QED
      BY <2>1, <2>2, HolderStep DEF Holding
<1>3. CASE ResolveManual(s) \/ MarkManual(s)
  <2> USE <1>3 DEF ResolveManual, MarkManual
  <2>1. batch[s] # "none" /\ pc[s] \in Holding
      BY <1>1 DEF SessionInv, SessionStage, Holding
  <2>2. /\ FailBatch(s) /\ ClosePointers(s) /\ Goto(s, "done")
        /\ UNCHANGED <<refs, versions, plan, push, job>>
      OBVIOUS
  <2>3. DataInv'
      BY <2>1, <2>2, ManualKeepsData
  <2>4. SessionInv(s)'
      BY <2>2 DEF Goto, TypeOK, SessionInv, SessionStage, BuiltStillAdmissible,
                  UnplannedNotAvailable
  <2> QED
      BY <2>1, <2>2, <2>3, <2>4, FailBatchOf, HolderStep DEF Holding
<1>4. CASE ResolveApply(s) \/ ResolveAckLost(s)
  <2> USE <1>4 DEF ResolveApply, ResolveAckLost
  <2>1. PICK d \in Observed(s) : Apply(s, d)
      OBVIOUS
  <2>2. PICK next \in {"done", "failing"} : Goto(s, next) /\ (next = "failing" => lock' = lock)
      OBVIOUS
  <2>3. pc[s] = "updated" /\ UNCHANGED <<refs, plan, push, job>>
      OBVIOUS
  <2>4. \A t \in plan[s].tags :
          /\ d = "completed" /\ Moves(s, t) => refs[t] = push[s].new[t]
          /\ d = "aborted" => refs[t] = push[s].old[t]
      BY <2>1, ApplyBatch, PreparedOldExists, TrueReads
  <2>5. DataInv'
      BY <2>1, <2>3, <2>4, ApplyKeepsData
  <2>6. batch'[s] # "none" /\ \A s1 \in Sessions \ {s} : batch'[s1] = batch[s1]
      BY <2>1, ApplyBatch
  <2>7. SessionInv(s)'
      BY <2>2, <2>6 DEF Goto, TypeOK, SessionInv, SessionStage, BuiltStillAdmissible,
                        UnplannedNotAvailable
  <2> QED
      BY <2>2, <2>3, <2>5, <2>6, <2>7, HolderStep DEF Holding
<1>5. CASE ResolveVerifyFails(s) \/ ResolveApplyFails(s)
  <2> USE <1>5 DEF ResolveVerifyFails, ResolveApplyFails
  <2>1. DataInv'
      BY DataFrame
  <2>2. SessionInv(s)'
      BY DEF Goto, TypeOK, SessionInv, SessionStage, BuiltStillAdmissible, UnplannedNotAvailable
  <2> QED
      BY <2>1, <2>2, HolderStep DEF Holding
<1> QED
    BY <1>2, <1>3, <1>4, <1>5 DEF Finalize

LEMMA DieInv ==
    ASSUME TypeOK, DataInv, ControlInv, NEW s \in Sessions, Die(s)
    PROVE  DataInv' /\ ControlInv'
<1> USE DEF Die, Goto, gitVars, versionVars, servingVars
<1>1. DataInv'
    BY DataFrame
<1>2. SessionInv(s)'
    BY DEF TypeOK, SessionInv, SessionStage, BuiltStillAdmissible, UnplannedNotAvailable
<1>3. CASE pc[s] \in Holding
    BY <1>1, <1>2, <1>3, HolderStep DEF Holding
<1>4. CASE pc[s] \notin Holding
  <2>1. \A s1 \in Sessions : SessionInv(s1)'
      BY <1>2 DEF TypeOK, ControlInv, SessionInv, SessionStage, BuiltStillAdmissible,
                  UnplannedNotAvailable, Available, Unresolved, PushTags
  <2>2. LockHeld'
      BY <1>4, ActorAssumption DEF TypeOK, ControlInv, LockHeld, Holding
  <2>3. JobsHaveBatches' /\ ReadStillTrue'
      BY DEF ControlInv, JobsHaveBatches, ReadStillTrue, Moves
  <2> QED
      BY <1>1, <2>1, <2>2, <2>3 DEF ControlInv
<1> QED
    BY <1>3, <1>4

LEMMA ReconcileInv ==
    ASSUME TypeOK, DataInv, ControlInv, NEW r \in Reconcilers, Reconcile(r)
    PROVE  DataInv' /\ ControlInv'
<1> USE DEF gitVars, versionVars, servingVars, sessionVars
<1>1. job[r].at # Nobody => job[r].at \in Sessions /\ batch[job[r].at] # "none"
    BY DEF TypeOK, Jobs, ControlInv, JobsHaveBatches
<1>2. CASE ReconcileList(r)
  <2> USE <1>2 DEF ReconcileList
  <2>1. DataInv'
      BY DataFrame
  <2>2. /\ \A r1 \in Reconcilers : job'[r1].at = job[r1].at /\ job'[r1].disposition = job[r1].disposition
        /\ \A r1 \in Reconcilers \ {r} : job'[r1].todo = job[r1].todo
        /\ job'[r].todo = {s \in Sessions : batch[s] = "prepared"}
      BY DEF TypeOK, Jobs
  <2>3. \A s \in Sessions : SessionInv(s)'
      BY DEF ControlInv, SessionInv, SessionStage, BuiltStillAdmissible,
             UnplannedNotAvailable, Available, Unresolved, PushTags
  <2>4. LockHeld' /\ JobsHaveBatches' /\ ReadStillTrue'
      BY <2>2 DEF ControlInv, LockHeld, JobsHaveBatches, ReadStillTrue, Moves
  <2> QED
      BY <2>1, <2>3, <2>4 DEF ControlInv
<1>3. ASSUME NEW s \in Sessions, ReconcileObserve(r, s) PROVE DataInv' /\ ControlInv'
  <2> USE <1>3 DEF ReconcileObserve
  <2>1. DataInv'
      BY DataFrame
  <2>2. /\ \A s1 \in Sessions : pc[s1] \notin Holding
        /\ \A r1 \in Reconcilers : job[r1].at = Nobody
      BY NoHolder DEF ControlInv
  <2>3. PICK d : /\ d \in Observed(s) \/ d = "manual_required"
                 /\ job' = [job EXCEPT ![r].at = s, ![r].disposition = d]
      OBVIOUS
  <2>4. /\ \A r1 \in Reconcilers \ {r} : job'[r1] = job[r1]
        /\ job'[r].at = s /\ job'[r].disposition = d /\ job'[r].todo = job[r].todo
      BY <2>3 DEF TypeOK, Jobs
  <2>5. \A s1 \in Sessions : SessionInv(s1)'
      BY <2>2, Outside DEF ControlInv
  <2> HIDE <1>3
  <2>6. LockHeld' /\ JobsHaveBatches'
    <3>1. /\ lock' = r /\ s \in job[r].todo /\ s # Nobody
          /\ UNCHANGED <<pc, batch>>
        BY <1>3, ActorAssumption
    <3>2. LockHeld'
        BY <2>2, <2>4, <3>1 DEF LockHeld
    <3>3. \A s1 \in Sessions : s1 \in job[r].todo => batch[s1] # "none"
        BY DEF ControlInv, JobsHaveBatches
    <3>4. JobsHaveBatches'
        BY <2>4, <3>1, <3>3 DEF ControlInv, JobsHaveBatches
    <3> QED
        BY <3>2, <3>4
  <2>7. ReadStillTrue'
    <3>1. ASSUME batch[s] = "prepared"
          PROVE  \A t \in plan[s].tags :
                   /\ d = "completed" /\ (Moves(s, t) \/ ~RefReadMayFail) => refs[t] = push[s].new[t]
                   /\ d = "aborted" => refs[t] = push[s].old[t]
        BY <2>3, <3>1, PreparedOldExists, TrueReads
    <3>2. UNCHANGED <<refs, batch, plan, push>>
        BY <1>3
    <3>3. \A r1 \in Reconcilers : job'[r1].at # Nobody => r1 = r
        BY <2>2, <2>4
    <3> QED
        BY <2>4, <3>1, <3>2, <3>3 DEF ReadStillTrue, Moves
  <2> QED
      BY <2>1, <2>5, <2>6, <2>7 DEF ControlInv
<1>4. CASE ReconcileApply(r)
  <2> DEFINE s == job[r].at
             d == job[r].disposition
  <2> USE <1>4 DEF ReconcileApply
  <2>1. s \in Sessions /\ Apply(s, d)
      BY <1>1
  <2>2. \A t \in plan[s].tags :
          /\ d = "completed" /\ Moves(s, t) => refs[t] = push[s].new[t]
          /\ d = "aborted" => refs[t] = push[s].old[t]
      BY <2>1, ApplyBatch DEF ControlInv, ReadStillTrue
  <2>3. UNCHANGED <<refs, plan, push>>
      OBVIOUS
  <2>4. DataInv'
      BY ONLY TypeOK, DataInv, <2>1, <2>2, <2>3, ApplyKeepsData
  <2>5. \A s1 \in Sessions : batch[s1] = "none" <=> batch'[s1] = "none"
      BY ONLY TypeOK, <2>1, ApplyBatch
  <2> QED
      BY <2>4, <2>5, ReconcilerStep
<1>5. CASE ReconcileSkip(r)
    BY <1>5, DataFrame, ReconcilerStep DEF ReconcileSkip
<1>6. CASE ReconcileManual(r)
  <2> USE <1>6 DEF ReconcileManual
  <2> DEFINE s == job[r].at
  <2>1. /\ s \in Sessions /\ batch[s] # "none" /\ FailBatch(s)
        /\ ClosePointers(s) \/ UNCHANGED pointers
        /\ UNCHANGED <<refs, versions, plan, push>>
      BY <1>1
  <2>2. DataInv'
      BY ONLY TypeOK, DataInv, <2>1, ManualKeepsData
  <2>3. \A s1 \in Sessions : batch[s1] = "none" <=> batch'[s1] = "none"
      BY ONLY TypeOK, <2>1, FailBatchOf
  <2> QED
      BY <2>2, <2>3, ReconcilerStep
<1>7. CASE ReconcileFails(r)
  <2> USE <1>7 DEF ReconcileFails
  <2>1. DataInv'
      BY DataFrame
  <2>2. /\ \A r1 \in Reconcilers \ {r} : job'[r1] = job[r1]
        /\ job'[r].at = Nobody /\ job'[r].todo = {}
      BY DEF TypeOK, IdleJob
  <2>3. \A s \in Sessions : SessionInv(s)'
      BY DEF ControlInv, SessionInv, SessionStage, BuiltStillAdmissible,
             UnplannedNotAvailable, Available, Unresolved, PushTags
  <2>4. LockHeld'
      BY <2>2, ActorAssumption DEF ControlInv, LockHeld
  <2>5. JobsHaveBatches' /\ ReadStillTrue'
      BY <2>2, ActorAssumption DEF ControlInv, JobsHaveBatches, ReadStillTrue, Moves
  <2> QED
      BY <2>1, <2>3, <2>4, <2>5 DEF ControlInv
<1> QED
    BY <1>2, <1>3, <1>4, <1>5, <1>6, <1>7 DEF Reconcile

LEMMA ManageInv ==
    ASSUME TypeOK, DataInv, ControlInv, Manage
    PROVE  DataInv' /\ ControlInv'
<1> USE DEF gitVars, servingVars, sessionVars
<1>1. ASSUME NEW t \in Tags, NEW makeDefault \in BOOLEAN, PublishVersion(t, makeDefault)
      PROVE  DataInv' /\ ControlInv'
  <2> USE <1>1 DEF PublishVersion
  <2>1. DataInv'
      BY PublishKeepsData
  <2>2. /\ \A s \in Sessions : pc[s] \notin Holding
        /\ \A r \in Reconcilers : job[r].at = Nobody
      BY NoHolder DEF ControlInv
  <2>3. \A s \in Sessions : SessionInv(s)'
      BY <2>2, Outside DEF ControlInv
  <2>4. LockHeld' /\ JobsHaveBatches' /\ ReadStillTrue'
      BY <2>2 DEF ControlInv, LockHeld, JobsHaveBatches, ReadStillTrue
  <2> QED
      BY <2>1, <2>3, <2>4 DEF ControlInv
<1>2. CASE (\E t \in Tags : SetDefaultVersion(t)) \/ ClearDefaultVersion \/ Archive \/ Restore
  <2>1. /\ UNCHANGED <<refs, versions, pointers, batch, plan, push, pc, job, lock>>
      BY <1>2 DEF SetDefaultVersion, ClearDefaultVersion, Archive, Restore
  <2>2. LockHeld'
      BY <2>1 DEF ControlInv, LockHeld
  <2> QED
      BY <2>1, <2>2, DataFrame, ControlFrame
<1> QED
    BY <1>1, <1>2 DEF Manage

LEMMA StutterInv ==
    ASSUME TypeOK, DataInv, ControlInv, UNCHANGED vars
    PROVE  DataInv' /\ ControlInv'
<1> USE DEF vars, gitVars, versionVars, servingVars, sessionVars
<1>1. DataInv'
    BY DataFrame
<1>2. LockHeld'
    BY DEF ControlInv, LockHeld
<1> QED
    BY <1>1, <1>2, ControlFrame

-----------------------------------------------------------------------------
(* Theorems.                                                               *)

LEMMA NextInv ==
    ASSUME TypeOK, DataInv, ControlInv, [Next]_vars
    PROVE  DataInv' /\ ControlInv'
BY AdvertiseInv, OpenInv, PrepareInv, CommitRefsInv, FinalizeInv, DieInv,
   ReconcileInv, ManageInv, StutterInv DEF Next

\* IInv is an invariant: whatever sessions, reconcilers and managers interleave,
\* wherever they die, the rows of an unresolved batch stay as it needs them and
\* the holder of the effect lock may rely on what it read under it.
THEOREM Invariance == Spec => []IInv
<1>1. Init => IInv
    BY InitType, InitInv DEF IInv
<1>2. TypeOK /\ [Next]_vars => TypeOK'
    BY PrepareType, ResolveType, ReconcileType, ManageType, StutterType DEF Next
<1>3. IInv /\ [Next]_vars => IInv'
    BY <1>2, NextInv DEF IInv
<1> QED
    BY <1>1, <1>3, PTL DEF Spec

\* A Version whose receives are resolved names the object of its Git ref, for
\* any number of tags, pushes and reconcilers, failed ref reads included.
THEOREM AgreementCorrect == Spec => []RefVersionAgreement
<1>1. IInv => RefVersionAgreement
    BY DEF IInv, DataInv
<1> QED
    BY <1>1, Invariance, PTL

\* The compare-and-sets of a prepared batch match until the batch is resolved.
THEOREM ResolvableCorrect == Spec => []PreparedCanResolve
<1>1. IInv => PreparedCanResolve
    BY DEF IInv, DataInv
<1> QED
    BY <1>1, Invariance, PTL

\* The pointers of an unresolved batch serve nothing.
THEOREM FailClosedCorrect == Spec => []PointerFailClosed
<1>1. IInv => PointerFailClosed
    BY DEF IInv, DataInv
<1> QED
    BY <1>1, Invariance, PTL

\* No two batches of one tag are unresolved at once.
THEOREM OneUnresolvedCorrect == Spec => []OneUnresolvedPerTag
<1>1. IInv => OneUnresolvedPerTag
    BY DEF IInv, DataInv
<1> QED
    BY <1>1, Invariance, PTL

\* What a step does to one batch.
LEMMA BatchSteps ==
    ASSUME TypeOK, ControlInv, [Next]_vars, NEW s \in Sessions, batch'[s] # batch[s]
    PROVE  \/ batch[s] = "none"
           \/ batch[s] = "prepared" /\ batch'[s] = "manual_required"
           \/ \E d \in Dispositions :
                /\ Apply(s, d)
                /\ \/ d \in Observed(s)
                   \/ \E r \in Reconcilers : job[r].at = s /\ job[r].disposition = d
<1>1. ASSUME NEW s1 \in Sessions, Advertise(s1) \/ Open(s1) \/ CommitRefs(s1) \/ Die(s1)
      PROVE  FALSE
    BY <1>1 DEF Advertise, Open, CommitRefs, UpdateRefs, UpdateRefsFails, UpdateRefsKilled, Die
<1>2. ASSUME NEW s1 \in Sessions, FailBatch(s1)
      PROVE  \/ batch[s] = "none"
             \/ batch[s] = "prepared" /\ batch'[s] = "manual_required"
    BY <1>2 DEF FailBatch, TypeOK, BatchStates
<1>3. ASSUME NEW s1 \in Sessions, NEW d, Apply(s1, d) PROVE s = s1 /\ d \in Dispositions
    BY <1>3, ApplyBatch DEF Apply, Dispositions
<1>4. ASSUME NEW s1 \in Sessions, Prepare(s1) PROVE batch[s] = "none"
  <2>1. pc[s1] = "built" /\ PrepareTransaction(s1)
      BY <1>4 DEF Prepare, AdmitUnplanned, BuildPlan, RejectPrepare, PersistPrepared,
                  PersistThenReject
  <2> QED
      BY <2>1 DEF PrepareTransaction, TypeOK, ControlInv, SessionInv, SessionStage
<1>5. ASSUME NEW s1 \in Sessions, Finalize(s1)
      PROVE  FailBatch(s1) \/ \E d \in Observed(s1) : Apply(s1, d)
    BY <1>5 DEF Finalize, FinalizeResolved, ResolveManual, ResolveApply, ResolveVerifyFails,
                ResolveApplyFails, ResolveAckLost, MarkManual
<1>6. ASSUME NEW r \in Reconcilers, Reconcile(r)
      PROVE  /\ job[r].at \in Sessions
             /\ FailBatch(job[r].at) \/ Apply(job[r].at, job[r].disposition)
    BY <1>6 DEF Reconcile, ReconcileList, ReconcileObserve, ReconcileApply, ReconcileSkip,
                ReconcileManual, ReconcileFails, TypeOK, Jobs
<1>7. ASSUME Manage PROVE FALSE
    BY <1>7 DEF Manage, PublishVersion, SetDefaultVersion, ClearDefaultVersion, Archive, Restore
<1>8. ~UNCHANGED vars
    BY DEF vars
<1> QED
    BY <1>1, <1>2, <1>3, <1>4, <1>5, <1>6, <1>7, <1>8 DEF Next

\* A resolved batch keeps its outcome: no retry, second reconciler or late
\* session ever resolves it another way.
THEOREM OutcomeFinalCorrect == Spec => OutcomeIsFinal
<1>1. IInv /\ [Next]_vars =>
        [\A s \in Sessions : batch[s] \in {"completed", "aborted", "manual_required"}
                                => batch'[s] = batch[s]]_vars
    BY BatchSteps, ApplyBatch DEF IInv
<1> QED
    BY <1>1, Invariance, PTL DEF Spec, OutcomeIsFinal

\* When rev-parse fails only on refs that do not exist, the outcome of a batch
\* is what every ref of it says when the outcome is written.
THEOREM OutcomeCorrect == ~RefReadMayFail => (Spec => OutcomeMatchesRefs)
<1> SUFFICES ASSUME ~RefReadMayFail PROVE Spec => OutcomeMatchesRefs
    OBVIOUS
<1>1. ASSUME IInv, [Next]_vars, NEW s \in Sessions, batch[s] = "prepared",
             batch'[s] \in {"completed", "aborted"}
      PROVE  /\ batch'[s] = "completed" => \A t \in plan[s].tags : refs[t] = push[s].new[t]
             /\ batch'[s] = "aborted" => \A t \in plan[s].tags : refs[t] = push[s].old[t]
  <2>1. PICK d \in Dispositions :
          /\ Apply(s, d)
          /\ d \in Observed(s) \/ \E r \in Reconcilers : job[r].at = s /\ job[r].disposition = d
      BY <1>1, BatchSteps DEF IInv
  <2>2. batch'[s] = d
      BY <2>1, <1>1 DEF Apply, Complete, Abort, IInv, TypeOK
  <2>3. CASE d \in Observed(s)
      BY <1>1, <2>2, <2>3, PreparedOldExists, TrueReads DEF IInv
  <2>4. CASE \E r \in Reconcilers : job[r].at = s /\ job[r].disposition = d
      BY <1>1, <2>2, <2>4, ActorAssumption DEF IInv, ControlInv, ReadStillTrue
  <2> QED
      BY <2>1, <2>3, <2>4
<1>2. IInv /\ [Next]_vars =>
        [\A s \in Sessions : batch[s] = "prepared" =>
           /\ batch'[s] = "completed" => \A t \in plan[s].tags : refs[t] = push[s].new[t]
           /\ batch'[s] = "aborted" => \A t \in plan[s].tags : refs[t] = push[s].old[t]]_vars
    BY <1>1
<1> QED
    BY <1>2, Invariance, PTL DEF Spec, OutcomeMatchesRefs

-----------------------------------------------------------------------------
(* The second inductive invariant: what pointers serve and what the rows   *)
(* say of each other.  It holds with every fault the constants allow, but  *)
(* for the two parts that need every COMMIT to be answered.                *)

\* The artifact of a pointer was built for it, at publication or by a session
\* whose batch completed.
ArtifactsOwned ==
    \A p \in Pointers : pointers[p].artifact # NoArtifact =>
        \/ pointers[p].artifact = <<Seed, p>>
        \/ \E s \in Sessions : batch[s] = "completed" /\ pointers[p].artifact = <<s, p>>

Current(p) ==
    LET a == pointers[p].artifact
        v == versions[TagOf[p]] IN
    /\ a \in disk
    /\ artifacts[a].state = "ready"
    /\ v.status = "available"
    /\ artifacts[a].commit = Peel(v.raw)

\* A closed pointer keeps an artifact it could serve again: an abort reopens it.
ArtifactsCurrent ==
    \A p \in Pointers : /\ pointers[p].artifact # NoArtifact => Current(p)
                        /\ pointers[p].available => pointers[p].artifact # NoArtifact

StagedAsPushed ==
    \A s \in Sessions : batch[s] = "prepared" =>
        \A a \in Staged(s) : artifacts[a].commit = Peel(push[s].new[TagOf[a[2]]])

\* What is queued for collection belongs to a batch that is resolved, or to the
\* publication, and no pointer has it.
CollectedIsReleased ==
    \A a \in gcJobs : /\ \A p \in Pointers : pointers[p].artifact # a
                      /\ a[1] \in Sessions => batch[a[1]] \in {"completed", "aborted"}

ServedInv == /\ ArtifactsOwned
             /\ ArtifactsCurrent
             /\ StagedAsPushed
             /\ CollectedIsReleased

\* What a plan was admitted with: every pointer serves something, and nothing
\* that a live revision selects is deleted.
PlansAdmitted ==
    \A s \in Sessions :
        /\ \A p \in Covered(s) : plan[s].cur[p] # NoArtifact
        /\ \A t \in plan[s].tags : Moves(s, t) \/ \A p \in Live : TagOf[p] # t

\* A reconciler that will complete a batch has verified its projections.
VerifiedOnDisk ==
    \A r \in Reconcilers :
        job[r].at # Nobody /\ job[r].disposition = "completed" => Staged(job[r].at) \subseteq disk

\* Open refuses an archived Plugin and Archive waits for the lock.
HoldersNotArchived ==
    \A s \in Sessions : pc[s] \in Holding => plugin.status # "archived"

\* While every COMMIT is answered, a session that failed left its batch prepared.
FailingIsPrepared ==
    ~CommitAckMayBeLost => \A s \in Sessions : pc[s] = "failing" => batch[s] = "prepared"

\* The latest history row of a tag ends at the commit of its Version.
HistoryCurrent ==
    \A t \in Tags : history[t].new = IF Available(t) THEN Peel(versions[t].raw) ELSE NoCommit

AdmissionInv == /\ PlansAdmitted
                /\ VerifiedOnDisk
                /\ HoldersNotArchived
                /\ FailingIsPrepared

\* A closed pointer waits for a receive or has no artifact.
EmptyOrUnresolved ==
    \A p \in Pointers : \/ pointers[p].available
                        \/ pointers[p].artifact = NoArtifact
                        \/ Unresolved(TagOf[p])

\* A pointer lost its artifact to a completed deletion of its tag.
EmptiedByDeletion ==
    \A p \in Pointers :
        pointers[p].artifact = NoArtifact => \E s \in Sessions : Deleted(s, TagOf[p])

VersionInv == /\ HistoryCurrent
              /\ DefaultIsAvailable
              /\ LiveItemsAvailable
              /\ ~CommitAckMayBeLost => EmptyOrUnresolved

\* IInv and what is served, what was admitted, what the Versions say and what
\* emptied a pointer.
ServingInv == IInv /\ ServedInv /\ AdmissionInv /\ VersionInv /\ EmptiedByDeletion

-----------------------------------------------------------------------------
(* One lemma for each change of rows or projections.                       *)

\* No pointer has an artifact of a session whose batch has not completed.
LEMMA NotOwned ==
    ASSUME TypeOK, ArtifactsOwned, NEW s \in Sessions, batch[s] # "completed",
           NEW p \in Pointers, pointers[p].artifact # NoArtifact
    PROVE  /\ pointers[p].artifact \in Artifacts
           /\ pointers[p].artifact[1] # s
           /\ pointers[p].artifact[2] = p
           /\ pointers[p].artifact \notin Staged(s)
<1>1. PICK z \in Sessions \cup {Seed} : z # s /\ pointers[p].artifact = <<z, p>>
    BY ActorAssumption DEF ArtifactsOwned
<1> QED
    BY <1>1, StagedType DEF Artifacts

\* A session without a batch plans, builds and removes its own projections.
LEMMA PlanKeepsServed ==
    ASSUME TypeOK, ServedInv, NEW s \in Sessions, batch[s] = "none",
           \A a \in Artifacts : a[1] # s => (a \in disk' <=> a \in disk),
           \A z \in Sessions \ {s} : plan'[z] = plan[z] /\ push'[z] = push[z],
           UNCHANGED <<versions, pointers, artifacts, gcJobs, batch>>
    PROVE  ServedInv'
<1>1. ArtifactsOwned'
    BY DEF ServedInv, ArtifactsOwned
<1>2. ArtifactsCurrent'
    BY NotOwned DEF ServedInv, ArtifactsCurrent, Current
<1>3. StagedAsPushed'
  <2> SUFFICES ASSUME NEW z \in Sessions, batch[z] = "prepared"
               PROVE  \A a \in Staged(z)' : artifacts[a].commit = Peel(push'[z].new[TagOf[a[2]]])
      BY DEF StagedAsPushed, Peel
  <2>1. plan'[z] = plan[z] /\ push'[z] = push[z]
      OBVIOUS
  <2>2. Staged(z)' = Staged(z)
      BY <2>1 DEF Staged, StagedFor, Covered, Moves
  <2> QED
      BY <2>1, <2>2 DEF ServedInv, StagedAsPushed
<1>4. CollectedIsReleased'
    BY DEF ServedInv, CollectedIsReleased
<1> QED
    BY <1>1, <1>2, <1>3, <1>4 DEF ServedInv

\* Staged(s) depends on the plan and the push of s alone.
LEMMA StagedFrame ==
    ASSUME UNCHANGED <<plan, push>>
    PROVE  \A s \in Sessions : Staged(s)' = Staged(s) /\ Covered(s)' = Covered(s)
BY DEF Staged, StagedFor, Covered, Moves

\* persistPrepared stages artifacts that nothing serves yet.
LEMMA PersistKeepsServed ==
    ASSUME TypeOK, ServedInv, NEW s \in Sessions, batch[s] = "none",
           PrepareTransaction(s), disk' \in {disk, disk \ Staged(s)},
           UNCHANGED <<versions, gcJobs, plan, push>>
    PROVE  ServedInv'
<1>1. \A z \in Sessions : batch'[z] = IF z = s THEN "prepared" ELSE batch[z]
    BY DEF PrepareTransaction, TypeOK
<1>2. \A p \in Pointers : /\ pointers'[p].artifact = pointers[p].artifact
                          /\ pointers'[p].available => pointers[p].available
    BY ZenonT(60) DEF PrepareTransaction, ClosePointers, TypeOK, PointerRows
<1>3. \A a \in Artifacts \ Staged(s) : artifacts'[a] = artifacts[a]
    BY DEF PrepareTransaction
<1>4. \A a \in Staged(s) : artifacts'[a].commit = Peel(push[s].new[TagOf[a[2]]])
    BY StagedType DEF PrepareTransaction
<1>5. ArtifactsOwned'
    BY <1>1, <1>2 DEF ServedInv, ArtifactsOwned
<1>6. ArtifactsCurrent'
    BY <1>2, <1>3, NotOwned DEF ServedInv, ArtifactsCurrent, Current, Peel
<1>7. StagedAsPushed'
  <2> SUFFICES ASSUME NEW z \in Sessions, batch'[z] = "prepared", NEW a \in Staged(z)
               PROVE  artifacts'[a].commit = Peel(push[z].new[TagOf[a[2]]])
      BY StagedFrame DEF StagedAsPushed, Peel
  <2>1. CASE z = s
      BY <2>1, <1>4
  <2>2. CASE z # s
    <3>1. a \in Artifacts /\ a \notin Staged(s)
        BY <2>2, StagedType
    <3> QED
        BY <2>2, <3>1, <1>1, <1>3 DEF ServedInv, StagedAsPushed
  <2> QED
      BY <2>1, <2>2
<1>8. CollectedIsReleased'
    BY <1>1, <1>2 DEF ServedInv, CollectedIsReleased
<1> QED
    BY <1>5, <1>6, <1>7, <1>8 DEF ServedInv

\* markManual and manualBatch.
LEMMA CloseKeepsServed ==
    ASSUME TypeOK, ServedInv, NEW s \in Sessions, FailBatch(s),
           ClosePointers(s) \/ pointers' = pointers,
           UNCHANGED <<disk, versions, artifacts, gcJobs, plan, push>>
    PROVE  ServedInv'
<1>1. \A z \in Sessions : batch'[z] \in {batch[z], "manual_required"}
                          /\ (batch[z] \in {"completed", "aborted"} => batch'[z] = batch[z])
    BY DEF FailBatch, TypeOK
<1>2. \A p \in Pointers : /\ pointers'[p].artifact = pointers[p].artifact
                          /\ pointers'[p].available => pointers[p].available
    BY ZenonT(60) DEF ClosePointers, TypeOK, PointerRows
<1>3. ArtifactsOwned' /\ CollectedIsReleased'
    BY <1>1, <1>2 DEF ServedInv, ArtifactsOwned, CollectedIsReleased
<1>4. ArtifactsCurrent'
    BY <1>2 DEF ServedInv, ArtifactsCurrent, Current, Peel
<1>5. StagedAsPushed'
    BY <1>1, StagedFrame DEF ServedInv, StagedAsPushed, Peel
<1> QED
    BY <1>3, <1>4, <1>5 DEF ServedInv

\* A staged projection that does not verify is served by nobody.
LEMMA FailedKeepsServed ==
    ASSUME TypeOK, ServedInv, NEW s \in Sessions, batch[s] = "prepared",
           NEW b \in Staged(s), artifacts' = [artifacts EXCEPT ![b].state = "failed"],
           UNCHANGED <<disk, versions, pointers, gcJobs, batch, plan, push>>
    PROVE  ServedInv'
<1>1. \A a \in Artifacts : /\ artifacts'[a].commit = artifacts[a].commit
                           /\ a # b => artifacts'[a] = artifacts[a]
  <2>1. artifacts \in [Artifacts -> ArtifactRows] /\ b \in Artifacts
      BY StagedType DEF TypeOK
  <2> QED
      BY <2>1 DEF ArtifactRows
<1>2. ArtifactsOwned' /\ CollectedIsReleased'
    BY DEF ServedInv, ArtifactsOwned, CollectedIsReleased
<1>3. ArtifactsCurrent'
    BY <1>1, NotOwned DEF ServedInv, ArtifactsCurrent, Current, Peel
<1>4. StagedAsPushed'
    BY <1>1, StagedFrame, StagedType DEF ServedInv, StagedAsPushed, Peel
<1> QED
    BY <1>2, <1>3, <1>4 DEF ServedInv

\* An abort reopens pointers on artifacts that were never touched.
LEMMA AbortKeepsServed ==
    ASSUME TypeOK, ServedInv, PreparedCanResolve, NEW s \in Sessions, Abort(s),
           \A p \in Covered(s) : plan[s].cur[p] # NoArtifact,
           UNCHANGED <<disk, plan, push>>
    PROVE  ServedInv'
<1>1. \A z \in Sessions : batch'[z] = IF z = s THEN "aborted" ELSE batch[z]
    BY DEF Abort, TypeOK
<1>2. \A p \in Pointers : /\ pointers'[p].artifact = pointers[p].artifact
                          /\ pointers'[p].available => pointers[p].available \/ p \in Covered(s)
    BY ZenonT(60) DEF Abort, TypeOK, PointerRows
<1>3. \A p \in Covered(s) : pointers[p].artifact # NoArtifact
    BY DEF Abort, PointersAsPrepared
<1>4. UNCHANGED <<versions, artifacts>>
    BY DEF Abort, versionVars
<1>5. ArtifactsOwned'
    BY <1>1, <1>2 DEF ServedInv, ArtifactsOwned, Abort
<1>6. ArtifactsCurrent'
    BY <1>2, <1>3, <1>4 DEF ServedInv, ArtifactsCurrent, Current, Peel
<1>7. StagedAsPushed'
    BY <1>1, <1>4, StagedFrame DEF ServedInv, StagedAsPushed, Peel
<1>8. CollectedIsReleased'
  <2> SUFFICES ASSUME NEW a \in gcJobs'
               PROVE  /\ \A p \in Pointers : pointers[p].artifact # a
                      /\ a[1] \in Sessions => batch'[a[1]] \in {"completed", "aborted"}
      BY <1>2 DEF CollectedIsReleased
  <2>1. CASE a \in gcJobs
      BY <2>1, <1>1 DEF ServedInv, CollectedIsReleased
  <2>2. CASE a \in Staged(s)
    <3>1. batch[s] = "prepared" /\ a[1] = s /\ a # NoArtifact
        BY <2>2, StagedType, ActorAssumption DEF Abort, Artifacts
    <3> QED
        BY <2>2, <3>1, <1>1, NotOwned DEF ServedInv
  <2> QED
      BY <2>1, <2>2 DEF Abort, Abandoned
<1> QED
    BY <1>5, <1>6, <1>7, <1>8 DEF ServedInv

\* Versions, pointers and artifacts of a completed batch switch together, and
\* what they give up is what is queued for collection.
LEMMA CompleteKeepsServed ==
    ASSUME TypeOK, ServedInv, NEW s \in Sessions, Complete(s),
           Staged(s) \subseteq disk, UNCHANGED <<disk, plan, push>>
    PROVE  ServedInv'
<1>1. /\ batch[s] = "prepared"
      /\ \A z \in Sessions : batch'[z] = IF z = s THEN "completed" ELSE batch[z]
    BY DEF Complete, TypeOK
<1>2. \A p \in Pointers : pointers'[p] = IF p \in Covered(s) THEN Switched(s, p) ELSE pointers[p]
    BY DEF Complete, CompletePointers
<1>3. \A p \in Covered(s) :
        /\ Moves(s, TagOf[p]) => pointers'[p].artifact = <<s, p>>
        /\ ~Moves(s, TagOf[p]) => pointers'[p].artifact = NoArtifact /\ ~pointers'[p].available
        /\ pointers[p].artifact = plan[s].cur[p]
        /\ p \in Pointers
  <2>1. \A p \in Covered(s) : p \in Pointers /\ pointers'[p] = Switched(s, p)
      BY <1>2 DEF Covered
  <2>2. \A p \in Covered(s) : pointers[p].artifact = plan[s].cur[p]
      BY DEF Complete, PointersAsPrepared
  <2>3. \A p \in Covered(s) :
          /\ Switched(s, p).artifact = IF Moves(s, TagOf[p]) THEN <<s, p>> ELSE NoArtifact
          /\ Switched(s, p).available <=> Moves(s, TagOf[p])
      BY DEF Switched, Moves
  <2> QED
      BY <2>1, <2>2, <2>3
<1>4. \A a \in Artifacts \ Staged(s) : artifacts'[a] = artifacts[a]
    BY DEF Complete, CompletePointers
<1>5. \A a \in Staged(s) : /\ artifacts'[a].state = "ready"
                           /\ artifacts'[a].commit = artifacts[a].commit
  <2>1. \A a \in Staged(s) : artifacts'[a] = [artifacts[a] EXCEPT !.state = "ready"]
      BY StagedType DEF Complete, CompletePointers
  <2>2. \A a \in Staged(s) : artifacts[a] \in ArtifactRows
      BY StagedType DEF TypeOK
  <2> QED
      BY <2>1, <2>2 DEF ArtifactRows
<1>6. \A z \in Sessions \ {s} : Staged(z) \cap Staged(s) = {} /\ Staged(z) \subseteq Artifacts
    BY StagedType
<1>7. \A t \in Tags :
        /\ t \notin plan[s].tags => versions'[t] = versions[t]
        /\ t \in plan[s].tags /\ Moves(s, t) =>
             versions'[t].status = "available" /\ versions'[t].raw = push[s].new[t]
    BY DEF Complete, CompleteVersions
<1>8. ArtifactsOwned'
  <2> SUFFICES ASSUME NEW p \in Pointers, pointers'[p].artifact # NoArtifact
               PROVE  \/ pointers'[p].artifact = <<Seed, p>>
                      \/ \E z \in Sessions : batch'[z] = "completed" /\ pointers'[p].artifact = <<z, p>>
      BY DEF ArtifactsOwned
  <2>1. CASE p \in Covered(s)
      BY <2>1, <1>1, <1>3
  <2>2. CASE p \notin Covered(s)
      BY <2>2, <1>1, <1>2 DEF ServedInv, ArtifactsOwned
  <2> QED
      BY <2>1, <2>2
<1>9. ArtifactsCurrent'
  <2> SUFFICES ASSUME NEW p \in Pointers
               PROVE  /\ pointers'[p].artifact # NoArtifact => Current(p)'
                      /\ pointers'[p].available => pointers'[p].artifact # NoArtifact
      BY DEF ArtifactsCurrent
  <2>1. CASE p \in Covered(s) /\ Moves(s, TagOf[p])
    <3>1. <<s, p>> \in Staged(s) /\ <<s, p>> \in Artifacts /\ <<s, p>> # NoArtifact
        BY <2>1, ActorAssumption DEF Staged, StagedFor, Artifacts
    <3>2. artifacts[<<s, p>>].commit = Peel(push[s].new[TagOf[p]])
        BY <1>1, <3>1 DEF ServedInv, StagedAsPushed
    <3>3. TagOf[p] \in plan[s].tags /\ TagOf[p] \in Tags
        BY <2>1, TagOfType DEF Covered
    <3>4. pointers'[p].artifact = <<s, p>>
        BY <2>1, <1>3
    <3>5. /\ <<s, p>> \in disk' /\ artifacts'[<<s, p>>].state = "ready"
          /\ artifacts'[<<s, p>>].commit = Peel(push[s].new[TagOf[p]])
        BY <3>1, <3>2, <1>5
    <3>6. versions'[TagOf[p]].status = "available" /\ versions'[TagOf[p]].raw = push[s].new[TagOf[p]]
        BY <2>1, <3>3, <1>7
    <3> QED
        BY <3>1, <3>4, <3>5, <3>6 DEF Current, Peel
  <2>2. CASE p \in Covered(s) /\ ~Moves(s, TagOf[p])
      BY <2>2, <1>3
  <2>3. CASE p \notin Covered(s)
    <3>1. pointers'[p] = pointers[p] /\ versions'[TagOf[p]] = versions[TagOf[p]]
        BY <2>3, <1>2, <1>7, TagOfType DEF Covered
    <3>2. ASSUME pointers[p].artifact # NoArtifact
          PROVE  artifacts'[pointers[p].artifact] = artifacts[pointers[p].artifact]
        BY <3>2, <1>1, <1>4, NotOwned DEF ServedInv
    <3> QED
        BY <3>1, <3>2 DEF ServedInv, ArtifactsCurrent, Current, Peel
  <2> QED
      BY <2>1, <2>2, <2>3
<1>10. StagedAsPushed'
  <2> SUFFICES ASSUME NEW z \in Sessions, batch'[z] = "prepared", NEW a \in Staged(z)
               PROVE  artifacts'[a].commit = Peel(push[z].new[TagOf[a[2]]])
      BY StagedFrame DEF StagedAsPushed, Peel
  <2> QED
      BY <1>1, <1>4, <1>6 DEF ServedInv, StagedAsPushed
<1>11. CollectedIsReleased'
  <2> SUFFICES ASSUME NEW a \in gcJobs'
               PROVE  /\ \A p \in Pointers : pointers'[p].artifact # a
                      /\ a[1] \in Sessions => batch'[a[1]] \in {"completed", "aborted"}
      BY DEF CollectedIsReleased
  <2>1. CASE a \in gcJobs
    <3>1. /\ \A p \in Pointers : pointers[p].artifact # a
          /\ a[1] \in Sessions => batch[a[1]] \in {"completed", "aborted"}
        BY <2>1 DEF ServedInv, CollectedIsReleased
    <3>2. a[1] # s /\ a # NoArtifact
        BY <1>1, <2>1, <3>1, ActorAssumption DEF TypeOK, Artifacts
    <3>3. \A p \in Pointers : pointers'[p].artifact # a
      <4> SUFFICES ASSUME NEW p \in Pointers PROVE pointers'[p].artifact # a
          OBVIOUS
      <4>1. CASE p \in Covered(s)
        <5>1. pointers'[p].artifact = <<s, p>> \/ pointers'[p].artifact = NoArtifact
            BY <4>1, <1>3
        <5> QED
            BY <5>1, <3>2
      <4>2. CASE p \notin Covered(s)
          BY <4>2, <1>2, <3>1
      <4> QED
          BY <4>1, <4>2
    <3> QED
        BY <1>1, <3>1, <3>3
  <2>2. CASE a \notin gcJobs
    <3>1. PICK q \in Covered(s) : a = plan[s].cur[q] /\ a # NoArtifact
        BY <2>2 DEF Complete, CompletePointers
    <3>2. a = pointers[q].artifact /\ q \in Pointers
        BY <3>1, <1>3
    <3>3. a \in Artifacts /\ a[1] # s /\ a[2] = q
        BY <1>1, <3>1, <3>2, NotOwned DEF ServedInv
    <3>4. a[1] \in Sessions => batch[a[1]] = "completed"
        BY <3>1, <3>2, ActorAssumption DEF ServedInv, ArtifactsOwned
    <3>5. \A p \in Pointers : pointers'[p].artifact # a
      <4> SUFFICES ASSUME NEW p \in Pointers PROVE pointers'[p].artifact # a
          OBVIOUS
      <4>1. CASE p \in Covered(s)
        <5>1. pointers'[p].artifact = <<s, p>> \/ pointers'[p].artifact = NoArtifact
            BY <4>1, <1>3
        <5> QED
            BY <5>1, <3>1, <3>3
      <4>2. CASE p \notin Covered(s)
          BY <4>2, <1>1, <1>2, <3>1, <3>3, NotOwned DEF ServedInv
      <4> QED
          BY <4>1, <4>2
    <3> QED
        BY <1>1, <3>4, <3>5
  <2> QED
      BY <2>1, <2>2
<1> QED
    BY <1>8, <1>9, <1>10, <1>11 DEF ServedInv

\* A publication rewrites no Version that a pointer serves.
LEMMA PublishKeepsServed ==
    ASSUME TypeOK, ServedInv, NEW t \in Tags, NEW makeDefault \in BOOLEAN,
           PublishVersion(t, makeDefault)
    PROVE  ServedInv'
<1>1. /\ UNCHANGED <<disk, pointers, artifacts, gcJobs, batch, plan, push>>
      /\ \A u \in Tags \ {t} : versions'[u] = versions[u]
      /\ Available(t) => versions'[t].status = "available" /\ versions'[t].raw = versions[t].raw
    BY DEF PublishVersion, gitVars, servingVars, sessionVars, TypeOK, Publishable
<1>2. \A p \in Pointers : pointers[p].artifact # NoArtifact => Available(TagOf[p])
    BY DEF ServedInv, ArtifactsCurrent, Current, Available
<1>3. ArtifactsCurrent'
    BY <1>1, <1>2, TagOfType DEF ServedInv, ArtifactsCurrent, Current, Peel
<1>4. ArtifactsOwned' /\ StagedAsPushed' /\ CollectedIsReleased'
    BY <1>1, StagedFrame DEF ServedInv, ArtifactsOwned, StagedAsPushed, CollectedIsReleased, Peel
<1> QED
    BY <1>3, <1>4 DEF ServedInv

LEMMA ServedFrame ==
    ASSUME ServedInv, UNCHANGED <<disk, versions, pointers, artifacts, gcJobs, batch, plan, push>>
    PROVE  ServedInv'
BY StagedFrame DEF ServedInv, ArtifactsOwned, ArtifactsCurrent, Current, StagedAsPushed,
                   CollectedIsReleased, Peel

-----------------------------------------------------------------------------
(* What one step does to plans, projections and rows.                      *)

Planning(s) ==
    /\ batch[s] = "none"
    /\ \A a \in Artifacts : a[1] # s => (a \in disk' <=> a \in disk)
    /\ \A z \in Sessions \ {s} : plan'[z] = plan[z] /\ push'[z] = push[z]
    /\ UNCHANGED <<versionVars, servingVars, batch>>

Persisting(s) ==
    /\ batch[s] = "none"
    /\ PrepareTransaction(s)
    /\ disk' \in {disk, disk \ Staged(s)}
    /\ UNCHANGED <<versionVars, gcJobs, plan, push>>

Closing(s) ==
    /\ FailBatch(s)
    /\ \/ pointers' = pointers
       \/ ClosePointers(s) /\ (batch[s] \in UnresolvedStates \/ CommitAckMayBeLost)
    /\ UNCHANGED <<disk, versionVars, artifacts, gcJobs, plan, push>>

Failing(s) ==
    /\ batch[s] = "prepared"
    /\ \E b \in Staged(s) : artifacts' = [artifacts EXCEPT ![b].state = "failed"]
    /\ UNCHANGED <<disk, versionVars, pointers, gcJobs, batch, plan, push>>

Completing(s) ==
    /\ Complete(s)
    /\ Staged(s) \subseteq disk
    /\ UNCHANGED <<disk, plan, push>>

Aborting(s) == Abort(s) /\ UNCHANGED <<disk, plan, push>>

RowsStay == UNCHANGED <<disk, versionVars, servingVars, batch, plan, push>>

\* The steps of sessions, before the ref transaction.
LEMMA AdmissionSteps ==
    ASSUME TypeOK, ControlInv, NEW s \in Sessions,
           Advertise(s) \/ Open(s) \/ Prepare(s) \/ CommitRefs(s) \/ Die(s)
    PROVE  Planning(s) \/ Persisting(s) \/ RowsStay
<1> USE DEF gitVars, versionVars, servingVars
<1>1. SessionStage(s)
    BY DEF ControlInv, SessionInv
<1>2. CASE Advertise(s)
    BY <1>1, <1>2 DEF Advertise, SessionStage, Planning, TypeOK
<1>3. CASE BuildPlan(s)
    BY <1>1, <1>3 DEF BuildPlan, SessionStage, Planning, TypeOK, Artifacts
<1>4. CASE RejectPrepare(s)
    BY <1>1, <1>4, StagedType DEF RejectPrepare, SessionStage, Planning, TypeOK
<1>5. CASE PersistPrepared(s) \/ PersistThenReject(s)
    BY <1>1, <1>5 DEF PersistPrepared, PersistThenReject, SessionStage, Persisting
<1>6. CASE Open(s) \/ AdmitUnplanned(s) \/ CommitRefs(s) \/ Die(s)
    BY <1>6 DEF Open, AdmitUnplanned, CommitRefs, UpdateRefs, UpdateRefsFails,
                UpdateRefsKilled, Die, RowsStay
<1> QED
    BY <1>2, <1>3, <1>4, <1>5, <1>6 DEF Prepare

LEMMA FinalizeSteps ==
    ASSUME TypeOK, ControlInv, FailingIsPrepared, NEW s \in Sessions, Finalize(s)
    PROVE  Closing(s) \/ Failing(s) \/ Completing(s) \/ Aborting(s) \/ RowsStay
<1> USE DEF gitVars, versionVars, servingVars
<1>1. CASE FinalizeResolved(s) \/ ResolveApplyFails(s)
    BY <1>1 DEF FinalizeResolved, ResolveApplyFails, RowsStay
<1>2. CASE ResolveManual(s)
    BY <1>2 DEF ResolveManual, Closing, UnresolvedStates
<1>3. CASE MarkManual(s)
    BY <1>3 DEF MarkManual, Closing, UnresolvedStates, FailingIsPrepared
<1>4. CASE ResolveApply(s) \/ ResolveAckLost(s)
  <2>1. PICK d : /\ d = "completed" => Staged(s) \subseteq disk
                 /\ Apply(s, d)
                 /\ UNCHANGED <<disk, plan, push>>
      BY <1>4 DEF ResolveApply, ResolveAckLost
  <2> QED
      BY <2>1 DEF Apply, Completing, Aborting
<1>5. CASE ResolveVerifyFails(s)
    BY <1>5 DEF ResolveVerifyFails, Failing
<1> QED
    BY <1>1, <1>2, <1>3, <1>4, <1>5 DEF Finalize

LEMMA ReconcileSteps ==
    ASSUME TypeOK, ControlInv, VerifiedOnDisk, NEW r \in Reconcilers, Reconcile(r)
    PROVE  RowsStay \/ \E s \in Sessions : Closing(s) \/ Completing(s) \/ Aborting(s)
<1> USE DEF gitVars, versionVars, servingVars, sessionVars
<1>1. job[r].at # Nobody => job[r].at \in Sessions /\ batch[job[r].at] \in BatchStates \ {"none"}
    BY DEF TypeOK, Jobs, ControlInv, JobsHaveBatches
<1>2. CASE ReconcileList(r) \/ (\E s \in Sessions : ReconcileObserve(r, s))
           \/ ReconcileSkip(r) \/ ReconcileFails(r)
    BY <1>2 DEF ReconcileList, ReconcileObserve, ReconcileSkip, ReconcileFails, RowsStay
<1>3. CASE ReconcileApply(r)
  <2>1. job[r].disposition = "completed" => Staged(job[r].at) \subseteq disk
      BY <1>3 DEF ReconcileApply, VerifiedOnDisk
  <2>2. PICK s \in Sessions : s = job[r].at
      BY <1>1, <1>3 DEF ReconcileApply
  <2>3. Apply(s, job[r].disposition) /\ UNCHANGED <<disk, plan, push>>
      BY <1>3, <2>2 DEF ReconcileApply
  <2>4. Completing(s) \/ Aborting(s)
      BY <2>1, <2>2, <2>3 DEF Apply, Completing, Aborting
  <2> QED
      BY <2>4
<1>4. CASE ReconcileManual(r)
  <2> DEFINE s == job[r].at
  <2>1. /\ s \in Sessions /\ FailBatch(s)
        /\ \/ pointers' = pointers
           \/ ClosePointers(s) /\ batch[s] \in UnresolvedStates
        /\ UNCHANGED <<disk, versionVars, artifacts, gcJobs, plan, push>>
      BY <1>1, <1>4 DEF ReconcileManual, ClosesUnresolved, UnresolvedStates, BatchStates
  <2> QED
      BY <2>1 DEF Closing
<1> QED
    BY <1>2, <1>3, <1>4 DEF Reconcile

LEMMA RowSteps ==
    ASSUME TypeOK, ControlInv, AdmissionInv, [Next]_vars
    PROVE  \/ \E s \in Sessions : \/ Planning(s) \/ Persisting(s) \/ Closing(s)
                                  \/ Failing(s) \/ Completing(s) \/ Aborting(s)
           \/ Manage
           \/ RowsStay
<1>1. UNCHANGED vars => RowsStay
    BY DEF vars, gitVars, sessionVars, RowsStay
<1> QED
    BY <1>1, AdmissionSteps, FinalizeSteps, ReconcileSteps DEF Next, AdmissionInv

LEMMA ServedSteps ==
    ASSUME TypeOK, ServedInv, DataInv, ControlInv, AdmissionInv, [Next]_vars
    PROVE  ServedInv'
<1> USE DEF versionVars, servingVars
<1>1. ASSUME NEW s \in Sessions, Planning(s) PROVE ServedInv'
    BY <1>1, PlanKeepsServed DEF Planning
<1>2. ASSUME NEW s \in Sessions, Persisting(s) PROVE ServedInv'
    BY <1>2, PersistKeepsServed DEF Persisting
<1>3. ASSUME NEW s \in Sessions, Closing(s) PROVE ServedInv'
    BY <1>3, CloseKeepsServed DEF Closing
<1>4. ASSUME NEW s \in Sessions, Failing(s) PROVE ServedInv'
    BY <1>4, FailedKeepsServed DEF Failing
<1>5. ASSUME NEW s \in Sessions, Completing(s) PROVE ServedInv'
    BY <1>5, CompleteKeepsServed DEF Completing
<1>6. ASSUME NEW s \in Sessions, Aborting(s) PROVE ServedInv'
    BY <1>6, AbortKeepsServed DEF Aborting, DataInv, AdmissionInv, PlansAdmitted
<1>7. ASSUME NEW t \in Tags, NEW makeDefault \in BOOLEAN, PublishVersion(t, makeDefault)
      PROVE  ServedInv'
    BY <1>7, PublishKeepsServed
<1>8. CASE (\E t \in Tags : SetDefaultVersion(t)) \/ ClearDefaultVersion \/ Archive \/ Restore
    BY <1>8, ServedFrame DEF SetDefaultVersion, ClearDefaultVersion, Archive, Restore,
                             gitVars, sessionVars
<1>9. CASE RowsStay
    BY <1>9, ServedFrame DEF RowsStay
<1> QED
    BY <1>1, <1>2, <1>3, <1>4, <1>5, <1>6, <1>7, <1>8, <1>9, RowSteps DEF Manage

-----------------------------------------------------------------------------
(* Versions, their history and the default.                                *)

LEMMA CompleteKeepsVersions ==
    ASSUME TypeOK, VersionInv, PlansAdmitted, NEW s \in Sessions, Completing(s)
    PROVE  VersionInv'
<1>1. \A t \in Tags :
        /\ t \notin plan[s].tags => versions'[t] = versions[t] /\ history'[t] = history[t]
        /\ t \in plan[s].tags => history'[t].new = Peel(push[s].new[t])
        /\ t \in plan[s].tags /\ Moves(s, t) =>
             versions'[t].status = "available" /\ versions'[t].raw = push[s].new[t]
        /\ t \in plan[s].tags /\ ~Moves(s, t) => versions'[t].status = "deleted"
    BY DEF Completing, Complete, CompleteVersions, HistoryRow
<1>2. HistoryCurrent'
  <2>1. \A t \in Tags : ~Moves(s, t) => Peel(push[s].new[t]) = NoCommit
      BY DEF Moves, Peel
  <2> SUFFICES ASSUME NEW t \in Tags
               PROVE  history'[t].new = IF versions'[t].status = "available"
                                          THEN Peel(versions'[t].raw) ELSE NoCommit
      BY DEF HistoryCurrent, Available, Peel
  <2> QED
      BY <1>1, <2>1 DEF VersionInv, HistoryCurrent, Available
<1>3. DefaultIsAvailable'
  <2>1. plugin' = IF DeletesDefault(s) THEN [plugin EXCEPT !.default = NoTag] ELSE plugin
      BY DEF Completing, Complete, CompleteVersions
  <2>2. CASE DeletesDefault(s)
      BY <2>1, <2>2 DEF DefaultIsAvailable, TypeOK, PluginRows
  <2>3. CASE ~DeletesDefault(s)
    <3>1. plugin' = plugin /\ plugin.default \in Tags \cup {NoTag}
        BY <2>1, <2>3 DEF TypeOK, PluginRows
    <3>2. plugin.default \in plan[s].tags => Moves(s, plugin.default)
        BY <2>3 DEF DeletesDefault
    <3> QED
        BY <1>1, <3>1, <3>2 DEF VersionInv, DefaultIsAvailable, Available
  <2> QED
      BY <2>2, <2>3
<1>4. LiveItemsAvailable'
    BY <1>1, PointerAssumption, TagOfType DEF VersionInv, LiveItemsAvailable, Available, PlansAdmitted
<1>5. ASSUME ~CommitAckMayBeLost PROVE EmptyOrUnresolved'
  <2>1. \A z \in Sessions : batch'[z] = IF z = s THEN "completed" ELSE batch[z]
      BY DEF Completing, Complete, TypeOK
  <2>2. \A t \in Tags : Unresolved(t) /\ t \notin plan[s].tags => Unresolved(t)'
      BY <2>1 DEF Unresolved, Completing
  <2>3. \A p \in Pointers : p \notin Covered(s) => pointers'[p] = pointers[p]
      BY DEF Completing, Complete, CompletePointers
  <2>4. \A p \in Covered(s) : pointers'[p].available \/ pointers'[p].artifact = NoArtifact
    <3>1. \A p \in Covered(s) : pointers'[p] = Switched(s, p)
        BY DEF Completing, Complete, CompletePointers, Covered
    <3>2. \A p \in Covered(s) : Switched(s, p).available \/ Switched(s, p).artifact = NoArtifact
        BY DEF Switched, Moves
    <3> QED
        BY <3>1, <3>2
  <2> QED
      BY <1>5, <2>2, <2>3, <2>4, TagOfType DEF VersionInv, EmptyOrUnresolved, Covered
<1> QED
    BY <1>2, <1>3, <1>4, <1>5 DEF VersionInv

\* A step that leaves the Versions alone.
LEMMA RowsKeepVersions ==
    ASSUME TypeOK, VersionInv, UNCHANGED <<versions, history, plugin>>,
           ~CommitAckMayBeLost => EmptyOrUnresolved'
    PROVE  VersionInv'
BY DEF VersionInv, HistoryCurrent, DefaultIsAvailable, LiveItemsAvailable, Available, Peel

\* Only the batch that closes a pointer ends with its pointers still closed.
LEMMA ReasonSteps ==
    ASSUME TypeOK, EmptyOrUnresolved, ~CommitAckMayBeLost, NEW s \in Sessions,
           Planning(s) \/ Persisting(s) \/ Closing(s) \/ Failing(s) \/ Aborting(s)
    PROVE  EmptyOrUnresolved'
<1> USE DEF versionVars, servingVars
<1>1. CASE Planning(s)
  <2>1. \A t \in Tags : Unresolved(t) => Unresolved(t)'
      BY <1>1 DEF Planning, Unresolved, UnresolvedStates
  <2> QED
      BY <1>1, <2>1, TagOfType DEF Planning, EmptyOrUnresolved
<1>2. CASE Persisting(s)
  <2>1. \A z \in Sessions : batch'[z] = IF z = s THEN "prepared" ELSE batch[z]
      BY <1>2 DEF Persisting, PrepareTransaction, TypeOK
  <2>2. \A t \in Tags : Unresolved(t) \/ t \in plan[s].tags => Unresolved(t)'
      BY <1>2, <2>1 DEF Persisting, Unresolved, UnresolvedStates
  <2>3. \A p \in Pointers : /\ pointers'[p].artifact = pointers[p].artifact
                            /\ pointers'[p].available \/ ~pointers[p].available \/ p \in Covered(s)
      BY ZenonT(60), <1>2 DEF Persisting, PrepareTransaction, ClosePointers, TypeOK, PointerRows
  <2> QED
      BY <2>2, <2>3, TagOfType DEF EmptyOrUnresolved, Covered
<1>3. CASE Closing(s)
  <2>1. \A z \in Sessions : batch'[z] = IF z = s /\ batch[z] \notin {"completed", "aborted"}
                                          THEN "manual_required" ELSE batch[z]
      BY <1>3 DEF Closing, FailBatch, TypeOK
  <2>2. \A t \in Tags : Unresolved(t) => Unresolved(t)'
      BY <1>3, <2>1 DEF Closing, Unresolved, UnresolvedStates
  <2>3. CASE pointers' = pointers
      BY <2>2, <2>3, TagOfType DEF EmptyOrUnresolved
  <2>4. CASE ClosePointers(s) /\ batch[s] \in UnresolvedStates
    <3>1. \A p \in Pointers : /\ pointers'[p].artifact = pointers[p].artifact
                              /\ pointers'[p].available \/ ~pointers[p].available \/ p \in Covered(s)
        BY ZenonT(60), <2>4 DEF ClosePointers, TypeOK, PointerRows
    <3>2. \A t \in plan[s].tags : Unresolved(t)
        BY <2>4 DEF Unresolved
    <3> QED
        BY <2>2, <3>1, <3>2, TagOfType DEF EmptyOrUnresolved, Covered
  <2> QED
      BY <1>3, <2>3, <2>4 DEF Closing
<1>4. CASE Failing(s)
    BY <1>4 DEF Failing, EmptyOrUnresolved, Unresolved
<1>5. CASE Aborting(s)
  <2>1. \A z \in Sessions : batch'[z] = IF z = s THEN "aborted" ELSE batch[z]
      BY <1>5 DEF Aborting, Abort, TypeOK
  <2>2. \A t \in Tags : Unresolved(t) /\ t \notin plan[s].tags => Unresolved(t)'
      BY <1>5, <2>1 DEF Aborting, Unresolved
  <2>3. \A p \in Pointers : /\ pointers'[p].artifact = pointers[p].artifact
                            /\ pointers'[p].available <=> pointers[p].available \/ p \in Covered(s)
      BY ZenonT(60), <1>5 DEF Aborting, Abort, TypeOK, PointerRows
  <2> QED
      BY <2>2, <2>3, TagOfType DEF EmptyOrUnresolved, Covered
<1> QED
    BY <1>1, <1>2, <1>3, <1>4, <1>5

LEMMA ManageKeepsVersions ==
    ASSUME TypeOK, VersionInv, Manage
    PROVE  VersionInv'
<1> USE DEF gitVars, servingVars, sessionVars
<1>1. UNCHANGED <<pointers, batch, plan>>
    BY DEF Manage, PublishVersion, SetDefaultVersion, ClearDefaultVersion, Archive, Restore
<1>2. ~CommitAckMayBeLost => EmptyOrUnresolved'
    BY <1>1 DEF VersionInv, EmptyOrUnresolved, Unresolved
<1>3. ASSUME NEW t \in Tags, NEW makeDefault \in BOOLEAN, PublishVersion(t, makeDefault)
      PROVE  VersionInv'
  <2> USE <1>3 DEF PublishVersion
  <2>1. \A u \in Tags : versions'[u] = IF u = t THEN [status |-> "available", raw |-> refs[t]]
                                                ELSE versions[u]
      BY DEF TypeOK
  <2>2. \A u \in Tags : Available(u) => Available(u)'
      BY <2>1 DEF Available
  <2>3. HistoryCurrent'
    <3> SUFFICES ASSUME NEW u \in Tags
                 PROVE  history'[u].new = IF versions'[u].status = "available"
                                            THEN Peel(versions'[u].raw) ELSE NoCommit
        BY DEF HistoryCurrent, Available, Peel
    <3>1. CASE u # t
        BY <3>1, <2>1 DEF VersionInv, HistoryCurrent, Available, TypeOK
    <3>2. CASE u = t /\ Available(t)
        BY <3>2, <2>1 DEF VersionInv, HistoryCurrent, Publishable
    <3>3. CASE u = t /\ ~Available(t)
      <4>1. history'[t].new = Peel(refs[t])
          BY <3>3 DEF TypeOK
      <4> QED
          BY <3>3, <4>1, <2>1
    <3> QED
        BY <3>1, <3>2, <3>3
  <2>4. DefaultIsAvailable'
    <3>1. plugin'.default \in {t, plugin.default}
        BY DEF TypeOK, PluginRows
    <3> QED
        BY <3>1, <2>1, <2>2 DEF VersionInv, DefaultIsAvailable, Available, TypeOK, PluginRows
  <2>5. LiveItemsAvailable'
      BY <2>2, PointerAssumption, TagOfType DEF VersionInv, LiveItemsAvailable
  <2> QED
      BY <1>2, <2>3, <2>4, <2>5 DEF VersionInv
<1>4. CASE (\E t \in Tags : SetDefaultVersion(t)) \/ ClearDefaultVersion \/ Archive \/ Restore
  <2>1. UNCHANGED <<versions, history>>
      BY <1>4 DEF SetDefaultVersion, ClearDefaultVersion, Archive, Restore
  <2>2. plugin'.default \in {plugin.default, NoTag} \/ Available(plugin'.default)
      BY <1>4 DEF SetDefaultVersion, ClearDefaultVersion, Archive, Restore, TypeOK, PluginRows
  <2>3. DefaultIsAvailable'
      BY <2>1, <2>2 DEF VersionInv, DefaultIsAvailable, Available
  <2> QED
      BY <1>2, <2>1, <2>3 DEF VersionInv, HistoryCurrent, LiveItemsAvailable, Available, Peel
<1> QED
    BY <1>3, <1>4 DEF Manage

LEMMA VersionSteps ==
    ASSUME TypeOK, ControlInv, AdmissionInv, VersionInv, [Next]_vars
    PROVE  VersionInv'
<1>1. ASSUME NEW s \in Sessions,
             Planning(s) \/ Persisting(s) \/ Closing(s) \/ Failing(s) \/ Aborting(s)
      PROVE  VersionInv'
  <2>1. UNCHANGED <<versions, history, plugin>>
      BY <1>1 DEF Planning, Persisting, Closing, Failing, Aborting, Abort, versionVars
  <2> QED
      BY <1>1, <2>1, ReasonSteps, RowsKeepVersions DEF VersionInv
<1>2. ASSUME NEW s \in Sessions, Completing(s) PROVE VersionInv'
    BY <1>2, CompleteKeepsVersions DEF AdmissionInv
<1>3. CASE RowsStay
  <2>1. ~CommitAckMayBeLost => EmptyOrUnresolved'
      BY <1>3 DEF RowsStay, servingVars, VersionInv, EmptyOrUnresolved, Unresolved
  <2> QED
      BY <1>3, <2>1, RowsKeepVersions DEF RowsStay, versionVars
<1> QED
    BY <1>1, <1>2, <1>3, RowSteps, ManageKeepsVersions

\* Completion alone empties pointers, those of the tags it deletes, and a
\* completed batch keeps its outcome, its plan and its push.
LEMMA EmptiedSteps ==
    ASSUME TypeOK, ControlInv, AdmissionInv, EmptiedByDeletion, [Next]_vars
    PROVE  EmptiedByDeletion'
<1> USE DEF versionVars, servingVars
<1>1. \A z \in Sessions : batch[z] = "completed" =>
        batch'[z] = "completed" /\ plan'[z] = plan[z] /\ push'[z] = push[z]
  <2>1. ASSUME NEW z \in Sessions, batch[z] = "completed" PROVE batch'[z] = batch[z]
      BY <2>1, BatchSteps, ApplyBatch
  <2>2. ASSUME NEW z \in Sessions, batch[z] = "completed"
        PROVE  plan'[z] = plan[z] /\ push'[z] = push[z]
    <3>1. ASSUME NEW s \in Sessions, Planning(s) PROVE plan'[z] = plan[z] /\ push'[z] = push[z]
        BY <2>2, <3>1 DEF Planning
    <3>2. ASSUME NEW s \in Sessions, \/ Persisting(s) \/ Closing(s) \/ Failing(s)
                                     \/ Completing(s) \/ Aborting(s)
          PROVE  UNCHANGED <<plan, push>>
        BY <3>2 DEF Persisting, Closing, Failing, Completing, Aborting
    <3>3. Manage => UNCHANGED <<plan, push>>
        BY DEF Manage, PublishVersion, SetDefaultVersion, ClearDefaultVersion, Archive,
               Restore, sessionVars
    <3>4. RowsStay => UNCHANGED <<plan, push>>
        BY DEF RowsStay
    <3> QED
        BY <3>1, <3>2, <3>3, <3>4, RowSteps
  <2> QED
      BY <2>1, <2>2
<1>2. \A z \in Sessions, t \in Tags : Deleted(z, t) => Deleted(z, t)'
    BY <1>1 DEF Deleted, Moves
<1>3. ASSUME NEW s \in Sessions,
             \/ Planning(s) \/ Persisting(s) \/ Closing(s) \/ Failing(s) \/ Aborting(s)
      PROVE  \A p \in Pointers : pointers'[p].artifact = pointers[p].artifact
  <2>1. ASSUME ClosePointers(s)
        PROVE  \A p \in Pointers : pointers'[p].artifact = pointers[p].artifact
      BY ZenonT(60), <2>1 DEF ClosePointers, TypeOK, PointerRows
  <2>2. ASSUME Abort(s)
        PROVE  \A p \in Pointers : pointers'[p].artifact = pointers[p].artifact
      BY ZenonT(60), <2>2 DEF Abort, TypeOK, PointerRows
  <2>3. Planning(s) \/ Failing(s) => pointers' = pointers
      BY DEF Planning, Failing
  <2>4. Persisting(s) => ClosePointers(s)
      BY DEF Persisting, PrepareTransaction
  <2>5. Closing(s) => ClosePointers(s) \/ pointers' = pointers
      BY DEF Closing
  <2> QED
      BY <1>3, <2>1, <2>2, <2>3, <2>4, <2>5 DEF Aborting
<1>4. ASSUME NEW s \in Sessions, Completing(s)
      PROVE  \A p \in Pointers : \/ pointers'[p].artifact = pointers[p].artifact
                                 \/ pointers'[p].artifact # NoArtifact
                                 \/ Deleted(s, TagOf[p])'
  <2>1. /\ batch'[s] = "completed"
        /\ UNCHANGED <<plan, push>>
        /\ \A p \in Pointers :
             pointers'[p] = IF p \in Covered(s) THEN Switched(s, p) ELSE pointers[p]
      BY <1>4 DEF Completing, Complete, CompletePointers, TypeOK
  <2>2. ASSUME NEW p \in Covered(s), ~Moves(s, TagOf[p]) PROVE Deleted(s, TagOf[p])'
      BY <2>1, <2>2 DEF Deleted, Moves, Covered
  <2>3. ASSUME NEW p \in Covered(s), Moves(s, TagOf[p])
        PROVE  Switched(s, p).artifact # NoArtifact
      BY <2>3, ActorAssumption DEF Switched, Covered
  <2> QED
      BY <2>1, <2>2, <2>3
<1>5. Manage \/ RowsStay => pointers' = pointers
    BY DEF Manage, PublishVersion, SetDefaultVersion, ClearDefaultVersion, Archive, Restore,
           RowsStay
<1>6. ASSUME NEW p \in Pointers, pointers'[p].artifact = NoArtifact
      PROVE  \E s \in Sessions : Deleted(s, TagOf[p])'
  <2>1. pointers'[p].artifact = pointers[p].artifact \/ \E s \in Sessions : Deleted(s, TagOf[p])'
      BY <1>3, <1>4, <1>5, <1>6, RowSteps
  <2> QED
      BY <1>2, <1>6, <2>1, TagOfType DEF EmptiedByDeletion
<1> QED
    BY <1>6 DEF EmptiedByDeletion, Deleted, Moves

-----------------------------------------------------------------------------
(* What the holder of the lock relies on.                                  *)

LEMMA PlanSteps ==
    ASSUME TypeOK, ControlInv, PlansAdmitted, [Next]_vars
    PROVE  PlansAdmitted'
<1> USE DEF gitVars, versionVars, servingVars, sessionVars
<1>1. CASE UNCHANGED <<plan, push>>
    BY <1>1, StagedFrame DEF PlansAdmitted, Moves
<1>2. ASSUME NEW s \in Sessions, Advertise(s) \/ BuildPlan(s) \/ RejectPrepare(s)
      PROVE  PlansAdmitted'
  <2>1. \A z \in Sessions \ {s} : plan'[z] = plan[z] /\ push'[z] = push[z]
      BY <1>2 DEF Advertise, BuildPlan, RejectPrepare, TypeOK
  <2>2. \A z \in Sessions \ {s} :
          /\ \A p \in Covered(z)' : plan'[z].cur[p] # NoArtifact
          /\ \A t \in plan'[z].tags : push'[z].new[t] # NoObject \/ \A p \in Live : TagOf[p] # t
      BY <2>1 DEF PlansAdmitted, Covered, Moves
  <2>3. CASE Advertise(s) \/ RejectPrepare(s)
    <3>1. plan'[s].tags = {}
        BY <2>3 DEF Advertise, RejectPrepare, EmptyPlan, TypeOK, ControlInv, SessionInv,
                    SessionStage
    <3> QED
        BY <2>2, <3>1 DEF PlansAdmitted, Covered, Moves
  <2>4. CASE BuildPlan(s)
    <3>1. /\ plan'[s].tags = PlannedTags(s)
          /\ \A p \in Pointers : plan'[s].cur[p] = pointers[p].artifact
          /\ push' = push
        BY <2>4 DEF BuildPlan, TypeOK
    <3>2. \A t \in PlannedTags(s) : Admissible(s, t)
        BY <2>4 DEF BuildPlan
    <3>3. \A p \in Covered(s)' : plan'[s].cur[p] # NoArtifact
        BY <3>1, <3>2 DEF Covered, Admissible
    <3>4. \A t \in plan'[s].tags : push'[s].new[t] # NoObject \/ \A p \in Live : TagOf[p] # t
        BY <3>1, <3>2, PointerAssumption DEF Admissible, DeleteAllowed, Moves
    <3> QED
        BY <2>2, <3>3, <3>4 DEF PlansAdmitted, Moves
  <2> QED
      BY <1>2, <2>3, <2>4
<1>3. UNCHANGED <<plan, push>> \/ \E s \in Sessions : Advertise(s) \/ BuildPlan(s) \/ RejectPrepare(s)
  <2>1. ASSUME NEW s \in Sessions,
               Open(s) \/ Prepare(s) \/ CommitRefs(s) \/ Finalize(s) \/ Die(s)
        PROVE  UNCHANGED <<plan, push>> \/ BuildPlan(s) \/ RejectPrepare(s)
      BY <2>1 DEF Open, Prepare, AdmitUnplanned, PersistPrepared, PersistThenReject,
                  CommitRefs, UpdateRefs, UpdateRefsFails, UpdateRefsKilled,
                  Finalize, FinalizeResolved, ResolveManual, ResolveApply, ResolveVerifyFails,
                  ResolveApplyFails, ResolveAckLost, MarkManual, Die
  <2>2. ASSUME NEW r \in Reconcilers, Reconcile(r) PROVE UNCHANGED <<plan, push>>
      BY <2>2 DEF Reconcile, ReconcileList, ReconcileObserve, ReconcileApply, ReconcileSkip,
                  ReconcileManual, ReconcileFails
  <2>3. ASSUME Manage PROVE UNCHANGED <<plan, push>>
      BY <2>3 DEF Manage, PublishVersion, SetDefaultVersion, ClearDefaultVersion, Archive, Restore
  <2> QED
      BY <2>1, <2>2, <2>3 DEF Next, vars
<1> QED
    BY <1>1, <1>2, <1>3

\* A session that changes projections or plans holds the lock, or has no batch.
LEMMA VerifiedSteps ==
    ASSUME TypeOK, ControlInv, VerifiedOnDisk, [Next]_vars
    PROVE  VerifiedOnDisk'
<1> USE DEF gitVars, versionVars, servingVars, sessionVars
<1>1. \A r \in Reconcilers : job[r].at # Nobody => job[r].at \in Sessions /\ batch[job[r].at] # "none"
    BY DEF TypeOK, Jobs, ControlInv, JobsHaveBatches
<1>2. CASE UNCHANGED <<disk, plan, push>> /\ job' = job
    BY <1>1, <1>2, StagedFrame DEF VerifiedOnDisk
<1>3. ASSUME NEW s \in Sessions, pc[s] \in Holding, job' = job PROVE VerifiedOnDisk'
    BY <1>3, OneHolder DEF ControlInv, VerifiedOnDisk
<1>4. ASSUME NEW s \in Sessions, Advertise(s) PROVE VerifiedOnDisk'
  <2>1. batch[s] = "none" /\ \A z \in Sessions \ {s} : push'[z] = push[z]
      BY <1>4 DEF Advertise, TypeOK, ControlInv, SessionInv, SessionStage
  <2>2. UNCHANGED <<disk, plan, job>>
      BY <1>4 DEF Advertise
  <2>3. \A z \in Sessions \ {s} : Staged(z)' = Staged(z)
      BY <2>1, <2>2 DEF Staged, StagedFor, Covered, Moves
  <2> QED
      BY <1>1, <2>1, <2>2, <2>3 DEF VerifiedOnDisk
<1>5. ASSUME NEW r \in Reconcilers, Reconcile(r) PROVE VerifiedOnDisk'
  <2>1. UNCHANGED <<disk, plan, push>>
      BY <1>5 DEF Reconcile, ReconcileList, ReconcileObserve, ReconcileApply, ReconcileSkip,
                  ReconcileManual, ReconcileFails
  <2>2. /\ \A r1 \in Reconcilers \ {r} : job'[r1] = job[r1]
        /\ job'[r].at # Nobody /\ job'[r].disposition = "completed" =>
             \/ job'[r].at = job[r].at /\ job[r].disposition = "completed"
             \/ job'[r].at \in Sessions /\ Staged(job'[r].at) \subseteq disk
    <3>1. CASE ReconcileList(r)
        BY <3>1 DEF ReconcileList, TypeOK, Jobs
    <3>2. ASSUME NEW s \in Sessions, ReconcileObserve(r, s)
          PROVE  /\ \A r1 \in Reconcilers \ {r} : job'[r1] = job[r1]
                 /\ job'[r].disposition = "completed" =>
                      job'[r].at \in Sessions /\ Staged(job'[r].at) \subseteq disk
      <4>1. PICK d : /\ job' = [job EXCEPT ![r].at = s, ![r].disposition = d]
                     /\ d = "completed" => StagedVerifies(s)
          BY <3>2 DEF ReconcileObserve
      <4>2. /\ \A r1 \in Reconcilers \ {r} : job'[r1] = job[r1]
            /\ job'[r].at = s /\ job'[r].disposition = d
          BY <4>1 DEF TypeOK, Jobs
      <4> QED
          BY <4>1, <4>2 DEF StagedVerifies
    <3>3. CASE ReconcileApply(r) \/ ReconcileSkip(r) \/ ReconcileManual(r) \/ ReconcileFails(r)
        BY <3>3 DEF ReconcileApply, ReconcileSkip, ReconcileManual, ReconcileFails,
                    ReconcileNext, IdleJob, TypeOK
    <3> QED
        BY <1>5, <3>1, <3>2, <3>3 DEF Reconcile
  <2>3. \A z \in Sessions : Staged(z)' = Staged(z)
      BY <2>1, StagedFrame
  <2> QED
      BY <1>1, <2>1, <2>2, <2>3 DEF VerifiedOnDisk
<1>6. ASSUME NEW s \in Sessions,
             Open(s) \/ Prepare(s) \/ CommitRefs(s) \/ Finalize(s) \/ Die(s)
      PROVE  job' = job /\ (pc[s] \in Holding \/ UNCHANGED <<disk, plan, push>>)
    BY <1>6 DEF Open, Prepare, AdmitUnplanned, BuildPlan, RejectPrepare, PersistPrepared,
                PersistThenReject, CommitRefs, UpdateRefs, UpdateRefsFails, UpdateRefsKilled,
                Finalize, FinalizeResolved, ResolveManual, ResolveApply, ResolveVerifyFails,
                ResolveApplyFails, ResolveAckLost, MarkManual, Die, Holding
<1>7. ASSUME Manage \/ UNCHANGED vars PROVE UNCHANGED <<disk, plan, push>> /\ job' = job
    BY <1>7 DEF Manage, PublishVersion, SetDefaultVersion, ClearDefaultVersion, Archive,
                Restore, vars
<1> QED
    BY <1>2, <1>3, <1>4, <1>5, <1>6, <1>7 DEF Next

LEMMA HolderSteps ==
    ASSUME TypeOK, ControlInv, HoldersNotArchived, FailingIsPrepared, [Next]_vars
    PROVE  HoldersNotArchived' /\ FailingIsPrepared'
<1> USE DEF gitVars, versionVars, servingVars, sessionVars
<1>1. ASSUME NEW s \in Sessions, Advertise(s) \/ Open(s) \/ Prepare(s) \/ CommitRefs(s) \/ Die(s)
      PROVE  /\ plugin' = plugin
             /\ \A z \in Sessions \ {s} : pc'[z] = pc[z] /\ batch'[z] = batch[z]
             /\ pc'[s] # "failing"
             /\ pc'[s] \in Holding => pc[s] \in Holding \/ plugin.status # "archived"
    BY <1>1 DEF Advertise, Open, Prepare, AdmitUnplanned, BuildPlan, RejectPrepare,
                PersistPrepared, PersistThenReject, PrepareTransaction, CommitRefs, UpdateRefs,
                UpdateRefsFails, UpdateRefsKilled, Die, Goto, Close, Holding, TypeOK
<1>2. ASSUME NEW s \in Sessions, Finalize(s)
      PROVE  /\ plugin'.status = plugin.status
             /\ \A z \in Sessions \ {s} : pc'[z] = pc[z]
             /\ pc[s] \in Holding
             /\ \A z \in Sessions \ {s} : batch'[z] = batch[z]
             /\ pc'[s] = "failing" /\ ~CommitAckMayBeLost => batch'[s] = "prepared"
  <2>1. CASE FinalizeResolved(s) \/ ResolveManual(s) \/ ResolveVerifyFails(s)
             \/ ResolveApplyFails(s) \/ MarkManual(s)
      BY <2>1 DEF FinalizeResolved, ResolveManual, ResolveVerifyFails, ResolveApplyFails,
                  MarkManual, Goto, Close, Holding, TypeOK, FailBatch
  <2>2. CASE ResolveApply(s) \/ ResolveAckLost(s)
    <3>1. PICK d : Apply(s, d)
        BY <2>2 DEF ResolveApply, ResolveAckLost
    <3>2. plugin'.status = plugin.status
        BY <3>1 DEF Apply, Complete, CompleteVersions, Abort, TypeOK, PluginRows
    <3>3. \A z \in Sessions \ {s} : batch'[z] = batch[z]
        BY <3>1, ApplyBatch
    <3> QED
        BY <2>2, <3>2, <3>3 DEF ResolveApply, ResolveAckLost, Goto, Close, Holding, TypeOK
  <2> QED
      BY <1>2, <2>1, <2>2 DEF Finalize
<1>3. ASSUME NEW s \in Sessions, Finalize(s) PROVE HoldersNotArchived' /\ FailingIsPrepared'
    BY <1>2, <1>3 DEF HoldersNotArchived, FailingIsPrepared
<1>4. ASSUME NEW s \in Sessions, Advertise(s) \/ Open(s) \/ Prepare(s) \/ CommitRefs(s) \/ Die(s)
      PROVE  HoldersNotArchived' /\ FailingIsPrepared'
    BY <1>1, <1>4 DEF HoldersNotArchived, FailingIsPrepared
<1>5. ASSUME NEW r \in Reconcilers, Reconcile(r) PROVE HoldersNotArchived' /\ FailingIsPrepared'
  <2>1. CASE ReconcileList(r) \/ (\E s \in Sessions : ReconcileObserve(r, s))
             \/ ReconcileSkip(r) \/ ReconcileFails(r)
      BY <2>1 DEF ReconcileList, ReconcileObserve, ReconcileSkip, ReconcileFails,
                  HoldersNotArchived, FailingIsPrepared
  <2>2. CASE ReconcileApply(r) \/ ReconcileManual(r)
    <3>1. \A s \in Sessions : pc[s] \notin Holding
        BY <2>2, NoOtherHolder DEF ReconcileApply, ReconcileManual, ControlInv
    <3>2. pc' = pc
        BY <2>2 DEF ReconcileApply, ReconcileManual
    <3> QED
        BY <3>1, <3>2 DEF HoldersNotArchived, FailingIsPrepared, Holding
  <2> QED
      BY <1>5, <2>1, <2>2 DEF Reconcile
<1>6. ASSUME Manage PROVE HoldersNotArchived' /\ FailingIsPrepared'
  <2>1. lock = Nobody /\ pc' = pc
      BY <1>6 DEF Manage, PublishVersion, SetDefaultVersion, ClearDefaultVersion, Archive, Restore
  <2>2. \A s \in Sessions : pc[s] \notin Holding
      BY <2>1, NoHolder DEF ControlInv
  <2> QED
      BY <2>1, <2>2 DEF HoldersNotArchived, FailingIsPrepared, Holding
<1>7. ASSUME UNCHANGED vars PROVE HoldersNotArchived' /\ FailingIsPrepared'
    BY <1>7 DEF vars, HoldersNotArchived, FailingIsPrepared
<1> QED
    BY <1>3, <1>4, <1>5, <1>6, <1>7 DEF Next

-----------------------------------------------------------------------------
(* Theorems about what is served.                                          *)

LEMMA InitServing == Init => ServedInv /\ AdmissionInv /\ VersionInv /\ EmptiedByDeletion
<1> SUFFICES ASSUME Init PROVE ServedInv /\ AdmissionInv /\ VersionInv /\ EmptiedByDeletion
    OBVIOUS
<1>1. /\ \A s \in Sessions : batch[s] = "none" /\ pc[s] = "idle" /\ plan[s].tags = {}
      /\ \A r \in Reconcilers : job[r].at = Nobody
    BY DEF Init, EmptyPlan, IdleJob
<1>2. \A p \in Pointers : /\ <<Seed, p>> \in Artifacts /\ <<Seed, p>> # NoArtifact
                          /\ pointers[p].artifact = <<Seed, p>>
                          /\ pointers[p].available
                          /\ <<Seed, p>> \in disk
    BY ActorAssumption DEF Init, Artifacts
<1>3. \A p \in Pointers : /\ artifacts[<<Seed, p>>].state = "ready"
                          /\ artifacts[<<Seed, p>>].commit = Peel(refs[TagOf[p]])
    BY <1>2 DEF Init
<1>4. \A t \in Published : t \in Tags /\ versions[t].status = "available" /\ versions[t].raw = refs[t]
    BY PointerAssumption DEF Init
<1>5. ServedInv
  <2>1. ArtifactsOwned /\ CollectedIsReleased
      BY <1>2 DEF ArtifactsOwned, CollectedIsReleased, Init
  <2>2. ASSUME NEW p \in Pointers
        PROVE  Current(p) /\ pointers[p].artifact # NoArtifact
    <3>1. TagOf[p] \in Published
        BY PointerAssumption
    <3>2. /\ versions[TagOf[p]].status = "available"
          /\ versions[TagOf[p]].raw = refs[TagOf[p]]
        BY <1>4, <3>1, Zenon
    <3>3. pointers[p].artifact = <<Seed, p>> /\ <<Seed, p>> # NoArtifact /\ <<Seed, p>> \in disk
        BY <1>2, Zenon
    <3>4. artifacts[<<Seed, p>>].state = "ready" /\ artifacts[<<Seed, p>>].commit = Peel(refs[TagOf[p]])
        BY <1>3, Zenon
    <3> QED
        BY <3>2, <3>3, <3>4, Zenon DEF Current
  <2>4. ArtifactsCurrent
      BY <2>2, Zenon DEF ArtifactsCurrent
  <2>3. StagedAsPushed
      BY <1>1 DEF StagedAsPushed
  <2> QED
      BY <2>1, <2>3, <2>4 DEF ServedInv
<1>6. AdmissionInv
    BY <1>1 DEF AdmissionInv, PlansAdmitted, VerifiedOnDisk, HoldersNotArchived,
                FailingIsPrepared, Covered, Holding
<1>7. VersionInv
  <2>1. HistoryCurrent
    <3> SUFFICES ASSUME NEW t \in Tags
                 PROVE  history[t].new = IF Available(t) THEN Peel(versions[t].raw) ELSE NoCommit
        BY DEF HistoryCurrent
    <3>1. CASE t \in Published
        BY <1>4, <3>1 DEF Init, Available
    <3>2. CASE t \notin Published
        BY <3>2 DEF Init, Available
    <3> QED
        BY <3>1, <3>2
  <2>2. DefaultIsAvailable
      BY <1>4 DEF Init, DefaultIsAvailable, Available
  <2>3. LiveItemsAvailable /\ EmptyOrUnresolved
      BY <1>2, <1>4, PointerAssumption DEF LiveItemsAvailable, EmptyOrUnresolved, Available
  <2> QED
      BY <2>1, <2>2, <2>3 DEF VersionInv
<1>8. EmptiedByDeletion
    BY <1>2 DEF EmptiedByDeletion
<1> QED
    BY <1>5, <1>6, <1>7, <1>8

\* ServingInv is an invariant: every row that a crash, a failed read or a lost
\* answer leaves behind still names artifacts that exist and are right.
THEOREM ServingInvariance == Spec => []ServingInv
<1>1. Init => ServingInv
    BY InitType, InitInv, InitServing DEF ServingInv, IInv
<1>2. TypeOK /\ [Next]_vars => TypeOK'
    BY PrepareType, ResolveType, ReconcileType, ManageType, StutterType DEF Next
<1>3. ServingInv /\ [Next]_vars => ServingInv'
    BY <1>2, NextInv, ServedSteps, VersionSteps, EmptiedSteps, PlanSteps, VerifiedSteps, HolderSteps
       DEF ServingInv, IInv, AdmissionInv
<1> QED
    BY <1>1, <1>3, PTL DEF Spec

\* What an available pointer serves is ready, in storage and built from the
\* commit of its Version, with failed ref reads and lost COMMIT answers.
THEOREM ServedCurrentCorrect == Spec => []ServedProjectionCurrent
<1>1. ServingInv => ServedProjectionCurrent
    BY DEF ServingInv, ServedInv, ArtifactsCurrent, Current, ServedProjectionCurrent
<1> QED
    BY <1>1, ServingInvariance, PTL

\* The projection collector is never given an artifact that a pointer has or
\* that an unresolved batch may still switch to.
THEOREM CollectedCorrect == Spec => []CollectedIsUnused
<1>1. ASSUME ServingInv PROVE CollectedIsUnused
  <2>1. \A a \in gcJobs : \A s \in Sessions : batch[s] \in UnresolvedStates => a \notin Staged(s)
      BY <1>1, StagedType DEF ServingInv, ServedInv, CollectedIsReleased, UnresolvedStates
  <2> QED
      BY <1>1, <2>1 DEF ServingInv, ServedInv, CollectedIsReleased, CollectedIsUnused
<1> QED
    BY <1>1, ServingInvariance, PTL

\* The default Version is available, whoever deletes it and whenever.
THEOREM DefaultCorrect == Spec => []DefaultIsAvailable
<1>1. ServingInv => DefaultIsAvailable
    BY DEF ServingInv, VersionInv
<1> QED
    BY <1>1, ServingInvariance, PTL

\* No push deletes a Version that a live Marketplace revision selects, even
\* when a failed ref read lets the reconciler believe in a deletion.
THEOREM LiveItemsCorrect == Spec => []LiveItemsAvailable
<1>1. ServingInv => LiveItemsAvailable
    BY DEF ServingInv, VersionInv
<1> QED
    BY <1>1, ServingInvariance, PTL

\* While every COMMIT is answered, a pointer that serves nothing has a receive
\* of its tag that is unresolved, or a completed deletion of its tag emptied it.
THEOREM ClosedCorrect == ~CommitAckMayBeLost => (Spec => []ClosedForAReason)
<1> SUFFICES ASSUME ~CommitAckMayBeLost PROVE Spec => []ClosedForAReason
    OBVIOUS
<1>1. ServingInv => ClosedForAReason
    BY DEF ServingInv, VersionInv, EmptyOrUnresolved, EmptiedByDeletion, ClosedForAReason
<1> QED
    BY <1>1, ServingInvariance, PTL

\* Each history row of a tag starts where the row before it ended.
THEOREM HistoryCorrect == Spec => HistoryIsAChain
<1>1. ASSUME ServingInv, [Next]_vars, NEW t \in Tags, history'[t] # history[t]
      PROVE  history'[t].old = history[t].new
  <2>1. TypeOK /\ ControlInv /\ AdmissionInv
      BY <1>1 DEF ServingInv, IInv
  <2>2. CASE Manage
    <3>1. PICK u \in Tags, makeDefault \in BOOLEAN : PublishVersion(u, makeDefault)
        BY <1>1, <2>2 DEF Manage, SetDefaultVersion, ClearDefaultVersion, Archive, Restore
    <3>2. u = t /\ ~Available(t) /\ history'[t].old = NoCommit
        BY <1>1, <2>1, <3>1 DEF PublishVersion, TypeOK
    <3> QED
        BY <1>1, <3>2 DEF ServingInv, VersionInv, HistoryCurrent
  <2>3. ASSUME NEW s \in Sessions, Completing(s) PROVE history'[t].old = history[t].new
    <3>1. t \in plan[s].tags /\ history'[t] = HistoryRow(s, t)
        BY <1>1, <2>3 DEF Completing, Complete, CompleteVersions
    <3>2. Available(t) /\ versions[t].raw = push[s].old[t]
        BY <2>3, <3>1 DEF Completing, Complete
    <3> QED
        BY <1>1, <3>1, <3>2 DEF ServingInv, VersionInv, HistoryCurrent, HistoryRow
  <2> QED
      BY <1>1, <2>1, <2>2, <2>3, RowSteps
         DEF Planning, Persisting, Closing, Failing, Aborting, Abort, RowsStay, versionVars
<1>2. ServingInv /\ [Next]_vars =>
        [\A t \in Tags : history'[t] # history[t] => history'[t].old = history[t].new]_vars
    BY <1>1
<1> QED
    BY <1>2, ServingInvariance, PTL DEF Spec, HistoryIsAChain

\* No push moves a ref of an archived Plugin: it would hold the lock, and with
\* it the Plugin could not have been archived.
THEOREM ArchivedCorrect == Spec => ArchivedRefsFrozen
<1>1. ASSUME ServingInv, [Next]_vars, plugin.status = "archived" PROVE refs' = refs
  <2>1. ASSUME NEW s \in Sessions, CommitRefs(s) PROVE FALSE
      BY <1>1, <2>1 DEF CommitRefs, UpdateRefs, UpdateRefsFails, UpdateRefsKilled, Holding,
                        ServingInv, AdmissionInv, HoldersNotArchived
  <2>2. ASSUME NEW s \in Sessions, Advertise(s) \/ Open(s) \/ Prepare(s) \/ Finalize(s) \/ Die(s)
        PROVE  refs' = refs
      BY <2>2 DEF Advertise, Open, Prepare, AdmitUnplanned, BuildPlan, RejectPrepare,
                  PersistPrepared, PersistThenReject, Finalize, FinalizeResolved, ResolveManual,
                  ResolveApply, ResolveVerifyFails, ResolveApplyFails, ResolveAckLost,
                  MarkManual, Die, gitVars
  <2>3. ASSUME NEW r \in Reconcilers, Reconcile(r) PROVE refs' = refs
      BY <2>3 DEF Reconcile, ReconcileList, ReconcileObserve, ReconcileApply, ReconcileSkip,
                  ReconcileManual, ReconcileFails, gitVars
  <2>4. ASSUME Manage \/ UNCHANGED vars PROVE refs' = refs
      BY <2>4 DEF Manage, PublishVersion, SetDefaultVersion, ClearDefaultVersion, Archive,
                  Restore, vars, gitVars
  <2> QED
      BY <1>1, <2>1, <2>2, <2>3, <2>4 DEF Next
<1>2. ServingInv /\ [Next]_vars => [plugin.status = "archived" => refs' = refs]_vars
    BY <1>1
<1> QED
    BY <1>2, ServingInvariance, PTL DEF Spec, ArchivedRefsFrozen


-----------------------------------------------------------------------------
(* Receive implements Serving.                                             *)

\* What a pointer shows is what its tag is in Git.
ShownIsTip ==
    \A p \in Pointers : pointers[p].available =>
        /\ artifacts[pointers[p].artifact].commit = Peel(refs[TagOf[p]])
        /\ refs[TagOf[p]] # NoObject

\* Two agreements make one: between a pointer and its Version, and, as no open
\* pointer has an unresolved receive, between the Version and the ref.
LEMMA ServesTip ==
    ASSUME ServingInv
    PROVE  ShownIsTip
<1> SUFFICES ASSUME NEW p \in Pointers, pointers[p].available
             PROVE  /\ artifacts[pointers[p].artifact].commit = Peel(refs[TagOf[p]])
                    /\ refs[TagOf[p]] # NoObject
    BY DEF ShownIsTip
<1>1. TagOf[p] \in Tags
    BY PointerAssumption
<1>2. Available(TagOf[p]) /\ artifacts[pointers[p].artifact].commit = Peel(versions[TagOf[p]].raw)
    BY DEF ServingInv, ServedInv, ArtifactsCurrent, Current, Available
<1>3. ~Unresolved(TagOf[p])
    BY DEF ServingInv, IInv, DataInv, PointerFailClosed, Unresolved, Covered
<1>4. versions[TagOf[p]].raw = refs[TagOf[p]] /\ versions[TagOf[p]].raw # NoObject
    BY <1>1, <1>2, <1>3 DEF ServingInv, IInv, DataInv, RefVersionAgreement, AvailableHasObject
<1> QED
    BY <1>2, <1>4

\* The three kinds of steps, as far as open pointers and refs are concerned.
OnlyCloses == refs' = refs /\ \A p \in Pointers : pointers'[p].available => pointers[p].available
OnlyOpens == refs' = refs /\ \A p \in Pointers : pointers[p].available => pointers'[p].available
MovesInTheDark ==
    /\ UNCHANGED <<pointers, artifacts>>
    /\ \A p \in Pointers : pointers[p].available => refs'[TagOf[p]] = refs[TagOf[p]]

\* A push moves a tag only while its pointers are closed: by its own batch, or
\* because the tag has no Version and so nothing is served of it.
LEMMA CommitInTheDark ==
    ASSUME ServingInv, NEW s \in Sessions, CommitRefs(s)
    PROVE  MovesInTheDark
<1>1. ASSUME NEW p \in Pointers, pointers[p].available PROVE TagOf[p] \notin PushTags(s)
  <2> SUFFICES ASSUME TagOf[p] \in PushTags(s) PROVE FALSE
      OBVIOUS
  <2>1. pc[s] \in {"admitted", "prepared"}
      BY DEF CommitRefs, UpdateRefs, UpdateRefsFails, UpdateRefsKilled
  <2>2. CASE TagOf[p] \in plan[s].tags
    <3>1. batch[s] = "prepared"
        BY <2>1, <2>2 DEF ServingInv, IInv, ControlInv, SessionInv, SessionStage
    <3> QED
        BY <1>1, <2>2, <3>1
           DEF ServingInv, IInv, DataInv, PointerFailClosed, Covered, UnresolvedStates
  <2>3. CASE TagOf[p] \notin plan[s].tags
    <3>1. ~Available(TagOf[p])
        BY <2>1, <2>3 DEF ServingInv, IInv, ControlInv, SessionInv, UnplannedNotAvailable
    <3> QED
        BY <1>1, <3>1 DEF ServingInv, ServedInv, ArtifactsCurrent, Current, Available
  <2> QED
      BY <2>2, <2>3
<1>2. refs' = refs \/ \E moved \in SUBSET PushTags(s) : refs' = MovedRefs(s, moved)
    BY DEF CommitRefs, UpdateRefs, UpdateRefsFails, UpdateRefsKilled, gitVars
<1>3. ASSUME NEW p \in Pointers, pointers[p].available PROVE refs'[TagOf[p]] = refs[TagOf[p]]
    BY <1>1, <1>2, <1>3, PointerAssumption DEF MovedRefs
<1>4. UNCHANGED <<pointers, artifacts>>
    BY DEF CommitRefs, UpdateRefs, UpdateRefsFails, UpdateRefsKilled, servingVars
<1> QED
    BY <1>3, <1>4 DEF MovesInTheDark

\* Rows and refs that stay are closed by nobody.
LEMMA StaysClosed ==
    ASSUME UNCHANGED <<refs, pointers>>
    PROVE  OnlyCloses
BY DEF OnlyCloses

LEMMA ClosingCloses ==
    ASSUME ServingInv, NEW s \in Sessions, refs' = refs, ClosePointers(s)
    PROVE  OnlyCloses
<1> SUFFICES ASSUME NEW p \in Pointers, pointers'[p].available PROVE pointers[p].available
    BY DEF OnlyCloses
<1>1. pointers[p] \in PointerRows
    BY DEF ServingInv, IInv, TypeOK
<1>2. ~[pointers[p] EXCEPT !.available = FALSE].available
    BY <1>1 DEF PointerRows
<1> QED
    BY <1>2 DEF ClosePointers

\* A resolution finds all the pointers of its batch closed.
LEMMA ApplyOpens ==
    ASSUME ServingInv, NEW s \in Sessions, refs' = refs, NEW d, Apply(s, d)
    PROVE  OnlyOpens
<1> SUFFICES ASSUME NEW p \in Pointers, pointers[p].available PROVE pointers'[p].available
    BY DEF OnlyOpens
<1>1. p \notin Covered(s)
    BY DEF Apply, Complete, Abort, PointersAsPrepared
<1> QED
    BY <1>1 DEF Apply, Complete, Abort, CompletePointers

LEMMA ServingSteps ==
    ASSUME ServingInv, Next
    PROVE  OnlyCloses \/ OnlyOpens \/ MovesInTheDark
<1>1. ASSUME NEW s \in Sessions, Advertise(s) \/ Open(s) \/ Die(s) \/ Prepare(s)
      PROVE  OnlyCloses
  <2>1. CASE PersistPrepared(s) \/ PersistThenReject(s)
      BY <2>1, ClosingCloses DEF PersistPrepared, PersistThenReject, PrepareTransaction, gitVars
  <2>2. CASE Advertise(s) \/ Open(s) \/ Die(s) \/ AdmitUnplanned(s) \/ BuildPlan(s) \/ RejectPrepare(s)
      BY <2>2, StaysClosed
         DEF Advertise, Open, Die, AdmitUnplanned, BuildPlan, RejectPrepare, gitVars, servingVars
  <2> QED
      BY <1>1, <2>1, <2>2 DEF Prepare
<1>2. ASSUME NEW s \in Sessions, Finalize(s) PROVE OnlyCloses \/ OnlyOpens
  <2>1. CASE ResolveManual(s) \/ MarkManual(s)
      BY <2>1, ClosingCloses DEF ResolveManual, MarkManual, gitVars
  <2>2. CASE ResolveApply(s) \/ ResolveAckLost(s)
      BY <2>2, ApplyOpens DEF ResolveApply, ResolveAckLost, gitVars
  <2>3. CASE FinalizeResolved(s) \/ ResolveVerifyFails(s) \/ ResolveApplyFails(s)
      BY <2>3, StaysClosed
         DEF FinalizeResolved, ResolveVerifyFails, ResolveApplyFails, gitVars, servingVars
  <2> QED
      BY <1>2, <2>1, <2>2, <2>3 DEF Finalize
<1>3. ASSUME NEW r \in Reconcilers, Reconcile(r) PROVE OnlyCloses \/ OnlyOpens
  <2>0. job[r].at \in Sessions \cup {Nobody}
      BY DEF ServingInv, IInv, TypeOK, Jobs
  <2>1. CASE ReconcileApply(r)
      BY <2>0, <2>1, ApplyOpens DEF ReconcileApply, gitVars
  <2>2. CASE ReconcileManual(r)
      BY <2>0, <2>2, ClosingCloses, StaysClosed DEF ReconcileManual, gitVars
  <2>3. CASE ReconcileList(r) \/ (\E s \in Sessions : ReconcileObserve(r, s))
             \/ ReconcileSkip(r) \/ ReconcileFails(r)
      BY <2>3, StaysClosed
         DEF ReconcileList, ReconcileObserve, ReconcileSkip, ReconcileFails, gitVars, servingVars
  <2> QED
      BY <1>3, <2>1, <2>2, <2>3 DEF Reconcile
<1>4. CASE Manage
    BY <1>4, StaysClosed, ZenonT(60)
       DEF Manage, PublishVersion, SetDefaultVersion, ClearDefaultVersion, Archive, Restore,
           gitVars, servingVars
<1> QED
    BY <1>1, <1>2, <1>3, <1>4, CommitInTheDark DEF Next

\* Each kind of step is one of Serving's.
LEMMA ServingStep ==
    ASSUME TypeOK', ShownIsTip, ShownIsTip',
           OnlyCloses \/ OnlyOpens \/ MovesInTheDark
    PROVE  Served!Next
<1>0. \A p \in Pointers : TagOf[p] \in Tags
    BY PointerAssumption
<1>1. CASE OnlyCloses
  <2> DEFINE P == {p \in Pointers : ~pointers'[p].available}
  <2>1. Tip' = Tip
      BY <1>1 DEF OnlyCloses, Tip
  <2>2. ASSUME NEW p \in Pointers
        PROVE  Shown'[p] = IF p \in P THEN NoCommit ELSE Shown[p]
      BY <1>1, <2>2 DEF OnlyCloses, Shown, ShownIsTip
  <2>3. Shown' = [p \in Pointers |-> IF p \in P THEN NoCommit ELSE Shown[p]]
      BY <2>2 DEF Shown
  <2>4. Served!CloseSome(P)
      BY <2>1, <2>3 DEF Served!CloseSome
  <2> QED
      BY <2>4 DEF Served!Next
<1>2. CASE OnlyOpens
  <2> DEFINE P == {p \in Pointers : pointers'[p].available /\ ~pointers[p].available}
  <2>1. Tip' = Tip
      BY <1>2 DEF OnlyOpens, Tip
  <2>2. ASSUME NEW p \in P PROVE Shown[p] = NoCommit /\ Tip[TagOf[p]] # NoCommit
    <3>1. refs[TagOf[p]] \in Objects
        BY <1>0, <1>2 DEF OnlyOpens, ShownIsTip, TypeOK, ObjectIDs
    <3>2. CommitOf[refs[TagOf[p]]] \in Commits /\ refs[TagOf[p]] # NoObject
        BY <3>1, ObjectAssumption
    <3> QED
        BY <1>0, <3>2, ObjectAssumption DEF Shown, Tip, Peel
  <2>3. ASSUME NEW p \in Pointers
        PROVE  Shown'[p] = IF p \in P THEN Tip[TagOf[p]] ELSE Shown[p]
      BY <1>0, <1>2, <2>3 DEF OnlyOpens, Shown, ShownIsTip, Tip
  <2>4. Shown' = [p \in Pointers |-> IF p \in P THEN Tip[TagOf[p]] ELSE Shown[p]]
      BY <2>3 DEF Shown
  <2>5. Served!OpenSome(P)
      BY <2>1, <2>2, <2>4 DEF Served!OpenSome, Served!Dark
  <2> QED
      BY <2>5 DEF Served!Next
<1>3. CASE MovesInTheDark
  <2>1. Tip' \in [Tags -> Commits \cup {NoCommit}]
      BY ObjectAssumption DEF TypeOK, Tip, Peel, ObjectIDs
  <2>2. Shown' = Shown
      BY <1>3 DEF MovesInTheDark, Shown
  <2>3. ASSUME NEW p \in Pointers, Tip'[TagOf[p]] # Tip[TagOf[p]] PROVE Shown[p] = NoCommit
      BY <1>0, <1>3, <2>3 DEF MovesInTheDark, Shown, Tip
  <2>4. Served!MoveTags
      BY <2>1, <2>2, <2>3 DEF Served!MoveTags, Served!Dark
  <2> QED
      BY <2>4 DEF Served!Next
<1> QED
    BY <1>1, <1>2, <1>3

\* A pointer serves what its tag is in Git at that moment or nothing, and no tag
\* moves while a pointer of it serves: under both faults, and whoever dies where.
THEOREM ServingRefinement == Spec => ImplementsServing
<1>1. Init => Served!Init
  <2> SUFFICES ASSUME Init PROVE Served!Init
      OBVIOUS
  <2>1. Tip \in [Tags -> Commits \cup {NoCommit}]
      BY ObjectAssumption DEF Init, Tip, Peel, ObjectIDs
  <2>2. ASSUME NEW p \in Pointers PROVE Shown[p] = Tip[TagOf[p]] /\ Tip[TagOf[p]] # NoCommit
    <3>1. TagOf[p] \in Tags /\ refs[TagOf[p]] \in Objects
        BY PointerAssumption DEF Init, ObjectIDs
    <3>2. artifacts[<<Seed, p>>].commit = Peel(refs[TagOf[p]])
        BY DEF Init, Artifacts
    <3> QED
        BY <3>1, <3>2, ObjectAssumption DEF Init, Shown, Tip, Peel
  <2>3. Shown = [p \in Pointers |-> Tip[TagOf[p]]]
      BY <2>2 DEF Shown
  <2> QED
      BY <2>1, <2>2, <2>3 DEF Served!Init
<1>2. TypeOK' /\ ServingInv /\ ShownIsTip /\ ShownIsTip' /\ [Next]_vars => [Served!Next]_<<Tip, Shown>>
  <2>1. ASSUME UNCHANGED vars PROVE UNCHANGED <<Tip, Shown>>
      BY <2>1 DEF vars, gitVars, servingVars, Tip, Shown
  <2> QED
      BY <2>1, ServingSteps, ServingStep
<1>3. ServingInv => TypeOK /\ ShownIsTip
    BY ServesTip DEF ServingInv, IInv
<1> QED
    BY <1>1, <1>2, <1>3, ServingInvariance, PTL DEF Spec, ImplementsServing, Served!Spec
=============================================================================
