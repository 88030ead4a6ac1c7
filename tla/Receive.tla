------------------------------- MODULE Receive -------------------------------
(***************************************************************************)
(* The protected receive of one Plugin: a `git push` to its canonical tags *)
(* moves Git refs and SQL rows that no transaction covers together.  A     *)
(* push session takes the Plugin effect lock, builds the projections its   *)
(* moves need, writes a durable batch that closes the serving pointers,    *)
(* commits the refs with one `git update-ref` transaction, rereads them    *)
(* and resolves the batch.  A reconciler resolves what a dead session      *)
(* left.  The management operations of plugin/service.go that share the    *)
(* lock are here too.                                                      *)
(*                                                                         *)
(* Code: mod/git/receive.go, mod/backend/domain/plugin/receive/,           *)
(* recovery/ and service.go.                                               *)
(***************************************************************************)
EXTENDS Naturals

CONSTANTS
    Tags,        \* canonical tags of the Plugin
    Objects,     \* raw objects a tag ref can name (a commit or a tag object)
    NoObject,    \* no ref: the all-zero object id
    Commits,     \* commits
    NoCommit,    \* SQL NULL in a commit column
    CommitOf,    \* the commit an object peels to
    NoTag,       \* SQL NULL in default_version_tag
    Pointers,    \* serving pointers: one for each Marketplace revision item
    TagOf,       \* the tag a pointer's revision item selects
    Live,        \* the pointers of revisions that are active and published
    Published,   \* tags whose Version is available at the start
    Sessions,    \* push sessions; a session id is a fresh UUID, used once
    Reconcilers, \* callers of ReconcileReceives
    Nobody,      \* the effect lock is free, the reconciler has no batch
    Seed,        \* owner of the artifacts that publication built
    NoArtifact,  \* SQL NULL in artifact_id
    RefReadMayFail,      \* may `git rev-parse` fail on a ref that exists?
    CommitAckMayBeLost   \* may COMMIT take effect and report an error?

ASSUME ObjectAssumption ==
    /\ NoObject \notin Objects
    /\ NoCommit \notin Commits
    /\ CommitOf \in [Objects -> Commits]

ASSUME PointerAssumption ==
    /\ NoTag \notin Tags
    /\ Published \subseteq Tags
    /\ TagOf \in [Pointers -> Published]
    /\ Live \subseteq Pointers

ASSUME ActorAssumption ==
    /\ Nobody \notin Sessions \cup Reconcilers
    /\ Sessions \cap Reconcilers = {}
    /\ Seed \notin Sessions
    /\ NoArtifact \notin (Sessions \cup {Seed}) \X Pointers

ASSUME FaultAssumption ==
    /\ RefReadMayFail \in BOOLEAN
    /\ CommitAckMayBeLost \in BOOLEAN

ObjectIDs == Objects \cup {NoObject}

\* An artifact row and its bytes: <<s, p>> is built by session s for p.
Artifacts == (Sessions \cup {Seed}) \X Pointers

Peel(o) == IF o = NoObject THEN NoCommit ELSE CommitOf[o]

-----------------------------------------------------------------------------
VARIABLES
    refs,      \* Git: tag -> raw object id
    disk,      \* projections in storage
    plugin,    \* SQL: [status, archivedFrom, default]
    versions,  \* SQL: tag -> [status, raw]
    history,   \* SQL: tag -> its latest history row [op, old, new]
    pointers,  \* SQL: pointer -> [artifact, gen, available]
    artifacts, \* SQL: artifact -> [state, commit]
    gcJobs,    \* SQL: artifacts with a projection GC job
    batch,     \* SQL: session -> state of its batch, intents and transitions
    plan,      \* session -> [tags, gen, cur]: its plan, then the batch's rows
    push,      \* session -> [old, new]: what the client asks for
    pc,        \* session -> where its protected receive stands
    lock,      \* holder of the Plugin effect lock
    job        \* reconciler -> [todo, at, disposition]

gitVars     == <<refs, disk>>
versionVars == <<plugin, versions, history>>
servingVars == <<pointers, artifacts, gcJobs>>
sessionVars == <<push, pc>>
vars == <<gitVars, versionVars, servingVars, batch, plan, sessionVars, lock, job>>

BatchStates == {"none", "prepared", "completed", "aborted", "manual_required"}
Dispositions == {"completed", "aborted", "manual_required"}

\* Where a session stands: "built" and "admitted" lie inside Prepare,
\* "updated" and "failing" inside Finalize.
SessionStates == {"idle", "advertised", "opened", "built", "admitted",
                  "prepared", "updated", "failing", "done"}
Holding == {"opened", "built", "admitted", "prepared", "updated", "failing"}

\* Rows of the SQL tables and what the sessions and reconcilers hold.
PluginRows   == [status: {"draft", "active", "archived"},
                 archivedFrom: {"draft", "active", "none"}, default: Tags \cup {NoTag}]
VersionRows  == [status: {"none", "available", "deleted"}, raw: ObjectIDs]
HistoryRows  == [op: {"none", "publish", "restore", "move", "delete"},
                 old: Commits \cup {NoCommit}, new: Commits \cup {NoCommit}]
PointerRows  == [artifact: Artifacts \cup {NoArtifact}, gen: Nat, available: BOOLEAN]
ArtifactRows == [state: {"none", "staged", "ready", "failed"}, commit: Commits \cup {NoCommit}]
Plans        == [tags: SUBSET Tags, gen: [Pointers -> Nat],
                 cur: [Pointers -> Artifacts \cup {NoArtifact}]]
Pushes       == [old: [Tags -> ObjectIDs], new: [Tags -> ObjectIDs]]
Jobs         == [todo: SUBSET Sessions, at: Sessions \cup {Nobody}, disposition: Dispositions]

TypeOK ==
    /\ refs \in [Tags -> ObjectIDs]
    /\ disk \subseteq Artifacts
    /\ plugin \in PluginRows
    /\ versions \in [Tags -> VersionRows]
    /\ history \in [Tags -> HistoryRows]
    /\ pointers \in [Pointers -> PointerRows]
    /\ artifacts \in [Artifacts -> ArtifactRows]
    /\ gcJobs \subseteq Artifacts
    /\ batch \in [Sessions -> BatchStates]
    /\ plan \in [Sessions -> Plans]
    /\ push \in [Sessions -> Pushes]
    /\ pc \in [Sessions -> SessionStates]
    /\ lock \in Sessions \cup Reconcilers \cup {Nobody}
    /\ job \in [Reconcilers -> Jobs]

-----------------------------------------------------------------------------
(* What a push asks for and what its plan covers.                          *)

PushTags(s) == {t \in Tags : push[s].old[t] # push[s].new[t]}

\* The pointers the transitions of s's batch are about.
Covered(s) == {p \in Pointers : TagOf[p] \in plan[s].tags}

\* Whether the intent on t is a move; the other operation is delete.
Moves(s, t) == push[s].new[t] # NoObject

\* The pointers of s's plan with a staged artifact.
StagedFor(s) == {p \in Covered(s) : Moves(s, TagOf[p])}
Staged(s) == {<<s, p>> : p \in StagedFor(s)}

UnresolvedStates == {"prepared", "manual_required"}

\* A batch whose intent on t is prepared or manual_required.
Unresolved(t) == \E s \in Sessions : batch[s] \in UnresolvedStates /\ t \in plan[s].tags
UnresolvedReceiveExists == \E t \in Tags : Unresolved(t)

\* A completed batch of s deleted t.
Deleted(s, t) == batch[s] = "completed" /\ t \in plan[s].tags /\ ~Moves(s, t)

Available(t) == versions[t].status = "available"

EmptyPlan == [tags |-> {}, gen |-> [p \in Pointers |-> 0],
              cur |-> [p \in Pointers |-> NoArtifact]]

\* No command touches any tag.
NoPush == [old |-> [t \in Tags |-> NoObject], new |-> [t \in Tags |-> NoObject]]

IdleJob == [todo |-> {}, at |-> Nobody, disposition |-> "manual_required"]

Init ==
    /\ refs \in {r \in [Tags -> ObjectIDs] : \A t \in Published : r[t] # NoObject}
    /\ disk = {Seed} \X Pointers
    /\ plugin \in [status: {IF Published = {} THEN "draft" ELSE "active"},
                   archivedFrom: {"none"}, default: Published \cup {NoTag}]
    /\ versions = [t \in Tags |->
                     IF t \in Published THEN [status |-> "available", raw |-> refs[t]]
                                        ELSE [status |-> "none", raw |-> NoObject]]
    /\ history = [t \in Tags |->
                    IF t \in Published
                      THEN [op |-> "publish", old |-> NoCommit, new |-> Peel(refs[t])]
                      ELSE [op |-> "none", old |-> NoCommit, new |-> NoCommit]]
    /\ pointers = [p \in Pointers |->
                     [artifact |-> <<Seed, p>>, gen |-> 1, available |-> TRUE]]
    /\ artifacts = [a \in Artifacts |->
                      IF a[1] = Seed
                        THEN [state |-> "ready", commit |-> Peel(refs[TagOf[a[2]]])]
                        ELSE [state |-> "none", commit |-> NoCommit]]
    /\ gcJobs = {}
    /\ batch = [s \in Sessions |-> "none"]
    /\ plan = [s \in Sessions |-> EmptyPlan]
    /\ push = [s \in Sessions |-> NoPush]
    /\ pc = [s \in Sessions |-> "idle"]
    /\ lock = Nobody
    /\ job = [r \in Reconcilers |-> IdleJob]

-----------------------------------------------------------------------------
(* The push session: admission.                                            *)

Goto(s, state) == pc' = [pc EXCEPT ![s] = state]

\* The session ends and its coordination is closed.
Close(s) == Goto(s, "done") /\ lock' = Nobody

\* The client reads the ref advertisement and chooses its commands; it takes
\* no lock, so every old object id may be stale when the push arrives.
Advertise(s) ==
    /\ pc[s] = "idle"
    /\ \E new \in [Tags -> ObjectIDs] :
         /\ new # refs
         /\ push' = [push EXCEPT ![s] = [old |-> refs, new |-> new]]
    /\ Goto(s, "advertised")
    /\ UNCHANGED <<gitVars, versionVars, servingVars, batch, plan, lock, job>>

\* Coordinator.Open: LockPlugin, then the Plugin must not be archived.
Open(s) ==
    /\ pc[s] = "advertised"
    /\ lock = Nobody
    /\ IF plugin.status = "archived"
         THEN Goto(s, "done") /\ UNCHANGED lock
         ELSE Goto(s, "opened") /\ lock' = s
    /\ UNCHANGED <<gitVars, versionVars, servingVars, batch, plan, push, job>>

\* Fault: a deletion moves without a batch, too.
PlannedMoves(s) == {t \in PushTags(s) : Available(t) /\ push[s].new[t] # NoObject}

\* Only available Versions are planned: other tags move without a batch.
PlannedTags(s) == {t \in PushTags(s) : Available(t)}

\* preflightPlans: no other receive of the tag is unresolved.
NoOtherReceive(t) == ~Unresolved(t)

\* preflightPlans: an active published revision keeps a tag from being deleted.
DeleteUnchecked(s, t) == TRUE  \* fault: the check is forgotten
DeleteAllowed(s, t) == Moves(s, t) \/ \A p \in Live : TagOf[p] # t

\* coordination.classify and preflightPlans, for one planned tag.
Admissible(s, t) ==
    /\ push[s].old[t] # NoObject
    /\ push[s].old[t] = versions[t].raw
    /\ NoOtherReceive(t)
    /\ DeleteAllowed(s, t)
    /\ \A p \in Pointers : TagOf[p] = t =>
         /\ pointers[p].available
         /\ pointers[p].artifact # NoArtifact
         /\ artifacts[pointers[p].artifact].state = "ready"
         /\ artifacts[pointers[p].artifact].commit = Peel(push[s].old[t])

\* Prepare with nothing to plan: the refs may move, no batch is written.
AdmitUnplanned(s) ==
    /\ pc[s] = "opened"
    /\ PlannedTags(s) = {}
    /\ Goto(s, "admitted")
    /\ UNCHANGED <<gitVars, versionVars, servingVars, batch, plan, push, lock, job>>

\* Prepare up to persistPrepared: classify, preflight and build one projection
\* for each pointer of each moved tag.
BuildPlan(s) ==
    /\ pc[s] = "opened"
    /\ PlannedTags(s) # {}
    /\ \A t \in PlannedTags(s) : Admissible(s, t)
    /\ plan' = [plan EXCEPT ![s] = [tags |-> PlannedTags(s),
                                    gen |-> [p \in Pointers |-> pointers[p].gen],
                                    cur |-> [p \in Pointers |-> pointers[p].artifact]]]
    /\ disk' = disk \cup {<<s, p>> : p \in {q \in Pointers :
                            TagOf[q] \in PlannedTags(s) /\ Moves(s, TagOf[q])}}
    /\ Goto(s, "built")
    /\ UNCHANGED <<refs, versionVars, servingVars, batch, push, lock, job>>

\* Prepare returns an error: a tag was rejected, a build or a query failed.
\* What was built is removed and the lock is released.
RejectPrepare(s) ==
    /\ pc[s] \in {"opened", "built"}
    /\ disk' = disk \ Staged(s)
    /\ plan' = [plan EXCEPT ![s] = EmptyPlan]
    /\ Close(s)
    /\ UNCHANGED <<refs, versionVars, servingVars, batch, push, job>>

\* Fault: a delete, which stages no artifact, leaves its pointers open.
CloseMovedPointers(s) ==
    pointers' = [p \in Pointers |->
      IF p \in StagedFor(s) THEN [pointers[p] EXCEPT !.available = FALSE] ELSE pointers[p]]

\* The pointers of s's batch stop serving.
ClosePointers(s) ==
    pointers' = [p \in Pointers |->
      IF p \in Covered(s) THEN [pointers[p] EXCEPT !.available = FALSE] ELSE pointers[p]]

\* The transaction of persistPrepared: batch, intents, staged artifacts and
\* transitions are created and every pointer is closed by compare-and-set.
PrepareTransaction(s) ==
    /\ \A p \in Covered(s) : /\ pointers[p].gen = plan[s].gen[p]
                             /\ pointers[p].available
                             /\ pointers[p].artifact = plan[s].cur[p]
    /\ batch' = [batch EXCEPT ![s] = "prepared"]
    /\ artifacts' = [a \in Artifacts |->
                       IF a \in Staged(s)
                         THEN [state |-> "staged", commit |-> Peel(push[s].new[TagOf[a[2]]])]
                         ELSE artifacts[a]]
    /\ ClosePointers(s)

PersistPrepared(s) ==
    /\ pc[s] = "built"
    /\ PrepareTransaction(s)
    /\ Goto(s, "prepared")
    /\ UNCHANGED <<gitVars, versionVars, gcJobs, plan, push, lock, job>>

\* The batch is durable but the transaction's answer is lost or loadPrepared
\* fails: Prepare removes what it built and rejects the push.
PersistThenReject(s) ==
    /\ pc[s] = "built"
    /\ PrepareTransaction(s)
    /\ disk' = disk \ Staged(s)
    /\ Close(s)
    /\ UNCHANGED <<refs, versionVars, gcJobs, plan, push, job>>

-----------------------------------------------------------------------------
(* The push session: the ref transaction.                                  *)

OldRefsMatch(s) == \A t \in PushTags(s) : refs[t] = push[s].old[t]

MovedRefs(s, moved) == [t \in Tags |-> IF t \in moved THEN push[s].new[t] ELSE refs[t]]

\* `git update-ref --stdin` commits every command of the push.
UpdateRefs(s) ==
    /\ pc[s] \in {"admitted", "prepared"}
    /\ OldRefsMatch(s)
    /\ refs' = MovedRefs(s, PushTags(s))
    /\ Goto(s, "updated")
    /\ UNCHANGED <<disk, versionVars, servingVars, batch, plan, push, lock, job>>

\* It fails and leaves the refs alone: an old object id was stale, a ref lock
\* was taken, the command could not run.
UpdateRefsFails(s) ==
    /\ pc[s] \in {"admitted", "prepared"}
    /\ Goto(s, "updated")
    /\ UNCHANGED <<gitVars, versionVars, servingVars, batch, plan, push, lock, job>>

\* It is killed as it renames one ref after the other.  When the push's own
\* context killed it, Finalize fails as well: that is Die after this step.
UpdateRefsKilled(s) ==
    /\ pc[s] \in {"admitted", "prepared"}
    /\ OldRefsMatch(s)
    /\ \E moved \in SUBSET PushTags(s) : refs' = MovedRefs(s, moved)
    /\ Goto(s, "updated")
    /\ UNCHANGED <<disk, versionVars, servingVars, batch, plan, push, lock, job>>

-----------------------------------------------------------------------------
(* Resolving a batch: what sessions and reconcilers have in common.        *)

\* ReadPluginRef: any failure of rev-parse reads as a ref that does not exist.
PossibleReads(t) == {refs[t]} \cup (IF RefReadMayFail THEN {NoObject} ELSE {})

Observations(s) == {o \in [Tags -> ObjectIDs] :
                      \A t \in plan[s].tags : o[t] \in PossibleReads(t)}

\* Fault: one ref that moved stands for all of them.
ClassifyAnyMoved(s, observed) ==
    IF \E t \in plan[s].tags : observed[t] = push[s].new[t] THEN "completed" ELSE "aborted"

\* Fault: what is not completed is taken for aborted.
ClassifyRestAborted(s, observed) ==
    IF \A t \in plan[s].tags : observed[t] = push[s].new[t] THEN "completed" ELSE "aborted"

\* ClassifyReceiveResolution, classifyResolution and recovery.classify.
Classify(s, observed) ==
    IF \A t \in plan[s].tags : observed[t] = push[s].new[t] THEN "completed"
    ELSE IF \A t \in plan[s].tags : observed[t] = push[s].old[t] THEN "aborted"
    ELSE "manual_required"

\* The dispositions a reader of the refs may arrive at.
Observed(s) == {Classify(s, o) : o \in Observations(s)}

\* Compare-and-set on the pointers of the batch.
PointersAsPrepared(s) ==
    \A p \in Covered(s) : /\ pointers[p].gen = plan[s].gen[p]
                          /\ ~pointers[p].available
                          /\ pointers[p].artifact = plan[s].cur[p]

\* completeIntent: a delete clears the default it deletes.
DeletesNoDefault(s) == FALSE  \* fault: the default is forgotten
DeletesDefault(s) == \E t \in plan[s].tags : plugin.default = t /\ ~Moves(s, t)

HistoryRowOfRefs(s, t) ==  \* fault: the old commit is read back from Git
    [op |-> IF Moves(s, t) THEN "move" ELSE "delete",
     old |-> Peel(refs[t]), new |-> Peel(push[s].new[t])]
HistoryRow(s, t) ==
    [op |-> IF Moves(s, t) THEN "move" ELSE "delete",
     old |-> Peel(push[s].old[t]), new |-> Peel(push[s].new[t])]

CompleteVersions(s) ==
    /\ versions' = [t \in Tags |->
         IF t \notin plan[s].tags THEN versions[t]
         ELSE IF Moves(s, t) THEN [status |-> "available", raw |-> push[s].new[t]]
         ELSE [status |-> "deleted", raw |-> NoObject]]
    /\ plugin' = IF DeletesDefault(s) THEN [plugin EXCEPT !.default = NoTag] ELSE plugin
    /\ history' = [t \in Tags |->
         IF t \in plan[s].tags THEN HistoryRow(s, t) ELSE history[t]]

\* completeIntent and completeTransition: the pointer row after completion.
SwitchedReopening(s, p) ==  \* fault: a delete reopens the pointer it found
    [artifact |-> IF Moves(s, TagOf[p]) THEN <<s, p>> ELSE plan[s].cur[p],
     gen |-> plan[s].gen[p] + 1, available |-> TRUE]
Switched(s, p) ==
    [artifact |-> IF Moves(s, TagOf[p]) THEN <<s, p>> ELSE NoArtifact,
     gen |-> plan[s].gen[p] + 1, available |-> Moves(s, TagOf[p])]

CompletePointers(s) ==
    /\ artifacts' = [a \in Artifacts |->
         IF a \in Staged(s) THEN [artifacts[a] EXCEPT !.state = "ready"] ELSE artifacts[a]]
    /\ pointers' = [p \in Pointers |-> IF p \in Covered(s) THEN Switched(s, p) ELSE pointers[p]]
    /\ gcJobs' = gcJobs \cup ({plan[s].cur[p] : p \in Covered(s)} \ {NoArtifact})

\* The completing transaction of applyResolution and applyReceive.
Complete(s) ==
    /\ batch[s] = "prepared"
    /\ \A t \in plan[s].tags : Available(t) /\ versions[t].raw = push[s].old[t]
    /\ PointersAsPrepared(s)
    /\ \A a \in Staged(s) : artifacts[a].state = "staged"
    /\ batch' = [batch EXCEPT ![s] = "completed"]
    /\ CompleteVersions(s)
    /\ CompletePointers(s)

\* abortIntent and abortTransition queue the staged projections.
CurrentOfAborted(s) ==  \* fault: the current ones are queued instead
    {plan[s].cur[p] : p \in StagedFor(s)}
Abandoned(s) == Staged(s)

\* The aborting transaction: the pointers open on what they served before.
Abort(s) ==
    /\ batch[s] = "prepared"
    /\ PointersAsPrepared(s)
    /\ batch' = [batch EXCEPT ![s] = "aborted"]
    /\ pointers' = [p \in Pointers |->
         IF p \in Covered(s) THEN [pointers[p] EXCEPT !.available = TRUE] ELSE pointers[p]]
    /\ gcJobs' = gcJobs \cup Abandoned(s)
    /\ UNCHANGED <<versionVars, artifacts>>

\* The transaction of one disposition.
Apply(s, disposition) ==
    \/ disposition = "completed" /\ Complete(s)
    \/ disposition = "aborted" /\ Abort(s)

\* markManual and manualBatch update the batch unless it is resolved.
FailAnyBatch(s) == batch' = [batch EXCEPT ![s] = "manual_required"]  \* fault: always
FailBatch(s) ==
    batch' = [batch EXCEPT ![s] =
                IF @ \in {"completed", "aborted"} THEN @ ELSE "manual_required"]

-----------------------------------------------------------------------------
(* The push session: Finalize.                                             *)

\* Finalize without a batch, or Resolve of a batch that is already terminal.
FinalizeResolved(s) ==
    /\ pc[s] = "updated"
    /\ batch[s] # "prepared"
    /\ Close(s)
    /\ UNCHANGED <<gitVars, versionVars, servingVars, batch, plan, push, job>>

\* Resolve: the refs are neither all old nor all proposed.
ResolveManual(s) ==
    /\ pc[s] = "updated"
    /\ batch[s] = "prepared"
    /\ "manual_required" \in Observed(s)
    /\ FailBatch(s)
    /\ ClosePointers(s)
    /\ Close(s)
    /\ UNCHANGED <<gitVars, versionVars, artifacts, gcJobs, plan, push, job>>

\* Resolve: every staged projection verifies and the transaction commits.
ResolveApply(s) ==
    /\ pc[s] = "updated"
    /\ \E disposition \in Observed(s) :
         /\ disposition = "completed" => Staged(s) \subseteq disk
         /\ Apply(s, disposition)
    /\ Close(s)
    /\ UNCHANGED <<gitVars, plan, push, job>>

\* Resolve: VerifyProjection fails on a staged projection.  The artifact is
\* marked in a transaction of its own, before markManual.
ResolveVerifyFails(s) ==
    /\ pc[s] = "updated"
    /\ batch[s] = "prepared"
    /\ "completed" \in Observed(s)
    /\ \E a \in Staged(s) : artifacts' = [artifacts EXCEPT ![a].state = "failed"]
    /\ Goto(s, "failing")
    /\ UNCHANGED <<gitVars, versionVars, pointers, gcJobs, batch, plan, push, lock, job>>

\* Resolve: the transaction rolls back, on a lost compare-and-set or an error.
ResolveApplyFails(s) ==
    /\ pc[s] = "updated"
    /\ batch[s] = "prepared"
    /\ Observed(s) # {"manual_required"}
    /\ Goto(s, "failing")
    /\ UNCHANGED <<gitVars, versionVars, servingVars, batch, plan, push, lock, job>>

\* Resolve: the transaction commits and its answer is lost.
ResolveAckLost(s) ==
    /\ CommitAckMayBeLost
    /\ pc[s] = "updated"
    /\ \E disposition \in Observed(s) :
         /\ disposition = "completed" => Staged(s) \subseteq disk
         /\ Apply(s, disposition)
    /\ Goto(s, "failing")
    /\ UNCHANGED <<gitVars, plan, push, lock, job>>

\* markManual, after a failure inside Resolve.  The pointers are closed
\* whatever the state of the batch.
MarkManual(s) ==
    /\ pc[s] = "failing"
    /\ FailBatch(s)
    /\ ClosePointers(s)
    /\ Close(s)
    /\ UNCHANGED <<gitVars, versionVars, artifacts, gcJobs, plan, push, job>>

\* The session ends between two steps: a crash of the server, a cancelled
\* request, a query that fails in Finalize.  Only the lock is given back.
Die(s) ==
    /\ pc[s] \in Holding \cup {"advertised"}
    /\ Goto(s, "done")
    /\ lock' = IF lock = s THEN Nobody ELSE lock
    /\ UNCHANGED <<gitVars, versionVars, servingVars, batch, plan, push, job>>

Prepare(s) == AdmitUnplanned(s) \/ BuildPlan(s) \/ RejectPrepare(s)
              \/ PersistPrepared(s) \/ PersistThenReject(s)
CommitRefs(s) == UpdateRefs(s) \/ UpdateRefsFails(s) \/ UpdateRefsKilled(s)
Finalize(s) == FinalizeResolved(s) \/ ResolveManual(s) \/ ResolveApply(s)
               \/ ResolveVerifyFails(s) \/ ResolveApplyFails(s)
               \/ ResolveAckLost(s) \/ MarkManual(s)

-----------------------------------------------------------------------------
(* The reconciler: recovery.go.                                            *)

\* ReconcileReceives lists the prepared batches before it takes any lock.
ReconcileList(r) ==
    /\ job[r].todo = {}
    /\ \E s \in Sessions : batch[s] = "prepared"
    /\ job' = [job EXCEPT ![r].todo = {s \in Sessions : batch[s] = "prepared"}]
    /\ UNCHANGED <<gitVars, versionVars, servingVars, batch, plan, sessionVars, lock>>

\* verifyStaged: the artifact must still be staged and its bytes must verify.
StagedVerifies(s) == \A a \in Staged(s) : artifacts[a].state = "staged" /\ a \in disk

\* reconcileBatch up to its transaction: lock, read the refs, classify, verify.
\* Whatever the refs say, a failed read of the repository row, a ref read under
\* another name and a verification that fails all lead to manual_required.
ReconcileObserve(r, s) ==
    /\ job[r].at = Nobody
    /\ s \in job[r].todo
    /\ lock = Nobody
    /\ lock' = r
    /\ \E read \in Observed(s) : \E disposition \in {read, "manual_required"} :
         /\ disposition = "completed" => StagedVerifies(s)
         /\ job' = [job EXCEPT ![r].at = s, ![r].disposition = disposition]
    /\ UNCHANGED <<gitVars, versionVars, servingVars, batch, plan, sessionVars>>

\* Fault: the deferred unlock is missing.
ReconcileNextHolding(r) ==
    /\ job' = [job EXCEPT ![r] = [IdleJob EXCEPT !.todo = job[r].todo \ {job[r].at}]]
    /\ UNCHANGED lock

\* reconcileBatch ends without an error and the run goes on.
ReconcileNext(r) ==
    /\ job' = [job EXCEPT ![r] = [IdleJob EXCEPT !.todo = job[r].todo \ {job[r].at}]]
    /\ lock' = Nobody

\* applyReceive: the batch's deterministic outcome, if it is still prepared.
ReconcileApply(r) ==
    /\ job[r].at # Nobody
    /\ LET s == job[r].at IN Apply(s, job[r].disposition)
    /\ ReconcileNext(r)
    /\ UNCHANGED <<gitVars, plan, sessionVars>>

\* applyReceive: somebody resolved the batch since it was listed.
ReconcileSkip(r) ==
    /\ job[r].at # Nobody
    /\ job[r].disposition # "manual_required"
    /\ batch[job[r].at] \in {"completed", "aborted"}
    /\ ReconcileNext(r)
    /\ UNCHANGED <<gitVars, versionVars, servingVars, batch, plan, sessionVars>>

\* manualBatch closes the pointers of transitions that are not resolved;
\* markManual closes them all.
ClosesAlways(s) == TRUE  \* fault: manualBatch does as markManual
ClosesUnresolved(s) == batch[s] \notin {"completed", "aborted"}

ReconcileManual(r) ==
    /\ job[r].at # Nobody
    /\ job[r].disposition = "manual_required"
    /\ LET s == job[r].at IN
         /\ FailBatch(s)
         /\ IF ClosesUnresolved(s) THEN ClosePointers(s) ELSE UNCHANGED pointers
    /\ ReconcileNext(r)
    /\ UNCHANGED <<gitVars, versionVars, artifacts, gcJobs, plan, sessionVars>>

\* Any error ends the run: the lock timed out, a query failed, a
\* compare-and-set was lost, the process crashed.
ReconcileFails(r) ==
    /\ job[r].todo # {}
    /\ job' = [job EXCEPT ![r] = IdleJob]
    /\ lock' = IF lock = r THEN Nobody ELSE lock
    /\ UNCHANGED <<gitVars, versionVars, servingVars, batch, plan, sessionVars>>

Reconcile(r) == \/ ReconcileList(r)
                \/ \E s \in Sessions : ReconcileObserve(r, s)
                \/ ReconcileApply(r) \/ ReconcileSkip(r) \/ ReconcileManual(r)
                \/ ReconcileFails(r)

-----------------------------------------------------------------------------
(* The management operations: each runs from LockPlugin to unlock without a *)
(* step of another lock holder in between, so each is one action.           *)

\* Publish of the tag's object must not overwrite what a receive relies on.
PublishesAnything(t) == TRUE  \* fault: neither check is made
Publishable(t) == /\ ~UnresolvedReceiveExists
                  /\ Available(t) => versions[t].raw = refs[t]

\* Service.Publish of a tag, as it is in Git.
PublishVersion(t, makeDefault) ==
    /\ lock = Nobody
    /\ plugin.status # "archived"
    /\ refs[t] # NoObject
    /\ Publishable(t)
    /\ versions' = [versions EXCEPT ![t] = [status |-> "available", raw |-> refs[t]]]
    /\ history' = IF Available(t) THEN history
                  ELSE [history EXCEPT ![t] =
                          [op |-> IF versions[t].status = "none" THEN "publish" ELSE "restore",
                           old |-> NoCommit, new |-> Peel(refs[t])]]
    /\ plugin' = [plugin EXCEPT !.status = "active",
                                !.default = IF makeDefault THEN t ELSE @]
    /\ UNCHANGED <<gitVars, servingVars, batch, plan, sessionVars, lock, job>>

\* Service.SetDefaultVersion.
SetDefaultVersion(t) ==
    /\ lock = Nobody
    /\ ~UnresolvedReceiveExists
    /\ plugin.status # "archived"
    /\ Available(t)
    /\ plugin' = [plugin EXCEPT !.default = t]
    /\ UNCHANGED <<gitVars, versions, history, servingVars, batch, plan, sessionVars, lock, job>>

\* Service.ClearDefaultVersion.
ClearDefaultVersion ==
    /\ lock = Nobody
    /\ ~UnresolvedReceiveExists
    /\ plugin.status # "archived"
    /\ plugin' = [plugin EXCEPT !.default = NoTag]
    /\ UNCHANGED <<gitVars, versions, history, servingVars, batch, plan, sessionVars, lock, job>>

\* Fault: Archive does not take the Plugin effect lock.
ArchiveUnlocked ==
    /\ plugin.status # "archived"
    /\ plugin' = [plugin EXCEPT !.status = "archived", !.archivedFrom = plugin.status]
    /\ UNCHANGED <<gitVars, versions, history, servingVars, batch, plan, sessionVars, lock, job>>

\* Service.Archive; it does not ask for unresolved receives.
Archive ==
    /\ lock = Nobody
    /\ plugin.status # "archived"
    /\ plugin' = [plugin EXCEPT !.status = "archived", !.archivedFrom = plugin.status]
    /\ UNCHANGED <<gitVars, versions, history, servingVars, batch, plan, sessionVars, lock, job>>

\* Service.Restore.
Restore ==
    /\ lock = Nobody
    /\ plugin.status = "archived"
    /\ plugin.archivedFrom # "none"
    /\ plugin' = [plugin EXCEPT !.status = plugin.archivedFrom, !.archivedFrom = "none"]
    /\ UNCHANGED <<gitVars, versions, history, servingVars, batch, plan, sessionVars, lock, job>>

Manage == \/ \E t \in Tags, makeDefault \in BOOLEAN : PublishVersion(t, makeDefault)
          \/ \E t \in Tags : SetDefaultVersion(t)
          \/ ClearDefaultVersion \/ Archive \/ Restore

Next == \/ \E s \in Sessions : Advertise(s) \/ Open(s) \/ Prepare(s) \/ CommitRefs(s)
                               \/ Finalize(s) \/ Die(s)
        \/ \E r \in Reconcilers : Reconcile(r)
        \/ Manage

Spec == Init /\ [][Next]_vars

-----------------------------------------------------------------------------
(* Safety.                                                                 *)

\* The Version of a tag without an unresolved receive names the object the Git
\* ref names: finalize and recovery leave SQL and Git in agreement although no
\* transaction covers both.
RefVersionAgreement ==
    \A t \in Tags : Available(t) /\ ~Unresolved(t) => versions[t].raw = refs[t]

\* A pointer with an unresolved transition serves nothing, from the durable
\* prepare until the batch completes or aborts: distribution reads fail closed.
PointerFailClosed ==
    \A s \in Sessions : batch[s] \in UnresolvedStates =>
        \A p \in Covered(s) : ~pointers[p].available

\* What a pointer serves is ready, in storage, and built from the commit its
\* available Version names: no push sequence serves stale or missing bytes.
ServedProjectionCurrent ==
    \A p \in Pointers : pointers[p].available =>
        LET a == pointers[p].artifact
            v == versions[TagOf[p]] IN
        /\ a \in disk
        /\ artifacts[a].state = "ready"
        /\ v.status = "available"
        /\ artifacts[a].commit = Peel(v.raw)

\* The default Version is an available one, whoever deletes it: a live session
\* or a reconciler long after the push.
DefaultIsAvailable == plugin.default # NoTag => Available(plugin.default)

\* A tag has at most one unresolved receive: preflight refuses the second push.
OneUnresolvedPerTag ==
    \A s1, s2 \in Sessions :
        /\ {batch[s1], batch[s2]} \subseteq UnresolvedStates
        /\ plan[s1].tags \cap plan[s2].tags # {}
        => s1 = s2

\* Whatever happens between a crash and the reconciler, every compare-and-set of
\* a prepared batch still matches: the batch can be finalized or aborted.
PreparedCanResolve ==
    \A s \in Sessions : batch[s] = "prepared" =>
        /\ \A t \in plan[s].tags : Available(t) /\ versions[t].raw = push[s].old[t]
        /\ PointersAsPrepared(s)

\* A projection queued for deletion is no pointer's artifact and no unresolved
\* batch's staged artifact: the collector never deletes what may be served.
CollectedIsUnused ==
    \A a \in gcJobs :
        /\ \A p \in Pointers : pointers[p].artifact # a
        /\ \A s \in Sessions : batch[s] \in UnresolvedStates => a \notin Staged(s)

\* A pointer that serves nothing waits for a receive of its tag, or a completed
\* deletion of its tag emptied it: no late session and no reconciler with an old
\* list closes the pointers of a move that was resolved.  An emptied pointer
\* stays closed even when a later Publish makes its Version available again.
ClosedForAReason ==
    \A p \in Pointers : \/ pointers[p].available
                        \/ Unresolved(TagOf[p])
                        \/ \E s \in Sessions : Deleted(s, TagOf[p])

\* No push and no recovery deletes a Version that an active published
\* Marketplace revision selects.
LiveItemsAvailable == \A p \in Live : Available(TagOf[p])

-----------------------------------------------------------------------------
(* The inductive invariant behind the safety properties.                   *)

\* The Plugin effect lock excludes: whoever is inside its steps holds it.
LockHeld ==
    /\ \A s \in Sessions : pc[s] \in Holding => lock = s
    /\ \A r \in Reconcilers : job[r].at # Nobody => lock = r

\* A session has no plan before it builds one and no batch before it persists it.
SessionStage(s) ==
    /\ pc[s] \in {"idle", "advertised", "opened", "admitted"} =>
         batch[s] = "none" /\ plan[s].tags = {}
    /\ pc[s] = "built" => batch[s] = "none"
    /\ pc[s] = "prepared" => batch[s] = "prepared"
    /\ pc[s] = "failing" => batch[s] # "none"

\* What classify and preflight saw is still so when the batch is persisted.
BuiltStillAdmissible(s) ==
    pc[s] = "built" =>
        \A t \in plan[s].tags : /\ Available(t)
                                /\ versions[t].raw = push[s].old[t]
                                /\ ~Unresolved(t)

\* A tag that moves without an intent has no available Version.
UnplannedNotAvailable(s) ==
    pc[s] \in {"built", "admitted", "prepared"} =>
        \A t \in PushTags(s) \ plan[s].tags : ~Available(t)

SessionInv(s) == SessionStage(s) /\ BuiltStillAdmissible(s) /\ UnplannedNotAvailable(s)

\* A reconciler works on sessions that have a batch.
JobsHaveBatches ==
    \A r \in Reconcilers : \A s \in Sessions :
        s \in job[r].todo \/ s = job[r].at => batch[s] # "none"

AvailableHasObject == \A t \in Tags : Available(t) => versions[t].raw # NoObject

\* A reconciler applies what the refs still say.  A deletion it believes in may
\* be a failed read.
ReadStillTrue ==
    \A r \in Reconcilers : job[r].at # Nobody /\ batch[job[r].at] = "prepared" =>
        LET s == job[r].at IN
        \A t \in plan[s].tags :
          /\ job[r].disposition = "completed" /\ (Moves(s, t) \/ ~RefReadMayFail)
               => refs[t] = push[s].new[t]
          /\ job[r].disposition = "aborted" => refs[t] = push[s].old[t]

\* The part about rows and refs, and the part about who does what.
DataInv == /\ PreparedCanResolve
           /\ OneUnresolvedPerTag
           /\ PointerFailClosed
           /\ RefVersionAgreement
           /\ AvailableHasObject

ControlInv == /\ LockHeld
              /\ \A s \in Sessions : SessionInv(s)
              /\ JobsHaveBatches
              /\ ReadStillTrue

\* Every property of Spec proved in ReceiveProofs follows from this conjunction,
\* which every step of a session, a reconciler or a manager preserves.
IInv == TypeOK /\ DataInv /\ ControlInv

-----------------------------------------------------------------------------
(* Action properties.                                                      *)

\* The outcome of a batch is decided once: a reconciler that works from an old
\* list, or a second run, never changes it.
OutcomeIsFinal ==
    [][\A s \in Sessions : batch[s] \in {"completed", "aborted", "manual_required"}
                              => batch'[s] = batch[s]]_vars

\* A batch completes only when every ref of it is where the push proposed, and
\* aborts only when every ref is where it was.
OutcomeMatchesRefs ==
    [][\A s \in Sessions : batch[s] = "prepared" =>
         /\ batch'[s] = "completed" => \A t \in plan[s].tags : refs[t] = push[s].new[t]
         /\ batch'[s] = "aborted" => \A t \in plan[s].tags : refs[t] = push[s].old[t]]_vars

\* Each history row of a tag starts at the commit where the row before it ended.
HistoryIsAChain ==
    [][\A t \in Tags : history'[t] # history[t] => history'[t].old = history[t].new]_vars

\* While the Plugin is archived no push moves its refs, one that was admitted
\* before the archive included.
ArchivedRefsFrozen == [][plugin.status = "archived" => refs' = refs]_vars

-----------------------------------------------------------------------------
(* What all of this is for: Serving, which knows of refs and pointers only. *)

Tip == [t \in Tags |-> Peel(refs[t])]
Shown == [p \in Pointers |->
            IF pointers[p].available THEN artifacts[pointers[p].artifact].commit ELSE NoCommit]

Served == INSTANCE Serving WITH tip <- Tip, shown <- Shown

\* What a pointer serves is the commit its tag has in Git at that moment, and a tag
\* only moves while its pointers serve nothing, whatever dies or fails: prepare,
\* `git update-ref`, resolution and recovery together implement Serving.
ImplementsServing == Served!Spec

-----------------------------------------------------------------------------
(* Liveness.  A session runs under the deadline of Service.ReceivePack and *)
(* a reconciler under its caller's context, so whoever holds the lock goes *)
(* on to its end.  Nothing in the code calls the reconciler: no fairness   *)
(* is assumed of its start.                                                *)

SessionProgress(s) == Prepare(s) \/ CommitRefs(s) \/ Finalize(s) \/ (pc[s] \in Holding /\ Die(s))
ReconcileResolve(r) == ReconcileApply(r) \/ ReconcileSkip(r) \/ ReconcileManual(r)

Fairness ==
    /\ \A s \in Sessions : WF_vars(SessionProgress(s))
    /\ \A r \in Reconcilers :
         WF_vars(job[r].at # Nobody /\ (ReconcileResolve(r) \/ ReconcileFails(r)))

FairSpec == Spec /\ Fairness

\* The effect lock comes free again, however the session or the reconciler that
\* took it goes on: a rejection, a failure at any step, a lost answer, a batch
\* that somebody else resolved.
LockComesFree == lock # Nobody ~> lock = Nobody
=============================================================================
