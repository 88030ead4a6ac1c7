------------------------------ MODULE ProjectionGC ------------------------------
(***************************************************************************)
(* The two collectors of unused projections: GCRunner.RunOnce              *)
(* (plugin/receive/gc.go) and Reconciler.RunProjectionGC                   *)
(* (plugin/recovery/recovery.go).  A job names an artifact; whoever claims *)
(* it removes the bytes the artifact row names and closes the job.  The    *)
(* runner trusts the job, the sweeper counts the pointers first, and each  *)
(* may meet the other's job in any state.                                  *)
(*                                                                         *)
(* Attempts are not counted.  The sweeper's compare-and-set on state and   *)
(* attempts succeeds exactly when nobody has changed the job since it was  *)
(* listed, as every claim increments attempts: `todo` loses a job when     *)
(* somebody else changes it.                                               *)
(***************************************************************************)
EXTENDS Naturals, FiniteSets

CONSTANTS Artifacts,   \* ids of artifacts, and of the projections built for them
          Commits,     \* what a projection can contain
          NoCommit,    \* no bytes
          NoArtifact,  \* NULL
          PointerIds,  \* ids of RevisionProjectionPointer rows
          Runners,     \* callers of RunOnce
          Sweepers,    \* callers of RunProjectionGC
          BatchSize    \* jobs one call of RunProjectionGC lists at most

VARIABLES disk,        \* stored projections: the commit each was built from
          artifacts,   \* ProjectionArtifact rows
          pointers,    \* RevisionProjectionPointer rows
          jobs,        \* state of the ProjectionGCJob of each artifact, if any
          collector    \* where each collector stands

gcVars == <<disk, artifacts, pointers, jobs, collector>>

Collectors == Runners \cup Sweepers
JobStates == {"none", "pending", "running", "completed", "manual_required"}
Idle == [todo |-> {}, at |-> NoArtifact, step |-> "idle"]

GCTypeOK ==
    /\ disk \in [Artifacts -> Commits \cup {NoCommit}]
    /\ jobs \in [Artifacts -> JobStates]
    /\ collector \in [Collectors -> [todo : SUBSET Artifacts,
                                     at : Artifacts \cup {NoArtifact},
                                     step : {"idle", "claimed", "counted", "removed"}]]

GCInit == /\ jobs = [a \in Artifacts |-> "none"]
          /\ collector = [g \in Collectors |-> Idle]

\* Claim and close change the job, so every list made before is out of date for it.
Claim(g, a) ==
    /\ jobs' = [jobs EXCEPT ![a] = "running"]
    /\ collector' = [h \in Collectors |->
          IF h = g THEN [todo |-> collector[g].todo \ {a}, at |-> a, step |-> "claimed"]
                   ELSE [collector[h] EXCEPT !.todo = @ \ {a}]]
    /\ UNCHANGED <<disk, artifacts, pointers>>

Close(g, state) ==
    LET a == collector[g].at IN
    /\ jobs' = [jobs EXCEPT ![a] = state]
    /\ collector' = [h \in Collectors |->
          IF h = g THEN [collector[g] EXCEPT !.at = NoArtifact, !.step = "idle"]
                   ELSE [collector[h] EXCEPT !.todo = @ \ {a}]]
    /\ UNCHANGED <<disk, artifacts, pointers>>

At(g, step) == collector' = [collector EXCEPT ![g].step = step]

\* RemoveProjection removes the directory that the artifact row names.
RemoveBytes(g) ==
    /\ disk' = [disk EXCEPT ![artifacts[collector[g].at].storage] = NoCommit]
    /\ At(g, "removed")
    /\ UNCHANGED <<artifacts, pointers, jobs>>

\* A database error, a cancelled context or a crash ends a collector between two steps.
Stop(g) == /\ collector[g] # Idle
           /\ collector' = [collector EXCEPT ![g] = Idle]
           /\ UNCHANGED <<disk, artifacts, pointers, jobs>>

-----------------------------------------------------------------------------
(* GCRunner.RunOnce                                                        *)

RunClaim(g) == /\ collector[g].step = "idle"
               /\ \E a \in Artifacts : jobs[a] = "pending" /\ Claim(g, a)

RunRemove(g) == collector[g].step = "claimed" /\ RemoveBytes(g)

\* failJob, and the completion, are compare-and-sets on "running".
RunClose(g, step, state) ==
    /\ collector[g].step = step
    /\ jobs[collector[g].at] = "running"
    /\ Close(g, state)

RunRemoveFails(g) == RunClose(g, "claimed", "pending")
RunComplete(g) == RunClose(g, "removed", "completed")

RunOnce(g) == \/ RunClaim(g) \/ RunRemove(g) \/ RunRemoveFails(g)
              \/ RunComplete(g) \/ Stop(g)

-----------------------------------------------------------------------------
(* Reconciler.RunProjectionGC                                              *)

SweepList(g) ==
    /\ collector[g] = Idle
    /\ \E due \in SUBSET {a \in Artifacts : jobs[a] \in {"pending", "running"}} :
         /\ Cardinality(due) \in 1 .. BatchSize
         /\ collector' = [collector EXCEPT ![g].todo = due]
    /\ UNCHANGED <<disk, artifacts, pointers, jobs>>

SweepClaim(g) == /\ collector[g].step = "idle"
                 /\ \E a \in collector[g].todo : Claim(g, a)

Referenced(a) == \E i \in PointerIds : pointers[i].artifact = a

SweepCount(g) == /\ collector[g].step = "claimed"
                 /\ ~Referenced(collector[g].at)
                 /\ At(g, "counted")
                 /\ UNCHANGED <<disk, artifacts, pointers, jobs>>

SweepRemove(g) == collector[g].step = "counted" /\ RemoveBytes(g)

\* gcManual and the completion write the row by id, whatever its state is by now.
SweepManual(g) == /\ IF collector[g].step = "claimed" THEN Referenced(collector[g].at)
                                                      ELSE collector[g].step = "counted"
                  /\ Close(g, "manual_required")

SweepComplete(g) == collector[g].step = "removed" /\ Close(g, "completed")

RunProjectionGC(g) == \/ SweepList(g) \/ SweepClaim(g) \/ SweepCount(g) \/ SweepRemove(g)
                      \/ SweepManual(g) \/ SweepComplete(g) \/ Stop(g)

Collect == \/ \E g \in Runners : RunOnce(g)
           \/ \E g \in Sweepers : RunProjectionGC(g)

-----------------------------------------------------------------------------
\* What any pointer names is never queued, and never given to a collector, so
\* neither collector can take the bytes of a served projection.
CollectedIsUnreferenced ==
    \A a \in Artifacts : jobs[a] # "none" => ~Referenced(a)
=============================================================================
