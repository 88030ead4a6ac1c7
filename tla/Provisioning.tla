----------------------------- MODULE Provisioning -----------------------------
(***************************************************************************)
(* Creating Plugins and collecting what a failed creation leaves behind.   *)
(* A repository is initialised on disk first, under a fresh id, then the   *)
(* Plugin and Repository rows are inserted in one transaction; a failed    *)
(* transaction is compensated by removing the repository, a failed removal *)
(* by a cleanup row.  A sweep removes aged repositories without a row.     *)
(*                                                                         *)
(* Code: mod/backend/domain/plugin/service.go Create, repository.go Create,*)
(* mod/git/service.go ProvisionRepository, RemoveProvisionedRepository,    *)
(* ListRepositoryOrphanCandidates, recovery.go ReconcileOrphans.           *)
(***************************************************************************)
EXTENDS FiniteSets

CONSTANTS
    Creators,   \* calls of Create; each makes its own id, so it names the id too
    Processes,  \* server processes on one database and one storage root
    Slugs,      \* namespace and name of a Plugin
    Wanted,     \* creator -> the slug it asks for
    NoPlugin, Nobody,
    CommitAckMayBeLost,  \* fault: a COMMIT takes effect and returns an error
    CreateMayBeSlow      \* a Create may outlast the sweep's minimum age

ASSUME RequestAssumption ==
    /\ Wanted \in [Creators -> Slugs]
    /\ NoPlugin \notin Creators /\ Nobody \notin Creators
    /\ CommitAckMayBeLost \in BOOLEAN /\ CreateMayBeSlow \in BOOLEAN

VARIABLES
    home,        \* creator -> the process its request reached; never changed
    dir,         \* id -> its bare repository: absent, partial or ready
    aged,        \* ids whose directory is older than the sweep's minimum age
    plugins,     \* slug -> id of its Plugin and Repository rows
    cleanups,    \* ids with a pending RepositoryOrphanCleanup row
    createLock,  \* process -> slug -> creator that holds the keyed lock
    pc,          \* creator -> where its Create stands
    answer,      \* creator -> what it is about to answer
    candidates,  \* the sweep's list
    sweeping     \* the candidate the sweep found to have no row

rows == <<plugins, cleanups>>
calls == <<createLock, pc, answer>>
sweep == <<candidates, sweeping>>
vars == <<home, dir, aged, rows, calls, sweep>>

CreateStates == {"start", "locked", "absent", "initialised", "provisioned", "failed", "unrecorded", "done"}

TypeOK ==
    /\ home \in [Creators -> Processes]
    /\ dir \in [Creators -> {"absent", "partial", "ready"}]
    /\ aged \subseteq Creators
    /\ plugins \in [Slugs -> Creators \cup {NoPlugin}]
    /\ cleanups \subseteq Creators
    /\ createLock \in [Processes -> [Slugs -> Creators \cup {Nobody}]]
    /\ pc \in [Creators -> CreateStates]
    /\ answer \in [Creators -> {"none", "created", "conflict", "unavailable"}]
    /\ candidates \subseteq Creators
    /\ sweeping \in Creators \cup {NoPlugin}

Init ==
    /\ home \in [Creators -> Processes]
    /\ dir = [c \in Creators |-> "absent"]
    /\ aged = {}
    /\ plugins = [s \in Slugs |-> NoPlugin]
    /\ cleanups = {}
    /\ createLock = [p \in Processes |-> [s \in Slugs |-> Nobody]]
    /\ pc = [c \in Creators |-> "start"]
    /\ answer = [c \in Creators |-> "none"]
    /\ candidates = {}
    /\ sweeping = NoPlugin

HasRow(id) == \E s \in Slugs : plugins[s] = id

Goto(c, state) == pc' = [pc EXCEPT ![c] = state]
Answer(c, a) == answer' = [answer EXCEPT ![c] = a]
\* Fault: an early return keeps the lock.
KeepLocked(c) == UNCHANGED createLock
Unlock(c) == createLock' = [createLock EXCEPT ![home[c]][Wanted[c]] = Nobody]
Remove(id) == dir' = [dir EXCEPT ![id] = "absent"] /\ aged' = aged \ {id}

\* Create returns: its deferred unlock runs.
Return(c, a) == Goto(c, "done") /\ Answer(c, a) /\ Unlock(c)

-----------------------------------------------------------------------------
(* Service.Create.                                                         *)

\* The keyed lock is a map in the memory of one process.
LockSlug(c) ==
    /\ pc[c] = "start"
    /\ createLock[home[c]][Wanted[c]] = Nobody
    /\ createLock' = [createLock EXCEPT ![home[c]][Wanted[c]] = c]
    /\ Goto(c, "locked")
    /\ UNCHANGED <<dir, aged, rows, answer, sweep>>

FindExisting(c) ==
    /\ pc[c] = "locked"
    /\ \/ plugins[Wanted[c]] # NoPlugin /\ Return(c, "conflict")
       \/ plugins[Wanted[c]] = NoPlugin /\ Goto(c, "absent") /\ UNCHANGED <<answer, createLock>>
       \/ Return(c, "unavailable")  \* the query fails
    /\ UNCHANGED <<dir, aged, rows, sweep>>

\* ProvisionRepository: git init.
InitRepository(c) ==
    /\ pc[c] = "absent"
    /\ dir' = [dir EXCEPT ![c] = "partial"]
    /\ Goto(c, "initialised")
    /\ UNCHANGED <<aged, rows, answer, createLock, sweep>>

\* git init fails; what it made is left there.
InitFails(c) ==
    /\ pc[c] = "absent"
    /\ \E left \in {"absent", "partial"} : dir' = [dir EXCEPT ![c] = left]
    /\ Return(c, "unavailable")
    /\ UNCHANGED <<aged, rows, sweep>>

\* HEAD is set and the hooks are installed.
FinishRepository(c) ==
    /\ pc[c] = "initialised"
    /\ dir[c] = "partial"
    /\ dir' = [dir EXCEPT ![c] = "ready"]
    /\ Goto(c, "provisioned")
    /\ UNCHANGED <<aged, rows, answer, createLock, sweep>>

\* HEAD or the hooks fail; the directory is removed, if that does not fail too.
FinishFails(c) ==
    /\ pc[c] = "initialised"
    /\ Remove(c) \/ UNCHANGED <<dir, aged>>
    /\ Return(c, "unavailable")
    /\ UNCHANGED <<rows, sweep>>

\* Fault: the unique index on namespace and slug is missing.
InsertDuplicate(c) ==
    /\ pc[c] = "provisioned"
    /\ plugins' = [plugins EXCEPT ![Wanted[c]] = c]
    /\ Return(c, "created")
    /\ UNCHANGED <<dir, aged, cleanups, sweep>>

\* RepositoryStore.Create: both rows in one transaction.
InsertRows(c) ==
    /\ pc[c] = "provisioned"
    /\ plugins[Wanted[c]] = NoPlugin
    /\ plugins' = [plugins EXCEPT ![Wanted[c]] = c]
    /\ Return(c, "created")
    /\ UNCHANGED <<dir, aged, cleanups, sweep>>

\* The unique index on namespace and slug rejects the second Plugin.
InsertConflicts(c) ==
    /\ pc[c] = "provisioned"
    /\ plugins[Wanted[c]] # NoPlugin
    /\ Goto(c, "failed") /\ Answer(c, "conflict")
    /\ UNCHANGED <<dir, aged, rows, createLock, sweep>>

\* Any other error, without effect or, as a fault, with it.
InsertFails(c) ==
    /\ pc[c] = "provisioned"
    /\ \/ UNCHANGED plugins
       \/ /\ CommitAckMayBeLost /\ plugins[Wanted[c]] = NoPlugin
          /\ plugins' = [plugins EXCEPT ![Wanted[c]] = c]
    /\ Goto(c, "failed") /\ Answer(c, "unavailable")
    /\ UNCHANGED <<dir, aged, cleanups, createLock, sweep>>

\* RemoveProvisionedRepository, with the receipt that Create alone holds.
RemoveProvisioned(c) ==
    /\ pc[c] = "failed"
    /\ Remove(c)
    /\ Return(c, answer[c])
    /\ UNCHANGED <<rows, sweep>>

\* The removal stops in the middle.
RemoveProvisionedFails(c) ==
    /\ pc[c] = "failed"
    /\ \E left \in {dir[c], "partial"} : dir' = [dir EXCEPT ![c] = left]
    /\ Goto(c, "unrecorded")
    /\ UNCHANGED <<aged, rows, answer, createLock, sweep>>

\* recordOrphanCleanup, whose own error is dropped.
RecordCleanup(c) ==
    /\ pc[c] = "unrecorded"
    /\ cleanups' = cleanups \cup {c} \/ UNCHANGED cleanups
    /\ Return(c, answer[c])
    /\ UNCHANGED <<dir, aged, plugins, sweep>>

\* The process ends: its calls get no answer, its locks are gone.
Crash(p) ==
    /\ \E c \in Creators : home[c] = p /\ pc[c] \notin {"start", "done"}
    /\ pc' = [c \in Creators |-> IF home[c] = p /\ pc[c] # "start" THEN "done" ELSE pc[c]]
    /\ answer' = [c \in Creators |-> IF home[c] = p /\ pc[c] \notin {"start", "done"} THEN "none" ELSE answer[c]]
    /\ createLock' = [createLock EXCEPT ![p] = [s \in Slugs |-> Nobody]]
    /\ UNCHANGED <<dir, aged, rows, sweep>>

Create(c) ==
    \/ LockSlug(c) \/ FindExisting(c)
    \/ InitRepository(c) \/ InitFails(c) \/ FinishRepository(c) \/ FinishFails(c)
    \/ InsertRows(c) \/ InsertConflicts(c) \/ InsertFails(c)
    \/ RemoveProvisioned(c) \/ RemoveProvisionedFails(c) \/ RecordCleanup(c)

-----------------------------------------------------------------------------
(* Reconciler.ReconcileOrphans.                                            *)

InProgress(c) == pc[c] \notin {"start", "done"}

\* Time passes.
Age(id) ==
    /\ dir[id] # "absent"
    /\ id \notin aged
    /\ InProgress(id) => CreateMayBeSlow
    /\ aged' = aged \cup {id}
    /\ UNCHANGED <<dir, rows, calls, sweep>>

\* ListRepositoryOrphanCandidates.
SweepList ==
    /\ candidates = {} /\ sweeping = NoPlugin
    /\ aged # {}
    /\ candidates' = aged
    /\ UNCHANGED <<dir, aged, rows, calls, sweeping>>

\* Fault: the sweep does not look the candidate up.
RowUnchecked(id) == FALSE
RowFound(id) == HasRow(id)

\* The candidate's row is looked up, then the candidate removed.
SweepCheck(id) ==
    /\ id \in candidates /\ sweeping = NoPlugin
    /\ candidates' = candidates \ {id}
    /\ sweeping' = IF RowFound(id) THEN NoPlugin ELSE id
    /\ UNCHANGED <<dir, aged, rows, calls>>

SweepRemove ==
    /\ sweeping # NoPlugin
    /\ Remove(sweeping)
    /\ sweeping' = NoPlugin
    /\ UNCHANGED <<rows, calls, candidates>>

\* A query or a removal fails, or the context ends: the rest is not looked at.
SweepStops ==
    /\ candidates # {} \/ sweeping # NoPlugin
    /\ candidates' = {} /\ sweeping' = NoPlugin
    /\ dir' \in {dir} \cup {[dir EXCEPT ![id] = "partial"] : id \in {sweeping} \cap Creators}
    /\ UNCHANGED <<aged, rows, calls>>

Sweep == SweepList \/ (\E id \in Creators : SweepCheck(id)) \/ SweepRemove \/ SweepStops

Next ==
    /\ \/ \E c \in Creators : Create(c) \/ Age(c)
       \/ \E p \in Processes : Crash(p)
       \/ Sweep
    /\ UNCHANGED home

Spec == Init /\ [][Next]_vars

-----------------------------------------------------------------------------
(* Safety.                                                                 *)

\* Every Plugin row has its whole repository.
RowHasRepository ==
    \A s \in Slugs : plugins[s] # NoPlugin => dir[plugins[s]] = "ready"

\* A client is told the truth: "created" of its own Plugin, "conflict" because of
\* another one, "unavailable" of nothing that exists.
AnswersAreTrue ==
    \A c \in Creators : pc[c] = "done" =>
        /\ answer[c] = "created" => plugins[Wanted[c]] = c
        /\ answer[c] = "conflict" => plugins[Wanted[c]] \notin {NoPlugin, c}
        /\ answer[c] = "unavailable" => ~HasRow(c)

-----------------------------------------------------------------------------
(* The inductive invariant, when answers are not lost and creations are    *)
(* faster than the minimum age.                                            *)

\* How far a call is tells what is on disk and who holds the lock.
StageInv ==
    \A c \in Creators :
        /\ pc[c] \in {"start", "locked", "absent"} => dir[c] = "absent"
        /\ pc[c] = "initialised" => dir[c] = "partial"
        /\ pc[c] = "provisioned" => dir[c] = "ready"
        /\ InProgress(c) => createLock[home[c]][Wanted[c]] = c

\* A row is the last thing its creator made, and it made it whole.
RowInv ==
    \A s \in Slugs : plugins[s] # NoPlugin =>
        /\ s = Wanted[plugins[s]]
        /\ pc[plugins[s]] = "done"
        /\ dir[plugins[s]] = "ready"

\* The sweep and the cleanup rows see only what no creation works on any more.
SweepInv ==
    /\ \A id \in aged \cup candidates \cup cleanups \cup ({sweeping} \ {NoPlugin}) : pc[id] = "done"
    /\ \A id \in cleanups \cup ({sweeping} \ {NoPlugin}) : ~HasRow(id)

AnswerInv ==
    /\ AnswersAreTrue
    /\ \A c \in Creators : pc[c] \in {"failed", "unrecorded"} =>
          \/ answer[c] = "unavailable"
          \/ answer[c] = "conflict" /\ plugins[Wanted[c]] \notin {NoPlugin, c}

IInv == TypeOK /\ StageInv /\ RowInv /\ SweepInv /\ AnswerInv

-----------------------------------------------------------------------------
(* Liveness.  A call goes on until it answers.  Nothing in the code calls   *)
(* the sweep: no fairness is assumed of it.                                *)

AtHome(A) == A /\ UNCHANGED home

Fairness ==
    \A c \in Creators : /\ WF_vars(AtHome(pc[c] # "start" /\ Create(c)))
                        /\ SF_vars(AtHome(LockSlug(c)))

FairSpec == Spec /\ Fairness

\* Every call answers, or ends with its process.
EveryCreateEnds == \A c \in Creators : <>(pc[c] = "done")
=============================================================================
