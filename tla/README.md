# Verification of the Marketplace server

TLA+ models of the server's own logic, the TLC runs that check them on small
instances, and TLAPS proofs of what matters most for every instance.  The code is
the reference: every definition translates the lines `PROJECT.json` names under
`map`.  Paths below are relative to `src/`.

Contents: 1 the system, 2 the modules and how they correspond to the code, 3 the
runs, 4 disagreements between code and documentation, 5 the proofs, 6 what is
assumed and what is left out, 7 the plan.

## 1. The system

A Go server hosts Git repositories of *Plugins* and publishes *Marketplaces*:
revisions of lists of Plugin tags, each served as a projected Git repository that
is built once and stored.  SQL (SQLite or PostgreSQL) holds the rows, the file
system the Git repositories and projections.  Nothing makes a Git ref, a stored
projection and a row change together, and that is where the system is hard.

| Component | State | Operations | Hard behaviour |
|---|---|---|---|
| Protected receive: `mod/git/receive.go`, `plugin/receive/coordinator.go` | Git refs, quarantined objects, batch, intent and transition rows, staged projections | Open, Prepare, `git update-ref`, Finalize, Resolve | refs and rows move in separate steps; crash, killed `git`, failed read or lost COMMIT answer between any two |
| Receive recovery: `plugin/recovery/recovery.go` | a list of prepared batches, then one at a time | ReconcileReceives, ReconcileOrphans, RunProjectionGC | works from a stale list beside live sessions |
| Plugin lifecycle: `plugin/service.go`, `repository.go` | Plugin, Version and history rows | Create, Publish, SetDefaultVersion, ClearDefaultVersion, Archive, Restore, SetVisibility | must not change what an unresolved receive relies on |
| Plugin effect lock: `plugin/effect_lock.go` | keyed semaphores with reference counts, a PostgreSQL advisory lock | LockPlugin, unlock | polling with a timeout, connections held while others wait, loss of the connection |
| Projection garbage collection: `plugin/receive/gc.go`, `recovery.go` | GC job rows, stored projections | RunOnce, RunProjectionGC | two collectors, jobs left `running`, an artifact used again |
| Publication and distribution: `distribution/*.go` | revisions, items, artifacts, serving pointers | Publish, Rollback, fetch | builds outside any lock while a push moves the tag |
| Provisioning: `plugin/service.go` Create, orphan cleanup in `recovery.go` | repository directory, Plugin row, cleanup rows | Create, ReconcileOrphans | a failure after the repository exists |
| Hook sessions: `git/mod.go`, `git/receive.go:261-488` | Git config, hook files, a socket, a goroutine and its connection | InstallHooks, the session's accept loop, stop, Wait | handler, goroutine, git and its hooks end in any order; config shared by all pushes |
| Users and tokens: `identity/service`, `identity/dao` | users, groups, personal tokens | register, disable, admin membership, issue and revoke tokens | last administrator; a disabled user's credentials; one token used by many requests |
| Teams and invitations: `identity/service/team_service.go`, `identity/dao/team_repository.go` | memberships, invitations | create, put, remove, invite, respond, revoke, reissue | last owner; an invitation answered, revoked and expired at once; roles read before the transaction |
| Authorization: `authorization/policy.go`, `identity_state_reader.go` | none | a decision | agreement with the role matrix; its facts come from several queries |
| Handlers: `backend/handler`, `git/mod.go` | none | one route each | checks and use are queries apart |
| Kernel and start: `core/kernel/kernel.go`, `cmd/server`, `jin`, `sql`, `backend/migrate.go`, `dao/bootstrap.go` | modules, hub, schema, first administrator | phases, migration, bootstrap, serve, Stop | several servers start on one database; jin starts and stops in goroutines of their own |

Components talk through shared SQL rows, through direct calls, and through Git:
`git receive-pack` calls back into the server over a hook socket
(`git/receive.go:261-488`), so one push is one session of the coordinator.  HTTP
handlers authenticate, ask the policy, and call the services.

What makes each part correct:

* **receive and recovery** - rows and refs agree whenever no receive is
  unresolved; while one is, what it could change serves nothing; a batch ends as
  its refs say; everything it compares still matches when it is resolved; it is
  resolved once; the lock comes free on every path;
* **Plugin lifecycle** - the default is an available Version, the history of a tag
  is a chain, an archived Plugin's refs stand still;
* **garbage collection** - what is served, or may be served again, is not deleted;
* **publication** - a published revision serves what its tags name; a publication
  that fails leaves nothing;
* **provisioning** - a Plugin row has its repository, a client is told the truth, and
  every call of Create ends;
* **effect lock** - one holder for each Plugin, however entries come and go;
* **identity** - some active administrator and some owner remain; a user has one
  open invitation and its answer is final;
* **hook sessions** - a push that ends leaves nothing behind, ends always, and is
  told only what the coordinator decided;
* **access** - what is done was allowed while it was asked; a hidden resource stays
  hidden; a live token is accepted and a dead one is not;
* **kernel** - servers that start together do not disturb each other; a handler has
  a database; a server that is told to stop ends.

`PROJECT.json` lists the components with their status, and under `hazards` each
place where this code can go wrong that a test would hardly reach.

## 2. Modules

### Receive

One Plugin; any number of tags, serving pointers, push sessions and reconcilers.

State and its place in the code:

| Variable | Stands for |
|---|---|
| `refs` | the canonical tag refs of the repository |
| `disk` | projections in storage, named by the session and pointer they were built for |
| `plugin`, `versions`, `history` | `Plugin`, `PluginVersion`, latest `PluginVersionHistory` row of each tag (`model.go`) |
| `pointers`, `artifacts`, `gcJobs` | `RevisionProjectionPointer`, `ProjectionArtifact`, `ProjectionGCJob` rows |
| `batch` | the state of a session's batch, of its intents and of its transitions: the code writes the three in one transaction and with one state, and never writes `finalizing` |
| `plan` | `receivePlan` in memory, then the intent and transition rows: the tags, and the generation and artifact each pointer had |
| `push` | the client's commands; `old` is what the ref advertisement told it |
| `pc` | where the session stands between two calls |
| `lock` | the holder of the Plugin effect lock |
| `job` | a reconciler's list, the batch it holds and the disposition it derived |

Actions of a session, in the order of the code:

| Action | Code |
|---|---|
| `Advertise` | `Service.AdvertiseRefs`; takes no lock, so all later comparisons may fail |
| `Open` | `Coordinator.Open` |
| `BuildPlan`, `AdmitUnplanned`, `RejectPrepare` | `coordination.Prepare` through classify, preflight and the builds |
| `PersistPrepared`, `PersistThenReject` | `persistPrepared`; the second is the path on which the transaction took effect and the call still failed |
| `UpdateRefs`, `UpdateRefsFails`, `UpdateRefsKilled` | `git update-ref --stdin` in `RunCoordinatedProcReceiveSession`: all, none, or (killed between two renames) some of the refs |
| `FinalizeResolved`, `ResolveApply`, `ResolveManual` | Finalize and Resolve: reread the refs, classify, verify, one transaction |
| `ResolveVerifyFails`, `ResolveApplyFails`, `ResolveAckLost`, then `MarkManual` | the failure paths of Resolve; `MarkManual` is a transaction of its own, so a crash may fall before it |
| `Die` | the session ends between two steps; only its lock is given back |

A reconciler lists (`ReconcileList`), locks and observes one batch
(`ReconcileObserve`), then applies (`ReconcileApply`), finds it resolved
(`ReconcileSkip`), leaves it to an operator (`ReconcileManual`) or stops with an
error at any point (`ReconcileFails`).  It may leave any batch to an operator, whatever
the refs say: a failed read of the repository row does so too.  The management operations
(`PublishVersion`, `SetDefaultVersion`, `ClearDefaultVersion`, `Archive`,
`Restore`) run under the lock from start to end and are one action each.  Create,
visibility and reads are not part of this module.

A crash of the server is a `Die` of each session and a `ReconcileFails` of each
reconciler: nothing in memory is shared but the lock, which dies with its holder,
so crashing them one by one includes crashing all.

Two constants switch faults on: `RefReadMayFail` (`ReadPluginRef` reports every
failure of `git rev-parse` as a missing ref) and `CommitAckMayBeLost` (a COMMIT
takes effect and returns an error).

### Serving

What `Receive` is for, and all that a reader of the distribution needs to know of it.
Its state is `tip`, the commit each tag has in Git, and `shown`, the commit each pointer
serves or `NoCommit`.  A transaction closes pointers (`CloseSome`) or opens closed ones on
the tips of their tags (`OpenSome`), and `git update-ref` changes tips whose pointers are
all closed (`MoveTags`).  `Receive` has the mapping (`Tip`, `Shown`) and states
`ImplementsServing`.

### MCReceive

Gives the constants values: two tags, two objects with two commits, up to two
pointers.  `OneHistorical` is a revision item on `t1` that is no longer active,
`OneOfEach` adds an active one on `t2`, `NoItems` has none.

### PluginLock, EffectLock

`PluginLock` is what the callers of `EffectLocker` rely on: somebody takes a free
lock, the holder gives it back.  `Receive` uses it as its variable `lock`.

`EffectLock` is `effectKeyedLocks` (`effect_lock.go:107-155`): `locks` is the map,
`users` and `token` the reference count and the one-token channel of each entry,
`pc`, `key` and `entry` say where a caller stands.  `Register` is the part of `lock`
under the mutex, `Acquire` and `Cancel` the two arms of its `select`, `Unlock` and
`ReleaseReference` the two halves of the unlock function.  Between any two of them
others go on, so an entry may be shared, dropped and made anew.  An entry that
nothing refers to any more is garbage and may be allocated again.  `Holder` is the
refinement mapping and `ImplementsPluginLock` the abstract specification under it.
`keyedLocks` of `plugin/service.go:788-821` is the same protocol without
cancellation.

### DatabaseEffectLocker

`LockPlugin` on either database, chosen once (`driver`).  With SQLite its steps are
those of `EffectLock`, which it extends.  With PostgreSQL:

| Variable | Stands for |
|---|---|
| `state`, `key` | where a caller is in `lockPostgres`, or after it, and the Plugin it asks for |
| `lockConn`, `queryConn` | the connection its lock is taken on, and the one of its own query |
| `live` | whether the server still has the session of a connection |
| `session` | the connection whose session has a Plugin's lock; `Abandoned` is a session whose client has gone |

A caller is `LockPostgres`, `TakeConnection`, then `TryLock` and `Retry` in turn until
it has the lock, `TryFails`, or the time is over (`Timeout`, which also ends the wait for a
connection).  A holder's transactions are `Query` and `QueryEnds`, which need a second
connection of the same pool; `GiveUp` is a holder whose own context ends while it waits
for one.  `postgresUnlock` is `AdvisoryUnlock` or `AdvisoryUnlockFails`.  A connection may break
under its holder at any time (`LoseSession`): the server then drops the lock, and the
holder goes on without it.  `EndAbandoned` is the server that finds a client gone.

### Provisioning

`Service.Create` and the orphan sweep.  Each call (`pc`) takes its process's lock of
the slug (`LockSlug`), looks for the Plugin (`FindExisting`), makes the repository in
two steps (`InitRepository`, `FinishRepository`: a directory may be there and not be
ready), inserts the rows in one transaction (`InsertRows`, `InsertConflicts`,
`InsertFails`), and on failure removes the repository (`RemoveProvisioned`,
`RemoveProvisionedFails`) or records a cleanup (`RecordCleanup`).  `Crash` ends all
calls of a process between any two steps.  The sweep lists aged directories
(`SweepList`), looks one up (`SweepCheck`), removes it (`SweepRemove`) or stops
(`SweepStops`); the look-up and the removal are separate steps, as in the code.
`home`, the process a request reached, is chosen in `Init` and never changes.

Two faults: `CommitAckMayBeLost`, and `CreateMayBeSlow`, which lets a creation
outlast the sweep's minimum age.

### ProjectionGC, Publication

`ProjectionGC` has the two collectors, `GCRunner.RunOnce` and
`Reconciler.RunProjectionGC`, step by step: claim, (for the second) count the
pointers, remove the bytes, close the job.  `attempts` is not counted: the
compare-and-set on it succeeds exactly when nobody changed the job since it was
listed, so `todo` loses a job that somebody else changes.

`Publication` composes it with publication and pushes of one template.
`PublicationService.Publish` is `Load`, then `Reuse` or `Build` for each tag,
`BuildListing`, `Insert`, or `PublishFails` and `Compensate`; `Rollback` switches the
published revision.  A push is `Preflight`, `Staged`/`Reject`, `Persist`, `MoveRef`,
`Complete` or `Abort`: what a publication can see of `Receive`.  `Resolves` is the
query behind a fetch (`FindActivePlugin`).  A tag whose Version is deleted is moved by
Git alone (`MoveUnversionedRef`), until the management operation Publish makes the
Version available again and leaves its pointers empty (`RestoreVersion`).  Publication
takes no lock, so its steps and those of a push interleave freely.  Two ghost variables
name the revisions for which less is promised (section 4): `raced` has the publications
that a push of their tags overlapped, `superseded` the revisions that were published
before another one.  Tags belong to different Plugins, so pushes of two tags do not exclude
each other.  A crash is an actor that takes no further step.

### Identity

Users, administrators, and the members and invitations of one Team.

| Variable | Stands for |
|---|---|
| `status`, `admins` | `users.status`, members of the admin system group |
| `created`, `role` | the Team's namespace row, `TeamMembership` rows |
| `invitations` | `TeamInvitation` rows; `late` is a row without an answer whose `expires_at` is past |
| `request` | where each request stands |

A request is three steps: its actor is authorized by reads outside any transaction
(`StartUserOp`, `StartPut`, `StartRemove`, `StartInvite`, `StartRespond`, `StartRow`);
its transaction gets its lock and reads (`Check`); it writes and commits
(`SetUserStatus`, `SetSystemAdmin`, `PutTeamMember`, `RemoveTeamMember`, `Accept`,
`Reject`, `ReissueInvitation`).  `CreateTeamInvitation` and `RevokeInvitation` start
with a write and take one step after authorization.  `Fail` is an error, a cancelled
context or a crash: the transaction is rolled back.  The locks are those of the code:
one for administrators, one for the Team's memberships, the row lock of an
invitation.  What no lock protects is not protected in the model either: roles may
change between authorization and transaction, an acceptance inserts a membership
without the membership lock, and the primary key and the partial unique index decide.
On SQLite writers are serialized, which allows fewer interleavings.

### ReceiveHook

One push between its HTTP request and the coordinator; `Receive` says what the
coordinator then does.  `routed` is `receive.procReceiveRefs` in the repository's
config file, `holder` the Plugin effect lock, and `push[p]` has what belongs to one
request:

| Field | Stands for |
|---|---|
| `handler`, `expired` | `handleReceivePack` and `Service.ReceivePack`; whether their context is done |
| `listener`, `serve`, `serving`, `current` | `receiveHookSession`: its socket, its goroutine, the hook accepted last, `connection` under its mutex |
| `git`, `seen` | `git receive-pack`; the routes it read from the config when it began |
| `client`, `conn` | the two hook processes (`pre`, `proc`) and their connections |
| `moved`, `outcome`, `results`, `told` | refs that moved, what became of the batch, the answer written to the hook, git's report |

The handler is `ReplaceAll`, `AddTags` (`installProtectedReceiveHooks`: two `git
config` processes), `StartSession`, `CommandWait`, then `stop` in its three parts
(`CloseListener`, `CloseConnection`, after the context is cancelled) and `Join`
(`Wait`).  git is `ReadConfig`, `HookConnects`, `HookSends`, `AfterPre`, `AfterProc`,
`MoveOwn`, and `Kill` once the context is done.  The goroutine is `Accept`,
`SetConnection`, `CheckContext`, `EndDiscard` for a pre-receive hook or `ReadRequest`,
`Open`, `PrepareAdmits`/`PrepareRejects`, `UpdateRefs`, `Finalize`, `WriteResults` for
a proc-receive hook.  `Expire` is the service timeout or a client that goes away.

### Policy, Access, AccessRoutes

`Policy` is `Policy.Authorize` with the tables it uses: a pure function of a
principal, an action, the type of the resource and a record of facts.

`Access` executes routes: a route is a sequence of steps (`Routes`), one for each
query or check, in the order of the handler and of the service behind it.  The table
is a constant.  `AccessRoutes` has the one of the handlers, with every route that
authenticates or authorizes, and is what the runs check; `ASSUME RoutesFit`, which TLC
evaluates on that table, says what the theorems need of any table: no question is
asked before the caller is known, no route takes both tokens and JWTs, nothing is
asked after what ends a request with success, and the first question of a route about
an exact Plugin (`ExactRoutes`) hides it.  `person` stands for `users`,
`user_group_memberships` and `team_memberships`, `plugin` for the rows of one Plugin
and its repository, `token` for `personal_access_tokens`, `request` for the handlers
at work.  A question to the policy is four reads (`ReadResource`, `ReadStatus`,
`ReadAdmin`, `ReadRole`: `identityStateReader` runs each in a transaction of its own)
and `Decided`.  A refused mutation asks a second question, about reading
(`authorizeMutation`).  A token is looked up (`FindToken`), its preset checked
(`CheckPreset`), its time of use written by a conditional update (`Touch`) and, when
that changed no row, read again (`Validate`).  `Disrupt` is what other requests may do
between any two steps, as long as at most `MaxBeside` requests have arrived (1 in both
runs), and `Tick` the clock.  The variable `held` is a ghost: for each fact, the
values it has had since the request arrived.

### Lifecycle

Servers that start, serve and stop on one PostgreSQL database.

| Variable | Stands for |
|---|---|
| `server` | `pc`: where `run` is; `step`: the module and phase `StartModule` is at, or the module Stop is at; `hub`: what modules have mapped; `jin`: how far `jin.Start` is; listener, mux, pool |
| `request` | requests to a server: waiting, in a handler, inside a query, cut off |
| `schema`, `users` | domains whose tables are there, servers whose first administrator is committed |
| `locked` | the advisory locks of migration (a session's) and bootstrap (a transaction's) |

`Assemble` is one phase of one module with what it loads and maps; the `PostInit` of
the backend is `LockMigration`, `MigrateDomain`, `UnlockMigration`, `LockBootstrap`,
`CountUsers`, `InsertAdministrator`, `CommitBootstrap`.  `StartModules`, `ServeMux` and
`StartJin` are three goroutines; `Signal` begins Stop, in which `StopJin` may find no
server although one is about to be set (`late`), `Drained` or `DrainTimeout` ends
Shutdown, and `StopOthers` stops the rest, the database last.  `Fail` is a fault of
the environment, `Kill` a crash at any point.

### Proof modules

`ReceiveProofs`, `ReceiveHookProofs`, `EffectLockProofs` (with those about
`DatabaseEffectLocker`), `ProvisioningProofs`, `PublicationProofs`, `IdentityProofs`,
`LifecycleProofs` and `AccessProofs` hold the theorems about the modules they are named
for; see section 5.

## 3. Runs

| Run | Instance | Question |
|---|---|---|
| `receive_two_tags` | 2 tags, 2 pointers (one active), 2 sessions, 1 reconciler, no faults | Do rows and refs agree, do pointers fail closed and not stay closed, can each batch be resolved, does it end as its refs say and keep what active items select, is what is served always what Git has (`Serving`), when a push moves several refs and only some of them arrive? |
| `receive_three_pushes` | 1 tag, 1 pointer, 3 sessions, both faults | Move, delete, recreate and publish again, with reads of refs that fail: do rows and refs agree, is anything stale served, anything in use queued for deletion, any outcome changed? |
| `receive_draft` | 1 tag, no pointer, 2 sessions, Plugin in draft, fair, both faults | First publication, defaults, archive and restore between pushes; does the effect lock come free however its holder ends? |
| `effect_lock` | 3 callers, 2 Plugins, 3 entries, 2 connections, one caller without a deadline, fair | Do the keyed semaphores implement the lock, does a live session of PostgreSQL have the lock exactly while its caller holds it, and does every call end on either database? |
| `provision` | 2 calls for one slug, 2 processes, fair, no faults | Has every row its repository, are answers true, does every call end? |
| `publication` | 2 publications of 2 tags, 2 pushes, one collector of each kind | Is what resolves there and of the right commit, does a failed publication leave nothing, is what a published revision selects served, do collectors take only what is unused? |
| `identity` | 2 users of which one is invited, 2 roles, 2 invitations, 2 overlapping requests | Do an administrator and an owner remain, is a user invited once, is an answer final, does an acceptance make the member it names? |
| `receive_hook` | 2 pushes, one of a branch and a tag, one of a tag, fair | Does anything of a push outlive its request, is git's report true, does every push end? |
| `access` | 1 user, 1 token; any route, or a push beside a push, a revocation or an archive; 2 changes by others | Was what is done allowed, does a hidden Plugin stay hidden, is a live token accepted, does its time of use only grow? |
| `lifecycle` | 2 servers with one request each, fair | Does a start fail only for an outside fault, has a handler its database, does a stopping server end? |
| `hook_config`, `access_subscription` | as `receive_hook` and `access` (the user has a personal Namespace) | The disagreements of section 4. |

**Bounds.**  *Receive*: the only bound is the number of sessions.  A session id is a
fresh UUID and is used once, so two or three sessions are two or three pushes in a
history of any length of management operations and reconciliations.  Generations
grow once per completed batch and are bounded by it.  Two objects are enough to tell
old, proposed and other (with `NoObject`) for every comparison the code makes; two
tags are enough for a push that arrives in part, three sessions for a tag that is
moved, deleted, recreated and pushed again.  One reconciler races with sessions and
with its own stale list; two differ from it only in who holds the lock, which the
proofs cover for any number.

*EffectLock*: three callers make a holder, a waiter and a newcomer on one entry, and
two Plugins with three entries let an entry be dropped, reused and confused with
another.  *DatabaseEffectLocker*: with two connections two holders, or a holder and a caller
that polls, have the whole pool; one of the three callers has no deadline of its
own, one fewer than there are connections (section 4).  *Provisioning*: two calls
are the winner and the loser of every race, in one process or in two.
*Publication*: two publications race with each other and let the second reuse,
replace and be rolled back to the first; two pushes let one follow or overlap
another; `BatchSize` 1 is a list of one job, which suffices as jobs do not depend on
each other.  *Identity*: two requests are the two sides of every race; they are used
again and again, so histories have any length; `owner` and `admin` are the roles the
rules tell apart (`maintainer`, `developer` and `viewer` manage nobody, and are
covered by the proofs); two users are an owner or administrator and another, two
invitations an old and a new one.  A third user or request leads to no new kind of
step and is covered by the proofs.

*ReceiveHook*: a push takes each step once for each of its hooks, so a run is finite
without a bound; two pushes meet in the config file and in the lock, and a branch
beside a tag lets git move one ref itself and hand over the other.  *Access*: a
decision is about one user and one Plugin, so a second user would only be one more
of the `Disrupt` of others; `MaxChanges` 2 lets a fact change and change back, or
two facts change, between any two reads; two readings of the clock let a token
expire and two requests write their times in either order; `none`, `developer` and
`maintainer` are the roles on both sides of each rule about Plugins (`viewer` only
reads, which every role may, and `admin`, `owner` differ from `maintainer` in Team
operations only); `Mixes` pairs requests where one changes what the other reads.
*Lifecycle*: two servers are the winner and the loser of migration and bootstrap;
one start of each suffices because a server that crashed leaves in the database what
one that starts late finds; the proofs hold for any number.

Sessions, publications, pushes, tags, commits, users, invitations and requests are
interchangeable, and symmetry is used for them in runs without liveness properties.

**Fairness.**  A session that holds the Plugin lock goes on (`WF` on its steps, `Die`
among them): `Service.ReceivePack` runs every push under a deadline, and the
process's own crash also ends it.  A reconciler inside a batch goes on or fails (`WF`).
A client that has only seen the advertisement need not come back.  No worker in this
repository calls `ReconcileReceives` or `ReconcileOrphans` (`docs/deployment.md:29`,
`docs/roadmap.md:10`), so nothing is assumed of their being called, and nothing is
claimed that rests on it: a batch whose session died may stay prepared, a repository
without a row may stay on disk.  What is claimed is `LockComesFree`.

In `EffectLock` holders unlock (`WF` on `Unlock`, `ReleaseReference`: callers defer
them) and a waiter gets the token when it is there again and again (`SF` on
`Acquire`: a Go channel serves its receivers in turn).  In `DatabaseEffectLocker` queries end and
timers fire (`WF`), and a caller that waits for a connection gets one that is given back,
or its time ends (`SF` on `Timeout` or `Query`: `database/sql` serves its waiters in turn).
`lockTimeout` limits the wait for the lock; a push also has the service timeout, so its
holder gives up waiting for its second connection, while the management operations have
the context of their request, which has no deadline (`Patient`).  In `Provisioning` a call that
was started goes on and its lock is fair (`WF` on its steps, `SF` on `LockSlug`).  In
`ReceiveHook` something goes on while anything can (`WF` on
`Next`): every step is taken at most once for each hook, so no step can be passed
over for ever by others.  That a push which is stuck expires rests on the service
timeout, which `applyDefaults` never leaves zero.  In `Lifecycle` the goroutines of
each server go on (`WF` on `Progress`); handlers may hang, clients need not come, and
no signal need arrive.  `publication`, `identity` and `access` check safety only.

Deadlock is checked where the system never stops (the `receive` runs and
`effect_lock`); the other instances end when their calls, publications or invitations
are used up.

Every property of a passing run comes with a mutant: a definition of the model
changed the way a slip in the code would change it (marked `Fault` in the modules),
under which TLC finds that property violated.

## 4. Disagreements

Two runs violate a property that the documentation states; `PROJECT.json` quotes it.

1. `hook_config` - a tag can move past the coordinator.  Every push writes
   `receive.procReceiveRefs` again, in two `git config` processes and outside any lock
   (`git/service.go:410`, `413`); the git of another push that reads the file between
   them hands over branches only and moves its tags itself, without batch, lock and
   projection (against `git/api-contract.md:12`).
2. `access_subscription` - a user is refused his own Marketplace.  For a user
   resource the state reader returns no owner Namespace
   (`identity_state_reader.go:93`), so the policy grants `marketplace.read` to
   administrators only and `user_marketplace_service.go:48` answers "not found" (against
   `docs/protocols.md:76` and `docs/current-state.md:43`).  `policy_test.go:345` gives the policy the
   fact that the reader never produces.

Seen while modelling, and stated here without a run of their own (a setting in brackets
makes TLC show it):

* a ref that cannot be read counts as deleted: `ReadPluginRef` (`git/service.go:206`)
  maps every failure to "does not exist", so a delete whose ref is still there can
  complete (`RefReadMayFail` in `receive_two_tags`: `OutcomeMatchesRefs`);
* publishing a deleted tag restores its Version and leaves its historical pointers
  empty, although `git/api-contract.md:119` says that it rebuilds historical artifacts.
  Every later push of the tag is blocked, and a rollback to a revision that selects it
  serves nothing for it (`plugin/service.go:500`).  `ClosedForAReason` and
  `PublishedIsServed` state what is left: only a completed deletion empties a pointer,
  and of published revisions only those that another one had superseded, as no tag of
  the published one can be deleted;
* that holds of a revision only if no push raced its publication or its return: publication and
  rollback take no effect lock, so a revision that selects a tag can be published, or
  come back, between preflight's check that none does and the deletion
  (`coordinator.go:218`);
* after a COMMIT whose answer was lost, `Create` removes the repository of the Plugin
  it made (`plugin/service.go:147`; `CommitAckMayBeLost` in `provision`:
  `RowHasRepository`);
* after a push of a published tag, the listing pins a commit that the served
  projection no longer contains (`publication_service.go:102`);
* a command that moves a branch from no object to no object is admitted and then
  refused by `BuildUpdateRefTransaction`, and the session returns without closing the
  coordination: the Plugin's lock is never given back (`git/receive.go:690-696`;
  `NoOps = {p1}` in `receive_hook`: `NothingOutlives`);
* a `git config` that is killed with its push leaves `config.lock` behind, which refuses
  every later push of the repository (`git/service.go:410`); nothing removes it;
* as many holders without a deadline as the pool has connections wait for each other
  for ever: each keeps the connection of its lock and needs another for its queries
  (`effect_lock.go:62`; `Patient = {c1, c2}` in `effect_lock`: `EveryCallEnds`);
* `lockPostgres` gives its connection back to the pool when the query that asks for the
  lock fails (`effect_lock.go:69`), although the server may have carried it out;
  `withBackendLock` (`migration/migrate.go`) discards the connection in that case.  The driver
  in use closes it when the context ended the query, which is what the model says;
* nothing tells a holder that its session was lost (`effect_lock.go:87`): two callers then
  hold one Plugin's lock, which is why exclusion on PostgreSQL is stated for live
  sessions;
* archive, restore and set-visibility all ask for `plugin.archive`
  (`plugin/service.go:246`, `284`, `323`), and `marketplace.read` is given to
  administrators and owners of the Namespace only, where the role matrix
  (`03-user-team-lifecycle/system-design.md:142`) has every Team role;
* errors of the configuration are logged and the module goes on with its defaults
  (`kernel.go:84-86`); a server that Stop did not find serves on without a database
  until the process exits (`jin/mod.go:71`);
* after a lost COMMIT answer `markManual` closes the pointers of a batch that is
  completed (`coordinator.go:564`); nothing opens them again;
* any SQL error of the resolving transaction, a busy database included, leaves the
  batch to an operator (`coordinator.go:401`);
* two processes both pass the creation lock, which is per process
  (`plugin/service.go:126`; `persistence-design.md:82`); the unique index decides;
* the sweep removes what a cleanup row names by age and absence of rows like
  everything else (`recovery.go:403`; the comment at 382-383 says otherwise), and
  looks a candidate up in a step before it removes it, so a creation slower than the
  minimum age loses its repository (`recovery.go:412`; `persistence-design.md:84`);
* publishing a template again that keeps a tag whose projection is unchanged fails,
  as `ProjectionArtifact.storage_key` is unique (`plugin/model.go:217`;
  `product-invariants.md:73`);
* a publication that overlaps a push of one of its tags leaves a revision that never
  resolves and blocks later pushes of the tag (`publication_service.go:196`;
  `product-invariants.md:68`); the properties of `Publication` except these races;
* a publication whose COMMIT answer is lost removes the projections of a revision that
  is published (`publication_service.go:210`);
* Team operations read the roles of actor and target before their transaction and
  do not read them again (`team_service.go:268-310`), although
  `03-user-team-lifecycle/system-design.md:92` says that removing an owner requires
  an owner: an admin may remove a member who became an owner meanwhile;
* `PutMember` lets the change pass when the read of the target's present role fails
  (`team_service.go:279`: the comparison is made `e == nil` only), so that an admin may
  alter an owner, against `03-user-team-lifecycle/system-design.md:95` and `:188`.  The
  model lets every such change pass;
* they never read the status of their actor (`team_service.go:124-129`, `214-231`),
  although `system-design.md:146` says that a disabled user is denied immediately;
* `ensureOtherOwner` counts disabled owners (`team_repository.go:193`), and an
  invitation stays open for a user whom `PutMember` has made a member, so that a
  member who is removed may come back by it;
* withdrawing the membership of an active user who is no administrator is refused
  while one administrator is active (`dao/repository.go:192`).

## 5. Proofs

`ReceiveProofs` proves, for every value of the constants that the four assumptions
of `Receive` allow (any sets of tags, objects, pointers, sessions and reconcilers,
finite or not):

| Theorem | Says |
|---|---|
| `TypeCorrect` | `Spec => []TypeOK` |
| `Invariance` | `Spec => []IInv` |
| `AgreementCorrect` | `Spec => []RefVersionAgreement`, under both faults |
| `ResolvableCorrect` | `Spec => []PreparedCanResolve` |
| `FailClosedCorrect` | `Spec => []PointerFailClosed` |
| `OneUnresolvedCorrect` | `Spec => []OneUnresolvedPerTag` |
| `OutcomeFinalCorrect` | `Spec => OutcomeIsFinal` |
| `OutcomeCorrect` | `~RefReadMayFail => (Spec => OutcomeMatchesRefs)`; the assumption is needed (section 4) |
| `ServingInvariance` | `Spec => []ServingInv` |
| `ServedCurrentCorrect` | `Spec => []ServedProjectionCurrent`, under both faults |
| `CollectedCorrect` | `Spec => []CollectedIsUnused` |
| `DefaultCorrect` | `Spec => []DefaultIsAvailable` |
| `LiveItemsCorrect` | `Spec => []LiveItemsAvailable`, under both faults |
| `ClosedCorrect` | `~CommitAckMayBeLost => (Spec => []ClosedForAReason)`; the assumption is needed (section 4) |
| `HistoryCorrect` | `Spec => HistoryIsAChain` |
| `ArchivedCorrect` | `Spec => ArchivedRefsFrozen` |
| `ServingRefinement` | `Spec => ImplementsServing`, under both faults |

The assumptions say that the null values lie outside their sets, that an object
peels to a commit, that revision items select tags that were published, and that
sessions and reconcilers are different things.

None of the safety properties is inductive.  `IInv` adds to them, in `DataInv`, that
an available Version names an object, and, in `ControlInv`, who may do what: whoever
is inside its steps holds the lock; a session has no batch before it persists one;
what preflight saw holds until the batch is persisted; a tag that moves without an
intent has no available Version; a reconciler works on batches that exist; and
what it read is still so while it holds the lock.  The last two carry the argument.
`RefVersionAgreement` would break in two ways: refs move for a tag that has no
intent, or a batch is resolved against refs that have moved since they were read.
The first is excluded by `UnplannedNotAvailable`, the second by `ReadStillTrue`, and
both rest on `LockHeld`.

The proof first shows what each kind of transaction keeps of the data part
(`PrepareKeepsData`, `CompleteKeepsData`, `AbortKeepsData`, `ManualKeepsData`,
`MoveKeepsData`, `PlanKeepsData`, `PublishKeepsData`), whoever runs it; then one
lemma per group of actions (`AdvertiseInv` ... `ManageInv`) takes care of the control
part, and `NextInv` joins them.

The properties of what is served rest on a second invariant, `ServingInv`, which takes
`IInv` as given and has three parts, each shown to be kept by a lemma per group of
actions.  `ServedInv`: an artifact's id is that of the session that stored it
(`ArtifactsOwned`), so that a new one displaces nothing; what an available pointer
names is ready, stored and of the Version's commit (`ArtifactsCurrent`); what an
unresolved batch has staged is of the commit that the push moves the tag to
(`StagedAsPushed`); and what is queued for collection is neither served nor staged
(`CollectedIsReleased`).  `AdmissionInv`: a plan covers pointers that
serve something and deletes nothing that a live revision selects (`PlansAdmitted`), a
reconciler completes only what it found on disk, and no holder of the lock works on an
archived Plugin, as archiving takes the lock too.  `VersionInv`: the default, the items of
live revisions, and that a closed pointer waits for a receive or has no artifact; with
`EmptiedByDeletion`, which says that a completed deletion took the artifact away, this is
`ClosedForAReason`.  `LiveItemsAvailable` is where two
of the parts meet: a reconciler whose ref read fails may complete a deletion that never
happened, and no live item is lost by it only because preflight admits no deletion of
a selected tag (`PlansAdmitted`).

`ServingRefinement` puts the two together.  A pointer agrees with its Version
(`ArtifactsCurrent`); an open pointer has no unresolved receive (`PointerFailClosed`), so
its Version agrees with the ref (`RefVersionAgreement`); hence what is served is the
tip of the tag (`ServesTip`).  Each step then either only closes pointers, only opens
some (`ApplyOpens`), or moves refs while their pointers are closed: by the push's own
batch, or because the tag has no available Version (`CommitInTheDark`).  These are the
three actions of `Serving`.

`ReceiveHookProofs` proves, for any number of pushes of one repository and any
commands, that a routed ref is reported as moved only when it has moved and its batch
was completed (`OkCorrect`), and that nothing of a push outlives its handler
(`NothingOutlivesCorrect`, when `NoOps = {}`: section 4 has the hold of the lock that a
no-op leaves).  `HookInv` has one part for each pair of actors: the handler and the
socket (`ListenerOf`), the handler and those it waits for (`Waits`), the connections and
the goroutine (`Connections`), git before it has read its configuration
(`NothingAsked`) and the answer with what it answers for (`Answered`).  `LockInv` says
that the goroutine has the lock between `Open` and `Finalize` only.

`EffectLockProofs` proves, for any number of callers, Plugins and entries, that the
counts and tokens are exact (`Invariance`), that two callers never hold one Plugin's
lock (`ExclusionCorrect`), that the map has an entry exactly as long as somebody uses
it (`EntriesCorrect`), and that the semaphores implement `PluginLock` (`Refinement`).
Its `Inv` says that a caller inside `lock` or `unlock` refers to the entry the map has
under its key and that the count is the number of such callers; finiteness of the
callers is the assumption that makes the count a number.

For `DatabaseEffectLocker` the same module takes these over for `LockPlugin` on SQLite
and proves for PostgreSQL, for any number of connections and lost sessions, that a live
session has a lock exactly while the caller on whose connection it was taken holds it
(`SessionsCorrect`), so that no connection goes back to the pool with a lock; and that two
holders of one lock are never both live (`LockerExclusion`).  `LockerInv` adds that a
connection has one user and who has which is told by where callers stand
(`ConnectionsExclusive`).

`ProvisioningProofs` proves under `NoFaults` (no lost COMMIT answer, no creation slower
than the minimum age) that a row has its repository (`RepositoryCorrect`) and that
answers are true and stay true (`AnswersCorrect`), for any number of calls, slugs and
processes.  `IInv` adds how far a call is for each state of its directory and lock,
and that the sweep only ever lists ids of calls that have ended.  The assumption is
needed (section 4).

`PublicationProofs` proves, for any number of tags, publications, pushes and collectors,
that collectors take only what no pointer names (`CollectedCorrect`) and, when no COMMIT answer
is lost, that what resolves is stored and of the right commit (`ResolvedCorrect`), that a
failed publication leaves nothing (`FailedCorrect`), and that a published revision no push
raced is served, but for emptied tags of a revision that was superseded and rolled back
to (`ServedCorrect`).  The argument has three layers, each inductive given those before it.
`QueueInv`: what a publication or a push has not handed over is named by no pointer and in
no queue (`OwnArtifactsFresh`), no two pointers name one artifact, and a job in hand is still
queued; so a completion can only queue what its own pointers drop.  `ServingInv`: an
artifact a pointer names has the bytes of its commit, and so has one that a push is
about to make it name (`BytesKept`); only a publication that succeeded has rows
(`UnpublishedHasNoRows`), which is where a lost answer would break it: compensation removes
the bytes of rows that are there.  `ServedInv`: pushes of one tag exclude each other and
plan every published revision that selects it (`PlanComplete`), what they closed is still
of the Version's commit when they abort (`PlannedCurrent`), and until a push races it a
publication builds what the refs name to its end (`BuildsCurrent`).

`IdentityProofs` proves, for any number of users, invitations and overlapping
requests, `AdministratorCorrect`, `OwnerCorrect`, `OneOpenCorrect`,
`AnswerFinalCorrect` and `AcceptanceCorrect`.  `IInv` adds to the properties what each
transaction may rely on between its read and its write: its lock is held once
(`LocksHeldOnce`), so the administrators it counted (`AdminChecks`), the other owner it
found (`OwnerChecks`) and the open row it read (`AnswerChecks`) are still there.  The
only arithmetic is `AnotherAdmin`: where more than one administrator is counted,
there is another one.  Each action has a lemma with one step for each part of
`IInv`; `Accepted` and `AnswersKept` do the same for the two action properties.

`LifecycleProofs` proves, for any number of servers, requests and starts, that a start
fails for an outside fault only (`StartCorrect`) and that handlers have their database
(`HandlersCorrect`).  Both need to know where a server is: what the hub holds after
each of the twenty steps of the assembly (`DependenciesMapped`), that the pool is open
from the second step to the last of Stop (`PoolOpen`), that the tables before the
domain at hand are there, and the tables and an administrator after bootstrap
(`TablesExist`), that no handler is at work before jin serves and after a Shutdown
that drained (`IngressClosed`).  What makes servers independent of each other is that
the bootstrap lock is held from the statement that takes it to COMMIT, so the count
of users is still true when the row is inserted (`CountStillTrue`).  `Sound(s)` joins
these for one server; `OthersKeep` says that a step of one server keeps it for the
others, so that each action is only shown to keep its own.

`AccessProofs` proves, for every table of routes that fits (`RoutesFit`), any number of
users, tokens and overlapping requests and any number of changes by others, that what
a handler does was allowed by the matrix (`DoneCorrect`), that a management answer about
an exact Plugin is given only to who could read it (`HiddenCorrect`), that a live token
with the widest preset is not refused (`LiveTokenCorrect`), and that the time of its use
only grows (`LastUseCorrect`).  "Was" and "could" are at some moment since the request
arrived, for each fact a moment of its own: the code reads them in separate
transactions, and nothing stronger holds.  `AccessInv` says that while a request is at
work `held` has the present value of every fact it may read (`Remembered`), and that
what it has read (`Read`), which questions it has passed (`Passed`) and whom it takes
the caller for (`Known`) are borne out by `held`.  As `held` only grows, a step of others
keeps all of this (`SoundGrows`); a step of the request itself has a lemma for each kind
of step.  `Timed` is what a use of a token rests on: a conditional update that changed
no row found it dead or used as late.

Only model-checked are the liveness properties (`EveryCallEnds`, `LockComesFree`,
`EveryCreateEnds`, `EveryPushEnds`, `EveryStopEnds`): liveness under fairness and
`ENABLED` are out of reach of the prover in use, and so is induction over recursively
defined data, which no proof here needs.  The properties that section 4 shows violated
stay with TLC as well.

## 6. Assumptions and what is left out

* The effect lock is not lost while its holder runs, and no `git update-ref` child
  outlives a crash of the server.  A stale `.lock` file it may leave is one of the
  reasons of `UpdateRefsFails`.
* Projections built just before a crash are leaked: they stay on disk and no row names them.
* Branches and refs that need no batch move freely and are left out; so is the
  manifest inside a commit, whose verdict is the choice between `BuildPlan` and
  `RejectPrepare`.
* In `Receive` the repository exists and is ready, and everybody may do everything:
  visibility and authorization are in `Access`.
* `Coordinator.Reconcile`, `ReceiveAdmission` and `ReceiveFinalizer` are exported
  but used only by tests; what they share with the live path is modelled.
* `Publication` has one template, one tag per Plugin, and not the visibility of
  templates; `Receive` has constant sets of revision items (`Live`, `Published`), which
  `Publication` lets change.
* `Identity` has one Team and users who exist from the beginning; registration,
  profiles and passwords are not modelled.  `Access` takes what `Identity` changes as
  given and lets it change at any time.
* `Access` has one Plugin.  Errors of the database are left out: its properties are
  about requests whose queries succeed.  Most handlers answer an error with a status of
  its own, but not all: a failed read of the policy's facts counts as a refusal
  (`policy.go:62-75`), and a failed look-up or time of use of a token as credentials
  that are not valid (`authenticator.go:79-82`), so that a live token may be answered
  401.  Nothing is done or shown in either case.  The status of a repository is
  `ready`, as no code writes another.
* The faults are not on in every run: `RefReadMayFail` and `CommitAckMayBeLost` are off
  in `receive_two_tags`, on in `receive_three_pushes` and `receive_draft`;
  `CommitAckMayBeLost` and `CreateMayBeSlow` are off in `provision`, and
  `CommitAckMayBeLost` in `publication`.  Where a property fails with a fault, section 4
  says so; where it does not, a theorem covers it.
* `ReceiveHook` has no no-op commands (section 4) and no server crash: a crash ends
  handler, session and lock at once, and what it leaves is in `Receive`.
* `Lifecycle` is about PostgreSQL.  With SQLite the locks do nothing, and one process is
  expected.  Requests of connections that wait in the mux are cut with the listener.
* `DatabaseEffectLocker` has one transaction for each holding; a further one would take a
  connection in the same way.  The holders' work itself is in `Receive`.
* HTTP bodies, settings, static assets and manifest parsing keep no state of their own
  and are not modelled.

## 7. Plan

| Module | What | Properties | Theorems |
|---|---|---|---|
| `Templates` | visibility and archiving of templates beside publication | an archived template serves nothing new | - |
| `Creation` | what a client of Create is promised: one atomic step for each call that is answered | `Provisioning` implements it when no COMMIT answer is lost | the refinement |

`Receive` stays the centre: `EffectLock` and `DatabaseEffectLocker` justify its `lock`, `ProjectionGC` and
`Publication` take over where `gcJobs` and `Live` are constant or only grow, and
`Provisioning` makes the repository it starts from.
