------------------------------ MODULE Lifecycle ------------------------------
(***************************************************************************)
(* Servers start, serve and stop on one PostgreSQL database.               *)
(*                                                                         *)
(*   src/cmd/server/server.go           run: listen, assemble, wait, stop  *)
(*   src/core/kernel/kernel.go          the phases and the order of Stop   *)
(*   src/mod/{jin,sql,git,backend,frontend}/mod.go    the five modules     *)
(*   src/mod/backend/migrate.go, domain/migration, domain/*/migrate.go     *)
(*   src/mod/backend/domain/identity/dao/bootstrap.go  the first user      *)
(*                                                                         *)
(* The assembly of one server is sequential; the module jin is started in  *)
(* a goroutine of its own, and nothing tells run or Stop when it has got   *)
(* anywhere.  Migration and bootstrap of several servers meet in the       *)
(* database.  SQLite, for one process, takes no locks and is left out.     *)
(***************************************************************************)
EXTENDS Naturals, Sequences

CONSTANTS
    Servers,      \* processes
    Requests,     \* requests to each of them
    MaxStarts,    \* starts of one server (a bound)
    Nobody

ASSUME LifecycleAssumption == MaxStarts \in Nat /\ Nobody \notin Servers

ModList == <<"jin", "sql", "git", "backend", "frontend">>
Phases == <<"PreInit", "Init", "PostInit", "Load">>

\* What a module loads from the hub in a phase and what it maps.
Loads(module, phase) ==
    CASE <<module, phase>> = <<"backend", "PostInit">> ->
             {"Engine", "DB", "RepositoryService", "ProjectionBuilder",
              "RepositoryProvisioner", "PluginSourceInspector"}
      [] <<module, phase>> = <<"git", "Load">> ->
             {"Engine", "RepositoryResolver", "GitPATAuthenticator", "Authorizer",
              "DistributionResolver", "ReceiveCoordinator"}
      [] <<module, phase>> = <<"frontend", "Load">> -> {"Engine"}
      [] OTHER -> {}

Maps(module, phase) ==
    CASE <<module, phase>> = <<"jin", "PreInit">> -> {"Engine"}
      [] <<module, phase>> = <<"sql", "PreInit">> -> {"DB"}
      [] <<module, phase>> = <<"git", "Init">> ->
             {"RepositoryService", "RepositoryProvisioner", "ProjectionBuilder",
              "PluginSourceInspector"}
      [] <<module, phase>> = <<"backend", "PostInit">> ->
             {"RepositoryResolver", "DistributionResolver", "GitPATAuthenticator",
              "Authorizer", "ReceiveCoordinator"}
      [] OTHER -> {}

Contracts == {"CMux"} \cup UNION {Maps(ModList[m], Phases[p]) :
                                    m \in DOMAIN ModList, p \in DOMAIN Phases}

\* The domains, in the order in which migrateDomains migrates them.
Domains == <<"identity", "plugin", "distribution">>

\* Stop: the first module, then the others from the last.
StopOrder == <<"jin", "frontend", "backend", "git", "sql">>

VARIABLES
    server,      \* server -> its goroutines, hub and connections
    request,     \* server -> request -> how far it is
    schema,      \* domains whose tables are there
    users,       \* the servers whose first administrator is committed
    locked       \* the session and transaction locks in the database

vars == <<server, request, schema, users, locked>>

Locks == {"migration", "bootstrap"}
Running == {"wait", "stop", "drain"}

Down == [pc |-> "down", why |-> "none", step |-> 1, domain |-> 1, hub |-> {},
         inserted |-> FALSE, jin |-> "none", mux |-> FALSE, listener |-> FALSE,
         shutdown |-> FALSE, db |-> FALSE, late |-> FALSE, timedOut |-> FALSE,
         starts |-> 0]

Init ==
    /\ server = [s \in Servers |-> Down]
    /\ request = [s \in Servers |-> [r \in Requests |-> "none"]]
    /\ schema = {}
    /\ users = {}
    /\ locked = [l \in Locks |-> Nobody]

Set(s, new) == server' = [server EXCEPT ![s] = new]
Release(s) == [l \in Locks |-> IF locked[l] = s THEN Nobody ELSE locked[l]]
At(s, pc) == server[s].pc = pc
Database == <<schema, users, locked>>

-----------------------------------------------------------------------------
(* run and StartModule.                                                    *)

Listen(s) ==
    /\ At(s, "down") /\ server[s].starts < MaxStarts
    /\ Set(s, [server[s] EXCEPT !.pc = "assemble", !.listener = TRUE, !.hub = {"CMux"},
                                !.starts = @ + 1])
    /\ UNCHANGED <<request, Database>>

Phase(s) == Phases[((server[s].step - 1) \div Len(ModList)) + 1]
Module(s) == ModList[((server[s].step - 1) % Len(ModList)) + 1]

\* The module's part of the phase is over.
Completed(s) ==
    [server[s] EXCEPT
        !.hub = @ \cup Maps(Module(s), Phase(s)),
        !.db = @ \/ <<Module(s), Phase(s)>> = <<"sql", "PreInit">>,
        !.step = @ + 1,
        !.pc = IF server[s].step = Len(Phases) * Len(ModList) THEN "start" ELSE "assemble"]

\* A process that ends: its sessions at the database end with it.
Ended(s, why) ==
    /\ Set(s, [Down EXCEPT !.why = why, !.starts = server[s].starts,
                           !.pc = IF why \in {"fault", "killed"} THEN "down" ELSE "ended"])
    /\ request' = [request EXCEPT ![s] = [r \in Requests |->
           IF @[r] \in {"none", "done", "failed"} THEN @[r] ELSE "cut"]]
    /\ locked' = Release(s)
    /\ UNCHANGED <<schema, users>>

Assemble(s) ==
    /\ At(s, "assemble")
    /\ IF Loads(Module(s), Phase(s)) \subseteq server[s].hub
       THEN /\ Set(s, IF <<Module(s), Phase(s)>> = <<"backend", "PostInit">>
                      THEN [server[s] EXCEPT !.pc = "migrate"] ELSE Completed(s))
            /\ UNCHANGED <<request, Database>>
       ELSE Ended(s, "missing dependency")

\* A configuration that is not valid, a database that does not answer, a COMMIT
\* that fails, no password for the first administrator.
Fail(s) ==
    /\ server[s].pc \in {"assemble", "migrate", "domains", "bootstrap", "count", "insert", "commit"}
    /\ Ended(s, "fault")

-----------------------------------------------------------------------------
(* Migration: one session lock around one transaction for each domain.     *)

LockMigration(s) ==
    /\ At(s, "migrate") /\ locked["migration"] = Nobody
    /\ locked' = [locked EXCEPT !["migration"] = s]
    /\ Set(s, [server[s] EXCEPT !.pc = "domains", !.domain = 1])
    /\ UNCHANGED <<request, schema, users>>

\* A domain is not migrated before the tables are there that it refers to.
MigrateDomain(s) ==
    /\ At(s, "domains") /\ server[s].domain <= Len(Domains)
    /\ LET d == server[s].domain IN
       IF \A e \in 1..(d - 1) : Domains[e] \in schema
       THEN /\ schema' = schema \cup {Domains[d]}
            /\ Set(s, [server[s] EXCEPT !.domain = d + 1])
            /\ UNCHANGED <<request, users, locked>>
       ELSE Ended(s, "missing table")

UnlockMigration(s) ==
    /\ At(s, "domains") /\ server[s].domain > Len(Domains)
    /\ locked' = Release(s)
    /\ Set(s, [server[s] EXCEPT !.pc = "bootstrap"])
    /\ UNCHANGED <<request, schema, users>>

-----------------------------------------------------------------------------
(* Bootstrap: one transaction.                                             *)

\* Fault: the transaction is not serialized with that of other servers.
LockNothing(s) ==
    /\ At(s, "bootstrap")
    /\ Set(s, [server[s] EXCEPT !.pc = "count"])
    /\ UNCHANGED <<request, Database>>

LockBootstrap(s) ==
    /\ At(s, "bootstrap") /\ locked["bootstrap"] = Nobody
    /\ locked' = [locked EXCEPT !["bootstrap"] = s]
    /\ Set(s, [server[s] EXCEPT !.pc = "count"])
    /\ UNCHANGED <<request, schema, users>>

CountUsers(s) ==
    /\ At(s, "count")
    /\ Set(s, [server[s] EXCEPT !.pc = IF users = {} THEN "insert" ELSE "commit"])
    /\ UNCHANGED <<request, Database>>

\* The name of the administrator is unique: an insert waits for the transaction
\* that has inserted it, and fails when that commits.
InsertAdministrator(s) ==
    /\ At(s, "insert")
    /\ \A t \in Servers : ~server[t].inserted
    /\ IF users = {}
       THEN /\ Set(s, [server[s] EXCEPT !.pc = "commit", !.inserted = TRUE])
            /\ UNCHANGED <<request, Database>>
       ELSE Ended(s, "duplicate")

\* The COMMIT may take effect although the server is told otherwise or dies.
CommitBootstrap(s) ==
    /\ At(s, "commit")
    /\ users' = IF server[s].inserted THEN users \cup {s} ELSE users
    /\ locked' = Release(s)
    /\ \/ Set(s, [Completed(s) EXCEPT !.inserted = FALSE])
       \/ Set(s, [Down EXCEPT !.why = "fault", !.starts = server[s].starts])
    /\ UNCHANGED <<request, schema>>

-----------------------------------------------------------------------------
(* Serving: run, the goroutine of jin.Start and the goroutine of cmux.     *)

StartModules(s) ==
    /\ At(s, "start")
    /\ Set(s, [server[s] EXCEPT !.pc = "wait", !.jin = "pending"])
    /\ UNCHANGED <<request, Database>>

\* The goroutine may first run after the signal.
ServeMux(s) ==
    /\ server[s].pc \in Running /\ ~server[s].mux
    /\ Set(s, [server[s] EXCEPT !.mux = TRUE])
    /\ UNCHANGED <<request, Database>>

\* jin.Start sets the server, then registers with the mux, then serves.
StartJin(s) ==
    /\ \E next \in {"set", "matched", "serving", "returned"} :
          /\ <<server[s].jin, next>> \in {
                <<"pending", "set">>, <<"set", "matched">>,
                <<"matched", IF server[s].shutdown THEN "returned" ELSE "serving">>}
          /\ Set(s, [server[s] EXCEPT !.jin = next])
    /\ UNCHANGED <<request, Database>>

\* A connection that no matcher takes is closed.
Connect(s, r) ==
    /\ server[s].mux /\ server[s].listener /\ request[s][r] = "none"
    /\ request' = [request EXCEPT ![s][r] =
           IF server[s].jin \in {"matched", "serving"} THEN "queued" ELSE "cut"]
    /\ UNCHANGED <<server, Database>>

Handle(s, r) ==
    /\ \/ /\ request[s][r] = "queued" /\ server[s].jin = "serving"
          /\ request' = [request EXCEPT ![s][r] = "running"]
       \* A query or a transaction begins on a connection of the pool.
       \/ /\ request[s][r] = "running"
          /\ request' = [request EXCEPT ![s][r] = IF server[s].db THEN "querying" ELSE "failed"]
       \* What has begun goes on when the pool is closed.
       \/ /\ request[s][r] = "querying"
          /\ \E next \in {"running", "done"} : request' = [request EXCEPT ![s][r] = next]
    /\ UNCHANGED <<server, Database>>

AtWork(s) == {r \in Requests : request[s][r] \in {"running", "querying"}}

-----------------------------------------------------------------------------
(* Stop.                                                                   *)

\* Notify is installed once everything has been started; an earlier signal
\* kills the process like Kill.
Signal(s) ==
    /\ At(s, "wait")
    /\ Set(s, [server[s] EXCEPT !.pc = "stop", !.step = 1])
    /\ UNCHANGED <<request, Database>>

Stopping(s, module) ==
    /\ At(s, "stop") /\ server[s].step <= Len(StopOrder)
    /\ StopOrder[server[s].step] = module
Stopped(s) == [server[s] EXCEPT !.pc = "stop", !.step = @ + 1]

\* Connections that no handler has taken are closed with the listener.
CutQueued(s) ==
    request' = [request EXCEPT ![s] =
        [r \in Requests |-> IF @[r] = "queued" THEN "cut" ELSE @[r]]]

\* Fault: the listener is closed and nothing waited for.
CloseJin(s) ==
    /\ Stopping(s, "jin")
    /\ Set(s, [Stopped(s) EXCEPT !.shutdown = TRUE, !.listener = FALSE])
    /\ CutQueued(s)
    /\ UNCHANGED Database

\* Nothing orders the write of m.server before its read here: Stop may find none
\* although Start has set it.
StopJin(s) ==
    /\ Stopping(s, "jin")
    /\ \/ /\ server[s].jin \in {"pending", "set"}
          /\ Set(s, [Stopped(s) EXCEPT !.late = TRUE])
          /\ UNCHANGED request
       \/ /\ server[s].jin # "pending"
          /\ Set(s, [server[s] EXCEPT !.pc = "drain", !.shutdown = TRUE, !.listener = FALSE,
                                      !.jin = IF @ = "serving" THEN "returned" ELSE @])
          /\ CutQueued(s)
    /\ UNCHANGED Database

\* Shutdown returns when no handler is left.
Drained(s) ==
    /\ At(s, "drain") /\ AtWork(s) = {}
    /\ Set(s, Stopped(s))
    /\ UNCHANGED <<request, Database>>

\* Fault: Shutdown has no deadline.
DrainForever(s) ==
    /\ At(s, "drain") /\ AtWork(s) # {}
    /\ UNCHANGED vars

\* Or after ShutdownTimeout; Stop goes on with the other modules all the same.
DrainTimeout(s) ==
    /\ At(s, "drain") /\ AtWork(s) # {}
    /\ Set(s, [Stopped(s) EXCEPT !.timedOut = TRUE])
    /\ UNCHANGED <<request, Database>>

StopOthers(s) ==
    /\ \E m \in {"frontend", "backend", "git", "sql"} :
          /\ Stopping(s, m)
          /\ Set(s, [Stopped(s) EXCEPT !.db = @ /\ m # "sql"])
    /\ UNCHANGED <<request, Database>>

Return(s) == At(s, "stop") /\ server[s].step > Len(StopOrder) /\ Ended(s, "stopped")

Kill(s) == server[s].pc \notin {"down", "ended"} /\ Ended(s, "killed")

-----------------------------------------------------------------------------
Progress(s) ==
    \/ Listen(s) \/ Assemble(s)
    \/ LockMigration(s) \/ MigrateDomain(s) \/ UnlockMigration(s)
    \/ LockBootstrap(s) \/ CountUsers(s) \/ InsertAdministrator(s) \/ CommitBootstrap(s)
    \/ StartModules(s) \/ ServeMux(s) \/ StartJin(s)
    \/ StopJin(s) \/ Drained(s) \/ DrainTimeout(s) \/ StopOthers(s) \/ Return(s)

Next ==
    \E s \in Servers :
        \/ Progress(s) \/ Fail(s) \/ Signal(s) \/ Kill(s)
        \/ \E r \in Requests : Connect(s, r) \/ Handle(s, r)

Spec == Init /\ [][Next]_vars

\* run and its goroutines go on; a handler may hang, and a client never come.
FairSpec == Spec /\ \A s \in Servers : WF_vars(Progress(s))

-----------------------------------------------------------------------------
Outcomes == {"none", "fault", "killed", "missing dependency", "missing table",
             "duplicate", "stopped"}
Bootstrapping == {"bootstrap", "count", "insert", "commit"}
Migrating == {"migrate", "domains"} \cup Bootstrapping

ServerStates == [
    pc: {"down", "assemble", "start", "ended"} \cup Migrating \cup Running,
    why: Outcomes,
    step: 1..(Len(Phases) * Len(ModList) + 1),
    domain: 1..(Len(Domains) + 1),
    hub: SUBSET Contracts,
    inserted: BOOLEAN,                                \* its transaction has the row
    jin: {"none", "pending", "set", "matched", "serving", "returned"},
    mux: BOOLEAN, listener: BOOLEAN, shutdown: BOOLEAN, db: BOOLEAN,
    late: BOOLEAN, timedOut: BOOLEAN,                 \* used by properties only
    starts: 0..MaxStarts]

TypeOK ==
    /\ server \in [Servers -> ServerStates]
    /\ request \in [Servers -> [Requests ->
           {"none", "queued", "running", "querying", "done", "failed", "cut"}]]
    /\ schema \subseteq {Domains[d] : d \in DOMAIN Domains}
    /\ users \subseteq Servers
    /\ locked \in [Locks -> Servers \cup {Nobody}]

\* A server that does not start has a fault of its own: the order of modules and
\* phases leaves nothing unmapped (StartModule), and servers that start at once
\* do not get in each other's way (WithBackendLock, lockBootstrapTransaction).
StartsFailForAReason ==
    \A s \in Servers :
        server[s].why \notin {"missing dependency", "missing table", "duplicate"}

\* A handler runs only on a complete schema with an administrator, and with the
\* pool open unless Shutdown timed out or Stop came before jin.Start (Stop closes
\* the ingress first and the database last).
HandlersHaveDatabase ==
    \A s \in Servers : AtWork(s) # {} =>
        /\ \A d \in DOMAIN Domains : Domains[d] \in schema
        /\ users # {}
        /\ server[s].db \/ server[s].timedOut \/ server[s].late

\* A server that is told to stop ends, whatever its handlers do (jin.Stop bounds
\* Shutdown by ShutdownTimeout).
EveryStopEnds ==
    \A s \in Servers : server[s].pc = "stop" ~> server[s].pc \in {"down", "ended"}
=============================================================================
