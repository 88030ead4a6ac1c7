--------------------------- MODULE LifecycleProofs ---------------------------
(***************************************************************************)
(* Any number of servers: none fails to start because of the order of its  *)
(* modules or because of another server, and handlers have their database. *)
(***************************************************************************)
EXTENDS Lifecycle, TLAPS

-----------------------------------------------------------------------------
(* The inductive invariant, for one server.                                *)

\* The two locks of the database are held from their statement to their COMMIT.
LocksHeld(s) ==
    /\ server[s].pc = "domains" => locked["migration"] = s
    /\ server[s].pc \in {"count", "insert", "commit"} => locked["bootstrap"] = s

\* What a transaction of Bootstrap has counted is still so when it inserts.
CountStillTrue(s) ==
    /\ server[s].inserted => server[s].pc = "commit"
    /\ server[s].pc = "insert" => users = {}
    /\ server[s].pc = "commit" => server[s].inserted \/ users # {}

Assembled(s) ==
    \/ server[s].pc = "assemble" /\ server[s].step > 14
    \/ server[s].pc \in {"start"} \cup Running

\* The tables of the domains before the one that is migrated are there.
TablesExist(s) ==
    /\ server[s].pc = "domains" => \A d \in 1 .. server[s].domain - 1 : Domains[d] \in schema
    /\ server[s].pc \in Bootstrapping \/ Assembled(s) =>
          \A d \in DOMAIN Domains : Domains[d] \in schema

AdministratorExists(s) == Assembled(s) => users # {}

\* What the modules have mapped by the step of the assembly: jin in 1, sql in 2,
\* git in 8 and backend in 14, where it migrates.
Mapped(step, hub) ==
    /\ step > 1 => "Engine" \in hub
    /\ step > 2 => "DB" \in hub
    /\ step > 8 => Maps("git", "Init") \subseteq hub
    /\ step > 14 => Maps("backend", "PostInit") \subseteq hub

DependenciesMapped(s) ==
    /\ server[s].pc = "down" => server[s].step = 1
    /\ server[s].pc \in {"assemble"} \cup Migrating =>
          server[s].step <= 20 /\ Mapped(server[s].step, server[s].hub)
    /\ server[s].pc \in Migrating => server[s].step = 14

\* The pool is open from the second step of the assembly to the fifth of Stop.
PoolOpen(s) ==
    \/ server[s].pc = "assemble" /\ server[s].step > 2
    \/ server[s].pc \in Migrating \cup {"start", "wait", "drain"}
    \/ server[s].pc = "stop" /\ server[s].step <= 5
    => server[s].db

\* Once Stop is past jin, nothing is at work any more, unless Shutdown timed out
\* or did not see the server.
IngressClosed(s) ==
    /\ server[s].jin # "none" => server[s].pc \in Running
    /\ AtWork(s) # {} => server[s].pc \in Running
    /\ server[s].pc = "drain" =>
          server[s].step = 1 /\ server[s].shutdown /\ server[s].jin # "serving"
    /\ server[s].pc = "stop" /\ server[s].step > 1 =>
          \/ server[s].late \/ server[s].timedOut
          \/ server[s].shutdown /\ server[s].jin # "serving" /\ AtWork(s) = {}

StartFailsForAReason(s) ==
    server[s].why \notin {"missing dependency", "missing table", "duplicate"}

Sound(s) ==
    /\ StartFailsForAReason(s) /\ LocksHeld(s) /\ CountStillTrue(s) /\ TablesExist(s)
    /\ AdministratorExists(s) /\ DependenciesMapped(s) /\ PoolOpen(s) /\ IngressClosed(s)

IInv == TypeOK /\ \A s \in Servers : Sound(s)

-----------------------------------------------------------------------------
(* Where the modules stand in the assembly.                                *)

LEMMA Lengths == Len(Phases) = 4 /\ Len(ModList) = 5 /\ Len(Domains) = 3 /\ Len(StopOrder) = 5
  BY DEF Phases, ModList, Domains, StopOrder

Pcs == {"down", "assemble", "start", "ended"} \cup Migrating \cup Running
Jins == {"none", "pending", "set", "matched", "serving", "returned"}

LEMMA States ==
    ServerStates = [
        pc: Pcs, why: Outcomes, step: 1 .. 21, domain: 1 .. 4, hub: SUBSET Contracts,
        inserted: BOOLEAN, jin: Jins, mux: BOOLEAN, listener: BOOLEAN, shutdown: BOOLEAN,
        db: BOOLEAN, late: BOOLEAN, timedOut: BOOLEAN, starts: 0 .. MaxStarts]
  BY Lengths DEF ServerStates, Pcs, Jins

\* A state stays one when a field is written.
LEMMA Fields ==
    ASSUME NEW r \in ServerStates
    PROVE  /\ \A v \in Pcs : [r EXCEPT !.pc = v] \in ServerStates
           /\ \A v \in Outcomes : [r EXCEPT !.why = v] \in ServerStates
           /\ \A v \in 1 .. 21 : [r EXCEPT !.step = v] \in ServerStates
           /\ \A v \in 1 .. 4 : [r EXCEPT !.domain = v] \in ServerStates
           /\ \A v \in SUBSET Contracts : [r EXCEPT !.hub = v] \in ServerStates
           /\ \A v \in Jins : [r EXCEPT !.jin = v] \in ServerStates
           /\ \A v \in 0 .. MaxStarts : [r EXCEPT !.starts = v] \in ServerStates
<1>1. \A v \in Pcs : [r EXCEPT !.pc = v] \in ServerStates
  BY States
<1>2. \A v \in Outcomes : [r EXCEPT !.why = v] \in ServerStates
  BY States
<1>3. \A v \in 1 .. 21 : [r EXCEPT !.step = v] \in ServerStates
  BY States
<1>4. \A v \in 1 .. 4 : [r EXCEPT !.domain = v] \in ServerStates
  BY States
<1>5. \A v \in SUBSET Contracts : [r EXCEPT !.hub = v] \in ServerStates
  BY States
<1>6. \A v \in Jins : [r EXCEPT !.jin = v] \in ServerStates
  BY States
<1>7. \A v \in 0 .. MaxStarts : [r EXCEPT !.starts = v] \in ServerStates
  BY States
<1> QED
  BY <1>1, <1>2, <1>3, <1>4, <1>5, <1>6, <1>7

LEMMA Flags ==
    ASSUME NEW r \in ServerStates, NEW v \in BOOLEAN
    PROVE  /\ [r EXCEPT !.inserted = v] \in ServerStates
           /\ [r EXCEPT !.mux = v] \in ServerStates
           /\ [r EXCEPT !.listener = v] \in ServerStates
           /\ [r EXCEPT !.shutdown = v] \in ServerStates
           /\ [r EXCEPT !.db = v] \in ServerStates
           /\ [r EXCEPT !.late = v] \in ServerStates
           /\ [r EXCEPT !.timedOut = v] \in ServerStates
<1>1. [r EXCEPT !.inserted = v] \in ServerStates
  BY States
<1>2. [r EXCEPT !.mux = v] \in ServerStates
  BY States
<1>3. [r EXCEPT !.listener = v] \in ServerStates
  BY States
<1>4. [r EXCEPT !.shutdown = v] \in ServerStates
  BY States
<1>5. [r EXCEPT !.db = v] \in ServerStates
  BY States
<1>6. [r EXCEPT !.late = v] \in ServerStates
  BY States
<1>7. [r EXCEPT !.timedOut = v] \in ServerStates
  BY States
<1> QED
  BY <1>1, <1>2, <1>3, <1>4, <1>5, <1>6, <1>7

LEMMA DownState == Down \in ServerStates
<1>1. "down" \in Pcs /\ "none" \in Outcomes /\ "none" \in Jins /\ 0 \in 0 .. MaxStarts
  BY LifecycleAssumption DEF Pcs, Outcomes, Jins
<1> QED
  BY <1>1, States DEF Down

\* The five modules take part in each of the four phases, in turn.
LEMMA Place ==
    ASSUME NEW s \in Servers, server[s].step \in 1 .. 20
    PROVE  \E m \in 1 .. 5, p \in 1 .. 4 :
              /\ server[s].step = 5 * (p - 1) + m
              /\ Module(s) = ModList[m] /\ Phase(s) = Phases[p]
<1> DEFINE m == ((server[s].step - 1) % 5) + 1
           p == ((server[s].step - 1) \div 5) + 1
<1>1. Module(s) = ModList[m] /\ Phase(s) = Phases[p]
  BY Lengths DEF Module, Phase
<1>2. m \in 1 .. 5 /\ p \in 1 .. 4 /\ server[s].step = 5 * (p - 1) + m
  OBVIOUS
<1> QED
  BY <1>1, <1>2

LEMMA Places ==
    ASSUME NEW s \in Servers, server[s].step \in 1 .. 20
    PROVE  /\ <<Module(s), Phase(s)>> = <<"jin", "PreInit">> <=> server[s].step = 1
           /\ <<Module(s), Phase(s)>> = <<"sql", "PreInit">> <=> server[s].step = 2
           /\ <<Module(s), Phase(s)>> = <<"git", "Init">> <=> server[s].step = 8
           /\ <<Module(s), Phase(s)>> = <<"backend", "PostInit">> <=> server[s].step = 14
           /\ <<Module(s), Phase(s)>> = <<"git", "Load">> <=> server[s].step = 18
           /\ <<Module(s), Phase(s)>> = <<"frontend", "Load">> <=> server[s].step = 20
<1>1. PICK m \in 1 .. 5, p \in 1 .. 4 :
         /\ server[s].step = 5 * (p - 1) + m
         /\ Module(s) = ModList[m] /\ Phase(s) = Phases[p]
  BY Place
<1>2. /\ ModList[m] = "jin" <=> m = 1
      /\ ModList[m] = "sql" <=> m = 2
      /\ ModList[m] = "git" <=> m = 3
      /\ ModList[m] = "backend" <=> m = 4
      /\ ModList[m] = "frontend" <=> m = 5
  BY DEF ModList
<1>3. /\ Phases[p] = "PreInit" <=> p = 1
      /\ Phases[p] = "Init" <=> p = 2
      /\ Phases[p] = "PostInit" <=> p = 3
      /\ Phases[p] = "Load" <=> p = 4
  BY DEF Phases
<1> QED
  BY <1>1, <1>2, <1>3

\* A server that does nothing keeps the invariant while others go on: they add
\* tables and users, and leave its locks.
LEMMA OthersKeep ==
    ASSUME TypeOK, NEW t \in Servers, Sound(t),
           server'[t] = server[t], request'[t] = request[t],
           schema \subseteq schema', users \subseteq users',
           server[t].pc = "insert" => users' = users,
           \A l \in Locks : locked[l] = t => locked'[l] = t
    PROVE  Sound(t)'
<1> USE DEF Sound
<1>1. AtWork(t)' = AtWork(t)
  BY DEF AtWork
<1>2. (LocksHeld(t) /\ CountStillTrue(t))'
  BY DEF LocksHeld, CountStillTrue, Locks
<1>3. (TablesExist(t) /\ AdministratorExists(t))'
  BY DEF TablesExist, AdministratorExists, Assembled
<1>4. (StartFailsForAReason(t) /\ DependenciesMapped(t) /\ PoolOpen(t) /\ IngressClosed(t))'
  BY <1>1 DEF StartFailsForAReason, DependenciesMapped, PoolOpen, IngressClosed
<1> QED
  BY <1>2, <1>3, <1>4

-----------------------------------------------------------------------------
(* One step of one server.                                                 *)

\* The end of a module's part leaves what the later steps rely on.
LEMMA CompletedMapped ==
    ASSUME TypeOK, NEW s \in Servers, DependenciesMapped(s), server[s].pc \in {"assemble", "commit"},
           server[s].step > 2 => server[s].db
    PROVE  /\ Completed(s) \in ServerStates
           /\ Completed(s).step = server[s].step + 1
           /\ Completed(s).pc = IF server[s].step = 20 THEN "start" ELSE "assemble"
           /\ Mapped(server[s].step + 1, Completed(s).hub)
           /\ server[s].step + 1 > 2 => Completed(s).db
           /\ \A field \in {"why", "domain", "inserted", "jin", "mux", "listener", "shutdown",
                            "late", "timedOut", "starts"} :
                 Completed(s)[field] = server[s][field]
<1> DEFINE hub == server[s].hub \cup Maps(Module(s), Phase(s))
           db == server[s].db \/ <<Module(s), Phase(s)>> = <<"sql", "PreInit">>
           pc == IF server[s].step = 20 THEN "start" ELSE "assemble"
           step == server[s].step + 1
<1>1. server[s] \in ServerStates /\ server[s].step \in 1 .. 20
  BY States DEF TypeOK, DependenciesMapped, Migrating, Bootstrapping
<1>2. hub \in SUBSET Contracts /\ db \in BOOLEAN /\ pc \in Pcs /\ step \in 1 .. 21
  <2>1. PICK m \in 1 .. 5, p \in 1 .. 4 : Module(s) = ModList[m] /\ Phase(s) = Phases[p]
    BY <1>1, Place
  <2>2. DOMAIN ModList = 1 .. 5 /\ DOMAIN Phases = 1 .. 4
    BY DEF ModList, Phases
  <2> QED
    BY <1>1, <2>1, <2>2, States DEF Contracts, Pcs
<1>3. Completed(s) = [server[s] EXCEPT !.hub = hub, !.db = db, !.step = step, !.pc = pc]
  BY Lengths DEF Completed
<1>4. Mapped(step, hub) /\ (step > 2 => db)
  <2>1. Mapped(server[s].step, server[s].hub)
    BY DEF DependenciesMapped, Migrating, Bootstrapping
  <2> QED
    BY <1>1, <2>1, Places DEF Mapped, Maps
<1> HIDE DEF hub, db, pc, step
<1>5. Completed(s) \in ServerStates
  <2>1. [server[s] EXCEPT !.hub = hub] \in ServerStates
    BY <1>1, <1>2, Fields
  <2>2. [[server[s] EXCEPT !.hub = hub] EXCEPT !.db = db] \in ServerStates
    BY <1>2, <2>1, Flags
  <2>3. [[[server[s] EXCEPT !.hub = hub] EXCEPT !.db = db] EXCEPT !.step = step] \in ServerStates
    BY <1>2, <2>2, Fields
  <2> QED
    BY <1>2, <1>3, <2>3, Fields
<1>6. /\ Completed(s).hub = hub /\ Completed(s).db = db
      /\ Completed(s).step = step /\ Completed(s).pc = pc
  BY <1>1, <1>3, States
<1>7. \A field \in {"why", "domain", "inserted", "jin", "mux", "listener", "shutdown",
                    "late", "timedOut", "starts"} : Completed(s)[field] = server[s][field]
  BY ZenonT(60), <1>1, <1>3, States
<1> USE DEF pc, step
<1> QED
  BY <1>4, <1>5, <1>6, <1>7

\* A process that ends for a reason of its own.
LEMMA EndedInv ==
    ASSUME IInv, NEW s \in Servers, NEW why \in {"fault", "killed", "stopped"}, Ended(s, why)
    PROVE  IInv'
<1> USE LifecycleAssumption
<1>1. server[s] \in ServerStates
  BY DEF IInv, TypeOK
<1>2. TypeOK'
  <2>1. server' \in [Servers -> ServerStates]
    <3> DEFINE pc == IF why \in {"fault", "killed"} THEN "down" ELSE "ended"
    <3>2. pc \in Pcs /\ why \in Outcomes /\ server[s].starts \in 0 .. MaxStarts
      BY <1>1, States DEF Pcs, Outcomes
    <3> HIDE DEF pc
    <3>3. [[Down EXCEPT !.why = why] EXCEPT !.starts = server[s].starts] \in ServerStates
      BY <3>2, DownState, Fields
    <3>1. [Down EXCEPT !.why = why, !.starts = server[s].starts, !.pc = pc] \in ServerStates
      BY <3>2, <3>3, Fields
    <3> USE DEF pc
    <3> QED
      BY <3>1 DEF IInv, TypeOK, Ended, Set
  <2>2. request' \in [Servers -> [Requests ->
           {"none", "queued", "running", "querying", "done", "failed", "cut"}]]
    BY DEF IInv, TypeOK, Ended
  <2>3. /\ schema' \subseteq {Domains[d] : d \in DOMAIN Domains}
        /\ users' \subseteq Servers
        /\ locked' \in [Locks -> Servers \cup {Nobody}]
    BY DEF IInv, TypeOK, Ended, Release
  <2> QED
    BY <2>1, <2>2, <2>3 DEF TypeOK
<1>3. Sound(s)'
  <2>1. /\ server'[s].pc \in {"down", "ended"} /\ server'[s].step = 1
        /\ server'[s].why = why /\ ~server'[s].inserted /\ server'[s].jin = "none"
    BY <1>1 DEF IInv, TypeOK, Ended, Set, Down
  <2>2. AtWork(s)' = {}
    BY DEF IInv, TypeOK, Ended, AtWork
  <2> QED
    BY <2>1, <2>2 DEF Sound, StartFailsForAReason, LocksHeld, CountStillTrue, TablesExist, Assembled,
         AdministratorExists, DependenciesMapped, PoolOpen, IngressClosed, Running, Migrating, Bootstrapping
<1>4. ASSUME NEW t \in Servers \ {s} PROVE Sound(t)'
  BY <1>1, OthersKeep DEF IInv, TypeOK, Ended, Set, Release
<1> QED
  BY <1>2, <1>3, <1>4 DEF IInv

\* A step of one server that does not touch its requests: it is enough to look at
\* that server.
LEMMA StepKeeps ==
    ASSUME IInv, NEW s \in Servers, NEW new \in ServerStates, Set(s, new), UNCHANGED request,
           schema \subseteq schema', schema' \subseteq {Domains[d] : d \in DOMAIN Domains},
           users \subseteq users', users' \subseteq Servers,
           users' # users => locked["bootstrap"] = s,
           locked' \in [Locks -> Servers \cup {Nobody}],
           \A l \in Locks : locked[l] \in Servers \ {s} => locked'[l] = locked[l]
    PROVE  /\ server'[s] = new /\ AtWork(s)' = AtWork(s)
           /\ Sound(s)' => IInv'
<1>1. server'[s] = new /\ \A t \in Servers \ {s} : server'[t] = server[t]
  BY DEF IInv, TypeOK, Set
<1>2. TypeOK'
  BY DEF IInv, TypeOK, Set
<1>3. ASSUME NEW t \in Servers \ {s} PROVE Sound(t)'
  <2>1. server[t].pc = "insert" => users' = users
    BY DEF IInv, Sound, LocksHeld
  <2> QED
    BY <1>1, <2>1, OthersKeep DEF IInv
<1>4. AtWork(s)' = AtWork(s)
  BY DEF AtWork
<1> QED
  BY <1>1, <1>2, <1>3, <1>4 DEF IInv

LEMMA ListenInv == ASSUME IInv, NEW s \in Servers, Listen(s) PROVE IInv'
<1> DEFINE new == [server[s] EXCEPT !.pc = "assemble", !.listener = TRUE, !.hub = {"CMux"},
                                    !.starts = @ + 1]
<1>1. /\ server[s] \in ServerStates /\ Sound(s)
      /\ server[s].pc = "down" /\ server[s].starts + 1 \in 0 .. MaxStarts
  BY LifecycleAssumption, States DEF IInv, TypeOK, Listen, At
<1>2. new \in ServerStates
  <2>1. "assemble" \in Pcs /\ {"CMux"} \in SUBSET Contracts /\ TRUE \in BOOLEAN
    BY DEF Pcs, Contracts
  <2>2. [server[s] EXCEPT !.pc = "assemble"] \in ServerStates
    BY <1>1, <2>1, Fields
  <2>3. [[server[s] EXCEPT !.pc = "assemble"] EXCEPT !.listener = TRUE] \in ServerStates
    BY <2>1, <2>2, Flags
  <2>4. [[[server[s] EXCEPT !.pc = "assemble"] EXCEPT !.listener = TRUE] EXCEPT !.hub = {"CMux"}]
           \in ServerStates
    BY <2>1, <2>3, Fields
  <2> QED
    BY <1>1, <2>4, Fields
<1>3. /\ new.pc = "assemble" /\ new.step = 1 /\ Mapped(1, new.hub) /\ new.why = server[s].why
      /\ new.inserted = server[s].inserted /\ new.jin = server[s].jin
  BY <1>1, States DEF Sound, DependenciesMapped, Mapped
<1> HIDE DEF new
<1>4. Set(s, new) /\ UNCHANGED <<request, schema, users, locked>>
  BY DEF Listen, Database, new
<1>5. server'[s] = new /\ AtWork(s)' = AtWork(s) /\ (Sound(s)' => IInv')
  BY <1>2, <1>4, StepKeeps DEF IInv, TypeOK
<1>6. Sound(s)'
  <2>1. (StartFailsForAReason(s) /\ LocksHeld(s) /\ CountStillTrue(s))'
    BY <1>1, <1>3, <1>4, <1>5 DEF Sound, StartFailsForAReason, LocksHeld, CountStillTrue
  <2>2. (TablesExist(s) /\ AdministratorExists(s))'
    BY <1>1, <1>3, <1>4, <1>5 DEF Sound, TablesExist, AdministratorExists, Assembled, Running, Bootstrapping
  <2>3. (DependenciesMapped(s) /\ PoolOpen(s))'
    BY <1>1, <1>3, <1>4, <1>5 DEF Sound, DependenciesMapped, PoolOpen, Migrating, Bootstrapping
  <2>4. IngressClosed(s)'
    BY <1>1, <1>3, <1>4, <1>5 DEF Sound, IngressClosed, Running
  <2> QED
    BY <2>1, <2>2, <2>3, <2>4 DEF Sound
<1> QED
  BY <1>5, <1>6

LEMMA AssembleInv == ASSUME IInv, NEW s \in Servers, Assemble(s) PROVE IInv'
<1>1. /\ server[s] \in ServerStates /\ Sound(s) /\ TypeOK /\ DependenciesMapped(s)
      /\ server[s].pc = "assemble" /\ server[s].step \in 1 .. 20
      /\ server[s].step > 2 => server[s].db
  <2>1. server[s] \in ServerStates /\ Sound(s) /\ TypeOK /\ server[s].pc = "assemble"
    BY DEF IInv, TypeOK, Assemble, At
  <2> QED
    BY <2>1, States DEF Sound, DependenciesMapped, PoolOpen
<1>2. Loads(Module(s), Phase(s)) \subseteq server[s].hub
  <2>1. Mapped(server[s].step, server[s].hub)
    BY <1>1 DEF DependenciesMapped
  <2> QED
    BY <1>1, <2>1, Places DEF Loads, Maps, Mapped
<1> DEFINE new == IF <<Module(s), Phase(s)>> = <<"backend", "PostInit">>
                  THEN [server[s] EXCEPT !.pc = "migrate"] ELSE Completed(s)
<1>3. Set(s, new) /\ UNCHANGED <<request, schema, users, locked>>
  BY <1>2 DEF Assemble, Database
<1>4. new \in ServerStates
  BY <1>1, CompletedMapped, Fields DEF Pcs, Migrating
<1> HIDE DEF new
<1>5. server'[s] = new /\ AtWork(s)' = AtWork(s) /\ (Sound(s)' => IInv')
  BY <1>3, <1>4, StepKeeps DEF IInv, TypeOK
<1>6. CASE <<Module(s), Phase(s)>> = <<"backend", "PostInit">>
  <2>1. server[s].step = 14
    BY <1>1, <1>6, Places
  <2>2. /\ new.pc = "migrate" /\ new.step = 14 /\ new.why = server[s].why /\ new.hub = server[s].hub
        /\ new.db = server[s].db /\ new.inserted = server[s].inserted /\ new.jin = server[s].jin
    BY <1>1, <1>6, <2>1, States DEF new
  <2>3. Sound(s)'
    <3>1. (StartFailsForAReason(s) /\ LocksHeld(s) /\ CountStillTrue(s))'
      BY <1>1, <1>3, <1>5, <2>1, <2>2 DEF Sound, StartFailsForAReason, LocksHeld, CountStillTrue
    <3>2. (TablesExist(s) /\ AdministratorExists(s))'
      BY <1>1, <1>3, <1>5, <2>1, <2>2 DEF Sound, TablesExist, AdministratorExists, Assembled, Running, Bootstrapping
    <3>3. (DependenciesMapped(s) /\ PoolOpen(s))'
      BY <1>1, <1>3, <1>5, <2>1, <2>2 DEF Sound, DependenciesMapped, PoolOpen, Migrating, Bootstrapping
    <3>4. IngressClosed(s)'
      BY <1>1, <1>3, <1>5, <2>1, <2>2 DEF Sound, IngressClosed, Running
    <3> QED
      BY <3>1, <3>2, <3>3, <3>4 DEF Sound
  <2> QED
    BY <1>5, <2>3
<1>7. CASE <<Module(s), Phase(s)>> # <<"backend", "PostInit">>
  <2>1. new = Completed(s) /\ server[s].step # 14
    BY <1>1, <1>7, Places DEF new
  <2>2. /\ new.step = server[s].step + 1
        /\ new.pc = IF server[s].step = 20 THEN "start" ELSE "assemble"
        /\ Mapped(server[s].step + 1, new.hub) /\ (server[s].step + 1 > 2 => new.db)
        /\ new.why = server[s].why /\ new.inserted = server[s].inserted /\ new.jin = server[s].jin
    BY <1>1, <2>1, CompletedMapped
  <2>3. Sound(s)'
    <3>1. (StartFailsForAReason(s) /\ LocksHeld(s) /\ CountStillTrue(s))'
      BY <1>1, <1>3, <1>5, <2>1, <2>2 DEF Sound, StartFailsForAReason, LocksHeld, CountStillTrue
    <3>2. (TablesExist(s) /\ AdministratorExists(s))'
      BY <1>1, <1>3, <1>5, <2>1, <2>2 DEF Sound, TablesExist, AdministratorExists, Assembled, Running, Bootstrapping
    <3>3. (DependenciesMapped(s) /\ PoolOpen(s))'
      BY <1>1, <1>3, <1>5, <2>1, <2>2 DEF Sound, DependenciesMapped, PoolOpen, Migrating, Bootstrapping
    <3>4. IngressClosed(s)'
      BY <1>1, <1>3, <1>5, <2>1, <2>2 DEF Sound, IngressClosed, Running
    <3> QED
      BY <3>1, <3>2, <3>3, <3>4 DEF Sound
  <2> QED
    BY <1>5, <2>3
<1> QED
  BY <1>6, <1>7

\* Migration and bootstrap: one transaction each.
LEMMA LockMigrationInv == ASSUME IInv, NEW s \in Servers, LockMigration(s) PROVE IInv'
<1> DEFINE new == [server[s] EXCEPT !.pc = "domains", !.domain = 1]
<1>1. /\ server[s] \in ServerStates /\ Sound(s)
      /\ server[s].pc = "migrate"
      /\ locked \in [Locks -> Servers \cup {Nobody}]
  BY DEF IInv, TypeOK, LockMigration, At
<1>2. new \in ServerStates
  <2>1. "domains" \in Pcs /\ 1 \in 1 .. 4
    BY <1>1, States DEF Pcs, Jins, Migrating, Bootstrapping, Running
  <2>2. [server[s] EXCEPT !.pc = "domains"] \in ServerStates
    BY <2>1, <1>1, Fields
  <2> QED
    BY <2>1, <2>2, Fields
<1>3. /\ new.pc = "domains" /\ new.why = server[s].why /\ new.step = server[s].step
      /\ new.domain = 1 /\ new.hub = server[s].hub /\ new.inserted = server[s].inserted
      /\ new.jin = server[s].jin /\ new.shutdown = server[s].shutdown /\ new.db = server[s].db
      /\ new.late = server[s].late /\ new.timedOut = server[s].timedOut
  BY <1>1, States
<1> HIDE DEF new
<1>4. Set(s, new) /\ locked' = [locked EXCEPT !["migration"] = s] /\ locked["migration"] = Nobody /\ UNCHANGED <<request, schema, users>>
  BY DEF LockMigration, new
<1>5. server'[s] = new /\ AtWork(s)' = AtWork(s) /\ (Sound(s)' => IInv')
  BY <1>1, <1>2, <1>4, StepKeeps, LifecycleAssumption DEF IInv, TypeOK, Locks
<1>6. Sound(s)'
  <2>1. (StartFailsForAReason(s) /\ LocksHeld(s) /\ CountStillTrue(s))'
    BY <1>1, <1>3, <1>4, <1>5 DEF Sound, StartFailsForAReason, LocksHeld, CountStillTrue, Locks
  <2>2. (TablesExist(s) /\ AdministratorExists(s))'
    BY <1>1, <1>3, <1>4, <1>5 DEF Sound, TablesExist, AdministratorExists, Assembled, Running, Bootstrapping
  <2>3. (DependenciesMapped(s) /\ PoolOpen(s))'
    BY <1>1, <1>3, <1>4, <1>5 DEF Sound, DependenciesMapped, PoolOpen, Migrating, Bootstrapping
  <2>4. IngressClosed(s)'
    BY <1>1, <1>3, <1>4, <1>5 DEF Sound, IngressClosed, Running
  <2> QED
    BY <2>1, <2>2, <2>3, <2>4 DEF Sound
<1> QED
  BY <1>5, <1>6

LEMMA UnlockMigrationInv == ASSUME IInv, NEW s \in Servers, UnlockMigration(s) PROVE IInv'
<1> DEFINE new == [server[s] EXCEPT !.pc = "bootstrap"]
<1>1. /\ server[s] \in ServerStates /\ Sound(s)
      /\ server[s].pc = "domains"
      /\ \A d \in DOMAIN Domains : Domains[d] \in schema
  <2>1. server[s] \in ServerStates /\ Sound(s) /\ server[s].pc = "domains" /\ server[s].domain > 3
    BY Lengths DEF IInv, TypeOK, UnlockMigration, At
  <2>2. server[s].domain = 4 /\ DOMAIN Domains = 1 .. 3
    BY <2>1, States DEF Domains
  <2> QED
    BY <2>1, <2>2 DEF Sound, TablesExist
<1>2. new \in ServerStates
  <2>1. "bootstrap" \in Pcs
    BY <1>1, States DEF Pcs, Jins, Migrating, Bootstrapping, Running
  <2> QED
    BY <2>1, <1>1, Fields
<1>3. /\ new.pc = "bootstrap" /\ new.why = server[s].why /\ new.step = server[s].step
      /\ new.domain = server[s].domain /\ new.hub = server[s].hub /\ new.inserted = server[s].inserted
      /\ new.jin = server[s].jin /\ new.shutdown = server[s].shutdown /\ new.db = server[s].db
      /\ new.late = server[s].late /\ new.timedOut = server[s].timedOut
  BY <1>1, States
<1> HIDE DEF new
<1>4. Set(s, new) /\ locked' = Release(s) /\ UNCHANGED <<request, schema, users>>
  BY DEF UnlockMigration, new
<1>5. server'[s] = new /\ AtWork(s)' = AtWork(s) /\ (Sound(s)' => IInv')
  BY <1>1, <1>2, <1>4, StepKeeps DEF IInv, TypeOK, Release, Locks
<1>6. Sound(s)'
  <2>1. (StartFailsForAReason(s) /\ LocksHeld(s) /\ CountStillTrue(s))'
    BY <1>1, <1>3, <1>4, <1>5 DEF Sound, StartFailsForAReason, LocksHeld, CountStillTrue, Locks
  <2>2. (TablesExist(s) /\ AdministratorExists(s))'
    BY <1>1, <1>3, <1>4, <1>5 DEF Sound, TablesExist, AdministratorExists, Assembled, Running, Bootstrapping
  <2>3. (DependenciesMapped(s) /\ PoolOpen(s))'
    BY <1>1, <1>3, <1>4, <1>5 DEF Sound, DependenciesMapped, PoolOpen, Migrating, Bootstrapping
  <2>4. IngressClosed(s)'
    BY <1>1, <1>3, <1>4, <1>5 DEF Sound, IngressClosed, Running
  <2> QED
    BY <2>1, <2>2, <2>3, <2>4 DEF Sound
<1> QED
  BY <1>5, <1>6

LEMMA LockBootstrapInv == ASSUME IInv, NEW s \in Servers, LockBootstrap(s) PROVE IInv'
<1> DEFINE new == [server[s] EXCEPT !.pc = "count"]
<1>1. /\ server[s] \in ServerStates /\ Sound(s)
      /\ server[s].pc = "bootstrap"
      /\ locked \in [Locks -> Servers \cup {Nobody}]
  BY DEF IInv, TypeOK, LockBootstrap, At
<1>2. new \in ServerStates
  <2>1. "count" \in Pcs
    BY <1>1, States DEF Pcs, Jins, Migrating, Bootstrapping, Running
  <2> QED
    BY <2>1, <1>1, Fields
<1>3. /\ new.pc = "count" /\ new.why = server[s].why /\ new.step = server[s].step
      /\ new.domain = server[s].domain /\ new.hub = server[s].hub /\ new.inserted = server[s].inserted
      /\ new.jin = server[s].jin /\ new.shutdown = server[s].shutdown /\ new.db = server[s].db
      /\ new.late = server[s].late /\ new.timedOut = server[s].timedOut
  BY <1>1, States
<1> HIDE DEF new
<1>4. Set(s, new) /\ locked' = [locked EXCEPT !["bootstrap"] = s] /\ locked["bootstrap"] = Nobody /\ UNCHANGED <<request, schema, users>>
  BY DEF LockBootstrap, new
<1>5. server'[s] = new /\ AtWork(s)' = AtWork(s) /\ (Sound(s)' => IInv')
  BY <1>1, <1>2, <1>4, StepKeeps, LifecycleAssumption DEF IInv, TypeOK, Locks
<1>6. Sound(s)'
  <2>1. (StartFailsForAReason(s) /\ LocksHeld(s) /\ CountStillTrue(s))'
    BY <1>1, <1>3, <1>4, <1>5 DEF Sound, StartFailsForAReason, LocksHeld, CountStillTrue, Locks
  <2>2. (TablesExist(s) /\ AdministratorExists(s))'
    BY <1>1, <1>3, <1>4, <1>5 DEF Sound, TablesExist, AdministratorExists, Assembled, Running, Bootstrapping
  <2>3. (DependenciesMapped(s) /\ PoolOpen(s))'
    BY <1>1, <1>3, <1>4, <1>5 DEF Sound, DependenciesMapped, PoolOpen, Migrating, Bootstrapping
  <2>4. IngressClosed(s)'
    BY <1>1, <1>3, <1>4, <1>5 DEF Sound, IngressClosed, Running
  <2> QED
    BY <2>1, <2>2, <2>3, <2>4 DEF Sound
<1> QED
  BY <1>5, <1>6

LEMMA CountUsersInv == ASSUME IInv, NEW s \in Servers, CountUsers(s) PROVE IInv'
<1> DEFINE new == [server[s] EXCEPT !.pc = (IF users = {} THEN "insert" ELSE "commit")]
<1>1. /\ server[s] \in ServerStates /\ Sound(s)
      /\ server[s].pc = "count"
  BY DEF IInv, TypeOK, CountUsers, At
<1>2. new \in ServerStates
  <2>1. (IF users = {} THEN "insert" ELSE "commit") \in Pcs
    BY <1>1, States DEF Pcs, Jins, Migrating, Bootstrapping, Running
  <2> QED
    BY <2>1, <1>1, Fields
<1>3. /\ new.pc = (IF users = {} THEN "insert" ELSE "commit") /\ new.why = server[s].why /\ new.step = server[s].step
      /\ new.domain = server[s].domain /\ new.hub = server[s].hub /\ new.inserted = server[s].inserted
      /\ new.jin = server[s].jin /\ new.shutdown = server[s].shutdown /\ new.db = server[s].db
      /\ new.late = server[s].late /\ new.timedOut = server[s].timedOut
  BY <1>1, States
<1> HIDE DEF new
<1>4. Set(s, new) /\ UNCHANGED <<request, schema, users, locked>>
  BY DEF CountUsers, Database, new
<1>5. server'[s] = new /\ AtWork(s)' = AtWork(s) /\ (Sound(s)' => IInv')
  BY <1>1, <1>2, <1>4, StepKeeps DEF IInv, TypeOK
<1>6. Sound(s)'
  <2>1. (StartFailsForAReason(s) /\ LocksHeld(s) /\ CountStillTrue(s))'
    BY <1>1, <1>3, <1>4, <1>5 DEF Sound, StartFailsForAReason, LocksHeld, CountStillTrue, Locks
  <2>2. (TablesExist(s) /\ AdministratorExists(s))'
    BY <1>1, <1>3, <1>4, <1>5 DEF Sound, TablesExist, AdministratorExists, Assembled, Running, Bootstrapping
  <2>3. (DependenciesMapped(s) /\ PoolOpen(s))'
    BY <1>1, <1>3, <1>4, <1>5 DEF Sound, DependenciesMapped, PoolOpen, Migrating, Bootstrapping
  <2>4. IngressClosed(s)'
    BY <1>1, <1>3, <1>4, <1>5 DEF Sound, IngressClosed, Running
  <2> QED
    BY <2>1, <2>2, <2>3, <2>4 DEF Sound
<1> QED
  BY <1>5, <1>6

\* Serving and stopping.
LEMMA StartModulesInv == ASSUME IInv, NEW s \in Servers, StartModules(s) PROVE IInv'
<1> DEFINE new == [server[s] EXCEPT !.pc = "wait", !.jin = "pending"]
<1>1. /\ server[s] \in ServerStates /\ Sound(s)
      /\ server[s].pc = "start"
  BY DEF IInv, TypeOK, StartModules, At
<1>2. new \in ServerStates
  <2>1. "wait" \in Pcs /\ "pending" \in Jins
    BY <1>1, States DEF Pcs, Jins, Migrating, Bootstrapping, Running
  <2>2. [server[s] EXCEPT !.pc = "wait"] \in ServerStates
    BY <2>1, <1>1, Fields
  <2> QED
    BY <2>1, <2>2, Fields
<1>3. /\ new.pc = "wait" /\ new.why = server[s].why /\ new.step = server[s].step
      /\ new.domain = server[s].domain /\ new.hub = server[s].hub /\ new.inserted = server[s].inserted
      /\ new.jin = "pending" /\ new.shutdown = server[s].shutdown /\ new.db = server[s].db
      /\ new.late = server[s].late /\ new.timedOut = server[s].timedOut
  BY <1>1, States
<1> HIDE DEF new
<1>4. Set(s, new) /\ UNCHANGED <<request, schema, users, locked>>
  BY DEF StartModules, Database, new
<1>5. server'[s] = new /\ AtWork(s)' = AtWork(s) /\ (Sound(s)' => IInv')
  BY <1>1, <1>2, <1>4, StepKeeps DEF IInv, TypeOK
<1>6. Sound(s)'
  <2>1. (StartFailsForAReason(s) /\ LocksHeld(s) /\ CountStillTrue(s))'
    BY <1>1, <1>3, <1>4, <1>5 DEF Sound, StartFailsForAReason, LocksHeld, CountStillTrue, Locks
  <2>2. (TablesExist(s) /\ AdministratorExists(s))'
    BY <1>1, <1>3, <1>4, <1>5 DEF Sound, TablesExist, AdministratorExists, Assembled, Running, Bootstrapping
  <2>3. (DependenciesMapped(s) /\ PoolOpen(s))'
    BY <1>1, <1>3, <1>4, <1>5 DEF Sound, DependenciesMapped, PoolOpen, Migrating, Bootstrapping
  <2>4. IngressClosed(s)'
    BY <1>1, <1>3, <1>4, <1>5 DEF Sound, IngressClosed, Running
  <2> QED
    BY <2>1, <2>2, <2>3, <2>4 DEF Sound
<1> QED
  BY <1>5, <1>6

LEMMA ServeMuxInv == ASSUME IInv, NEW s \in Servers, ServeMux(s) PROVE IInv'
<1> DEFINE new == [server[s] EXCEPT !.mux = TRUE]
<1>1. /\ server[s] \in ServerStates /\ Sound(s)
      /\ server[s].pc \in Running
  BY DEF IInv, TypeOK, ServeMux, At
<1>2. new \in ServerStates
  <2>1. TRUE \in BOOLEAN
    BY <1>1, States DEF Pcs, Jins, Migrating, Bootstrapping, Running
  <2> QED
    BY <2>1, <1>1, Flags
<1>3. /\ new.pc = server[s].pc /\ new.why = server[s].why /\ new.step = server[s].step
      /\ new.domain = server[s].domain /\ new.hub = server[s].hub /\ new.inserted = server[s].inserted
      /\ new.jin = server[s].jin /\ new.shutdown = server[s].shutdown /\ new.db = server[s].db
      /\ new.late = server[s].late /\ new.timedOut = server[s].timedOut
  BY <1>1, States
<1> HIDE DEF new
<1>4. Set(s, new) /\ UNCHANGED <<request, schema, users, locked>>
  BY DEF ServeMux, Database, new
<1>5. server'[s] = new /\ AtWork(s)' = AtWork(s) /\ (Sound(s)' => IInv')
  BY <1>1, <1>2, <1>4, StepKeeps DEF IInv, TypeOK
<1>6. Sound(s)'
  <2>1. (StartFailsForAReason(s) /\ LocksHeld(s) /\ CountStillTrue(s))'
    BY <1>1, <1>3, <1>4, <1>5 DEF Sound, StartFailsForAReason, LocksHeld, CountStillTrue, Locks
  <2>2. (TablesExist(s) /\ AdministratorExists(s))'
    BY <1>1, <1>3, <1>4, <1>5 DEF Sound, TablesExist, AdministratorExists, Assembled, Running, Bootstrapping
  <2>3. (DependenciesMapped(s) /\ PoolOpen(s))'
    BY <1>1, <1>3, <1>4, <1>5 DEF Sound, DependenciesMapped, PoolOpen, Migrating, Bootstrapping
  <2>4. IngressClosed(s)'
    BY <1>1, <1>3, <1>4, <1>5 DEF Sound, IngressClosed, Running
  <2> QED
    BY <2>1, <2>2, <2>3, <2>4 DEF Sound
<1> QED
  BY <1>5, <1>6

LEMMA SignalInv == ASSUME IInv, NEW s \in Servers, Signal(s) PROVE IInv'
<1> DEFINE new == [server[s] EXCEPT !.pc = "stop", !.step = 1]
<1>1. /\ server[s] \in ServerStates /\ Sound(s)
      /\ server[s].pc = "wait"
  BY DEF IInv, TypeOK, Signal, At
<1>2. new \in ServerStates
  <2>1. "stop" \in Pcs /\ 1 \in 1 .. 21
    BY <1>1, States DEF Pcs, Jins, Migrating, Bootstrapping, Running
  <2>2. [server[s] EXCEPT !.pc = "stop"] \in ServerStates
    BY <2>1, <1>1, Fields
  <2> QED
    BY <2>1, <2>2, Fields
<1>3. /\ new.pc = "stop" /\ new.why = server[s].why /\ new.step = 1
      /\ new.domain = server[s].domain /\ new.hub = server[s].hub /\ new.inserted = server[s].inserted
      /\ new.jin = server[s].jin /\ new.shutdown = server[s].shutdown /\ new.db = server[s].db
      /\ new.late = server[s].late /\ new.timedOut = server[s].timedOut
  BY <1>1, States
<1> HIDE DEF new
<1>4. Set(s, new) /\ UNCHANGED <<request, schema, users, locked>>
  BY DEF Signal, Database, new
<1>5. server'[s] = new /\ AtWork(s)' = AtWork(s) /\ (Sound(s)' => IInv')
  BY <1>1, <1>2, <1>4, StepKeeps DEF IInv, TypeOK
<1>6. Sound(s)'
  <2>1. (StartFailsForAReason(s) /\ LocksHeld(s) /\ CountStillTrue(s))'
    BY <1>1, <1>3, <1>4, <1>5 DEF Sound, StartFailsForAReason, LocksHeld, CountStillTrue, Locks
  <2>2. (TablesExist(s) /\ AdministratorExists(s))'
    BY <1>1, <1>3, <1>4, <1>5 DEF Sound, TablesExist, AdministratorExists, Assembled, Running, Bootstrapping
  <2>3. (DependenciesMapped(s) /\ PoolOpen(s))'
    BY <1>1, <1>3, <1>4, <1>5 DEF Sound, DependenciesMapped, PoolOpen, Migrating, Bootstrapping
  <2>4. IngressClosed(s)'
    BY <1>1, <1>3, <1>4, <1>5 DEF Sound, IngressClosed, Running
  <2> QED
    BY <2>1, <2>2, <2>3, <2>4 DEF Sound
<1> QED
  BY <1>5, <1>6

LEMMA DrainedInv == ASSUME IInv, NEW s \in Servers, Drained(s) PROVE IInv'
<1> DEFINE new == [server[s] EXCEPT !.pc = "stop", !.step = server[s].step + 1]
<1>1. /\ server[s] \in ServerStates /\ Sound(s)
      /\ server[s].pc = "drain"
      /\ AtWork(s) = {}
      /\ server[s].step + 1 \in 1 .. 21
  <2>1. server[s] \in ServerStates /\ Sound(s) /\ server[s].pc = "drain" /\ AtWork(s) = {}
    BY DEF IInv, TypeOK, Drained, At
  <2> QED
    BY <2>1 DEF Sound, IngressClosed
<1>2. new \in ServerStates
  <2>1. "stop" \in Pcs /\ server[s].step + 1 \in 1 .. 21
    BY <1>1, States DEF Pcs, Jins, Migrating, Bootstrapping, Running
  <2>2. [server[s] EXCEPT !.pc = "stop"] \in ServerStates
    BY <2>1, <1>1, Fields
  <2> QED
    BY <2>1, <2>2, Fields
<1>3. /\ new.pc = "stop" /\ new.why = server[s].why /\ new.step = server[s].step + 1
      /\ new.domain = server[s].domain /\ new.hub = server[s].hub /\ new.inserted = server[s].inserted
      /\ new.jin = server[s].jin /\ new.shutdown = server[s].shutdown /\ new.db = server[s].db
      /\ new.late = server[s].late /\ new.timedOut = server[s].timedOut
  BY <1>1, States
<1> HIDE DEF new
<1>4. Set(s, new) /\ UNCHANGED <<request, schema, users, locked>>
  BY DEF Drained, Stopped, Database, new
<1>5. server'[s] = new /\ AtWork(s)' = AtWork(s) /\ (Sound(s)' => IInv')
  BY <1>1, <1>2, <1>4, StepKeeps DEF IInv, TypeOK
<1>6. Sound(s)'
  <2>1. (StartFailsForAReason(s) /\ LocksHeld(s) /\ CountStillTrue(s))'
    BY <1>1, <1>3, <1>4, <1>5 DEF Sound, StartFailsForAReason, LocksHeld, CountStillTrue, Locks
  <2>2. (TablesExist(s) /\ AdministratorExists(s))'
    BY <1>1, <1>3, <1>4, <1>5 DEF Sound, TablesExist, AdministratorExists, Assembled, Running, Bootstrapping
  <2>3. (DependenciesMapped(s) /\ PoolOpen(s))'
    BY <1>1, <1>3, <1>4, <1>5 DEF Sound, DependenciesMapped, PoolOpen, Migrating, Bootstrapping
  <2>4. IngressClosed(s)'
    BY <1>1, <1>3, <1>4, <1>5 DEF Sound, IngressClosed, Running
  <2> QED
    BY <2>1, <2>2, <2>3, <2>4 DEF Sound
<1> QED
  BY <1>5, <1>6

LEMMA DrainTimeoutInv == ASSUME IInv, NEW s \in Servers, DrainTimeout(s) PROVE IInv'
<1> DEFINE new == [server[s] EXCEPT !.pc = "stop", !.step = server[s].step + 1, !.timedOut = TRUE]
<1>1. /\ server[s] \in ServerStates /\ Sound(s)
      /\ server[s].pc = "drain"
      /\ server[s].step + 1 \in 1 .. 21
  <2>1. server[s] \in ServerStates /\ Sound(s) /\ server[s].pc = "drain"
    BY DEF IInv, TypeOK, DrainTimeout, At
  <2> QED
    BY <2>1 DEF Sound, IngressClosed
<1>2. new \in ServerStates
  <2>1. "stop" \in Pcs /\ server[s].step + 1 \in 1 .. 21 /\ TRUE \in BOOLEAN
    BY <1>1, States DEF Pcs, Jins, Migrating, Bootstrapping, Running
  <2>2. [server[s] EXCEPT !.pc = "stop"] \in ServerStates
    BY <2>1, <1>1, Fields
  <2>3. [[server[s] EXCEPT !.pc = "stop"] EXCEPT !.step = server[s].step + 1] \in ServerStates
    BY <2>1, <2>2, Fields
  <2> QED
    BY <2>1, <2>3, Flags
<1>3. /\ new.pc = "stop" /\ new.why = server[s].why /\ new.step = server[s].step + 1
      /\ new.domain = server[s].domain /\ new.hub = server[s].hub /\ new.inserted = server[s].inserted
      /\ new.jin = server[s].jin /\ new.shutdown = server[s].shutdown /\ new.db = server[s].db
      /\ new.late = server[s].late /\ new.timedOut = TRUE
  BY <1>1, States
<1> HIDE DEF new
<1>4. Set(s, new) /\ UNCHANGED <<request, schema, users, locked>>
  BY DEF DrainTimeout, Stopped, Database, new
<1>5. server'[s] = new /\ AtWork(s)' = AtWork(s) /\ (Sound(s)' => IInv')
  BY <1>1, <1>2, <1>4, StepKeeps DEF IInv, TypeOK
<1>6. Sound(s)'
  <2>1. (StartFailsForAReason(s) /\ LocksHeld(s) /\ CountStillTrue(s))'
    BY <1>1, <1>3, <1>4, <1>5 DEF Sound, StartFailsForAReason, LocksHeld, CountStillTrue, Locks
  <2>2. (TablesExist(s) /\ AdministratorExists(s))'
    BY <1>1, <1>3, <1>4, <1>5 DEF Sound, TablesExist, AdministratorExists, Assembled, Running, Bootstrapping
  <2>3. (DependenciesMapped(s) /\ PoolOpen(s))'
    BY <1>1, <1>3, <1>4, <1>5 DEF Sound, DependenciesMapped, PoolOpen, Migrating, Bootstrapping
  <2>4. IngressClosed(s)'
    BY <1>1, <1>3, <1>4, <1>5 DEF Sound, IngressClosed, Running
  <2> QED
    BY <2>1, <2>2, <2>3, <2>4 DEF Sound
<1> QED
  BY <1>5, <1>6

LEMMA MigrateDomainInv == ASSUME IInv, NEW s \in Servers, MigrateDomain(s) PROVE IInv'
<1> DEFINE new == [server[s] EXCEPT !.domain = server[s].domain + 1]
<1>1. /\ server[s] \in ServerStates /\ Sound(s)
      /\ server[s].pc = "domains"
      /\ server[s].domain \in 1 .. 3
      /\ \A d \in 1 .. server[s].domain - 1 : Domains[d] \in schema
  <2>1. server[s] \in ServerStates /\ Sound(s) /\ server[s].pc = "domains" /\ server[s].domain <= 3
    BY Lengths DEF IInv, TypeOK, MigrateDomain, At
  <2> QED
    BY <2>1, States DEF Sound, TablesExist
<1>2. new \in ServerStates
  <2>1. server[s].domain + 1 \in 1 .. 4
    BY <1>1, States DEF Pcs, Jins, Migrating, Bootstrapping, Running
  <2> QED
    BY <2>1, <1>1, Fields
<1>3. /\ new.pc = server[s].pc /\ new.why = server[s].why /\ new.step = server[s].step
      /\ new.domain = server[s].domain + 1 /\ new.hub = server[s].hub /\ new.inserted = server[s].inserted
      /\ new.jin = server[s].jin /\ new.shutdown = server[s].shutdown /\ new.db = server[s].db
      /\ new.late = server[s].late /\ new.timedOut = server[s].timedOut
  BY <1>1, States
<1> HIDE DEF new
<1>4. Set(s, new) /\ schema' = schema \cup {Domains[server[s].domain]} /\ UNCHANGED <<request, users, locked>>
  BY <1>1 DEF MigrateDomain, new
<1>5. server'[s] = new /\ AtWork(s)' = AtWork(s) /\ (Sound(s)' => IInv')
  BY <1>1, <1>2, <1>4, StepKeeps DEF IInv, TypeOK, Domains
<1>6. Sound(s)'
  <2>1. (StartFailsForAReason(s) /\ LocksHeld(s) /\ CountStillTrue(s))'
    BY <1>1, <1>3, <1>4, <1>5 DEF Sound, StartFailsForAReason, LocksHeld, CountStillTrue, Locks
  <2>2. (TablesExist(s) /\ AdministratorExists(s))'
    BY <1>1, <1>3, <1>4, <1>5 DEF Sound, TablesExist, AdministratorExists, Assembled, Running, Bootstrapping
  <2>3. (DependenciesMapped(s) /\ PoolOpen(s))'
    BY <1>1, <1>3, <1>4, <1>5 DEF Sound, DependenciesMapped, PoolOpen, Migrating, Bootstrapping
  <2>4. IngressClosed(s)'
    BY <1>1, <1>3, <1>4, <1>5 DEF Sound, IngressClosed, Running
  <2> QED
    BY <2>1, <2>2, <2>3, <2>4 DEF Sound
<1> QED
  BY <1>5, <1>6

LEMMA InsertAdministratorInv == ASSUME IInv, NEW s \in Servers, InsertAdministrator(s) PROVE IInv'
<1> DEFINE new == [server[s] EXCEPT !.pc = "commit", !.inserted = TRUE]
<1>1. /\ server[s] \in ServerStates /\ Sound(s)
      /\ server[s].pc = "insert"
      /\ users = {}
  <2>1. server[s] \in ServerStates /\ Sound(s) /\ server[s].pc = "insert"
    BY DEF IInv, TypeOK, InsertAdministrator, At
  <2> QED
    BY <2>1 DEF Sound, CountStillTrue
<1>2. new \in ServerStates
  <2>1. "commit" \in Pcs /\ TRUE \in BOOLEAN
    BY <1>1, States DEF Pcs, Jins, Migrating, Bootstrapping, Running
  <2>2. [server[s] EXCEPT !.pc = "commit"] \in ServerStates
    BY <2>1, <1>1, Fields
  <2> QED
    BY <2>1, <2>2, Flags
<1>3. /\ new.pc = "commit" /\ new.why = server[s].why /\ new.step = server[s].step
      /\ new.domain = server[s].domain /\ new.hub = server[s].hub /\ new.inserted = TRUE
      /\ new.jin = server[s].jin /\ new.shutdown = server[s].shutdown /\ new.db = server[s].db
      /\ new.late = server[s].late /\ new.timedOut = server[s].timedOut
  BY <1>1, States
<1> HIDE DEF new
<1>4. Set(s, new) /\ UNCHANGED <<request, schema, users, locked>>
  BY <1>1 DEF InsertAdministrator, Database, new
<1>5. server'[s] = new /\ AtWork(s)' = AtWork(s) /\ (Sound(s)' => IInv')
  BY <1>1, <1>2, <1>4, StepKeeps DEF IInv, TypeOK
<1>6. Sound(s)'
  <2>1. (StartFailsForAReason(s) /\ LocksHeld(s) /\ CountStillTrue(s))'
    BY <1>1, <1>3, <1>4, <1>5 DEF Sound, StartFailsForAReason, LocksHeld, CountStillTrue, Locks
  <2>2. (TablesExist(s) /\ AdministratorExists(s))'
    BY <1>1, <1>3, <1>4, <1>5 DEF Sound, TablesExist, AdministratorExists, Assembled, Running, Bootstrapping
  <2>3. (DependenciesMapped(s) /\ PoolOpen(s))'
    BY <1>1, <1>3, <1>4, <1>5 DEF Sound, DependenciesMapped, PoolOpen, Migrating, Bootstrapping
  <2>4. IngressClosed(s)'
    BY <1>1, <1>3, <1>4, <1>5 DEF Sound, IngressClosed, Running
  <2> QED
    BY <2>1, <2>2, <2>3, <2>4 DEF Sound
<1> QED
  BY <1>5, <1>6

\* The COMMIT frees the lock whether its answer arrives or not.
LEMMA CommitBootstrapInv == ASSUME IInv, NEW s \in Servers, CommitBootstrap(s) PROVE IInv'
<1> DEFINE done == [Completed(s) EXCEPT !.inserted = FALSE]
           lost == [Down EXCEPT !.why = "fault", !.starts = server[s].starts]
<1>1. /\ server[s] \in ServerStates /\ Sound(s) /\ TypeOK /\ DependenciesMapped(s)
      /\ server[s].pc = "commit" /\ server[s].step = 14 /\ server[s].db
      /\ locked["bootstrap"] = s
  <2>1. server[s] \in ServerStates /\ Sound(s) /\ TypeOK /\ server[s].pc = "commit"
    BY DEF IInv, TypeOK, CommitBootstrap, At
  <2> QED
    BY <2>1 DEF Sound, DependenciesMapped, PoolOpen, LocksHeld, Migrating, Bootstrapping
<1>2. /\ users \subseteq users' /\ users' \subseteq Servers /\ users' # {}
      /\ locked' = Release(s) /\ UNCHANGED <<request, schema>>
      /\ Set(s, done) \/ Set(s, lost)
  BY <1>1 DEF CommitBootstrap, Sound, CountStillTrue, TypeOK
<1>3. done \in ServerStates /\ lost \in ServerStates
  <2>1. Completed(s) \in ServerStates
    BY <1>1, CompletedMapped
  <2>2. "fault" \in Outcomes /\ server[s].starts \in 0 .. MaxStarts /\ FALSE \in BOOLEAN
    BY <1>1, States DEF Outcomes
  <2>3. [Down EXCEPT !.why = "fault"] \in ServerStates
    BY <2>2, DownState, Fields
  <2> QED
    BY <2>1, <2>2, <2>3, Fields, Flags
<1>4. /\ done.step = 15 /\ done.pc = "assemble" /\ Mapped(15, done.hub) /\ done.db
      /\ done.why = server[s].why /\ ~done.inserted /\ done.jin = server[s].jin
  <2>1. /\ Completed(s) \in ServerStates /\ Completed(s).step = 15 /\ Completed(s).pc = "assemble"
        /\ Mapped(15, Completed(s).hub) /\ Completed(s).db
        /\ Completed(s).why = server[s].why /\ Completed(s).jin = server[s].jin
    BY <1>1, CompletedMapped
  <2> QED
    BY <2>1, States
<1>5. /\ lost.pc = "down" /\ lost.why = "fault" /\ lost.step = 1 /\ ~lost.inserted
      /\ lost.jin = "none"
  BY DEF Down
<1> HIDE DEF done, lost
<1>6. ASSUME NEW new \in {done, lost}, Set(s, new)
      PROVE  server'[s] = new /\ AtWork(s)' = AtWork(s) /\ (Sound(s)' => IInv')
  BY <1>1, <1>2, <1>3, <1>6, StepKeeps DEF IInv, TypeOK, Release, Locks
<1>7. CASE Set(s, done)
  <2>1. server'[s] = done /\ AtWork(s)' = AtWork(s) /\ (Sound(s)' => IInv')
    BY <1>6, <1>7
  <2>2. (StartFailsForAReason(s) /\ LocksHeld(s) /\ CountStillTrue(s))'
    BY <1>1, <1>4, <2>1 DEF Sound, StartFailsForAReason, LocksHeld, CountStillTrue
  <2>3. (TablesExist(s) /\ AdministratorExists(s))'
    BY <1>1, <1>2, <1>4, <2>1 DEF Sound, TablesExist, AdministratorExists, Assembled, Running, Bootstrapping
  <2>4. (DependenciesMapped(s) /\ PoolOpen(s))'
    BY <1>1, <1>4, <2>1 DEF Sound, DependenciesMapped, PoolOpen, Migrating, Bootstrapping
  <2>5. IngressClosed(s)'
    BY <1>1, <1>4, <2>1 DEF Sound, IngressClosed, Running
  <2> QED
    BY <2>1, <2>2, <2>3, <2>4, <2>5 DEF Sound
<1>8. CASE Set(s, lost)
  <2>1. server'[s] = lost /\ AtWork(s)' = AtWork(s) /\ (Sound(s)' => IInv')
    BY <1>6, <1>8
  <2>2. (StartFailsForAReason(s) /\ LocksHeld(s) /\ CountStillTrue(s))'
    BY <1>5, <2>1 DEF StartFailsForAReason, LocksHeld, CountStillTrue
  <2>3. (TablesExist(s) /\ AdministratorExists(s))'
    BY <1>5, <2>1 DEF TablesExist, AdministratorExists, Assembled, Running, Bootstrapping
  <2>4. (DependenciesMapped(s) /\ PoolOpen(s))'
    BY <1>5, <2>1 DEF DependenciesMapped, PoolOpen, Migrating, Bootstrapping
  <2>5. IngressClosed(s)'
    BY <1>1, <1>5, <2>1 DEF Sound, IngressClosed, Running
  <2> QED
    BY <2>1, <2>2, <2>3, <2>4, <2>5 DEF Sound
<1> QED
  BY <1>2, <1>7, <1>8

LEMMA StartJinInv == ASSUME IInv, NEW s \in Servers, StartJin(s) PROVE IInv'
<1>1. /\ server[s] \in ServerStates /\ Sound(s) /\ server[s].pc \in Running
  <2>1. server[s] \in ServerStates /\ Sound(s) /\ server[s].jin # "none"
    BY DEF IInv, TypeOK, StartJin
  <2> QED
    BY <2>1 DEF Sound, IngressClosed
<1>2. PICK next \in {"set", "matched", "serving", "returned"} :
         /\ next = "serving" => ~server[s].shutdown
         /\ Set(s, [server[s] EXCEPT !.jin = next])
         /\ UNCHANGED <<request, schema, users, locked>>
  BY DEF StartJin, Database
<1> DEFINE new == [server[s] EXCEPT !.jin = next]
<1>3. new \in ServerStates
  BY <1>1, Fields DEF Jins
<1>4. /\ new.pc = server[s].pc /\ new.why = server[s].why /\ new.step = server[s].step
      /\ new.domain = server[s].domain /\ new.hub = server[s].hub /\ new.inserted = server[s].inserted
      /\ new.jin = next /\ new.shutdown = server[s].shutdown /\ new.db = server[s].db
      /\ new.late = server[s].late /\ new.timedOut = server[s].timedOut
  BY <1>1, States
<1>5. server'[s] = new /\ AtWork(s)' = AtWork(s) /\ (Sound(s)' => IInv')
  BY <1>2, <1>3, StepKeeps DEF IInv, TypeOK
<1> HIDE DEF new
<1>6. Sound(s)'
  <2>1. (StartFailsForAReason(s) /\ LocksHeld(s) /\ CountStillTrue(s))'
    BY <1>1, <1>2, <1>4, <1>5 DEF Sound, StartFailsForAReason, LocksHeld, CountStillTrue
  <2>2. (TablesExist(s) /\ AdministratorExists(s))'
    BY <1>1, <1>2, <1>4, <1>5 DEF Sound, TablesExist, AdministratorExists, Assembled
  <2>3. (DependenciesMapped(s) /\ PoolOpen(s))'
    BY <1>1, <1>2, <1>4, <1>5 DEF Sound, DependenciesMapped, PoolOpen
  <2>4. IngressClosed(s)'
    BY <1>1, <1>2, <1>4, <1>5 DEF Sound, IngressClosed
  <2> QED
    BY <2>1, <2>2, <2>3, <2>4 DEF Sound
<1> QED
  BY <1>5, <1>6

\* After jin the other modules stop, the database in the fifth step.
LEMMA StopOthersInv == ASSUME IInv, NEW s \in Servers, StopOthers(s) PROVE IInv'
<1>1. PICK m \in {"frontend", "backend", "git", "sql"} :
         /\ Stopping(s, m)
         /\ Set(s, [Stopped(s) EXCEPT !.db = @ /\ m # "sql"])
         /\ UNCHANGED <<request, schema, users, locked>>
  BY DEF StopOthers, Database
<1>2. /\ server[s] \in ServerStates /\ Sound(s) /\ server[s].pc = "stop"
      /\ server[s].step \in 2 .. 5 /\ (m = "sql" <=> server[s].step = 5)
  <2>1. server[s] \in ServerStates /\ Sound(s) /\ server[s].pc = "stop"
    BY <1>1 DEF IInv, TypeOK, Stopping, At
  <2>2. server[s].step \in 1 .. 5 /\ StopOrder[server[s].step] = m
    BY <1>1, <2>1, Lengths, States DEF Stopping
  <2> QED
    BY <2>1, <2>2 DEF StopOrder
<1> DEFINE db == server[s].db /\ m # "sql"
           step == server[s].step + 1
           new == [server[s] EXCEPT !.pc = "stop", !.step = step, !.db = db]
<1>3. Set(s, new)
  BY <1>1 DEF Stopped
<1>4. db \in BOOLEAN /\ step \in 3 .. 6 /\ (step <= 5 /\ server[s].db => db)
  BY <1>2, States
<1> HIDE DEF db
<1>5. new \in ServerStates
  <2>1. "stop" \in Pcs /\ step \in 1 .. 21
    BY <1>4 DEF Pcs, Running
  <2>2. [server[s] EXCEPT !.pc = "stop"] \in ServerStates
    BY <1>2, <2>1, Fields
  <2>3. [[server[s] EXCEPT !.pc = "stop"] EXCEPT !.step = step] \in ServerStates
    BY <2>1, <2>2, Fields
  <2> QED
    BY <1>4, <2>3, Flags
<1>6. /\ new.pc = "stop" /\ new.why = server[s].why /\ new.step = step
      /\ new.inserted = server[s].inserted /\ new.jin = server[s].jin
      /\ new.shutdown = server[s].shutdown /\ new.db = db
      /\ new.late = server[s].late /\ new.timedOut = server[s].timedOut
  BY <1>2, States
<1> HIDE DEF new
<1>7. server'[s] = new /\ AtWork(s)' = AtWork(s) /\ (Sound(s)' => IInv')
  BY <1>1, <1>3, <1>5, StepKeeps DEF IInv, TypeOK
<1>8. Sound(s)'
  <2>1. (StartFailsForAReason(s) /\ LocksHeld(s) /\ CountStillTrue(s))'
    BY <1>2, <1>6, <1>7 DEF Sound, StartFailsForAReason, LocksHeld, CountStillTrue
  <2>2. (TablesExist(s) /\ AdministratorExists(s))'
    BY <1>1, <1>2, <1>6, <1>7 DEF Sound, TablesExist, AdministratorExists, Assembled, Running
  <2>3. (DependenciesMapped(s) /\ PoolOpen(s))'
    BY <1>2, <1>4, <1>6, <1>7 DEF Sound, DependenciesMapped, PoolOpen, Migrating, Bootstrapping
  <2>4. IngressClosed(s)'
    BY <1>2, <1>4, <1>6, <1>7 DEF Sound, IngressClosed, Running
  <2> QED
    BY <2>1, <2>2, <2>3, <2>4 DEF Sound
<1> QED
  BY <1>7, <1>8

-----------------------------------------------------------------------------
(* Steps that touch the requests of one server.                            *)

RequestStates == {"none", "queued", "running", "querying", "done", "failed", "cut"}

LEMMA RequestsKeep ==
    ASSUME IInv, NEW s \in Servers, UNCHANGED <<schema, users, locked>>,
           server' \in [Servers -> ServerStates],
           \A t \in Servers \ {s} : server'[t] = server[t],
           NEW new \in [Requests -> RequestStates],
           request' = [request EXCEPT ![s] = new]
    PROVE  /\ AtWork(s)' = {r \in Requests : new[r] \in {"running", "querying"}}
           /\ Sound(s)' => IInv'
<1>1. /\ request'[s] = new /\ \A t \in Servers \ {s} : request'[t] = request[t]
      /\ request' \in [Servers -> [Requests -> RequestStates]]
  BY DEF IInv, TypeOK, RequestStates
<1>2. TypeOK'
  BY <1>1 DEF IInv, TypeOK, RequestStates
<1>3. ASSUME NEW t \in Servers \ {s} PROVE Sound(t)'
  BY <1>1, OthersKeep DEF IInv
<1> QED
  BY <1>1, <1>2, <1>3 DEF IInv, AtWork

LEMMA ConnectInv == ASSUME IInv, NEW s \in Servers, NEW r \in Requests, Connect(s, r) PROVE IInv'
<1> DEFINE now == IF server[s].jin \in {"matched", "serving"} THEN "queued" ELSE "cut"
           new == [request[s] EXCEPT ![r] = now]
<1>1. /\ request[s] \in [Requests -> RequestStates] /\ server \in [Servers -> ServerStates]
      /\ Sound(s) /\ request[s][r] = "none"
  BY DEF IInv, TypeOK, RequestStates, Connect
<1>2. request' = [request EXCEPT ![s] = new] /\ UNCHANGED <<server, schema, users, locked>>
  BY DEF Connect, Database
<1>3. new \in [Requests -> RequestStates]
  BY <1>1 DEF RequestStates
<1>4. AtWork(s)' = {q \in Requests : new[q] \in {"running", "querying"}} /\ (Sound(s)' => IInv')
  BY <1>1, <1>2, <1>3, RequestsKeep
<1>5. AtWork(s)' = AtWork(s)
  BY <1>1, <1>4 DEF AtWork
<1>6. IngressClosed(s)'
  BY <1>1, <1>2, <1>5 DEF Sound, IngressClosed
<1>7. Sound(s)'
  BY ZenonT(60), <1>1, <1>2, <1>6 DEF Sound, StartFailsForAReason, LocksHeld, CountStillTrue, TablesExist,
       Assembled, AdministratorExists, DependenciesMapped, PoolOpen
<1> QED
  BY <1>4, <1>7

\* A handler starts only while jin serves.
LEMMA HandleInv == ASSUME IInv, NEW s \in Servers, NEW r \in Requests, Handle(s, r) PROVE IInv'
<1>1. /\ request[s] \in [Requests -> RequestStates] /\ server \in [Servers -> ServerStates]
      /\ Sound(s)
  BY DEF IInv, TypeOK, RequestStates
<1>2. PICK now \in {"running", "querying", "failed", "done"} :
         request' = [request EXCEPT ![s][r] = now]
  BY DEF Handle
<1> DEFINE new == [request[s] EXCEPT ![r] = now]
<1>3. request' = [request EXCEPT ![s] = new] /\ UNCHANGED <<server, schema, users, locked>>
  BY <1>2 DEF Handle, Database
<1>4. new \in [Requests -> RequestStates]
  BY <1>1 DEF RequestStates
<1>5. AtWork(s)' = {q \in Requests : new[q] \in {"running", "querying"}} /\ (Sound(s)' => IInv')
  BY <1>1, <1>3, <1>4, RequestsKeep
<1>6. server[s].jin = "serving" \/ AtWork(s) # {}
  BY DEF Handle, AtWork
<1>7. IngressClosed(s)'
  BY <1>1, <1>3, <1>6 DEF Sound, IngressClosed
<1>8. Sound(s)'
  BY ZenonT(60), <1>1, <1>3, <1>7 DEF Sound, StartFailsForAReason, LocksHeld, CountStillTrue, TablesExist,
       Assembled, AdministratorExists, DependenciesMapped, PoolOpen
<1> QED
  BY <1>5, <1>8

-----------------------------------------------------------------------------
(* Stop closes the ingress: two ways, as it sees the server of jin or not.  *)

LEMMA StopJinInv == ASSUME IInv, NEW s \in Servers, StopJin(s) PROVE IInv'
<1>1. /\ server[s] \in ServerStates /\ Sound(s) /\ TypeOK
      /\ server[s].pc = "stop" /\ server[s].step = 1
  <2>1. /\ server[s] \in ServerStates /\ Sound(s) /\ TypeOK /\ server[s].pc = "stop"
        /\ server[s].step \in 1 .. 5 /\ StopOrder[server[s].step] = "jin"
    BY Lengths, States DEF IInv, TypeOK, StopJin, Stopping, At
  <2> QED
    BY <2>1 DEF StopOrder
<1>2. CASE /\ Set(s, [Stopped(s) EXCEPT !.late = TRUE])
           /\ UNCHANGED <<request, schema, users, locked>>
  <2> DEFINE new == [server[s] EXCEPT !.pc = "stop", !.step = 2, !.late = TRUE]
  <2>1. Set(s, new)
    BY <1>1, <1>2 DEF Stopped
  <2>2. new \in ServerStates
    <3>1. "stop" \in Pcs /\ 2 \in 1 .. 21 /\ TRUE \in BOOLEAN
      BY DEF Pcs, Running
    <3>2. [server[s] EXCEPT !.pc = "stop"] \in ServerStates
      BY <1>1, <3>1, Fields
    <3>3. [[server[s] EXCEPT !.pc = "stop"] EXCEPT !.step = 2] \in ServerStates
      BY <3>1, <3>2, Fields
    <3> QED
      BY <3>1, <3>3, Flags
  <2>3. /\ new.pc = "stop" /\ new.why = server[s].why /\ new.step = 2
        /\ new.inserted = server[s].inserted /\ new.jin = server[s].jin
        /\ new.shutdown = server[s].shutdown /\ new.db = server[s].db /\ new.late
    BY <1>1, States
  <2> HIDE DEF new
  <2>4. server'[s] = new /\ AtWork(s)' = AtWork(s) /\ (Sound(s)' => IInv')
    BY <1>1, <1>2, <2>1, <2>2, StepKeeps DEF IInv, TypeOK
  <2>5. Sound(s)'
    <3>1. (StartFailsForAReason(s) /\ LocksHeld(s) /\ CountStillTrue(s))'
      BY <1>1, <2>3, <2>4 DEF Sound, StartFailsForAReason, LocksHeld, CountStillTrue
    <3>2. (TablesExist(s) /\ AdministratorExists(s))'
      BY <1>1, <1>2, <2>3, <2>4 DEF Sound, TablesExist, AdministratorExists, Assembled, Running
    <3>3. (DependenciesMapped(s) /\ PoolOpen(s))'
      BY <1>1, <2>3, <2>4 DEF Sound, DependenciesMapped, PoolOpen, Migrating, Bootstrapping
    <3>4. IngressClosed(s)'
      BY <1>1, <2>3, <2>4 DEF Sound, IngressClosed, Running
    <3> QED
      BY <3>1, <3>2, <3>3, <3>4 DEF Sound
  <2> QED
    BY <2>4, <2>5
<1>3. CASE /\ Set(s, [server[s] EXCEPT !.pc = "drain", !.shutdown = TRUE, !.listener = FALSE,
                                       !.jin = IF @ = "serving" THEN "returned" ELSE @])
           /\ CutQueued(s) /\ UNCHANGED <<schema, users, locked>>
  <2> DEFINE jin == IF server[s].jin = "serving" THEN "returned" ELSE server[s].jin
             new == [server[s] EXCEPT !.pc = "drain", !.shutdown = TRUE, !.listener = FALSE,
                                      !.jin = jin]
             cut == [r \in Requests |-> IF request[s][r] = "queued" THEN "cut" ELSE request[s][r]]
  <2>1. Set(s, new) /\ request' = [request EXCEPT ![s] = cut]
    BY <1>3 DEF CutQueued
  <2>2. cut \in [Requests -> RequestStates]
    BY <1>1 DEF TypeOK, RequestStates
  <2>3. jin \in Jins /\ jin # "serving"
    BY <1>1, States DEF Jins
  <2> HIDE DEF jin
  <2>4. new \in ServerStates
    <3>1. "drain" \in Pcs /\ TRUE \in BOOLEAN /\ FALSE \in BOOLEAN
      BY DEF Pcs, Running
    <3>2. [server[s] EXCEPT !.pc = "drain"] \in ServerStates
      BY <1>1, <3>1, Fields
    <3>3. [[server[s] EXCEPT !.pc = "drain"] EXCEPT !.shutdown = TRUE] \in ServerStates
      BY <3>1, <3>2, Flags
    <3>4. [[[server[s] EXCEPT !.pc = "drain"] EXCEPT !.shutdown = TRUE] EXCEPT !.listener = FALSE]
             \in ServerStates
      BY <3>1, <3>3, Flags
    <3> QED
      BY <2>3, <3>4, Fields
  <2>5. /\ new.pc = "drain" /\ new.why = server[s].why /\ new.step = 1
        /\ new.inserted = server[s].inserted /\ new.jin = jin
        /\ new.shutdown /\ new.db = server[s].db
    BY <1>1, States
  <2> HIDE DEF new
  <2>6. /\ server' \in [Servers -> ServerStates] /\ server'[s] = new
        /\ \A t \in Servers \ {s} : server'[t] = server[t]
    BY <1>1, <2>1, <2>4 DEF TypeOK, Set
  <2>7. AtWork(s)' = {r \in Requests : cut[r] \in {"running", "querying"}} /\ (Sound(s)' => IInv')
    BY <1>3, <2>1, <2>2, <2>6, RequestsKeep
  <2>8. Sound(s)'
    <3>1. (StartFailsForAReason(s) /\ LocksHeld(s) /\ CountStillTrue(s))'
      BY <1>1, <2>5, <2>6 DEF Sound, StartFailsForAReason, LocksHeld, CountStillTrue
    <3>2. (TablesExist(s) /\ AdministratorExists(s))'
      BY <1>1, <1>3, <2>5, <2>6 DEF Sound, TablesExist, AdministratorExists, Assembled, Running
    <3>3. (DependenciesMapped(s) /\ PoolOpen(s))'
      BY <1>1, <2>5, <2>6 DEF Sound, DependenciesMapped, PoolOpen, Migrating, Bootstrapping
    <3>4. IngressClosed(s)'
      BY <1>1, <2>3, <2>5, <2>6 DEF Sound, IngressClosed, Running
    <3> QED
      BY <3>1, <3>2, <3>3, <3>4 DEF Sound
  <2> QED
    BY <2>7, <2>8
<1> QED
  BY <1>2, <1>3 DEF StopJin, Database

-----------------------------------------------------------------------------
(* The theorems.                                                           *)

LEMMA InitInv == Init => IInv
<1> SUFFICES ASSUME Init PROVE IInv
  OBVIOUS
<1>1. TypeOK
  BY DownState DEF Init, TypeOK
<1>2. ASSUME NEW s \in Servers PROVE Sound(s)
  <2>1. server[s] = Down /\ AtWork(s) = {}
    BY DEF Init, AtWork
  <2> QED
    BY <2>1 DEF Down, Sound, StartFailsForAReason, LocksHeld, CountStillTrue, TablesExist,
       Assembled, AdministratorExists, DependenciesMapped, Mapped, PoolOpen, IngressClosed,
       Running, Migrating, Bootstrapping
<1> QED
  BY <1>1, <1>2 DEF IInv

\* Assemble, MigrateDomain and InsertAdministrator never end the process.
LEMMA NextInv == IInv /\ [Next]_vars => IInv'
<1> SUFFICES ASSUME IInv, [Next]_vars PROVE IInv'
  OBVIOUS
<1>1. ASSUME NEW s \in Servers, Progress(s) PROVE IInv'
  <2>1. ASSUME Listen(s) \/ Assemble(s) PROVE IInv'
    BY <2>1, ListenInv, AssembleInv
  <2>2. ASSUME LockMigration(s) \/ MigrateDomain(s) \/ UnlockMigration(s) PROVE IInv'
    BY <2>2, LockMigrationInv, MigrateDomainInv, UnlockMigrationInv
  <2>3. ASSUME LockBootstrap(s) \/ CountUsers(s) \/ InsertAdministrator(s) \/ CommitBootstrap(s)
        PROVE  IInv'
    BY <2>3, LockBootstrapInv, CountUsersInv, InsertAdministratorInv, CommitBootstrapInv
  <2>4. ASSUME StartModules(s) \/ ServeMux(s) \/ StartJin(s) PROVE IInv'
    BY <2>4, StartModulesInv, ServeMuxInv, StartJinInv
  <2>5. ASSUME StopJin(s) \/ Drained(s) \/ DrainTimeout(s) \/ StopOthers(s) PROVE IInv'
    BY <2>5, StopJinInv, DrainedInv, DrainTimeoutInv, StopOthersInv
  <2>6. ASSUME Return(s) PROVE IInv'
    BY <2>6, EndedInv DEF Return
  <2> QED
    BY <1>1, <2>1, <2>2, <2>3, <2>4, <2>5, <2>6 DEF Progress
<1>2. ASSUME NEW s \in Servers, Fail(s) \/ Kill(s) PROVE IInv'
  BY <1>2, EndedInv DEF Fail, Kill
<1>3. ASSUME NEW s \in Servers, Signal(s) PROVE IInv'
  BY <1>3, SignalInv
<1>4. ASSUME NEW s \in Servers, NEW r \in Requests, Connect(s, r) \/ Handle(s, r) PROVE IInv'
  BY <1>4, ConnectInv, HandleInv
<1>5. CASE UNCHANGED vars
  <2>1. ASSUME NEW s \in Servers PROVE Sound(s)'
    BY <1>5, <2>1, OthersKeep DEF IInv, vars
  <2>2. TypeOK'
    BY <1>5 DEF IInv, TypeOK, vars
  <2> QED
    BY <2>1, <2>2 DEF IInv
<1> QED
  BY <1>1, <1>2, <1>3, <1>4, <1>5 DEF Next

\* The invariant holds for any number of servers, requests and starts.
THEOREM Invariance == Spec => []IInv
  BY InitInv, NextInv, PTL DEF Spec

\* Every state of servers, requests and database is one of its kind.
THEOREM TypeCorrect == Spec => []TypeOK
<1>1. IInv => TypeOK
  BY DEF IInv
<1> QED
  BY <1>1, Invariance, PTL

\* StartModule (kernel.go) and Bootstrap (dao/bootstrap.go): a server does not fail
\* to start for want of a dependency or a table, nor because another was first.
THEOREM StartCorrect == Spec => []StartsFailForAReason
<1>1. IInv => StartsFailForAReason
  BY DEF IInv, Sound, StartFailsForAReason, StartsFailForAReason
<1> QED
  BY <1>1, Invariance, PTL

\* Stop (kernel.go, jin/mod.go): handlers have their tables, an administrator and,
\* unless Shutdown timed out or missed the server, an open pool.
THEOREM HandlersCorrect == Spec => []HandlersHaveDatabase
<1>1. ASSUME IInv PROVE HandlersHaveDatabase
  <2> SUFFICES ASSUME NEW s \in Servers, AtWork(s) # {}
               PROVE  /\ \A d \in DOMAIN Domains : Domains[d] \in schema
                      /\ users # {}
                      /\ server[s].db \/ server[s].timedOut \/ server[s].late
    BY DEF HandlersHaveDatabase
  <2>1. server[s] \in ServerStates /\ Sound(s)
    BY <1>1 DEF IInv, TypeOK
  <2>2. server[s].pc \in Running /\ server[s].step \in 1 .. 21
    BY <2>1, States DEF Sound, IngressClosed
  <2>3. (\A d \in DOMAIN Domains : Domains[d] \in schema) /\ users # {}
    BY <2>1, <2>2 DEF Sound, TablesExist, AdministratorExists, Assembled
  <2>4. server[s].db \/ server[s].timedOut \/ server[s].late
    BY <2>1, <2>2 DEF Sound, PoolOpen, IngressClosed, Running
  <2> QED
    BY <2>3, <2>4
<1> QED
  BY <1>1, Invariance, PTL
=============================================================================
